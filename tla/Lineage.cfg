CONSTANTS
    spec = spec
    decs = decs
    gen = gen
    src = src
    tests = tests
    bld = bld
    auth = auth
    act1 = act1
    act2 = act2
    dep1 = dep1
    dep2 = dep2
    obs = obs
    rec = rec
    d = d
    NoNode = NoNode
    NoCall = NoCall
    NodeIds = {spec, decs, gen, src, tests, bld, auth, act1, act2, dep1, dep2, obs, rec}
    Digests = {d}
    Nodes <- Offered
    Relations <- Told
    Histories <- Started
    Calls = {"c1"}
SPECIFICATION LineageSpec
CHECK_DEADLOCK FALSE
INVARIANTS
    CompleteIsContinuous
    RecordedVerdictHolds
