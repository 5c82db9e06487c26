\* A search over four sizes on paths that carry the base or all but the largest,
\* two changes of path, losses and late probes; two addresses, three challenges
\* and one call of InitiatePathMigration.
CONSTANTS
    SafeDatagramSize = 2
    MaxDatagramSize = 5
    MTUSearchStep = 1
    MTUProbeTries = 2
    BlackholePackets = 2
    Capacities = {2, 4}
    BlackholePTOs = 2
    MaxProbes = 2
    MaxChanges = 2
    Addrs = {a1, a2}
    Home = a1
    NoAddr = none
    Challenges = {d1, d2, d3}
    MaxMoves = 2
    MaxCalls = 1
SPECIFICATION MCSpec
INVARIANTS SearchNarrows SearchFinds
PROPERTIES  SearchEnds  FindsPeer
