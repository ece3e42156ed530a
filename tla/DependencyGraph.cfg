CONSTANTS
    a = a  b = b  c = c  d = d  ai = ai  a1 = a1
    a2 = a2  bi = bi  b2 = b2  c1 = c1  c1x = c1x  c2 = c2
    d2 = d2  needsB = needsB  needsC = needsC  noC = noC  noA2 = noA2  likesD = likesD
    exactC = exactC  wantA = wantA  breaksC = breaksC  s1 = s1  s2 = s2  s3 = s3  one = one
    two = two
    Worlds <- SomeWorlds
    Options <- SomeOptions
    Requests <- SomeRequests
SPECIFICATION Spec
INVARIANTS
    GraphMeansDependencies
    InstalledAreVertices
CHECK_DEADLOCK FALSE
