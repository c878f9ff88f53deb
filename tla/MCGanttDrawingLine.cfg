\* Two collaborating clients over two task records: concurrent links into
\* the same cell, and two-task cycles.
CONSTANTS
    c1 = c1
    c2 = c2
    r1 = r1
    r2 = r2
    r3 = r3
    NoRecord = NoRecord
    NoTarget = NoTarget
    Clients = {c1, c2}
    Records = {r1, r2}
    StartDate <- MCStartDate
    EndDate <- MCEndDate
    MaxLinks = 2

SYMMETRY ClientSymmetry

SPECIFICATION Spec

INVARIANT TypeOK
INVARIANT LimitRespected
INVARIANT NoSelfLink
PROPERTY ImplementsLinkStore
