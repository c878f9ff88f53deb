\* Answers in any order for up to three thunk calls.
CONSTANTS
    s1 = s1
    s2 = s2
    Spaces <- MCSpaces
    NoSpace = NoSpace
    NoUser = NoUser
    NoErr = NoErr
    MaxRequests = 3

SYMMETRY SpaceSymmetry

SPECIFICATION Spec

PROPERTY ImplementsSessionStore

\* Once the calls are spent and answered, nothing is left to happen.
CHECK_DEADLOCK FALSE
