\* Two getUserMe answers, the later-applied one for an account that needs a space.
CONSTANTS
    s1 = s1
    s2 = s2
    Spaces <- MCSpaces
    NoSpace = NoSpace
    NoUser = NoUser
    NoErr = NoErr
    MaxRequests = 2

SYMMETRY SpaceSymmetry

SPECIFICATION Spec

INVARIANT LoggedInUserComplete

CHECK_DEADLOCK FALSE
