\* Four editors opened by the same page, each ended by close or save.
CONSTANTS
    Modals = {m1, m2, m3, m4}

SPECIFICATION Spec

INVARIANT TypeOK
INVARIANT NoCrash
INVARIANT ClosedModalRemoved
PROPERTY ImplementsLifecycle

\* Every editor ends once closed or saved; the page then has nothing to do.
CHECK_DEADLOCK FALSE
