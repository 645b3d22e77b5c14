\* Two workers that may fail to start, a ring of 1 slot that grows to 2, two
\* dispatches of either kind, cancellation at any moment.
CONSTANTS
    w1 = w1
    w2 = w2
    main = main
    Workers = {w1, w2}
    Main = main
    InitCap = 1
    MaxCap = 2
    Grain = 2
    U32 = 16
    Totals = {5}
    Counts = {2}
    MaxElems = 5
    MaxDispatches = 2
SPECIFICATION FairSpec
INVARIANTS TypeOK OwnSlot Quiescent ExactlyOnce
PROPERTIES ForkJoinImplemented MainReturns
