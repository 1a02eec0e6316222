SPECIFICATION Spec
CONSTANTS
    t1 = t1
    t2 = t2
    op = op
    cancel = cancel
    old = old
    new = new
    None = None
    Tool <- MCTool
    Opener <- MCOpener
    Canceller <- MCCanceller
    Offers <- MCOffers
    Expected = old
    MaxIds = 3
SYMMETRY MCSymmetry
INVARIANTS PinnedSession ReportedSession FollowsRenaming
\* Every request is over.
CHECK_DEADLOCK FALSE
