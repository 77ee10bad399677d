\* Two places, so that an address can be that of a place left since; an empty
\* list of advertisements and one of two.  The feed is cut to what the others
\* share with it, the queue, the slot and the process: overlapping loads and
\* toasts are the business of MCHomeVC.cfg.
CONSTANTS
    Views = {v1}
    NoView = NoView
    TuanGoLists = {empty}
    EmptyList = empty
    Toasts = {}
    NoModal = NoModal
    Alert = Alert
    MaxBlocks = 2
    Places = {p1, p2}
    Nowhere = Nowhere
    ImageCounts = {0, 2}
SPECIFICATION AdFairSpec
INVARIANTS
    LocationTypeOK
    LabelIsCurrent
    CarouselInv
PROPERTIES
    FeedRuns
    ServicesOffAtLaunchIsFinal
    EveryImageTurns
    SearchEnds
