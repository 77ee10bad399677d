\* Two chains may be under way; the page may be popped, and then it stops.  Two
\* overlays are enough for two chains to overlap.
CONSTANTS
    Views = {v1, v2}
    NoView = NoView
    Toasts = {t1}
    NoModal = NoModal
    Alert = Alert
    Wanted = 2
    Own = 2
    KindDocs <- MCKindDocs
    CategoryDocs <- MCCategoryDocs
    LoadIds = {q1, q2}
    MaxLists = 2
SPECIFICATION FairSpec
CHECK_DEADLOCK FALSE
INVARIANTS
    PageInv
    IndexMatchesFirstChain
    TrapsExplained
    RecommendsOthers
PROPERTIES
    FirstChainStays
    ReleasedOrStranded
