\* Three overlays (so three overlapping loads), two toasts, a queue of four.
CONSTANTS
    Views = {v1, v2, v3}
    NoView = NoView
    TuanGoLists = {empty, l1}
    EmptyList = empty
    Toasts = {t1, t2}
    NoModal = NoModal
    Alert = Alert
    MaxBlocks = 4
SPECIFICATION HomeFairSpec
INVARIANTS
    HomeInv
PROPERTIES
    OrphansStay
    ImplementsContract
    ToastEnds
