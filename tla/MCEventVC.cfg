\* A shop cell and a row cell; the screen may be popped, or trap for good.
CONSTANTS
    Cells = {"shop", "row"}
    ShopCells = {"shop"}
    URLs = {"u", "v"}
    InvalidURLs = {"bad"}
    Default = Default
    ShopURL = "u"
    Items <- MCItems
    Lists <- MCLists
    Toasts = {t1}
    NoModal = NoModal
    Alert = Alert
    MaxLoads = 2
    MaxRequests = 3
    MaxBlocks = 2
SPECIFICATION Spec
CHECK_DEADLOCK FALSE
INVARIANTS
    EventInv
PROPERTIES
    OnlyDownloadsOvertake
