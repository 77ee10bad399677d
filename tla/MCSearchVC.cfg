\* Two names to tell results apart, popular or not, and two searches at once;
\* the history is written out or lost at any time.
CONSTANTS
    Names = {"a", "b"}
    Views = {v1, v2}
    NoView = NoView
    Toasts = {}
    NoModal = NoModal
    Alert = Alert
    HotSearches <- MCHotSearches
    NoResult = "none"
    MaxSearches = 2
    MaxBlocks = 2
    MaxViews = 3
SPECIFICATION Spec
SYMMETRY Symmetry
INVARIANTS
    TypeOK
    TapOpensShown
    TrapsExplained
    BlankMeansLateAnswer
PROPERTIES
    OrderKept
    ImplementsContract
