\* The tab (no category) and every instance pushed from HomeVC, which may be
\* popped; a trap or a pop stops the behaviour.
CONSTANTS
    Views = {v1, v2}
    NoView = NoView
    Toasts = {}
    NoModal = NoModal
    Alert = Alert
    Shops <- MCShops
    CategoryOf <- MCCategoryOf
    ScoreOf <- MCScoreOf
    Catalogues <- MCCatalogues
    NoCategory = NoCategory
SPECIFICATION FairSpec
CHECK_DEADLOCK FALSE
INVARIANTS
    ShopInv
    TrapsExplained
PROPERTIES
    ImplementsContract
