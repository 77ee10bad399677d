\* Two overlapping loads are enough for the unwrap to fail.
CONSTANTS
    Views = {v1, v2}
    NoView = NoView
    TuanGoLists = {empty, l1}
    EmptyList = empty
    Toasts = {t1}
    NoModal = NoModal
    Alert = Alert
    MaxBlocks = 4
SPECIFICATION HomeSpec
INVARIANT ContainerIsThere
