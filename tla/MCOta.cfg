SPECIFICATION Spec
CONSTANTS
    MaxBuild = 2
    MaxSideloads = 1
    MaxCrashes = 2
    Layouts <- MCLayouts
    Overlap = FALSE
    ByHand = FALSE
INVARIANTS ComesUp LiveIntact SideloadKept
