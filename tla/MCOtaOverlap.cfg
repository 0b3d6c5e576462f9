SPECIFICATION Spec
CONSTANTS
    MaxBuild = 1
    MaxSideloads = 1
    MaxCrashes = 2
    Layouts <- MCLayouts
    Overlap = TRUE
    ByHand = FALSE
INVARIANTS SideloadKept
