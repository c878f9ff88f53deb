\* A late answer for a file the user has left.
CONSTANTS
    NFiles = 3
    DocFiles <- MCDocFiles
    OfficePreviewEnable = TRUE
    NoUrl = NoUrl
    MaxFetches = 4
    ZoomScales <- MCZoomScales
    ActualScales <- MCActualScales
    MaxRotate = 180

SPECIFICATION Spec

INVARIANT PreviewUrlMatchesActive
