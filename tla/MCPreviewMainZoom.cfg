\* A zoom before the image has reported its actual scale.
CONSTANTS
    NFiles = 3
    DocFiles <- MCDocFiles
    OfficePreviewEnable = TRUE
    NoUrl = NoUrl
    MaxFetches = 4
    ZoomScales <- MCZoomScales
    ActualScales <- MCActualScales
    MaxRotate = 180

SPECIFICATION Spec

INVARIANT ScalePositive
