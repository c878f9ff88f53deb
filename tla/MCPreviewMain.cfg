\* Navigation and transform reset over three files, two of them previewable.
CONSTANTS
    NFiles = 3
    DocFiles <- MCDocFiles
    OfficePreviewEnable = TRUE
    NoUrl = NoUrl
    MaxFetches = 4
    ZoomScales <- MCZoomScales
    ActualScales <- MCActualScales
    MaxRotate = 180

SPECIFICATION Spec

INVARIANT TypeOK
INVARIANT ActiveInRange
