CONSTANTS
    Cap = 1
    MaxUp = 4
    MaxDown = 2
CHECK_DEADLOCK FALSE
SPECIFICATION LTSpec
INVARIANTS
    UploadArrives
    DownloadArrives
PROPERTIES
    LeavingFreesTunnel
    BothEndsFreeHelper
