SPECIFICATION MCFairSpec
CONSTANTS
    Server = "server_task"
    Others = {"wifi_connect_task"}
    Screens = {"ready"}
    StatusTexts = {"closed", "open"}
    RowCount = 2
    StatusStart = 1
    MaxShows = 1
    MaxErrors = 1
    MaxNetworks = 8
    Letter = "letter"
    Space = "space"
    NewLine = "newline"
    Width = 128
    Height = 64
    CharWidth = 6
    StatusStartRow = 4
    LineSize = 24
    CopySize = 96
    Ssids <- DeviceSsids
    Reasons <- DeviceReasons
    Addresses <- DeviceAddresses
    HostNames <- DeviceHosts
    AccessPoint <- SoftAp
    BootLines <- Boots
    Statuses <- DeviceStatuses
INVARIANTS
    Legible
    ScreenComplete
    StartSafe
PROPERTIES
    ShownWhole
    StatusRecovers
    Starts
