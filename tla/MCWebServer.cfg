SPECIFICATION MCFairSpec
CONSTANTS
    Streams = {s1, s2}
    NoStream = NoStream
    Switchers = {"server_task", "wifi_connect_task"}
    RetryTurns = 10
    ReannounceTurns = 30
    ReannounceCount = 3
    Stoppers = {"server_task", "wifi_connect_task"}
    Found = {"a", "b"}
    NewLine = "newline"
    Nul = "nul"
    Capacity = 6
    SsidLen = 3
    PageParts <- ScanPageParts
    PageSize = 12
    MaxReports = 3
    Entries <- FormEntries
    PasswordName <- Password
    Submit <- SubmitButton
    Commands <- CommandBodies
    SsidSize = 32
    PwdSize = 64
INVARIANTS
    StreamSafe
    Advertising
    ScanListed
    FormTaken
PROPERTIES
    NoTornUpdate
    StreamServed
    AnsweredInTheEnd
