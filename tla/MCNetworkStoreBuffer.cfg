SPECIFICATION MCSpec
CONSTANTS
    Ssids = {home, work, phone, guest}
    Pwds = {old, new}
    Capacity = 3
    MaxCounter = 5
    Blank = Blank
    Writers = {"server_task", "wifi_connect_task"}
    Images = {"r1", "r2"}
    NoImage = "blank"
    PageCount = 2
    RecordSize = 2
    MaxPageSize = 4
    Addresses = 13
    Bases <- StoreBases
    Infos <- PageInfos
INVARIANTS
    ProgramsItsRecord
SYMMETRY Symmetry
