------------------------------ MODULE WifiScan ------------------------------
(***************************************************************************)
(* The list of networks on the provisioning page (source/web_server.c).    *)
(* The handler of the page clears the shared buffer ssid_buff, starts a    *)
(* scan and waits for a flag; scan_callback, in a thread of the connection *)
(* manager, appends each network found and sets the flag at the end.  The  *)
(* write position is a static of the callback that only a completed scan   *)
(* sets back.  A name is abstracted to its length and to the network it    *)
(* is of.                                                                  *)
(***************************************************************************)
EXTENDS Integers, Sequences

CONSTANTS
    Found,       \* the networks in reach
    NewLine, Nul,
    Capacity,    \* sizeof(ssid_buff)
    SsidLen,     \* WIFI_SSID_LEN
    PageParts,   \* the lengths of the three constant parts of the page
    PageSize,    \* sizeof(http_scan_response)
    MaxReports   \* results of a scan (bound of the model)

ASSUME CellsAssumption == NewLine \notin Found /\ Nul \notin Found \cup {NewLine}
ASSUME ScanSizesAssumption ==
    /\ Capacity \in Nat \ {0} /\ SsidLen \in Nat /\ MaxReports \in Nat
    /\ PageParts \in [1 .. 3 -> Nat]
    /\ PageSize \in Nat /\ PageSize >= PageParts[1] + PageParts[2] + PageParts[3] + Capacity

VARIABLES
    ssid_buff, len, scan_complete_flag,
    scanning,    \* the connection manager is scanning
    callback,    \* where scan_callback stands
    scanHandler, \* where scan_for_available_aps stands
    page,        \* the list in the response
    response_len,
    results,     \* the number of results of this scan so far
    listing,     \* and the list of all of them, each name on a line of its own
    scanHalted   \* PRINT_AND_ASSERT failed

bufferVars == <<ssid_buff, len>>
responseVars == <<page, response_len>>
historyVars == <<results, listing>>
scanVars == <<bufferVars, scan_complete_flag, scanning, callback, scanHandler,
              responseVars, historyVars, scanHalted>>

Positions == 0 .. Capacity - 1
Free == Capacity - 1 - len    \* room before the terminating NUL

ScanInit ==
    /\ ssid_buff = [i \in Positions |-> Nul]
    /\ len = 0
    /\ scan_complete_flag = FALSE
    /\ scanning = FALSE
    /\ callback = "idle" /\ scanHandler = "idle"
    /\ page = <<>> /\ response_len = 0
    /\ results = 0 /\ listing = <<>>
    /\ scanHalted = FALSE

-----------------------------------------------------------------------------
(* scan_callback.                                                          *)

\* Mutant: the position is not moved past the line end.
AppendNameOverwritten(r, n) ==
    LET k == IF n > Free THEN Free ELSE n
        end == IF k < Free THEN len + k + 1 ELSE len + k
    IN  /\ ssid_buff' = [i \in Positions |->
                           IF i >= len /\ i < len + k THEN r
                           ELSE IF i = len + k /\ end > i THEN NewLine
                           ELSE IF i = end THEN Nul ELSE ssid_buff[i]]
        /\ len' = len + k

\* The name as far as there is room, and a line end if there is room for it too.
AppendName(r, n) ==
    LET k == IF n > Free THEN Free ELSE n
        end == IF k < Free THEN len + k + 1 ELSE len + k
    IN  /\ ssid_buff' = [i \in Positions |->
                           IF i >= len /\ i < len + k THEN r
                           ELSE IF i = len + k /\ end > i THEN NewLine
                           ELSE IF i = end THEN Nul ELSE ssid_buff[i]]
        /\ len' = end

\* CY_WCM_SCAN_INCOMPLETE; a hidden network has no name.
Result(r, n) ==
    /\ scanning /\ callback = "idle"
    /\ results < MaxReports
    /\ results' = results + 1
    /\ listing' = IF n = 0 THEN listing ELSE listing \o [i \in 1 .. n |-> r] \o <<NewLine>>
    /\ IF n # 0 /\ len < Capacity - 1 THEN AppendName(r, n) ELSE UNCHANGED bufferVars
    /\ UNCHANGED <<scan_complete_flag, scanning, callback, scanHandler, responseVars,
                   scanHalted>>

\* Mutant: a scan without a result is not taken for complete.
CompleteIfFound ==
    /\ scanning /\ callback = "idle"
    /\ ssid_buff' = [ssid_buff EXCEPT ![len] = Nul]
    /\ scan_complete_flag' = (len # 0)
    /\ scanning' = FALSE
    /\ callback' = "reset"
    /\ UNCHANGED <<len, scanHandler, responseVars, historyVars, scanHalted>>

\* CY_WCM_SCAN_COMPLETE: the flag goes up before the position goes back.
Complete ==
    /\ scanning /\ callback = "idle"
    /\ ssid_buff' = [ssid_buff EXCEPT ![len] = Nul]
    /\ scan_complete_flag' = TRUE
    /\ scanning' = FALSE
    /\ callback' = "reset"
    /\ UNCHANGED <<len, scanHandler, responseVars, historyVars, scanHalted>>

\* Mutant: the position is left to the next scan.
CompleteKeepsPosition ==
    /\ callback = "reset"
    /\ callback' = "idle"
    /\ UNCHANGED <<bufferVars, scan_complete_flag, scanning, scanHandler, responseVars,
                   historyVars, scanHalted>>

CompleteResets ==
    /\ callback = "reset"
    /\ len' = 0
    /\ callback' = "idle"
    /\ UNCHANGED <<ssid_buff, scan_complete_flag, scanning, scanHandler, responseVars,
                   historyVars, scanHalted>>

-----------------------------------------------------------------------------
(* scan_for_available_aps.                                                 *)

Get ==
    /\ scanHandler = "idle"
    /\ ssid_buff' = [i \in Positions |-> Nul]
    /\ page' = <<>> /\ response_len' = 0
    /\ scan_complete_flag' = FALSE
    /\ scanHandler' = "start"
    /\ UNCHANGED <<len, scanning, callback, historyVars, scanHalted>>

StartScan ==
    /\ scanHandler = "start"
    /\ scanning' = TRUE
    /\ results' = 0 /\ listing' = <<>>
    /\ scanHandler' = "wait"
    /\ UNCHANGED <<bufferVars, scan_complete_flag, callback, responseVars, scanHalted>>

\* The connection manager refuses; an assertion fails.
StartFails ==
    /\ scanHandler = "start"
    /\ scanHalted' = TRUE
    /\ UNCHANGED <<bufferVars, scan_complete_flag, scanning, callback, scanHandler,
                   responseVars, historyVars>>

\* Mutant: the terminating NUL is counted with each text.
AppendTextCountsNul(offset, length) ==
    IF offset >= PageSize THEN offset
    ELSE IF length >= PageSize - offset THEN PageSize - 1
    ELSE offset + length + 1

\* append_text: a text that does not fit is cut, and the offset says so.
AppendText(offset, length) ==
    IF offset >= PageSize THEN offset
    ELSE IF length >= PageSize - offset THEN PageSize - 1
    ELSE offset + length

\* A turn of the loop that waits for the flag.
Wait == scanHandler = "wait" /\ ~scan_complete_flag /\ UNCHANGED scanVars

\* What a reader of the string in the buffer gets: all up to the first NUL.
Text ==
    LET ends == {i \in Positions : ssid_buff[i] = Nul}
        end == CHOOSE i \in ends : \A j \in ends : i <= j
    IN  [i \in 1 .. end |-> ssid_buff[i - 1]]

Compose ==
    /\ scanHandler = "wait" /\ scan_complete_flag
    /\ page' = Text
    /\ response_len' =
           AppendText(AppendText(AppendText(AppendText(0, PageParts[1]), Len(Text)),
                                 PageParts[2]), PageParts[3])
    /\ scanHandler' = "write"
    /\ UNCHANGED <<bufferVars, scan_complete_flag, scanning, callback, historyVars,
                   scanHalted>>

\* The result of the write is only logged.
WriteResponse ==
    /\ scanHandler = "write"
    /\ scanHandler' = "idle"
    /\ UNCHANGED <<bufferVars, scan_complete_flag, scanning, callback, responseVars,
                   historyVars, scanHalted>>

-----------------------------------------------------------------------------
ScanStopped == scanHalted /\ UNCHANGED scanVars

CallbackStep == Complete \/ CompleteResets
ScanHandlerStep == StartScan \/ Wait \/ Compose \/ WriteResponse

ScanNext ==
    \/ /\ ~scanHalted
       /\ \/ \E r \in Found, n \in 0 .. SsidLen : Result(r, n)
          \/ CallbackStep
          \/ Get \/ StartFails
          \/ ScanHandlerStep
    \/ ScanStopped

ScanSpec == ScanInit /\ [][ScanNext]_scanVars

\* The connection manager ends every scan and the threads are scheduled.
ScanFairSpec ==
    /\ ScanSpec
    /\ WF_scanVars(~scanHalted /\ CallbackStep)
    /\ WF_scanVars(~scanHalted /\ ScanHandlerStep)

-----------------------------------------------------------------------------
ScanType ==
    /\ ssid_buff \in [Positions -> Found \cup {NewLine, Nul}]
    /\ len \in Positions
    /\ scan_complete_flag \in BOOLEAN /\ scanning \in BOOLEAN /\ scanHalted \in BOOLEAN
    /\ callback \in {"idle", "reset"}
    /\ scanHandler \in {"idle", "start", "wait", "write"}
    /\ page \in Seq(Found \cup {NewLine})
    /\ response_len \in Nat

\* During a scan the buffer is a string that ends at the position at the latest,
\* also when names have filled it to the last byte (lines 899 to 921).
Terminated == scanning => ssid_buff[len] = Nul

\* The page lists the results of the scan it was asked for, all of them in their
\* order as far as they fit, and nothing of a scan before (lines 921 to 975).
Fitting == IF Len(listing) < Capacity THEN Len(listing) ELSE Capacity - 1
PageListsThisScan == scanHandler = "write" => page = SubSeq(listing, 1, Fitting)

\* append_text cuts nothing of the page: the response ends with its last part,
\* however long the list is (lines 972 to 979).
PageWhole ==
    scanHandler = "write" =>
        response_len = PageParts[1] + Len(page) + PageParts[2] + PageParts[3]

\* Whatever a scan finds, the buffer stays a string within its bounds, the page
\* lists the results of its own scan as far as they fit, and the response ends
\* whole (scan_callback and scan_for_available_aps).
ScanListed == ScanType /\ Terminated /\ PageListsThisScan /\ PageWhole

\* Every request for the page is answered, unless the assertion fails.
Answered == scanHandler = "start" ~> scanHandler = "idle" \/ scanHalted
=============================================================================
