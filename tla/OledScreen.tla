----------------------------- MODULE OledScreen -----------------------------
(***************************************************************************)
(* The display as several tasks use it (source/display_status.c): the      *)
(* frame buffer and the I2C bus have no lock.  server_task initializes the *)
(* display and shows the screens of the modes and the live status, the     *)
(* task that connects shows its attempts, and the worker of the HTTP server*)
(* shows that it scans.  A screen is drawn row by row into the frame       *)
(* buffer, which is then sent in chunks (a chunk stands for a row); the    *)
(* controller of the panel keeps the position at which the next chunk goes.*)
(* What the rows contain is OledText's.                                    *)
(***************************************************************************)
EXTENDS Integers

CONSTANTS
    Server,       \* server_task
    Others,       \* the tasks that show screens beside it
    Screens,      \* the screens that are shown (bound of the model)
    StatusTexts,  \* the status texts
    RowCount, StatusStart,
    MaxShows,     \* screens shown by the other tasks (bound of the model)
    MaxErrors     \* writes that fail (bound of the model)

ASSUME TasksAssumption == Server \notin Others
ASSUME NumbersAssumption ==
    /\ RowCount \in Nat \ {0} /\ StatusStart \in 0 .. RowCount - 1
    /\ MaxShows \in Nat /\ MaxErrors \in Nat

Tasks == Others \cup {Server}
Row == 0 .. RowCount - 1
Nothing == "nothing"
Blank == <<Nothing, 0>>      \* an empty row
Noise == <<"noise", 0>>      \* a row of the panel before it is first written

VARIABLES
    oled_ready,
    bus,         \* the I2C block is "closed", "open", or "ready" with its configuration
    oled_buffer,
    status,      \* the text of the actuator
    station,     \* SERVER_RECONFIGURED: the loop shows the status
    at,          \* where a task stands in the functions of the display
    shown,       \* what it shows
    line,        \* its row: of the buffer, or the chunk it sends
    tx,          \* the chunk it has copied
    panel,       \* what the panel displays
    cursor,      \* the position of its controller
    shows, errors,
    undisturbed  \* history: no other task and no error since it began

driverVars == <<oled_ready, bus>>
panelVars == <<panel, cursor>>
taskVars == <<at, shown, line, tx, undisturbed>>
boundVars == <<shows, errors>>
vars == <<driverVars, oled_buffer, status, station, taskVars, panelVars, boundVars>>

Init ==
    /\ oled_ready = FALSE /\ bus = "closed"
    /\ oled_buffer = [r \in Row |-> Blank]
    /\ status \in StatusTexts /\ station = FALSE
    /\ at = [t \in Tasks |-> IF t = Server THEN "init" ELSE "idle"]
    /\ shown = [t \in Tasks |-> Nothing]
    /\ line = [t \in Tasks |-> 0]
    /\ tx = [t \in Tasks |-> Blank]
    /\ panel = [r \in Row |-> Noise]
    /\ cursor = 0
    /\ shows = 0 /\ errors = 0
    /\ undisturbed = [t \in Tasks |-> FALSE]

-----------------------------------------------------------------------------
(* A step of task t disturbs what the others have under way.               *)

Goes(t, place) == at' = [at EXCEPT ![t] = place]
Disturbs(t) == undisturbed' = [u \in Tasks |-> u = t /\ undisturbed[u]]

\* A write fails: the function returns.
Fails(t) ==
    /\ errors < MaxErrors
    /\ errors' = errors + 1
    /\ Goes(t, "idle")
    /\ shown' = [shown EXCEPT ![t] = Nothing]
    /\ tx' = [tx EXCEPT ![t] = Blank]
    /\ undisturbed' = [u \in Tasks |-> FALSE]

-----------------------------------------------------------------------------
(* display_status_init, before the other tasks exist.                      *)

OpenBus ==
    /\ at[Server] = "init"
    /\ \/ /\ bus' = "open" /\ Goes(Server, "configure")
          /\ UNCHANGED <<shown, tx, errors, undisturbed>>
       \/ Fails(Server) /\ UNCHANGED bus
    /\ UNCHANGED <<oled_ready, oled_buffer, status, station, line, panelVars, shows>>

ConfigureBus ==
    /\ at[Server] = "configure"
    /\ \/ /\ bus' = "ready" /\ Goes(Server, "sequence")
          /\ UNCHANGED <<shown, tx, errors, undisturbed>>
       \/ Fails(Server) /\ bus' = "closed"
    /\ UNCHANGED <<oled_ready, oled_buffer, status, station, line, panelVars, shows>>

\* The commands of init_sequence; then the empty buffer is flushed.
SendSequence ==
    /\ at[Server] = "sequence"
    /\ \/ /\ oled_ready' = TRUE
          /\ oled_buffer' = [r \in Row |-> Blank]
          /\ Goes(Server, "window")
          /\ UNCHANGED <<bus, shown, tx, errors, undisturbed>>
       \/ Fails(Server) /\ bus' = "closed" /\ UNCHANGED <<oled_ready, oled_buffer>>
    /\ UNCHANGED <<status, station, line, panelVars, shows>>

-----------------------------------------------------------------------------
(* oled_show_screen and display_status_show_sta_status.                    *)

Begins(t, what, first) ==
    /\ at[t] = "idle" /\ oled_ready
    /\ Goes(t, "clear")
    /\ shown' = [shown EXCEPT ![t] = what]
    /\ line' = [line EXCEPT ![t] = first]
    /\ undisturbed' = [u \in Tasks |-> u = t]
    /\ UNCHANGED <<driverVars, oled_buffer, status, tx, panelVars, errors>>

FirstRow(t) == IF shown[t] \in StatusTexts THEN StatusStart ELSE 0

\* A screen of the task that connects or of the HTTP worker.
ShowOther(t) ==
    /\ t \in Others /\ shows < MaxShows
    /\ shows' = shows + 1
    /\ \E s \in Screens : Begins(t, s, 0)
    /\ UNCHANGED station

\* The screens of boot and provisioning, and the one the station mode starts with.
ShowMode ==
    /\ \E s \in Screens : Begins(Server, s, 0)
    /\ station' \in IF station THEN {FALSE} ELSE BOOLEAN
    /\ UNCHANGED shows

\* The main loop shows the status in each turn.
ShowStatus ==
    /\ station
    /\ Begins(Server, status, StatusStart)
    /\ UNCHANGED <<station, shows>>

\* The actuator reports something else, between two turns of the loop.
StatusChanges ==
    /\ station /\ at[Server] = "idle"
    /\ status' \in StatusTexts \ {status}
    /\ UNCHANGED <<driverVars, oled_buffer, station, taskVars, panelVars, boundVars>>

InitialLine(t, place) == IF place = "draw" THEN FirstRow(t) ELSE 0

\* The next row, or after the last one the next part of the function.
Advance(t, place) ==
    IF line[t] < RowCount - 1
    THEN line' = [line EXCEPT ![t] = @ + 1] /\ UNCHANGED at
    ELSE line' = [line EXCEPT ![t] = InitialLine(t, place)] /\ Goes(t, place)

ClearRow(t) ==
    /\ at[t] = "clear"
    /\ oled_buffer' = [oled_buffer EXCEPT ![line[t]] = Blank]
    /\ Advance(t, "draw")
    /\ Disturbs(t)
    /\ UNCHANGED <<driverVars, status, station, shown, tx, panelVars, boundVars>>

DrawRow(t) ==
    /\ at[t] = "draw"
    /\ oled_buffer' = [oled_buffer EXCEPT ![line[t]] = <<shown[t], line[t]>>]
    /\ Advance(t, "window")
    /\ Disturbs(t)
    /\ UNCHANGED <<driverVars, status, station, shown, tx, panelVars, boundVars>>

-----------------------------------------------------------------------------
(* oled_flush and oled_write: the flush ends at the first error.           *)

\* Mutant: the flush goes on where the controller stands.
SetWindowNot(t) ==
    /\ at[t] = "window"
    /\ \/ /\ line' = [line EXCEPT ![t] = 0]
          /\ Goes(t, "copy") /\ Disturbs(t)
          /\ UNCHANGED <<shown, tx, errors>>
       \/ Fails(t) /\ UNCHANGED line
    /\ UNCHANGED <<driverVars, oled_buffer, status, station, panelVars, shows>>

\* address_window: the controller goes back to the start.
SetWindow(t) ==
    /\ at[t] = "window"
    /\ \/ /\ cursor' = 0
          /\ line' = [line EXCEPT ![t] = 0]
          /\ Goes(t, "copy") /\ Disturbs(t)
          /\ UNCHANGED <<shown, tx, errors>>
       \/ Fails(t) /\ UNCHANGED <<cursor, line>>
    /\ UNCHANGED <<driverVars, oled_buffer, status, station, panel, shows>>

CopyChunk(t) ==
    /\ at[t] = "copy"
    /\ tx' = [tx EXCEPT ![t] = oled_buffer[line[t]]]
    /\ Goes(t, "send") /\ Disturbs(t)
    /\ UNCHANGED <<driverVars, oled_buffer, status, station, shown, line, panelVars, boundVars>>

\* The controller takes the chunk at its own position; one that fails may have
\* arrived nevertheless.
Arrives(t) ==
    /\ panel' = [panel EXCEPT ![cursor] = tx[t]]
    /\ cursor' = (cursor + 1) % RowCount

LastChunk(t) == at[t] = "send" /\ line[t] = RowCount - 1

SendChunk(t) ==
    /\ at[t] = "send"
    /\ \/ /\ Arrives(t)
          /\ line' = [line EXCEPT ![t] = IF LastChunk(t) THEN 0 ELSE @ + 1]
          /\ Goes(t, IF LastChunk(t) THEN "idle" ELSE "copy")
          /\ shown' = [shown EXCEPT ![t] = IF LastChunk(t) THEN Nothing ELSE @]
          /\ tx' = [tx EXCEPT ![t] = Blank]
          /\ Disturbs(t)
          /\ UNCHANGED errors
       \/ Fails(t) /\ (Arrives(t) \/ UNCHANGED panelVars) /\ line' = [line EXCEPT ![t] = 0]
    /\ UNCHANGED <<driverVars, oled_buffer, status, station, shows>>

Step(t) == ClearRow(t) \/ DrawRow(t) \/ SetWindow(t) \/ CopyChunk(t) \/ SendChunk(t)

InitDisplay == OpenBus \/ ConfigureBus \/ SendSequence

\* Without a display its functions return at once and the loop goes on.
NoDisplay ==
    /\ at[Server] = "idle" /\ ~ oled_ready
    /\ station' \in {station, TRUE}
    /\ UNCHANGED <<driverVars, oled_buffer, status, taskVars, panelVars, boundVars>>

Next ==
    \/ InitDisplay
    \/ ShowMode \/ ShowStatus \/ StatusChanges \/ NoDisplay
    \/ \E t \in Others : ShowOther(t)
    \/ \E t \in Tasks : Step(t)

Spec == Init /\ [][Next]_vars

\* No function of the display waits: each write ends by OLED_I2C_TIMEOUT_MS.
FairSpec ==
    /\ Spec
    /\ WF_vars(InitDisplay) /\ WF_vars(ShowStatus)
    /\ \A t \in Tasks : WF_vars(Step(t))

-----------------------------------------------------------------------------
(* Properties.                                                             *)

Shown == Screens \cup StatusTexts
Content == (Shown \X Row) \cup {Blank}

TypeOK ==
    /\ oled_ready \in BOOLEAN /\ bus \in {"closed", "open", "ready"}
    /\ oled_buffer \in [Row -> Content]
    /\ status \in StatusTexts /\ station \in BOOLEAN
    /\ at \in [Tasks -> {"init", "configure", "sequence", "idle", "clear", "draw",
                         "window", "copy", "send"}]
    /\ shown \in [Tasks -> Shown \cup {Nothing}]
    /\ line \in [Tasks -> Row]
    /\ tx \in [Tasks -> Content]
    /\ panel \in [Row -> Content \cup {Noise}] /\ cursor \in Row
    /\ shows \in 0 .. MaxShows /\ errors \in 0 .. MaxErrors
    /\ undisturbed \in [Tasks -> BOOLEAN]

\* The freed I2C block is never written, and a display that was not found is
\* never drawn to (display_status_init 579-608, oled_show_screen 523).
BusInUse ==
    /\ \A t \in Tasks : at[t] \in {"window", "copy", "send"} => bus = "ready"
    /\ ~ oled_ready => /\ \A t \in Others : at[t] = "idle"
                       /\ \A r \in Row : panel[r] = Noise

\* The rows of panel p show what task t shows, and above it the buffer.
Complete(t, p) ==
    \A r \in Row :
        p[r] = IF r >= FirstRow(t) THEN <<shown[t], r>> ELSE oled_buffer[r]

\* Whatever failed or overlapped before it, a screen that one task shows without
\* an error and without another task in between is on the panel, whole and in
\* place: the flush does not depend on where the last one stopped (544-554).
ShownWhole ==
    [][\A t \in Tasks :
          LastChunk(t) /\ at'[t] = "idle" /\ undisturbed'[t] => Complete(t, panel')]_vars

StatusOnPanel == \A r \in StatusStart .. RowCount - 1 : panel[r] = <<status, r>>

\* In the station mode the panel shows the status again and again: what errors
\* and the screens of other tasks have left in its rows does not stay (main loop,
\* source/web_server.c 1898-1907).
StatusRecovers == <>[](oled_ready /\ station) => []<>StatusOnPanel
=============================================================================
