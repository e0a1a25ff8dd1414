-------------------------- MODULE DisplayProofs -----------------------------
(***************************************************************************)
(* Proofs about the display that several tasks write (OledScreen), for     *)
(* every set of tasks and screens, every number of rows and of failed      *)
(* writes; about the start of the program that brings it up (Boot), for    *)
(* every number of stored networks and every set of parts that do not      *)
(* start; and about the texts on it (OledText), for every text and every   *)
(* display and buffer within the assumptions of that module.               *)
(***************************************************************************)
EXTENDS OledScreen, Boot, OledText, FiniteSetTheorems, WellFoundedInduction, TLAPS

-----------------------------------------------------------------------------
(* The display.                                                            *)

Places == {"init", "configure", "sequence", "idle", "clear", "draw", "window", "copy", "send"}

\* The row a screen or the status begins at.
LEMMA FirstRowType ==
    ASSUME NEW t \in Tasks
    PROVE  FirstRow(t) \in Row
  BY NumbersAssumption DEF FirstRow, Row

\* The loops over the rows stay within the rows.
LEMMA AdvanceType ==
    ASSUME TypeOK, NEW t \in Tasks, NEW place \in Places, Advance(t, place)
    PROVE  line' \in [Tasks -> Row] /\ at' \in [Tasks -> Places]
<1>1. line[t] \in Row /\ line \in [Tasks -> Row] /\ at \in [Tasks -> Places]
  BY DEF TypeOK, Places
<1>2. InitialLine(t, place) \in Row
  BY FirstRowType, NumbersAssumption DEF InitialLine, Row
<1>3. CASE line[t] < RowCount - 1
  <2>1. line[t] + 1 \in Row
    BY <1>1, <1>3, NumbersAssumption DEF Row
  <2>2. QED
    BY <1>1, <1>3, <2>1 DEF Advance
<1>4. CASE ~ (line[t] < RowCount - 1)
  BY <1>1, <1>2, <1>4 DEF Advance, Goes
<1>5. QED
  BY <1>3, <1>4

\* A function that returns at an error leaves its variables in their types.
LEMMA FailsType ==
    ASSUME TypeOK, NEW t \in Tasks, Fails(t)
    PROVE  /\ errors' \in 0 .. MaxErrors
           /\ at' \in [Tasks -> Places]
           /\ shown' \in [Tasks -> Shown \cup {Nothing}]
           /\ tx' \in [Tasks -> Content]
           /\ undisturbed' \in [Tasks -> BOOLEAN]
<1>1. errors' \in 0 .. MaxErrors
  BY NumbersAssumption DEF Fails, TypeOK
<1>2. at' \in [Tasks -> Places]
  BY DEF Fails, Goes, TypeOK, Places
<1>3. shown' \in [Tasks -> Shown \cup {Nothing}] /\ tx' \in [Tasks -> Content]
  BY DEF Fails, TypeOK, Content
<1>4. undisturbed' \in [Tasks -> BOOLEAN]
  BY DEF Fails
<1>5. QED
  BY <1>1, <1>2, <1>3, <1>4

\* The chunk arrives on a row of the panel.
LEMMA ArrivesType ==
    ASSUME TypeOK, NEW t \in Tasks, Arrives(t)
    PROVE  panel' \in [Row -> Content \cup {Noise}] /\ cursor' \in Row
<1>1. tx[t] \in Content
  BY DEF TypeOK
<1>2. panel' \in [Row -> Content \cup {Noise}]
  BY <1>1 DEF Arrives, TypeOK
<1>3. (cursor + 1) % RowCount \in Row
  BY NumbersAssumption DEF TypeOK, Row
<1>4. QED
  BY <1>2, <1>3 DEF Arrives

-----------------------------------------------------------------------------
(* The inductive invariant.  A task draws only what it was given to show;  *)
(* before the display is ready nothing is drawn; and the function that     *)
(* nothing has disturbed has what it shows in the rows of the buffer it is *)
(* through with, and the buffer in the rows of the panel it is through     *)
(* with, the controller standing where its chunk belongs.                  *)

Starting == {"init", "configure", "sequence"}
Drawing  == {"clear", "draw"}
Flushing == {"window", "copy", "send"}

Given == \A t \in Tasks : at[t] \in Drawing => shown[t] \in Shown

StartUp ==
    /\ at[Server] \in Starting => ~ oled_ready /\ \A t \in Tasks : ~ undisturbed[t]
    /\ at[Server] = "sequence" => bus = "ready"
    /\ oled_ready => bus = "ready"
    /\ \A t \in Others : at[t] \notin Starting
    /\ ~ oled_ready => /\ \A t \in Tasks : at[t] \notin Drawing \cup Flushing
                       /\ \A r \in Row : panel[r] = Noise

Progress(t) ==
    undisturbed[t] =>
        /\ at[t] = "draw" =>
              /\ line[t] >= FirstRow(t)
              /\ \A r \in Row : FirstRow(t) <= r /\ r < line[t] => oled_buffer[r] = <<shown[t], r>>
        /\ at[t] \in Flushing =>
              \A r \in Row : FirstRow(t) <= r => oled_buffer[r] = <<shown[t], r>>
        /\ at[t] \in {"copy", "send"} =>
              /\ cursor = line[t]
              /\ \A r \in Row : r < line[t] => panel[r] = oled_buffer[r]
        /\ at[t] = "send" => tx[t] = oled_buffer[line[t]]

InProgress == \A t \in Tasks : Progress(t)

\* A step of one task leaves the others where they are, disturbed.
LEMMA StepFrame ==
    ASSUME TypeOK, NEW t \in Tasks, Step(t), NEW u \in Tasks, u # t
    PROVE  at'[u] = at[u] /\ shown'[u] = shown[u] /\ ~ undisturbed'[u]
<1>1. at'[u] = at[u]
  BY DEF Step, ClearRow, DrawRow, SetWindow, CopyChunk, SendChunk, Advance, Goes, Fails, TypeOK
<1>2. shown'[u] = shown[u]
  BY DEF Step, ClearRow, DrawRow, SetWindow, CopyChunk, SendChunk, Fails, TypeOK
<1>3. ~ undisturbed'[u]
  BY DEF Step, ClearRow, DrawRow, SetWindow, CopyChunk, SendChunk, Disturbs, Fails
<1>4. QED
  BY <1>1, <1>2, <1>3

\* So does the beginning of a function.
LEMMA BeginsFrame ==
    ASSUME TypeOK, NEW t \in Tasks, NEW what, NEW first, Begins(t, what, first), NEW u \in Tasks
    PROVE  /\ IF u = t THEN at'[u] = "clear" /\ shown'[u] = what
                       ELSE at'[u] = at[u] /\ shown'[u] = shown[u] /\ ~ undisturbed'[u]
           /\ oled_ready /\ oled_ready' /\ bus' = bus /\ at[t] = "idle"
  BY DEF Begins, Goes, TypeOK, driverVars

\* The functions that draw on the display in a step.
LEMMA Beginners ==
    ASSUME TypeOK, (\E t \in Others : ShowOther(t)) \/ ShowMode \/ ShowStatus
    PROVE  \E t \in Tasks, what \in Shown, first \in Row : Begins(t, what, first)
<1>1. 0 \in Row /\ StatusStart \in Row /\ Server \in Tasks /\ status \in Shown
  BY NumbersAssumption DEF Row, Tasks, Shown, TypeOK
<1>2. CASE \E t \in Others : ShowOther(t)
  BY <1>1, <1>2 DEF ShowOther, Shown, Tasks
<1>3. CASE ShowMode
  BY <1>1, <1>3 DEF ShowMode, Shown
<1>4. CASE ShowStatus
  BY <1>1, <1>4 DEF ShowStatus
<1>5. QED
  BY <1>2, <1>3, <1>4

\* The initialization of the display is server_task's.
LEMMA InitFrame ==
    ASSUME TypeOK, StartUp, InitDisplay
    PROVE  /\ at[Server] \in Starting /\ ~ oled_ready /\ panel' = panel
           /\ \A t \in Tasks : ~ undisturbed'[t]
           /\ \A t \in Others : at'[t] = at[t] /\ shown'[t] = shown[t]
           /\ \/ at'[Server] = "configure" /\ ~ oled_ready'
              \/ at'[Server] = "sequence" /\ ~ oled_ready' /\ bus' = "ready"
              \/ at'[Server] = "window" /\ oled_ready' /\ bus' = "ready"
              \/ at'[Server] = "idle" /\ ~ oled_ready'
<1>0. Server \in Tasks /\ Server \notin Others /\ Others \subseteq Tasks
  BY TasksAssumption DEF Tasks
<1>1. at[Server] \in Starting /\ ~ oled_ready /\ panel' = panel
  BY DEF InitDisplay, OpenBus, ConfigureBus, SendSequence, StartUp, Starting, panelVars
<1>2. \A t \in Tasks : ~ undisturbed[t]
  BY <1>1 DEF StartUp
<1>3. \A t \in Tasks : ~ undisturbed'[t]
  BY <1>2 DEF InitDisplay, OpenBus, ConfigureBus, SendSequence, Fails
<1>4. \A t \in Others : at'[t] = at[t] /\ shown'[t] = shown[t]
  BY <1>0 DEF InitDisplay, OpenBus, ConfigureBus, SendSequence, Fails, Goes, TypeOK
<1>5. \/ at'[Server] = "configure" /\ ~ oled_ready'
      \/ at'[Server] = "sequence" /\ ~ oled_ready' /\ bus' = "ready"
      \/ at'[Server] = "window" /\ oled_ready' /\ bus' = "ready"
      \/ at'[Server] = "idle" /\ ~ oled_ready'
  <2>1. CASE OpenBus
    BY <1>0, <1>1, <2>1 DEF OpenBus, Fails, Goes, TypeOK
  <2>2. CASE ConfigureBus
    BY <1>0, <1>1, <2>2 DEF ConfigureBus, Fails, Goes, TypeOK
  <2>3. CASE SendSequence
    BY <1>0, <1>1, <2>3 DEF SendSequence, Fails, Goes, TypeOK, StartUp
  <2>4. QED
    BY <2>1, <2>2, <2>3 DEF InitDisplay
<1>6. QED
  BY <1>1, <1>3, <1>4, <1>5

\* Where a step of the drawing functions goes.
LEMMA StepGoes ==
    ASSUME TypeOK, NEW t \in Tasks, Step(t)
    PROVE  /\ at[t] \in Drawing \cup Flushing
           /\ at'[t] \in Drawing \cup Flushing \cup {"idle"}
           /\ at'[t] \in Drawing => at[t] \in Drawing /\ shown'[t] = shown[t]
           /\ oled_ready' = oled_ready /\ bus' = bus
<1>1. CASE ClearRow(t)
  BY <1>1 DEF ClearRow, Advance, Goes, TypeOK, Drawing, Flushing, driverVars
<1>2. CASE DrawRow(t)
  BY <1>2 DEF DrawRow, Advance, Goes, TypeOK, Drawing, Flushing, driverVars
<1>3. CASE SetWindow(t)
  BY <1>3 DEF SetWindow, Fails, Goes, TypeOK, Drawing, Flushing, driverVars
<1>4. CASE CopyChunk(t)
  BY <1>4 DEF CopyChunk, Goes, TypeOK, Drawing, Flushing, driverVars
<1>5. CASE SendChunk(t)
  BY <1>5 DEF SendChunk, Fails, Goes, TypeOK, Drawing, Flushing, driverVars
<1>6. QED
  BY <1>1, <1>2, <1>3, <1>4, <1>5 DEF Step

\* Given and StartUp are kept by every step.
LEMMA StartUpKept ==
    ASSUME TypeOK, Given, StartUp, [Next]_vars
    PROVE  Given' /\ StartUp'
<1>0. Server \in Tasks /\ Others \subseteq Tasks /\ Tasks = Others \cup {Server}
  BY DEF Tasks
<1>1. CASE InitDisplay
  <2>1. Given'
    BY <1>0, <1>1, InitFrame DEF Given, Drawing
  <2>2. StartUp'
    BY <1>0, <1>1, InitFrame DEF StartUp, Starting, Drawing, Flushing
  <2>3. QED
    BY <2>1, <2>2
<1>2. CASE (\E t \in Others : ShowOther(t)) \/ ShowMode \/ ShowStatus
  <2>1. PICK t \in Tasks, what \in Shown, first \in Row : Begins(t, what, first)
    BY <1>2, Beginners
  <2>2. Given'
    BY <2>1, BeginsFrame DEF Given
  <2>3. at[Server] \notin Starting
    BY <1>0, <2>1, BeginsFrame DEF StartUp
  <2>4. at'[Server] \notin Starting /\ \A u \in Others : at'[u] \notin Starting
    BY <1>0, <2>1, <2>3, BeginsFrame DEF StartUp, Starting
  <2>5. oled_ready' /\ bus' = "ready"
    BY <2>1, BeginsFrame DEF StartUp
  <2>6. QED
    BY <2>2, <2>4, <2>5 DEF StartUp, Starting
<1>3. CASE StatusChanges \/ NoDisplay \/ UNCHANGED vars
  <2>1. UNCHANGED <<driverVars, taskVars, panelVars>>
    BY <1>3 DEF StatusChanges, NoDisplay, vars
  <2>2. QED
    BY <2>1 DEF Given, StartUp, driverVars, taskVars, panelVars
<1>4. ASSUME NEW t \in Tasks, Step(t)
      PROVE  Given' /\ StartUp'
  <2>1. Given'
    BY <1>4, StepFrame, StepGoes DEF Given
  <2>2. oled_ready /\ oled_ready' /\ bus' = "ready"
    BY <1>4, StepGoes DEF StartUp
  <2>3. \A u \in Tasks : at'[u] \in Starting => at[u] \in Starting
    BY <1>4, StepFrame, StepGoes DEF Starting, Drawing, Flushing
  <2>4. at[Server] \notin Starting /\ \A u \in Others : at[u] \notin Starting
    BY <2>2 DEF StartUp
  <2>5. at'[Server] \notin Starting /\ \A u \in Others : at'[u] \notin Starting
    BY <1>0, <2>3, <2>4
  <2>6. QED
    BY <2>1, <2>2, <2>5 DEF StartUp, Starting
<1>5. QED
  BY <1>1, <1>2, <1>3, <1>4 DEF Next

-----------------------------------------------------------------------------
\* Rows, chunks and the position of the controller stay within the display,
\* whatever tasks overlap and writes fail.
THEOREM TypeCorrect == Spec => [](TypeOK /\ Given /\ StartUp)
<1>1. Init => TypeOK
  <2> SUFFICES ASSUME Init PROVE TypeOK
    OBVIOUS
  <2>1. 0 \in Row /\ 0 \in 0 .. MaxShows /\ 0 \in 0 .. MaxErrors
    BY NumbersAssumption DEF Row
  <2>2. line \in [Tasks -> Row] /\ cursor \in Row
    BY <2>1 DEF Init
  <2>3. panel \in [Row -> Content \cup {Noise}] /\ oled_buffer \in [Row -> Content]
    BY DEF Init, Content
  <2>4. tx \in [Tasks -> Content] /\ shown \in [Tasks -> Shown \cup {Nothing}]
    BY DEF Init, Content
  <2>5. at \in [Tasks -> {"init", "configure", "sequence", "idle", "clear", "draw",
                          "window", "copy", "send"}]
    BY DEF Init
  <2>6. QED
    BY <2>1, <2>2, <2>3, <2>4, <2>5 DEF Init, TypeOK
<1>2. TypeOK /\ Given /\ [Next]_vars => TypeOK'
  <2> SUFFICES ASSUME TypeOK, Given, [Next]_vars
               PROVE  TypeOK'
    OBVIOUS
  <2>0. Server \in Tasks /\ Places = {"init", "configure", "sequence", "idle", "clear",
                                      "draw", "window", "copy", "send"}
    BY DEF Tasks, Places
  <2> USE DEF driverVars, panelVars, boundVars
  <2>1. CASE OpenBus
    <3>1. CASE Fails(Server) /\ UNCHANGED bus
      BY <2>1, <3>1, <2>0, FailsType DEF OpenBus, TypeOK
    <3>2. CASE bus' = "open" /\ Goes(Server, "configure") /\ UNCHANGED <<shown, tx, errors, undisturbed>>
      BY <2>1, <3>2, <2>0 DEF OpenBus, TypeOK, Goes
    <3>3. QED
      BY <2>1, <3>1, <3>2 DEF OpenBus
  <2>2. CASE ConfigureBus
    <3>1. CASE Fails(Server) /\ bus' = "closed"
      BY <2>2, <3>1, <2>0, FailsType DEF ConfigureBus, TypeOK
    <3>2. CASE bus' = "ready" /\ Goes(Server, "sequence") /\ UNCHANGED <<shown, tx, errors, undisturbed>>
      BY <2>2, <3>2, <2>0 DEF ConfigureBus, TypeOK, Goes
    <3>3. QED
      BY <2>2, <3>1, <3>2 DEF ConfigureBus
  <2>3. CASE SendSequence
    <3>1. CASE Fails(Server) /\ bus' = "closed" /\ UNCHANGED <<oled_ready, oled_buffer>>
      BY <2>3, <3>1, <2>0, FailsType DEF SendSequence, TypeOK
    <3>2. CASE /\ oled_ready' = TRUE
               /\ oled_buffer' = [r \in Row |-> Blank]
               /\ Goes(Server, "window")
               /\ UNCHANGED <<bus, shown, tx, errors, undisturbed>>
      BY <2>3, <3>2, <2>0 DEF SendSequence, TypeOK, Goes, Content
    <3>3. QED
      BY <2>3, <3>1, <3>2 DEF SendSequence
  <2>4. ASSUME NEW t \in Tasks, NEW what \in Shown, NEW first \in Row, Begins(t, what, first),
               station' \in BOOLEAN, shows' \in 0 .. MaxShows
        PROVE  TypeOK'
    <3>1. at' \in [Tasks -> Places] /\ line' \in [Tasks -> Row]
      BY <2>4, <2>0 DEF Begins, Goes, TypeOK
    <3>2. shown' \in [Tasks -> Shown \cup {Nothing}] /\ undisturbed' \in [Tasks -> BOOLEAN]
      BY <2>4 DEF Begins, TypeOK
    <3>3. QED
      BY <2>4, <2>0, <3>1, <3>2 DEF Begins, TypeOK
  <2>5. ASSUME NEW t \in Others, ShowOther(t)
        PROVE  TypeOK'
    <3>1. shows' \in 0 .. MaxShows /\ station' \in BOOLEAN
      BY <2>5, NumbersAssumption DEF ShowOther, TypeOK
    <3>2. 0 \in Row /\ t \in Tasks
      BY NumbersAssumption DEF Row, Tasks
    <3>3. QED
      BY <2>4, <2>5, <3>1, <3>2 DEF ShowOther, Shown
  <2>6. CASE ShowMode
    <3>1. shows' \in 0 .. MaxShows /\ station' \in BOOLEAN
      BY <2>6 DEF ShowMode, TypeOK
    <3>2. 0 \in Row
      BY NumbersAssumption DEF Row
    <3>3. QED
      BY <2>0, <2>4, <2>6, <3>1, <3>2 DEF ShowMode, Shown
  <2>7. CASE ShowStatus
    <3>1. shows' \in 0 .. MaxShows /\ station' \in BOOLEAN /\ status \in Shown
      BY <2>7 DEF ShowStatus, TypeOK, Shown
    <3>2. StatusStart \in Row
      BY NumbersAssumption DEF Row
    <3>3. QED
      BY <2>0, <2>4, <2>7, <3>1, <3>2 DEF ShowStatus
  <2>8. CASE StatusChanges
    BY <2>8 DEF StatusChanges, TypeOK, taskVars
  <2>9. CASE NoDisplay
    BY <2>9 DEF NoDisplay, TypeOK, taskVars
  <2>10. ASSUME NEW t \in Tasks, ClearRow(t)
         PROVE  TypeOK'
    <3>1. oled_buffer' \in [Row -> Content]
      BY <2>10 DEF ClearRow, TypeOK, Content
    <3>2. line' \in [Tasks -> Row] /\ at' \in [Tasks -> Places]
      BY <2>10, AdvanceType DEF ClearRow, Places
    <3>3. undisturbed' \in [Tasks -> BOOLEAN]
      BY <2>10 DEF ClearRow, Disturbs, TypeOK
    <3>4. QED
      BY <2>10, <2>0, <3>1, <3>2, <3>3 DEF ClearRow, TypeOK
  <2>11. ASSUME NEW t \in Tasks, DrawRow(t)
         PROVE  TypeOK'
    <3>1. oled_buffer' \in [Row -> Content]
      BY <2>11 DEF DrawRow, Given, Drawing, TypeOK, Content
    <3>2. line' \in [Tasks -> Row] /\ at' \in [Tasks -> Places]
      BY <2>11, AdvanceType DEF DrawRow, Places
    <3>3. undisturbed' \in [Tasks -> BOOLEAN]
      BY <2>11 DEF DrawRow, Disturbs, TypeOK
    <3>4. QED
      BY <2>11, <2>0, <3>1, <3>2, <3>3 DEF DrawRow, TypeOK
  <2>12. ASSUME NEW t \in Tasks, SetWindow(t)
         PROVE  TypeOK'
    <3>0. 0 \in Row
      BY NumbersAssumption DEF Row
    <3>1. CASE Fails(t) /\ UNCHANGED <<cursor, line>>
      BY <2>12, <2>0, <3>1, FailsType DEF SetWindow, TypeOK
    <3>2. CASE ~ (Fails(t) /\ UNCHANGED <<cursor, line>>)
      <4>1. cursor' \in Row /\ line' \in [Tasks -> Row] /\ at' \in [Tasks -> Places]
        <5>1. /\ cursor' = 0
              /\ line' = [line EXCEPT ![t] = 0]
              /\ Goes(t, "copy")
          BY <2>12, <3>2 DEF SetWindow
        <5>2. QED
          BY <2>0, <3>0, <5>1 DEF Goes, TypeOK
      <4>2. undisturbed' \in [Tasks -> BOOLEAN]
        BY <2>12, <3>2 DEF SetWindow, Disturbs, TypeOK
      <4>3. QED
        BY <2>12, <2>0, <3>2, <4>1, <4>2 DEF SetWindow, TypeOK
    <3>3. QED
      BY <3>1, <3>2
  <2>13. ASSUME NEW t \in Tasks, CopyChunk(t)
         PROVE  TypeOK'
    <3>1. tx' \in [Tasks -> Content] /\ at' \in [Tasks -> Places]
      BY <2>13, <2>0 DEF CopyChunk, Goes, TypeOK
    <3>2. undisturbed' \in [Tasks -> BOOLEAN]
      BY <2>13 DEF CopyChunk, Disturbs, TypeOK
    <3>3. QED
      BY <2>13, <2>0, <3>1, <3>2 DEF CopyChunk, TypeOK
  <2>14. ASSUME NEW t \in Tasks, SendChunk(t)
         PROVE  TypeOK'
    <3>0. 0 \in Row
      BY NumbersAssumption DEF Row
    <3>1. panel' \in [Row -> Content \cup {Noise}] /\ cursor' \in Row
      BY <2>14, ArrivesType DEF SendChunk, TypeOK
    <3>2. line' \in [Tasks -> Row]
      <4>1. CASE LastChunk(t)
        BY <2>14, <3>0, <4>1 DEF SendChunk, TypeOK
      <4>2. CASE ~ LastChunk(t)
        <5>0. line[t] \in Row /\ line[t] # RowCount - 1
          BY <2>14, <4>2 DEF LastChunk, SendChunk, TypeOK
        <5>1. line[t] + 1 \in Row
          BY <5>0, NumbersAssumption DEF Row
        <5>2. QED
          BY <2>14, <3>0, <4>2, <5>1 DEF SendChunk, TypeOK
      <4>3. QED
        BY <4>1, <4>2
    <3>3. /\ errors' \in 0 .. MaxErrors
          /\ at' \in [Tasks -> Places]
          /\ shown' \in [Tasks -> Shown \cup {Nothing}]
          /\ tx' \in [Tasks -> Content]
          /\ undisturbed' \in [Tasks -> BOOLEAN]
      <4>1. CASE Fails(t)
        BY <4>1, FailsType
      <4>2. CASE ~ Fails(t)
        <5>1. at' \in [Tasks -> Places]
          BY <2>14, <2>0, <4>2 DEF SendChunk, Goes, TypeOK
        <5>2. shown' \in [Tasks -> Shown \cup {Nothing}]
          BY <2>14, <4>2 DEF SendChunk, TypeOK
        <5>3. tx' \in [Tasks -> Content]
          BY <2>14, <4>2 DEF SendChunk, TypeOK, Content
        <5>4. undisturbed' \in [Tasks -> BOOLEAN]
          BY <2>14, <4>2 DEF SendChunk, Disturbs, TypeOK
        <5>5. QED
          BY <2>14, <4>2, <5>1, <5>2, <5>3, <5>4 DEF SendChunk, TypeOK
      <4>3. QED
        BY <4>1, <4>2
    <3>4. QED
      BY <2>14, <2>0, <3>1, <3>2, <3>3 DEF SendChunk, TypeOK
  <2>15. CASE UNCHANGED vars
    BY <2>15 DEF vars, taskVars, TypeOK
  <2>16. QED
    BY <2>1, <2>2, <2>3, <2>5, <2>6, <2>7, <2>8, <2>9, <2>10, <2>11, <2>12, <2>13, <2>14, <2>15
       DEF Next, InitDisplay, Step
<1>3. Init => Given /\ StartUp
  BY TasksAssumption DEF Init, Given, StartUp, Starting, Drawing, Flushing, Tasks
<1>4. QED
  BY <1>1, <1>2, <1>3, StartUpKept, PTL DEF Spec

\* The freed I2C block is never written, and a display that was not found is
\* never drawn to.
THEOREM BusAlwaysInUse == Spec => []BusInUse
<1>1. TypeOK /\ StartUp => BusInUse
  <2> SUFFICES ASSUME TypeOK, StartUp
               PROVE  BusInUse
    OBVIOUS
  <2>1. \A t \in Tasks : at[t] \in {"window", "copy", "send"} => bus = "ready"
    BY DEF StartUp, Flushing, TypeOK
  <2>2. ASSUME ~ oled_ready, NEW t \in Others
        PROVE  at[t] = "idle"
    <3>1. t \in Tasks
      BY DEF Tasks
    <3>2. at[t] \notin Starting \cup Drawing \cup Flushing
      BY <2>2, <3>1 DEF StartUp
    <3>3. QED
      BY <3>1, <3>2 DEF TypeOK, Starting, Drawing, Flushing
  <2>3. ~ oled_ready => \A r \in Row : panel[r] = Noise
    BY DEF StartUp
  <2>4. QED
    BY <2>1, <2>2, <2>3 DEF BusInUse
<1>2. QED
  BY <1>1, TypeCorrect, PTL

-----------------------------------------------------------------------------
\* FirstRow depends on what is shown only.
LEMMA SameFirstRow ==
    ASSUME NEW t \in Tasks, shown'[t] = shown[t]
    PROVE  FirstRow(t)' = FirstRow(t)
  BY DEF FirstRow

\* Each step of a function that nothing disturbs adds its row or its chunk.
LEMMA StepProgress ==
    ASSUME TypeOK, TypeOK', NEW t \in Tasks, Step(t), Progress(t), undisturbed'[t]
    PROVE  Progress(t)'
<1>0. /\ line[t] \in Row /\ line'[t] \in Row /\ FirstRow(t) \in Row
      /\ at[t] \in Places /\ RowCount \in Nat \ {0}
  BY FirstRowType, NumbersAssumption DEF TypeOK, Places
<1>1. CASE ClearRow(t)
  <2>1. at'[t] \in {"clear", "draw"} /\ shown'[t] = shown[t]
    BY <1>1 DEF ClearRow, Advance, Goes, TypeOK
  <2>2. at'[t] = "draw" => line'[t] = FirstRow(t)
    BY <1>0, <1>1 DEF ClearRow, Advance, Goes, InitialLine, TypeOK
  <2>3. QED
    BY <1>0, <2>1, <2>2, SameFirstRow DEF Progress, Flushing, Row
<1>2. CASE DrawRow(t)
  <2>1. undisturbed[t] /\ at[t] = "draw" /\ shown'[t] = shown[t]
    BY <1>2 DEF DrawRow, Disturbs, TypeOK
  <2>2. oled_buffer' = [oled_buffer EXCEPT ![line[t]] = <<shown[t], line[t]>>]
    BY <1>2 DEF DrawRow
  <2>3. \A r \in Row : FirstRow(t) <= r /\ r <= line[t] => oled_buffer'[r] = <<shown[t], r>>
    BY <1>0, <2>1, <2>2 DEF Progress, TypeOK, Row
  <2>4. CASE line[t] < RowCount - 1
    <3>1. at'[t] = "draw" /\ line'[t] = line[t] + 1
      BY <1>2, <2>1, <2>4 DEF DrawRow, Advance, TypeOK
    <3>2. line'[t] >= FirstRow(t)
      BY <1>0, <2>1, <3>1 DEF Progress, Row
    <3>3. \A r \in Row : FirstRow(t) <= r /\ r < line'[t] => oled_buffer'[r] = <<shown[t], r>>
      BY <1>0, <2>3, <3>1 DEF Row
    <3>4. QED
      BY <2>1, <3>1, <3>2, <3>3, SameFirstRow DEF Progress, Flushing
  <2>5. CASE ~ (line[t] < RowCount - 1)
    <3>1. at'[t] = "window"
      BY <1>2, <2>1, <2>5 DEF DrawRow, Advance, Goes, TypeOK
    <3>2. \A r \in Row : FirstRow(t) <= r => oled_buffer'[r] = <<shown[t], r>>
      BY <1>0, <2>3, <2>5 DEF Row
    <3>3. QED
      BY <2>1, <3>1, <3>2, SameFirstRow DEF Progress, Flushing
  <2>6. QED
    BY <2>4, <2>5
<1>3. CASE SetWindow(t)
  <2>1. /\ cursor' = 0 /\ line' = [line EXCEPT ![t] = 0]
        /\ Goes(t, "copy") /\ Disturbs(t)
        /\ UNCHANGED <<shown, tx, errors>>
    BY <1>3 DEF SetWindow, Fails
  <2>2. undisturbed[t] /\ at[t] = "window" /\ at'[t] = "copy" /\ line'[t] = 0
    BY <1>3, <2>1 DEF SetWindow, Disturbs, Goes, TypeOK
  <2>3. oled_buffer' = oled_buffer /\ shown' = shown
    BY <1>3, <2>1 DEF SetWindow
  <2>4. \A r \in Row : ~ (r < line'[t])
    BY <2>2 DEF Row
  <2>5. QED
    BY <2>1, <2>2, <2>3, <2>4, SameFirstRow DEF Progress, Flushing
<1>4. CASE CopyChunk(t)
  <2>1. undisturbed[t] /\ at[t] = "copy" /\ at'[t] = "send" /\ tx'[t] = oled_buffer[line[t]]
    BY <1>4 DEF CopyChunk, Disturbs, Goes, TypeOK
  <2>2. UNCHANGED <<oled_buffer, shown, line, panel, cursor>>
    BY <1>4 DEF CopyChunk, panelVars
  <2>3. QED
    BY <2>1, <2>2, SameFirstRow DEF Progress, Flushing
<1>5. CASE SendChunk(t)
  <2>1. /\ Arrives(t)
        /\ line' = [line EXCEPT ![t] = IF LastChunk(t) THEN 0 ELSE @ + 1]
        /\ Goes(t, IF LastChunk(t) THEN "idle" ELSE "copy")
        /\ shown' = [shown EXCEPT ![t] = IF LastChunk(t) THEN Nothing ELSE @]
        /\ Disturbs(t)
    BY <1>5 DEF SendChunk, Fails
  <2>2. undisturbed[t] /\ at[t] = "send" /\ oled_buffer' = oled_buffer
    BY <1>5, <2>1 DEF SendChunk, Disturbs
  <2>3. CASE LastChunk(t)
    BY <2>1, <2>3 DEF Goes, Progress, Flushing, TypeOK
  <2>4. CASE ~ LastChunk(t)
    <3>1. at'[t] = "copy" /\ line'[t] = line[t] + 1 /\ shown'[t] = shown[t]
      BY <2>1, <2>4 DEF Goes, TypeOK
    <3>2. cursor = line[t] /\ tx[t] = oled_buffer[line[t]]
      BY <2>2 DEF Progress, Flushing
    <3>3. line[t] # RowCount - 1
      BY <2>2, <2>4 DEF LastChunk
    <3>4. cursor' = line'[t]
      <4>1. cursor' = (line[t] + 1) % RowCount
        BY <2>1, <3>2 DEF Arrives
      <4>2. (line[t] + 1) % RowCount = line[t] + 1
        BY <1>0, <3>3 DEF Row
      <4>3. QED
        BY <3>1, <4>1, <4>2
    <3>5. panel' = [panel EXCEPT ![line[t]] = oled_buffer[line[t]]]
      BY <2>1, <3>2 DEF Arrives
    <3>6. \A r \in Row : r < line[t] => panel[r] = oled_buffer[r]
      BY <2>2 DEF Progress
    <3>7. \A r \in Row : r < line'[t] => panel'[r] = oled_buffer[r]
      BY <1>0, <3>1, <3>5, <3>6 DEF TypeOK, Row
    <3>8. QED
      BY <2>2, <3>1, <3>4, <3>7, SameFirstRow DEF Progress, Flushing
  <2>5. QED
    BY <2>3, <2>4
<1>6. QED
  BY <1>1, <1>2, <1>3, <1>4, <1>5 DEF Step

\* InProgress is kept by every step.
LEMMA InProgressKept ==
    ASSUME TypeOK, TypeOK', StartUp, InProgress, [Next]_vars
    PROVE  InProgress'
<1>1. CASE InitDisplay
  BY <1>1, InitFrame DEF InProgress, Progress
<1>2. CASE (\E t \in Others : ShowOther(t)) \/ ShowMode \/ ShowStatus
  <2>1. PICK t \in Tasks, what \in Shown, first \in Row : Begins(t, what, first)
    BY <1>2, Beginners
  <2>2. at'[t] = "clear" /\ \A u \in Tasks : u # t => ~ undisturbed'[u]
    BY <2>1, BeginsFrame
  <2>3. Progress(t)'
    BY <2>2 DEF Progress, Flushing
  <2>4. QED
    BY <2>2, <2>3 DEF InProgress, Progress
<1>3. CASE StatusChanges \/ NoDisplay \/ UNCHANGED vars
  <2>1. UNCHANGED <<oled_buffer, at, shown, line, tx, undisturbed, panel, cursor>>
    BY <1>3 DEF StatusChanges, NoDisplay, vars, taskVars, panelVars
  <2>2. ASSUME NEW t \in Tasks
        PROVE  Progress(t)'
    BY <2>1, SameFirstRow DEF InProgress, Progress
  <2>3. QED
    BY <2>2 DEF InProgress
<1>4. ASSUME NEW t \in Tasks, Step(t)
      PROVE  InProgress'
  <2>1. ASSUME NEW u \in Tasks, u # t
        PROVE  Progress(u)'
    BY <1>4, <2>1, StepFrame DEF Progress
  <2>2. Progress(t)'
    <3>1. CASE undisturbed'[t]
      BY <1>4, <3>1, StepProgress DEF InProgress
    <3>2. CASE ~ undisturbed'[t]
      BY <3>2 DEF Progress
    <3>3. QED
      BY <3>1, <3>2
  <2>3. QED
    BY <2>1, <2>2 DEF InProgress
<1>5. QED
  BY <1>1, <1>2, <1>3, <1>4 DEF Next

\* A screen that one task shows without an error and without another task in
\* between is on the panel, whole and in place, whatever came before it.
THEOREM AlwaysShownWhole == Spec => ShownWhole
<1>1. Init => InProgress
  BY DEF Init, InProgress, Progress
<1>2. Spec => []InProgress
  BY <1>1, InProgressKept, TypeCorrect, PTL DEF Spec
<1>3. TypeOK /\ StartUp /\ InProgress /\ [Next]_vars =>
        \A t \in Tasks : LastChunk(t) /\ at'[t] = "idle" /\ undisturbed'[t] => Complete(t, panel')
  <2> SUFFICES ASSUME TypeOK, StartUp, InProgress, [Next]_vars,
                      NEW t \in Tasks, LastChunk(t), at'[t] = "idle", undisturbed'[t]
               PROVE  Complete(t, panel')
    OBVIOUS
  <2>1. SendChunk(t) /\ ~ Fails(t)
    <3>1. ~ InitDisplay
      BY InitFrame
    <3>2. ~ ((\E u \in Others : ShowOther(u)) \/ ShowMode \/ ShowStatus)
      <4> SUFFICES ASSUME (\E u \in Others : ShowOther(u)) \/ ShowMode \/ ShowStatus
                   PROVE  FALSE
        OBVIOUS
      <4>1. PICK u \in Tasks, what \in Shown, first \in Row : Begins(u, what, first)
        BY Beginners
      <4>2. CASE u = t
        BY <4>1, <4>2, BeginsFrame
      <4>3. CASE u # t
        BY <4>1, <4>3, BeginsFrame
      <4>4. QED
        BY <4>2, <4>3
    <3>3. ~ (StatusChanges \/ NoDisplay \/ UNCHANGED vars)
      BY DEF StatusChanges, NoDisplay, vars, taskVars, LastChunk
    <3>4. PICK u \in Tasks : Step(u)
      BY <3>1, <3>2, <3>3 DEF Next
    <3>5. u = t
      BY <3>4, StepFrame
    <3>6. SendChunk(t)
      BY <3>4, <3>5 DEF Step, ClearRow, DrawRow, SetWindow, CopyChunk, LastChunk
    <3>7. ~ Fails(t)
      BY DEF Fails
    <3>8. QED
      BY <3>6, <3>7
  <2>2. Arrives(t) /\ undisturbed[t] /\ at[t] = "send" /\ line[t] = RowCount - 1
    BY <2>1 DEF SendChunk, Disturbs, LastChunk
  <2>3. /\ \A r \in Row : FirstRow(t) <= r => oled_buffer[r] = <<shown[t], r>>
        /\ cursor = line[t]
        /\ \A r \in Row : r < line[t] => panel[r] = oled_buffer[r]
        /\ tx[t] = oled_buffer[line[t]]
    BY <2>2 DEF InProgress, Progress, Flushing
  <2>4. panel' = [panel EXCEPT ![line[t]] = oled_buffer[line[t]]]
    BY <2>2, <2>3 DEF Arrives
  <2>5. \A r \in Row : panel'[r] = oled_buffer[r]
    BY <2>2, <2>3, <2>4, NumbersAssumption DEF TypeOK, Row
  <2>6. \A r \in Row : r >= FirstRow(t) <=> FirstRow(t) <= r
    BY FirstRowType DEF Row
  <2>7. QED
    BY <2>3, <2>5, <2>6 DEF Complete
<1>4. QED
  BY <1>2, <1>3, TypeCorrect, PTL DEF Spec, ShownWhole

-----------------------------------------------------------------------------
(* The start of the program.                                               *)

Calls == {"bsp", "task", "display", "lin", "wcm", "button", "store", "read", "attempt", "loop"}

\* What has been called has started: the interrupts after the board, the actuator
\* before the middleware; and no network is tried before the networks are read.
StartedInOrder ==
    /\ ~ halted /\ nextCall # "bsp" => interrupts
    /\ ~ halted /\ nextCall \notin {"bsp", "task", "display", "lin"} => initialized
    /\ nextCall \notin {"attempt", "loop"} => attempt = 0

BootInv == StartSafe /\ StartedInOrder

\* The parts of the type invariant: the Booleans, and the others.
Flags ==
    /\ interrupts \in BOOLEAN /\ displayReady \in BOOLEAN /\ initialized \in BOOLEAN
    /\ s_inited \in BOOLEAN /\ buttonTried \in BOOLEAN /\ callback \in BOOLEAN
    /\ provisioning_button_enabled \in BOOLEAN /\ provisioning_button_irq_enabled \in BOOLEAN
    /\ irq \in BOOLEAN /\ connected \in BOOLEAN /\ halted \in BOOLEAN

Values ==
    /\ nextCall \in Calls
    /\ broken \subseteq Required \cup Optional
    /\ known_count \in 0 .. MaxNetworks /\ attempt \in 0 .. known_count
    /\ mode \in {"none", "station", "provisioning"}

LEMMA BootTypeParts == BootType <=> Flags /\ Values
  BY Zenon DEF BootType, Flags, Values, Calls

\* What a step does to the parts: nothing, or it breaks one and stops if it must.
LEMMA PartsStep ==
    ASSUME BootNext
    PROVE  \/ UNCHANGED <<broken, halted>>
           \/ \E p \in Required : Asserts(p)
           \/ \E p \in Optional : Breaks(p) /\ UNCHANGED halted
           \/ InitStore /\ UNCHANGED halted
<1>1. /\ "board" \in Required /\ "lin" \in Required /\ "wcm" \in Required
      /\ "station server" \in Required /\ "SoftAP" \in Required
      /\ "display" \in Optional /\ "button" \in Optional
  BY DEF Required, Optional
<1>2. QED
  BY <1>1, Zenon DEF BootNext, Start, Press, Stopped, bootVars, BspInit, StartScheduler,
     DisplayInit, LinInit, WcmInit, ButtonSucceeds, ButtonRetries, ButtonFails, StoreInit,
     ReadKnown, AttemptFails, AttemptAborted, AttemptSucceeds, FallBack

\* What is on stays on.
LEMMA OnStaysOn ==
    ASSUME BootNext
    PROVE  /\ UNCHANGED interrupts \/ interrupts' = TRUE
           /\ UNCHANGED displayReady \/ displayReady' = TRUE
           /\ UNCHANGED initialized \/ initialized' = TRUE
           /\ UNCHANGED s_inited \/ s_inited' = TRUE
           /\ UNCHANGED buttonTried \/ buttonTried' = TRUE
           /\ UNCHANGED callback \/ callback' = TRUE
           /\ UNCHANGED connected \/ connected' = TRUE
           /\ UNCHANGED halted \/ halted' = TRUE
<1> USE DEF BootNext, Start, Press, Stopped, bootVars, BspInit, StartScheduler,
     DisplayInit, LinInit, WcmInit, ButtonSucceeds, ButtonRetries, ButtonFails, StoreInit,
     ReadKnown, AttemptFails, AttemptAborted, AttemptSucceeds, FallBack, InitStore,
     Polled, Asserts, partVars, buttonVars, attemptVars, buttonFlags
<1>1. UNCHANGED interrupts \/ interrupts' = TRUE
  BY Zenon
<1>2. UNCHANGED displayReady \/ displayReady' = TRUE
  BY Zenon
<1>3. UNCHANGED initialized \/ initialized' = TRUE
  BY Zenon
<1>4. UNCHANGED s_inited \/ s_inited' = TRUE
  BY Zenon
<1>5. UNCHANGED buttonTried \/ buttonTried' = TRUE
  BY Zenon
<1>6. UNCHANGED callback \/ callback' = TRUE
  BY Zenon
<1>7. UNCHANGED connected \/ connected' = TRUE
  BY Zenon
<1>8. UNCHANGED halted \/ halted' = TRUE
  BY Zenon
<1>9. QED
  BY <1>1, <1>2, <1>3, <1>4, <1>5, <1>6, <1>7, <1>8, Zenon

\* The button is given up as a whole, and it is pressed only when its interrupt is on.
LEMMA ButtonStep ==
    ASSUME BootNext
    PROVE  /\ \/ UNCHANGED buttonFlags
              \/ /\ callback' = TRUE
                 /\ provisioning_button_enabled' = TRUE /\ provisioning_button_irq_enabled' = TRUE
              \/ /\ provisioning_button_enabled' = FALSE
                 /\ provisioning_button_irq_enabled' = FALSE
           /\ \/ UNCHANGED irq \/ irq' = FALSE
              \/ irq' = TRUE /\ callback /\ interrupts
<1> USE DEF BootNext, Start, Press, Stopped, bootVars, BspInit, StartScheduler,
     DisplayInit, LinInit, WcmInit, ButtonSucceeds, ButtonRetries, ButtonFails, StoreInit,
     ReadKnown, AttemptFails, AttemptAborted, AttemptSucceeds, FallBack,
     Polled, buttonVars, buttonFlags
<1>1. \/ UNCHANGED buttonFlags
      \/ /\ callback' = TRUE
         /\ provisioning_button_enabled' = TRUE /\ provisioning_button_irq_enabled' = TRUE
      \/ /\ provisioning_button_enabled' = FALSE
         /\ provisioning_button_irq_enabled' = FALSE
  BY Zenon
<1>2. \/ UNCHANGED irq \/ irq' = FALSE
      \/ irq' = TRUE /\ callback /\ interrupts
  BY Zenon
<1>3. QED
  BY <1>1, <1>2, Zenon

\* A mode begins when the networks are tried.
LEMMA ModeStep ==
    ASSUME BootNext
    PROVE  \/ UNCHANGED mode
           \/ /\ ~ halted /\ nextCall \in {"attempt", "loop"}
              /\ mode' = "provisioning" \/ (mode' = "station" /\ connected' = TRUE)
  BY Zenon DEF BootNext, Start, Press, Stopped, bootVars, BspInit, StartScheduler,
     DisplayInit, LinInit, WcmInit, ButtonSucceeds, ButtonRetries, ButtonFails, StoreInit,
     ReadKnown, AttemptFails, AttemptAborted, AttemptSucceeds, FallBack, Call

\* The networks are read once, before they are tried one after the other.
LEMMA NetworksStep ==
    ASSUME BootNext
    PROVE  \/ UNCHANGED <<known_count, attempt>>
           \/ UNCHANGED attempt /\ ReadKnown
           \/ UNCHANGED known_count /\ attempt < known_count /\ attempt' = attempt + 1
                 /\ nextCall' = "attempt"
  BY Zenon DEF BootNext, Start, Press, Stopped, bootVars, BspInit, StartScheduler,
     DisplayInit, LinInit, WcmInit, ButtonSucceeds, ButtonRetries, ButtonFails, StoreInit,
     ReadKnown, AttemptFails, AttemptAborted, AttemptSucceeds, FallBack, Call,
     attemptVars

\* The calls in their order.
LEMMA CallStep ==
    ASSUME BootNext
    PROVE  /\ UNCHANGED nextCall \/ nextCall' \in Calls
           /\ nextCall' \notin {"attempt", "loop"} => nextCall \notin {"attempt", "loop"}
           /\ nextCall = "bsp" /\ nextCall' # "bsp" => interrupts' = TRUE \/ halted' = TRUE
           /\ nextCall \in {"task", "display", "lin"}
                 => nextCall' # "bsp"
           /\ nextCall \in {"bsp", "task", "display"}
                 => nextCall' \in {"bsp", "task", "display", "lin"}
           /\ nextCall = "lin" /\ nextCall' # "lin" => initialized' = TRUE \/ halted' = TRUE
<1> USE DEF BootNext, Start, Press, Stopped, bootVars, BspInit, StartScheduler,
     DisplayInit, LinInit, WcmInit, ButtonSucceeds, ButtonRetries, ButtonFails, StoreInit,
     ReadKnown, AttemptFails, AttemptAborted, AttemptSucceeds, FallBack, Call
<1>1. UNCHANGED nextCall \/ nextCall' \in Calls
  BY Zenon DEF Calls
<1>2. nextCall' \notin {"attempt", "loop"} => nextCall \notin {"attempt", "loop"}
  BY Zenon
<1>3. nextCall = "bsp" /\ nextCall' # "bsp" => interrupts' = TRUE \/ halted' = TRUE
  BY Zenon DEF Asserts
<1>4. /\ nextCall \in {"task", "display", "lin"} => nextCall' # "bsp"
      /\ nextCall \in {"bsp", "task", "display"} => nextCall' \in {"bsp", "task", "display", "lin"}
  BY Zenon
<1>5. nextCall = "lin" /\ nextCall' # "lin" => initialized' = TRUE \/ halted' = TRUE
  BY Zenon DEF Asserts
<1>6. QED
  BY <1>1, <1>2, <1>3, <1>4, <1>5, Zenon

LEMMA BootStepTyped ==
    ASSUME BootInv, BootNext
    PROVE  (Flags /\ Values)'
<1>0. Flags /\ Values
  BY BootTypeParts DEF BootInv, StartSafe
<1>1. Flags'
  <2>1. /\ callback' \in BOOLEAN /\ interrupts' \in BOOLEAN /\ displayReady' \in BOOLEAN
        /\ initialized' \in BOOLEAN /\ s_inited' \in BOOLEAN /\ buttonTried' \in BOOLEAN
        /\ connected' \in BOOLEAN /\ halted' \in BOOLEAN
    BY <1>0, OnStaysOn, Zenon DEF Flags
  <2>2. irq' \in BOOLEAN
    BY <1>0, ButtonStep, Zenon DEF Flags
  <2>3. provisioning_button_enabled' \in BOOLEAN /\ provisioning_button_irq_enabled' \in BOOLEAN
    BY <1>0, ButtonStep, Zenon DEF Flags, buttonFlags
  <2>4. QED
    BY <2>1, <2>2, <2>3, Zenon DEF Flags
<1>2. nextCall' \in Calls
  BY <1>0, CallStep, Zenon DEF Values
<1>3. broken' \subseteq Required \cup Optional
  <2>1. CASE InitStore
    BY <1>0, <2>1 DEF Values, InitStore, Breaks, Optional
  <2>2. CASE ~ InitStore
    BY <1>0, <2>2, PartsStep, Zenon DEF Values, Asserts, Breaks
  <2>3. QED
    BY <2>1, <2>2
<1>4. known_count' \in 0 .. MaxNetworks /\ attempt' \in 0 .. known_count'
  <2>1. CASE UNCHANGED <<known_count, attempt>>
    BY <1>0, <2>1 DEF Values
  <2>2. CASE UNCHANGED attempt /\ ReadKnown
    <3>1. attempt = 0
      BY <2>2 DEF BootInv, StartedInOrder, ReadKnown, Call
    <3>2. known_count' \in 0 .. MaxNetworks
      BY <2>2, NetworksAssumption DEF ReadKnown
    <3>3. QED
      BY <2>2, <3>1, <3>2, NetworksAssumption
  <2>3. CASE UNCHANGED known_count /\ attempt < known_count /\ attempt' = attempt + 1
    BY <1>0, <2>3, NetworksAssumption DEF Values
  <2>4. QED
    BY <2>1, <2>2, <2>3, NetworksStep
<1>5. mode' \in {"none", "station", "provisioning"}
  BY <1>0, ModeStep, Zenon DEF Values
<1>6. QED
  BY <1>1, <1>2, <1>3, <1>4, <1>5, Zenon DEF Values

LEMMA StepStops ==
    ASSUME BootInv, BootNext
    PROVE  StopsForRequired'
<1>1. StopsForRequired /\ halted \in BOOLEAN /\ halted' \in BOOLEAN
  BY BootStepTyped, BootTypeParts, Zenon DEF BootInv, StartSafe, Flags
<1>2. CASE UNCHANGED <<broken, halted>>
  BY <1>1, <1>2 DEF StopsForRequired
<1>3. CASE \E p \in Required : Asserts(p)
  BY <1>3 DEF StopsForRequired, Asserts, Breaks
<1>4. CASE UNCHANGED halted /\ \E p \in Optional : Breaks(p)
  BY <1>1, <1>4 DEF StopsForRequired, Breaks, Required, Optional
<1>5. CASE UNCHANGED halted /\ InitStore
  BY <1>1, <1>5 DEF StopsForRequired, InitStore, Breaks, Required, Optional
<1>6. QED
  BY <1>2, <1>3, <1>4, <1>5, PartsStep, Zenon

LEMMA StepStarted ==
    ASSUME BootInv, BootNext
    PROVE  StartedBeforeUse' /\ InterruptOnly' /\ StartedInOrder'
<1> USE DEF BootInv, StartSafe, Flags
<1>1. StartedInOrder'
  <2>1. ~ halted' => ~ halted
    BY OnStaysOn, Zenon
  <2>2. ~ halted' /\ nextCall' # "bsp" => interrupts'
    BY <2>1, OnStaysOn, CallStep, Zenon DEF StartedInOrder
  <2>3. ~ halted' /\ nextCall' \notin {"bsp", "task", "display", "lin"} => initialized'
    <3> SUFFICES ASSUME ~ halted', nextCall' \notin {"bsp", "task", "display", "lin"}
                 PROVE  initialized'
      OBVIOUS
    <3>1. nextCall \notin {"bsp", "task", "display"}
      BY CallStep, Zenon
    <3>2. CASE nextCall = "lin"
      BY <3>2, CallStep, Zenon
    <3>3. CASE nextCall # "lin"
      <4>1. initialized
        BY <2>1, <3>1, <3>3, Zenon DEF StartedInOrder
      <4>2. QED
        BY <4>1, OnStaysOn, Zenon
    <3>4. QED
      BY <3>2, <3>3
  <2>4. nextCall' \notin {"attempt", "loop"} => attempt' = 0
    <3> SUFFICES ASSUME nextCall' \notin {"attempt", "loop"} PROVE attempt' = 0
      OBVIOUS
    <3>1. attempt = 0
      BY CallStep, Zenon DEF StartedInOrder
    <3>2. attempt' = attempt
      BY NetworksStep, Zenon
    <3>3. QED
      BY <3>1, <3>2
  <2>5. QED
    BY <2>2, <2>3, <2>4, Zenon DEF StartedInOrder
<1>2. StartedBeforeUse'
  <2>1. mode' # "none" => interrupts' /\ initialized'
    <3>1. CASE UNCHANGED mode
      BY <3>1, OnStaysOn, Zenon DEF StartedBeforeUse
    <3>2. CASE ~ halted /\ nextCall \in {"attempt", "loop"}
      <4>1. interrupts /\ initialized
        <5>1. nextCall # "bsp" /\ nextCall \notin {"bsp", "task", "display", "lin"}
          BY <3>2
        <5>2. QED
          BY <3>2, <5>1, Zenon DEF StartedInOrder
      <4>2. QED
        BY <4>1, OnStaysOn, Zenon
    <3>3. QED
      BY <3>1, <3>2, ModeStep, Zenon
  <2>2. known_count' > 0 => s_inited'
    <3>1. CASE UNCHANGED known_count
      BY <3>1, OnStaysOn, Zenon DEF StartedBeforeUse
    <3>2. CASE ReadKnown
      BY <3>2 DEF ReadKnown
    <3>3. QED
      BY <3>1, <3>2, NetworksStep, Zenon
  <2>3. mode' = "station" => connected'
    <3>1. CASE UNCHANGED mode
      BY <3>1, OnStaysOn, Zenon DEF StartedBeforeUse
    <3>2. CASE mode' = "provisioning" \/ connected' = TRUE
      BY <3>2
    <3>3. QED
      BY <3>1, <3>2, ModeStep, Zenon
  <2>4. QED
    BY <2>1, <2>2, <2>3, Zenon DEF StartedBeforeUse
<1>3. InterruptOnly'
  <2>1. provisioning_button_enabled' => provisioning_button_irq_enabled' /\ callback'
    BY ButtonStep, OnStaysOn, Zenon DEF InterruptOnly, buttonFlags
  <2>2. irq' => interrupts' /\ callback'
    BY ButtonStep, OnStaysOn, Zenon DEF InterruptOnly
  <2>3. QED
    BY <2>1, <2>2, Zenon DEF InterruptOnly
<1>4. QED
  BY <1>1, <1>2, <1>3

\* Whatever does not start and whenever the button is pressed, the firmware stops
\* for the parts it cannot do without and for no other, nothing is used before it
\* has started, and a press counts only with its interrupt.
THEOREM AlwaysStartSafe == BootSpec => []StartSafe
<1>1. BootInit => BootInv
  <2> SUFFICES ASSUME BootInit PROVE BootInv
    OBVIOUS
  <2>1. Flags
    BY Zenon DEF BootInit, Flags
  <2>2. Values
    <3>1. 0 \in 0 .. MaxNetworks /\ 0 \in 0 .. 0
      BY NetworksAssumption
    <3>2. QED
      BY <3>1, Zenon DEF BootInit, Values, Calls
  <2>3. StopsForRequired /\ StartedBeforeUse /\ InterruptOnly /\ StartedInOrder
    BY DEF BootInit, StopsForRequired, StartedBeforeUse, InterruptOnly, StartedInOrder
  <2>4. QED
    BY <2>1, <2>2, <2>3, BootTypeParts DEF BootInv, StartSafe
<1>2. BootInv /\ [BootNext]_bootVars => BootInv'
  <2>1. ASSUME BootInv, BootNext PROVE BootInv'
    <3>1. (Flags /\ Values)' => BootType'
      BY BootTypeParts, PTL
    <3>2. QED
      BY <2>1, <3>1, BootStepTyped, StepStops, StepStarted DEF BootInv, StartSafe
  <2>2. ASSUME BootInv, UNCHANGED bootVars PROVE BootInv'
    <3> USE <2>2 DEF bootVars, partVars, buttonVars, attemptVars, buttonFlags
    <3>1. BootType'
      BY DEF BootInv, StartSafe, BootType
    <3>2. StopsForRequired' /\ InterruptOnly'
      BY DEF BootInv, StartSafe, StopsForRequired, InterruptOnly
    <3>3. StartedBeforeUse' /\ StartedInOrder'
      BY DEF BootInv, StartSafe, StartedBeforeUse, StartedInOrder
    <3>4. QED
      BY <3>1, <3>2, <3>3 DEF BootInv, StartSafe
  <2>3. QED
    BY <2>1, <2>2
<1>3. QED
  BY <1>1, <1>2, PTL DEF BootSpec, BootInv

-----------------------------------------------------------------------------
(* The layout of a text: what the searches of oled_draw_wrapped find.      *)

\* A set of numbers that is not empty has a least one: the intervals 0 .. n are
\* finite, and the subset relation is well-founded on finite sets.
LEMMA LeastOf ==
    ASSUME NEW S \in SUBSET Nat, S # {}
    PROVE  \E n \in S : \A m \in S : n <= m
<1> DEFINE T == {0 .. n : n \in S}
<1>1. T \subseteq FiniteSubsetsOf(Nat)
  <2>1. \A n \in S : IsFiniteSet(0 .. n) /\ 0 .. n \subseteq Nat
    BY FS_Interval
  <2>2. QED
    BY <2>1 DEF FiniteSubsetsOf
<1>2. T # {}
  OBVIOUS
<1>3. \E x \in T : \A y \in T : ~ (<<y, x>> \in StrictSubsetOrdering(Nat))
  <2> HIDE DEF T
  <2>1. IsWellFoundedOn(StrictSubsetOrdering(Nat), FiniteSubsetsOf(Nat))
    BY FS_StrictSubsetOrderingWellFounded
  <2>2. QED
    BY <1>1, <1>2, <2>1, WFMin
<1>4. PICK n \in S : \A m \in S : ~ (<<0 .. m, 0 .. n>> \in StrictSubsetOrdering(Nat))
  BY <1>3
<1>5. ASSUME NEW m \in S, m < n PROVE FALSE
  <2>1. 0 .. m \subseteq 0 .. n /\ 0 .. m # 0 .. n
    <3>1. n \in 0 .. n /\ n \notin 0 .. m
      BY <1>5
    <3>2. QED
      BY <3>1, <1>5
  <2>2. <<0 .. m, 0 .. n>> \in (SUBSET Nat) \X (SUBSET Nat)
    OBVIOUS
  <2>3. QED
    BY <2>1, <2>2, <1>4 DEF StrictSubsetOrdering
<1>6. QED
  BY <1>5

\* The first position with one of the cells is found.
LEMMA FirstFromIs ==
    ASSUME NEW text \in Seq(Cell), NEW i \in 1 .. Len(text) + 1, NEW cells
    PROVE  /\ FirstFrom(text, i, cells) \in i .. Len(text) + 1
           /\ \/ FirstFrom(text, i, cells) = Len(text) + 1
              \/ text[FirstFrom(text, i, cells)] \in cells
           /\ \A k \in i .. FirstFrom(text, i, cells) - 1 : text[k] \notin cells
<1> DEFINE S == {j \in i .. Len(text) + 1 : j = Len(text) + 1 \/ text[j] \in cells}
<1>1. S \in SUBSET Nat /\ Len(text) + 1 \in S
  OBVIOUS
<1>2. PICK j \in S : \A m \in S : j <= m
  BY <1>1, LeastOf
<1>3. \A k \in i .. j - 1 : text[k] \notin cells
  <2>1. TAKE k \in i .. j - 1
  <2>2. k \notin S /\ k \in i .. Len(text) + 1
    BY <1>2
  <2>3. QED
    BY <2>2
<1>4. \E m \in i .. Len(text) + 1 :
        /\ m = Len(text) + 1 \/ text[m] \in cells
        /\ \A k \in i .. m - 1 : text[k] \notin cells
  BY <1>2, <1>3
<1>5. QED
  BY <1>4 DEF FirstFrom

\* So is the position after the last one.
LEMMA AfterLastIs ==
    ASSUME NEW text \in Seq(Cell), NEW w \in 1 .. Len(text) + 1, NEW e \in w .. Len(text) + 1,
           NEW cells
    PROVE  /\ AfterLast(text, w, e, cells) \in w .. e
           /\ \/ AfterLast(text, w, e, cells) = w
              \/ text[AfterLast(text, w, e, cells) - 1] \in cells
           /\ \A k \in AfterLast(text, w, e, cells) .. e - 1 : text[k] \notin cells
<1> DEFINE S == {d \in 0 .. e - w : d = e - w \/ text[e - d - 1] \in cells}
<1>1. S \in SUBSET Nat /\ e - w \in S
  OBVIOUS
<1>2. PICK d \in S : \A m \in S : d <= m
  BY <1>1, LeastOf
<1>3. \A k \in e - d .. e - 1 : text[k] \notin cells
  <2> TAKE k \in e - d .. e - 1
  <2> DEFINE m == e - k - 1
  <2>1. d \in 0 .. e - w
    OBVIOUS
  <2>2. m \in 0 .. e - w /\ e - m - 1 = k /\ ~ (d <= m)
    BY <2>1
  <2>3. m \notin S
    BY <1>2, <2>2
  <2>4. QED
    BY <2>2, <2>3
<1>4. \E j \in w .. e :
        /\ j = w \/ text[j - 1] \in cells
        /\ \A k \in j .. e - 1 : text[k] \notin cells
  <2>1. e - d \in w .. e /\ (e - d = w \/ text[e - d - 1] \in cells)
    BY <1>2
  <2>2. QED
    BY <2>1, <1>3
<1>5. QED
  BY <1>4 DEF AfterLast

\* Where a row starts: every character that is skipped is a space or a line end,
\* and only one line end is.
Starts(text, i, w) ==
    /\ w \in i .. Len(text) + 1
    /\ \A k \in i .. w - 1 : text[k] # Letter
    /\ \A k \in i .. w - 2 : text[k] = Space
    /\ w = Len(text) + 1 \/ text[w] = Letter \/ (w > i /\ text[w - 1] = NewLine)

\* A row starts that way.
LEMMA WordStartIs ==
    ASSUME NEW text \in Seq(Cell), NEW i \in 1 .. Len(text) + 1
    PROVE  Starts(text, i, WordStart(text, i))
<1> DEFINE j == FirstFrom(text, i, {Letter, NewLine})
<1>1. /\ j \in i .. Len(text) + 1
      /\ j = Len(text) + 1 \/ text[j] \in {Letter, NewLine}
      /\ \A k \in i .. j - 1 : text[k] \notin {Letter, NewLine}
  BY FirstFromIs
<1>2. WordStart(text, i) = IF j <= Len(text) /\ text[j] = NewLine THEN j + 1 ELSE j
  BY DEF WordStart
<1> HIDE DEF j
<1>3. \A k \in i .. j - 1 : text[k] = Space
  <2>1. \A k \in i .. j - 1 : k \in 1 .. Len(text)
    BY <1>1
  <2>2. QED
    BY <1>1, <2>1 DEF Cell
<1>4. CASE j <= Len(text) /\ text[j] = NewLine
  <2>1. WordStart(text, i) = j + 1 /\ j + 1 \in i .. Len(text) + 1 /\ j + 1 > i
    BY <1>1, <1>2, <1>4
  <2>2. \A k \in i .. j + 1 - 1 : k \in i .. j - 1 \/ k = j
    BY <1>1
  <2>3. QED
    BY <1>1, <1>3, <1>4, <2>1, <2>2, CellsAssumption DEF Starts
<1>5. CASE ~ (j <= Len(text) /\ text[j] = NewLine)
  BY <1>1, <1>2, <1>3, <1>5, CellsAssumption DEF Starts
<1>6. QED
  BY <1>4, <1>5

\* A row has at least two columns.
LEMMA ColsNat == Cols \in Nat /\ Cols >= 2
  BY SizesAssumption DEF Cols

\* A row ends at the first line end if that comes before it is full.
LEMMA FillEndIs ==
    ASSUME NEW text \in Seq(Cell), NEW w \in 1 .. Len(text) + 1
    PROVE  /\ FillEnd(text, w) \in w .. Len(text) + 1 /\ FillEnd(text, w) <= w + Cols
           /\ \A k \in w .. FillEnd(text, w) - 1 : text[k] # NewLine
           /\ \/ FillEnd(text, w) = Len(text) + 1
              \/ text[FillEnd(text, w)] = NewLine
              \/ FillEnd(text, w) = w + Cols
<1> DEFINE j == FirstFrom(text, w, {NewLine})
<1>1. /\ j \in w .. Len(text) + 1
      /\ j = Len(text) + 1 \/ text[j] \in {NewLine}
      /\ \A k \in w .. j - 1 : text[k] \notin {NewLine}
  BY FirstFromIs
<1>2. FillEnd(text, w) = IF j < w + Cols THEN j ELSE w + Cols
  BY DEF FillEnd
<1> HIDE DEF j
<1>3. CASE j < w + Cols
  BY <1>1, <1>2, <1>3, ColsNat
<1>4. CASE ~ (j < w + Cols)
  <2>1. \A k \in w .. w + Cols - 1 : k \in w .. j - 1
    BY <1>1, <1>4, ColsNat
  <2>2. QED
    BY <1>1, <1>2, <1>4, <2>1, ColsNat
<1>5. QED
  BY <1>3, <1>4

\* Where a row ends: with its line, or full in the middle of a line, after its last
\* space if it has one.
Ends(text, w, e) ==
    /\ e \in w .. Len(text) + 1 /\ e <= w + Cols
    /\ \A k \in w .. e - 1 : text[k] # NewLine
    /\ \/ e = Len(text) + 1
       \/ text[e] = NewLine
       \/ /\ w + Cols <= Len(text)
          /\ \A k \in w .. w + Cols : text[k] # NewLine
          /\ \A k \in e .. w + Cols - 1 : text[k] # Space
          /\ \/ e = w + Cols /\ \A k \in w .. e - 1 : text[k] # Space
             \/ e > w /\ text[e - 1] = Space

\* A row ends that way.
LEMMA RowEndIs ==
    ASSUME NEW text \in Seq(Cell), NEW w \in 1 .. Len(text) + 1
    PROVE  Ends(text, w, RowEnd(text, w))
<1> DEFINE f == FillEnd(text, w)
           s == AfterLast(text, w, f, {Space})
<1>1. /\ f \in w .. Len(text) + 1 /\ f <= w + Cols
      /\ \A k \in w .. f - 1 : text[k] # NewLine
      /\ f = Len(text) + 1 \/ text[f] = NewLine \/ f = w + Cols
  BY FillEndIs
<1>2. RowEnd(text, w) = IF f <= Len(text) /\ text[f] # NewLine /\ s # w THEN s ELSE f
  BY DEF RowEnd
<1> HIDE DEF f
<1>3. /\ s \in w .. f /\ (s = w \/ text[s - 1] \in {Space})
      /\ \A k \in s .. f - 1 : text[k] \notin {Space}
  BY <1>1, AfterLastIs
<1> HIDE DEF s
<1>4. CASE f <= Len(text) /\ text[f] # NewLine
  <2>1. f = w + Cols /\ \A k \in w .. w + Cols : text[k] # NewLine
    <3>1. f = w + Cols
      BY <1>1, <1>4
    <3>2. \A k \in w .. w + Cols : k \in w .. f - 1 \/ k = f
      BY <1>1, <3>1
    <3>3. QED
      BY <1>1, <1>4, <3>1, <3>2
  <2>2. CASE s # w
    <3>1. RowEnd(text, w) = s
      BY <1>2, <1>4, <2>2
    <3>2. s \in w .. Len(text) + 1 /\ s <= w + Cols /\ s > w
      BY <1>1, <1>3, <2>2, ColsNat
    <3>3. \A k \in w .. s - 1 : k \in w .. f - 1
      BY <1>1, <1>3
    <3>4. text[s - 1] = Space
      BY <1>3, <2>2
    <3>9. w + Cols <= Len(text)
      BY <1>4, <2>1
    <3>5. \A k \in s .. w + Cols - 1 : text[k] # Space
      <4>1. f = w + Cols
        BY <2>1
      <4>2. \A k \in s .. w + Cols - 1 : k \in s .. f - 1
        BY <1>1, <1>3, <4>1, ColsNat
      <4>3. QED
        BY <1>3, <4>2
    <3>6. \A k \in w .. s - 1 : text[k] # NewLine
      BY <1>1, <3>3
    <3>7. Ends(text, w, s)
      BY <2>1, <3>2, <3>4, <3>5, <3>6, <3>9 DEF Ends
    <3>8. QED
      BY <3>1, <3>7
  <2>3. CASE s = w
    BY <1>1, <1>2, <1>3, <1>4, <2>1, <2>3, ColsNat DEF Ends
  <2>4. QED
    BY <2>2, <2>3
<1>5. CASE ~ (f <= Len(text) /\ text[f] # NewLine)
  <2>1. RowEnd(text, w) = f
    BY <1>2, <1>5
  <2>2. QED
    BY <1>1, <1>5, <2>1 DEF Ends
<1>6. QED
  BY <1>4, <1>5

\* Only spaces are trimmed, and what is left does not end with one.
LEMMA TrimmedIs ==
    ASSUME NEW text \in Seq(Cell), NEW w \in 1 .. Len(text) + 1, NEW e \in w .. Len(text) + 1
    PROVE  /\ Trimmed(text, w, e) \in 0 .. e - w
           /\ \A k \in w + Trimmed(text, w, e) .. e - 1 : text[k] = Space
           /\ Trimmed(text, w, e) = 0 \/ text[w + Trimmed(text, w, e) - 1] # Space
<1> DEFINE s == AfterLast(text, w, e, {Letter, NewLine})
<1>1. /\ s \in w .. e /\ (s = w \/ text[s - 1] \in {Letter, NewLine})
      /\ \A k \in s .. e - 1 : text[k] \notin {Letter, NewLine}
  BY AfterLastIs
<1>2. Trimmed(text, w, e) = s - w
  BY DEF Trimmed
<1> HIDE DEF s
<1>3. s - w \in 0 .. e - w /\ w + (s - w) = s /\ (s - w = 0 <=> s = w)
  BY <1>1
<1>4. \A k \in s .. e - 1 : text[k] \in Cell
  <2>1. \A k \in s .. e - 1 : k \in 1 .. Len(text)
    BY <1>1
  <2>2. QED
    BY <2>1
<1>5. QED
  BY <1>1, <1>2, <1>3, <1>4, CellsAssumption DEF Cell

\* The copy that is drawn is the text, as far as the buffer goes.
LEMMA CutIs ==
    ASSUME NEW cells, NEW text \in Seq(cells), NEW size \in Nat \ {0}
    PROVE  /\ Cut(text, size) \in Seq(cells)
           /\ Len(Cut(text, size)) <= Len(text) /\ Len(Cut(text, size)) < size
           /\ Len(text) < size => Cut(text, size) = text
           /\ Len(Cut(text, size)) = Len(text) \/ Len(Cut(text, size)) = size - 1
           /\ \A k \in 1 .. Len(Cut(text, size)) : Cut(text, size)[k] = text[k]
<1> DEFINE n == IF Len(text) < size THEN Len(text) ELSE size - 1
<1>1. n \in 0 .. Len(text) /\ n < size /\ (n = Len(text) \/ n = size - 1)
  OBVIOUS
<1>2. Cut(text, size) = SubSeq(text, 1, n)
  BY DEF Cut
<1>3. Len(text) < size => n = Len(text)
  OBVIOUS
<1> HIDE DEF n
<1>4. /\ SubSeq(text, 1, n) \in Seq(cells) /\ Len(SubSeq(text, 1, n)) = n
      /\ \A k \in 1 .. n : SubSeq(text, 1, n)[k] = text[k]
  BY <1>1
<1>5. n = Len(text) => SubSeq(text, 1, n) = text
  BY <1>1
<1>6. QED
  BY <1>1, <1>2, <1>3, <1>4, <1>5

\* A step of oled_draw_wrapped from position i draws n characters from w on, passes
\* the ones up to e, and goes on at next.
Piece(text, i, w, e, n, next) ==
    /\ Starts(text, i, w) /\ Ends(text, w, e)
    /\ n \in 0 .. e - w
    /\ next = (IF e <= Len(text) /\ text[e] = NewLine THEN e + 1 ELSE e)
    /\ \A k \in w + n .. e - 1 : text[k] = Space
    /\ n = 0 \/ text[w + n - 1] # Space

\* One pass of the loop of oled_draw_wrapped is such a step.
LEMMA PieceIs ==
    ASSUME NEW text \in Seq(Cell), NEW i \in 1 .. Len(text) + 1
    PROVE  LET w == WordStart(text, i)
               e == RowEnd(text, w)
           IN  Piece(text, i, w, e, Trimmed(text, w, e),
                     IF e <= Len(text) /\ text[e] = NewLine THEN e + 1 ELSE e)
<1> DEFINE w == WordStart(text, i)
           e == RowEnd(text, w)
           n == Trimmed(text, w, e)
           next == IF e <= Len(text) /\ text[e] = NewLine THEN e + 1 ELSE e
<1>1. Starts(text, i, w)
  BY WordStartIs
<1> HIDE DEF w
<1>2. Ends(text, w, e)
  BY <1>1, RowEndIs DEF Starts
<1> HIDE DEF e
<1>3. e \in w .. Len(text) + 1
  BY <1>2 DEF Ends
<1>4. /\ n \in 0 .. e - w
      /\ \A k \in w + n .. e - 1 : text[k] = Space
      /\ n = 0 \/ text[w + n - 1] # Space
  <2>1. w \in 1 .. Len(text) + 1
    BY <1>1 DEF Starts
  <2>2. QED
    BY <1>3, <2>1, TrimmedIs
<1> HIDE DEF n
<1>5. Piece(text, i, w, e, n, next)
  BY <1>1, <1>2, <1>4 DEF Piece
<1>6. QED
  BY <1>5 DEF w, e, n

\* The text that is drawn, and the copy of it.
LEMMA NormalizedIs ==
    ASSUME TextType, ~ AllDrawn
    PROVE  /\ current \in 1 .. Len(texts) /\ Text \in Seq(Cell) /\ Normalized \in Seq(Cell)
           /\ Len(Normalized) <= Len(Text) /\ Len(Normalized) < CopySize
           /\ Len(Text) < CopySize => Normalized = Text
           /\ Len(Normalized) = Len(Text) \/ Len(Normalized) = CopySize - 1
           /\ \A k \in 1 .. Len(Normalized) : Normalized[k] = Text[k]
<1>1. current \in 1 .. Len(texts) /\ texts \in Seq(Seq(Cell))
  BY DEF TextType, AllDrawn
<1>2. Text \in Seq(Cell)
  BY <1>1 DEF Text
<1>3. CopySize \in Nat \ {0}
  BY SizesAssumption
<1>4. QED
  BY <1>1, <1>2, <1>3, CutIs DEF Normalized

\* So is the action.
LEMMA WrapRowIs ==
    ASSUME TextType, WrapRow
    PROVE  \E w, e, n \in Nat :
              /\ Piece(Normalized, index, w, e, n, index') /\ n <= Cols
              /\ screen' = [screen EXCEPT ![row] = Segment(current, w, n)]
<1>1. ~ AllDrawn /\ index \in 1 .. Len(Normalized) + 1 /\ Normalized \in Seq(Cell)
  BY NormalizedIs DEF WrapRow, TextType
<1> DEFINE text == Normalized
           w == WordStart(text, index)
           e == RowEnd(text, w)
           n == Trimmed(text, w, e)
           next == IF e <= Len(text) /\ text[e] = NewLine THEN e + 1 ELSE e
<1>2. Piece(text, index, w, e, n, next)
  BY <1>1, PieceIs
<1>3. index' = next /\ screen' = DrawText(screen, row, current, w, n)
  BY DEF WrapRow
<1> HIDE DEF text, w, e, n, next
<1>4. text \in Seq(Cell) /\ index \in 1 .. Len(text) + 1
  BY <1>1 DEF text
<1>5. w \in Nat /\ e \in Nat /\ n \in Nat /\ n <= Cols
  BY <1>2, <1>4, ColsNat DEF Piece, Starts, Ends
<1>6. screen' = [screen EXCEPT ![row] = Segment(current, w, n)]
  <2>1. (IF n > Cols THEN Cols ELSE n) = n
    BY <1>5, ColsNat
  <2>2. QED
    BY <1>3, <2>1 DEF DrawText
<1>7. QED
  BY <1>2, <1>3, <1>5, <1>6 DEF text

-----------------------------------------------------------------------------
(* The texts of the screens.                                               *)

Plain == {Letter, Space}

\* A text of letters and spaces is a text.
LEMMA PlainCells ==
    ASSUME NEW text \in Seq(Plain)
    PROVE  text \in Seq(Cell)
<1>1. Plain \subseteq Cell
  BY DEF Plain, Cell
<1>2. QED
  BY <1>1

\* A word is as long as its string.
LEMMA SpelledIs ==
    ASSUME NEW word, Len(word) \in Nat
    PROVE  /\ Spelled(word) \in Seq({Letter}) /\ Spelled(word) \in Seq(Plain)
           /\ Len(Spelled(word)) = Len(word)
<1>1. Spelled(word) \in [1 .. Len(word) -> {Letter}]
  BY DEF Spelled
<1> DEFINE n == Len(word)
<1>2. n \in Nat /\ Spelled(word) \in [1 .. n -> {Letter}]
  BY <1>1
<1> HIDE DEF n
<1>3. Spelled(word) \in Seq({Letter}) /\ Len(Spelled(word)) = n
  BY <1>2
<1>4. Spelled(word) \in Seq(Plain)
  <2>1. \A k \in 1 .. n : Spelled(word)[k] \in Plain
    BY <1>2 DEF Plain
  <2>2. QED
    BY <1>2, <2>1
<1>5. QED
  BY <1>3, <1>4 DEF n

\* A label, a space and an argument.
LEMMA LabelledIs ==
    ASSUME NEW word, Len(word) \in Nat, NEW text \in Seq(Plain)
    PROVE  /\ Labelled(word, text) \in Seq(Plain)
           /\ Len(Labelled(word, text)) = Len(word) + 1 + Len(text)
<1> DEFINE label == Spelled(word)
           n == Len(word)
<1>1. label \in Seq(Plain) /\ Len(label) = n /\ n \in Nat
  BY SpelledIs
<1>2. Labelled(word, text) = label \o <<Space>> \o text
  BY DEF Labelled
<1> HIDE DEF label, n
<1>3. <<Space>> \in Seq(Plain) /\ Len(<<Space>>) = 1
  BY DEF Plain
<1>4. /\ label \o <<Space>> \in Seq(Plain) /\ Len(label \o <<Space>>) = n + 1
  BY <1>1, <1>3
<1>5. /\ (label \o <<Space>>) \o text \in Seq(Plain)
      /\ Len((label \o <<Space>>) \o text) = n + 1 + Len(text)
  BY <1>1, <1>4
<1>6. QED
  BY <1>2, <1>5 DEF n

\* A line is cut to its buffer.
IsLine(text) == text \in Seq(Plain) /\ Len(text) < LineSize

\* A text that is cut to the buffer of a line.
LEMMA CutLine ==
    ASSUME NEW text \in Seq(Plain)
    PROVE  IsLine(Cut(text, LineSize)) /\ Len(Cut(text, LineSize)) <= Len(text)
<1>1. LineSize \in Nat \ {0}
  BY SizesAssumption, ColsNat
<1>2. QED
  BY <1>1, CutIs DEF IsLine

\* A label and an argument that are cut to it.
LEMMA LineIs ==
    ASSUME NEW word, Len(word) \in Nat, NEW text \in Seq(Plain)
    PROVE  IsLine(Line(word, text)) /\ Len(Line(word, text)) <= Len(word) + 1 + Len(text)
  BY LabelledIs, CutLine DEF Line

\* The elements of two sequences that are joined.
LEMMA JoinIs ==
    ASSUME NEW elements, NEW s \in Seq(elements), NEW t \in Seq(elements)
    PROVE  /\ s \o t \in Seq(elements) /\ Len(s \o t) = Len(s) + Len(t)
           /\ \A k \in 1 .. Len(s) + Len(t) :
                 (s \o t)[k] = IF k <= Len(s) THEN s[k] ELSE t[k - Len(s)]
  OBVIOUS

\* What a screen starts with.
FreshScreen(lines) ==
    /\ texts' \in Seq(Seq(Cell)) /\ header' = Len(texts') /\ header' = Len(lines) + 1
    /\ texts'[1] \in Seq({Letter})
    /\ \A k \in 2 .. header' : texts'[k] = lines[k - 1]
    /\ current' = 2 /\ index' = 1 /\ row' = 2
    /\ \E n \in 0 .. Cols : /\ n <= Len(texts'[1])
                           /\ screen' = [ClearBuffer EXCEPT ![0] = Segment(1, 1, n)]

\* oled_show_screen leaves a screen with its title on the first row.
LEMMA ShowScreenIs ==
    ASSUME NEW title, Len(title) \in Nat, NEW lines \in Seq(Seq(Plain)),
           ShowScreen(title, lines)
    PROVE  FreshScreen(lines)
<1> DEFINE head == Spelled(title)
           n == Len(head)
<1>1. head \in Seq({Letter}) /\ head \in Seq(Plain)
  BY SpelledIs
<1>2. texts' = <<head>> \o lines
  BY DEF ShowScreen
<1> HIDE DEF head
<1>3. lines \in Seq(Seq(Cell)) /\ <<head>> \in Seq(Seq(Cell)) /\ Len(<<head>>) = 1 /\ <<head>>[1] = head
  <2>1. \A k \in 1 .. Len(lines) : lines[k] \in Seq(Cell)
    BY PlainCells
  <2>2. lines \in Seq(Seq(Cell))
    BY <2>1
  <2>3. head \in Seq(Cell)
    BY <1>1, PlainCells
  <2>4. QED
    BY <2>2, <2>3
<1> DEFINE first == <<head>>
<1> HIDE DEF first
<1>4. /\ first \o lines \in Seq(Seq(Cell)) /\ Len(first \o lines) = Len(lines) + 1
      /\ (first \o lines)[1] = first[1]
      /\ \A k \in 2 .. Len(lines) + 1 : (first \o lines)[k] = lines[k - 1]
  <2>1. first \in Seq(Seq(Cell)) /\ Len(first) = 1
    BY <1>3 DEF first
  <2> DEFINE both == first \o lines
  <2>2. /\ both \in Seq(Seq(Cell)) /\ Len(both) = Len(first) + Len(lines)
        /\ \A k \in 1 .. Len(first) + Len(lines) :
              both[k] = IF k <= Len(first) THEN first[k] ELSE lines[k - Len(first)]
    BY <1>3, <2>1, JoinIs
  <2> HIDE DEF both
  <2>3. Len(lines) \in Nat
    BY <1>3
  <2>4. both[1] = first[1]
    BY <2>1, <2>2, <2>3
  <2>5. \A k \in 2 .. Len(lines) + 1 : both[k] = lines[k - 1]
    BY <2>1, <2>2, <2>3
  <2>6. Len(both) = Len(lines) + 1
    BY <2>1, <2>2, <2>3
  <2>7. QED
    BY <2>2, <2>4, <2>5, <2>6 DEF both
<1>5. texts' \in Seq(Seq(Cell)) /\ Len(texts') = Len(lines) + 1 /\ texts'[1] = head
  BY <1>2, <1>3, <1>4 DEF first
<1>6. \A k \in 2 .. Len(lines) + 1 : texts'[k] = lines[k - 1]
  BY <1>2, <1>4 DEF first
<1>7. \E m \in 0 .. Cols : /\ m <= Len(texts'[1])
                         /\ screen' = [ClearBuffer EXCEPT ![0] = Segment(1, 1, m)]
  <2>1. screen' = [ClearBuffer EXCEPT ![0] = Segment(1, 1, IF n > Cols THEN Cols ELSE n)]
    BY <1>5 DEF ShowScreen, DrawText
  <2>2. n \in Nat /\ n = Len(texts'[1])
    BY <1>1, <1>5
  <2> HIDE DEF n
  <2>3. (IF n > Cols THEN Cols ELSE n) \in 0 .. Cols /\ (IF n > Cols THEN Cols ELSE n) <= n
    BY <2>2, ColsNat
  <2>4. QED
    BY <2>1, <2>2, <2>3
<1>8. QED
  BY <1>1, <1>5, <1>6, <1>7 DEF FreshScreen, ShowScreen

\* What every screen starts with, whatever its lines are.
Fresh ==
    /\ texts' \in Seq(Seq(Cell)) /\ header' = Len(texts') /\ header' \in 2 .. 4
    /\ texts'[1] \in Seq({Letter})
    /\ \A k \in 2 .. header' : IsLine(texts'[k])
    /\ current' = 2 /\ index' = 1 /\ row' = 2
    /\ \E n \in 0 .. Cols : /\ n <= Len(texts'[1])
                           /\ screen' = [ClearBuffer EXCEPT ![0] = Segment(1, 1, n)]

\* A screen of two lines.
LEMMA TwoLines ==
    ASSUME NEW title, Len(title) \in Nat, NEW a, NEW b, IsLine(a), IsLine(b),
           ShowScreen(title, <<a, b>>)
    PROVE  Fresh /\ header' = 3 /\ texts'[2] = a /\ texts'[3] = b
<1> DEFINE lines == <<a, b>>
<1>1. /\ lines \in Seq(Seq(Plain)) /\ Len(lines) = 2 /\ lines[1] = a /\ lines[2] = b
  BY DEF IsLine
<1>2. ShowScreen(title, lines)
  OBVIOUS
<1> HIDE DEF lines
<1>3. FreshScreen(lines)
  BY <1>1, <1>2, ShowScreenIs
<1>4. header' = 3 /\ texts'[2] = a /\ texts'[3] = b
  BY <1>1, <1>3 DEF FreshScreen
<1>5. \A k \in 2 .. header' : IsLine(texts'[k])
  <2>1. \A k \in 2 .. 3 : k = 2 \/ k = 3
    OBVIOUS
  <2>2. QED
    BY <1>4, <2>1
<1>6. header' \in 2 .. 4
  BY <1>4
<1>7. QED
  BY <1>3, <1>4, <1>5, <1>6 DEF FreshScreen, Fresh

\* A screen of three lines.
LEMMA ThreeLines ==
    ASSUME NEW title, Len(title) \in Nat, NEW a, NEW b, NEW c, IsLine(a), IsLine(b), IsLine(c),
           ShowScreen(title, <<a, b, c>>)
    PROVE  Fresh
<1> DEFINE lines == <<a, b, c>>
<1>1. /\ lines \in Seq(Seq(Plain)) /\ Len(lines) = 3
      /\ lines[1] = a /\ lines[2] = b /\ lines[3] = c
  BY DEF IsLine
<1>2. ShowScreen(title, lines)
  OBVIOUS
<1> HIDE DEF lines
<1>3. FreshScreen(lines)
  BY <1>1, <1>2, ShowScreenIs
<1>4. header' = 4 /\ texts'[2] = a /\ texts'[3] = b /\ texts'[4] = c
  BY <1>1, <1>3 DEF FreshScreen
<1>5. \A k \in 2 .. header' : IsLine(texts'[k])
  <2>1. \A k \in 2 .. 4 : k = 2 \/ k = 3 \/ k = 4
    OBVIOUS
  <2>2. QED
    BY <1>4, <2>1
<1>6. header' \in 2 .. 4
  BY <1>4
<1>7. QED
  BY <1>3, <1>4, <1>5, <1>6 DEF FreshScreen, Fresh

\* The arguments of the callers.
LEMMA Names ==
    /\ \A s \in Ssids \cup Reasons \cup Addresses \cup HostNames \cup AccessPoint : s \in Seq(Plain)
    /\ \A pair \in BootLines : IsLine(pair[1]) /\ IsLine(pair[2])
<1>1. \A s \in Ssids \cup Reasons \cup Addresses \cup HostNames \cup AccessPoint : s \in Seq(Plain)
  BY ArgumentsAssumption DEF Plain
<1>2. \A pair \in BootLines : pair[1] \in Seq(Plain) /\ pair[2] \in Seq(Plain)
  BY ArgumentsAssumption DEF Plain
<1>3. QED
  BY <1>1, <1>2, ArgumentsAssumption DEF IsLine

\* The line of a counter.
LEMMA CounterIs ==
    ASSUME NEW word, Len(word) \in Nat
    PROVE  IsLine(Counter(word))
<1>1. Len("1/6") \in Nat
  BY StringsAssumption
<1>2. Spelled("1/6") \in Seq(Plain)
  BY <1>1, SpelledIs
<1>3. QED
  BY <1>2, LineIs DEF Counter

\* Every screen starts like that.
LEMMA OtherScreenIs ==
    ASSUME OtherScreen
    PROVE  Fresh /\ stationScreen' = FALSE
<1>1. stationScreen' = FALSE
  BY DEF OtherScreen
<1>2. ASSUME NEW pair \in BootLines, ShowBoot(pair[1], pair[2]) PROVE Fresh
  BY <1>2, TwoLines, Names, StringsAssumption DEF ShowBoot
<1>3. ASSUME ShowScanning PROVE Fresh
  <2>1. /\ Len("SCANNING") \in Nat /\ Len("WIFI") \in Nat /\ Len("PLEASE") \in Nat
        /\ Len("WAIT") \in Nat /\ Len("PROVISIONING") \in Nat
    BY StringsAssumption
  <2>2. /\ Spelled("WIFI") \in Seq(Plain) /\ Len(Spelled("WIFI")) = Len("WIFI")
        /\ Spelled("WAIT") \in Seq(Plain) /\ Len(Spelled("WAIT")) = Len("WAIT")
    BY <2>1, SpelledIs
  <2> DEFINE a == Labelled("SCANNING", Spelled("WIFI"))
             b == Labelled("PLEASE", Spelled("WAIT"))
  <2>3. a \in Seq(Plain) /\ Len(a) = Len("SCANNING") + 1 + Len("WIFI")
    BY <2>1, <2>2, LabelledIs
  <2>4. b \in Seq(Plain) /\ Len(b) = Len("PLEASE") + 1 + Len("WAIT")
    BY <2>1, <2>2, LabelledIs
  <2>5. LineSize \in Nat
    BY SizesAssumption, ColsNat
  <2>6. ShowScreen("PROVISIONING", <<a, b>>)
    BY <1>3 DEF ShowScanning
  <2> HIDE DEF a, b
  <2>7. IsLine(a) /\ IsLine(b)
    <3> DEFINE w1 == Len("SCANNING")
               w2 == Len("WIFI")
               w3 == Len("PLEASE")
               w4 == Len("WAIT")
    <3>1. w1 \in Nat /\ w2 \in Nat /\ w3 \in Nat /\ w4 \in Nat
      BY <2>1
    <3>2. w1 + w2 + 1 < LineSize /\ w3 + w4 + 1 < LineSize
      BY StringsAssumption
    <3>3. Len(a) = w1 + 1 + w2 /\ Len(b) = w3 + 1 + w4
      BY <2>3, <2>4
    <3> HIDE DEF w1, w2, w3, w4
    <3>4. Len(a) < LineSize /\ Len(b) < LineSize
      BY <2>5, <3>1, <3>2, <3>3
    <3>5. QED
      BY <2>3, <2>4, <3>4 DEF IsLine
  <2>8. QED
    BY <2>1, <2>6, <2>7, TwoLines
<1>4. ASSUME NEW s \in Ssids, ShowKnownNetworkAttempt(s) \/ ShowConnecting(s) PROVE Fresh
  <2>1. /\ Len("SSID:") \in Nat /\ Len("SSID") \in Nat /\ Len("KNOWN") \in Nat
        /\ Len("TRY") \in Nat /\ Len("AUTO CONNECT") \in Nat /\ Len("CONNECTING") \in Nat
    BY StringsAssumption
  <2>2. /\ IsLine(Line("SSID:", s)) /\ IsLine(Line("SSID", s))
        /\ IsLine(Counter("KNOWN")) /\ IsLine(Counter("TRY"))
    BY <2>1, LineIs, CounterIs, Names
  <2>3. CASE ShowKnownNetworkAttempt(s)
    BY <2>1, <2>2, <2>3, TwoLines DEF ShowKnownNetworkAttempt
  <2>4. CASE ShowConnecting(s)
    BY <2>1, <2>2, <2>4, TwoLines DEF ShowConnecting
  <2>5. QED
    BY <1>4, <2>3, <2>4
<1>5. ASSUME NEW s \in Ssids, NEW a \in Addresses, NEW h \in HostNames, ShowConnectSuccess(s, a, h)
      PROVE  Fresh
  <2>1. Len("SSID") \in Nat /\ Len("IP") \in Nat /\ Len("SUCCESS") \in Nat
    BY StringsAssumption
  <2>2. IsLine(Line("SSID", s)) /\ IsLine(Line("IP", a)) /\ IsLine(Cut(h, LineSize))
    BY <2>1, LineIs, CutLine, Names
  <2>3. QED
    BY <1>5, <2>1, <2>2, ThreeLines DEF ShowConnectSuccess
<1>6. ASSUME NEW s \in Ssids, NEW r \in Reasons, ShowConnectFailure(s, r) PROVE Fresh
  <2>1. Len("SSID") \in Nat /\ Len("CONNECT FAIL") \in Nat
    BY StringsAssumption
  <2>2. IsLine(Line("SSID", s)) /\ IsLine(Cut(r, LineSize))
    BY <2>1, LineIs, CutLine, Names
  <2>3. QED
    BY <1>6, <2>1, <2>2, TwoLines DEF ShowConnectFailure
<1>7. ASSUME NEW s \in AccessPoint, NEW p \in AccessPoint, NEW a \in Addresses, ShowProvisioning(s, p, a)
      PROVE  Fresh
  <2>1. Len("AP") \in Nat /\ Len("PWD") \in Nat /\ Len("IP") \in Nat /\ Len("PROVISIONING") \in Nat
    BY StringsAssumption
  <2>2. IsLine(Line("AP", s)) /\ IsLine(Line("PWD", p)) /\ IsLine(Line("IP", a))
    BY <2>1, LineIs, Names
  <2>3. QED
    BY <1>7, <2>1, <2>2, ThreeLines DEF ShowProvisioning
<1>8. QED
  BY <1>1, <1>2, <1>3, <1>4, <1>5, <1>6, <1>7 DEF OtherScreen

\* The lines of the screen of the station fit on a row each.
LEMMA StationScreenIs ==
    ASSUME StationScreen
    PROVE  /\ Fresh /\ stationScreen' = TRUE /\ header' = 3
           /\ \A k \in 2 .. header' : Len(texts'[k]) <= Cols
<1>1. PICK a \in Addresses, h \in HostNames : ShowStaReady(a, h)
  BY DEF StationScreen
<1>2. Len("IP") \in Nat /\ Len("DEVICE READY") \in Nat
  BY StringsAssumption
<1> DEFINE first == Line("IP", a)
           second == Cut(h, LineSize)
<1>3. a \in Seq(Plain) /\ h \in Seq(Plain)
  BY Names
<1>4. IsLine(first) /\ Len(first) <= Len("IP") + 1 + Len(a)
  BY <1>2, <1>3, LineIs
<1>5. IsLine(second) /\ Len(second) <= Len(h)
  BY <1>3, CutLine
<1>6. ShowScreen("DEVICE READY", <<first, second>>)
  BY <1>1 DEF ShowStaReady
<1> HIDE DEF first, second
<1>7. Len("IP") + 1 + Len(a) <= Cols /\ Len(h) <= Cols
  BY ArgumentsAssumption
<1>8. Len(first) <= Cols /\ Len(second) <= Cols
  <2>1. Len(first) \in Nat /\ Len(second) \in Nat /\ Len(a) \in Nat /\ Len(h) \in Nat
    BY <1>3, <1>4, <1>5 DEF IsLine
  <2> DEFINE n == Len("IP")
  <2>2. n \in Nat /\ Len(first) <= n + 1 + Len(a) /\ n + 1 + Len(a) <= Cols
    BY <1>2, <1>4, <1>7
  <2> HIDE DEF n
  <2>3. QED
    BY <1>5, <1>7, <2>1, <2>2, ColsNat
<1>9. Fresh /\ header' = 3 /\ texts'[2] = first /\ texts'[3] = second
  BY <1>2, <1>4, <1>5, <1>6, TwoLines
<1>10. \A k \in 2 .. 3 : k = 2 \/ k = 3
  OBVIOUS
<1>11. QED
  BY <1>8, <1>9, <1>10 DEF StationScreen

-----------------------------------------------------------------------------
(* The invariant of the texts.                                             *)

\* The rows that are drawn are above the next one, and none is of a later text.
Placed ==
    /\ \A r \in Used : r < row
    /\ \A r \in Used : /\ screen[r].text <= current
                       /\ screen[r].text = current => PastRow(r) <= index
    /\ stationScreen => \A r \in Used : screen[r].text <= header <=> r < StatusStartRow

\* A title, at most three lines, and in the station mode the status.
OnScreen ==
    /\ texts # <<>> => header \in 1 .. 4 /\ texts[1] \in Seq({Letter})
    /\ stationScreen => texts # <<>> /\ header = 3
    /\ Len(texts) = header \/ (stationScreen /\ Len(texts) = header + 1)
    /\ ~ AllDrawn => current >= 2
    /\ \A k \in 2 .. header : IsLine(texts[k]) /\ (stationScreen => Len(texts[k]) <= Cols)
    /\ Len(texts) > header => texts[header + 1] \in Statuses /\ current > header

\* A line takes at most two rows, in the station mode one: the second row of a
\* line reaches its end.
Budget ==
    current \in 2 .. header =>
        LET last == Len(Text) IN
        /\ row <= 2 * current /\ (index = 1 => row <= 2 * current - 2)
        /\ index \in 2 .. last => row <= 2 * current - 1 /\ index + Cols > last
        /\ stationScreen => /\ row <= current + 1 /\ (index = 1 => row <= current)
                            /\ index > 1 => index > last

LinesSoFar == \A k \in 2 .. header : k < current => LettersDrawn(k, Len(texts[k]))

\* The first row of a status ends after the label or at the end of its line, the
\* second one at the end or one space before it, and the third one is the last
\* that the second line needs.
StatusAt(p, a, b) ==
    \/ index = 1 /\ row = StatusStartRow
    \/ index = p + 1 /\ row = StatusStartRow + 1
    \/ index \in {a - 1, a + 1} /\ row <= StatusStartRow + 2
    \/ index >= b

StatusSoFar ==
    header < current /\ ~ AllDrawn =>
        /\ row >= StatusStartRow
        /\ \E p \in 1 .. Cols : \E a \in p + 2 .. p + Cols + 2 : \E b \in a + 1 .. a + Cols + 1 :
               /\ b <= Len(Text) + 1 /\ b <= CopySize
               /\ StatusForm(Text, p, a, b) /\ StatusAt(p, a, b)

Sizes ==
    /\ Cols \in Nat /\ Cols >= 2 /\ TextRows \in Nat /\ TextRows >= 8
    /\ StatusStartRow \in 4 .. TextRows - 3
    /\ LineSize \in 1 .. Cols + 3 /\ CopySize \in Nat /\ CopySize >= LineSize

\* The sizes that the steps below use.
LEMMA SizesAre == Sizes
<1>1. TextRows \in Int
  BY SizesAssumption DEF TextRows
<1>2. QED
  BY <1>1, SizesAssumption, ColsNat DEF Sizes

TextInv ==
    /\ TextType /\ ReadingOrder /\ WordsWhole /\ RowsApart
    /\ Placed /\ OnScreen /\ Budget /\ LinesSoFar /\ StatusSoFar /\ StateShown

\* The cells of a row of the frame buffer are the bytes of that row.
LEMMA CellOfRow ==
    ASSUME NEW r \in 0 .. TextRows - 1, NEW c \in 0 .. Cols - 1
    PROVE  CharBytes(r, c) # {} /\ CharBytes(r, c) \subseteq r * Width .. (r + 1) * Width - 1
<1>1. TextRows \in Nat /\ Cols \in Nat /\ Width \in Nat /\ CharWidth \in Nat /\ CharWidth >= 6
  BY SizesAre, SizesAssumption DEF Sizes
<1>2. Cols * CharWidth <= Width
  BY <1>1 DEF Cols
<1>3. (c + 1) * CharWidth <= Cols * CharWidth
  BY <1>1
<1> DEFINE p == c * CharWidth
           low == r * Width
           width == Cols * CharWidth
<1>4. p \in Nat /\ low \in Nat /\ width \in Nat /\ (c + 1) * CharWidth = p + CharWidth
      /\ (r + 1) * Width = low + Width
  BY <1>1
<1>5. CharBytes(r, c) = low + p .. low + p + 5
  BY <1>1 DEF CharBytes
<1>6. p + CharWidth <= width /\ width <= Width
  BY <1>2, <1>3, <1>4
<1> HIDE DEF p, low, width
<1> DEFINE first == low + p
           high == low + Width - 1
<1>7. first \in Nat /\ high \in Int /\ low <= first /\ first + 5 <= high
  BY <1>1, <1>4, <1>6
<1> HIDE DEF first, high
<1>8. first \in first .. first + 5
  BY <1>7
<1>9. \A m \in first .. first + 5 : m \in low .. high
  BY <1>4, <1>7
<1>10. low = r * Width /\ CharBytes(r, c) = first .. first + 5
  BY <1>5 DEF low, first
<1>11. (r + 1) * Width - 1 = high
  BY <1>1, <1>4 DEF high
<1>12. QED
  BY <1>8, <1>9, <1>10, <1>11

\* The empty display.
LEMMA InitInv ==
    ASSUME TextInit
    PROVE  TextInv
<1>1. /\ texts = <<>> /\ Len(texts) = 0 /\ header = 0 /\ stationScreen = FALSE /\ current = 1
      /\ index = 1 /\ row = 0 /\ AllDrawn
  BY DEF TextInit, AllDrawn
<1>2. screen = ClearBuffer /\ Used = {}
  BY SizesAre DEF TextInit, ClearBuffer, EmptyRow, Segment, Used, Sizes
<1>3. TextType
  <2>1. texts \in Seq(Seq(Cell))
    BY <1>1
  <2>2. screen \in [0 .. TextRows - 1 -> [text : 0 .. Len(texts), first : Nat \ {0}, length : 0 .. Cols]]
    BY <1>1, <1>2, SizesAre DEF ClearBuffer, EmptyRow, Segment, Sizes
  <2>3. row \in 0 .. TextRows
    BY <1>1, SizesAre DEF Sizes
  <2>4. \A r \in Used : screen[r].text # 0 /\ PastRow(r) <= Len(texts[screen[r].text]) + 1
    BY <1>2
  <2>5. header \in 0 .. Len(texts) /\ current \in 1 .. Len(texts) + 1
    BY <1>1
  <2>6. stationScreen \in BOOLEAN
    BY <1>1
  <2>7. index \in Nat \ {0}
    BY <1>1
  <2>8. QED
    BY <1>1, <2>1, <2>2, <2>3, <2>4, <2>5, <2>6, <2>7, Zenon DEF TextType
<1>4. ReadingOrder /\ WordsWhole /\ RowsApart /\ Placed
  BY <1>1, <1>2 DEF ReadingOrder, WordsWhole, RowsApart, Placed
<1>5. OnScreen /\ Budget /\ LinesSoFar /\ StatusSoFar /\ StateShown
  BY <1>1 DEF OnScreen, Budget, LinesSoFar, StatusSoFar, StateShown, StatusDrawn
<1>6. QED
  BY <1>3, <1>4, <1>5 DEF TextInv

\* Only the title is on a new screen.
LEMMA FreshRows ==
    ASSUME Fresh
    PROVE  /\ screen' \in [0 .. TextRows - 1 -> [text : 0 .. 1, first : Nat \ {0}, length : 0 .. Cols]]
           /\ \A r \in Used' : /\ r = 0 /\ r \in 0 .. TextRows - 1
                              /\ screen'[r].text = 1 /\ screen'[r].first = 1
                              /\ screen'[r].length \in 0 .. Cols
                              /\ PastRow(r)' \in 1 .. Len(texts'[1]) + 1
<1>1. PICK n \in 0 .. Cols : /\ n <= Len(texts'[1])
                           /\ screen' = [ClearBuffer EXCEPT ![0] = Segment(1, 1, n)]
  BY DEF Fresh
<1>2. Cols \in Nat /\ TextRows \in Nat /\ 0 \in 0 .. TextRows - 1
  BY SizesAre DEF Sizes
<1>3. Len(texts'[1]) \in Nat
  BY DEF Fresh
<1>4. \A r \in 0 .. TextRows - 1 :
         screen'[r] = IF r = 0 THEN Segment(1, 1, n) ELSE EmptyRow
  BY <1>1, <1>2 DEF ClearBuffer
<1>5. DOMAIN screen' = 0 .. TextRows - 1 /\ screen' = [r \in 0 .. TextRows - 1 |-> screen'[r]]
  BY <1>1 DEF ClearBuffer
<1>6. screen' \in [0 .. TextRows - 1 -> [text : 0 .. 1, first : Nat \ {0}, length : 0 .. Cols]]
  <2>1. \A r \in 0 .. TextRows - 1 :
           screen'[r] \in [text : 0 .. 1, first : Nat \ {0}, length : 0 .. Cols]
    BY <1>2, <1>4 DEF Segment, EmptyRow
  <2>2. QED
    BY <1>5, <2>1
<1>7. \A r \in Used' : r = 0 /\ r \in 0 .. TextRows - 1 /\ screen'[r] = Segment(1, 1, n)
  BY <1>2, <1>4 DEF Used, Segment, EmptyRow
<1>8. QED
  BY <1>1, <1>2, <1>3, <1>6, <1>7 DEF PastRow, Segment

\* A new screen.
LEMMA FreshInv ==
    ASSUME Fresh, stationScreen' \in BOOLEAN,
           stationScreen' => header' = 3 /\ \A k \in 2 .. header' : Len(texts'[k]) <= Cols
    PROVE  TextInv'
<1>1. /\ texts' \in Seq(Seq(Cell)) /\ header' = Len(texts') /\ header' \in 2 .. 4
      /\ texts'[1] \in Seq({Letter})
      /\ \A k \in 2 .. header' : IsLine(texts'[k])
      /\ current' = 2 /\ index' = 1 /\ row' = 2
  BY DEF Fresh
<1>2. \A r \in Used' : /\ r = 0 /\ r \in 0 .. TextRows - 1
                      /\ screen'[r].text = 1 /\ screen'[r].first = 1
                      /\ screen'[r].length \in 0 .. Cols
                      /\ PastRow(r)' \in 1 .. Len(texts'[1]) + 1
  BY FreshRows
<1>3. Sizes
  BY SizesAre
<1>4. ~ AllDrawn'
  BY <1>1 DEF AllDrawn
<1>5. TextType'
  <2>1. \A r \in 0 .. TextRows - 1 :
           screen'[r] \in [text : 0 .. Len(texts'), first : Nat \ {0}, length : 0 .. Cols]
    BY <1>1, FreshRows
  <2>2. screen' \in [0 .. TextRows - 1 -> [text : 0 .. Len(texts'), first : Nat \ {0}, length : 0 .. Cols]]
    BY <2>1, FreshRows
  <2>3. \A r \in Used' : screen'[r].text # 0 /\ PastRow(r)' <= Len(texts'[screen'[r].text]) + 1
    BY <1>2
  <2>4. Text' = texts'[2] /\ texts'[2] \in Seq(Cell) /\ index' <= Len(Text') + 1
    BY <1>1 DEF Text
  <2>5. row' \in 0 .. TextRows
    BY <1>1, <1>3 DEF Sizes
  <2>6. QED
    BY <1>1, <2>2, <2>3, <2>4, <2>5 DEF TextType
<1>6. ReadingOrder'
  <2>1. LettersDrawn(current, index - 1)'
    BY <1>1 DEF LettersDrawn
  <2>2. QED
    BY <1>2, <2>1 DEF ReadingOrder
<1>7. WordsWhole'
  BY <1>2 DEF WordsWhole
<1>8. RowsApart'
  <2>1. ASSUME NEW r \in Used' PROVE \A i \in screen'[r].first .. PastRow(r)' - 1 : texts'[screen'[r].text][i] # NewLine
    <3>1. \A i \in 1 .. Len(texts'[1]) : texts'[1][i] = Letter
      BY <1>1
    <3>2. Len(texts'[1]) \in Nat
      BY <1>1
    <3>3. QED
      BY <1>2, <3>1, <3>2, CellsAssumption
  <2>2. ASSUME NEW r \in Used', NEW c \in 0 .. screen'[r].length - 1
        PROVE  CharBytes(r, c) # {} /\ CharBytes(r, c) \subseteq r * Width .. (r + 1) * Width - 1
    <3>1. c \in 0 .. Cols - 1
      BY <1>2, <1>3 DEF Sizes
    <3>2. QED
      BY <1>2, <3>1, CellOfRow
  <2>3. QED
    BY <2>1, <2>2 DEF RowsApart
<1>9. Placed'
  BY <1>1, <1>2, <1>3 DEF Placed, Sizes
<1>10. OnScreen'
  <2>1. texts' # <<>>
    BY <1>1
  <2>2. QED
    BY <1>1, <1>4, <2>1 DEF OnScreen
<1>11. Budget'
  BY <1>1 DEF Budget
<1>12. LinesSoFar' /\ StatusSoFar' /\ StateShown'
  BY <1>1, <1>4 DEF LinesSoFar, StatusSoFar, StateShown, StatusDrawn
<1>13. QED
  BY <1>5, <1>6, <1>7, <1>8, <1>9, <1>10, <1>11, <1>12 DEF TextInv

\* What stays of a text that is on the screen stays drawn.
LEMMA DrawnStays ==
    ASSUME NEW k, NEW last,
           \A r \in Used : screen[r].text = k => r \in Used' /\ screen'[r] = screen[r],
           \A i \in 1 .. last : texts'[k][i] = texts[k][i],
           LettersDrawn(k, last)
    PROVE  LettersDrawn(k, last)'
<1>1. ASSUME NEW i, Drawn(k, i) PROVE Drawn(k, i)'
  <2>1. PICK r \in Used : screen[r].text = k /\ i \in screen[r].first .. PastRow(r) - 1
    BY <1>1 DEF Drawn
  <2>2. r \in Used' /\ screen'[r] = screen[r]
    BY <2>1
  <2>3. PastRow(r)' = PastRow(r)
    BY <2>2 DEF PastRow
  <2>4. QED
    BY <2>1, <2>2, <2>3 DEF Drawn
<1>2. QED
  BY <1>1 DEF LettersDrawn

\* A whole text stays.
LEMMA LineStays ==
    ASSUME NEW k,
           \A r \in Used : screen[r].text = k => r \in Used' /\ screen'[r] = screen[r],
           texts'[k] = texts[k],
           LettersDrawn(k, Len(texts[k]))
    PROVE  LettersDrawn(k, Len(texts[k]))'
<1>1. PICK last : last = Len(texts[k])
  OBVIOUS
<1>2. LettersDrawn(k, last) /\ \A i \in 1 .. last : texts'[k][i] = texts[k][i]
  BY <1>1
<1>3. LettersDrawn(k, last)'
  BY <1>2, DrawnStays
<1>4. last = Len(texts'[k])
  BY <1>1
<1>5. QED
  BY <1>3, <1>4 DEF LettersDrawn

\* The status is drawn below the lines, which stay.
LEMMA StatusKeeps ==
    ASSUME TextInv, NEW plain \in Statuses, ShowStaStatus(plain)
    PROVE  /\ texts' \in Seq(Seq(Cell)) /\ Len(texts') = header + 1
           /\ \A k \in 1 .. header : texts'[k] = texts[k]
           /\ texts'[header + 1] = plain
           /\ \A r \in Used' : /\ r \in Used /\ screen'[r] = screen[r] /\ PastRow(r)' = PastRow(r)
                              /\ r < StatusStartRow /\ screen[r].text \in 1 .. header
           /\ \A r \in Used : screen[r].text <= header => r \in Used' /\ screen'[r] = screen[r]
<1>1. TextType /\ stationScreen /\ Placed /\ header \in 0 .. Len(texts)
  BY DEF TextInv, ShowStaStatus, TextType
<1>2. plain \in Seq(Cell)
  BY StatusesAssumption
<1> DEFINE kept == SubSeq(texts, 1, header)
           one == <<plain>>
<1>3. /\ kept \in Seq(Seq(Cell)) /\ Len(kept) = header
      /\ \A k \in 1 .. header : kept[k] = texts[k]
  BY <1>1 DEF TextType
<1>4. one \in Seq(Seq(Cell)) /\ Len(one) = 1 /\ one[1] = plain
  BY <1>2
<1>5. texts' = kept \o one
  BY DEF ShowStaStatus
<1> HIDE DEF kept, one
<1> DEFINE both == kept \o one
<1>6. /\ both \in Seq(Seq(Cell)) /\ Len(both) = Len(kept) + Len(one)
      /\ \A k \in 1 .. Len(kept) + Len(one) :
            both[k] = IF k <= Len(kept) THEN kept[k] ELSE one[k - Len(kept)]
  BY <1>3, <1>4, JoinIs
<1> HIDE DEF both
<1>7. header \in Nat
  BY <1>1
<1>8. /\ texts' \in Seq(Seq(Cell)) /\ Len(texts') = header + 1
      /\ \A k \in 1 .. header : texts'[k] = texts[k]
      /\ texts'[header + 1] = plain
  <2>1. texts' = both /\ Len(kept) = header /\ Len(one) = 1
    BY <1>3, <1>4, <1>5 DEF both
  <2>2. \A k \in 1 .. header : k \in 1 .. header + 1 /\ k <= header
    BY <1>7
  <2>3. \A k \in 1 .. header : texts'[k] = kept[k]
    BY <1>6, <2>1, <2>2
  <2>4. header + 1 \in 1 .. header + 1 /\ ~ (header + 1 <= header) /\ header + 1 - header = 1
    BY <1>7
  <2>5. texts'[header + 1] = one[1]
    BY <1>6, <2>1, <2>4
  <2>6. QED
    BY <1>3, <1>4, <1>6, <2>1, <2>3, <2>5
<1>9. \A r \in 0 .. TextRows - 1 : screen'[r] = IF r < StatusStartRow THEN screen[r] ELSE EmptyRow
  BY DEF ShowStaStatus
<1>10. ASSUME NEW r \in Used'
       PROVE  /\ r \in Used /\ screen'[r] = screen[r] /\ PastRow(r)' = PastRow(r)
              /\ r < StatusStartRow /\ screen[r].text \in 1 .. header
  <2>1. r \in 0 .. TextRows - 1 /\ screen'[r].length > 0
    BY DEF Used
  <2>2. r < StatusStartRow /\ screen'[r] = screen[r]
    BY <1>9, <2>1 DEF EmptyRow, Segment
  <2>3. r \in Used
    BY <2>1, <2>2 DEF Used
  <2>4. screen[r].text <= header
    BY <1>1, <2>2, <2>3 DEF Placed
  <2>5. screen[r].text \in Nat /\ screen[r].text # 0
    BY <1>1, <2>1, <2>3 DEF TextType
  <2>6. QED
    BY <1>7, <2>2, <2>3, <2>4, <2>5 DEF PastRow
<1>11. ASSUME NEW r \in Used, screen[r].text <= header
       PROVE  r \in Used' /\ screen'[r] = screen[r]
  <2>1. r < StatusStartRow /\ r \in 0 .. TextRows - 1
    BY <1>1, <1>11 DEF Placed, Used
  <2>2. QED
    BY <1>9, <2>1 DEF Used
<1>12. QED
  BY <1>8, <1>10, <1>11

\* A new status.
LEMMA StatusInv ==
    ASSUME TextInv, NEW plain \in Statuses, ShowStaStatus(plain)
    PROVE  TextInv'
<1>1. /\ texts' \in Seq(Seq(Cell)) /\ Len(texts') = header + 1
      /\ \A k \in 1 .. header : texts'[k] = texts[k]
      /\ texts'[header + 1] = plain
      /\ \A r \in Used' : /\ r \in Used /\ screen'[r] = screen[r] /\ PastRow(r)' = PastRow(r)
                         /\ r < StatusStartRow /\ screen[r].text \in 1 .. header
      /\ \A r \in Used : screen[r].text <= header => r \in Used' /\ screen'[r] = screen[r]
  BY StatusKeeps
<1>2. /\ AllDrawn /\ stationScreen /\ header' = header /\ stationScreen' = stationScreen
      /\ current' = Len(texts') /\ index' = 1 /\ row' = StatusStartRow
      /\ screen' = [r \in 0 .. TextRows - 1 |-> IF r < StatusStartRow THEN screen[r] ELSE EmptyRow]
  BY DEF ShowStaStatus
<1>3. Sizes
  BY SizesAre
<1>4. /\ texts # <<>> /\ header = 3 /\ texts[1] \in Seq({Letter})
      /\ \A k \in 2 .. header : IsLine(texts[k]) /\ Len(texts[k]) <= Cols
  BY <1>2 DEF TextInv, OnScreen
<1>5. /\ current' = 4 /\ ~ AllDrawn' /\ Text' = plain /\ plain \in Seq(Cell)
  BY <1>1, <1>2, <1>4, StatusesAssumption DEF AllDrawn, Text
<1>6. TextType'
  <2>1. screen \in [0 .. TextRows - 1 -> [text : 0 .. Len(texts), first : Nat \ {0}, length : 0 .. Cols]]
    BY DEF TextInv, TextType
  <2>2. Len(texts) \in Nat /\ Len(texts) <= Len(texts')
    <3>1. Len(texts) \in Nat /\ (Len(texts) = header \/ Len(texts) = header + 1)
      BY DEF TextInv, OnScreen, TextType
    <3>2. header = 3 /\ Len(texts') = header + 1
      BY <1>1, <1>4
    <3> DEFINE n == Len(texts)
               m == Len(texts')
    <3>3. n \in Nat /\ (n = header \/ n = header + 1) /\ header = 3 /\ m = header + 1
      BY <3>1, <3>2
    <3> HIDE DEF n, m
    <3>4. n \in Nat /\ n <= m
      BY <3>3
    <3>5. QED
      BY <3>4 DEF n, m
  <2>3. ASSUME NEW r \in 0 .. TextRows - 1
        PROVE  screen'[r] \in [text : 0 .. Len(texts'), first : Nat \ {0}, length : 0 .. Cols]
    <3>1. screen[r] \in [text : 0 .. Len(texts'), first : Nat \ {0}, length : 0 .. Cols]
      <4>1. screen[r] \in [text : 0 .. Len(texts), first : Nat \ {0}, length : 0 .. Cols]
        BY <2>1
      <4>2. 0 .. Len(texts) \subseteq 0 .. Len(texts')
        <5>1. Len(texts') \in Nat
          BY <1>1
        <5> DEFINE n == Len(texts)
                   m == Len(texts')
        <5>2. n \in Nat /\ m \in Nat /\ n <= m
          BY <2>2, <5>1
        <5> HIDE DEF n, m
        <5>3. 0 .. n \subseteq 0 .. m
          BY <5>2
        <5>4. QED
          BY <5>3 DEF n, m
      <4>3. QED
        BY <4>1, <4>2
    <3>2. EmptyRow \in [text : 0 .. Len(texts'), first : Nat \ {0}, length : 0 .. Cols]
      BY <1>1, <1>3, <1>4 DEF EmptyRow, Segment, Sizes
    <3>3. QED
      BY <1>2, <3>1, <3>2
  <2>4. screen' \in [0 .. TextRows - 1 -> [text : 0 .. Len(texts'), first : Nat \ {0}, length : 0 .. Cols]]
    BY <1>2, <2>3, Zenon
  <2>5. ASSUME NEW r \in Used'
        PROVE  screen'[r].text # 0 /\ PastRow(r)' <= Len(texts'[screen'[r].text]) + 1
    BY <1>1, <1>4 DEF TextInv, TextType
  <2>6. header' \in 0 .. Len(texts') /\ current' \in 1 .. Len(texts') + 1 /\ stationScreen' \in BOOLEAN
    BY <1>1, <1>2, <1>4
  <2>7. index' \in Nat \ {0} /\ index' <= Len(Text') + 1
    BY <1>2, <1>5
  <2>8. row' \in 0 .. TextRows
    BY <1>2, <1>3 DEF Sizes
  <2>9. QED
    BY <1>1, <2>4, <2>5, <2>6, <2>7, <2>8 DEF TextType
<1>7. ReadingOrder'
  <2>1. LettersDrawn(current, index - 1)'
    BY <1>2 DEF LettersDrawn
  <2>2. QED
    BY <1>1, <2>1 DEF TextInv, ReadingOrder
<1>8. WordsWhole'
  BY <1>1 DEF TextInv, WordsWhole
<1>9. RowsApart'
  BY <1>1 DEF TextInv, RowsApart
<1>10. Placed'
  <2>1. header' = 3 /\ current' = 4 /\ row' = StatusStartRow
    BY <1>2, <1>4, <1>5
  <2>2. ASSUME NEW r \in Used'
        PROVE  /\ r < row' /\ screen'[r].text < current' /\ screen'[r].text <= header'
               /\ r < StatusStartRow /\ screen'[r].text # current'
    <3>1. screen'[r].text \in 1 .. 3 /\ r < StatusStartRow
      BY <1>1, <1>4
    <3>2. QED
      BY <2>1, <3>1
  <2>3. \A r \in Used' : screen'[r].text <= current'
    <3>1. \A r \in Used' : screen'[r].text \in 1 .. 3
      BY <1>1, <1>4
    <3>2. QED
      BY <2>1, <3>1
  <2>4. QED
    BY <2>2, <2>3 DEF Placed
<1>11. OnScreen'
  <2>1. texts'[1] = texts[1] /\ \A k \in 2 .. header' : texts'[k] = texts[k]
    BY <1>1, <1>2, <1>4
  <2>2. header' = 3 /\ current' = 4 /\ Len(texts') = 4 /\ texts' \in Seq(Seq(Cell)) /\ texts'[4] = plain
    BY <1>1, <1>2, <1>4
  <2>3. texts' # <<>>
    BY <2>2
  <2>4. \A k \in 2 .. header' : IsLine(texts'[k]) /\ Len(texts'[k]) <= Cols
    BY <1>2, <1>4, <2>1
  <2>5. QED
    BY <1>2, <1>4, <2>1, <2>2, <2>3, <2>4 DEF OnScreen
<1>12. Budget' /\ StateShown'
  BY <1>2, <1>4, <1>5 DEF Budget, StateShown, StatusDrawn
<1>13. LinesSoFar'
  <2>1. ASSUME NEW k \in 2 .. header PROVE LettersDrawn(k, Len(texts[k]))'
    <3>1. texts'[k] = texts[k] /\ k < current
      BY <1>1, <1>2, <1>4 DEF TextInv, TextType, AllDrawn
    <3>2. LettersDrawn(k, Len(texts[k]))
      BY <3>1 DEF TextInv, LinesSoFar
    <3>3. \A r \in Used : screen[r].text = k => r \in Used' /\ screen'[r] = screen[r]
      BY <1>1, <1>4
    <3>4. QED
      BY <3>1, <3>2, <3>3, LineStays
  <2>2. QED
    BY <1>2, <2>1, Zenon DEF LinesSoFar
<1>14. StatusSoFar'
  <2>1. PICK p \in 1 .. Cols : \E a \in p + 2 .. p + Cols + 2 : \E b \in a + 1 .. a + Cols + 1 :
           b <= Len(plain) + 1 /\ b <= CopySize /\ StatusForm(plain, p, a, b)
    BY StatusesAssumption
  <2>2. PICK a \in p + 2 .. p + Cols + 2 : \E b \in a + 1 .. a + Cols + 1 :
           b <= Len(plain) + 1 /\ b <= CopySize /\ StatusForm(plain, p, a, b)
    BY <2>1
  <2>3. PICK b \in a + 1 .. a + Cols + 1 :
           b <= Len(plain) + 1 /\ b <= CopySize /\ StatusForm(plain, p, a, b)
    BY <2>2
  <2>4. StatusAt(p, a, b)'
    BY <1>2 DEF StatusAt
  <2>5. row' >= StatusStartRow
    BY <1>2, <1>3 DEF Sizes
  <2>6. StatusForm(Text, p, a, b)'
    BY <1>5, <2>3 DEF StatusForm
  <2>7. QED
    BY <1>5, <2>3, <2>4, <2>5, <2>6 DEF StatusSoFar
<1>15. QED
  BY <1>6, <1>7, <1>8, <1>9, <1>10, <1>11, <1>12, <1>13, <1>14 DEF TextInv

\* What is passed of the text that is drawn.
LEMMA PieceDrawn ==
    ASSUME NEW text \in Seq(Cell), NEW i \in 1 .. Len(text), NEW w \in Nat, NEW e \in Nat, NEW n \in Nat,
           NEW next, Piece(text, i, w, e, n, next)
    PROVE  /\ w \in i .. Len(text) + 1 /\ e \in w .. Len(text) + 1 /\ w + n <= e /\ e <= w + Cols
           /\ next \in e .. Len(text) + 1 /\ next > i
           /\ \A k \in i .. next - 1 : text[k] = Letter => k \in w .. w + n - 1
           /\ \A k \in w .. w + n - 1 : text[k] # NewLine
           /\ w + n <= Len(text) /\ text[w + n] = Letter =>
                 e = w + n /\ (n > 0 => n = Cols /\ \A k \in w .. w + n - 1 : text[k] = Letter)
<1>1. Cols \in Nat /\ Cols >= 2
  BY ColsNat
<1>2. /\ w \in i .. Len(text) + 1 /\ e \in w .. Len(text) + 1 /\ e <= w + Cols /\ n \in 0 .. e - w
      /\ next = (IF e <= Len(text) /\ text[e] = NewLine THEN e + 1 ELSE e)
      /\ \A k \in i .. w - 1 : text[k] # Letter
      /\ \A k \in w + n .. e - 1 : text[k] = Space
      /\ n = 0 \/ text[w + n - 1] # Space
      /\ \A k \in w .. e - 1 : text[k] # NewLine
      /\ \/ e = Len(text) + 1
         \/ text[e] = NewLine
         \/ e = w + Cols /\ \A k \in w .. e - 1 : text[k] # Space
         \/ e > w /\ text[e - 1] = Space
  BY DEF Piece, Starts, Ends
<1>3. next \in e .. Len(text) + 1
  BY <1>2
<1>4. next > i
  BY <1>1, <1>2
<1>5. \A k \in i .. next - 1 : text[k] = Letter => k \in w .. w + n - 1
  <2>1. ASSUME NEW k \in i .. next - 1, k \notin w .. w + n - 1 PROVE text[k] # Letter
    <3>1. k \in i .. w - 1 \/ k \in w + n .. e - 1 \/ (k = e /\ next = e + 1)
      BY <1>2, <1>3, <2>1
    <3>2. QED
      BY <1>2, <3>1, CellsAssumption
  <2>2. QED
    BY <2>1
<1>6. \A k \in w .. w + n - 1 : text[k] # NewLine
  BY <1>2
<1>7. ASSUME w + n <= Len(text), text[w + n] = Letter
      PROVE  e = w + n /\ (n > 0 => n = Cols /\ \A k \in w .. w + n - 1 : text[k] = Letter)
  <2>1. e = w + n
    <3>1. w + n \notin w + n .. e - 1
      BY <1>2, <1>7, CellsAssumption
    <3>2. QED
      BY <1>2, <3>1
  <2>2. ASSUME n > 0 PROVE n = Cols /\ \A k \in w .. w + n - 1 : text[k] = Letter
    <3>1. text[e] = Letter /\ e <= Len(text) /\ text[e - 1] # Space
      BY <1>2, <1>7, <2>1, <2>2
    <3>2. e = w + Cols /\ \A k \in w .. e - 1 : text[k] # Space /\ text[k] # NewLine
      BY <1>2, <3>1, CellsAssumption
    <3>3. \A k \in w .. e - 1 : text[k] \in Cell
      BY <1>2
    <3>4. QED
      BY <1>1, <2>1, <3>2, <3>3 DEF Cell
  <2>3. QED
    BY <2>1, <2>2
<1>8. QED
  BY <1>2, <1>3, <1>4, <1>5, <1>6, <1>7

\* A line of a screen needs two rows, and one if it is not longer than a row.
LEMMA LineRows ==
    ASSUME NEW text, IsLine(text), NEW i \in 1 .. Len(text), NEW w \in Nat, NEW e \in Nat, NEW n \in Nat,
           NEW next, Piece(text, i, w, e, n, next)
    PROVE  /\ next > 1 /\ next <= Len(text) + 1
           /\ next <= Len(text) => next + Cols > Len(text)
           /\ i + Cols > Len(text) => next > Len(text)
<1>1. text \in Seq(Cell) /\ Len(text) <= Cols + 2
  BY SizesAre, PlainCells DEF IsLine, Sizes
<1>2. Cols \in Nat /\ Cols >= 2
  BY ColsNat
<1>3. \A k \in 1 .. Len(text) : text[k] # NewLine
  <2>1. \A k \in 1 .. Len(text) : text[k] \in Plain
    BY DEF IsLine
  <2>2. QED
    BY <2>1, CellsAssumption DEF Plain
<1>4. Starts(text, i, w) /\ Ends(text, w, e) /\ next = e
  <2>1. next = (IF e <= Len(text) /\ text[e] = NewLine THEN e + 1 ELSE e) /\ Starts(text, i, w) /\ Ends(text, w, e)
    BY DEF Piece
  <2>2. e \in 1 .. Len(text) + 1
    BY <1>1, <2>1 DEF Starts, Ends
  <2>3. QED
    BY <1>3, <2>1, <2>2
<1>5. w \in i .. Len(text) + 1 /\ (w = Len(text) + 1 \/ text[w] = Letter)
  <2>1. w \in i .. Len(text) + 1 /\ (w = Len(text) + 1 \/ text[w] = Letter \/ (w > i /\ text[w - 1] = NewLine))
    BY <1>4 DEF Starts
  <2>2. ~ (w > i /\ text[w - 1] = NewLine)
    BY <1>3, <2>1
  <2>3. QED
    BY <2>1, <2>2
<1>6. /\ e \in w .. Len(text) + 1
      /\ \/ e = Len(text) + 1
         \/ w + Cols <= Len(text) /\ (e = w + Cols \/ (e > w /\ text[e - 1] = Space))
  <2>1. e \in w .. Len(text) + 1 /\ (e = Len(text) + 1 \/ text[e] # NewLine)
    BY <1>3, <1>4, <1>5 DEF Ends
  <2>2. QED
    BY <1>4, <2>1 DEF Ends
<1>7. CASE e = Len(text) + 1
  BY <1>1, <1>2, <1>4, <1>7
<1>8. CASE w + Cols <= Len(text) /\ e = w + Cols
  BY <1>1, <1>2, <1>4, <1>5, <1>8
<1>9. CASE w + Cols <= Len(text) /\ e > w /\ text[e - 1] = Space
  <2>1. e - 1 # w
    BY <1>2, <1>5, <1>9, CellsAssumption
  <2>2. QED
    BY <1>1, <1>2, <1>4, <1>5, <1>6, <1>9, <2>1
<1>10. QED
  BY <1>6, <1>7, <1>8, <1>9

\* Where the rows of a status end.
StatusEnds(text, w, e, n, next, p, a, b) ==
    /\ Piece(text, 1, w, e, n, next) => next \in {p + 1, a + 1}
    /\ Piece(text, p + 1, w, e, n, next) => next \in {a - 1, a + 1}
    /\ \A i \in {a - 1, a + 1} : Piece(text, i, w, e, n, next) => next >= b

\* A status needs three rows.
LEMMA StatusRows ==
    ASSUME NEW text \in Seq(Cell), NEW w \in Nat, NEW e \in Nat, NEW n \in Nat, NEW next,
           NEW p \in 1 .. Cols, NEW a \in p + 2 .. p + Cols + 2, NEW b \in a + 1 .. a + Cols + 1,
           b <= Len(text) + 1, StatusForm(text, p, a, b)
    PROVE  StatusEnds(text, w, e, n, next, p, a, b)
<1>1. Cols \in Nat /\ Cols >= 2
  BY ColsNat
<1>2. /\ p + 1 < a - 1 /\ text[1] = Letter /\ text[p] = Space
      /\ \A k \in p + 1 .. a - 2 : text[k] = Letter
      /\ text[a - 1] = Space /\ text[a] = NewLine
      /\ \A k \in 1 .. b - 1 : text[k] = NewLine <=> k = a
      /\ a + 1 < b /\ text[a + 1] = Letter
      /\ b = Len(text) + 1 \/ text[b] = NewLine
  BY <1>1 DEF StatusForm
<1>3. Len(text) \in Nat /\ p \in Nat /\ a \in Nat /\ b \in Nat
  BY <1>1
<1>4. ASSUME NEW i \in 1 .. b - 1, text[i] = Letter, Piece(text, i, w, e, n, next)
      PROVE  /\ w = i /\ Ends(text, w, e)
             /\ next = (IF e <= Len(text) /\ text[e] = NewLine THEN e + 1 ELSE e)
  <2>1. Starts(text, i, w) /\ Ends(text, w, e)
        /\ next = (IF e <= Len(text) /\ text[e] = NewLine THEN e + 1 ELSE e)
    BY <1>4 DEF Piece
  <2>2. w = i
    BY <1>3, <1>4, <2>1 DEF Starts
  <2>3. QED
    BY <2>1, <2>2
<1>5. ASSUME Piece(text, 1, w, e, n, next) PROVE next \in {p + 1, a + 1}
  <2>1. /\ w = 1 /\ Ends(text, w, e)
        /\ next = (IF e <= Len(text) /\ text[e] = NewLine THEN e + 1 ELSE e)
    BY <1>2, <1>3, <1>4, <1>5
  <2>2. e \in 1 .. a
    BY <1>2, <1>3, <2>1 DEF Ends
  <2>3. CASE e = a
    BY <1>2, <1>3, <2>1, <2>3
  <2>4. CASE e # a
    <3>1. /\ 1 + Cols < a
          /\ \A k \in e .. Cols : text[k] # Space
          /\ \/ e = 1 + Cols /\ \A k \in 1 .. e - 1 : text[k] # Space
             \/ e > 1 /\ text[e - 1] = Space
      BY <1>1, <1>2, <1>3, <2>1, <2>2, <2>4 DEF Ends
    <3>2. e = p + 1
      <4>1. p \in 1 .. Cols /\ p \notin e .. Cols
        BY <1>2, <3>1
      <4>2. e > p
        BY <1>1, <2>2, <4>1
      <4>3. text[e - 1] = Space
        BY <1>1, <1>2, <3>1, <4>1
      <4>4. e - 1 \notin p + 1 .. a - 2
        BY <1>2, <4>3, CellsAssumption
      <4>5. QED
        BY <1>3, <2>2, <2>4, <4>2, <4>4
    <3>3. text[e] = Letter
      BY <1>2, <1>3, <3>2
    <3>4. QED
      BY <2>1, <3>2, <3>3, CellsAssumption
  <2>5. QED
    BY <2>3, <2>4
<1>6. ASSUME Piece(text, p + 1, w, e, n, next) PROVE next \in {a - 1, a + 1}
  <2>1. /\ w = p + 1 /\ Ends(text, w, e)
        /\ next = (IF e <= Len(text) /\ text[e] = NewLine THEN e + 1 ELSE e)
    BY <1>2, <1>3, <1>4, <1>6
  <2>2. e \in p + 1 .. a
    BY <1>2, <1>3, <2>1 DEF Ends
  <2>3. CASE e = a
    BY <1>2, <1>3, <2>1, <2>3
  <2>4. CASE e # a
    <3>1. /\ p + 1 + Cols < a
          /\ \/ e = p + 1 + Cols
             \/ e > p + 1 /\ text[e - 1] = Space
      BY <1>1, <1>2, <1>3, <2>1, <2>2, <2>4 DEF Ends
    <3>2. p + 1 + Cols = a - 1
      BY <1>1, <1>3, <3>1
    <3>3. ~ (e > p + 1 /\ text[e - 1] = Space)
      BY <1>1, <1>2, <1>3, <2>2, <2>4, <3>1, <3>2, CellsAssumption
    <3>4. e = a - 1 /\ text[e] = Space
      BY <1>2, <3>1, <3>2, <3>3
    <3>5. QED
      BY <2>1, <3>4, CellsAssumption
  <2>5. QED
    BY <2>3, <2>4
<1>7. ASSUME NEW i \in {a - 1, a + 1}, Piece(text, i, w, e, n, next) PROVE next >= b
  <2>1. w = a + 1 /\ Ends(text, w, e) /\ next \in {e, e + 1}
    <3>1. Starts(text, i, w) /\ Ends(text, w, e) /\ next \in {e, e + 1}
      BY <1>3, <1>7 DEF Piece, Ends
    <3>2. CASE i = a + 1
      BY <1>2, <1>3, <3>1, <3>2 DEF Starts
    <3>3. CASE i = a - 1
      <4>1. /\ w \in a - 1 .. Len(text) + 1
            /\ \A k \in a - 1 .. w - 2 : text[k] = Space
            /\ w = Len(text) + 1 \/ text[w] = Letter \/ (w > a - 1 /\ text[w - 1] = NewLine)
            /\ \A k \in a - 1 .. w - 1 : text[k] # Letter
        BY <3>1, <3>3 DEF Starts
      <4>2. w # a - 1 /\ w # a
        BY <1>2, <1>3, <4>1, CellsAssumption
      <4>3. ~ (w >= a + 2)
        BY <1>2, <1>3, <4>1, CellsAssumption
      <4>4. QED
        BY <1>3, <3>1, <4>1, <4>2, <4>3
    <3>4. QED
      BY <3>2, <3>3
  <2>2. e >= b
    <3>1. SUFFICES ASSUME e < b PROVE FALSE
      BY <1>3, <2>1 DEF Ends
    <3>2. e \in a + 1 .. b - 1 /\ text[e] # NewLine /\ e # Len(text) + 1
      BY <1>2, <1>3, <2>1, <3>1 DEF Ends
    <3>3. a + 1 + Cols <= Len(text) /\ \A k \in a + 1 .. a + 1 + Cols : text[k] # NewLine
      BY <2>1, <3>2 DEF Ends
    <3>4. QED
      BY <1>1, <1>2, <1>3, <3>3
  <2>3. QED
    BY <1>3, <2>1, <2>2 DEF Ends
<1>8. QED
  BY <1>5, <1>6, <1>7 DEF StatusEnds

\* The row that is drawn is a new one, and the others stay.
LEMMA WrapRows ==
    ASSUME TextInv, WrapRow, NEW w \in Nat, NEW n \in Nat, n <= Cols, NEW q, q = row,
           screen' = [screen EXCEPT ![row] = Segment(current, w, n)]
    PROVE  /\ q \in 0 .. TextRows - 1 /\ screen'[q] = Segment(current, w, n)
           /\ PastRow(q)' = w + n /\ (q \in Used' <=> n > 0)
           /\ \A r \in Used : /\ r \in Used' /\ screen'[r] = screen[r] /\ PastRow(r)' = PastRow(r)
                             /\ r < q
           /\ \A r \in Used' : r = q \/ r \in Used
<1>1. q \in 0 .. TextRows - 1
  BY SizesAre DEF TextInv, TextType, WrapRow, Sizes
<1>2. DOMAIN screen = 0 .. TextRows - 1
  BY DEF TextInv, TextType
<1>3. \A r \in 0 .. TextRows - 1 : screen'[r] = IF r = q THEN Segment(current, w, n) ELSE screen[r]
  BY <1>2
<1>4. \A r \in Used : r < q /\ r # q /\ r \in 0 .. TextRows - 1
  BY <1>1 DEF TextInv, Placed, Used
<1>5. \A r \in Used : r \in Used' /\ screen'[r] = screen[r] /\ PastRow(r)' = PastRow(r)
  BY <1>3, <1>4 DEF Used, PastRow
<1>6. \A r \in Used' : r = q \/ r \in Used
  BY <1>3 DEF Used
<1>7. screen'[q] = Segment(current, w, n)
  BY <1>1, <1>3
<1>8. PastRow(q)' = w + n /\ (q \in Used' <=> n > 0)
  BY <1>1, <1>7 DEF PastRow, Used, Segment
<1>9. QED
  BY <1>1, <1>4, <1>5, <1>6, <1>7, <1>8

\* The rows that are left for the screen after a step of a line.
LEMMA RowsLeft ==
    ASSUME NEW last \in Nat, NEW i \in 1 .. last, NEW next \in Nat, NEW r \in Nat, NEW k \in Nat,
           NEW cols \in Nat,
           r <= 2 * k, i = 1 => r <= 2 * k - 2,
           i \in 2 .. last => r <= 2 * k - 1 /\ i + cols > last,
           next > 1, next <= last => next + cols > last, i + cols > last => next > last
    PROVE  /\ r + 1 <= 2 * k
           /\ next \in 2 .. last => r + 1 <= 2 * k - 1 /\ next + cols > last
<1>1. CASE i = 1
  BY <1>1
<1>2. CASE i \in 2 .. last
  BY <1>2
<1>3. QED
  BY <1>1, <1>2

\* A row that is drawn.
LEMMA WrapInv ==
    ASSUME TextInv, WrapRow
    PROVE  TextInv'
<1>1. /\ ~ AllDrawn /\ index \in 1 .. Len(Normalized) /\ row' = row + 1 /\ texts' = texts
      /\ header' = header /\ stationScreen' = stationScreen /\ current' = current
  BY NormalizedIs DEF TextInv, TextType, WrapRow, lineVars
<1>2. /\ current \in 1 .. Len(texts) /\ Text \in Seq(Cell) /\ Normalized \in Seq(Cell)
      /\ Len(Normalized) <= Len(Text) /\ Len(Normalized) < CopySize
      /\ Len(Text) < CopySize => Normalized = Text
      /\ Len(Normalized) = Len(Text) \/ Len(Normalized) = CopySize - 1
      /\ \A k \in 1 .. Len(Normalized) : Normalized[k] = Text[k]
  BY <1>1, NormalizedIs DEF TextInv
<1>3. Text = texts[current] /\ ~ AllDrawn' /\ Text' = Text
  BY <1>1 DEF Text, AllDrawn
<1>4. PICK w \in Nat, e \in Nat, n \in Nat :
         /\ Piece(Normalized, index, w, e, n, index') /\ n <= Cols
         /\ screen' = [screen EXCEPT ![row] = Segment(current, w, n)]
  BY WrapRowIs DEF TextInv
<1> DEFINE text == Normalized
<1>5. /\ w \in index .. Len(text) + 1 /\ e \in w .. Len(text) + 1 /\ w + n <= e /\ e <= w + Cols
      /\ index' \in e .. Len(text) + 1 /\ index' > index
      /\ \A k \in index .. index' - 1 : text[k] = Letter => k \in w .. w + n - 1
      /\ \A k \in w .. w + n - 1 : text[k] # NewLine
      /\ w + n <= Len(text) /\ text[w + n] = Letter =>
            e = w + n /\ (n > 0 => n = Cols /\ \A k \in w .. w + n - 1 : text[k] = Letter)
  <2>1. index \in 1 .. Len(text) /\ text \in Seq(Cell) /\ Piece(text, index, w, e, n, index')
    BY <1>1, <1>2, <1>4
  <2> HIDE DEF text
  <2>2. QED
    BY <2>1, PieceDrawn
<1>15. PICK q : q = row
  OBVIOUS
<1>6. /\ q \in 0 .. TextRows - 1 /\ screen'[q] = Segment(current, w, n)
      /\ PastRow(q)' = w + n /\ (q \in Used' <=> n > 0)
      /\ \A r \in Used : /\ r \in Used' /\ screen'[r] = screen[r] /\ PastRow(r)' = PastRow(r)
                        /\ r < q
      /\ \A r \in Used' : r = q \/ r \in Used
  <2>1. q = row /\ n <= Cols /\ screen' = [screen EXCEPT ![row] = Segment(current, w, n)]
    BY <1>4, <1>15
  <2>2. QED
    BY <1>4, <2>1, WrapRows
<1> HIDE DEF text
<1>7. /\ \A k \in 1 .. Len(text) : text[k] = Text[k]
      /\ Len(text) \in Nat /\ Len(text) <= Len(Text) /\ Len(text) < CopySize
      /\ Len(text) = Len(Text) \/ Len(text) = CopySize - 1
      /\ index \in 1 .. Len(text)
  BY <1>1, <1>2 DEF text
<1>8. /\ screen'[q].text = current /\ screen'[q].first = w /\ screen'[q].length = n
  BY <1>6 DEF Segment
<1>9. Sizes
  BY SizesAre
<1>10. TextType'
  <2>1. TextType
    BY DEF TextInv
  <2>2. Segment(current, w, n) \in [text : 0 .. Len(texts), first : Nat \ {0}, length : 0 .. Cols]
    BY <1>2, <1>4, <1>5, <1>7, <1>9 DEF Segment, Sizes
  <2>3. screen' \in [0 .. TextRows - 1 -> [text : 0 .. Len(texts'), first : Nat \ {0}, length : 0 .. Cols]]
    BY <1>1, <1>4, <2>1, <2>2 DEF TextType
  <2>4. ASSUME NEW r \in Used'
        PROVE  screen'[r].text # 0 /\ PastRow(r)' <= Len(texts'[screen'[r].text]) + 1
    <3>1. CASE r = q
      <4>1. PastRow(q)' = w + n /\ texts'[screen'[q].text] = Text
        BY <1>1, <1>3, <1>6, <1>8
      <4>2. w + n <= Len(Text) + 1
        BY <1>5, <1>7
      <4>3. QED
        BY <1>2, <1>8, <3>1, <4>1, <4>2
    <3>2. CASE r \in Used
      BY <1>1, <1>6, <2>1, <3>2 DEF TextType
    <3>3. QED
      BY <1>6, <3>1, <3>2
  <2>5. row' \in 0 .. TextRows
    BY <1>1, <1>6, <1>9, <1>15 DEF Sizes
  <2>6. index' \in Nat \ {0} /\ index' <= Len(Text') + 1
    BY <1>3, <1>5, <1>7
  <2>7. QED
    BY <1>1, <2>1, <2>3, <2>4, <2>5, <2>6 DEF TextType
<1>11. ReadingOrder'
  <2>1. \A r \in Used : screen[r].text <= current /\ (screen[r].text = current => PastRow(r) <= index)
    BY DEF TextInv, Placed
  <2>2. ASSUME NEW r \in Used', NEW s \in Used', r < s
        PROVE  \/ screen'[r].text < screen'[s].text
               \/ screen'[r].text = screen'[s].text /\ PastRow(r)' <= screen'[s].first
    <3>1. CASE s \in Used
      <4>1. r \in Used
        BY <1>6, <2>2, <3>1 DEF Used
      <4>2. QED
        BY <1>6, <2>2, <3>1, <4>1 DEF TextInv, ReadingOrder
    <3>2. CASE s = q
      <4>1. r \in Used
        BY <1>6, <2>2, <3>2
      <4>2. screen[r] \in [text : 0 .. Len(texts), first : Nat \ {0}, length : 0 .. Cols]
        BY <4>1 DEF TextInv, TextType, Used
      <4>3. screen[r].text \in Nat /\ PastRow(r) \in Nat /\ current \in Nat
        <5>1. screen[r].text \in Nat /\ screen[r].first \in Nat /\ screen[r].length \in Nat
          BY <1>9, <4>2 DEF Sizes
        <5>2. current \in Nat
          BY <1>2
        <5>3. QED
          BY <5>1, <5>2 DEF PastRow
      <4>4. screen[r].text = current => PastRow(r) <= w
        BY <1>4, <1>5, <1>7, <2>1, <4>1, <4>3
      <4>5. screen[r].text < current \/ screen[r].text = current
        BY <2>1, <4>1, <4>3
      <4>6. QED
        BY <1>6, <1>8, <3>2, <4>1, <4>4, <4>5
    <3>3. QED
      BY <1>6, <3>1, <3>2
  <2>3. LettersDrawn(current, index - 1)'
    <3>1. PICK k : k = current
      OBVIOUS
    <3>2. ASSUME NEW i \in 1 .. index' - 1, texts[k][i] = Letter PROVE Drawn(k, i)'
      <4>1. CASE i < index
        <5>1. Drawn(k, i)
          BY <1>1, <1>7, <3>1, <3>2, <4>1 DEF TextInv, ReadingOrder, LettersDrawn
        <5>2. PICK r \in Used : screen[r].text = k /\ i \in screen[r].first .. PastRow(r) - 1
          BY <5>1 DEF Drawn
        <5>3. QED
          BY <1>6, <5>2 DEF Drawn
      <4>2. CASE ~ (i < index)
        <5>1. i \in index .. index' - 1 /\ i \in 1 .. Len(text)
          <6> DEFINE next == index'
                     last == Len(text)
          <6>1. next \in Nat /\ next <= last + 1 /\ index \in Nat \ {0} /\ last \in Nat
            BY <1>4, <1>5, <1>7
          <6>2. i \in 1 .. next - 1
            BY <3>2
          <6> HIDE DEF next, last
          <6>3. i \in index .. next - 1 /\ i \in 1 .. last
            BY <4>2, <6>1, <6>2
          <6>4. QED
            BY <6>3 DEF next, last
        <5>2. text[i] = Letter
          BY <1>3, <1>7, <3>1, <3>2, <5>1
        <5>3. i \in w .. w + n - 1
          BY <1>5, <5>1, <5>2
        <5>4. n > 0
          BY <1>4, <1>5, <1>7, <5>3
        <5>5. QED
          BY <1>6, <1>8, <3>1, <5>3, <5>4 DEF Drawn
      <4>3. QED
        BY <4>1, <4>2
    <3>3. LettersDrawn(k, index - 1)'
      BY <1>1, <3>2 DEF LettersDrawn
    <3>4. QED
      BY <1>1, <3>1, <3>3, Zenon DEF LettersDrawn
  <2>4. QED
    BY <2>2, <2>3 DEF ReadingOrder
<1>12. WordsWhole'
  <2>1. ASSUME NEW r \in Used', screen'[r].text > 1,
               PastRow(r)' < CopySize, PastRow(r)' <= Len(texts[screen'[r].text]),
               texts[screen'[r].text][PastRow(r)'] = Letter
        PROVE  /\ screen'[r].length = Cols
               /\ \A i \in screen'[r].first .. PastRow(r)' - 1 : texts[screen'[r].text][i] = Letter
    <3>1. CASE r \in Used
      BY <1>6, <2>1, <3>1 DEF TextInv, WordsWhole
    <3>2. CASE r = q
      <4>1. w + n < CopySize /\ w + n <= Len(Text) /\ Text[w + n] = Letter /\ n > 0
        BY <1>3, <1>6, <1>8, <2>1, <3>2
      <4>2. w + n <= Len(text) /\ text[w + n] = Letter
        BY <1>4, <1>5, <1>7, <1>9, <4>1 DEF Sizes
      <4>3. n = Cols /\ \A i \in w .. w + n - 1 : text[i] = Letter
        BY <1>5, <4>1, <4>2
      <4>4. \A i \in w .. w + n - 1 : Text[i] = Letter
        BY <1>4, <1>5, <1>7, <4>2, <4>3
      <4>5. QED
        BY <1>3, <1>6, <1>8, <3>2, <4>3, <4>4
    <3>3. QED
      BY <1>6, <3>1, <3>2
  <2>2. QED
    BY <1>1, <2>1 DEF WordsWhole
<1>13. RowsApart'
  <2>1. ASSUME NEW r \in Used'
        PROVE  \A i \in screen'[r].first .. PastRow(r)' - 1 : texts[screen'[r].text][i] # NewLine
    <3>1. CASE r \in Used
      BY <1>6, <2>1, <3>1 DEF TextInv, RowsApart
    <3>2. CASE r = q
      <4>1. \A i \in w .. w + n - 1 : i \in 1 .. Len(text)
        BY <1>4, <1>5, <1>7
      <4>2. \A i \in w .. w + n - 1 : Text[i] # NewLine
        BY <1>5, <1>7, <4>1
      <4>3. QED
        BY <1>3, <1>6, <1>8, <3>2, <4>2
    <3>3. QED
      BY <1>6, <3>1, <3>2
  <2>2. ASSUME NEW r \in Used', NEW c \in 0 .. screen'[r].length - 1
        PROVE  CharBytes(r, c) # {} /\ CharBytes(r, c) \subseteq r * Width .. (r + 1) * Width - 1
    <3>1. r \in 0 .. TextRows - 1
      BY DEF Used
    <3>2. screen'[r].length \in 0 .. Cols
      BY <1>10, <3>1 DEF TextType
    <3>3. c \in 0 .. Cols - 1
      BY <1>9, <2>2, <3>2 DEF Sizes
    <3>4. QED
      BY <3>1, <3>3, CellOfRow
  <2>3. QED
    BY <1>1, <2>1, <2>2 DEF RowsApart
<1>14. Placed'
  <2>1. \A r \in Used : screen[r].text <= current /\ (screen[r].text = current => PastRow(r) <= index)
    BY DEF TextInv, Placed
  <2>2. ASSUME NEW r \in Used' PROVE r < row'
    <3>1. r \in 0 .. TextRows - 1 /\ (r = q \/ r < q)
      BY <1>6 DEF Used
    <3>2. QED
      BY <1>1, <1>6, <1>15, <3>1
  <2>3. ASSUME NEW r \in Used'
        PROVE  screen'[r].text <= current' /\ (screen'[r].text = current' => PastRow(r)' <= index')
    <3>1. CASE r = q
      BY <1>1, <1>2, <1>4, <1>5, <1>6, <1>8, <3>1
    <3>2. CASE r \in Used
      <4>1. screen[r] \in [text : 0 .. Len(texts), first : Nat \ {0}, length : 0 .. Cols]
        BY <3>2 DEF TextInv, TextType, Used
      <4>2. PastRow(r) \in Nat
        BY <1>9, <4>1 DEF PastRow, Sizes
      <4>3. QED
        BY <1>1, <1>4, <1>5, <1>6, <1>7, <2>1, <3>2, <4>2
    <3>3. QED
      BY <1>6, <3>1, <3>2
  <2>4. ASSUME stationScreen, NEW r \in Used' PROVE screen'[r].text <= header <=> r < StatusStartRow
    <3>1. CASE r \in Used
      BY <1>6, <2>4, <3>1 DEF TextInv, Placed
    <3>2. CASE r = q
      <4>1. header \in Nat /\ current \in Nat /\ row \in Nat /\ current >= 2
        BY <1>1, <1>2 DEF TextInv, TextType, OnScreen
      <4>2. CASE current <= header
        <5>1. header = 3 /\ (index = 1 => row <= current) /\ (index > 1 => index > Len(Text))
          BY <1>7, <2>4, <4>1, <4>2 DEF TextInv, OnScreen, Budget
        <5>2. index = 1
          BY <1>2, <1>7, <5>1
        <5>3. QED
          BY <1>8, <1>9, <1>15, <3>2, <4>1, <4>2, <5>1, <5>2 DEF Sizes
      <4>3. CASE ~ (current <= header)
        <5>1. row >= StatusStartRow
          BY <1>1, <4>1, <4>3 DEF TextInv, StatusSoFar
        <5>2. QED
          BY <1>8, <1>9, <1>15, <3>2, <4>1, <4>3, <5>1 DEF Sizes
      <4>4. QED
        BY <4>2, <4>3
    <3>3. QED
      BY <1>6, <3>1, <3>2
  <2>5. QED
    BY <1>1, <2>2, <2>3, <2>4 DEF Placed
<1>16. OnScreen'
  BY <1>1, <1>3 DEF TextInv, OnScreen
<1>17. Budget'
  <2>1. SUFFICES ASSUME current \in 2 .. header PROVE Budget'
    BY <1>1 DEF Budget
  <2>2. IsLine(Text) /\ Len(Text) < CopySize
    <3>1. IsLine(Text)
      BY <1>3, <2>1 DEF TextInv, OnScreen
    <3>2. QED
      BY <1>2, <1>9, <3>1 DEF IsLine, Sizes
  <2>3. text = Text
    BY <1>2, <2>2 DEF text
  <2>4. Piece(text, index, w, e, n, index')
    BY <1>4 DEF text
  <2>5. /\ index' > 1 /\ index' <= Len(Text) + 1
        /\ index' <= Len(Text) => index' + Cols > Len(Text)
        /\ index + Cols > Len(Text) => index' > Len(Text)
    BY <1>4, <1>7, <2>2, <2>3, <2>4, LineRows
  <2>6. /\ row <= 2 * current /\ (index = 1 => row <= 2 * current - 2)
        /\ index \in 2 .. Len(Text) => row <= 2 * current - 1 /\ index + Cols > Len(Text)
        /\ stationScreen => /\ row <= current + 1 /\ (index = 1 => row <= current)
                            /\ index > 1 => index > Len(Text)
    BY <2>1 DEF TextInv, Budget
  <2>7. stationScreen => Len(Text) <= Cols
    BY <1>3, <2>1 DEF TextInv, OnScreen
  <2>8. /\ Len(Text) \in Nat /\ index \in 1 .. Len(Text) /\ row \in Nat /\ current \in Nat /\ index' \in Nat
        /\ Cols \in Nat
    BY <1>2, <1>4, <1>5, <1>6, <1>7, <1>9, <1>15, <2>3 DEF Sizes
  <2> DEFINE last == Len(Text)
  <2>9. /\ row + 1 <= 2 * current /\ (index' = 1 => row + 1 <= 2 * current - 2)
        /\ index' \in 2 .. last => row + 1 <= 2 * current - 1 /\ index' + Cols > last
        /\ stationScreen => /\ row + 1 <= current + 1 /\ (index' = 1 => row + 1 <= current)
                            /\ index' > 1 => index' > last
    <3> HIDE DEF last
    <3>1. /\ last \in Nat /\ index \in 1 .. last /\ row \in Nat /\ current \in Nat /\ index' \in Nat
          /\ Cols \in Nat
      BY <2>8 DEF last
    <3>2. /\ row <= 2 * current /\ (index = 1 => row <= 2 * current - 2)
          /\ index \in 2 .. last => row <= 2 * current - 1 /\ index + Cols > last
      BY <2>6 DEF last
    <3>3. stationScreen => /\ row <= current + 1 /\ (index = 1 => row <= current)
                           /\ index > 1 => index > last
                           /\ last <= Cols
      BY <2>6, <2>7 DEF last
    <3>4. /\ index' > 1 /\ index' <= last + 1
          /\ index' <= last => index' + Cols > last
          /\ index + Cols > last => index' > last
      BY <2>5 DEF last
    <3> DEFINE next == index'
    <3>5. next \in Nat /\ next > 1 /\ (next <= last => next + Cols > last) /\ (index + Cols > last => next > last)
      BY <3>1, <3>4
    <3> HIDE DEF next
    <3>6. row + 1 <= 2 * current /\ (next \in 2 .. last => row + 1 <= 2 * current - 1 /\ next + Cols > last)
      BY <3>1, <3>2, <3>5, RowsLeft
    <3>7. stationScreen => row <= current /\ index' > last
      BY <3>1, <3>3, <3>4
    <3>8. index' # 1
      BY <3>1, <3>4
    <3>9. stationScreen => row + 1 <= current + 1 /\ index' > last
      BY <3>1, <3>7
    <3>10. QED
      BY <3>6, <3>8, <3>9 DEF next
  <2>10. QED
    BY <1>1, <1>3, <2>9 DEF Budget
<1>18. LinesSoFar'
  <2>1. ASSUME NEW k \in 2 .. header, k < current PROVE LettersDrawn(k, Len(texts[k]))'
    <3>1. LettersDrawn(k, Len(texts[k]))
      BY <2>1 DEF TextInv, LinesSoFar
    <3>2. \A r \in Used : screen[r].text = k => r \in Used' /\ screen'[r] = screen[r]
      BY <1>6
    <3>3. QED
      BY <1>1, <3>1, <3>2, LineStays
  <2>2. QED
    BY <1>1, <2>1, Zenon DEF LinesSoFar
<1>19. StateShown'
  BY <1>3 DEF StateShown, StatusDrawn
<1>20. StatusSoFar'
  <2>1. SUFFICES ASSUME header < current PROVE StatusSoFar'
    BY <1>1 DEF StatusSoFar
  <2>2. row >= StatusStartRow
    BY <1>1, <2>1 DEF TextInv, StatusSoFar
  <2>3. PICK p \in 1 .. Cols : \E a \in p + 2 .. p + Cols + 2 : \E b \in a + 1 .. a + Cols + 1 :
           /\ b <= Len(Text) + 1 /\ b <= CopySize
           /\ StatusForm(Text, p, a, b) /\ StatusAt(p, a, b)
    BY <1>1, <2>1 DEF TextInv, StatusSoFar
  <2>4. PICK a \in p + 2 .. p + Cols + 2 : \E b \in a + 1 .. a + Cols + 1 :
           /\ b <= Len(Text) + 1 /\ b <= CopySize
           /\ StatusForm(Text, p, a, b) /\ StatusAt(p, a, b)
    BY <2>3
  <2>5. PICK b \in a + 1 .. a + Cols + 1 :
           /\ b <= Len(Text) + 1 /\ b <= CopySize
           /\ StatusForm(Text, p, a, b) /\ StatusAt(p, a, b)
    BY <2>4
  <2>6. /\ p \in Nat /\ a \in Nat /\ b \in Nat /\ a + 1 <= b /\ p + 2 <= a /\ 1 <= p
        /\ row \in Nat /\ StatusStartRow \in Nat
    BY <1>6, <1>9, <1>15, <2>3, <2>4, <2>5 DEF Sizes
  <2>7. b <= Len(text) + 1
    <3>1. (Len(text) = Len(Text) \/ Len(text) = CopySize - 1) /\ Len(text) \in Nat /\ Len(Text) \in Nat
      BY <1>2, <1>7
    <3>2. b <= Len(Text) + 1 /\ b <= CopySize /\ CopySize \in Nat
      BY <1>9, <2>5 DEF Sizes
    <3>3. QED
      BY <2>6, <3>1, <3>2
  <2>8. StatusForm(text, p, a, b)
    <3>1. \A k \in 1 .. b - 1 : text[k] = Text[k]
      BY <1>7, <2>6, <2>7
    <3>2. \A k \in {1, p, a - 1} \cup (p + 1 .. a - 2) : k \in 1 .. b - 1
      BY <2>6
    <3>3. a + 1 < b => text[a + 1] = Text[a + 1]
      BY <2>6, <3>1
    <3>4. b = Len(text) + 1 \/ text[b] = Text[b]
      BY <1>7, <2>6, <2>7
    <3>5. b = Len(Text) + 1 => b = Len(text) + 1
      BY <1>7, <2>6, <2>7
    <3>6. StatusForm(Text, p, a, b)
      BY <2>5
    <3>7. QED
      BY <3>1, <3>2, <3>3, <3>4, <3>5, <3>6 DEF StatusForm
  <2>9. Piece(text, index, w, e, n, index')
    BY <1>4 DEF text
  <2>10. /\ Piece(text, 1, w, e, n, index') => index' \in {p + 1, a + 1}
         /\ Piece(text, p + 1, w, e, n, index') => index' \in {a - 1, a + 1}
         /\ \A i \in {a - 1, a + 1} : Piece(text, i, w, e, n, index') => index' >= b
    <3>1. text \in Seq(Cell)
      BY <1>2 DEF text
    <3>2. p \in 1 .. Cols /\ a \in p + 2 .. p + Cols + 2 /\ b \in a + 1 .. a + Cols + 1
      BY <2>3, <2>4, <2>5
    <3>3. w \in Nat /\ e \in Nat /\ n \in Nat
      BY <1>4
    <3> PICK next : next = index'
      OBVIOUS
    <3>4. StatusEnds(text, w, e, n, next, p, a, b)
      BY <2>7, <2>8, <3>1, <3>2, <3>3, StatusRows
    <3>5. QED
      BY <3>4 DEF StatusEnds
  <2>11. index' \in Nat /\ index' > index
    BY <1>4, <1>5, <1>7
  <2>12. \/ index' = p + 1 /\ row + 1 = StatusStartRow + 1
         \/ index' \in {a - 1, a + 1} /\ row + 1 <= StatusStartRow + 2
         \/ index' >= b
    <3>1. CASE index = 1 /\ row = StatusStartRow
      BY <2>6, <2>9, <2>10, <3>1
    <3>2. CASE index = p + 1 /\ row = StatusStartRow + 1
      BY <2>6, <2>9, <2>10, <3>2
    <3>3. CASE index \in {a - 1, a + 1}
      BY <2>9, <2>10, <3>3
    <3>4. CASE index >= b
      BY <1>7, <2>6, <2>11, <3>4
    <3>5. QED
      BY <2>5, <3>1, <3>2, <3>3, <3>4 DEF StatusAt
  <2>13. StatusAt(p, a, b)'
    BY <1>1, <2>12 DEF StatusAt
  <2>14. row' >= StatusStartRow
    BY <1>1, <2>2, <2>6
  <2>15. StatusForm(Text, p, a, b)' /\ b <= Len(Text') + 1
    BY <1>3, <2>5 DEF StatusForm
  <2>16. QED
    BY <2>3, <2>4, <2>5, <2>13, <2>14, <2>15 DEF StatusSoFar
<1>21. QED
  BY <1>10, <1>11, <1>12, <1>13, <1>14, <1>16, <1>17, <1>18, <1>19, <1>20 DEF TextInv

\* The end of a text.
LEMMA NextTextInv ==
    ASSUME TextInv, NextText
    PROVE  TextInv'
<1>1. /\ ~ AllDrawn /\ (index > Len(Normalized) \/ row >= TextRows)
      /\ current' = current + 1 /\ index' = 1 /\ row' = row /\ screen' = screen
      /\ texts' = texts /\ header' = header /\ stationScreen' = stationScreen
  BY DEF NextText, lineVars
<1>2. /\ current \in 1 .. Len(texts) /\ Text \in Seq(Cell) /\ Normalized \in Seq(Cell)
      /\ Len(Normalized) <= Len(Text) /\ Len(Normalized) < CopySize
      /\ Len(Text) < CopySize => Normalized = Text
      /\ Len(Normalized) = Len(Text) \/ Len(Normalized) = CopySize - 1
  BY <1>1, NormalizedIs DEF TextInv
<1>3. Text = texts[current]
  BY DEF Text
<1>4. Sizes
  BY SizesAre
<1>5. /\ header \in Nat /\ row \in Nat /\ index \in Nat \ {0} /\ current >= 2 /\ current \in Nat
      /\ TextRows \in Nat
  BY <1>1, <1>2, <1>4 DEF TextInv, TextType, OnScreen, Sizes
<1>6. Used' = Used /\ \A r \in Used : PastRow(r)' = PastRow(r)
  BY <1>1 DEF Used, PastRow
<1>7. LettersDrawn(current, index - 1)
  BY <1>1 DEF TextInv, ReadingOrder
<1>8. TextType'
  <2>1. TextType
    BY DEF TextInv
  <2>2. ~ AllDrawn' => index' <= Len(Text') + 1
    <3>1. ASSUME ~ AllDrawn' PROVE Len(Text') \in Nat
      <4>1. current + 1 \in 1 .. Len(texts) /\ Text' = texts[current + 1]
        BY <1>1, <1>2, <1>5, <3>1 DEF AllDrawn, Text
      <4>2. QED
        BY <2>1, <4>1 DEF TextType
    <3>2. QED
      BY <1>1, <3>1
  <2>3. current' \in 1 .. Len(texts) + 1 /\ index' \in Nat \ {0}
    BY <1>1, <1>2
  <2>4. QED
    BY <1>1, <1>6, <2>1, <2>2, <2>3 DEF TextType
<1>9. ReadingOrder'
  <2>1. LettersDrawn(current, index - 1)'
    BY <1>1 DEF LettersDrawn
  <2>2. QED
    BY <1>1, <1>6, <2>1 DEF TextInv, ReadingOrder
<1>10. WordsWhole' /\ RowsApart'
  BY <1>1, <1>6 DEF TextInv, WordsWhole, RowsApart
<1>11. Placed'
  <2>1. ASSUME NEW r \in Used PROVE screen[r].text \in Nat /\ screen[r].text <= current
    <3>1. screen[r] \in [text : 0 .. Len(texts), first : Nat \ {0}, length : 0 .. Cols]
      BY DEF TextInv, TextType, Used
    <3>2. Len(texts) \in Nat
      BY DEF TextInv, TextType
    <3>3. QED
      BY <3>1, <3>2 DEF TextInv, Placed
  <2>2. \A r \in Used : screen[r].text <= current + 1 /\ screen[r].text # current + 1
    BY <1>5, <2>1
  <2>3. QED
    BY <1>1, <1>6, <2>2 DEF TextInv, Placed
\* A line ends before the screen does.
<1>12. ASSUME current <= header
       PROVE  /\ index = Len(Text) + 1 /\ row <= 2 * current /\ (stationScreen => row <= current + 1)
  <2>1. header <= 4 /\ IsLine(Text)
    BY <1>2, <1>3, <1>5, <1>12 DEF TextInv, OnScreen
  <2>2. Len(Text) < CopySize /\ Normalized = Text
    BY <1>2, <1>4, <2>1 DEF IsLine, Sizes
  <2>3. /\ row <= 2 * current /\ (index = 1 => row <= 2 * current - 2)
        /\ index \in 2 .. Len(Text) => row <= 2 * current - 1
        /\ stationScreen => row <= current + 1
    BY <1>5, <1>12 DEF TextInv, Budget
  <2>4. index <= Len(Text) + 1 /\ Len(Text) \in Nat
    BY <1>1, <1>2 DEF TextInv, TextType
  <2>5. index > Len(Text)
    <3> DEFINE last == Len(Text)
    <3>1. last \in Nat /\ index <= last + 1 /\ (index > last \/ row >= TextRows)
          /\ (index \in 2 .. last => row <= 2 * current - 1)
      BY <1>1, <2>2, <2>3, <2>4
    <3>2. TextRows >= 8
      BY <1>4 DEF Sizes
    <3> HIDE DEF last
    <3>3. QED
      BY <1>5, <1>12, <2>1, <2>3, <3>1, <3>2 DEF last
  <2>6. QED
    BY <1>5, <2>3, <2>4, <2>5
<1>13. OnScreen'
  <2>1. current' >= 2 /\ (Len(texts) > header => current' > header)
    BY <1>1, <1>5 DEF TextInv, OnScreen
  <2>2. QED
    BY <1>1, <2>1 DEF TextInv, OnScreen
<1>14. Budget'
  <2>1. SUFFICES ASSUME current + 1 \in 2 .. header PROVE Budget'
    BY <1>1 DEF Budget
  <2>2. row <= 2 * current /\ (stationScreen => row <= current + 1)
    BY <1>5, <1>12, <2>1
  <2>3. row <= 2 * (current + 1) /\ row <= 2 * (current + 1) - 2 /\ (stationScreen => row <= current + 1 + 1)
    BY <1>5, <2>2
  <2>4. QED
    BY <1>1, <2>2, <2>3 DEF Budget
<1>15. LinesSoFar'
  <2>1. ASSUME NEW k \in 2 .. header, k < current + 1 PROVE LettersDrawn(k, Len(texts[k]))
    <3>1. CASE k < current
      BY <2>1, <3>1 DEF TextInv, LinesSoFar
    <3>2. CASE k = current
      <4>1. index - 1 = Len(texts[k])
        BY <1>2, <1>3, <1>5, <1>12, <2>1, <3>2
      <4>2. QED
        BY <1>7, <3>2, <4>1
    <3>3. QED
      BY <1>5, <2>1, <3>1, <3>2
  <2>2. QED
    BY <1>1, <1>6, <2>1 DEF LinesSoFar, LettersDrawn, Drawn
<1>16. StatusSoFar'
  <2>1. CASE AllDrawn'
    BY <2>1 DEF StatusSoFar
  <2>2. CASE ~ AllDrawn'
    <3>1. current + 1 <= Len(texts) /\ Len(texts) \in Nat
      BY <1>1, <1>2, <1>5, <2>2 DEF AllDrawn
    <3>2. Len(texts) = header \/ (Len(texts) = header + 1 /\ current > header)
      BY <1>5 DEF TextInv, OnScreen
    <3>3. ~ (header < current + 1)
      BY <1>5, <3>1, <3>2
    <3>4. QED
      BY <1>1, <3>3 DEF StatusSoFar
  <2>3. QED
    BY <2>1, <2>2
<1>17. StateShown'
  <2>1. SUFFICES ASSUME Len(texts) > header, AllDrawn' PROVE StateShown'
    BY <1>1 DEF StateShown, StatusDrawn
  <2>2. current = Len(texts) /\ header < current
    BY <1>1, <1>2, <1>5, <2>1 DEF AllDrawn
  <2>3. PICK p \in 1 .. Cols : \E a \in p + 2 .. p + Cols + 2 : \E b \in a + 1 .. a + Cols + 1 :
           /\ b <= Len(Text) + 1 /\ b <= CopySize
           /\ StatusForm(Text, p, a, b) /\ StatusAt(p, a, b)
    BY <1>1, <2>2 DEF TextInv, StatusSoFar
  <2>4. PICK a \in p + 2 .. p + Cols + 2 : \E b \in a + 1 .. a + Cols + 1 :
           /\ b <= Len(Text) + 1 /\ b <= CopySize
           /\ StatusForm(Text, p, a, b) /\ StatusAt(p, a, b)
    BY <2>3
  <2>5. PICK b \in a + 1 .. a + Cols + 1 :
           /\ b <= Len(Text) + 1 /\ b <= CopySize
           /\ StatusForm(Text, p, a, b) /\ StatusAt(p, a, b)
    BY <2>4
  <2>6. /\ p \in Nat /\ a \in Nat /\ b \in Nat /\ a + 1 <= b /\ p + 2 <= a /\ 1 <= p
        /\ StatusStartRow \in Nat /\ StatusStartRow + 3 <= TextRows /\ TextRows \in Nat
        /\ Len(Text) \in Nat /\ Cols \in Nat
    BY <1>2, <1>4, <2>3, <2>4, <2>5 DEF Sizes
  <2>7. index >= b
    <3>1. Len(Normalized) \in Nat /\ Len(Normalized) >= b - 1
      BY <1>2, <1>4, <2>5, <2>6 DEF Sizes
    <3>2. CASE index > Len(Normalized)
      BY <1>5, <2>6, <3>1, <3>2
    <3>3. CASE row >= TextRows
      BY <1>5, <2>5, <2>6, <3>3 DEF StatusAt
    <3>4. QED
      BY <1>1, <3>2, <3>3
  <2>8. /\ \A k \in 1 .. b - 1 : Text[k] = NewLine <=> k = a
        /\ b = Len(Text) + 1 \/ Text[b] = NewLine
    BY <2>5 DEF StatusForm
  <2>9. ASSUME NEW i \in 1 .. Len(Text)
        PROVE  \/ Text[i] # Letter \/ Drawn(current, i)
               \/ \E c, d \in 1 .. i - 1 : c < d /\ Text[c] = NewLine /\ Text[d] = NewLine
    <3>1. CASE i < b
      <4>1. i \in 1 .. index - 1
        BY <1>5, <2>6, <2>7, <3>1
      <4>2. texts[current][i] = Letter => Drawn(current, i)
        BY <1>7, <4>1 DEF LettersDrawn
      <4>3. QED
        BY <1>3, <4>2
    <3>2. CASE i = b
      BY <2>6, <2>8, <3>2, CellsAssumption
    <3>3. CASE i > b
      <4>1. Text[a] = NewLine /\ Text[b] = NewLine /\ a < b /\ a \in 1 .. i - 1 /\ b \in 1 .. i - 1
        BY <2>6, <2>8, <3>3
      <4>2. QED
        BY <4>1
    <3>4. QED
      BY <2>6, <3>1, <3>2, <3>3
  <2>10. QED
    BY <1>1, <1>3, <1>6, <2>2, <2>9 DEF StateShown, Status, Drawn
<1>18. QED
  BY <1>8, <1>9, <1>10, <1>11, <1>13, <1>14, <1>15, <1>16, <1>17 DEF TextInv

\* A step of a screen, of the status or of the layout keeps it.
LEMMA TextStep ==
    ASSUME TextInv, [TextNext]_textVars
    PROVE  TextInv'
<1>1. CASE OtherScreen
  <2>1. Fresh /\ stationScreen' = FALSE
    BY <1>1, OtherScreenIs
  <2>2. stationScreen' \in BOOLEAN
    BY <2>1
  <2>3. QED
    BY <2>1, <2>2, FreshInv
<1>2. CASE StationScreen
  <2>1. Fresh /\ stationScreen' = TRUE /\ header' = 3 /\ \A k \in 2 .. header' : Len(texts'[k]) <= Cols
    BY <1>2, StationScreenIs
  <2>2. stationScreen' \in BOOLEAN
    BY <2>1
  <2>3. QED
    BY <2>1, <2>2, FreshInv
<1>3. ASSUME NEW plain \in Statuses, ShowStaStatus(plain) PROVE TextInv'
  BY <1>3, StatusInv
<1>4. CASE WrapRow
  BY <1>4, WrapInv
<1>5. CASE NextText
  BY <1>5, NextTextInv
<1>6. CASE UNCHANGED textVars
  <2>1. /\ texts' = texts /\ header' = header /\ stationScreen' = stationScreen
        /\ current' = current /\ index' = index /\ row' = row /\ screen' = screen
    BY <1>6 DEF textVars, lineVars
  <2>2. Used' = Used /\ (\A r : PastRow(r)' = PastRow(r)) /\ AllDrawn' = AllDrawn /\ Text' = Text
    BY <2>1 DEF Used, PastRow, AllDrawn, Text
  <2>3. TextType' /\ Placed' /\ OnScreen'
    BY <2>1, <2>2 DEF TextInv, TextType, Placed, OnScreen
  <2>4. ReadingOrder' /\ LinesSoFar'
    BY <2>1, <2>2 DEF TextInv, ReadingOrder, LinesSoFar, LettersDrawn, Drawn
  <2>5. WordsWhole' /\ RowsApart'
    BY <2>1, <2>2 DEF TextInv, WordsWhole, RowsApart
  <2>6. Budget' /\ StatusSoFar'
    BY <2>1, <2>2 DEF TextInv, Budget, StatusSoFar, StatusForm, StatusAt
  <2>7. StateShown'
    BY <2>1, <2>2 DEF TextInv, StateShown, StatusDrawn, Status, Drawn
  <2>8. QED
    BY <2>3, <2>4, <2>5, <2>6, <2>7 DEF TextInv
<1>7. QED
  BY <1>1, <1>2, <1>3, <1>4, <1>5, <1>6 DEF TextNext

\* The texts, the rows they are on and the rows that are left fit together in every
\* state.
THEOREM AlwaysTextInv == TextSpec => []TextInv
<1>1. TextInit => TextInv
  BY InitInv
<1>2. TextInv /\ [TextNext]_textVars => TextInv'
  BY TextStep
<1>3. QED
  BY <1>1, <1>2, PTL DEF TextSpec

\* Whatever the texts and the geometry of the display, what is passed is drawn once
\* and in the order of the text, words are split only if they are longer than a
\* row, and no row runs into the next one.
THEOREM AlwaysLegible == TextSpec => []Legible
<1>1. TextInv => Legible
  BY DEF TextInv, Legible
<1>2. QED
  BY <1>1, AlwaysTextInv, PTL

\* Whatever the names, every line of every screen finds its place and keeps it under
\* the live status, and the status shows the state of the actuator and whether its
\* positions are learned, whatever the event.
THEOREM AlwaysScreenComplete == TextSpec => []ScreenComplete
<1>1. TextInv => LinesComplete
  <2>1. ASSUME TextInv, AllDrawn, NEW k \in 2 .. header PROVE LettersDrawn(k, Len(texts[k]))
    <3>1. k < current
      BY <2>1 DEF TextInv, TextType, AllDrawn
    <3>2. QED
      BY <2>1, <3>1 DEF TextInv, LinesSoFar
  <2>2. QED
    BY <2>1 DEF LinesComplete
<1>2. TextInv => ScreenComplete
  BY <1>1 DEF TextInv, ScreenComplete
<1>3. QED
  BY <1>2, AlwaysTextInv, PTL
=============================================================================
