------------------------- MODULE LinActuatorProofs -------------------------
(***************************************************************************)
(* Proofs about LinActuator, for the simulation and the real bus and for   *)
(* every set of response bytes.                                            *)
(***************************************************************************)
EXTENDS LinActuator, TLAPS

\* The command byte is one of the four that lin_prepare_command can build.
LEMMA CommandByteType ==
    ASSUME TypeOK
    PROVE  CommandOf(state) \in {0, 1, 240, 241}
  BY DEF TypeOK, CommandOf, CommandByte, FlapOpen, FlapClose

\* Every value of lin_ctx stays in its type: no handler leaves a state or a
\* command byte that another handler does not expect.
THEOREM TypeCorrect == Spec => []TypeOK
<1>1. Init => TypeOK
  <2>1. Init => simulated \in 0..SimulatedCap
    BY DEF Init, SimulatedCap
  <2>2. QED
    BY <2>1 DEF Init, TypeOK, States, FlapClose, FlapOpen, CallPeriod
<1>2. TypeOK /\ [Next]_vars => TypeOK'
  <2> SUFFICES ASSUME TypeOK, [Next]_vars
               PROVE  TypeOK'
    OBVIOUS
  <2> USE DEF TypeOK, motionVars
  <2>1. CASE InitSucceeds
    BY <2>1 DEF InitSucceeds, States
  <2>2. CASE InitFails
    BY <2>2 DEF InitFails, States
  <2>3. CASE Halted
    BY <2>3 DEF Halted, vars
  <2>4. ASSUME NEW r \in Requests, Request(r)
        PROVE  TypeOK'
    BY <2>4 DEF Request
  <2>5. CASE NothingPending
    BY <2>5 DEF NothingPending
  <2>6. CASE ServeCalibrate
    <3>1. simulated' \in 0..SimulatedCap
      BY <2>6 DEF ServeCalibrate, SimulatedCap
    <3>2. QED
      BY <2>6, <3>1 DEF ServeCalibrate, Serve, States, Calibrating, Requests
  <2>7. CASE ServeOpen
    <3>1. state' \in States /\ last_flap_command' \in {FlapClose, FlapOpen}
      BY <2>7 DEF ServeOpen, ServeMotion, States, Moving
    <3>2. motion_command_active' \in BOOLEAN
      BY <2>7 DEF ServeOpen, ServeMotion
    <3>3. serving' \in Requests \cup {"NONE"} /\ pc' = "clear"
      BY <2>7 DEF ServeOpen, ServeMotion, Serve, Requests
    <3>4. QED
      BY <2>7, <3>1, <3>2, <3>3 DEF ServeOpen, ServeMotion
  <2>8. CASE ServeClose
    <3>1. state' \in States /\ last_flap_command' \in {FlapClose, FlapOpen}
      BY <2>8 DEF ServeClose, ServeMotion, States, Moving
    <3>2. motion_command_active' \in BOOLEAN
      BY <2>8 DEF ServeClose, ServeMotion
    <3>3. serving' \in Requests \cup {"NONE"} /\ pc' = "clear"
      BY <2>8 DEF ServeClose, ServeMotion, Serve, Requests
    <3>4. QED
      BY <2>8, <3>1, <3>2, <3>3 DEF ServeClose, ServeMotion
  <2>9. CASE ClearPending
    BY <2>9 DEF ClearPending
  <2>10. CASE SkipExchange
    BY <2>10 DEF SkipExchange, CallPeriod, ExchangePeriod
  <2>11. CASE StartExchange
    BY <2>11, CommandByteType DEF StartExchange, States
  <2>12. CASE ReadStatus
    <3>1. simulated' \in 0..SimulatedCap
      BY <2>12 DEF ReadStatus, NextSimulated, SimulatedCap
    <3>2. state' \in States /\ all_positions_learned' \in BOOLEAN
      BY <2>12 DEF ReadStatus, ApplyStatus, States, Calibrating
    <3>3. QED
      BY <2>12, <3>1, <3>2 DEF ReadStatus
  <2>13. CASE UNCHANGED vars
    BY <2>13 DEF vars
  <2>14. QED
    BY <2>1, <2>2, <2>3, <2>4, <2>5, <2>6, <2>7, <2>8, <2>9, <2>10, <2>11, <2>12, <2>13
       DEF Next, Task
<1>3. QED
  BY <1>1, <1>2, PTL DEF Spec

-----------------------------------------------------------------------------
(* The inductive invariant: the motion flags agree with the state, a       *)
(* calibration has nothing learned, and the task waits for a status only   *)
(* in the states that read one.  Only the conjunction is inductive:        *)
(* MotionConsistent needs LearnedMatchesState to know that a motion        *)
(* request never takes the state out of CALIBRATING_*, and FrameMatches-   *)
(* State needs MotionConsistent to exclude the "cancelled" branches.       *)

Inv ==
    /\ MotionConsistent
    /\ LearnedMatchesState
    /\ FrameMatchesState
    /\ pc = "boot" => state = "UNINITIALIZED"
    /\ pc = "halted" => state = "ERROR"
    /\ initialized => pc # "boot" /\ pc # "halted"

\* The states a motion request is accepted in, from the invariant.
LEMMA AcceptedOnlyWhenReady ==
    ASSUME TypeOK, Inv, all_positions_learned
    PROVE  state \in {"READY", "OPENING", "CLOSING"}
  BY DEF TypeOK, Inv, LearnedMatchesState, States, Calibrating, Moving

\* Init and every step of Next establish and preserve Inv.
THEOREM SafetyInvariant == Spec => []Inv
<1>1. Init => Inv
  BY DEF Init, Inv, MotionConsistent, LearnedMatchesState, FrameMatchesState, Moving, Calibrating
<1>2. TypeOK /\ Inv /\ [Next]_vars => Inv'
  <2> SUFFICES ASSUME TypeOK, Inv, [Next]_vars
               PROVE  Inv'
    OBVIOUS
  <2> USE DEF Inv, MotionConsistent, LearnedMatchesState, FrameMatchesState, Calibrating, Moving
  <2>1. CASE InitSucceeds
    BY <2>1 DEF InitSucceeds, TypeOK
  <2>2. CASE InitFails
    BY <2>2 DEF InitFails, TypeOK
  <2>3. CASE Halted
    BY <2>3 DEF Halted, vars, CommandOf
  <2>4. ASSUME NEW r \in Requests, Request(r)
        PROVE  Inv'
    BY <2>4 DEF Request, motionVars, CommandOf
  <2>5. CASE NothingPending
    BY <2>5 DEF NothingPending, motionVars
  <2>6. CASE ServeCalibrate
    BY <2>6 DEF ServeCalibrate, Serve
  <2>7. CASE ServeOpen
    BY <2>7 DEF ServeOpen, ServeMotion, Serve, FlapOpen, FlapClose
  <2>8. CASE ServeClose
    BY <2>8 DEF ServeClose, ServeMotion, Serve, FlapOpen, FlapClose
  <2>9. CASE ClearPending
    BY <2>9 DEF ClearPending, motionVars
  <2>10. CASE SkipExchange
    BY <2>10 DEF SkipExchange, motionVars
  <2>11. CASE StartExchange
    BY <2>11 DEF StartExchange, CommandOf
  <2>12. CASE ReadStatus
    BY <2>12 DEF ReadStatus, ApplyStatus
  <2>13. CASE UNCHANGED vars
    BY <2>13 DEF vars, CommandOf
  <2>14. QED
    BY <2>1, <2>2, <2>3, <2>4, <2>5, <2>6, <2>7, <2>8, <2>9, <2>10, <2>11, <2>12, <2>13
       DEF Next, Task
<1>3. QED
  BY <1>1, <1>2, TypeCorrect, PTL DEF Spec

\* The flap is driven exactly in the motion states, toward the end they name.
THEOREM MotionAlwaysConsistent == Spec => []MotionConsistent
  BY SafetyInvariant, PTL DEF Inv

\* Nothing is learned during a calibration and everything in READY.
THEOREM LearnedAlwaysMatches == Spec => []LearnedMatchesState
  BY SafetyInvariant, PTL DEF Inv

\* The status that is awaited answers the command of the present state.
THEOREM FrameAlwaysMatches == Spec => []FrameMatchesState
  BY SafetyInvariant, PTL DEF Inv

-----------------------------------------------------------------------------
\* The task implements LinControl: no interleaving of requests and responses
\* moves the flap before, or in the middle of, a calibration.
THEOREM Implementation == Spec => ImplementsControl
<1> USE DEF Mode, Control!Next, Control!StartCalibration, Control!LearnClosed,
            Control!LearnOpen, Control!Drive, Control!Ready
<1>1. Init => Control!Init
  BY DEF Init, Control!Init
<1>2. TypeOK /\ Inv /\ [Next]_vars => [Control!Next]_Mode
  <2> SUFFICES ASSUME TypeOK, Inv, [Next]_vars
               PROVE  Control!Next \/ Mode' = Mode
    OBVIOUS
  <2>1. CASE InitSucceeds
    BY <2>1 DEF InitSucceeds, Inv
  <2>2. CASE InitFails
    BY <2>2 DEF InitFails, Inv
  <2>3. CASE Halted \/ UNCHANGED vars
    BY <2>3 DEF Halted, vars
  <2>4. ASSUME NEW r \in Requests, Request(r)
        PROVE  Mode' = Mode
    BY <2>4 DEF Request, motionVars
  <2>5. CASE NothingPending \/ ClearPending \/ SkipExchange
    BY <2>5 DEF NothingPending, ClearPending, SkipExchange, motionVars
  <2>6. CASE ServeCalibrate
    BY <2>6 DEF ServeCalibrate
  <2>7. CASE ServeOpen \/ ServeClose
    BY <2>7, AcceptedOnlyWhenReady DEF ServeOpen, ServeClose, ServeMotion
  <2>8. CASE StartExchange
    BY <2>8 DEF StartExchange, Inv, MotionConsistent
  <2>9. CASE ReadStatus
    BY <2>9 DEF ReadStatus, ApplyStatus
  <2>10. QED
    BY <2>1, <2>2, <2>3, <2>4, <2>5, <2>6, <2>7, <2>8, <2>9 DEF Next, Task
<1>3. QED
  BY <1>1, <1>2, TypeCorrect, SafetyInvariant, PTL DEF Spec, ImplementsControl, Control!Spec
=============================================================================
