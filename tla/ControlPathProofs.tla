------------------------- MODULE ControlPathProofs -------------------------
(***************************************************************************)
(* Proofs about ControlPath, for every number of calls that the page waits *)
(* for (at least two) and every response of the actuator.                  *)
(***************************************************************************)
EXTENDS ControlPath, LinActuatorProofs

\* The composition only restricts when the steps of LinActuator happen.
LEMMA PathImplementsActuator == PathSpec => Spec
<1>1. PathInit => Init
  BY DEF PathInit
<1>2. [PathNext]_pathVars => [Next]_vars
  <2> SUFFICES ASSUME [PathNext]_pathVars
               PROVE  [Next]_vars
    OBVIOUS
  <2>1. CASE Start
    BY <2>1 DEF Start, Next
  <2>2. ASSUME NEW r \in Requests, Click(r)
        PROVE  [Next]_vars
    BY <2>2 DEF Click, Next
  <2>3. CASE ClickLost \/ Wait \/ Join \/ Enter \/ Leave
    BY <2>3 DEF ClickLost, Wait, Join, Enter, Leave
  <2>4. CASE CallStep
    BY <2>4 DEF CallStep, Next
  <2>5. CASE UNCHANGED pathVars
    BY <2>5 DEF pathVars
  <2>6. QED
    BY <2>1, <2>2, <2>3, <2>4, <2>5 DEF PathNext
<1>3. QED
  BY <1>1, <1>2, PTL DEF PathSpec, Spec

\* What holds of the actuator holds of the composition.
LEMMA PathActuatorInvariant == PathSpec => [](TypeOK /\ Inv)
<1>1. Spec => []TypeOK
  BY TypeCorrect
<1>2. Spec => []Inv
  BY SafetyInvariant
<1>3. PathSpec => Spec
  BY PathImplementsActuator
<1>4. QED
  BY <1>1, <1>2, <1>3, PTL

\* The variables that the composition adds keep their types.
LEMMA PathTypeCorrect == PathSpec => []PathType
<1>1. PathInit /\ TypeOK => PathType
  <2>1. 0 \in 0..Cooldown
    BY CooldownAssumption
  <2>2. QED
    BY <2>1, Zenon DEF PathInit, PathType, Modes
<1>2. PathType /\ TypeOK' /\ [PathNext]_pathVars => PathType'
  <2> SUFFICES ASSUME PathType, TypeOK', [PathNext]_pathVars
               PROVE  PathType'
    OBVIOUS
  <2> USE CooldownAssumption DEF PathType, Modes
  <2>1. CASE Start
    BY <2>1 DEF Start
  <2>2. ASSUME NEW r \in Requests, Click(r)
        PROVE  PathType'
    BY <2>2 DEF Click
  <2>3. CASE ClickLost
    BY <2>3 DEF ClickLost
  <2>4. CASE Wait
    BY <2>4 DEF Wait
  <2>5. CASE CallStep
    <3>1. disabled' \in 0..Cooldown
      BY <2>5 DEF CallStep
    <3>2. /\ carried' \in BOOLEAN /\ thisStay' \in BOOLEAN /\ waiting' \in BOOLEAN
          /\ mode' \in Modes
      BY <2>5 DEF CallStep
    <3>3. QED
      BY <3>1, <3>2
  <2>6. CASE Join
    BY <2>6 DEF Join
  <2>7. CASE Enter
    BY <2>7 DEF Enter
  <2>8. CASE Leave
    BY <2>8 DEF Leave
  <2>9. CASE UNCHANGED pathVars
    BY <2>9 DEF pathVars
  <2>10. QED
    BY <2>1, <2>2, <2>3, <2>4, <2>5, <2>6, <2>7, <2>8, <2>9 DEF PathNext
<1>3. QED
  BY <1>1, <1>2, PathActuatorInvariant, PTL DEF PathSpec

-----------------------------------------------------------------------------
(* The inductive invariant: SlotGuarded needs to know that the station     *)
(* mode comes after the start, and ClickTaken that a click of this stay    *)
(* found nothing carried.  The last part is the safety half of             *)
(* ClickServed: a click that waits is in the slot until it is taken.       *)

PathInv ==
    /\ SlotGuarded
    /\ mode # "provisioning" => initialized
    /\ thisStay => mode = "station" /\ ~carried
    /\ pc = "clear" => serving # "NONE"
    /\ waiting => thisStay /\ pending_request # "NONE" /\ pc # "clear"

\* Where a call of lin_actuator_task stands, by its step.
LEMMA CallSteps ==
    ASSUME Task
    PROVE  \/ pc = "loop" /\ pc' \in {"timer", "clear"} /\ pending_request' = pending_request
              /\ (pc' = "timer" => pending_request = "NONE")
              /\ (pc' = "clear" => serving' = pending_request /\ pending_request # "NONE")
           \/ pc = "clear" /\ pc' = "timer" /\ pending_request' = "NONE"
           \/ pc = "timer" /\ pc' \in {"loop", "await"} /\ pending_request' = pending_request
           \/ pc = "await" /\ pc' = "loop" /\ pending_request' = pending_request
<1> USE DEF motionVars
<1>1. CASE NothingPending
  BY <1>1 DEF NothingPending
<1>2. CASE ServeCalibrate
  BY <1>2 DEF ServeCalibrate, Serve
<1>3. CASE ServeOpen
  BY <1>3 DEF ServeOpen, ServeMotion, Serve
<1>4. CASE ServeClose
  BY <1>4 DEF ServeClose, ServeMotion, Serve
<1>5. CASE ClearPending
  BY <1>5 DEF ClearPending
<1>6. CASE SkipExchange
  BY <1>6 DEF SkipExchange
<1>7. CASE StartExchange
  BY <1>7 DEF StartExchange
<1>8. CASE ReadStatus
  BY <1>8 DEF ReadStatus
<1>9. QED
  BY <1>1, <1>2, <1>3, <1>4, <1>5, <1>6, <1>7, <1>8 DEF Task

\* No step of the task takes back the initialization.
LEMMA CallKeepsInitialized ==
    ASSUME Task
    PROVE  initialized' = initialized
  BY DEF Task, NothingPending, ServeCalibrate, ServeOpen, ServeClose, ServeMotion,
         ClearPending, SkipExchange, StartExchange, ReadStatus, motionVars

\* PathInit and every step of PathNext establish and preserve PathInv.
THEOREM SlotAlwaysGuarded == PathSpec => [](PathInv /\ SlotGuarded)
<1>1. PathInit => PathInv
  BY DEF PathInit, Init, PathInv, SlotGuarded
<1>2. PathType /\ Inv /\ PathInv /\ [PathNext]_pathVars => PathInv'
  <2> SUFFICES ASSUME PathType, Inv, PathInv, [PathNext]_pathVars
               PROVE  PathInv'
    OBVIOUS
  <2> USE CooldownAssumption DEF PathInv, SlotGuarded, PathType
  <2>1. CASE Start
    <3>1. mode = "provisioning" \/ Halted
      BY <2>1 DEF Start, Inv, InitSucceeds, InitFails
    <3>2. CASE Halted
      BY <2>1, <3>2 DEF Start, Halted, vars
    <3>3. CASE mode = "provisioning"
      BY <2>1, <3>3 DEF Start, InitSucceeds, InitFails, Halted, vars
    <3>4. QED
      BY <3>1, <3>2, <3>3
  <2>2. ASSUME NEW r \in Requests, Click(r)
        PROVE  PathInv'
    <3>1. initialized' /\ thisStay' = (mode' = "station" /\ ~carried')
      BY <2>2 DEF Click, Request
    <3>2. disabled' = Cooldown
      BY <2>2 DEF Click
    <3>3. mode' = "station" /\ ~carried' => pc' # "clear"
      BY <2>2 DEF Click, Request
    <3>4. pc' = "clear" => serving' # "NONE"
      BY <2>2 DEF Click, Request
    <3>5. waiting' => thisStay' /\ pending_request' # "NONE" /\ pc' # "clear"
      BY <2>2, <3>1, <3>3 DEF Click, Request, Requests
    <3>6. QED
      BY <3>1, <3>2, <3>3, <3>4, <3>5
  <2>3. CASE ClickLost
    <3>1. mode' = "provisioning" /\ ~thisStay
      BY <2>3 DEF ClickLost
    <3>2. UNCHANGED <<pc, serving, thisStay, waiting, pending_request>>
      BY <2>3 DEF ClickLost, vars
    <3>3. QED
      BY <3>1, <3>2
  <2>4. CASE Wait
    BY <2>4 DEF Wait, vars
  <2>5. CASE CallStep
    <3> HIDE DEF SlotGuarded
    <3>1. initialized' = initialized /\ mode' = mode /\ thisStay' = thisStay
      BY <2>5, CallKeepsInitialized DEF CallStep
    <3>2. carried' => carried
      BY <2>5 DEF CallStep
    <3>3. pc' = "clear" => serving' # "NONE"
      BY <2>5, CallSteps DEF CallStep
    <3>4. SlotGuarded'
      <4>1. CASE pc = "clear"
        BY <2>5, <4>1, CallSteps DEF CallStep, SlotGuarded
      <4>2. CASE pc # "clear"
        BY <2>5, <4>2, CallSteps DEF CallStep, SlotGuarded
      <4>3. QED
        BY <4>1, <4>2
    <3>5. waiting' => thisStay' /\ pending_request' # "NONE" /\ pc' # "clear"
      <4>1. waiting' => waiting /\ pc' # "clear"
        BY <2>5 DEF CallStep
      <4>2. waiting => pending_request' = pending_request
        BY <2>5, CallSteps DEF CallStep
      <4>3. QED
        BY <3>1, <4>1, <4>2
    <3>6. QED
      BY <3>1, <3>2, <3>3, <3>4, <3>5
  <2>6. CASE Join
    BY <2>6 DEF Join, vars
  <2>7. CASE Enter
    BY <2>7 DEF Enter, vars
  <2>8. CASE Leave
    BY <2>8 DEF Leave, vars
  <2>9. CASE UNCHANGED pathVars
    BY <2>9 DEF pathVars, vars
  <2>10. QED
    BY <2>1, <2>2, <2>3, <2>4, <2>5, <2>6, <2>7, <2>8, <2>9 DEF PathNext
<1>3. PathInv => SlotGuarded
  BY DEF PathInv
<1>4. QED
  BY <1>1, <1>2, <1>3, PathTypeCorrect, PathActuatorInvariant, PTL DEF PathSpec

\* A click of this stay that found nothing carried is lost in no way: the slot
\* is emptied only of the request that was served, never overwritten.
THEOREM ClickNeverLost == PathSpec => ClickTaken
<1>1. PathType /\ PathInv /\ [PathNext]_pathVars
        => (thisStay /\ mode = "station" /\ pending_request # "NONE"
               /\ pending_request' # pending_request
             => pc = "clear" /\ serving = pending_request)
  <2> SUFFICES ASSUME PathType, PathInv, [PathNext]_pathVars,
                      thisStay, mode = "station", pending_request # "NONE",
                      pending_request' # pending_request
               PROVE  pc = "clear" /\ serving = pending_request
    OBVIOUS
  <2> USE DEF PathInv, SlotGuarded
  <2>1. disabled # 0
    BY DEF PathType
  <2>2. CASE Start
    BY <2>2 DEF Start, InitSucceeds, InitFails, Halted, vars
  <2>3. ASSUME NEW r \in Requests, Click(r)
        PROVE  FALSE
    BY <2>1, <2>3 DEF Click
  <2>4. CASE ClickLost \/ Wait \/ Join \/ Enter \/ Leave \/ UNCHANGED pathVars
    BY <2>4 DEF ClickLost, Wait, Join, Enter, Leave, pathVars, vars
  <2>5. CASE CallStep
    BY <2>5, CallSteps DEF CallStep
  <2>6. QED
    BY <2>2, <2>3, <2>4, <2>5 DEF PathNext
<1>2. QED
  BY <1>1, PathTypeCorrect, SlotAlwaysGuarded, PTL DEF PathSpec, ClickTaken
=============================================================================
