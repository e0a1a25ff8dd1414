---------------------------- MODULE LinActuator ----------------------------
(***************************************************************************)
(* The LIN actuator component (source/LIN_actuator.c): the context lin_ctx,*)
(* the periodic lin_actuator_task that server_task calls, and the three    *)
(* lin_actuator_request_* functions that the HTTP worker calls.            *)
(*                                                                         *)
(* server_task has the lowest priority of the firmware and takes no lock,  *)
(* so a request may arrive between any two of its memory accesses.  Only   *)
(* pending_request is shared: the task is split where the order of its     *)
(* accesses to pending_request matters (the switch that reads it, line     *)
(* 601, and the store that clears it, line 643).  The test at 596 and the  *)
(* switch are one step: a request that arrives between them is either read *)
(* by the switch (then it might as well have come before the test) or not  *)
(* (then it might as well have come after the switch).                     *)
(***************************************************************************)
EXTENDS Integers

CONSTANTS
    Simulation,      \* LIN_ACTUATOR_ENABLE_SIMULATION
    SignatureBytes,  \* what byte 2 of a complete response may be
    FlagsBytes       \* what byte 4 of a complete response may be

ASSUME SimulationAssumption == Simulation \in BOOLEAN
ASSUME BytesAssumption == SignatureBytes \subseteq 0..255 /\ FlagsBytes \subseteq 0..255

VARIABLES
    state,                 \* lin_ctx.state
    pending_request,       \* lin_ctx.pending_request
    initialized,           \* lin_ctx.initialized
    all_positions_learned, \* lin_ctx.all_positions_learned
    motion_command_active, \* lin_ctx.motion_command_active
    last_flap_command,     \* lin_ctx.last_flap_command
    elapsed,               \* lin_ctx.elapsed_since_exchange_ms
    simulated,             \* lin_ctx.simulated_exchange_counter, saturated at SimulatedCap
    data0,                 \* lin_ctx.tx_data[0], the command byte of the last frame
    serving,               \* the request the switch of line 601 took
    pc                     \* where server_task stands in lin_actuator_task

vars == <<state, pending_request, initialized, all_positions_learned,
          motion_command_active, last_flap_command, elapsed, simulated,
          data0, serving, pc>>

\* Everything but pending_request and the variables of the dispatch.
motionVars == <<state, all_positions_learned, motion_command_active, last_flap_command>>

-----------------------------------------------------------------------------
(* Constants of the file. *)

Calibrating == {"CALIBRATING_TO_CLOSED", "CALIBRATING_TO_OPEN"}
Moving      == {"OPENING", "CLOSING"}
States      == {"UNINITIALIZED", "IDLE", "READY", "ERROR"} \cup Calibrating \cup Moving
Requests    == {"CALIBRATE", "OPEN", "CLOSE"}

FlapClose == 0
FlapOpen  == 1

ExchangePeriod == 100   \* LIN_EXCHANGE_PERIOD_MS
CallPeriod     == 50    \* LIN_TASK_CALL_PERIOD_MS

StatusSignature == 115  \* LIN_STATUS_SIGNATURE_VALUE, 0x73
\* Mutant: a value with a bit outside of the mask.
ClosedLearnedUnmasked == 3
ClosedLearned   == 2    \* LIN_STATUS_CLOSED_LEARNED_VALUE
AllLearned      == 0    \* LIN_STATUS_ALL_LEARNED_VALUE
\* flags & LIN_STATUS_FLAGS_MASK (0x06): bits 1 and 2.
StatusFlags(byte) == 2 * ((byte \div 2) % 4)

\* The thresholds compare the counter with 3 and 6 only: it may stop at 6.
SimulatedCap == 6

\* Mutant: the flap bits in the wrong nibble.
CommandByteLowNibble(calibration, flap) == (calibration % 4) + (IF flap = FlapOpen THEN 15 ELSE 0)

\* lin_prepare_command: the command byte.
CommandByte(calibration, flap) == (calibration % 4) + (IF flap = FlapOpen THEN 240 ELSE 0)

\* The arguments of lin_prepare_command in each active state.
CommandOf(s) ==
    CASE s = "CALIBRATING_TO_CLOSED" -> CommandByte(1, FlapClose)
      [] s = "CALIBRATING_TO_OPEN"   -> CommandByte(1, FlapOpen)
      [] OTHER                       -> CommandByte(0, last_flap_command)

-----------------------------------------------------------------------------
Init ==
    /\ state = "UNINITIALIZED"
    /\ pending_request = "NONE"
    /\ initialized = FALSE
    /\ all_positions_learned = FALSE
    /\ motion_command_active = FALSE
    /\ last_flap_command = FlapClose
    /\ elapsed = 0
    /\ simulated = 0
    /\ data0 = 0
    /\ serving = "NONE"
    /\ pc = "boot"

\* lin_actuator_init: the UART of the simulation cannot fail.
InitSucceeds ==
    /\ pc = "boot"
    /\ initialized' = TRUE
    /\ state' = "IDLE"
    /\ pc' = "loop"
    /\ UNCHANGED <<pending_request, all_positions_learned, motion_command_active,
                   last_flap_command, elapsed, simulated, data0, serving>>

InitFails ==
    /\ pc = "boot"
    /\ ~Simulation
    /\ state' = "ERROR"
    /\ pc' = "halted"
    /\ UNCHANGED <<pending_request, initialized, all_positions_learned,
                   motion_command_active, last_flap_command, elapsed, simulated,
                   data0, serving>>

\* PRINT_AND_ASSERT stops the firmware for good.
Halted == pc = "halted" /\ UNCHANGED vars

\* Mutant: the request of a calibration acts at once instead of being queued.
RequestAtOnce(r) ==
    /\ initialized
    /\ pending_request' = r
    /\ state' = IF r = "CALIBRATE" THEN "CALIBRATING_TO_CLOSED" ELSE state
    /\ UNCHANGED <<all_positions_learned, motion_command_active, last_flap_command,
                   initialized, elapsed, simulated, data0, serving, pc>>

\* lin_actuator_request_calibration, _open and _close.  The HTTP server that
\* calls them is started after lin_actuator_init.
Request(r) ==
    /\ initialized
    /\ pending_request' = r
    /\ UNCHANGED <<motionVars, initialized, elapsed, simulated, data0, serving, pc>>

-----------------------------------------------------------------------------
(* lin_actuator_task: lin_handle_pending_request, then the exchange.       *)

NothingPending ==
    /\ pc = "loop" /\ initialized
    /\ pending_request = "NONE"
    /\ pc' = "timer"
    /\ UNCHANGED <<motionVars, pending_request, initialized, elapsed, simulated, data0, serving>>

Serve(r) ==
    /\ pc = "loop" /\ initialized
    /\ pending_request = r
    /\ serving' = r
    /\ pc' = "clear"

\* Mutant: a new calibration keeps what was learned before.
ServeCalibrateKeepsLearned ==
    /\ Serve("CALIBRATE")
    /\ motion_command_active' = FALSE
    /\ state' = "CALIBRATING_TO_CLOSED"
    /\ simulated' = 0
    /\ UNCHANGED <<pending_request, initialized, all_positions_learned,
                   last_flap_command, elapsed, data0>>

ServeCalibrate ==
    /\ Serve("CALIBRATE")
    /\ motion_command_active' = FALSE
    /\ state' = "CALIBRATING_TO_CLOSED"
    /\ all_positions_learned' = FALSE
    /\ simulated' = 0
    /\ UNCHANGED <<pending_request, initialized, last_flap_command, elapsed, data0>>

\* Mutant: a motion request is accepted whatever was learned.
ServeMotionUnchecked(r, flap, target) ==
    /\ Serve(r)
    /\ motion_command_active' = TRUE
    /\ last_flap_command' = flap
    /\ state' = target
    /\ UNCHANGED <<pending_request, initialized, all_positions_learned, elapsed, simulated, data0>>

\* The open and the close case of the switch differ in the target only.
ServeMotion(r, flap, target) ==
    /\ Serve(r)
    /\ IF all_positions_learned
       THEN /\ motion_command_active' = TRUE
            /\ last_flap_command' = flap
            /\ state' = target
       ELSE UNCHANGED <<motion_command_active, last_flap_command, state>>
    /\ UNCHANGED <<pending_request, initialized, all_positions_learned, elapsed, simulated, data0>>

ServeOpen  == ServeMotion("OPEN", FlapOpen, "OPENING")

\* Mutant: the flap command of the open case.
ServeCloseWithOpen == ServeMotion("CLOSE", FlapOpen, "CLOSING")
ServeClose == ServeMotion("CLOSE", FlapClose, "CLOSING")

\* Line 643: whatever is pending by now is cleared.
ClearPending ==
    /\ pc = "clear"
    /\ pending_request' = "NONE"
    /\ pc' = "timer"
    /\ UNCHANGED <<motionVars, initialized, elapsed, simulated, data0, serving>>

\* Mutant: the slot is emptied a second time.
SkipExchangeClears ==
    /\ pc = "timer"
    /\ elapsed + CallPeriod < ExchangePeriod
    /\ elapsed' = elapsed + CallPeriod
    /\ pending_request' = "NONE"
    /\ pc' = "loop"
    /\ UNCHANGED <<motionVars, initialized, simulated, data0, serving>>

\* Mutant: the time of the call is not added.
SkipExchangeUncounted ==
    /\ pc = "timer"
    /\ elapsed + CallPeriod < ExchangePeriod
    /\ pc' = "loop"
    /\ UNCHANGED <<motionVars, pending_request, initialized, elapsed, simulated, data0, serving>>

\* The exchange is not due yet.
SkipExchange ==
    /\ pc = "timer"
    /\ elapsed + CallPeriod < ExchangePeriod
    /\ elapsed' = elapsed + CallPeriod
    /\ pc' = "loop"
    /\ UNCHANGED <<motionVars, pending_request, initialized, simulated, data0, serving>>

\* lin_execute_state_machine_step up to the command frame.
StartExchange ==
    /\ pc = "timer"
    /\ elapsed + CallPeriod >= ExchangePeriod
    /\ elapsed' = 0
    /\ IF \/ state \in Calibrating
          \/ state \in Moving /\ motion_command_active
       THEN /\ data0' = CommandOf(state)
            /\ pc' = "await"
            /\ state' = state
       ELSE /\ state' = IF state \in Moving THEN "READY" ELSE state
            /\ pc' = "loop"
            /\ data0' = data0
    /\ UNCHANGED <<pending_request, initialized, all_positions_learned,
                   motion_command_active, last_flap_command, simulated, serving>>

-----------------------------------------------------------------------------
(* lin_request_and_read_status.  On the real bus the response is whatever  *)
(* the actuator sends, or too short to be read.                            *)

NoResponse == [complete |-> FALSE, signature |-> 0, flags |-> 0]
BusResponses ==
    [complete : {TRUE}, signature : SignatureBytes, flags : FlagsBytes] \cup {NoResponse}

SimulatedFlags(count) ==
    CASE state = "CALIBRATING_TO_CLOSED" -> IF count >= 3 THEN ClosedLearned ELSE 6
      [] state = "CALIBRATING_TO_OPEN"   -> IF count >= 6 THEN AllLearned ELSE ClosedLearned
      [] OTHER                           -> AllLearned

NextSimulated == IF simulated < SimulatedCap THEN simulated + 1 ELSE simulated

Responses ==
    IF Simulation
    THEN {[complete |-> TRUE, signature |-> StatusSignature,
           flags |-> SimulatedFlags(NextSimulated)]}
    ELSE BusResponses

\* lin_parse_expected_status accepts the response.
Expected(response) == response.complete /\ response.signature = StatusSignature

\* The rest of lin_execute_state_machine_step: what an accepted status changes.
ApplyStatus(flags) ==
    \/ /\ state = "CALIBRATING_TO_CLOSED"
       /\ state' = IF flags = ClosedLearned THEN "CALIBRATING_TO_OPEN" ELSE state
       /\ all_positions_learned' = all_positions_learned
    \/ /\ state = "CALIBRATING_TO_OPEN"
       /\ state' = IF flags = AllLearned THEN "READY" ELSE state
       /\ all_positions_learned' = (all_positions_learned \/ flags = AllLearned)
    \/ /\ state \in Moving
       /\ state' = state
       /\ all_positions_learned' = (flags = AllLearned)

ReadStatus ==
    /\ pc = "await"
    /\ simulated' = IF Simulation THEN NextSimulated ELSE simulated
    /\ \E response \in Responses :
          IF Expected(response)
          THEN ApplyStatus(StatusFlags(response.flags))
          ELSE UNCHANGED <<state, all_positions_learned>>
    /\ pc' = "loop"
    /\ UNCHANGED <<pending_request, initialized, motion_command_active,
                   last_flap_command, elapsed, data0, serving>>

-----------------------------------------------------------------------------
Task ==
    \/ NothingPending
    \/ ServeCalibrate
    \/ ServeOpen
    \/ ServeClose
    \/ ClearPending
    \/ SkipExchange
    \/ StartExchange
    \/ ReadStatus

Next ==
    \/ InitSucceeds
    \/ InitFails
    \/ Halted
    \/ \E r \in Requests : Request(r)
    \/ Task

Spec == Init /\ [][Next]_vars

-----------------------------------------------------------------------------
(* Properties. *)

\* The type invariant of lin_ctx.
TypeOK ==
    /\ state \in States
    /\ pending_request \in Requests \cup {"NONE"}
    /\ initialized \in BOOLEAN
    /\ all_positions_learned \in BOOLEAN
    /\ motion_command_active \in BOOLEAN
    /\ last_flap_command \in {FlapClose, FlapOpen}
    /\ elapsed \in {0, CallPeriod}
    /\ simulated \in 0..SimulatedCap
    /\ data0 \in {0, 1, 240, 241}
    /\ serving \in Requests \cup {"NONE"}
    /\ pc \in {"boot", "loop", "clear", "timer", "await", "halted"}

\* The flap is driven exactly in the two motion states, and toward the end the
\* state names, although state, motion_command_active and last_flap_command are
\* written by different handlers (the switch of lines 601-641 and the runtime
\* switch of 665-751).
MotionConsistent ==
    /\ motion_command_active <=> state \in Moving
    /\ state = "OPENING" => last_flap_command = FlapOpen
    /\ state = "CLOSING" => last_flap_command = FlapClose

\* A calibration that runs, or that was never started, leaves no position
\* learned, and READY means learned: this is what makes the tests of lines 610
\* and 624 refuse every motion request outside READY and a motion.
LearnedMatchesState ==
    /\ state \in Calibrating \cup {"UNINITIALIZED", "IDLE", "ERROR"} => ~all_positions_learned
    /\ state = "READY" => all_positions_learned

\* While a frame is on the bus (the task waits 60 ms for the status), the
\* command byte is the one of the state that the status will be applied to,
\* although requests arrive meanwhile.
FrameMatchesState == pc = "await" => state \in Calibrating \cup Moving /\ data0 = CommandOf(state)

\* The task promises what LinControl states: a flap that is moved only after a
\* whole calibration (closed end, then open end), which nothing but a new
\* calibration request interrupts.
Mode == IF state \in {"UNINITIALIZED", "IDLE", "ERROR"} THEN "UNCALIBRATED" ELSE state
Control == INSTANCE LinControl WITH mode <- Mode
ImplementsControl == Control!Spec

-----------------------------------------------------------------------------
(* What the source says and the code does not do. *)

\* "Queues an open request from the web interface" (lines 878, 897, 916): a
\* queued request leaves the queue because the task acts on it.
QueuedRequestKept == [][pc = "clear" /\ pc' = "timer" => pending_request = serving]_vars

\* "Repeating until replaced or calibration starts" (line 621): a close request
\* that the task takes while the flap opens replaces the open command.
CloseReplacesOpen == [][state = "OPENING" /\ pc = "loop" /\ pc' = "clear" /\ serving' = "CLOSE"
                        => state' = "CLOSING"]_vars
=============================================================================
