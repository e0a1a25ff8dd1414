---------------------------- MODULE ControlPath ----------------------------
(***************************************************************************)
(* From a button of the control page to the LIN actuator: the script of    *)
(* the page (source/html_web_page.h), the POST handler and the main loop   *)
(* of source/web_server.c, composed with LinActuator.                      *)
(*                                                                         *)
(* The page disables its buttons when one is clicked and enables them      *)
(* 900 ms after the answer.  The handler takes the body of a POST for a    *)
(* command as soon as device_configured is set, for credentials before.    *)
(* server_task calls lin_actuator_task only while the mode is              *)
(* SERVER_RECONFIGURED; a return to provisioning keeps lin_ctx, the        *)
(* pending request included.                                               *)
(*                                                                         *)
(* Time is counted in calls of lin_actuator_task.  A call and the delay    *)
(* between two calls take 50 ms and what the bus, the display and the      *)
(* stream take; the model assumes that Cooldown >= 2 calls end within      *)
(* 900 ms.  There is one page, and it is not loaded again meanwhile.       *)
(***************************************************************************)
EXTENDS LinActuator

CONSTANT Cooldown    \* the calls of lin_actuator_task that end within 900 ms

ASSUME CooldownAssumption == Cooldown \in Nat /\ Cooldown >= 2

VARIABLES
    mode,       \* device_configured and reconfiguration_request, see Modes
    disabled,   \* the calls until the page enables its buttons, 0: enabled
    carried,    \* history: a request from before this stay waits or is served
    thisStay,   \* history: the last command came in this stay, with nothing carried
    waiting     \* history: such a command, and the switch of line 601 has not taken it

pathVars == <<vars, mode, disabled, carried, thisStay, waiting>>

\* "provisioning": not device_configured; "grace": device_configured, the mode
\* not yet SERVER_RECONFIGURED, SoftAP and its server still up; "station": both.
Modes == {"provisioning", "grace", "station"}

PathInit ==
    /\ Init
    /\ mode = "provisioning" /\ disabled = 0
    /\ carried = FALSE /\ thisStay = FALSE /\ waiting = FALSE

PathType ==
    /\ TypeOK
    /\ mode \in Modes
    /\ disabled \in 0..Cooldown
    /\ carried \in BOOLEAN /\ thisStay \in BOOLEAN /\ waiting \in BOOLEAN

-----------------------------------------------------------------------------
(* The page and the handler of its POST. *)

\* Mutant: the buttons stay enabled.
ClickUnguarded(r) ==
    /\ mode \in {"grace", "station"}
    /\ Request(r)
    /\ thisStay' = (mode = "station" /\ ~carried)
    /\ waiting' = thisStay'
    /\ UNCHANGED <<mode, disabled, carried>>

\* sendCommand(r), and softap_resource_handler on a configured device.  The
\* answer follows at once: that is when the wait of the page begins.
Click(r) ==
    /\ disabled = 0
    /\ mode \in {"grace", "station"}
    /\ Request(r)
    /\ disabled' = Cooldown
    /\ thisStay' = (mode = "station" /\ ~carried)
    /\ waiting' = thisStay'
    /\ UNCHANGED <<mode, carried>>

\* A click that reaches no configured device: the body is no form either
\* (FormFields), or nobody answers and the page enables its buttons likewise.
ClickLost ==
    /\ disabled = 0
    /\ mode = "provisioning"
    /\ disabled' = Cooldown
    /\ UNCHANGED <<vars, mode, carried, thisStay, waiting>>

\* Time passes in the page while lin_actuator_task is not called.
Wait ==
    /\ mode # "station"
    /\ disabled > 0
    /\ disabled' = disabled - 1
    /\ UNCHANGED <<vars, mode, carried, thisStay, waiting>>

-----------------------------------------------------------------------------
(* server_task. *)

\* A turn of the main loop calls lin_actuator_task if the mode is station; a
\* call that has begun goes on whatever the other tasks do to the mode.
Called == pc = "loop" => mode = "station"

CallStep ==
    /\ Called
    /\ Task
    /\ disabled' = IF pc' = "loop" /\ disabled > 0 THEN disabled - 1 ELSE disabled
    /\ carried' = (carried /\ pc # "clear")
    /\ waiting' = (waiting /\ pc' # "clear")
    /\ UNCHANGED <<mode, thisStay>>

\* lin_actuator_init, before the modes.
Start == (InitSucceeds \/ InitFails \/ Halted) /\ UNCHANGED <<mode, disabled, carried, thisStay, waiting>>

\* The end of wifi_connect_task after a join.
Join ==
    /\ initialized /\ mode = "provisioning"
    /\ mode' = "grace"
    /\ UNCHANGED <<vars, disabled, carried, thisStay, waiting>>

\* SoftAP gives way to the station, or the join at start: both in server_task,
\* between two calls.
Enter ==
    /\ initialized /\ pc = "loop"
    /\ mode \in {"provisioning", "grace"}
    /\ mode' = "station"
    /\ carried' = (pending_request # "NONE")
    /\ UNCHANGED <<vars, disabled, thisStay, waiting>>

\* start_provisioning_softap, in server_task or in a late wifi_connect_task.
Leave ==
    /\ mode \in {"grace", "station"}
    /\ mode' = "provisioning"
    /\ thisStay' = FALSE /\ waiting' = FALSE
    /\ UNCHANGED <<vars, disabled, carried>>

PathNext ==
    \/ Start
    \/ \E r \in Requests : Click(r)
    \/ ClickLost
    \/ Wait
    \/ CallStep
    \/ Join
    \/ Enter
    \/ Leave

PathSpec == PathInit /\ [][PathNext]_pathVars

\* The status that a calibration waits for.
LearnedReported == CallStep /\ pc = "await" /\ state \in Calibrating /\ state' # state

\* server_task keeps turning, which calls lin_actuator_task in the station mode
\* only (Called).  Of the actuator it is assumed that, asked again and again, it
\* some time reports the position that the calibration waits for; the code has
\* no answer to one that never does.  Nothing obliges anybody to click or to
\* change the mode.
PathFairSpec == PathSpec /\ WF_pathVars(CallStep) /\ SF_pathVars(LearnedReported)

-----------------------------------------------------------------------------
(* Properties. *)

\* In the station mode, unless an older request is carried in, the buttons of
\* the page stay disabled (line 587 of html_web_page.h) as long as the single
\* slot of lin_ctx is taken, and what the task is about to clear (line 643) is
\* what it has served.  A request that came during the exchange of a call waits
\* for the end of that call and for the next one: hence two calls.
SlotGuarded ==
    mode = "station" /\ ~carried =>
        /\ pending_request # "NONE" => disabled >= (IF pc \in {"timer", "await"} THEN 2 ELSE 1)
        /\ pc = "clear" => pending_request = serving

\* A click of the present stay that found nothing carried leaves the slot only by being served: the wait
\* of the page (line 591 of html_web_page.h) is what keeps the single slot of
\* lin_ctx (lines 889, 908, 927) and its late clearing (line 643) from losing
\* clicks, for which there is no other protection.
ClickTaken ==
    [][thisStay /\ mode = "station" /\ pending_request # "NONE"
          /\ pending_request' # pending_request
        => pc = "clear" /\ serving = pending_request]_pathVars

\* A click of the present stay that found nothing carried is served: the switch
\* of lin_handle_pending_request takes it, unless the device leaves the station
\* mode first (line 1898).  Only that step ends the wait, so neither a slot that
\* was overwritten or cleared nor the service of an earlier click counts.
ClickServed == (mode = "station" /\ waiting) ~> (~waiting \/ mode # "station")

\* A calibration that a return to provisioning interrupts goes on and ends
\* once the device is a station again (line 1901), unless it is started anew,
\* with an actuator that reports the positions in the end.
CalibrationResumes ==
    (state \in Calibrating /\ <>[](mode = "station" /\ pending_request # "CALIBRATE"))
        ~> state = "READY"

\* The command byte of each active state, as the actuator expects it.
ByteFor == [CALIBRATING_TO_CLOSED |-> 1, CALIBRATING_TO_OPEN |-> 241, OPENING |-> 240, CLOSING |-> 0]

\* "Repeating until replaced or calibration starts" (lines 621 and 635): as long
\* as the flap moves or calibrates in the station mode, the command of that state
\* is put on the bus again and again, whatever clicks and responses come.
CommandRepeats ==
    \A s \in Calibrating \cup Moving :
        []<>(state # s \/ mode # "station" \/ (pc = "await" /\ data0 = ByteFor[s]))

-----------------------------------------------------------------------------
(* What the source says and the code does not do. *)

\* "Queues a calibration request from the web interface" (line 878): the
\* handler takes commands from line 315 on, in the grace period too, when no
\* turn of the main loop serves them; the second click of the same page
\* replaces the first.
ClickQueued ==
    [][pending_request # "NONE" /\ pending_request' # pending_request
        => pc = "clear" /\ serving = pending_request]_pathVars
=============================================================================
