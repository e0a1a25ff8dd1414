---------------------------- MODULE Provisioning ----------------------------
(***************************************************************************)
(* The modes of the device (source/web_server.c): SoftAP with the          *)
(* provisioning page, or a station of a stored network with the control    *)
(* page.  Four parties share the global variables without a lock:          *)
(*   - server_task: the attempts at start-up, then the main loop;          *)
(*   - wifi_connect_task: one attempt with the posted credentials;         *)
(*   - the thread of the HTTP server, in softap_resource_handler;          *)
(*   - the interrupt of the provisioning button.                           *)
(* start_sta_mode, handle_runtime_force_provisioning and                   *)
(* start_provisioning_softap run in server_task and in wifi_connect_task:  *)
(* their actions have the task as parameter.  A step ends where the code   *)
(* blocks (a delay, a call of the connection manager, flash or server) or  *)
(* where another party's access matters: the flag of the button and the    *)
(* countdown are read in one step and written in a later one.  The calls   *)
(* that undo the old mode, one after the other, are one step.              *)
(***************************************************************************)
EXTENDS Integers, Sequences

CONSTANTS
    Networks,      \* the credentials a user posts or the store holds
    NoNetwork,     \* no network; the credential buffers after memset
    Server,        \* server_task
    Connectors,    \* the instances of wifi_connect_task that may exist at once
    NoTask,        \* a NULL task handle
    BootLists,     \* what wifi_store_get_known_networks may return
    MaxTries,      \* MAX_WIFI_RETRY_COUNT
    Grace,         \* AP_SHUTDOWN_GRACE_PERIOD_MS in turns of the main loop
    Turns,         \* the values of a uint32_t, in turns of the main loop
    MaxServers     \* the HTTP servers there is memory for

ASSUME NetworksAssumption == NoNetwork \notin Networks
ASSUME TasksAssumption == Server \notin Connectors /\ NoTask \notin Connectors
ASSUME BootAssumption == BootLists \subseteq Seq(Networks)
ASSUME NumbersAssumption ==
    /\ MaxTries \in Nat \ {0} /\ MaxServers \in Nat \ {0}
    /\ Turns \in Nat /\ Grace \in 1..Turns-1

VARIABLES
    device_configured,        \* the pages and the meaning of a POST
    reconfiguration_request,  \* 0, SERVER_RECONFIGURE_REQUESTED, SERVER_RECONFIGURED
    shutdown,                 \* pending_ap_shutdown_delay_ms, in turns of the loop
    left,                     \* the value of it that server_task has loaded
    handle,                   \* wifi_connect_task_handle
    force,                    \* provisioning_button_force_mode_requested
    irq,                      \* provisioning_button_irq_pressed
    creds,                    \* wifi_ssid and wifi_pwd
    ap,                       \* the SoftAP interface is up
    link,                     \* the network the station is connected to
    apServers,                \* instances of http_ap_server running
    staServer,                \* http_sta_server is running
    pc, back,                 \* where each task stands; where it returns to
    params, tries,            \* connect_param and conn_retries of start_sta_mode
    boot,                     \* the known networks not tried yet
    handler, form,            \* where the HTTP thread stands; the form it serves
    halted                    \* PRINT_AND_ASSERT failed

modeVars == <<device_configured, reconfiguration_request, shutdown, left>>
radioVars == <<ap, link>>
serverVars == <<apServers, staServer>>
taskVars == <<pc, back, params, tries, boot>>
handlerVars == <<handler, form>>
vars == <<modeVars, handle, force, irq, creds, radioVars, serverVars, taskVars,
          handlerVars, halted>>

Tasks == {Server} \cup Connectors
MaybeNetwork == Networks \cup {NoNetwork}

Requested    == 1   \* SERVER_RECONFIGURE_REQUESTED
Reconfigured == 2   \* SERVER_RECONFIGURED

Goto(t, label) == pc' = [pc EXCEPT ![t] = label]

Call(t, label, return) == Goto(t, label) /\ back' = [back EXCEPT ![t] = return]
Return(t) == Goto(t, back[t]) /\ back' = [back EXCEPT ![t] = "none"]

-----------------------------------------------------------------------------
Init ==
    /\ device_configured = FALSE /\ reconfiguration_request = 0
    /\ shutdown = 0 /\ left = 0
    /\ handle = NoTask /\ force = FALSE /\ irq = FALSE
    /\ creds = NoNetwork
    /\ ap = FALSE /\ link = NoNetwork
    /\ apServers = 0 /\ staServer = FALSE
    /\ pc = [t \in Tasks |-> IF t = Server THEN "boot" ELSE "none"]
    /\ back = [t \in Tasks |-> "none"]
    /\ params = [t \in Tasks |-> NoNetwork]
    /\ tries = [t \in Tasks |-> 0]
    /\ boot \in BootLists
    /\ handler = "idle" /\ form = NoNetwork
    /\ halted = FALSE

\* provisioning_button_isr_callback.
Press ==
    /\ ~irq
    /\ irq' = TRUE
    /\ UNCHANGED <<modeVars, handle, force, creds, radioVars, serverVars, taskVars,
                   handlerVars, halted>>

\* The network goes out of reach.  External.
LinkLost ==
    /\ link # NoNetwork
    /\ link' = NoNetwork
    /\ UNCHANGED <<modeVars, handle, force, irq, creds, ap, serverVars, taskVars,
                   handlerVars, halted>>

-----------------------------------------------------------------------------
(* handle_runtime_force_provisioning, with the button interrupt enabled,   *)
(* called before and between the attempts ("poll") and in every turn of    *)
(* the main loop ("main").  The flag is read (line 1716) and cleared (1717)*)
(* by two accesses; a press between the two is cleared unread.             *)

AfterPoll(t) == IF pc[t] = "poll" THEN "check" ELSE "body"

PollRead(t) ==
    /\ pc[t] \in {"poll", "main"}
    /\ Call(t, IF irq THEN "pressed" ELSE "quiet", AfterPoll(t))
    /\ UNCHANGED <<modeVars, handle, force, irq, creds, radioVars, serverVars, params,
                   tries, boot, handlerVars, halted>>

\* Mutant: a press is dropped in every mode.
PollDiscards(t) ==
    /\ pc[t] \in {"quiet", "pressed"}
    /\ irq' = FALSE
    /\ Return(t)
    /\ UNCHANGED <<modeVars, handle, force, creds, radioVars, serverVars, params,
                   tries, boot, handlerVars, halted>>

\* No press was read, or the running SoftAP makes it void.
PollQuiet(t) ==
    /\ pc[t] = "quiet" \/ (pc[t] = "pressed" /\ ap)
    /\ irq' = FALSE
    /\ Return(t)
    /\ UNCHANGED <<modeVars, handle, force, creds, radioVars, serverVars, params,
                   tries, boot, handlerVars, halted>>

PollPressed(t) ==
    /\ pc[t] = "pressed" /\ ~ap
    /\ irq' = FALSE
    /\ force' = TRUE
    /\ Goto(t, "switch")
    /\ UNCHANGED <<modeVars, handle, creds, radioVars, serverVars, back, params, tries,
                   boot, handlerVars, halted>>

\* switch_to_provisioning_mode returns at once: SoftAP has come up meanwhile.
SwitchDone(t) ==
    /\ pc[t] = "switch"
    /\ reconfiguration_request = 0 /\ ap
    /\ Return(t)
    /\ UNCHANGED <<modeVars, handle, force, irq, creds, radioVars, serverVars,
                   params, tries, boot, handlerVars, halted>>

\* Mutant: the countdown is not cleared.
ResetKeepsGrace ==
    /\ device_configured' = FALSE /\ reconfiguration_request' = 0
    /\ handle' = NoTask /\ link' = NoNetwork /\ ap' = FALSE
    /\ UNCHANGED <<shutdown, left>>

\* Mutant: the mode is not reset.
ResetKeepsMode ==
    /\ device_configured' = FALSE /\ shutdown' = 0
    /\ handle' = NoTask /\ link' = NoNetwork /\ ap' = FALSE
    /\ UNCHANGED <<reconfiguration_request, left>>

\* start_provisioning_softap up to cy_wcm_stop_ap.
ResetState ==
    /\ device_configured' = FALSE
    /\ reconfiguration_request' = 0
    /\ shutdown' = 0
    /\ handle' = NoTask
    /\ link' = NoNetwork
    /\ ap' = FALSE
    /\ UNCHANGED left

\* switch_to_provisioning_mode; the server of the station is stopped only in
\* the station mode.
StopStation(t) ==
    /\ pc[t] = "switch"
    /\ reconfiguration_request # 0 \/ ~ap
    /\ staServer' = (staServer /\ reconfiguration_request # Reconfigured)
    /\ link' = NoNetwork
    /\ ap' = FALSE
    /\ Goto(t, "reset")
    /\ UNCHANGED <<modeVars, handle, force, irq, creds, apServers, back, params, tries,
                   boot, handlerVars, halted>>

Reset(t) ==
    /\ pc[t] = "reset"
    /\ ResetState
    /\ Goto(t, "softap")
    /\ UNCHANGED <<force, irq, creds, serverVars, back, params, tries, boot,
                   handlerVars, halted>>

\* start_ap_mode.
StartSoftAp(t) ==
    /\ pc[t] = "softap"
    /\ ap' = TRUE
    /\ Goto(t, "ap_server")
    /\ UNCHANGED <<modeVars, handle, force, irq, creds, link, serverVars, back, params,
                   tries, boot, handlerVars, halted>>

\* cy_wcm_start_ap fails, or the address is unknown: an assertion fails.
SoftApFails(t) ==
    /\ pc[t] = "softap"
    /\ halted' = TRUE
    /\ UNCHANGED <<modeVars, handle, force, irq, creds, radioVars, serverVars, taskVars,
                   handlerVars>>

\* The address that display_configuration shows; without it an assertion fails.
AddressKnown == IF reconfiguration_request = 0 THEN ap ELSE link # NoNetwork

\* configure_http_server, cy_http_server_start and display_configuration: an
\* assertion fails without the addresses or the memory.
StartApServer(t) ==
    /\ pc[t] = "ap_server"
    /\ IF ap /\ AddressKnown /\ apServers < MaxServers
       THEN /\ apServers' = apServers + 1
            /\ Return(t)
            /\ UNCHANGED halted
       ELSE /\ halted' = TRUE
            /\ UNCHANGED <<apServers, pc, back>>
    /\ UNCHANGED <<modeVars, handle, force, irq, creds, radioVars, staServer,
                   params, tries, boot, handlerVars>>

-----------------------------------------------------------------------------
(* start_sta_mode.                                                         *)

EnterSta(t) ==
    /\ pc[t] = "sta"
    /\ force' = FALSE
    /\ link' = NoNetwork
    /\ params' = [params EXCEPT ![t] = creds]
    /\ tries' = [tries EXCEPT ![t] = 0]
    /\ Goto(t, "poll")
    /\ UNCHANGED <<modeVars, handle, irq, creds, ap, serverVars, back, boot,
                   handlerVars, halted>>

\* start_sta_mode returns; its locals go out of scope.
LeaveSta(t, label) ==
    /\ Goto(t, label)
    /\ params' = [params EXCEPT ![t] = NoNetwork]
    /\ tries' = [tries EXCEPT ![t] = 0]

\* After a failure server_task goes on to the next known network.
Fail(t) == LeaveSta(t, IF t = Server THEN "boot" ELSE "failed")

\* Mutant: one attempt too many.
CheckOffByOne(t) ==
    /\ pc[t] = "check"
    /\ IF force \/ tries[t] > MaxTries
       THEN Fail(t)
       ELSE Goto(t, "connect") /\ UNCHANGED <<params, tries>>
    /\ UNCHANGED <<modeVars, handle, force, irq, creds, radioVars, serverVars, back,
                   boot, handlerVars, halted>>

\* The test after the poll, and the condition of the loop.
Check(t) ==
    /\ pc[t] = "check"
    /\ IF force \/ tries[t] = MaxTries
       THEN Fail(t)
       ELSE Goto(t, "connect") /\ UNCHANGED <<params, tries>>
    /\ UNCHANGED <<modeVars, handle, force, irq, creds, radioVars, serverVars, back,
                   boot, handlerVars, halted>>

ConnectSucceeds(t) ==
    /\ pc[t] = "connect"
    /\ params[t] # NoNetwork
    /\ link' = params[t]
    /\ LeaveSta(t, "joined")
    /\ UNCHANGED <<modeVars, handle, force, irq, creds, ap, serverVars, back, boot,
                   handlerVars, halted>>

\* Mutant: the attempt is not counted.
ConnectFailsUncounted(t) ==
    /\ pc[t] = "connect"
    /\ Goto(t, "poll")
    /\ UNCHANGED <<modeVars, handle, force, irq, creds, radioVars, serverVars, back,
                   params, tries, boot, handlerVars, halted>>

\* An error other than wrong credentials: wait, then try again.
ConnectFails(t) ==
    /\ pc[t] = "connect"
    /\ tries' = [tries EXCEPT ![t] = @ + 1]
    /\ Goto(t, "poll")
    /\ UNCHANGED <<modeVars, handle, force, irq, creds, radioVars, serverVars, back,
                   params, boot, handlerVars, halted>>

\* classify_wifi_connect_failure: wrong credentials are not tried again.
ConnectRefused(t) ==
    /\ pc[t] = "connect"
    /\ Fail(t)
    /\ UNCHANGED <<modeVars, handle, force, irq, creds, radioVars, serverVars, back,
                   boot, handlerVars, halted>>

-----------------------------------------------------------------------------
(* server_task.                                                            *)

TryKnown ==
    /\ pc[Server] = "boot"
    /\ boot # <<>>
    /\ creds' = Head(boot)
    /\ boot' = Tail(boot)
    /\ Goto(Server, "sta")
    /\ UNCHANGED <<modeVars, handle, force, irq, radioVars, serverVars, back, params,
                   tries, handlerVars, halted>>

BootJoined ==
    /\ pc[Server] = "joined"
    /\ device_configured' = TRUE
    /\ reconfiguration_request' = Reconfigured
    /\ Goto(Server, "sta_server")
    /\ UNCHANGED <<shutdown, left, handle, force, irq, creds, radioVars, serverVars, back,
                   params, tries, boot, handlerVars, halted>>

\* configure_http_server_sta_only; without an address the assertion fails.
StartStaServer ==
    /\ pc[Server] = "sta_server"
    /\ IF link # NoNetwork
       THEN /\ staServer' = TRUE
            /\ Goto(Server, "main")
            /\ UNCHANGED halted
       ELSE /\ halted' = TRUE
            /\ UNCHANGED <<staServer, pc>>
    /\ UNCHANGED <<modeVars, handle, force, irq, creds, radioVars, apServers, back,
                   params, tries, boot, handlerVars>>

\* No known network answered, but the button has started the SoftAP.
BootInSoftAp ==
    /\ pc[Server] = "boot"
    /\ boot = <<>>
    /\ ap
    /\ force' = FALSE
    /\ Goto(Server, "main")
    /\ UNCHANGED <<modeVars, handle, irq, creds, radioVars, serverVars, back, params,
                   tries, boot, handlerVars, halted>>

BootFallsBack ==
    /\ pc[Server] = "boot"
    /\ boot = <<>>
    /\ ~ap
    /\ ResetState
    /\ Call(Server, "softap", "main")
    /\ UNCHANGED <<force, irq, creds, serverVars, params, tries, boot, handlerVars, halted>>

(* reconfigure_http_server, display_configuration and the new mode.        *)

StartReconfigure ==
    /\ pc[Server] = "body"
    /\ reconfiguration_request = Requested
    /\ Goto(Server, "reconfigure")
    /\ UNCHANGED <<modeVars, handle, force, irq, creds, radioVars, serverVars, back, params,
                   tries, boot, handlerVars, halted>>

\* The server of the SoftAP goes; without one an assertion fails.
StopApServer ==
    /\ pc[Server] = "reconfigure"
    /\ IF apServers > 0
       THEN /\ apServers' = apServers - 1
            /\ Goto(Server, "renew")
            /\ UNCHANGED halted
       ELSE /\ halted' = TRUE
            /\ UNCHANGED <<apServers, pc>>
    /\ UNCHANGED <<modeVars, handle, force, irq, creds, radioVars, staServer,
                   back, params, tries, boot, handlerVars>>

\* The server of the station comes; without the addresses an assertion fails.
RenewServer ==
    /\ pc[Server] = "renew"
    /\ IF link # NoNetwork /\ AddressKnown
       THEN /\ staServer' = TRUE
            /\ Goto(Server, "renewed")
            /\ UNCHANGED halted
       ELSE /\ halted' = TRUE
            /\ UNCHANGED <<staServer, pc>>
    /\ UNCHANGED <<modeVars, handle, force, irq, creds, radioVars, apServers,
                   back, params, tries, boot, handlerVars>>

\* The turn goes on with the test of the countdown.
EnterStation ==
    /\ pc[Server] = "renewed"
    /\ reconfiguration_request' = Reconfigured
    /\ Goto(Server, "body")
    /\ UNCHANGED <<device_configured, shutdown, left, handle, force, irq, creds, radioVars,
                   serverVars, back, params, tries, boot, handlerVars, halted>>

(* The countdown.  Lines 1954, 1958 and 1960 name the variable, which is   *)
(* not volatile: the build loads it again or keeps what it has.            *)

Loads == {left, shutdown}

\* Nothing is counted.  The turns of the LIN task and of the event stream are
\* in other modules.
Turn ==
    /\ pc[Server] = "body"
    /\ reconfiguration_request # Requested
    /\ shutdown = 0
    /\ Goto(Server, "main")
    /\ UNCHANGED <<modeVars, handle, force, irq, creds, radioVars, serverVars, back,
                   params, tries, boot, handlerVars, halted>>

ReadCountdown ==
    /\ pc[Server] = "body"
    /\ reconfiguration_request # Requested
    /\ shutdown > 0
    /\ left' = shutdown
    /\ Goto(Server, "count")
    /\ UNCHANGED <<device_configured, reconfiguration_request, shutdown, handle, force, irq,
                   creds, radioVars, serverVars, back, params, tries, boot, handlerVars, halted>>

CountdownVoid ==
    /\ pc[Server] = "count"
    /\ reconfiguration_request # 0
    /\ left' = 0
    /\ Goto(Server, "main")
    /\ UNCHANGED <<device_configured, reconfiguration_request, shutdown, handle, force, irq,
                   creds, radioVars, serverVars, back, params, tries, boot, handlerVars, halted>>

CountdownRuns ==
    /\ pc[Server] = "count"
    /\ reconfiguration_request = 0
    /\ left' \in Loads /\ left' > 1
    /\ Goto(Server, "less")
    /\ UNCHANGED <<device_configured, reconfiguration_request, shutdown, handle, force, irq,
                   creds, radioVars, serverVars, back, params, tries, boot, handlerVars, halted>>

Less(n) == IF n = 0 THEN Turns - 1 ELSE n - 1

\* Mutant: the countdown starts again in every turn.
CountDownReloads ==
    /\ pc[Server] = "less"
    /\ shutdown' = Grace
    /\ left' = 0
    /\ Goto(Server, "main")
    /\ UNCHANGED <<device_configured, reconfiguration_request, handle, force, irq, creds,
                   radioVars, serverVars, back, params, tries, boot, handlerVars, halted>>

\* What another task has stored since the load is overwritten.
CountDown ==
    /\ pc[Server] = "less"
    /\ \E n \in Loads : shutdown' = Less(n)
    /\ left' = 0
    /\ Goto(Server, "main")
    /\ UNCHANGED <<device_configured, reconfiguration_request, handle, force, irq, creds,
                   radioVars, serverVars, back, params, tries, boot, handlerVars, halted>>

\* Mutant: the request for the other server is forgotten.
ShutDownApSilently ==
    /\ pc[Server] = "count"
    /\ reconfiguration_request = 0
    /\ \E n \in Loads : n <= 1
    /\ shutdown' = 0 /\ left' = 0
    /\ ap' = FALSE
    /\ Goto(Server, "main")
    /\ UNCHANGED <<device_configured, reconfiguration_request, handle, force, irq, creds,
                   link, serverVars, back, params, tries, boot, handlerVars, halted>>

\* The grace period is over.
ShutDownAp ==
    /\ pc[Server] = "count"
    /\ reconfiguration_request = 0
    /\ \E n \in Loads : n <= 1
    /\ shutdown' = 0 /\ left' = 0
    /\ reconfiguration_request' = Requested
    /\ Goto(Server, "stop_ap")
    /\ UNCHANGED <<device_configured, handle, force, irq, creds, radioVars, serverVars,
                   back, params, tries, boot, handlerVars, halted>>

\* The SoftAP goes down, whatever another task has made of the mode since.
StopSoftAp ==
    /\ pc[Server] = "stop_ap"
    /\ ap' = FALSE
    /\ Goto(Server, "main")
    /\ UNCHANGED <<modeVars, handle, force, irq, creds, link, serverVars, back, params,
                   tries, boot, handlerVars, halted>>

-----------------------------------------------------------------------------
(* wifi_connect_task, after start_sta_mode.                                *)

\* The network is saved and the result published.  From here to the deletion
\* of the task no call blocks, but a task of the same priority may run.
ConnectorJoined(c) ==
    /\ pc[c] = "joined"
    /\ device_configured' = TRUE
    /\ Goto(c, "grace")
    /\ UNCHANGED <<reconfiguration_request, shutdown, left, handle, force, irq, creds, radioVars,
                   serverVars, back, params, tries, boot, handlerVars, halted>>

\* The countdown starts, the handle is cleared and the task deleted.  A POST
\* that reads them in between sees what it would have seen before or after.
ConnectorDone(c) ==
    /\ pc[c] = "grace"
    /\ shutdown' = Grace
    /\ handle' = NoTask
    /\ Goto(c, "none")
    /\ UNCHANGED <<device_configured, reconfiguration_request, left, force, irq, creds, radioVars,
                   serverVars, back, params, tries, boot, handlerVars, halted>>

ConnectorFailed(c) ==
    /\ pc[c] = "failed"
    /\ force' = FALSE
    /\ handle' = NoTask
    /\ Goto(c, "none")
    /\ UNCHANGED <<modeVars, irq, creds, radioVars, serverVars, back, params, tries,
                   boot, handlerVars, halted>>

-----------------------------------------------------------------------------
(* softap_resource_handler, POST of the provisioning form.  A POST to a    *)
(* configured device is an actuator command (module LinActuator).          *)

PostForm(n) ==
    /\ handler = "idle"
    /\ (ap /\ apServers > 0) \/ staServer
    /\ ~device_configured
    /\ form' = n
    /\ handler' = "clear"
    /\ UNCHANGED <<modeVars, handle, force, irq, creds, radioVars, serverVars, taskVars, halted>>

\* parse_wifi_credentials: memset, then the fields of the form.
ClearCredentials ==
    /\ handler = "clear"
    /\ creds' = NoNetwork
    /\ handler' = "fill"
    /\ UNCHANGED <<modeVars, handle, force, irq, radioVars, serverVars, taskVars, form, halted>>

FillCredentials ==
    /\ handler = "fill"
    /\ creds' = form
    /\ handler' = "start"
    /\ UNCHANGED <<modeVars, handle, force, irq, radioVars, serverVars, taskVars, form, halted>>

HandlerReturns == handler' = "idle" /\ form' = NoNetwork

\* start_wifi_connect_task: an attempt is under way.
StartWhileRunning ==
    /\ handler = "start"
    /\ handle # NoTask
    /\ HandlerReturns
    /\ UNCHANGED <<modeVars, handle, force, irq, creds, radioVars, serverVars, taskVars, halted>>

StartConnector(c) ==
    /\ handler = "start"
    /\ handle = NoTask
    /\ pc[c] = "none"
    /\ handle' = c
    /\ Goto(c, "sta")
    /\ HandlerReturns
    /\ UNCHANGED <<modeVars, force, irq, creds, radioVars, serverVars, back, params,
                   tries, boot, halted>>

\* xTaskCreate finds no memory: the handle stays NULL.
StartFails ==
    /\ handler = "start"
    /\ handle = NoTask
    /\ HandlerReturns
    /\ UNCHANGED <<modeVars, handle, force, irq, creds, radioVars, serverVars, taskVars, halted>>

-----------------------------------------------------------------------------
ButtonStep(t) ==
    PollRead(t) \/ PollQuiet(t) \/ PollPressed(t) \/ SwitchDone(t) \/ StopStation(t)
    \/ Reset(t) \/ StartSoftAp(t) \/ SoftApFails(t) \/ StartApServer(t)

StaStep(t) ==
    EnterSta(t) \/ Check(t) \/ ConnectSucceeds(t) \/ ConnectFails(t) \/ ConnectRefused(t)

ServerStep ==
    \/ ButtonStep(Server) \/ StaStep(Server)
    \/ TryKnown \/ BootJoined \/ StartStaServer \/ BootInSoftAp \/ BootFallsBack
    \/ StartReconfigure \/ StopApServer \/ RenewServer \/ EnterStation
    \/ Turn \/ ReadCountdown \/ CountdownVoid \/ CountdownRuns \/ CountDown
    \/ ShutDownAp \/ StopSoftAp

ConnectorStep(c) ==
    ButtonStep(c) \/ StaStep(c) \/ ConnectorJoined(c) \/ ConnectorDone(c) \/ ConnectorFailed(c)

HandlerStep ==
    \/ ClearCredentials \/ FillCredentials \/ StartWhileRunning \/ StartFails
    \/ \E c \in Connectors : StartConnector(c)

Run ==
    \/ ServerStep
    \/ \E c \in Connectors : ConnectorStep(c)
    \/ HandlerStep
    \/ \E n \in Networks : PostForm(n)
    \/ Press
    \/ LinkLost

\* CY_ASSERT(0) stops the firmware.
Stopped == halted /\ UNCHANGED vars

Next == (~halted /\ Run) \/ Stopped

Spec == Init /\ [][Next]_vars

\* The tasks are scheduled: every thread of a higher priority blocks again and
\* again.  Nothing is assumed of the user, the networks and the HTTP thread.
Fairness ==
    /\ WF_vars(~halted /\ ServerStep)
    /\ \A c \in Connectors : WF_vars(~halted /\ ConnectorStep(c))

FairSpec == Spec /\ Fairness

-----------------------------------------------------------------------------
Labels == {"none", "boot", "sta", "poll", "quiet", "pressed", "check", "connect", "joined",
           "grace", "failed", "switch", "reset", "softap", "ap_server", "sta_server", "main",
           "body", "reconfigure", "renew", "renewed", "count", "less", "stop_ap"}

TypeOK ==
    /\ device_configured \in BOOLEAN
    /\ reconfiguration_request \in {0, Requested, Reconfigured}
    /\ shutdown \in 0..Turns-1 /\ left \in 0..Turns-1
    /\ handle \in Connectors \cup {NoTask}
    /\ force \in BOOLEAN /\ irq \in BOOLEAN
    /\ creds \in MaybeNetwork
    /\ ap \in BOOLEAN /\ link \in MaybeNetwork
    /\ apServers \in 0..MaxServers /\ staServer \in BOOLEAN
    /\ pc \in [Tasks -> Labels]
    /\ back \in [Tasks -> {"none", "check", "body", "main"}]
    /\ params \in [Tasks -> MaybeNetwork]
    /\ tries \in [Tasks -> 0..MaxTries]
    /\ boot \in Seq(Networks)
    /\ handler \in {"idle", "clear", "fill", "start"} /\ form \in MaybeNetwork
    /\ halted \in BOOLEAN

\* server_task has not reached its main loop.
Starting ==
    \/ pc[Server] \in {"boot", "sta", "poll", "check", "connect", "joined", "sta_server"}
    \/ /\ pc[Server] \in {"quiet", "pressed", "switch", "reset", "softap", "ap_server"}
       /\ back[Server] \in {"check", "main"}

\* A task is on its way to the provisioning mode.
Bringing == \E t \in Tasks : pc[t] \in {"reset", "softap", "ap_server"}

\* In the provisioning mode the SoftAP and its page are up.
Served ==
    ~Starting /\ ~Bringing /\ reconfiguration_request = 0 => ap /\ apServers > 0

\* No order of joins, presses, failures and shutdowns leaves a device that is
\* in the provisioning mode out of reach, but for one: server_task has asked for
\* the station mode, another task takes the device back to provisioning before
\* server_task stops the SoftAP (line 1966), and that stop then hits the new one.
ProvisioningServed ==
    [][Served /\ ~Served' => pc[Server] = "stop_ap" /\ pc'[Server] = "main"]_vars

\* In the station mode the control page is up, once the main loop runs.
StationServed ==
    ~Starting /\ ~Bringing /\ reconfiguration_request = Reconfigured => staServer

\* The grace period runs only for a configured device.
GraceConfigured == shutdown > 0 => device_configured

\* A return to provisioning by the button leaves no countdown behind that would
\* take the new SoftAP down, but where the reset of line 1589 falls between two
\* accesses of another task: between the load and the store of the countdown in
\* server_task (line 1960), or between the two stores of a wifi_connect_task
\* that has joined (lines 314 and 315).
GraceKept ==
    [][GraceConfigured /\ ~GraceConfigured' =>
           \/ pc[Server] = "less" /\ pc'[Server] = "main"
           \/ \E c \in Connectors : pc[c] = "grace" /\ pc'[c] = "none"]_vars

\* After a join with posted credentials the device becomes a station, unless
\* the button takes it back or an assertion stops it.
JoinLeadsToStation ==
    shutdown > 0 ~> (reconfiguration_request = Reconfigured \/ ~device_configured \/ halted)

\* A task has read the press, or the next one that reads the flag will.
Heard ==
    \/ irq /\ \A t \in Tasks : pc[t] # "quiet"
    \/ \E t \in Tasks : pc[t] = "pressed"

\* A press outside of provisioning leads to the SoftAP, whichever task reads
\* it, unless it comes while a task is about to clear the flag (line 1717).
ButtonReturns == (Heard /\ ~ap) ~> (ap \/ halted)

\* Every run of start_sta_mode ends.
AttemptsEnd ==
    \A t \in Tasks : pc[t] = "poll" ~> (pc[t] \in {"joined", "boot", "failed"} \/ halted)

-----------------------------------------------------------------------------
(* What the comments and messages of the code say, and the code does not do.*)

\* "Wi-Fi connect aborted by button request; entering provisioning/AP mode"
\* (line 1105): a start-up that the button has aborted tries no other network.
AbortEntersProvisioning ==
    [][force /\ pc[Server] = "boot" => pc'[Server] # "sta"]_vars

\* "Allow provisioning button to interrupt STA connect attempts at any point"
\* (line 1101): a task that reads a press between its attempts does not go on.
ButtonInterrupts ==
    [][\A t \in Tasks : pc[t] = "pressed" => pc'[t] # "check"]_vars

\* The same comment: no press is cleared unread.
PressKept ==
    [][\A t \in Tasks : pc[t] = "quiet" /\ pc'[t] # "quiet" => ~irq]_vars

\* "HTTP POST extracts the credentials ... and tries to connect to the AP": a
\* form accepted without an error has a task that is still to read it.
PostedIsTried ==
    [][handler = "start" /\ handler' = "idle" /\ handle' # NoTask
        => \E c \in Connectors : pc'[c] = "sta"]_vars
=============================================================================
