------------------------- MODULE ProvisioningProofs -------------------------
(***************************************************************************)
(* Proofs about Provisioning, for every set of networks, every number of   *)
(* attempts and of instances of wifi_connect_task, every grace period,     *)
(* every width of the countdown and every limit of HTTP servers.           *)
(***************************************************************************)
EXTENDS Provisioning, TLAPS

Switching(t) == pc[t] \in {"switch", "reset", "softap", "ap_server"}

\* An attempt is made while attempts are left.
Counting == \A t \in Tasks : pc[t] = "connect" => tries[t] < MaxTries

\* The provisioning mode lasts through start-up; the station mode has its page
\* but for the server_task that is to start it and a task that has stopped it.
Modes ==
    /\ Starting => ~staServer
    /\ Starting /\ pc[Server] # "sta_server" => reconfiguration_request = 0
    /\ pc[Server] = "sta_server" => reconfiguration_request = Reconfigured
    /\ reconfiguration_request = Reconfigured =>
           staServer \/ pc[Server] = "sta_server" \/ \E t \in Tasks : pc[t] = "reset"
    /\ pc[Server] \in {"reconfigure", "renew", "renewed"} => reconfiguration_request # Reconfigured
    /\ pc[Server] = "renewed" => staServer
    /\ pc[Server] \in {"quiet", "pressed"} => back[Server] # "main"

\* During start-up only server_task moves the SoftAP, and until it is up
\* there is no form and no attempt of a user.
Quiet == apServers = 0 /\ handler = "idle" /\ \A c \in Connectors : pc[c] = "none"

StartUp ==
    Starting =>
        /\ \A c \in Connectors : ~Switching(c)
        /\ ~ap \/ Switching(Server) => Quiet
        /\ pc[Server] \in {"switch", "reset", "softap"} => ~ap
        /\ ap /\ ~Switching(Server) => apServers > 0

\* A task is about to start a server of SoftAP, which may be the one that the
\* provisioning mode is short of.  server_task takes one away for the station
\* mode; if it has lost the mode meanwhile, there is another one.
Pending(t) == pc[t] \in {"softap", "ap_server"}

InStock == apServers > 0 \/ \E t \in Tasks : Pending(t)

TwoInStock ==
    \/ apServers > 1
    \/ apServers > 0 /\ \E t \in Tasks : Pending(t)
    \/ \E t, u \in Tasks : t # u /\ Pending(t) /\ Pending(u)

Supply ==
    /\ ~Starting /\ reconfiguration_request = 0 => InStock
    /\ reconfiguration_request = Requested /\ pc[Server] \notin {"renew", "renewed"} => InStock
    /\ pc[Server] = "reconfigure" /\ reconfiguration_request = 0 => TwoInStock

IInv ==
    TypeOK /\ Counting /\ Modes /\ StartUp /\ Supply

\* What is served stays served.
Kept == Served => Served'

\* A countdown stays one of a configured device.
GraceHeld == GraceConfigured => GraceConfigured'

-----------------------------------------------------------------------------
LEMMA TaskFacts == Server \in Tasks /\ Connectors \subseteq Tasks /\ Server \notin Connectors
BY TasksAssumption DEF Tasks

LEMMA ModeValues == Requested # 0 /\ Reconfigured # 0 /\ Requested # Reconfigured
BY DEF Requested, Reconfigured

\* What a change of pc at one task means at every task.
LEMMA MovedTask ==
    ASSUME TypeOK, NEW t \in Tasks, NEW label \in Labels, pc' = [pc EXCEPT ![t] = label]
    PROVE  /\ pc' \in [Tasks -> Labels]
           /\ pc'[t] = label
           /\ \A u \in Tasks \ {t} : pc'[u] = pc[u]
BY DEF TypeOK

\* A step between two labels of the same phase.
SamePhase(t, label) ==
    \/ t = Server /\ {pc[t], label} \subseteq {"boot", "sta", "poll", "check", "connect", "joined"}
    \/ t = Server /\ {pc[t], label} \subseteq {"main", "body", "count", "less", "stop_ap"}
    \/ t \in Connectors /\ pc[t] # "none" /\ ~Switching(t)
       /\ label \notin {"switch", "reset", "softap", "ap_server"}

\* A step that moves no server of SoftAP and no mode leaves the stock as it is.
LEMMA SupplyStep ==
    ASSUME IInv, NEW t \in Tasks, NEW label \in Labels,
           pc' = [pc EXCEPT ![t] = label],
           Pending(t) <=> label \in {"softap", "ap_server"},
           Starting => Starting' \/ reconfiguration_request = Reconfigured \/ apServers > 0,
           t = Server => label \notin {"reconfigure"} /\ pc[t] \notin {"renew", "renewed"},
           UNCHANGED <<reconfiguration_request, apServers>>
    PROVE  Supply'
<1>1. /\ pc' \in [Tasks -> Labels] /\ pc'[t] = label
      /\ \A u \in Tasks \ {t} : pc'[u] = pc[u]
    BY MovedTask DEF IInv
<1>2. \A u \in Tasks : Pending(u)' <=> Pending(u)
    BY <1>1 DEF Pending
<1>3. (InStock' <=> InStock) /\ (TwoInStock' <=> TwoInStock)
    BY <1>2 DEF InStock, TwoInStock
<1>4. /\ pc'[Server] = "reconfigure" => pc[Server] = "reconfigure"
      /\ pc[Server] \in {"renew", "renewed"} => pc'[Server] = pc[Server]
    BY <1>1, TaskFacts
<1>5. ~Starting' /\ reconfiguration_request = 0 => InStock
    BY ModeValues DEF IInv, Supply, InStock
<1> QED
    BY <1>3, <1>4, <1>5 DEF IInv, Supply

\* A step between two labels of the same phase that touches no shared state
\* the invariant speaks of.
LEMMA PhaseStep ==
    ASSUME IInv, NEW t \in Tasks, NEW label \in Labels,
           pc' = [pc EXCEPT ![t] = label], SamePhase(t, label),
           UNCHANGED <<modeVars, ap, serverVars, back, handler>>
    PROVE  Modes' /\ GraceHeld /\ StartUp' /\ Supply' /\ Kept
<1>1. /\ pc'[t] = label
      /\ \A u \in Tasks \ {t} : pc'[u] = pc[u]
    BY MovedTask DEF IInv
<1>2. UNCHANGED <<modeVars, ap, serverVars, back, handler>>
    OBVIOUS
<1>3. SamePhase(t, label)
    OBVIOUS
<1>4. Modes'
    BY <1>1, <1>2, <1>3, TaskFacts, ModeValues
    DEF IInv, Modes, Starting, SamePhase, Switching, modeVars, serverVars
<1>5. GraceHeld
    BY <1>2 DEF GraceHeld, GraceConfigured, modeVars
<1>6. StartUp'
    BY <1>1, <1>2, <1>3, TaskFacts
    DEF IInv, StartUp, Starting, Quiet, Switching, SamePhase, serverVars
<1>7. Kept
    BY <1>1, <1>2, <1>3, TaskFacts
    DEF IInv, Kept, Served, Starting, Bringing, SamePhase, Switching, modeVars, serverVars
<1>8. Supply'
    <2>1. Starting' <=> Starting
        BY <1>1, <1>2, <1>3, TaskFacts DEF Starting, SamePhase
    <2>2. ~Pending(t) /\ label \notin {"softap", "ap_server"}
        BY <1>3 DEF SamePhase, Pending, Switching
    <2>3. t = Server => label # "reconfigure" /\ pc[t] \notin {"renew", "renewed"}
        BY <1>3, TaskFacts DEF SamePhase
    <2> QED
        BY <1>2, <2>1, <2>2, <2>3, SupplyStep DEF modeVars, serverVars
<1> QED
    BY <1>4, <1>5, <1>6, <1>7, <1>8

\* A step that moves no task, and touches at most the handler's progress.
LEMMA StillStep ==
    ASSUME IInv, UNCHANGED <<modeVars, ap, serverVars, pc, back, tries>>,
           handler' \in {handler, "idle"} \/ handler # "idle"
    PROVE  Counting' /\ Modes' /\ GraceHeld /\ StartUp' /\ Supply' /\ Kept
<1>1. Counting'
    BY DEF IInv, Counting
<1>2. Modes'
    BY DEF IInv, Modes, Starting, modeVars, serverVars
<1>3. GraceHeld
    BY DEF GraceHeld, GraceConfigured, modeVars
<1>4. StartUp'
    BY DEF IInv, StartUp, Starting, Quiet, Switching, serverVars
<1>5. Kept
    BY DEF IInv, Kept, Served, Starting, Bringing, modeVars, serverVars
<1>6. Supply'
    BY DEF IInv, Supply, InStock, TwoInStock, Pending, Starting, modeVars, serverVars
<1> QED
    BY <1>1, <1>2, <1>3, <1>4, <1>5, <1>6

LEMMA InitInv == Init => IInv
<1> SUFFICES ASSUME Init PROVE IInv
    OBVIOUS
<1>1. boot \in Seq(Networks)
    <2>1. boot \in BootLists
        BY DEF Init
    <2> QED
        BY <2>1, BootAssumption
<1>2. pc = [t \in Tasks |-> IF t = Server THEN "boot" ELSE "none"]
    BY DEF Init
<1>3. pc \in [Tasks -> Labels] /\ pc[Server] = "boot" /\ \A c \in Connectors : pc[c] = "none"
    <2>1. \A t \in Tasks : pc[t] = IF t = Server THEN "boot" ELSE "none"
        BY <1>2
    <2>2. pc \in [Tasks -> Labels]
        BY <1>2 DEF Labels
    <2> QED
        BY <2>1, <2>2, TaskFacts
<1>4. tries \in [Tasks -> 0..MaxTries]
    BY NumbersAssumption DEF Init
<1>5. back \in [Tasks -> {"none", "check", "body", "main"}] /\ params \in [Tasks -> MaybeNetwork]
    BY DEF Init, MaybeNetwork
<1>6. /\ apServers = 0 /\ staServer = FALSE /\ reconfiguration_request = 0
      /\ shutdown = 0 /\ left = 0
      /\ ap = FALSE /\ handler = "idle"
    BY DEF Init
<1>7. /\ device_configured \in BOOLEAN /\ handle \in Connectors \cup {NoTask}
      /\ force \in BOOLEAN /\ irq \in BOOLEAN /\ halted \in BOOLEAN
      /\ creds \in MaybeNetwork /\ link \in MaybeNetwork /\ form \in MaybeNetwork
    BY DEF Init, MaybeNetwork
<1>8. TypeOK
    <2>1. ap \in BOOLEAN /\ staServer \in BOOLEAN
        BY <1>6
    <2>2. apServers \in 0..MaxServers /\ shutdown \in 0..Turns-1 /\ left \in 0..Turns-1
        BY <1>6, NumbersAssumption
    <2>3. reconfiguration_request \in {0, Requested, Reconfigured}
        BY <1>6
    <2>4. handler \in {"idle", "clear", "fill", "start"}
        BY <1>6
    <2> QED
        BY <2>1, <2>2, <2>3, <2>4, <1>1, <1>3, <1>4, <1>5, <1>7, Zenon DEF TypeOK
<1>9. Counting
    BY <1>3, TaskFacts DEF Counting, Tasks
<1>10. Modes
    BY <1>3, <1>6, ModeValues DEF Modes, Starting
<1>11. Supply
    BY <1>3, <1>6, ModeValues DEF Supply, Starting
<1>12. StartUp
    BY <1>3, <1>6 DEF StartUp, Quiet, Switching, Starting
<1> QED
    BY <1>8, <1>9, <1>10, <1>11, <1>12 DEF IInv

(***************************************************************************)
(* handle_runtime_force_provisioning and what it calls.                    *)
(***************************************************************************)
LEMMA ButtonInv ==
    ASSUME NEW t \in Tasks
    PROVE  IInv /\ ButtonStep(t) => IInv' /\ Kept /\ GraceHeld
<1> SUFFICES ASSUME IInv PROVE ButtonStep(t) => IInv' /\ Kept /\ GraceHeld
    OBVIOUS
<1> USE DEF IInv, modeVars, radioVars, serverVars, handlerVars
<1>1. CASE PollRead(t)
    <2>1. PICK label \in {"quiet", "pressed"} :
              /\ pc[t] \in {"poll", "main"}
              /\ pc' = [pc EXCEPT ![t] = label]
              /\ back' = [back EXCEPT ![t] = AfterPoll(t)]
        BY <1>1 DEF PollRead, Call, Goto
    <2>2. UNCHANGED <<modeVars, radioVars, serverVars, params, tries, boot, handlerVars,
                      handle, force, irq, creds, halted>>
        BY <1>1 DEF PollRead
    <2>3. AfterPoll(t) \in {"check", "body"} /\ (AfterPoll(t) = "check" <=> pc[t] = "poll")
        BY DEF AfterPoll
    <2>4. /\ pc' \in [Tasks -> Labels] /\ pc'[t] = label /\ label \in Labels
          /\ \A u \in Tasks \ {t} : pc'[u] = pc[u]
        BY <2>1, MovedTask DEF Labels
    <2>5. /\ back' \in [Tasks -> {"none", "check", "body", "main"}]
          /\ back'[t] = AfterPoll(t) /\ \A u \in Tasks \ {t} : back'[u] = back[u]
        BY <2>1, <2>3 DEF TypeOK
    <2>6. TypeOK'
        BY <2>2, <2>4, <2>5 DEF TypeOK
    <2>7. Counting'
        BY <2>2, <2>4 DEF Counting
    <2>8. Starting' <=> Starting
        BY <2>1, <2>3, <2>4, <2>5, TaskFacts DEF Starting
    <2>9. Modes'
        BY <2>1, <2>2, <2>3, <2>4, <2>5, <2>8, TaskFacts DEF Modes
    <2>10. GraceHeld
        BY <2>2 DEF GraceHeld, GraceConfigured
    <2>11. StartUp'
        BY <2>1, <2>2, <2>4, <2>8, TaskFacts DEF StartUp, Quiet, Switching
    <2>12. Supply'
        BY <2>1, <2>2, <2>4, <2>8, SupplyStep DEF Pending
    <2>13. Kept
        BY <2>1, <2>2, <2>4, <2>8 DEF Kept, Served, Bringing
    <2> QED
        BY <2>6, <2>7, <2>9, <2>10, <2>11, <2>12, <2>13
<1>8. CASE PollQuiet(t)
    <2>1. /\ pc[t] \in {"quiet", "pressed"}
          /\ pc' = [pc EXCEPT ![t] = back[t]]
          /\ back' = [back EXCEPT ![t] = "none"]
        BY <1>8 DEF PollQuiet, Return, Goto
    <2>2. UNCHANGED <<modeVars, radioVars, serverVars, params, tries, boot, handlerVars,
                      handle, force, creds, halted>> /\ irq' = FALSE
        BY <1>8 DEF PollQuiet
    <2>3. back[t] \in {"none", "check", "body", "main"}
        BY DEF TypeOK
    <2>4. /\ pc' \in [Tasks -> Labels] /\ pc'[t] = back[t] /\ back[t] \in Labels
          /\ \A u \in Tasks \ {t} : pc'[u] = pc[u]
        BY <2>1, <2>3, MovedTask DEF Labels
    <2>5. /\ back' \in [Tasks -> {"none", "check", "body", "main"}]
          /\ \A u \in Tasks \ {t} : back'[u] = back[u]
        BY <2>1 DEF TypeOK
    <2>6. TypeOK'
        BY <2>2, <2>4, <2>5 DEF TypeOK
    <2>7. Counting'
        BY <2>2, <2>3, <2>4 DEF Counting
    <2>8. Starting' <=> Starting
        <3>1. CASE t = Server
            BY <2>1, <2>3, <2>4, <3>1 DEF Modes, Starting
        <3>2. CASE t # Server
            BY <2>4, <2>5, <3>2, TaskFacts DEF Starting
        <3> QED
            BY <3>1, <3>2
    <2>9. Modes'
        BY <2>1, <2>2, <2>3, <2>4, <2>5, <2>8, TaskFacts DEF Modes
    <2>10. GraceHeld
        BY <2>2 DEF GraceHeld, GraceConfigured
    <2>11. StartUp'
        BY <2>1, <2>2, <2>3, <2>4, <2>8, TaskFacts DEF StartUp, Quiet, Switching
    <2>12. Supply'
        BY <2>1, <2>2, <2>3, <2>4, <2>8, SupplyStep DEF Pending
    <2>13. Kept
        BY <2>1, <2>2, <2>3, <2>4, <2>8 DEF Kept, Served, Bringing
    <2> QED
        BY <2>6, <2>7, <2>9, <2>10, <2>11, <2>12, <2>13
<1>2. CASE PollPressed(t)
    <2>1. pc[t] = "pressed" /\ ~ap /\ pc' = [pc EXCEPT ![t] = "switch"]
        BY <1>2 DEF PollPressed, Goto
    <2>2. UNCHANGED <<modeVars, radioVars, serverVars, back, params, tries, boot, handlerVars,
                      handle, creds, halted>> /\ irq' = FALSE /\ force' = TRUE
        BY <1>2 DEF PollPressed
    <2>3. /\ pc' \in [Tasks -> Labels] /\ pc'[t] = "switch" /\ "switch" \in Labels
          /\ \A u \in Tasks \ {t} : pc'[u] = pc[u]
        BY <2>1, MovedTask DEF Labels
    <2>4. TypeOK'
        BY <2>2, <2>3 DEF TypeOK
    <2>5. Counting'
        BY <2>2, <2>3 DEF Counting
    <2>6. t \in Connectors => ~Starting
        BY <2>1, TaskFacts DEF StartUp, Quiet
    <2>7. Starting' <=> Starting
        BY <2>1, <2>2, <2>3, TaskFacts DEF Starting
    <2>8. Modes'
        BY <2>1, <2>2, <2>3, <2>7, TaskFacts, ModeValues DEF Modes
    <2>9. GraceHeld
        BY <2>2 DEF GraceHeld, GraceConfigured
    <2>10. StartUp'
        BY <2>1, <2>2, <2>3, <2>6, <2>7, TaskFacts DEF StartUp, Quiet, Switching
    <2>11. Supply'
        BY <2>1, <2>2, <2>3, <2>7, SupplyStep DEF Pending
    <2>12. Kept
        BY <2>1, <2>2, <2>3, <2>7, TaskFacts DEF Kept, Served, Bringing
    <2> QED
        BY <2>4, <2>5, <2>8, <2>9, <2>10, <2>11, <2>12
<1>3. CASE SwitchDone(t)
    <2>1. /\ pc[t] = "switch" /\ ap
          /\ pc' = [pc EXCEPT ![t] = back[t]]
          /\ back' = [back EXCEPT ![t] = "none"]
        BY <1>3 DEF SwitchDone, Return, Goto
    <2>2. UNCHANGED <<modeVars, radioVars, serverVars, params, tries, boot, handlerVars,
                      handle, force, irq, creds, halted>>
        BY <1>3 DEF SwitchDone
    <2>3. back[t] \in {"none", "check", "body", "main"}
        BY DEF TypeOK
    <2>4. /\ pc' \in [Tasks -> Labels] /\ pc'[t] = back[t]
          /\ \A u \in Tasks \ {t} : pc'[u] = pc[u]
        BY <2>1, <2>3, MovedTask DEF Labels
    <2>5. /\ back' \in [Tasks -> {"none", "check", "body", "main"}]
          /\ back'[t] = "none" /\ \A u \in Tasks \ {t} : back'[u] = back[u]
        BY <2>1 DEF TypeOK
    <2>6. TypeOK'
        BY <2>2, <2>4, <2>5 DEF TypeOK
    <2>7. Counting'
        BY <2>2, <2>3, <2>4 DEF Counting
    <2>8. ~Starting
        BY <2>1, TaskFacts DEF StartUp, Switching, Tasks
    <2>9. ~Starting'
        BY <2>1, <2>3, <2>4, <2>5, <2>8, TaskFacts DEF Starting
    <2>10. Modes'
        BY <2>1, <2>2, <2>3, <2>4, <2>8, <2>9, TaskFacts, ModeValues DEF Modes
    <2>11. GraceHeld
        BY <2>2 DEF GraceHeld, GraceConfigured
    <2>12. StartUp'
        BY <2>9 DEF StartUp
    <2>13. Kept
        BY <2>1, <2>2, <2>3, <2>4, <2>8, <2>9, TaskFacts DEF Kept, Served, Bringing
    <2>14. Supply'
        <3>1. back[t] \in Labels /\ back[t] \notin {"softap", "ap_server", "reconfigure"}
            BY <2>3 DEF Labels
        <3> QED
            BY <2>1, <2>2, <2>8, <3>1, SupplyStep DEF Pending
    <2> QED
        BY <2>6, <2>7, <2>10, <2>11, <2>12, <2>13, <2>14
<1>7. CASE StopStation(t)
    <2>1. /\ pc[t] = "switch"
          /\ pc' = [pc EXCEPT ![t] = "reset"]
        BY <1>7 DEF StopStation, Goto
    <2>2. /\ link' = NoNetwork /\ ap' = FALSE
          /\ UNCHANGED <<device_configured, reconfiguration_request, shutdown, left, handle, force,
                         irq, creds, apServers, back, params, tries, boot, handler, form, halted>>
        BY <1>7 DEF StopStation
    <2>3. /\ staServer' \in BOOLEAN /\ (~staServer => ~staServer')
          /\ reconfiguration_request # Reconfigured => staServer' = staServer
        BY <1>7 DEF StopStation, TypeOK
    <2>4. /\ pc' \in [Tasks -> Labels] /\ pc'[t] = "reset"
          /\ \A u \in Tasks \ {t} : pc'[u] = pc[u]
        BY <2>1, MovedTask DEF Labels
    <2>5. TypeOK'
        <3>1. ap' \in BOOLEAN /\ link' \in MaybeNetwork
            BY <2>2 DEF MaybeNetwork
        <3>2. TypeOK
            OBVIOUS
        <3> QED
            BY <2>2, <2>3, <2>4, <3>1, <3>2, Zenon DEF TypeOK
    <2>6. Counting'
        BY <2>2, <2>4 DEF Counting
    <2>7. t \in Connectors => ~Starting
        BY <2>1 DEF StartUp, Switching
    <2>8. Starting' <=> Starting
        BY <2>1, <2>2, <2>4, TaskFacts DEF Starting
    <2>9. Modes'
        BY <2>1, <2>2, <2>3, <2>4, <2>8, TaskFacts DEF Modes
    <2>10. GraceHeld
        BY <2>2 DEF GraceHeld, GraceConfigured
    <2>11. StartUp'
        BY <2>1, <2>2, <2>4, <2>7, <2>8, TaskFacts DEF StartUp, Quiet, Switching, Tasks
    <2>12. Kept
        BY <2>4 DEF Kept, Served, Bringing
    <2>13. Supply'
        <3>1. "reset" \in Labels
            BY DEF Labels
        <3> QED
            BY <2>1, <2>2, <2>8, <3>1, SupplyStep DEF Pending
    <2> QED
        BY <2>5, <2>6, <2>9, <2>10, <2>11, <2>12, <2>13
<1>4. CASE Reset(t)
    <2>1. /\ pc[t] = "reset"
          /\ pc' = [pc EXCEPT ![t] = "softap"]
        BY <1>4 DEF Reset, Goto
    <2>2. /\ device_configured' = FALSE /\ reconfiguration_request' = 0 /\ shutdown' = 0
          /\ handle' = NoTask /\ link' = NoNetwork /\ ap' = FALSE
          /\ UNCHANGED <<left, force, irq, creds, serverVars, back, params, tries, boot,
                         handlerVars, halted>>
        BY <1>4 DEF Reset, ResetState
    <2>4. /\ pc' \in [Tasks -> Labels] /\ pc'[t] = "softap"
          /\ \A u \in Tasks \ {t} : pc'[u] = pc[u]
        BY <2>1, MovedTask DEF Labels
    <2>5. TypeOK'
        <3>1. /\ device_configured' \in BOOLEAN /\ ap' \in BOOLEAN
              /\ link' \in MaybeNetwork /\ handle' \in Connectors \cup {NoTask}
            BY <2>2 DEF MaybeNetwork
        <3>2. reconfiguration_request' \in {0, Requested, Reconfigured} /\ shutdown' \in 0..Turns-1
            BY <2>2, NumbersAssumption
        <3>3. /\ left' \in 0..Turns-1 /\ force' \in BOOLEAN /\ irq' \in BOOLEAN /\ creds' \in MaybeNetwork
              /\ apServers' \in 0..MaxServers /\ staServer' \in BOOLEAN /\ halted' \in BOOLEAN
            BY <2>2 DEF TypeOK
        <3>4. /\ back' \in [Tasks -> {"none", "check", "body", "main"}]
              /\ params' \in [Tasks -> MaybeNetwork] /\ tries' \in [Tasks -> 0..MaxTries]
              /\ boot' \in Seq(Networks)
              /\ handler' \in {"idle", "clear", "fill", "start"} /\ form' \in MaybeNetwork
            BY <2>2 DEF TypeOK
        <3> QED
            BY <3>1, <3>2, <3>3, <3>4, <2>4, Zenon DEF TypeOK
    <2>6. Counting'
        BY <2>2, <2>4 DEF Counting
    <2>7. t \in Connectors => ~Starting
        BY <2>1 DEF StartUp, Switching
    <2>8. Starting' <=> Starting
        BY <2>1, <2>2, <2>4, TaskFacts DEF Starting
    <2>9. pc'[Server] # "sta_server"
        <3>1. CASE t = Server
            BY <2>4, <3>1
        <3>2. CASE t # Server
            BY <2>4, <2>7, <3>2, TaskFacts DEF Starting, Tasks
        <3> QED
            BY <3>1, <3>2
    <2>10. pc[Server] # "sta_server"
        BY <2>1, <2>7, TaskFacts DEF Starting, Tasks
    <2>11. Modes'
        <3>1. pc'[Server] = "renewed" => staServer'
            BY <2>2, <2>4, TaskFacts DEF Modes
        <3>2. pc'[Server] \in {"quiet", "pressed"} => back'[Server] # "main"
            BY <2>2, <2>4, TaskFacts DEF Modes
        <3> QED
            BY <2>2, <2>8, <2>9, <3>1, <3>2, ModeValues DEF Modes
    <2>12. GraceHeld
        BY <2>2 DEF GraceHeld, GraceConfigured
    <2>13. StartUp'
        BY <2>1, <2>2, <2>4, <2>7, <2>8, TaskFacts DEF StartUp, Quiet, Switching, Tasks
    <2>14. Kept
        BY <2>4 DEF Kept, Served, Bringing
    <2>15. Supply'
        <3>1. ~Pending(t) /\ Pending(t)' /\ \A u \in Tasks \ {t} : Pending(u)' <=> Pending(u)
            BY <2>1, <2>4 DEF Pending
        <3>2. InStock'
            BY <3>1 DEF InStock
        <3>3. InStock => TwoInStock'
            <4>1. CASE apServers > 0
                BY <2>2, <3>1, <4>1 DEF TwoInStock
            <4>2. ASSUME NEW u \in Tasks, Pending(u) PROVE TwoInStock'
                BY <3>1, <4>2 DEF TwoInStock
            <4> QED
                BY <4>1, <4>2 DEF InStock
        <3>4. pc'[Server] = "reconfigure" => pc[Server] = "reconfigure"
            BY <2>4, TaskFacts
        <3>5. pc[Server] = "reconfigure" => InStock
            <4>1. TwoInStock => InStock
                BY DEF TwoInStock, InStock, TypeOK
            <4> QED
                BY <4>1 DEF TypeOK, Modes, Supply
        <3> QED
            BY <2>2, <3>2, <3>3, <3>4, <3>5, ModeValues DEF Supply
    <2> QED
        BY <2>5, <2>6, <2>11, <2>12, <2>13, <2>14, <2>15
<1>5. CASE StartSoftAp(t)
    <2>1. /\ pc[t] = "softap" /\ ap' = TRUE
          /\ pc' = [pc EXCEPT ![t] = "ap_server"]
        BY <1>5 DEF StartSoftAp, Goto
    <2>2. UNCHANGED <<modeVars, link, serverVars, back, params, tries, boot, handlerVars,
                      handle, force, irq, creds, halted>>
        BY <1>5 DEF StartSoftAp
    <2>3. /\ pc' \in [Tasks -> Labels] /\ pc'[t] = "ap_server"
          /\ \A u \in Tasks \ {t} : pc'[u] = pc[u]
        BY <2>1, MovedTask DEF Labels
    <2>4. TypeOK'
        BY <2>1, <2>2, <2>3 DEF TypeOK
    <2>5. Counting'
        BY <2>2, <2>3 DEF Counting
    <2>6. t \in Connectors => ~Starting
        BY <2>1 DEF StartUp, Switching
    <2>7. Starting' <=> Starting
        BY <2>1, <2>2, <2>3, TaskFacts DEF Starting
    <2>8. Modes'
        BY <2>1, <2>2, <2>3, <2>7, TaskFacts, ModeValues DEF Modes
    <2>9. GraceHeld
        BY <2>2 DEF GraceHeld, GraceConfigured
    <2>10. StartUp'
        BY <2>1, <2>2, <2>3, <2>6, <2>7, TaskFacts DEF StartUp, Quiet, Switching, Tasks
    <2>11. Kept
        BY <2>3 DEF Kept, Served, Bringing
    <2>12. Supply'
        <3>1. "ap_server" \in Labels
            BY DEF Labels
        <3> QED
            BY <2>1, <2>2, <2>7, <3>1, SupplyStep DEF Pending
    <2> QED
        BY <2>4, <2>5, <2>8, <2>9, <2>10, <2>11, <2>12
<1>9. CASE SoftApFails(t)
    <2>1. UNCHANGED <<modeVars, radioVars, serverVars, taskVars, handlerVars, handle, force, irq,
                      creds>> /\ halted' = TRUE
        BY <1>9 DEF SoftApFails
    <2>2. TypeOK'
        BY <2>1 DEF TypeOK, taskVars
    <2> QED
        BY <2>1, <2>2, StillStep DEF taskVars
<1>6. CASE StartApServer(t)
    <2>1. CASE ap /\ AddressKnown /\ apServers < MaxServers
        <3>1. /\ pc[t] = "ap_server" /\ ap
              /\ pc' = [pc EXCEPT ![t] = back[t]]
              /\ back' = [back EXCEPT ![t] = "none"]
              /\ apServers' = apServers + 1
            BY <1>6, <2>1 DEF StartApServer, Return, Goto
        <3>2. UNCHANGED <<modeVars, radioVars, staServer, params, tries, boot, handlerVars,
                          handle, force, irq, creds, halted>>
            BY <1>6, <2>1 DEF StartApServer
        <3>3. back[t] \in {"none", "check", "body", "main"}
            BY DEF TypeOK
        <3>4. /\ pc' \in [Tasks -> Labels] /\ pc'[t] = back[t]
              /\ \A u \in Tasks \ {t} : pc'[u] = pc[u]
            BY <3>1, <3>3, MovedTask DEF Labels
        <3>5. /\ back' \in [Tasks -> {"none", "check", "body", "main"}]
              /\ back'[t] = "none" /\ \A u \in Tasks \ {t} : back'[u] = back[u]
            BY <3>1 DEF TypeOK
        <3>6. apServers' \in 0..MaxServers /\ apServers' > 0
            BY <3>1, <2>1, NumbersAssumption DEF TypeOK
        <3>7. TypeOK'
            BY <3>2, <3>4, <3>5, <3>6 DEF TypeOK
        <3>8. Counting'
            BY <3>2, <3>3, <3>4 DEF Counting
        <3>9. t \in Connectors => ~Starting
            BY <3>1 DEF StartUp, Switching
        <3>10. Starting' => Starting /\ (t = Server => pc'[Server] = "check")
            BY <3>1, <3>3, <3>4, <3>5, TaskFacts DEF Starting
        <3>11. Modes'
            BY <3>1, <3>2, <3>3, <3>4, <3>10, TaskFacts, ModeValues DEF Modes
        <3>12. GraceHeld
            BY <3>2 DEF GraceHeld, GraceConfigured
        <3>13. StartUp'
            BY <3>1, <3>2, <3>4, <3>6, <3>9, <3>10, TaskFacts DEF StartUp, Quiet, Switching, Tasks
        <3>14. Kept
            BY <3>1, <3>2, <3>6 DEF Kept, Served
        <3>15. Supply'
            <4>1. apServers' > 0 /\ \A u \in Tasks \ {t} : Pending(u)' <=> Pending(u)
                BY <3>4, <3>6 DEF Pending
            <4>2. TwoInStock => TwoInStock'
                <5>1. CASE apServers > 0
                    BY <3>1, <5>1 DEF TwoInStock, TypeOK
                <5>2. ASSUME NEW u \in Tasks, NEW v \in Tasks, u # v, Pending(u), Pending(v)
                      PROVE  TwoInStock'
                    <6>1. \E w \in Tasks \ {t} : Pending(w)
                        BY <5>2
                    <6> QED
                        BY <4>1, <6>1 DEF TwoInStock
                <5> QED
                    BY <5>1, <5>2 DEF TwoInStock, TypeOK
            <4>3. pc'[Server] = "reconfigure" => pc[Server] = "reconfigure"
                BY <3>3, <3>4, TaskFacts
            <4> QED
                BY <3>2, <4>1, <4>2, <4>3 DEF Supply, InStock
        <3> QED
            BY <3>7, <3>8, <3>11, <3>12, <3>13, <3>14, <3>15
    <2>2. CASE ~(ap /\ AddressKnown /\ apServers < MaxServers)
        <3>1. UNCHANGED <<modeVars, radioVars, serverVars, pc, back, params, tries, boot,
                          handlerVars, handle, force, irq, creds>> /\ halted' = TRUE
            BY <1>6, <2>2 DEF StartApServer
        <3>2. TypeOK'
            BY <3>1 DEF TypeOK
        <3> QED
            BY <3>1, <3>2, StillStep
    <2> QED
        BY <2>1, <2>2
<1> QED
    BY <1>1, <1>2, <1>3, <1>4, <1>5, <1>6, <1>7, <1>8, <1>9 DEF ButtonStep

(***************************************************************************)
(* start_sta_mode.                                                         *)
(***************************************************************************)

\* All its steps stay in one phase; what is left to show of each is the types
\* and the count of the attempts.
LEMMA StaMove ==
    ASSUME IInv, NEW t \in Tasks,
           NEW label \in {"poll", "check", "connect", "joined", "boot", "failed"},
           pc[t] \in {"sta", "poll", "check", "connect"},
           label = "boot" => t = Server, label = "failed" => t # Server,
           pc' = [pc EXCEPT ![t] = label],
           UNCHANGED <<modeVars, handle, irq, creds, ap, serverVars, back, boot, handlerVars, halted>>,
           force' \in BOOLEAN, link' \in MaybeNetwork, params' \in [Tasks -> MaybeNetwork],
           tries' \in [Tasks -> 0..MaxTries], Counting'
    PROVE  IInv' /\ Kept /\ GraceHeld
<1>1. label \in Labels
    BY DEF Labels
<1>2. pc' \in [Tasks -> Labels]
    BY <1>1, MovedTask DEF IInv
<1>3. SamePhase(t, label)
    BY TaskFacts DEF SamePhase, Switching, Tasks
<1>4. UNCHANGED <<modeVars, ap, serverVars, back, handler>>
    BY DEF handlerVars
<1>5. Modes' /\ GraceHeld /\ StartUp' /\ Supply' /\ Kept
    BY <1>1, <1>3, <1>4, PhaseStep
<1>6. TypeOK'
    <2>1. UNCHANGED <<device_configured, reconfiguration_request, shutdown, left, handle, irq, creds,
                      ap, apServers, staServer, back, boot, handler, form, halted>>
        BY DEF modeVars, serverVars, handlerVars
    <2>2. TypeOK
        BY DEF IInv
    <2> QED
        BY <1>2, <2>1, <2>2, Zenon DEF TypeOK
<1> QED
    BY <1>5, <1>6 DEF IInv

LEMMA StaInv ==
    ASSUME NEW t \in Tasks
    PROVE  IInv /\ StaStep(t) => IInv' /\ Kept /\ GraceHeld
<1> SUFFICES ASSUME IInv PROVE StaStep(t) => IInv' /\ Kept /\ GraceHeld
    OBVIOUS
<1>0. /\ force \in BOOLEAN /\ link \in MaybeNetwork /\ creds \in MaybeNetwork
      /\ params \in [Tasks -> MaybeNetwork] /\ tries \in [Tasks -> 0..MaxTries]
      /\ pc \in [Tasks -> Labels] /\ Counting
    BY DEF IInv, TypeOK
<1>a. [params EXCEPT ![t] = NoNetwork] \in [Tasks -> MaybeNetwork]
    BY <1>0 DEF MaybeNetwork
<1>b. [tries EXCEPT ![t] = 0] \in [Tasks -> 0..MaxTries]
    BY <1>0, NumbersAssumption
<1>1. CASE EnterSta(t)
    <2>1. /\ pc[t] = "sta" /\ pc' = [pc EXCEPT ![t] = "poll"]
          /\ force' = FALSE /\ link' = NoNetwork
          /\ params' = [params EXCEPT ![t] = creds] /\ tries' = [tries EXCEPT ![t] = 0]
          /\ UNCHANGED <<modeVars, handle, irq, creds, ap, serverVars, back, boot, handlerVars, halted>>
        BY <1>1 DEF EnterSta, Goto
    <2>2. params' \in [Tasks -> MaybeNetwork] /\ link' \in MaybeNetwork
        BY <2>1, <1>0 DEF MaybeNetwork
    <2>3. Counting'
        BY <2>1, <1>0 DEF Counting
    <2> QED
        BY <2>1, <2>2, <2>3, <1>b, StaMove
<1>2. CASE Check(t)
    <2>1. /\ pc[t] = "check"
          /\ UNCHANGED <<modeVars, handle, force, irq, creds, ap, link, serverVars, back, boot,
                         handlerVars, halted>>
        BY <1>2 DEF Check, radioVars
    <2>2. CASE force \/ tries[t] = MaxTries
        <3>1. /\ pc' = [pc EXCEPT ![t] = IF t = Server THEN "boot" ELSE "failed"]
              /\ params' = [params EXCEPT ![t] = NoNetwork] /\ tries' = [tries EXCEPT ![t] = 0]
            BY <1>2, <2>2 DEF Check, Fail, LeaveSta, Goto
        <3>2. Counting'
            BY <3>1, <1>0 DEF Counting
        <3> QED
            BY <2>1, <3>1, <3>2, <1>0, <1>a, <1>b, StaMove
    <2>3. CASE ~(force \/ tries[t] = MaxTries)
        <3>1. pc' = [pc EXCEPT ![t] = "connect"] /\ UNCHANGED <<params, tries>>
            BY <1>2, <2>3 DEF Check, Goto
        <3>2. tries[t] < MaxTries
            BY <2>3, <1>0, NumbersAssumption
        <3>3. Counting'
            BY <3>1, <3>2, <1>0 DEF Counting
        <3> QED
            BY <2>1, <3>1, <3>3, <1>0, StaMove
    <2> QED
        BY <2>2, <2>3
<1>3. CASE ConnectSucceeds(t)
    <2>1. /\ pc[t] = "connect" /\ pc' = [pc EXCEPT ![t] = "joined"]
          /\ link' = params[t]
          /\ params' = [params EXCEPT ![t] = NoNetwork] /\ tries' = [tries EXCEPT ![t] = 0]
          /\ UNCHANGED <<modeVars, handle, force, irq, creds, ap, serverVars, back, boot,
                         handlerVars, halted>>
        BY <1>3 DEF ConnectSucceeds, LeaveSta, Goto
    <2>2. link' \in MaybeNetwork
        BY <2>1, <1>0
    <2>3. Counting'
        BY <2>1, <1>0 DEF Counting
    <2> QED
        BY <2>1, <2>2, <2>3, <1>0, <1>a, <1>b, StaMove
<1>4. CASE ConnectFails(t)
    <2>1. /\ pc[t] = "connect" /\ pc' = [pc EXCEPT ![t] = "poll"]
          /\ tries' = [tries EXCEPT ![t] = tries[t] + 1]
          /\ UNCHANGED <<modeVars, handle, force, irq, creds, ap, link, serverVars, back, params,
                         boot, handlerVars, halted>>
        BY <1>4 DEF ConnectFails, Goto, radioVars
    <2>2. tries[t] + 1 \in 0..MaxTries
        BY <2>1, <1>0, NumbersAssumption DEF Counting
    <2>3. tries' \in [Tasks -> 0..MaxTries]
        BY <2>1, <2>2, <1>0
    <2>4. Counting'
        BY <2>1, <1>0 DEF Counting
    <2> QED
        BY <2>1, <2>3, <2>4, <1>0, StaMove
<1>5. CASE ConnectRefused(t)
    <2>1. /\ pc[t] = "connect"
          /\ pc' = [pc EXCEPT ![t] = IF t = Server THEN "boot" ELSE "failed"]
          /\ params' = [params EXCEPT ![t] = NoNetwork] /\ tries' = [tries EXCEPT ![t] = 0]
          /\ UNCHANGED <<modeVars, handle, force, irq, creds, ap, link, serverVars, back, boot,
                         handlerVars, halted>>
        BY <1>5 DEF ConnectRefused, Fail, LeaveSta, Goto, radioVars
    <2>2. Counting'
        BY <2>1, <1>0 DEF Counting
    <2> QED
        BY <2>1, <2>2, <1>0, <1>a, <1>b, StaMove
<1> QED
    BY <1>1, <1>2, <1>3, <1>4, <1>5 DEF StaStep

(***************************************************************************)
(* server_task.                                                            *)
(***************************************************************************)
LEMMA ServerMoved ==
    ASSUME IInv, NEW label \in Labels, pc' = [pc EXCEPT ![Server] = label]
    PROVE  /\ pc' \in [Tasks -> Labels] /\ pc'[Server] = label
           /\ \A c \in Connectors : pc'[c] = pc[c]
           /\ (UNCHANGED tries /\ label # "connect") => Counting'
<1>1. /\ pc' \in [Tasks -> Labels] /\ pc'[Server] = label
      /\ \A u \in Tasks \ {Server} : pc'[u] = pc[u]
    BY MovedTask, TaskFacts DEF IInv
<1>2. \A c \in Connectors : pc'[c] = pc[c]
    BY <1>1, TaskFacts
<1>3. ASSUME UNCHANGED tries, label # "connect" PROVE Counting'
    BY <1>1, <1>3 DEF IInv, Counting
<1> QED
    BY <1>1, <1>2, <1>3

\* The steps at start-up.
LEMMA BootInv ==
    IInv /\ (TryKnown \/ BootJoined \/ StartStaServer \/ BootInSoftAp \/ BootFallsBack) => IInv' /\ Kept /\ GraceHeld
<1> SUFFICES ASSUME IInv
             PROVE  TryKnown \/ BootJoined \/ StartStaServer \/ BootInSoftAp \/ BootFallsBack => IInv' /\ Kept /\ GraceHeld
    OBVIOUS
<1> USE DEF IInv, modeVars, radioVars, serverVars, handlerVars
<1>1. CASE TryKnown
    <2>1. /\ pc[Server] = "boot" /\ boot # <<>>
          /\ creds' = Head(boot) /\ boot' = Tail(boot)
          /\ pc' = [pc EXCEPT ![Server] = "sta"]
          /\ UNCHANGED <<modeVars, radioVars, serverVars, back, params, tries, handlerVars,
                         handle, force, irq, halted>>
        BY <1>1 DEF TryKnown, Goto
    <2>2. /\ pc' \in [Tasks -> Labels] /\ Counting'
        BY <2>1, ServerMoved DEF Labels
    <2>3. creds' \in MaybeNetwork /\ boot' \in Seq(Networks)
        BY <2>1 DEF TypeOK, MaybeNetwork
    <2>4. TypeOK'
        BY <2>1, <2>2, <2>3 DEF TypeOK
    <2>5. SamePhase(Server, "sta") /\ "sta" \in Labels
        BY <2>1 DEF SamePhase, Labels
    <2>6. Modes' /\ GraceHeld /\ StartUp' /\ Supply' /\ Kept
        BY <2>1, <2>5, PhaseStep, TaskFacts
    <2> QED
        BY <2>2, <2>4, <2>6
<1>2. CASE BootJoined
    <2>1. /\ pc[Server] = "joined"
          /\ device_configured' = TRUE /\ reconfiguration_request' = Reconfigured
          /\ pc' = [pc EXCEPT ![Server] = "sta_server"]
          /\ UNCHANGED <<shutdown, left, radioVars, serverVars, back, params, tries, boot, handlerVars,
                         handle, force, irq, creds, halted>>
        BY <1>2 DEF BootJoined, Goto
    <2>2. /\ pc' \in [Tasks -> Labels] /\ pc'[Server] = "sta_server" /\ Counting'
          /\ \A c \in Connectors : pc'[c] = pc[c]
        BY <2>1, ServerMoved DEF Labels
    <2>3. TypeOK'
        BY <2>1, <2>2 DEF TypeOK
    <2>4. Starting /\ Starting'
        BY <2>1, <2>2 DEF Starting
    <2>5. ~staServer
        BY <2>1, <2>4, ModeValues DEF Modes
    <2>6. Modes'
        BY <2>1, <2>2, <2>5, ModeValues DEF Modes
    <2>7. GraceHeld
        BY <2>1 DEF GraceHeld, GraceConfigured
    <2>8. StartUp'
        BY <2>1, <2>2, <2>4 DEF StartUp, Quiet, Switching
    <2>9. Kept
        BY <2>4 DEF Kept, Served
    <2>10. Supply'
        BY <2>1, <2>2, ModeValues DEF Supply
    <2> QED
        BY <2>2, <2>3, <2>6, <2>7, <2>8, <2>9, <2>10
<1>3. CASE StartStaServer
    <2>1. CASE link # NoNetwork
        <3>1. /\ pc[Server] = "sta_server" /\ staServer' = TRUE
              /\ pc' = [pc EXCEPT ![Server] = "main"]
              /\ UNCHANGED <<modeVars, radioVars, apServers, back, params, tries, boot, handlerVars,
                             handle, force, irq, creds, halted>>
            BY <1>3, <2>1 DEF StartStaServer, Goto
        <3>2. /\ pc' \in [Tasks -> Labels] /\ pc'[Server] = "main" /\ Counting'
            BY <3>1, ServerMoved DEF Labels
        <3>3. TypeOK'
            BY <3>1, <3>2 DEF TypeOK
        <3>4. ~Starting'
            BY <3>2 DEF Starting
        <3>5. Modes'
            BY <3>1, <3>2, <3>4, ModeValues DEF Modes
        <3>6. GraceHeld
            BY <3>1 DEF GraceHeld, GraceConfigured
        <3>7. Kept
            BY <3>1, ModeValues DEF Kept, Served, Modes
        <3>8. Supply'
            BY <3>1, <3>2, ModeValues DEF Modes, Supply
        <3> QED
            BY <3>2, <3>3, <3>4, <3>5, <3>6, <3>7, <3>8 DEF StartUp
    <2>2. CASE link = NoNetwork
        <3>1. UNCHANGED <<modeVars, radioVars, serverVars, pc, back, params, tries, boot,
                          handlerVars, handle, force, irq, creds>> /\ halted' = TRUE
            BY <1>3, <2>2 DEF StartStaServer
        <3>2. TypeOK'
            BY <3>1 DEF TypeOK
        <3> QED
            BY <3>1, <3>2, StillStep
    <2> QED
        BY <2>1, <2>2
<1>4. CASE BootInSoftAp
    <2>1. /\ pc[Server] = "boot" /\ ap /\ force' = FALSE
          /\ pc' = [pc EXCEPT ![Server] = "main"]
          /\ UNCHANGED <<modeVars, radioVars, serverVars, back, params, tries, boot, handlerVars,
                         handle, irq, creds, halted>>
        BY <1>4 DEF BootInSoftAp, Goto
    <2>2. /\ pc' \in [Tasks -> Labels] /\ pc'[Server] = "main" /\ Counting'
        BY <2>1, ServerMoved DEF Labels
    <2>3. TypeOK'
        BY <2>1, <2>2 DEF TypeOK
    <2>4. ~Starting'
        BY <2>2 DEF Starting
    <2>5. Modes'
        BY <2>1, <2>2, <2>4 DEF Modes
    <2>6. GraceHeld
        BY <2>1 DEF GraceHeld, GraceConfigured
    <2>7. ap' /\ apServers' > 0
        BY <2>1 DEF StartUp, Starting, Switching
    <2>8. Kept
        BY <2>7 DEF Kept, Served
    <2>9. Supply'
        BY <2>2, <2>7 DEF Supply, InStock
    <2> QED
        BY <2>2, <2>3, <2>4, <2>5, <2>6, <2>8, <2>9 DEF StartUp
<1>5. CASE BootFallsBack
    <2>1. /\ pc[Server] = "boot" /\ ~ap
          /\ pc' = [pc EXCEPT ![Server] = "softap"]
          /\ back' = [back EXCEPT ![Server] = "main"]
          /\ device_configured' = FALSE /\ reconfiguration_request' = 0 /\ shutdown' = 0
          /\ handle' = NoTask /\ link' = NoNetwork /\ ap' = FALSE
          /\ UNCHANGED <<left, force, irq, creds, serverVars, params, tries, boot, handlerVars, halted>>
        BY <1>5 DEF BootFallsBack, ResetState, Call, Goto
    <2>2. /\ pc' \in [Tasks -> Labels] /\ pc'[Server] = "softap" /\ Counting'
          /\ \A c \in Connectors : pc'[c] = pc[c]
        BY <2>1, ServerMoved DEF Labels
    <2>3. back' \in [Tasks -> {"none", "check", "body", "main"}] /\ back'[Server] = "main"
        BY <2>1, TaskFacts DEF TypeOK
    <2>4. TypeOK'
        <3>1. /\ device_configured' \in BOOLEAN /\ ap' \in BOOLEAN
              /\ link' \in MaybeNetwork /\ handle' \in Connectors \cup {NoTask}
            BY <2>1 DEF MaybeNetwork
        <3>2. reconfiguration_request' \in {0, Requested, Reconfigured} /\ shutdown' \in 0..Turns-1
            BY <2>1, NumbersAssumption
        <3>3. /\ left' \in 0..Turns-1 /\ force' \in BOOLEAN /\ irq' \in BOOLEAN /\ creds' \in MaybeNetwork
              /\ apServers' \in 0..MaxServers /\ staServer' \in BOOLEAN /\ halted' \in BOOLEAN
            BY <2>1 DEF TypeOK
        <3>4. /\ params' \in [Tasks -> MaybeNetwork] /\ tries' \in [Tasks -> 0..MaxTries]
              /\ boot' \in Seq(Networks)
              /\ handler' \in {"idle", "clear", "fill", "start"} /\ form' \in MaybeNetwork
            BY <2>1 DEF TypeOK
        <3> QED
            BY <3>1, <3>2, <3>3, <3>4, <2>2, <2>3, Zenon DEF TypeOK
    <2>5. Starting /\ Starting'
        BY <2>1, <2>2, <2>3 DEF Starting
    <2>6. ~staServer
        BY <2>1, <2>5, ModeValues DEF Modes
    <2>7. Modes'
        BY <2>1, <2>2, <2>6, ModeValues DEF Modes
    <2>8. StartUp'
        BY <2>1, <2>2, <2>5 DEF StartUp, Quiet, Switching
    <2>9. GraceHeld /\ Kept
        BY <2>1, <2>5 DEF GraceHeld, GraceConfigured, Kept, Served
    <2>10. Supply'
        BY <2>1, <2>2, <2>5, ModeValues DEF Supply
    <2> QED
        BY <2>2, <2>4, <2>7, <2>8, <2>9, <2>10
<1> QED
    BY <1>1, <1>2, <1>3, <1>4, <1>5

\* The steps of the main loop that take the device to the station mode.
LEMMA BodyInv ==
    IInv /\ (StartReconfigure \/ StopApServer \/ RenewServer \/ EnterStation)
        => IInv' /\ Kept /\ GraceHeld
<1> SUFFICES ASSUME IInv
             PROVE  StartReconfigure \/ StopApServer \/ RenewServer \/ EnterStation
                        => IInv' /\ Kept /\ GraceHeld
    OBVIOUS
<1> USE DEF IInv, modeVars, radioVars, serverVars, handlerVars
<1>0. {"body", "reconfigure", "renew", "renewed"} \subseteq Labels
    BY DEF Labels
<1>1. CASE StartReconfigure
    <2>1. /\ pc[Server] = "body" /\ reconfiguration_request = Requested
          /\ pc' = [pc EXCEPT ![Server] = "reconfigure"]
          /\ UNCHANGED <<modeVars, radioVars, serverVars, back, params, tries, boot,
                         handlerVars, handle, force, irq, creds, halted>>
        BY <1>1 DEF StartReconfigure, Goto
    <2>2. /\ pc' \in [Tasks -> Labels] /\ pc'[Server] = "reconfigure" /\ Counting'
          /\ \A u \in Tasks \ {Server} : pc'[u] = pc[u]
        BY <2>1, <1>0, ServerMoved, TaskFacts DEF Tasks
    <2>3. TypeOK'
        BY <2>1, <2>2 DEF TypeOK
    <2>4. ~Starting'
        BY <2>2 DEF Starting
    <2>5. Modes'
        BY <2>1, <2>2, <2>4, ModeValues DEF Modes
    <2>6. GraceHeld /\ Kept
        BY <2>1, ModeValues DEF GraceHeld, GraceConfigured, Kept, Served
    <2>7. Supply'
        <3>1. InStock
            BY <2>1 DEF Supply
        <3>2. \A u \in Tasks : Pending(u)' <=> Pending(u)
            BY <2>1, <2>2 DEF Pending
        <3>3. InStock'
            BY <2>1, <3>1, <3>2 DEF InStock
        <3> QED
            BY <2>1, <3>3, ModeValues DEF Supply
    <2> QED
        BY <2>2, <2>3, <2>4, <2>5, <2>6, <2>7 DEF StartUp
<1>2. CASE StopApServer
    <2>1. CASE apServers > 0
        <3>1. /\ pc[Server] = "reconfigure" /\ apServers' = apServers - 1
              /\ pc' = [pc EXCEPT ![Server] = "renew"]
              /\ UNCHANGED <<modeVars, radioVars, staServer, back, params, tries, boot,
                             handlerVars, handle, force, irq, creds, halted>>
            BY <1>2, <2>1 DEF StopApServer, Goto
        <3>2. /\ pc' \in [Tasks -> Labels] /\ pc'[Server] = "renew" /\ Counting'
              /\ \A u \in Tasks \ {Server} : pc'[u] = pc[u]
            BY <3>1, <1>0, ServerMoved, TaskFacts DEF Tasks
        <3>3. apServers' \in 0..MaxServers
            BY <3>1, <2>1, NumbersAssumption DEF TypeOK
        <3>4. TypeOK'
            BY <3>1, <3>2, <3>3 DEF TypeOK
        <3>5. ~Starting /\ ~Starting'
            BY <3>1, <3>2 DEF Starting
        <3>6. Modes'
            BY <3>1, <3>2, <3>5 DEF Modes
        <3>7. \A u \in Tasks : Pending(u)' <=> Pending(u)
            BY <3>1, <3>2 DEF Pending
        <3>8. TwoInStock => InStock'
            <4>1. CASE apServers > 1
                BY <3>1, <4>1 DEF InStock, TypeOK
            <4>2. ASSUME NEW u \in Tasks, Pending(u) PROVE InStock'
                BY <3>7, <4>2 DEF InStock
            <4> QED
                BY <4>1, <4>2 DEF TwoInStock
        <3>9. Supply'
            BY <3>1, <3>2, <3>8, ModeValues DEF Supply
        <3>10. GraceHeld
            BY <3>1 DEF GraceHeld, GraceConfigured
        <3>11. Kept
            <4> SUFFICES ASSUME Served, reconfiguration_request = 0, ~Bringing'
                         PROVE  ap' /\ apServers' > 0
                BY <3>1 DEF Kept, Served
            <4>1. ~Bringing /\ \A u \in Tasks : ~Pending(u)
                BY <3>1, <3>2, <3>7 DEF Bringing, Pending
            <4>2. ap
                BY <4>1, <3>5 DEF Served
            <4>3. apServers > 1
                BY <4>1, <3>1 DEF Supply, TwoInStock
            <4> QED
                BY <4>2, <4>3, <3>1 DEF TypeOK
        <3> QED
            BY <3>2, <3>4, <3>5, <3>6, <3>9, <3>10, <3>11 DEF StartUp
    <2>2. CASE ~(apServers > 0)
        <3>1. UNCHANGED <<modeVars, radioVars, serverVars, pc, back, params, tries, boot,
                          handlerVars, handle, force, irq, creds>> /\ halted' = TRUE
            BY <1>2, <2>2 DEF StopApServer
        <3>2. TypeOK'
            BY <3>1 DEF TypeOK
        <3> QED
            BY <3>1, <3>2, StillStep
    <2> QED
        BY <2>1, <2>2
<1>3. CASE RenewServer
    <2>1. CASE link # NoNetwork /\ AddressKnown
        <3>1. /\ pc[Server] = "renew" /\ staServer' = TRUE
              /\ pc' = [pc EXCEPT ![Server] = "renewed"]
              /\ UNCHANGED <<modeVars, radioVars, apServers, back, params, tries, boot,
                             handlerVars, handle, force, irq, creds, halted>>
            BY <1>3, <2>1 DEF RenewServer, Goto
        <3>2. /\ pc' \in [Tasks -> Labels] /\ pc'[Server] = "renewed" /\ Counting'
              /\ \A u \in Tasks \ {Server} : pc'[u] = pc[u]
            BY <3>1, <1>0, ServerMoved, TaskFacts DEF Tasks
        <3>3. TypeOK'
            BY <3>1, <3>2 DEF TypeOK
        <3>4. ~Starting /\ ~Starting'
            BY <3>1, <3>2 DEF Starting
        <3>5. Modes'
            BY <3>1, <3>2, <3>4 DEF Modes
        <3>6. GraceHeld
            BY <3>1 DEF GraceHeld, GraceConfigured
        <3>7. Kept
            BY <3>1, <3>2, <3>4 DEF Kept, Served, Bringing
        <3>8. \A u \in Tasks : Pending(u)' <=> Pending(u)
            BY <3>1, <3>2 DEF Pending
        <3>9. Supply'
            BY <3>1, <3>2, <3>4, <3>8 DEF Supply, InStock
        <3> QED
            BY <3>2, <3>3, <3>4, <3>5, <3>6, <3>7, <3>9 DEF StartUp
    <2>2. CASE ~(link # NoNetwork /\ AddressKnown)
        <3>1. UNCHANGED <<modeVars, radioVars, serverVars, pc, back, params, tries, boot,
                          handlerVars, handle, force, irq, creds>> /\ halted' = TRUE
            BY <1>3, <2>2 DEF RenewServer
        <3>2. TypeOK'
            BY <3>1 DEF TypeOK
        <3> QED
            BY <3>1, <3>2, StillStep
    <2> QED
        BY <2>1, <2>2
<1>4. CASE EnterStation
    <2>1. /\ pc[Server] = "renewed" /\ reconfiguration_request' = Reconfigured
          /\ pc' = [pc EXCEPT ![Server] = "body"]
          /\ UNCHANGED <<device_configured, shutdown, left, radioVars, serverVars, back, params,
                         tries, boot, handlerVars, handle, force, irq, creds, halted>>
        BY <1>4 DEF EnterStation, Goto
    <2>2. /\ pc' \in [Tasks -> Labels] /\ pc'[Server] = "body" /\ Counting'
        BY <2>1, <1>0, ServerMoved
    <2>3. TypeOK'
        BY <2>1, <2>2 DEF TypeOK
    <2>4. ~Starting'
        BY <2>2 DEF Starting
    <2>5. Modes'
        BY <2>1, <2>2, <2>4 DEF Modes
    <2>6. GraceHeld /\ Kept
        BY <2>1, ModeValues DEF GraceHeld, GraceConfigured, Kept, Served
    <2>7. Supply'
        BY <2>1, ModeValues DEF Supply
    <2> QED
        BY <2>2, <2>3, <2>4, <2>5, <2>6, <2>7 DEF StartUp
<1> QED
    BY <1>1, <1>2, <1>3, <1>4

\* A step within the countdown that changes no mode.
LEMMA CountMove ==
    ASSUME IInv, NEW label \in {"main", "count", "less"},
           pc[Server] \in {"body", "count", "less"}, pc' = [pc EXCEPT ![Server] = label],
           shutdown' \in 0..Turns-1, left' \in 0..Turns-1,
           UNCHANGED <<device_configured, reconfiguration_request, handle, force, irq, creds,
                       radioVars, serverVars, back, params, tries, boot, handlerVars, halted>>
    PROVE  IInv' /\ Kept
<1> USE DEF radioVars, serverVars, handlerVars
<1>1. label \in Labels
    BY DEF Labels
<1>2. /\ pc' \in [Tasks -> Labels] /\ pc'[Server] = label /\ Counting'
      /\ \A u \in Tasks \ {Server} : pc'[u] = pc[u]
    BY <1>1, ServerMoved, TaskFacts DEF Tasks
<1>3. TypeOK'
    BY <1>2 DEF IInv, TypeOK
<1>4. ~Starting /\ ~Starting'
    BY <1>2 DEF Starting
<1>5. Modes'
    BY <1>2, <1>4 DEF IInv, Modes
<1>6. StartUp'
    BY <1>4 DEF StartUp
<1>7. Supply'
    BY <1>1, <1>4, SupplyStep, TaskFacts DEF Pending
<1>8. Kept
    BY <1>2, <1>4 DEF Kept, Served, Bringing
<1> QED
    BY <1>2, <1>3, <1>5, <1>6, <1>7, <1>8 DEF IInv

\* The countdown; its store alone may bring back one that was cleared.
LEMMA CountInv ==
    /\ IInv /\ (Turn \/ ReadCountdown \/ CountdownVoid \/ CountdownRuns \/ ShutDownAp)
        => IInv' /\ Kept /\ GraceHeld
    /\ IInv /\ CountDown => IInv' /\ Kept
<1> SUFFICES ASSUME IInv
             PROVE  /\ Turn \/ ReadCountdown \/ CountdownVoid \/ CountdownRuns \/ ShutDownAp
                            => IInv' /\ Kept /\ GraceHeld
                    /\ CountDown => IInv' /\ Kept
    OBVIOUS
<1>0. shutdown \in 0..Turns-1 /\ left \in 0..Turns-1 /\ 0 \in 0..Turns-1
    BY NumbersAssumption DEF IInv, TypeOK
<1>1. CASE Turn \/ ReadCountdown \/ CountdownVoid \/ CountdownRuns
    <2>1. PICK label \in {"main", "count", "less"} :
              pc[Server] \in {"body", "count", "less"} /\ pc' = [pc EXCEPT ![Server] = label]
        BY <1>1 DEF Turn, ReadCountdown, CountdownVoid, CountdownRuns, Goto
    <2>2. left' \in {0, left, shutdown}
        BY <1>1 DEF Turn, ReadCountdown, CountdownVoid, CountdownRuns, Loads, modeVars
    <2>3. UNCHANGED <<device_configured, reconfiguration_request, shutdown, handle, force, irq, creds,
                      radioVars, serverVars, back, params, tries, boot, handlerVars, halted>>
        BY <1>1 DEF Turn, ReadCountdown, CountdownVoid, CountdownRuns, modeVars
    <2>4. IInv' /\ Kept
        BY <1>0, <2>1, <2>2, <2>3, CountMove
    <2>5. GraceHeld
        BY <2>3 DEF GraceHeld, GraceConfigured
    <2> QED
        BY <2>4, <2>5
<1>2. ASSUME CountDown PROVE IInv' /\ Kept
    <2>1. PICK n \in Loads : shutdown' = Less(n)
        BY <1>2 DEF CountDown
    <2>2. n \in 0..Turns-1
        BY <1>0 DEF Loads
    <2>3. shutdown' \in 0..Turns-1
        BY <2>1, <2>2, NumbersAssumption DEF Less
    <2>4. /\ pc[Server] = "less" /\ pc' = [pc EXCEPT ![Server] = "main"] /\ left' = 0
          /\ UNCHANGED <<device_configured, reconfiguration_request, handle, force, irq, creds,
                         radioVars, serverVars, back, params, tries, boot, handlerVars, halted>>
        BY <1>2 DEF CountDown, Goto
    <2>5. IInv' /\ Kept
        BY <1>0, <2>3, <2>4, CountMove
    <2> QED
        BY <2>5
<1>3. CASE ShutDownAp
    <2> USE DEF IInv, radioVars, serverVars, handlerVars
    <2>1. /\ pc[Server] = "count" /\ reconfiguration_request = 0
          /\ shutdown' = 0 /\ left' = 0 /\ reconfiguration_request' = Requested
          /\ pc' = [pc EXCEPT ![Server] = "stop_ap"]
          /\ UNCHANGED <<device_configured, radioVars, serverVars, back, params, tries, boot,
                         handlerVars, handle, force, irq, creds, halted>>
        BY <1>3 DEF ShutDownAp, Goto
    <2>2. /\ pc' \in [Tasks -> Labels] /\ pc'[Server] = "stop_ap" /\ Counting'
          /\ \A u \in Tasks \ {Server} : pc'[u] = pc[u]
        BY <2>1, ServerMoved, TaskFacts DEF Tasks, Labels
    <2>3. TypeOK'
        <3>1. /\ shutdown' \in 0..Turns-1 /\ left' \in 0..Turns-1
              /\ reconfiguration_request' \in {0, Requested, Reconfigured}
            BY <1>0, <2>1
        <3>2. UNCHANGED <<device_configured, handle, force, irq, creds, ap, link, apServers,
                          staServer, back, params, tries, boot, handler, form, halted>>
            BY <2>1
        <3>3. TypeOK
            OBVIOUS
        <3> QED
            BY <2>2, <3>1, <3>2, <3>3, Zenon DEF TypeOK
    <2>4. ~Starting /\ ~Starting'
        BY <2>1, <2>2 DEF Starting
    <2>5. Modes'
        BY <2>1, <2>2, <2>4, ModeValues DEF Modes
    <2>6. GraceHeld /\ Kept
        BY <2>1, ModeValues DEF GraceHeld, GraceConfigured, Kept, Served
    <2>7. Supply'
        <3>1. InStock
            BY <2>1, <2>4 DEF Supply
        <3>2. \A u \in Tasks : Pending(u)' <=> Pending(u)
            BY <2>1, <2>2 DEF Pending
        <3>3. InStock'
            BY <2>1, <3>1, <3>2 DEF InStock
        <3> QED
            BY <2>1, <3>3, ModeValues DEF Supply
    <2> QED
        BY <2>2, <2>3, <2>4, <2>5, <2>6, <2>7 DEF StartUp
<1> QED
    BY <1>1, <1>2, <1>3

\* The one step that may take away what is served.
LEMMA StopSoftApInv == IInv /\ StopSoftAp => IInv' /\ GraceHeld
<1> SUFFICES ASSUME IInv, StopSoftAp PROVE IInv' /\ GraceHeld
    OBVIOUS
<1> USE DEF IInv, modeVars, radioVars, serverVars, handlerVars
<1>1. /\ pc[Server] = "stop_ap" /\ ap' = FALSE
      /\ pc' = [pc EXCEPT ![Server] = "main"]
      /\ UNCHANGED <<modeVars, link, serverVars, back, params, tries, boot, handlerVars,
                     handle, force, irq, creds, halted>>
    BY DEF StopSoftAp, Goto
<1>2. /\ pc' \in [Tasks -> Labels] /\ pc'[Server] = "main" /\ Counting'
      /\ \A c \in Connectors : pc'[c] = pc[c]
    <2>1. "main" \in Labels
        BY DEF Labels
    <2> QED
        BY <1>1, <2>1, ServerMoved
<1>3. TypeOK'
    <2>1. ap' \in BOOLEAN
        BY <1>1
    <2>2. UNCHANGED <<modeVars, link, serverVars, back, params, tries, boot, handlerVars,
                      handle, force, irq, creds, halted>>
        BY <1>1
    <2> QED
        BY <1>2, <2>1, <2>2 DEF TypeOK
<1>4. ~Starting /\ ~Starting'
    BY <1>1, <1>2 DEF Starting
<1>5. Modes'
    BY <1>1, <1>2, <1>4, TaskFacts DEF Modes, Tasks
<1>6. GraceHeld
    BY <1>1 DEF GraceHeld, GraceConfigured
<1>7. Supply'
    <2>1. "main" \in Labels
        BY DEF Labels
    <2> QED
        BY <1>1, <1>4, <2>1, SupplyStep, TaskFacts DEF Pending
<1> QED
    BY <1>2, <1>3, <1>4, <1>5, <1>6, <1>7 DEF StartUp

(***************************************************************************)
(* wifi_connect_task, the thread of the HTTP server and the environment.   *)
(***************************************************************************)
LEMMA ConnectorInv ==
    ASSUME NEW c \in Connectors
    PROVE  /\ IInv /\ (ConnectorJoined(c) \/ ConnectorFailed(c)) => IInv' /\ Kept /\ GraceHeld
           /\ IInv /\ ConnectorDone(c) => IInv' /\ Kept
<1> SUFFICES ASSUME IInv
             PROVE  /\ ConnectorJoined(c) \/ ConnectorFailed(c) => IInv' /\ Kept /\ GraceHeld
                    /\ ConnectorDone(c) => IInv' /\ Kept
    OBVIOUS
<1> USE DEF IInv, modeVars, radioVars, serverVars, handlerVars
<1>0. c \in Tasks /\ c # Server /\ "none" \in Labels /\ "grace" \in Labels
    BY TaskFacts DEF Labels
<1>1. CASE ConnectorJoined(c)
    <2>1. /\ pc[c] = "joined" /\ pc' = [pc EXCEPT ![c] = "grace"]
          /\ device_configured' = TRUE
          /\ UNCHANGED <<reconfiguration_request, shutdown, left, handle, force, irq, creds, radioVars,
                         serverVars, back, params, tries, boot, handlerVars, halted>>
        BY <1>1 DEF ConnectorJoined, Goto
    <2>2. /\ pc' \in [Tasks -> Labels] /\ pc'[c] = "grace"
          /\ \A u \in Tasks \ {c} : pc'[u] = pc[u]
        BY <2>1, <1>0, MovedTask
    <2>3. pc'[Server] = pc[Server]
        BY <2>2, <1>0, TaskFacts
    <2>4. TypeOK'
        BY <2>1, <2>2 DEF TypeOK
    <2>5. Counting'
        BY <2>1, <2>2 DEF Counting
    <2>6. Starting' <=> Starting
        BY <2>1, <2>3 DEF Starting
    <2>7. Modes'
        BY <2>1, <2>2, <2>3, <2>6, <1>0 DEF Modes
    <2>8. GraceHeld
        BY <2>1 DEF GraceHeld, GraceConfigured
    <2>9. StartUp'
        BY <2>1, <2>2, <2>3, <2>6, <1>0, TaskFacts DEF StartUp, Quiet, Switching
    <2>10. Supply'
        BY <2>1, <2>6, <1>0, SupplyStep DEF Pending
    <2>11. Bringing' <=> Bringing
        BY <2>1, <2>2, <1>0 DEF Bringing
    <2>12. Kept
        BY <2>1, <2>6, <2>11 DEF Kept, Served
    <2> QED
        BY <2>4, <2>5, <2>7, <2>8, <2>9, <2>10, <2>12
<1>3. ASSUME ConnectorDone(c) PROVE IInv' /\ Kept
    <2>1. /\ pc[c] = "grace" /\ pc' = [pc EXCEPT ![c] = "none"]
          /\ shutdown' = Grace /\ handle' = NoTask
          /\ UNCHANGED <<device_configured, reconfiguration_request, left, force, irq, creds, radioVars,
                         serverVars, back, params, tries, boot, handlerVars, halted>>
        BY <1>3 DEF ConnectorDone, Goto
    <2>2. /\ pc' \in [Tasks -> Labels] /\ pc'[c] = "none"
          /\ \A u \in Tasks \ {c} : pc'[u] = pc[u]
        BY <2>1, <1>0, MovedTask
    <2>3. pc'[Server] = pc[Server]
        BY <2>2, <1>0, TaskFacts
    <2>4. TypeOK'
        <3>1. shutdown' \in 0..Turns-1
            BY <2>1, NumbersAssumption
        <3>2. handle' \in Connectors \cup {NoTask}
            BY <2>1
        <3> QED
            BY <2>1, <2>2, <3>1, <3>2 DEF TypeOK
    <2>5. Counting'
        BY <2>1, <2>2 DEF Counting
    <2>6. Starting' <=> Starting
        BY <2>1, <2>3 DEF Starting
    <2>7. Modes'
        BY <2>1, <2>2, <2>3, <2>6, <1>0 DEF Modes
    <2>9. StartUp'
        BY <2>1, <2>2, <2>3, <2>6, <1>0, TaskFacts DEF StartUp, Quiet, Switching
    <2>10. Supply'
        BY <2>1, <2>6, <1>0, SupplyStep DEF Pending
    <2>11. Bringing' <=> Bringing
        BY <2>1, <2>2, <1>0 DEF Bringing
    <2>12. Kept
        BY <2>1, <2>6, <2>11 DEF Kept, Served
    <2> QED
        BY <2>4, <2>5, <2>7, <2>9, <2>10, <2>12
<1>2. CASE ConnectorFailed(c)
    <2>1. /\ pc[c] = "failed" /\ pc' = [pc EXCEPT ![c] = "none"]
          /\ force' = FALSE /\ handle' = NoTask
          /\ UNCHANGED <<modeVars, irq, creds, radioVars, serverVars, back, params, tries,
                         boot, handlerVars, halted>>
        BY <1>2 DEF ConnectorFailed, Goto
    <2>2. /\ pc' \in [Tasks -> Labels] /\ pc'[c] = "none"
          /\ \A u \in Tasks \ {c} : pc'[u] = pc[u]
        BY <2>1, <1>0, MovedTask
    <2>3. TypeOK'
        BY <2>1, <2>2 DEF TypeOK
    <2>4. Counting'
        BY <2>1, <2>2 DEF Counting
    <2>5. SamePhase(c, "none")
        BY <2>1 DEF SamePhase, Switching
    <2>6. Modes' /\ GraceHeld /\ StartUp' /\ Supply' /\ Kept
        BY <2>1, <2>5, <1>0, PhaseStep
    <2> QED
        BY <2>3, <2>4, <2>6
<1> QED
    BY <1>1, <1>2, <1>3

LEMMA HandlerInv ==
    IInv /\ (HandlerStep \/ \E n \in Networks : PostForm(n)) => IInv' /\ Kept /\ GraceHeld
<1> SUFFICES ASSUME IInv PROVE HandlerStep \/ (\E n \in Networks : PostForm(n)) => IInv' /\ Kept /\ GraceHeld
    OBVIOUS
<1> USE DEF IInv, modeVars, radioVars, serverVars, taskVars, handlerVars
<1>1. ASSUME NEW n \in Networks, PostForm(n) PROVE IInv' /\ Kept /\ GraceHeld
    <2>1. /\ handler = "idle" /\ (apServers > 0 \/ staServer) /\ ~device_configured
          /\ form' = n /\ handler' = "clear"
          /\ UNCHANGED <<modeVars, handle, force, irq, creds, radioVars, serverVars, taskVars, halted>>
        BY <1>1 DEF PostForm
    <2>2. TypeOK'
        <3>1. form' \in MaybeNetwork /\ handler' \in {"idle", "clear", "fill", "start"}
            BY <2>1 DEF MaybeNetwork
        <3> QED
            BY <2>1, <3>1 DEF TypeOK
    <2>3. Starting => ~staServer
        BY DEF Modes
    <2>4. Starting => ~Quiet
        BY <2>1, <2>3 DEF Quiet
    <2>5. StartUp'
        BY <2>1, <2>4 DEF StartUp, Starting, Switching
    <2>6. Counting' /\ Modes' /\ GraceHeld /\ Kept
        BY <2>1 DEF Counting, Modes, GraceHeld, GraceConfigured, Kept, Served, Starting, Bringing
    <2>7. Supply'
        BY <2>1 DEF Supply, InStock, TwoInStock, Pending, Starting
    <2> QED
        BY <2>2, <2>5, <2>6, <2>7
<1>2. CASE ClearCredentials \/ FillCredentials \/ StartWhileRunning \/ StartFails
    <2>1. /\ handler # "idle" /\ handler' \in {"idle", "clear", "fill", "start"}
          /\ form' \in {form, NoNetwork} /\ creds' \in {creds, form, NoNetwork}
          /\ UNCHANGED <<modeVars, handle, force, irq, radioVars, serverVars, taskVars, halted>>
        BY <1>2 DEF ClearCredentials, FillCredentials, StartWhileRunning, StartFails, HandlerReturns
    <2>2. form' \in MaybeNetwork /\ creds' \in MaybeNetwork
        BY <2>1 DEF TypeOK, MaybeNetwork
    <2>3. TypeOK'
        BY <2>1, <2>2 DEF TypeOK
    <2> QED
        BY <2>1, <2>3, StillStep
<1>3. ASSUME NEW c \in Connectors, StartConnector(c) PROVE IInv' /\ Kept /\ GraceHeld
    <2>0. c \in Tasks /\ c # Server
        BY TaskFacts
    <2>1. /\ handler = "start" /\ pc[c] = "none"
          /\ handle' = c /\ pc' = [pc EXCEPT ![c] = "sta"]
          /\ handler' = "idle" /\ form' = NoNetwork
          /\ UNCHANGED <<modeVars, force, irq, creds, radioVars, serverVars, back, params,
                         tries, boot, halted>>
        BY <1>3 DEF StartConnector, Goto, HandlerReturns
    <2>2. /\ pc' \in [Tasks -> Labels] /\ pc'[c] = "sta"
          /\ \A u \in Tasks \ {c} : pc'[u] = pc[u]
        BY <2>0, <2>1, MovedTask DEF Labels
    <2>3. pc'[Server] = pc[Server]
        BY <2>0, <2>2, TaskFacts
    <2>4. TypeOK'
        <3>1. handle' \in Connectors \cup {NoTask} /\ form' \in MaybeNetwork
              /\ handler' \in {"idle", "clear", "fill", "start"}
            BY <2>1 DEF MaybeNetwork
        <3> QED
            BY <2>1, <2>2, <3>1 DEF TypeOK
    <2>5. Counting'
        BY <2>1, <2>2 DEF Counting
    <2>6. Starting' <=> Starting
        BY <2>1, <2>3 DEF Starting
    <2>7. Modes' /\ GraceHeld
        BY <2>0, <2>1, <2>2, <2>3, <2>6 DEF Modes, GraceHeld, GraceConfigured
    <2>8. ~Quiet
        BY <2>1 DEF Quiet
    <2>9. StartUp'
        BY <2>1, <2>2, <2>3, <2>6, <2>8, TaskFacts DEF StartUp, Switching
    <2>10. Bringing' <=> Bringing
        BY <2>0, <2>1, <2>2 DEF Bringing
    <2>11. Kept
        BY <2>1, <2>6, <2>10 DEF Kept, Served
    <2>12. Supply'
        <3>1. "sta" \in Labels
            BY DEF Labels
        <3> QED
            BY <2>0, <2>1, <2>6, <3>1, SupplyStep DEF Pending
    <2> QED
        BY <2>4, <2>5, <2>7, <2>9, <2>11, <2>12
<1> QED
    BY <1>1, <1>2, <1>3 DEF HandlerStep

LEMMA EnvironmentInv == IInv /\ (Press \/ LinkLost \/ UNCHANGED vars) => IInv' /\ Kept /\ GraceHeld
<1> SUFFICES ASSUME IInv, Press \/ LinkLost \/ UNCHANGED vars PROVE IInv' /\ Kept /\ GraceHeld
    OBVIOUS
<1> USE DEF IInv, modeVars, radioVars, serverVars, taskVars, handlerVars
<1>1. /\ irq' \in {irq, TRUE} /\ link' \in {link, NoNetwork}
      /\ UNCHANGED <<modeVars, handle, force, creds, ap, serverVars, taskVars, handlerVars, halted>>
    BY DEF Press, LinkLost, vars
<1>2. irq' \in BOOLEAN /\ link' \in MaybeNetwork
    BY <1>1 DEF TypeOK, MaybeNetwork
<1>3. TypeOK'
    BY <1>1, <1>2 DEF TypeOK
<1> QED
    BY <1>1, <1>3, StillStep

-----------------------------------------------------------------------------
\* Every step keeps the invariant; one may take away what is served, two may
\* leave a countdown without a configured device.
LEMMA StepInv ==
    IInv /\ [Next]_vars => /\ IInv'
                           /\ Kept \/ StopSoftAp
                           /\ GraceHeld \/ CountDown \/ \E c \in Connectors : ConnectorDone(c)
<1> SUFFICES ASSUME IInv, [Next]_vars
             PROVE  /\ IInv'
                    /\ Kept \/ StopSoftAp
                    /\ GraceHeld \/ CountDown \/ \E c \in Connectors : ConnectorDone(c)
    OBVIOUS
<1>1. CASE ServerStep
    BY <1>1, TaskFacts, ButtonInv, StaInv, BootInv, BodyInv, CountInv, StopSoftApInv DEF ServerStep
<1>2. ASSUME NEW c \in Connectors, ConnectorStep(c)
      PROVE  IInv' /\ Kept /\ (GraceHeld \/ ConnectorDone(c))
    <2>1. c \in Tasks
        BY TaskFacts
    <2> QED
        BY <1>2, <2>1, ButtonInv, StaInv, ConnectorInv DEF ConnectorStep
<1>3. CASE HandlerStep \/ \E n \in Networks : PostForm(n)
    BY <1>3, HandlerInv
<1>4. CASE Press \/ LinkLost \/ UNCHANGED vars
    BY <1>4, EnvironmentInv
<1> QED
    BY <1>1, <1>2, <1>3, <1>4 DEF Next, Run, Stopped

\* The inductive invariant holds in every reachable state.
THEOREM Invariance == Spec => []IInv
<1>1. IInv /\ [Next]_vars => IInv'
    BY StepInv
<1> QED
    BY <1>1, InitInv, PTL DEF Spec

\* The globals of web_server.c and the tasks keep their types: the attempts of
\* start_sta_mode stay within MAX_WIFI_RETRY_COUNT, the servers within their
\* memory, the countdown within the width of its variable.
THEOREM TypeCorrect == Spec => []TypeOK
<1>1. IInv => TypeOK
    BY DEF IInv
<1> QED
    BY <1>1, Invariance, PTL

\* What is served in the provisioning mode stays served, whatever joins,
\* presses, lost links and failures come; only the stop of SoftAP at the end of
\* a grace period may take it away.
THEOREM AlwaysServed == Spec => ProvisioningServed
<1>1. IInv /\ [Next]_vars =>
          [Served /\ ~Served' => pc[Server] = "stop_ap" /\ pc'[Server] = "main"]_vars
    <2> SUFFICES ASSUME IInv, [Next]_vars, Served, ~Served'
                 PROVE  pc[Server] = "stop_ap" /\ pc'[Server] = "main"
        OBVIOUS
    <2>1. StopSoftAp
        BY StepInv DEF Kept
    <2> QED
        BY <2>1, TaskFacts DEF StopSoftAp, Goto, IInv, TypeOK
<1> QED
    BY <1>1, Invariance, PTL DEF Spec, ProvisioningServed

\* In the station mode the control page is up once server_task is in its loop.
THEOREM StationAlwaysServed == Spec => []StationServed
<1>1. IInv => StationServed
    BY DEF IInv, Modes, StationServed, Starting, Bringing
<1> QED
    BY <1>1, Invariance, PTL

\* A return to provisioning by the button leaves no countdown behind, unless
\* its reset falls between the load and the store of the countdown in
\* server_task or between the two stores of a wifi_connect_task that has joined.
THEOREM GraceAlwaysKept == Spec => GraceKept
<1>1. IInv /\ [Next]_vars =>
          [GraceConfigured /\ ~GraceConfigured' =>
               \/ pc[Server] = "less" /\ pc'[Server] = "main"
               \/ \E c \in Connectors : pc[c] = "grace" /\ pc'[c] = "none"]_vars
    <2> SUFFICES ASSUME IInv, [Next]_vars, GraceConfigured, ~GraceConfigured'
                 PROVE  \/ pc[Server] = "less" /\ pc'[Server] = "main"
                        \/ \E c \in Connectors : pc[c] = "grace" /\ pc'[c] = "none"
        OBVIOUS
    <2>1. CountDown \/ \E c \in Connectors : ConnectorDone(c)
        BY StepInv DEF GraceHeld
    <2>2. pc \in [Tasks -> Labels]
        BY DEF IInv, TypeOK
    <2>3. CASE CountDown
        BY <2>2, <2>3, TaskFacts DEF CountDown, Goto
    <2>4. ASSUME NEW c \in Connectors, ConnectorDone(c)
          PROVE  pc[c] = "grace" /\ pc'[c] = "none"
        BY <2>2, <2>4, TaskFacts DEF ConnectorDone, Goto
    <2> QED
        BY <2>1, <2>3, <2>4
<1> QED
    BY <1>1, Invariance, PTL DEF Spec, GraceKept
=============================================================================
