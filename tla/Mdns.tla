-------------------------------- MODULE Mdns --------------------------------
(***************************************************************************)
(* The advertisement of the control page on the local network              *)
(* (start_sta_mdns_service, stop_sta_mdns_service and service_sta_mdns_    *)
(* retry of source/web_server.c).  server_task starts it with the station  *)
(* mode, tries again in the turns of its main loop, and repeats the        *)
(* announcement a few times; a return to provisioning stops it.  What is   *)
(* done under LOCK_TCPIP_CORE is one step; the tests before it and the     *)
(* counting behind it are steps of their own, since wifi_connect_task, of  *)
(* the higher priority, may return to provisioning in between, and does so *)
(* without server_task in between.  Time is counted in turns of the loop.  *)
(***************************************************************************)
EXTENDS Naturals

CONSTANTS
    RetryTurns,       \* STA_MDNS_RETRY_INTERVAL_MS
    ReannounceTurns,  \* STA_MDNS_REANNOUNCE_INTERVAL_MS
    ReannounceCount,  \* STA_MDNS_REANNOUNCE_COUNT
    Stoppers          \* the tasks that may return to provisioning

ASSUME NumbersAssumption ==
    RetryTurns \in Nat \ {0} /\ ReannounceTurns \in Nat \ {0} /\ ReannounceCount \in 0 .. 255

VARIABLES
    active,      \* sta_mdns_active
    retry,       \* sta_mdns_retry_elapsed_ms
    reannounce,  \* sta_mdns_reannounce_elapsed_ms
    remaining,   \* sta_mdns_reannounce_remaining
    responder,   \* what lwIP has for the interface: nothing, the host, its service
    announced,   \* announcements sent since the host was added
    connected,   \* the station is associated
    ready,       \* the interface has its address
    reconfigured, \* reconfiguration_request = SERVER_RECONFIGURED
    place,       \* where server_task stands
    loaded,      \* the value of remaining that it has loaded
    entering,    \* its call of start_sta_mdns_service begins the station mode
    switch, stopper  \* a return to provisioning under way, and its task

flagVars == <<active, retry, reannounce, remaining>>
lwipVars == <<responder, announced>>
linkVars == <<connected, ready>>
placeVars == <<place, loaded, entering>>
switchVars == <<switch, stopper>>
mdnsVars == <<flagVars, lwipVars, linkVars, reconfigured, placeVars, switchVars>>

\* server_task does not run its loop while it returns to provisioning itself.
ServerInLoop == ~(switch # "none" /\ stopper = "server_task")

-----------------------------------------------------------------------------
MdnsInit ==
    /\ active = FALSE /\ retry = 0 /\ reannounce = 0 /\ remaining = 0
    /\ responder = "none" /\ announced = 0
    /\ connected = FALSE /\ ready = FALSE
    /\ reconfigured = FALSE
    /\ place = "loop" /\ loaded = 0 /\ entering = FALSE
    /\ switch = "none" /\ stopper = "none"

\* start_sta_mode, or the network coming back; the address follows or fails.  External.
Join ==
    /\ ~connected /\ switch = "none"
    /\ connected' = TRUE
    /\ UNCHANGED <<flagVars, lwipVars, ready, reconfigured, placeVars, switchVars>>

GetAddress ==
    /\ connected /\ ~ready
    /\ ready' = TRUE
    /\ UNCHANGED <<flagVars, lwipVars, connected, reconfigured, placeVars, switchVars>>

LoseLink ==
    /\ connected
    /\ connected' = FALSE /\ ready' = FALSE
    /\ UNCHANGED <<flagVars, lwipVars, reconfigured, placeVars, switchVars>>

-----------------------------------------------------------------------------
(* start_sta_mdns_service.                                                 *)

\* Its caller goes on; at the end of the change of servers the mode follows.
StartReturns ==
    /\ place' = "loop"
    /\ entering' = FALSE
    /\ reconfigured' = (reconfigured \/ entering)
    /\ UNCHANGED loaded

\* Interface or address are not there yet.
NotReady ==
    /\ place = "check" /\ ~ready
    /\ StartReturns
    /\ UNCHANGED <<flagVars, lwipVars, linkVars, switchVars>>

Checked ==
    /\ place = "check" /\ ready
    /\ place' = "register"
    /\ UNCHANGED <<flagVars, lwipVars, linkVars, reconfigured, loaded, entering, switchVars>>

\* Mutant: a host without its service is left behind.
RegistrationFailsHalf ==
    /\ place = "register"
    /\ responder' \in {"none", "host"} /\ announced' = 0
    /\ active' = FALSE
    /\ StartReturns
    /\ UNCHANGED <<retry, reannounce, remaining, linkVars, switchVars>>

\* A host of an earlier start is removed first.  The host is not accepted, or its
\* service is not and the host is removed again.
RegistrationFails ==
    /\ place = "register"
    /\ responder' = "none" /\ announced' = 0
    /\ active' = FALSE
    /\ StartReturns
    /\ UNCHANGED <<retry, reannounce, remaining, linkVars, switchVars>>

\* Mutant: the first announcement is counted among the repetitions.
RegisterShort ==
    /\ place = "register"
    /\ responder' = "service" /\ announced' = 1
    /\ active' = TRUE
    /\ retry' = 0 /\ reannounce' = 0 /\ remaining' = ReannounceCount - 1
    /\ StartReturns
    /\ UNCHANGED <<linkVars, switchVars>>

RegisterHost ==
    /\ place = "register"
    /\ responder' = "service" /\ announced' = 1
    /\ active' = TRUE
    /\ retry' = 0 /\ reannounce' = 0 /\ remaining' = ReannounceCount
    /\ StartReturns
    /\ UNCHANGED <<linkVars, switchVars>>

\* The end of configure_http_server_sta_only and of reconfigure_http_server.
BecomeStation ==
    /\ place = "loop" /\ ServerInLoop /\ ~reconfigured /\ connected /\ switch = "none"
    /\ place' = "check" /\ entering' = TRUE
    /\ UNCHANGED <<flagVars, lwipVars, linkVars, reconfigured, loaded, switchVars>>

-----------------------------------------------------------------------------
(* service_sta_mdns_retry, in every turn of the main loop.                 *)

InTurn(label) == place = label /\ ServerInLoop

ServiceRests ==
    /\ InTurn("loop")
    /\ ~reconfigured \/ ~connected
    /\ retry' = 0 /\ reannounce' = 0
    /\ UNCHANGED <<active, remaining, lwipVars, linkVars, reconfigured, placeVars, switchVars>>

\* The tests of lines 605 to 635: what the turn is going to count.
ServiceTests ==
    /\ InTurn("loop")
    /\ reconfigured /\ connected
    /\ ~active \/ remaining > 0
    /\ place' = IF active THEN "repeat" ELSE "retry"
    /\ UNCHANGED <<flagVars, lwipVars, linkVars, reconfigured, loaded, entering, switchVars>>

CountRetry ==
    /\ InTurn("retry")
    /\ retry + 1 < RetryTurns
    /\ retry' = retry + 1
    /\ place' = "loop"
    /\ UNCHANGED <<active, reannounce, remaining, lwipVars, linkVars, reconfigured, loaded,
                   entering, switchVars>>

\* Mutant: one retry only.
RetryOnce ==
    /\ InTurn("retry")
    /\ retry + 1 >= RetryTurns
    /\ place' = "loop"
    /\ UNCHANGED <<flagVars, lwipVars, linkVars, reconfigured, loaded, entering, switchVars>>

Retry ==
    /\ InTurn("retry")
    /\ retry + 1 >= RetryTurns
    /\ retry' = 0
    /\ place' = "check"
    /\ UNCHANGED <<active, reannounce, remaining, lwipVars, linkVars, reconfigured, loaded,
                   entering, switchVars>>

CountReannounce ==
    /\ InTurn("repeat")
    /\ reannounce' = reannounce + 1
    /\ place' = IF reannounce' < ReannounceTurns THEN "loop" ELSE "announce"
    /\ UNCHANGED <<active, retry, remaining, lwipVars, linkVars, reconfigured, loaded, entering,
                   switchVars>>

\* mdns_resp_announce, which does nothing for an interface without a host.
Reannounce ==
    /\ InTurn("announce")
    /\ announced' = IF responder = "none" THEN announced ELSE announced + 1
    /\ place' = "announced"
    /\ UNCHANGED <<flagVars, responder, linkVars, reconfigured, loaded, entering, switchVars>>

LoadRemaining ==
    /\ InTurn("announced")
    /\ reannounce' = 0
    /\ loaded' = remaining
    /\ place' = "count"
    /\ UNCHANGED <<active, retry, remaining, lwipVars, linkVars, reconfigured, entering,
                   switchVars>>

\* Mutant: the repetition is not counted.
StoreUncounted ==
    /\ InTurn("count")
    /\ remaining' = loaded
    /\ place' = "loop"
    /\ UNCHANGED <<active, retry, reannounce, lwipVars, linkVars, reconfigured, loaded,
                   entering, switchVars>>

\* The decrement of a uint8_t; what a stop has stored since is overwritten.
StoreRemaining ==
    /\ InTurn("count")
    /\ remaining' = (loaded + 255) % 256
    /\ place' = "loop"
    /\ UNCHANGED <<active, retry, reannounce, lwipVars, linkVars, reconfigured, loaded,
                   entering, switchVars>>

-----------------------------------------------------------------------------
(* The return to provisioning.                                             *)

\* stop_sta_mdns_service.
Stop ==
    /\ active' = FALSE
    /\ retry' = 0 /\ reannounce' = 0 /\ remaining' = 0
    /\ IF active THEN responder' = "none" /\ announced' = 0 ELSE UNCHANGED lwipVars

\* stop_sta_http_server.
SwitchStops(t) ==
    /\ reconfigured /\ switch = "none"
    /\ t = "server_task" => place = "loop"
    /\ Stop
    /\ switch' = "stopped" /\ stopper' = t
    /\ UNCHANGED <<linkVars, reconfigured, placeVars>>

SwitchDisconnects ==
    /\ switch = "stopped"
    /\ connected' = FALSE /\ ready' = FALSE
    /\ switch' = "disconnected"
    /\ UNCHANGED <<flagVars, lwipVars, reconfigured, placeVars, stopper>>

\* The beginning of start_provisioning_softap.
SwitchResets ==
    /\ switch = "disconnected"
    /\ Stop
    /\ reconfigured' = FALSE
    /\ switch' = "none" /\ stopper' = "none"
    /\ UNCHANGED <<linkVars, placeVars>>

-----------------------------------------------------------------------------
ServerStep ==
    \/ NotReady \/ Checked \/ RegistrationFails \/ RegisterHost
    \/ BecomeStation
    \/ ServiceRests \/ ServiceTests \/ CountRetry \/ Retry
    \/ CountReannounce \/ Reannounce \/ LoadRemaining \/ StoreRemaining

MdnsNext ==
    \/ Join \/ GetAddress \/ LoseLink
    \/ ServerStep
    \/ \E t \in Stoppers : SwitchStops(t)
    \/ SwitchDisconnects \/ SwitchResets

MdnsSpec == MdnsInit /\ [][MdnsNext]_mdnsVars

\* The tasks are scheduled; a registration tried again and again succeeds once;
\* the network gives an address in the end.
MdnsFairSpec ==
    /\ MdnsSpec
    /\ WF_mdnsVars(ServerStep)
    /\ SF_mdnsVars(RegisterHost)
    /\ WF_mdnsVars(GetAddress)
    /\ WF_mdnsVars(SwitchDisconnects \/ SwitchResets)

-----------------------------------------------------------------------------
MdnsType ==
    /\ active \in BOOLEAN
    /\ retry \in 0 .. RetryTurns - 1
    /\ reannounce \in 0 .. ReannounceTurns
    /\ remaining \in 0 .. 255 /\ loaded \in 0 .. 255
    /\ responder \in {"none", "host", "service"}
    /\ announced \in 0 .. ReannounceCount + 1
    /\ connected \in BOOLEAN /\ ready \in BOOLEAN /\ reconfigured \in BOOLEAN
    /\ place \in {"loop", "check", "register", "retry", "repeat", "announce", "announced", "count"}
    /\ entering \in BOOLEAN
    /\ switch \in {"none", "stopped", "disconnected"}
    /\ stopper \in Stoppers \cup {"none"}

\* The flag tells what the responder has, so that a later start neither adds a
\* host twice nor leaves one without its service (lines 506 to 536).
FlagMatchesResponder == responder = IF active THEN "service" ELSE "none"

\* An announcement has been sent and is still to be counted.
Uncounted == IF place \in {"announced", "count"} THEN 1 ELSE 0

\* Every start is followed by the same number of announcements, however often
\* the link fails in between: none is lost and none is sent twice.  A stop that
\* comes before the announcement is counted takes the flag down, and the count,
\* which then wraps to 255, is set again by the next start (lines 541 to 546 and
\* 634 to 652).
AnnouncementsAccounted ==
    active => announced + remaining = ReannounceCount + 1 + Uncounted

\* What every step keeps, of server_task and of the task that switches: the
\* types, the flag that tells what the responder has, no announcement lost or
\* doubled (lines 474 to 656).
Advertising == MdnsType /\ FlagMatchesResponder /\ AnnouncementsAccounted

\* A station that stays in reach is advertised in the end, and announced as often
\* as intended, whatever has failed before (lines 619 to 652).
Advertised ==
    <>[](reconfigured /\ switch = "none" /\ connected) => <>[](active /\ remaining = 0)

\* "Provisioning mode should not advertise STA mDNS hostname" (line 1583).
QuietInProvisioning == ~reconfigured /\ ~entering => responder = "none"
=============================================================================
