------------------------------ MODULE MCDisplay ------------------------------
(***************************************************************************)
(* The start of the program and the display, for TLC: Boot, the panel that *)
(* several tasks write (OledScreen), and the texts on it (OledText, on the *)
(* display of the device with what it can show).  They share no variable,  *)
(* so nothing is gained by interleaving them: focus is the part that takes *)
(* steps, and the others stay where they start.                            *)
(***************************************************************************)
EXTENDS OledScreen, Boot, OledText

VARIABLE focus

-----------------------------------------------------------------------------
(* The texts. *)

\* Names with at most one gap, with the lengths that make a line of a row, of a
\* little more and of the whole line buffer, and the longest name; a gap of three
\* spaces ends a row, or is in its last columns.
Named(n, gap) == [k \in 1 .. n |-> IF k \in gap THEN Space ELSE Letter]
DeviceSsids ==
    {Named(n, {k}) : n \in {1, 16, 17, 31}, k \in 1 .. 17} \cup {Named(16, {}), Named(31, {})}
        \cup {Named(20, k .. k + 2) : k \in 12 .. 16}
        \cup {Sentence(<<"Conference-Floor", "2">>)}
DeviceReasons == {Spelled(t) : t \in {"none", "ap_unreachable_or_transient"}}
DeviceAddresses == {Spelled("192.168.100.200")}
DeviceHosts == {Spelled("psoc-actuator.local")}
SoftAp == {Spelled("SOFTAP_SSID"), Spelled("SOFTAP_PWD")}
Boots ==
    {<<Sentence(<<"Booting", "device">>),
       Sentence(<<"Initializing", "services">>)>>,
     <<Sentence(<<"Wi-Fi", "stack", "ready">>),
       Sentence(<<"Checking", "saved", "networks">>)>>,
     <<Sentence(<<"Provisioning", "requested">>),
       Sentence(<<"Starting", "SoftAP", "server">>)>>}
DeviceStatuses == {PlainStatus(s) : s \in HttpStatuses}

-----------------------------------------------------------------------------
MCInit ==
    /\ focus \in {"boot", "panel", "text"}
    /\ Init /\ BootInit /\ TextInit
    /\ focus # "panel" => status = CHOOSE s \in StatusTexts : TRUE

MCNext ==
    \/ focus = "boot" /\ BootNext /\ UNCHANGED <<vars, textVars, focus>>
    \/ focus = "panel" /\ Next /\ UNCHANGED <<textVars, bootVars, focus>>
    \/ focus = "text" /\ TextNext /\ UNCHANGED <<vars, bootVars, focus>>

MCSpec == MCInit /\ [][MCNext]_<<vars, textVars, bootVars, focus>>

\* The fairness of the parts with one, while they take steps.
MCFairSpec ==
    /\ MCSpec
    /\ WF_vars(focus = "panel" /\ InitDisplay)
    /\ WF_vars(focus = "panel" /\ ShowStatus)
    /\ \A t \in Tasks : WF_vars(focus = "panel" /\ Step(t))
    /\ WF_bootVars(focus = "boot" /\ Start)

-----------------------------------------------------------------------------
\* The device comes to serve a mode, or a required part is broken.
Starts == focus = "boot" => ComesUp
=============================================================================
