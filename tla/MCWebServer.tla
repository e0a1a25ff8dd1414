----------------------------- MODULE MCWebServer -----------------------------
(***************************************************************************)
(* The parts of source/web_server.c that serve a browser, for TLC: the     *)
(* stream of the status, the advertisement, the list of networks and the   *)
(* provisioning form.  They share no variable, so nothing is gained by     *)
(* interleaving them: focus is the part that takes steps, and the others   *)
(* stay where they start.                                                  *)
(***************************************************************************)
EXTENDS EventStream, Mdns, WifiScan, FormFields

VARIABLE focus

\* Two networks whose names overflow the buffer after three results, with a line
\* end as the last byte, without it, and in the middle of a name: the cfgs give
\* a buffer of 6, names of up to 3, and these parts around the list.
ScanPageParts == <<3, 2, 1>>

\* Values over the characters that matter to the parser ("f", space, "%", "&", "=",
\* "/"), and values as long as the buffers and longer, with a separator at the cut.
Single == {<<c>> : c \in {102, 32, 37, 38, 61, 47}}
Pair   == {102, 38, 61} \X {102, 38, 61}
Repeat(c, n) == [i \in 1 .. n |-> c]
LongSsids ==
    {Repeat(61, 31), Repeat(61, 32), Repeat(47, 32),
     Append(Repeat(47, 30), 38), Append(Repeat(47, 31), 38), Append(Repeat(47, 31), 61)}
FormSsids == {<<>>, <<37, 102, 102>>, <<102, 47, 61>>} \cup Single \cup Pair \cup LongSsids
FormPasswords ==
    {<<>>, <<38>>, <<38, 61>>, <<102, 61, 102>>, Repeat(61, 63), Repeat(102, 64)}

Entry(s, p, l) == [form |-> TRUE, ssid |-> s, password |-> p, lower |-> l]

\* Forms at the reach of the index: one that it comes to the end of, names behind
\* which it wraps while it looks for the password, with nothing and with "=" in
\* them, and a password in which it wraps.
FarEntries ==
    {Entry(Repeat(47, 50), Repeat(102, 62), FALSE), Entry(Repeat(47, 50), Repeat(102, 63), FALSE),
     Entry(Repeat(47, 130), <<47, 102>>, FALSE), Entry(Repeat(61, 130), <<102>>, FALSE),
     Entry(Repeat(47, 90), Repeat(102, 40), FALSE), Entry(<<195, 169>>, <<255>>, TRUE)}

\* Every name with one password, every password with a short and a long name.
FormEntries ==
    {Entry(s, <<47, 102>>, TRUE) : s \in FormSsids}
        \cup {Entry(s, p, FALSE) : s \in {<<47>>, Repeat(47, 32)}, p \in FormPasswords}
        \cup FarEntries

Password == <<80, 97, 115, 115, 119, 111, 114, 100>>
SubmitButton == <<38, 115, 117, 98, 109, 105, 116, 61, 67>>   \* "&submit=C", cut
CommandBodies == {<<111, 112, 101, 110>>, <<99, 108, 111, 115, 101>>}

-----------------------------------------------------------------------------
MCInit ==
    /\ focus \in {"stream", "mdns", "scan", "form"}
    /\ Init /\ MdnsInit /\ ScanInit /\ FormInit

MCNext ==
    \/ focus = "stream" /\ Next /\ UNCHANGED <<mdnsVars, scanVars, formVars, focus>>
    \/ focus = "mdns" /\ MdnsNext /\ UNCHANGED <<vars, scanVars, formVars, focus>>
    \/ focus = "scan" /\ ScanNext /\ UNCHANGED <<vars, mdnsVars, formVars, focus>>
    \/ focus = "form" /\ FormNext /\ UNCHANGED <<vars, mdnsVars, scanVars, focus>>

MCSpec == MCInit /\ [][MCNext]_<<vars, mdnsVars, scanVars, formVars, focus>>

\* The fairness of each part, while it takes steps.
MCFairSpec ==
    /\ MCSpec
    /\ WF_vars(focus = "stream" /\ ~halted /\ HandlerStep)
    /\ WF_vars(focus = "stream" /\ ~halted /\ WriterStep)
    /\ WF_vars(focus = "stream" /\ ~halted /\ (StartStaServer \/ EnterStation))
    /\ WF_vars(focus = "stream" /\ ~halted /\ ForgetStation)
    /\ WF_mdnsVars(focus = "mdns" /\ ServerStep)
    /\ SF_mdnsVars(focus = "mdns" /\ RegisterHost)
    /\ WF_mdnsVars(focus = "mdns" /\ GetAddress)
    /\ WF_mdnsVars(focus = "mdns" /\ (SwitchDisconnects \/ SwitchResets))
    /\ WF_scanVars(focus = "scan" /\ ~scanHalted /\ CallbackStep)
    /\ WF_scanVars(focus = "scan" /\ ~scanHalted /\ ScanHandlerStep)
    /\ WF_formVars(focus = "form" /\ ParseStep)

-----------------------------------------------------------------------------
\* A station in reach is advertised, a request for the list is answered when the
\* scan ends, and every body is parsed to its end.
AnsweredInTheEnd ==
    /\ focus = "mdns" => Advertised
    /\ focus = "scan" => Answered
    /\ focus = "form" => ParseEnds
=============================================================================
