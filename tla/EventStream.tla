----------------------------- MODULE EventStream -----------------------------
(***************************************************************************)
(* The stream of status updates to the browser (source/web_server.c).      *)
(* The thread of the HTTP server registers the stream of a browser in the  *)
(* global http_event_stream and then writes its header (process_sse_       *)
(* handler); server_task writes an update in three parts to whatever       *)
(* stream the global holds by then, and forgets it when a write fails; a   *)
(* return to provisioning deletes the server and forgets the stream.       *)
(* Every test, write and assignment of the global is a step, because the   *)
(* two threads share it without a lock.  One thread serves all requests.   *)
(***************************************************************************)
EXTENDS Naturals

CONSTANTS
    Streams,      \* the response streams, one for each visit of a browser
    NoStream,     \* NULL
    Switchers     \* the tasks that may return to provisioning

ASSUME StreamsAssumption == NoStream \notin Streams
ASSUME SwitchersAssumption == Switchers \subseteq {"server_task", "wifi_connect_task"}

VARIABLES
    http_event_stream,
    conn,        \* what has become of each stream
    header,      \* the streams whose header has been written
    sent,        \* the last part of an update each stream has got; 0: none
    at, part,    \* where server_task stands, and with which part of the update
    handler,     \* where the thread of the HTTP server stands
    serves,      \* the stream process_sse_handler was called for
    serving,     \* http_sta_server is running
    station,     \* reconfiguration_request = SERVER_RECONFIGURED
    switcher,    \* the task that is about to forget the stream
    halted       \* PRINT_AND_ASSERT failed

writerVars == <<at, part>>
handlerVars == <<handler, serves>>
modeVars == <<serving, station, switcher>>
vars == <<http_event_stream, conn, header, sent, writerVars, handlerVars, modeVars, halted>>

\* EVENT_STREAM_DATA, the status text, LFLF.
Parts == 1 .. 3
Last == 3

-----------------------------------------------------------------------------
Init ==
    /\ http_event_stream = NoStream
    /\ conn = [s \in Streams |-> "new"]
    /\ header = {}
    /\ sent = [s \in Streams |-> 0]
    /\ at = "turn" /\ part = 1
    /\ handler = "idle" /\ serves = NoStream
    /\ serving = FALSE /\ station = FALSE /\ switcher = "none"
    /\ halted = FALSE

\* The browser closes its page, or its connection is lost.  External.
Leave(s) ==
    /\ conn[s] = "open"
    /\ conn' = [conn EXCEPT ![s] = "lost"]
    /\ UNCHANGED <<http_event_stream, header, sent, writerVars, handlerVars, modeVars, halted>>

\* A write to the stream the global holds succeeds; on NULL it fails.
Writable == http_event_stream # NoStream /\ conn[http_event_stream] = "open"

-----------------------------------------------------------------------------
(* process_sse_handler: the last two steps read the global again.          *)

Register(s) ==
    /\ handler = "idle" /\ serving
    /\ conn[s] = "new"
    /\ conn' = [conn EXCEPT ![s] = "open"]
    /\ http_event_stream' = s
    /\ handler' = "chunked" /\ serves' = s
    /\ UNCHANGED <<header, sent, writerVars, modeVars, halted>>

EnableChunked ==
    /\ handler = "chunked"
    /\ IF http_event_stream # NoStream
       THEN handler' = "header" /\ UNCHANGED halted
       ELSE halted' = TRUE /\ UNCHANGED handler
    /\ UNCHANGED <<http_event_stream, conn, header, sent, writerVars, serves, modeVars>>

WriteHeader ==
    /\ handler = "header"
    /\ IF Writable
       THEN /\ header' = header \cup {http_event_stream}
            /\ handler' = "idle" /\ serves' = NoStream
            /\ UNCHANGED halted
       ELSE halted' = TRUE /\ UNCHANGED <<header, handlerVars>>
    /\ UNCHANGED <<http_event_stream, conn, sent, writerVars, modeVars>>

-----------------------------------------------------------------------------
(* The update in the main loop of server_task.                             *)

InLoop == switcher # "server_task"

BeginUpdate ==
    /\ at = "turn" /\ station /\ InLoop
    /\ http_event_stream # NoStream
    /\ at' = "write"
    /\ UNCHANGED <<http_event_stream, conn, header, sent, part, handlerVars, modeVars, halted>>

\* Mutant: after a success the same part is written once more.
WriteSucceedsTwice ==
    /\ at = "write"
    /\ Writable
    /\ sent' = [sent EXCEPT ![http_event_stream] = part]
    /\ at' = IF sent[http_event_stream] = part THEN "test" ELSE "write"
    /\ UNCHANGED <<http_event_stream, conn, header, part, handlerVars, modeVars, halted>>

WriteSucceeds ==
    /\ at = "write"
    /\ Writable
    /\ sent' = [sent EXCEPT ![http_event_stream] = part]
    /\ at' = "test"
    /\ UNCHANGED <<http_event_stream, conn, header, part, handlerVars, modeVars, halted>>

\* The stream of a deleted server: whatever the write returns, no browser gets
\* the part.
Stale == http_event_stream # NoStream /\ conn[http_event_stream] = "closed"

WriteStale ==
    /\ at = "write"
    /\ Stale
    /\ at' \in {"test", "forget"}
    /\ UNCHANGED <<http_event_stream, conn, header, sent, part, handlerVars, modeVars, halted>>

WriteFails ==
    /\ at = "write"
    /\ ~Writable /\ ~Stale
    /\ conn' = [s \in Streams |->
                  IF s = http_event_stream /\ conn[s] = "lost" THEN "failed" ELSE conn[s]]
    /\ at' = "forget"
    /\ UNCHANGED <<http_event_stream, header, sent, part, handlerVars, modeVars, halted>>

\* Mutant: only a failure of the first part forgets the stream.
ForgetFirstOnly ==
    /\ at = "forget"
    /\ http_event_stream' = IF part = 1 THEN NoStream ELSE http_event_stream
    /\ at' = "test"
    /\ UNCHANGED <<conn, header, sent, part, handlerVars, modeVars, halted>>

\* Mutant: the failure is only logged.
ForgetNothing ==
    /\ at = "forget"
    /\ at' = "test"
    /\ UNCHANGED <<http_event_stream, conn, header, sent, part, handlerVars, modeVars, halted>>

\* The stream is forgotten, whichever the global holds by now.
Forget ==
    /\ at = "forget"
    /\ http_event_stream' = NoStream
    /\ at' = "test"
    /\ UNCHANGED <<conn, header, sent, part, handlerVars, modeVars, halted>>

\* Mutant: the update ends before its last part.
NextPartShort ==
    /\ at = "test"
    /\ part' = IF part + 1 = Last THEN 1 ELSE part + 1
    /\ at' = IF part + 1 = Last THEN "turn"
             ELSE IF http_event_stream = NoStream THEN "test" ELSE "write"
    /\ UNCHANGED <<http_event_stream, conn, header, sent, handlerVars, modeVars, halted>>

\* The test before the next part; after the last one the turn ends.
NextPart ==
    /\ at = "test"
    /\ part' = IF part = Last THEN 1 ELSE part + 1
    /\ at' = IF part = Last THEN "turn"
             ELSE IF http_event_stream = NoStream THEN "test" ELSE "write"
    /\ UNCHANGED <<http_event_stream, conn, header, sent, handlerVars, modeVars, halted>>

-----------------------------------------------------------------------------
(* The modes, as far as the stream depends on them (see Provisioning).     *)

\* configure_http_server_sta_only or reconfigure_http_server.
StartStaServer ==
    /\ ~serving /\ ~station /\ switcher = "none" /\ at = "turn"
    /\ serving' = TRUE
    /\ UNCHANGED <<http_event_stream, conn, header, sent, writerVars, handlerVars,
                   station, switcher, halted>>

EnterStation ==
    /\ serving /\ ~station /\ switcher = "none" /\ at = "turn"
    /\ station' = TRUE
    /\ UNCHANGED <<http_event_stream, conn, header, sent, writerVars, handlerVars,
                   serving, switcher, halted>>

\* stop_sta_http_server ends the connections; it waits for the handler.
StopStaServer(t) ==
    /\ serving /\ station /\ switcher = "none"
    /\ t = "server_task" => at = "turn"
    /\ handler = "idle"
    /\ serving' = FALSE
    /\ conn' = [s \in Streams |-> IF conn[s] = "new" THEN "new" ELSE "closed"]
    /\ switcher' = t
    /\ UNCHANGED <<http_event_stream, header, sent, writerVars, handlerVars, station, halted>>

\* Mutant: the stream is kept for the next station mode.
ForgetStationOnly ==
    /\ switcher # "none"
    /\ station' = FALSE
    /\ switcher' = "none"
    /\ UNCHANGED <<http_event_stream, conn, header, sent, writerVars, handlerVars,
                   serving, halted>>

\* start_provisioning_softap.
ForgetStation ==
    /\ switcher # "none"
    /\ http_event_stream' = NoStream
    /\ station' = FALSE
    /\ switcher' = "none"
    /\ UNCHANGED <<conn, header, sent, writerVars, handlerVars, serving, halted>>

-----------------------------------------------------------------------------
Stopped == halted /\ UNCHANGED vars

HandlerStep == EnableChunked \/ WriteHeader
WriterStep ==
    BeginUpdate \/ WriteSucceeds \/ WriteStale \/ WriteFails \/ Forget \/ NextPart

Next ==
    \/ /\ ~halted
       /\ \/ \E s \in Streams : Leave(s) \/ Register(s)
          \/ HandlerStep \/ WriterStep
          \/ StartStaServer \/ EnterStation
          \/ \E t \in Switchers : StopStaServer(t)
          \/ ForgetStation
    \/ Stopped

Spec == Init /\ [][Next]_vars

\* The two threads and the task that switches are scheduled.
FairSpec ==
    /\ Spec
    /\ WF_vars(~halted /\ HandlerStep)
    /\ WF_vars(~halted /\ WriterStep)
    /\ WF_vars(~halted /\ (StartStaServer \/ EnterStation))
    /\ WF_vars(~halted /\ ForgetStation)

-----------------------------------------------------------------------------
TypeOK ==
    /\ http_event_stream \in Streams \cup {NoStream}
    /\ conn \in [Streams -> {"new", "open", "lost", "failed", "closed"}]
    /\ header \subseteq Streams
    /\ sent \in [Streams -> 0 .. Last]
    /\ at \in {"turn", "write", "forget", "test"} /\ part \in Parts
    /\ handler \in {"idle", "chunked", "header"}
    /\ serves \in Streams \cup {NoStream}
    /\ serving \in BOOLEAN /\ station \in BOOLEAN
    /\ switcher \in Switchers \cup {"none"}
    /\ halted \in BOOLEAN

\* A stream on which a write has failed is not written again: neither the rest
\* of the update nor the next one goes to it (server_task, lines 1915 to 1942).
FailedNotWritten ==
    at = "write" /\ http_event_stream # NoStream => conn[http_event_stream] # "failed"

\* A return to provisioning leaves no stream of the old server in the global
\* for the next station mode: what the global holds outside of a switch was
\* registered at the running server.  During the switch, between the deletion of
\* the server and line 1592, server_task writes such a stream only if it is
\* wifi_connect_task that switches (lines 1592 and 1640 to 1642).
NoStaleStream ==
    /\ http_event_stream # NoStream /\ switcher = "none" => serving /\ ~Stale
    /\ at = "write" /\ Stale => switcher = "wifi_connect_task"

\* An update may overtake the header of the response, which another thread
\* writes; then the handler still serves that browser, and writes it (lines 677
\* to 696 and 1909 to 1912).
HeaderFollows == \A s \in Streams : sent[s] # 0 => s \in header \/ serves = s

\* What holds whoever registers, leaves, writes or switches in between: types, a
\* failed write ends a stream, no stream outlives its server but for the switch
\* of wifi_connect_task, and every browser gets its header (lines 677 to 696,
\* 1586 to 1592, 1909 to 1945).
StreamSafe == TypeOK /\ FailedNotWritten /\ NoStaleStream /\ HeaderFollows

\* Once a stream has got a part of an update, the next part it gets is the
\* following one: a browser can only join an update in the middle, never see
\* one repeated or torn (server_task, lines 1910 to 1944).
NoTornUpdate ==
    [][\A s \in Streams :
          at = "write" /\ at' = "test" /\ http_event_stream = s /\ sent[s] # 0 /\ ~Stale
              => sent'[s] = (sent[s] % Last) + 1]_vars

\* A stream that stays registered is sent complete updates again and again.
CurrentServed ==
    \A s \in Streams :
        <>[](http_event_stream = s /\ ~halted) => []<>(sent[s] = Last) /\ []<>(sent[s] = 1)

\* A browser that has left is forgotten, or another one takes its place.
LostForgotten ==
    \A s \in Streams :
        conn[s] = "lost" /\ http_event_stream = s ~> http_event_stream # s \/ halted

\* The stream in the global is served as long as its browser stays, and gives the
\* place up when the browser has left (lines 1909 to 1945).
StreamServed == CurrentServed /\ LostForgotten

\* README.md, line 102: real-time status updates are streamed to the browser. A
\* registered stream whose connection lives is given up only for a newer one or
\* with the station mode.
RegistrationKept ==
    [][\A s \in Streams :
          http_event_stream = s /\ conn[s] = "open" /\ http_event_stream' = NoStream
              => switcher # "none"]_vars

\* "Reset provisioning state variables" (line 1586), the stream among them: a
\* stream of the deleted server is never written.
StaleNotWritten == at = "write" => ~Stale

\* The assertions of process_sse_handler (lines 688 and 693) hold as long as the
\* browser they serve stays.
HandlerAssertions == halted => conn[serves] # "open"
=============================================================================
