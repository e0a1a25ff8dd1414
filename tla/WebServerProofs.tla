-------------------------- MODULE WebServerProofs ---------------------------
(***************************************************************************)
(* Proofs about the parts of source/web_server.c that serve a browser: the *)
(* stream of the status (EventStream), for any number of browsers, and the *)
(* advertisement (Mdns), for every interval and number of announcements,   *)
(* both for returns to provisioning by either task; the list of networks   *)
(* (WifiScan), for every size of its buffers; and the provisioning form    *)
(* (FormFields), for all that a user can enter.                            *)
(***************************************************************************)
EXTENDS EventStream, Mdns, WifiScan, FormFields, TLAPS

-----------------------------------------------------------------------------
(* The stream of the status.                                               *)

\* The global holds a stream or NULL, and each thread stands at a step of its
\* function, at every moment.
THEOREM TypeCorrect == Spec => []TypeOK
<1>1. Init => TypeOK
  <2> SUFFICES ASSUME Init PROVE TypeOK
    OBVIOUS
  <2>1. conn \in [Streams -> {"new", "open", "lost", "failed", "closed"}]
    BY DEF Init
  <2>2. sent \in [Streams -> 0 .. Last]
    BY DEF Init, Last
  <2>3. at \in {"turn", "write", "forget", "test"} /\ part \in Parts
    BY DEF Init, Parts
  <2>4. /\ handler \in {"idle", "chunked", "header"}
        /\ switcher \in Switchers \cup {"none"}
    BY DEF Init
  <2>5. serving \in BOOLEAN /\ station \in BOOLEAN /\ halted \in BOOLEAN
    BY DEF Init
  <2>6. QED
    BY <2>1, <2>2, <2>3, <2>4, <2>5 DEF Init, TypeOK
<1>2. TypeOK /\ [Next]_vars => TypeOK'
  <2> SUFFICES ASSUME TypeOK, [Next]_vars
               PROVE  TypeOK'
    OBVIOUS
  <2> USE StreamsAssumption, SwitchersAssumption DEF TypeOK, Parts, Last, Writable
  <2>1. ASSUME NEW s \in Streams, Leave(s)
        PROVE  TypeOK'
    BY <2>1 DEF Leave, writerVars, handlerVars, modeVars
  <2>2. ASSUME NEW s \in Streams, Register(s)
        PROVE  TypeOK'
    BY <2>2 DEF Register, writerVars, handlerVars, modeVars
  <2>3. CASE EnableChunked
    BY <2>3 DEF EnableChunked, writerVars, handlerVars, modeVars
  <2>4. CASE WriteHeader
    BY <2>4 DEF WriteHeader, writerVars, handlerVars, modeVars
  <2>5. CASE BeginUpdate
    BY <2>5 DEF BeginUpdate, writerVars, handlerVars, modeVars
  <2>6. CASE WriteSucceeds
    BY <2>6 DEF WriteSucceeds, writerVars, handlerVars, modeVars
  <2>7. CASE WriteFails
    BY <2>7 DEF WriteFails, writerVars, handlerVars, modeVars
  <2>8. CASE Forget
    BY <2>8 DEF Forget, writerVars, handlerVars, modeVars
  <2>9. CASE NextPart
    BY <2>9 DEF NextPart, writerVars, handlerVars, modeVars
  <2>10. CASE StartStaServer
    BY <2>10 DEF StartStaServer, writerVars, handlerVars, modeVars
  <2>11. CASE EnterStation
    BY <2>11 DEF EnterStation, writerVars, handlerVars, modeVars
  <2>12. ASSUME NEW t \in Switchers, StopStaServer(t)
        PROVE  TypeOK'
    BY <2>12 DEF StopStaServer, writerVars, handlerVars, modeVars
  <2>13. CASE ForgetStation
    BY <2>13 DEF ForgetStation, writerVars, handlerVars, modeVars
  <2>14. CASE UNCHANGED vars
    BY <2>14 DEF vars, writerVars, handlerVars, modeVars
  <2>15. CASE WriteStale
    BY <2>15 DEF WriteStale, Stale, writerVars, handlerVars, modeVars
  <2>16. QED
    BY <2>1, <2>2, <2>3, <2>4, <2>5, <2>6, <2>7, <2>8, <2>9, <2>10, <2>11,
       <2>12, <2>13, <2>14, <2>15 DEF Next, HandlerStep, WriterStep, Stopped
<1>3. QED
  BY <1>1, <1>2, PTL DEF Spec

\* Only while server_task is about to forget it does the global hold a stream
\* on which a write has failed.
FailedForgotten ==
    http_event_stream # NoStream /\ conn[http_event_stream] = "failed" => at = "forget"

\* Strengthening of FailedNotWritten: the failure is acted on before any other
\* access of server_task.
THEOREM FailureActedOn == Spec => []FailedForgotten
<1>1. Init => FailedForgotten
  BY StreamsAssumption, SwitchersAssumption DEF Init, FailedForgotten
<1>2. TypeOK /\ FailedForgotten /\ [Next]_vars => FailedForgotten'
  <2> SUFFICES ASSUME TypeOK, FailedForgotten, [Next]_vars
               PROVE  FailedForgotten'
    OBVIOUS
  <2> USE StreamsAssumption, SwitchersAssumption DEF TypeOK, FailedForgotten, Writable
  <2>1. ASSUME NEW s \in Streams, Leave(s)
        PROVE  FailedForgotten'
    BY <2>1 DEF Leave, writerVars, handlerVars, modeVars
  <2>2. ASSUME NEW s \in Streams, Register(s)
        PROVE  FailedForgotten'
    BY <2>2 DEF Register, writerVars, handlerVars, modeVars
  <2>3. CASE EnableChunked
    BY <2>3 DEF EnableChunked, writerVars, handlerVars, modeVars
  <2>4. CASE WriteHeader
    BY <2>4 DEF WriteHeader, writerVars, handlerVars, modeVars
  <2>5. CASE BeginUpdate
    BY <2>5 DEF BeginUpdate, writerVars, handlerVars, modeVars
  <2>6. CASE WriteSucceeds
    BY <2>6 DEF WriteSucceeds, writerVars, handlerVars, modeVars
  <2>7. CASE WriteFails
    BY <2>7 DEF WriteFails, writerVars, handlerVars, modeVars
  <2>8. CASE Forget
    BY <2>8 DEF Forget, writerVars, handlerVars, modeVars
  <2>9. CASE NextPart
    BY <2>9 DEF NextPart, writerVars, handlerVars, modeVars
  <2>10. CASE StartStaServer
    BY <2>10 DEF StartStaServer, writerVars, handlerVars, modeVars
  <2>11. CASE EnterStation
    BY <2>11 DEF EnterStation, writerVars, handlerVars, modeVars
  <2>12. ASSUME NEW t \in Switchers, StopStaServer(t)
        PROVE  FailedForgotten'
    BY <2>12 DEF StopStaServer, writerVars, handlerVars, modeVars
  <2>13. CASE ForgetStation
    BY <2>13 DEF ForgetStation, writerVars, handlerVars, modeVars
  <2>14. CASE UNCHANGED vars
    BY <2>14 DEF vars, writerVars, handlerVars, modeVars
  <2>15. CASE WriteStale
    BY <2>15 DEF WriteStale, Stale, writerVars, handlerVars, modeVars
  <2>16. QED
    BY <2>1, <2>2, <2>3, <2>4, <2>5, <2>6, <2>7, <2>8, <2>9, <2>10, <2>11,
       <2>12, <2>13, <2>14, <2>15 DEF Next, HandlerStep, WriterStep, Stopped
<1>3. QED
  BY <1>1, <1>2, TypeCorrect, PTL DEF Spec

\* No part of an update is written to a stream after a write on it has failed.
THEOREM FailedNeverWritten == Spec => []FailedNotWritten
<1>1. FailedForgotten => FailedNotWritten
  BY DEF FailedForgotten, FailedNotWritten
<1>2. QED
  BY <1>1, FailureActedOn, PTL

\* server_task is in its main loop when it begins an update, and leaves the loop
\* only between two updates.
FreshStream ==
    /\ NoStaleStream
    /\ switcher = "server_task" => at = "turn"

\* No stream of a deleted server is left in the global when the next station
\* mode begins, and only wifi_connect_task can make server_task write one.
THEOREM NeverStale == Spec => []NoStaleStream
<1>1. Init => FreshStream
  BY StreamsAssumption, SwitchersAssumption DEF Init, FreshStream, NoStaleStream, Stale
<1>2. TypeOK /\ FreshStream /\ [Next]_vars => FreshStream'
  <2> SUFFICES ASSUME TypeOK, FreshStream, [Next]_vars
               PROVE  FreshStream'
    OBVIOUS
  <2> USE StreamsAssumption, SwitchersAssumption DEF TypeOK, FreshStream, NoStaleStream, Stale, InLoop, Writable
  <2>1. ASSUME NEW s \in Streams, Leave(s)
        PROVE  FreshStream'
    BY <2>1 DEF Leave, writerVars, handlerVars, modeVars
  <2>2. ASSUME NEW s \in Streams, Register(s)
        PROVE  FreshStream'
    BY <2>2 DEF Register, writerVars, handlerVars, modeVars
  <2>3. CASE EnableChunked
    BY <2>3 DEF EnableChunked, writerVars, handlerVars, modeVars
  <2>4. CASE WriteHeader
    BY <2>4 DEF WriteHeader, writerVars, handlerVars, modeVars
  <2>5. CASE BeginUpdate
    BY <2>5 DEF BeginUpdate, writerVars, handlerVars, modeVars
  <2>6. CASE WriteSucceeds
    BY <2>6 DEF WriteSucceeds, writerVars, handlerVars, modeVars
  <2>7. CASE WriteFails
    BY <2>7 DEF WriteFails, writerVars, handlerVars, modeVars
  <2>8. CASE Forget
    BY <2>8 DEF Forget, writerVars, handlerVars, modeVars
  <2>9. CASE NextPart
    BY <2>9 DEF NextPart, writerVars, handlerVars, modeVars
  <2>10. CASE StartStaServer
    BY <2>10 DEF StartStaServer, writerVars, handlerVars, modeVars
  <2>11. CASE EnterStation
    BY <2>11 DEF EnterStation, writerVars, handlerVars, modeVars
  <2>12. ASSUME NEW t \in Switchers, StopStaServer(t)
        PROVE  FreshStream'
    BY <2>12 DEF StopStaServer, writerVars, handlerVars, modeVars
  <2>13. CASE ForgetStation
    BY <2>13 DEF ForgetStation, writerVars, handlerVars, modeVars
  <2>14. CASE UNCHANGED vars
    BY <2>14 DEF vars, writerVars, handlerVars, modeVars
  <2>15. CASE WriteStale
    BY <2>15 DEF WriteStale, Stale, writerVars, handlerVars, modeVars
  <2>16. QED
    BY <2>1, <2>2, <2>3, <2>4, <2>5, <2>6, <2>7, <2>8, <2>9, <2>10, <2>11,
       <2>12, <2>13, <2>14, <2>15 DEF Next, HandlerStep, WriterStep, Stopped
<1>3. FreshStream => NoStaleStream
  BY DEF FreshStream
<1>4. QED
  BY <1>1, <1>2, <1>3, TypeCorrect, PTL DEF Spec

\* When no task but server_task returns to provisioning, a stream of a deleted
\* server is never written.
THEOREM ServerTaskNeverWritesStale ==
    ASSUME Switchers \subseteq {"server_task"}
    PROVE  Spec => []StaleNotWritten
<1>1. TypeOK /\ NoStaleStream => StaleNotWritten
  BY DEF TypeOK, NoStaleStream, StaleNotWritten
<1>2. QED
  BY <1>1, TypeCorrect, NeverStale, PTL

\* The handler waits with the stream it has registered, which the other thread
\* may only forget.
HeaderKept ==
    /\ handler = "idle" => serves = NoStream
    /\ handler # "idle" => serves \in Streams /\ http_event_stream \in {serves, NoStream}
    /\ http_event_stream # NoStream => http_event_stream \in header \/ serves = http_event_stream
    /\ HeaderFollows

\* Every browser that gets a part of an update has the header of the response, or
\* the handler is still about to write it.
THEOREM HeaderAlwaysFollows == Spec => []HeaderFollows
<1>1. Init => HeaderKept
  BY StreamsAssumption, SwitchersAssumption DEF Init, HeaderKept, HeaderFollows
<1>2. TypeOK /\ HeaderKept /\ [Next]_vars => HeaderKept'
  <2> SUFFICES ASSUME TypeOK, HeaderKept, [Next]_vars
               PROVE  HeaderKept'
    OBVIOUS
  <2> USE StreamsAssumption, SwitchersAssumption DEF TypeOK, HeaderKept, HeaderFollows, Writable
  <2>1. ASSUME NEW s \in Streams, Leave(s)
        PROVE  HeaderKept'
    BY <2>1 DEF Leave, writerVars, handlerVars, modeVars
  <2>2. ASSUME NEW s \in Streams, Register(s)
        PROVE  HeaderKept'
    BY <2>2 DEF Register, writerVars, handlerVars, modeVars
  <2>3. CASE EnableChunked
    BY <2>3 DEF EnableChunked, writerVars, handlerVars, modeVars
  <2>4. CASE WriteHeader
    BY <2>4 DEF WriteHeader, writerVars, handlerVars, modeVars
  <2>5. CASE BeginUpdate
    BY <2>5 DEF BeginUpdate, writerVars, handlerVars, modeVars
  <2>6. CASE WriteSucceeds
    BY <2>6 DEF WriteSucceeds, writerVars, handlerVars, modeVars
  <2>7. CASE WriteFails
    BY <2>7 DEF WriteFails, writerVars, handlerVars, modeVars
  <2>8. CASE Forget
    BY <2>8 DEF Forget, writerVars, handlerVars, modeVars
  <2>9. CASE NextPart
    BY <2>9 DEF NextPart, writerVars, handlerVars, modeVars
  <2>10. CASE StartStaServer
    BY <2>10 DEF StartStaServer, writerVars, handlerVars, modeVars
  <2>11. CASE EnterStation
    BY <2>11 DEF EnterStation, writerVars, handlerVars, modeVars
  <2>12. ASSUME NEW t \in Switchers, StopStaServer(t)
        PROVE  HeaderKept'
    BY <2>12 DEF StopStaServer, writerVars, handlerVars, modeVars
  <2>13. CASE ForgetStation
    BY <2>13 DEF ForgetStation, writerVars, handlerVars, modeVars
  <2>14. CASE UNCHANGED vars
    BY <2>14 DEF vars, writerVars, handlerVars, modeVars
  <2>15. CASE WriteStale
    BY <2>15 DEF WriteStale, Stale, writerVars, handlerVars, modeVars
  <2>16. QED
    BY <2>1, <2>2, <2>3, <2>4, <2>5, <2>6, <2>7, <2>8, <2>9, <2>10, <2>11,
       <2>12, <2>13, <2>14, <2>15 DEF Next, HandlerStep, WriterStep, Stopped
<1>3. HeaderKept => HeaderFollows
  BY DEF HeaderKept
<1>4. QED
  BY <1>1, <1>2, <1>3, TypeCorrect, PTL DEF Spec

\* The four facts together: the place in the global is safe to use at every step
\* of server_task, whatever the other threads have done.
THEOREM AlwaysSafe == Spec => []StreamSafe
<1>1. TypeOK /\ FailedNotWritten /\ NoStaleStream /\ HeaderFollows => StreamSafe
  BY DEF StreamSafe
<1>2. QED
  BY <1>1, TypeCorrect, FailedNeverWritten, NeverStale, HeaderAlwaysFollows, PTL

\* What the registered stream has got agrees with where server_task stands in
\* the update; a stream not opened yet has got nothing.
InStep ==
    /\ \A s \in Streams : conn[s] = "new" => sent[s] = 0
    /\ at = "turn" => part = 1
    /\ http_event_stream # NoStream => conn[http_event_stream] # "new"
    /\ \A s \in Streams : http_event_stream = s /\ sent[s] # 0 /\ conn[s] # "closed" =>
          CASE at = "turn"   -> sent[s] = Last
            [] at = "write"  -> part = (sent[s] % Last) + 1
            [] at = "test"   -> sent[s] = part
            [] at = "forget" -> conn[s] # "open"

\* Strengthening of NoTornUpdate: server_task and the registered stream are
\* never out of step.
THEOREM AlwaysInStep == Spec => []InStep
<1>1. Init => InStep
  BY StreamsAssumption, SwitchersAssumption DEF Init, InStep, Parts, Last
<1>2. TypeOK /\ InStep /\ [Next]_vars => InStep'
  <2> SUFFICES ASSUME TypeOK, InStep, [Next]_vars
               PROVE  InStep'
    OBVIOUS
  <2> USE StreamsAssumption, SwitchersAssumption DEF TypeOK, InStep, Parts, Last, Writable
  <2>1. ASSUME NEW s \in Streams, Leave(s)
        PROVE  InStep'
    BY <2>1 DEF Leave, writerVars, handlerVars, modeVars
  <2>2. ASSUME NEW s \in Streams, Register(s)
        PROVE  InStep'
    BY <2>2 DEF Register, writerVars, handlerVars, modeVars
  <2>3. CASE EnableChunked
    BY <2>3 DEF EnableChunked, writerVars, handlerVars, modeVars
  <2>4. CASE WriteHeader
    BY <2>4 DEF WriteHeader, writerVars, handlerVars, modeVars
  <2>5. CASE BeginUpdate
    BY <2>5 DEF BeginUpdate, writerVars, handlerVars, modeVars
  <2>6. CASE WriteSucceeds
    BY <2>6 DEF WriteSucceeds, writerVars, handlerVars, modeVars
  <2>7. CASE WriteFails
    BY <2>7 DEF WriteFails, writerVars, handlerVars, modeVars
  <2>8. CASE Forget
    BY <2>8 DEF Forget, writerVars, handlerVars, modeVars
  <2>9. CASE NextPart
    <3> USE <2>9 DEF NextPart
    <3>1. UNCHANGED <<http_event_stream, conn, sent>>
      OBVIOUS
    <3>2. at' = "turn" => part' = 1
      OBVIOUS
    <3>3. ASSUME NEW s \in Streams, http_event_stream = s, sent[s] # 0,
                 conn[s] # "closed"
          PROVE  CASE at' = "turn"   -> sent[s] = Last
                   [] at' = "write"  -> part' = (sent[s] % Last) + 1
                   [] at' = "test"   -> sent[s] = part'
                   [] at' = "forget" -> conn[s] # "open"
      <4>1. sent[s] = part /\ s # NoStream
        BY <3>3
      <4>2. CASE part = Last
        BY <3>3, <4>1, <4>2
      <4>3. CASE part = 1
        BY <3>3, <4>1, <4>3
      <4>4. CASE part = 2
        <5>1. part' = 3 /\ at' = "write"
          BY <3>3, <4>1, <4>4
        <5>2. (sent[s] % Last) + 1 = 3
          BY <4>1, <4>4
        <5>3. QED
          BY <5>1, <5>2
      <4>5. part = Last \/ part = 1 \/ part = 2
        OBVIOUS
      <4>6. QED
        BY <4>2, <4>3, <4>4, <4>5, Zenon
    <3>4. QED
      BY <3>1, <3>2, <3>3
  <2>10. CASE StartStaServer
    BY <2>10 DEF StartStaServer, writerVars, handlerVars, modeVars
  <2>11. CASE EnterStation
    BY <2>11 DEF EnterStation, writerVars, handlerVars, modeVars
  <2>12. ASSUME NEW t \in Switchers, StopStaServer(t)
        PROVE  InStep'
    BY <2>12 DEF StopStaServer, writerVars, handlerVars, modeVars
  <2>13. CASE ForgetStation
    BY <2>13 DEF ForgetStation, writerVars, handlerVars, modeVars
  <2>14. CASE UNCHANGED vars
    BY <2>14 DEF vars, writerVars, handlerVars, modeVars
  <2>15. CASE WriteStale
    BY <2>15 DEF WriteStale, Stale, writerVars, handlerVars, modeVars
  <2>16. QED
    BY <2>1, <2>2, <2>3, <2>4, <2>5, <2>6, <2>7, <2>8, <2>9, <2>10, <2>11,
       <2>12, <2>13, <2>14, <2>15 DEF Next, HandlerStep, WriterStep, Stopped
<1>3. QED
  BY <1>1, <1>2, TypeCorrect, PTL DEF Spec

\* Whatever browsers come, leave or take each other's place during an update,
\* none of them gets its parts out of order.
THEOREM NeverTorn == Spec => NoTornUpdate
<1> DEFINE Whole ==
      \A s \in Streams :
          at = "write" /\ at' = "test" /\ http_event_stream = s /\ sent[s] # 0 /\ ~Stale
              => sent'[s] = (sent[s] % Last) + 1
<1>1. TypeOK /\ InStep /\ [Next]_vars => [Whole]_vars
  <2> SUFFICES ASSUME TypeOK, InStep, [Next]_vars,
                      NEW s \in Streams,
                      at = "write", at' = "test", http_event_stream = s, sent[s] # 0, ~Stale
               PROVE  sent'[s] = (sent[s] % Last) + 1
    OBVIOUS
  <2>1. CASE WriteSucceeds
    <3>1. sent'[s] = part
      BY <2>1 DEF WriteSucceeds, TypeOK
    <3>2. part = (sent[s] % Last) + 1
      BY StreamsAssumption DEF InStep, Stale, TypeOK
    <3>3. QED
      BY <3>1, <3>2
  <2>2. CASE ~WriteSucceeds
    <3> USE <2>2
    <3>1. ASSUME NEW r \in Streams, Leave(r)
          PROVE  FALSE
      BY <3>1 DEF Leave, writerVars
    <3>2. ASSUME NEW r \in Streams, Register(r)
          PROVE  FALSE
      BY <3>2 DEF Register, writerVars
    <3>3. CASE EnableChunked
      BY <3>3 DEF EnableChunked, writerVars
    <3>4. CASE WriteHeader
      BY <3>4 DEF WriteHeader, writerVars
    <3>5. CASE BeginUpdate
      BY <3>5 DEF BeginUpdate, writerVars
    <3>7. CASE WriteFails
      BY <3>7 DEF WriteFails, writerVars
    <3>8. CASE Forget
      BY <3>8 DEF Forget, writerVars
    <3>9. CASE NextPart
      BY <3>9 DEF NextPart, writerVars
    <3>10. CASE StartStaServer
      BY <3>10 DEF StartStaServer, writerVars
    <3>11. CASE EnterStation
      BY <3>11 DEF EnterStation, writerVars
    <3>12. ASSUME NEW t \in Switchers, StopStaServer(t)
          PROVE  FALSE
      BY <3>12 DEF StopStaServer, writerVars
    <3>13. CASE ForgetStation
      BY <3>13 DEF ForgetStation, writerVars
    <3>14. CASE UNCHANGED vars
      BY <3>14 DEF vars, writerVars
    <3>15. CASE WriteStale
      BY <3>15 DEF WriteStale
    <3>16. QED
      BY <3>1, <3>2, <3>3, <3>4, <3>5, <3>7, <3>8, <3>9, <3>10, <3>11, <3>12, <3>13,
         <3>14, <3>15 DEF Next, HandlerStep, WriterStep, Stopped
  <2>3. QED
    BY <2>1, <2>2
<1>2. QED
  BY <1>1, TypeCorrect, AlwaysInStep, PTL DEF Spec, NoTornUpdate

-----------------------------------------------------------------------------
(* The advertisement.                                                      *)

\* A counter that starts again is within its interval.
LEMMA ZeroInIntervals ==
    /\ 0 \in 0 .. RetryTurns - 1 /\ 0 \in 0 .. ReannounceTurns
    /\ 0 \in 0 .. 255 /\ 0 \in 0 .. ReannounceCount + 1
    /\ 1 \in 0 .. ReannounceCount + 1 /\ ReannounceCount \in 0 .. 255
  BY NumbersAssumption

\* The decrement of a uint8_t wraps at zero only.
LEMMA Decrement ==
    ASSUME NEW n \in 0 .. 255
    PROVE  /\ (n + 255) % 256 \in 0 .. 255
           /\ n > 0 => (n + 255) % 256 = n - 1
  OBVIOUS

\* What is true between the tests of a repetition and the end of its counting: a
\* stop of the other task takes the flag down, and the flag comes up again only
\* in a later turn; an advertisement that is down has announced nothing.
Repeating ==
    /\ active /\ place \in {"repeat", "announce", "announced", "count"} => remaining > 0
    /\ active /\ place = "count" => loaded = remaining
    /\ reannounce = ReannounceTurns => place \in {"announce", "announced"}
    /\ ~active => announced = 0

\* Types, flag, counters and responder agree at every step, also between the tests
\* of a start and its registration, and whichever task stops the advertisement.
THEOREM AlwaysAgree == MdnsSpec => []Advertising
<1>1. MdnsInit => Advertising /\ Repeating
  <2>1. MdnsInit => MdnsType
    BY ZeroInIntervals DEF MdnsInit, MdnsType
  <2>2. MdnsInit => FlagMatchesResponder /\ AnnouncementsAccounted
    BY DEF MdnsInit, FlagMatchesResponder, AnnouncementsAccounted
  <2>3. MdnsInit => Repeating
    BY NumbersAssumption DEF MdnsInit, Repeating
  <2>4. QED
    BY <2>1, <2>2, <2>3 DEF Advertising
<1>2. Advertising /\ Repeating /\ [MdnsNext]_mdnsVars => Advertising' /\ Repeating'
  <2> SUFFICES ASSUME Advertising, Repeating, [MdnsNext]_mdnsVars
               PROVE  Advertising' /\ Repeating'
    OBVIOUS
  <2> USE NumbersAssumption, ZeroInIntervals
      DEF Advertising, MdnsType, FlagMatchesResponder, AnnouncementsAccounted,
          Uncounted, Repeating
  <2>1. CASE Join
    BY <2>1 DEF Join, flagVars, lwipVars, linkVars, placeVars, switchVars
  <2>2. CASE GetAddress
    BY <2>2 DEF GetAddress, flagVars, lwipVars, linkVars, placeVars, switchVars
  <2>3. CASE LoseLink
    <3>1. /\ connected' = FALSE /\ ready' = FALSE
          /\ UNCHANGED <<active, retry, reannounce, remaining, responder, announced,
                         reconfigured, place, loaded, entering, switch, stopper>>
      BY <2>3 DEF LoseLink, flagVars, lwipVars, linkVars, placeVars, switchVars
    <3>2. MdnsType'
      <4>1. /\ retry' \in 0 .. RetryTurns - 1 /\ reannounce' \in 0 .. ReannounceTurns
            /\ remaining' \in 0 .. 255 /\ loaded' \in 0 .. 255
            /\ announced' \in 0 .. ReannounceCount + 1
        BY <3>1
      <4>2. /\ active' \in BOOLEAN /\ connected' \in BOOLEAN /\ ready' \in BOOLEAN
            /\ reconfigured' \in BOOLEAN /\ entering' \in BOOLEAN
        BY <3>1
      <4>3. /\ responder' \in {"none", "host", "service"}
            /\ switch' \in {"none", "stopped", "disconnected"}
            /\ stopper' \in Stoppers \cup {"none"}
            /\ place' \in {"loop", "check", "register", "retry", "repeat", "announce",
                          "announced", "count"}
        BY <3>1
      <4>4. QED
        BY <4>1, <4>2, <4>3, Zenon
    <3>3. FlagMatchesResponder' /\ AnnouncementsAccounted' /\ Repeating'
      BY <3>1
    <3>4. QED
      BY <3>2, <3>3
  <2>4. CASE NotReady
    BY <2>4 DEF NotReady, flagVars, lwipVars, linkVars, placeVars, switchVars, StartReturns
  <2>5. CASE Checked
    BY <2>5 DEF Checked, flagVars, lwipVars, linkVars, placeVars, switchVars
  <2>6. CASE RegistrationFails
    BY <2>6 DEF RegistrationFails, flagVars, lwipVars, linkVars, placeVars, switchVars, StartReturns
  <2>7. CASE RegisterHost
    <3>1. /\ active' = TRUE /\ retry' = 0 /\ reannounce' = 0 /\ remaining' = ReannounceCount
          /\ loaded' = loaded /\ responder' = "service" /\ announced' = 1
          /\ UNCHANGED <<connected, ready, switch, stopper>>
      BY <2>7 DEF RegisterHost, StartReturns, linkVars, switchVars
    <3>2. announced' + remaining' = ReannounceCount + 1
      BY <3>1
    <3>3. place' = "loop" /\ entering' \in BOOLEAN /\ reconfigured' \in BOOLEAN
      BY <2>7 DEF RegisterHost, StartReturns
    <3>4. QED
      BY <3>1, <3>2, <3>3
  <2>8. CASE BecomeStation
    BY <2>8 DEF BecomeStation, flagVars, lwipVars, linkVars, placeVars, switchVars
  <2>9. CASE ServiceRests
    BY <2>9 DEF ServiceRests, flagVars, lwipVars, linkVars, placeVars, switchVars
  <2>10. CASE CountRetry
    BY <2>10 DEF CountRetry, flagVars, lwipVars, linkVars, placeVars, switchVars, InTurn
  <2>11. CASE Retry
    BY <2>11 DEF Retry, flagVars, lwipVars, linkVars, placeVars, switchVars, InTurn
  <2>12. CASE CountReannounce
    BY <2>12 DEF CountReannounce, flagVars, lwipVars, linkVars, placeVars, switchVars, InTurn
  <2>13. CASE Reannounce
    BY <2>13 DEF Reannounce, flagVars, lwipVars, linkVars, placeVars, switchVars, InTurn
  <2>14. ASSUME NEW t \in Stoppers, SwitchStops(t)
        PROVE  Advertising' /\ Repeating'
    <3>1. /\ active' = FALSE /\ retry' = 0 /\ reannounce' = 0 /\ remaining' = 0
          /\ responder' = "none" /\ announced' = 0
          /\ switch' = "stopped" /\ stopper' = t
          /\ UNCHANGED <<connected, ready, reconfigured, place, loaded, entering>>
      BY <2>14 DEF SwitchStops, flagVars, lwipVars, linkVars, placeVars, switchVars, Stop
    <3>2. MdnsType'
      <4>1. /\ retry' \in 0 .. RetryTurns - 1 /\ reannounce' \in 0 .. ReannounceTurns
            /\ remaining' \in 0 .. 255 /\ loaded' \in 0 .. 255
            /\ announced' \in 0 .. ReannounceCount + 1
        BY <3>1
      <4>2. /\ active' \in BOOLEAN /\ connected' \in BOOLEAN /\ ready' \in BOOLEAN
            /\ reconfigured' \in BOOLEAN /\ entering' \in BOOLEAN
        BY <3>1
      <4>3. /\ responder' \in {"none", "host", "service"}
            /\ switch' \in {"none", "stopped", "disconnected"}
            /\ stopper' \in Stoppers \cup {"none"}
            /\ place' \in {"loop", "check", "register", "retry", "repeat", "announce",
                          "announced", "count"}
        BY <3>1
      <4>4. QED
        BY <4>1, <4>2, <4>3, Zenon
    <3>3. FlagMatchesResponder' /\ AnnouncementsAccounted' /\ Repeating'
      BY <3>1
    <3>4. QED
      BY <3>2, <3>3
  <2>15. CASE SwitchDisconnects
    <3>1. /\ connected' = FALSE /\ ready' = FALSE /\ switch' = "disconnected"
          /\ UNCHANGED <<active, retry, reannounce, remaining, responder, announced,
                         reconfigured, place, loaded, entering, stopper>>
      BY <2>15 DEF SwitchDisconnects, flagVars, lwipVars, linkVars, placeVars, switchVars
    <3>2. MdnsType'
      <4>1. /\ retry' \in 0 .. RetryTurns - 1 /\ reannounce' \in 0 .. ReannounceTurns
            /\ remaining' \in 0 .. 255 /\ loaded' \in 0 .. 255
            /\ announced' \in 0 .. ReannounceCount + 1
        BY <3>1
      <4>2. /\ active' \in BOOLEAN /\ connected' \in BOOLEAN /\ ready' \in BOOLEAN
            /\ reconfigured' \in BOOLEAN /\ entering' \in BOOLEAN
        BY <3>1
      <4>3. /\ responder' \in {"none", "host", "service"}
            /\ switch' \in {"none", "stopped", "disconnected"}
            /\ stopper' \in Stoppers \cup {"none"}
            /\ place' \in {"loop", "check", "register", "retry", "repeat", "announce",
                          "announced", "count"}
        BY <3>1
      <4>4. QED
        BY <4>1, <4>2, <4>3, Zenon
    <3>3. FlagMatchesResponder' /\ AnnouncementsAccounted' /\ Repeating'
      BY <3>1
    <3>4. QED
      BY <3>2, <3>3
  <2>16. CASE SwitchResets
    <3>1. /\ active' = FALSE /\ retry' = 0 /\ reannounce' = 0 /\ remaining' = 0
          /\ responder' = "none" /\ announced' = 0
          /\ switch' = "none" /\ stopper' = "none" /\ reconfigured' = FALSE
          /\ UNCHANGED <<connected, ready, place, loaded, entering>>
      BY <2>16 DEF SwitchResets, flagVars, lwipVars, linkVars, placeVars, switchVars, Stop
    <3>2. MdnsType'
      <4>1. /\ retry' \in 0 .. RetryTurns - 1 /\ reannounce' \in 0 .. ReannounceTurns
            /\ remaining' \in 0 .. 255 /\ loaded' \in 0 .. 255
            /\ announced' \in 0 .. ReannounceCount + 1
        BY <3>1
      <4>2. /\ active' \in BOOLEAN /\ connected' \in BOOLEAN /\ ready' \in BOOLEAN
            /\ reconfigured' \in BOOLEAN /\ entering' \in BOOLEAN
        BY <3>1
      <4>3. /\ responder' \in {"none", "host", "service"}
            /\ switch' \in {"none", "stopped", "disconnected"}
            /\ stopper' \in Stoppers \cup {"none"}
            /\ place' \in {"loop", "check", "register", "retry", "repeat", "announce",
                          "announced", "count"}
        BY <3>1
      <4>4. QED
        BY <4>1, <4>2, <4>3, Zenon
    <3>3. FlagMatchesResponder' /\ AnnouncementsAccounted' /\ Repeating'
      BY <3>1
    <3>4. QED
      BY <3>2, <3>3
  <2>17. CASE UNCHANGED mdnsVars
    BY <2>17 DEF mdnsVars, flagVars, lwipVars, linkVars, placeVars, switchVars
  <2>18. CASE ServiceTests
    BY <2>18 DEF ServiceTests, flagVars, lwipVars, linkVars, placeVars, switchVars, InTurn
  <2>19. CASE LoadRemaining
    BY <2>19 DEF LoadRemaining, flagVars, lwipVars, linkVars, placeVars, switchVars, InTurn
  <2>20. CASE StoreRemaining
    <3>1. /\ remaining' = (loaded + 255) % 256 /\ place = "count" /\ place' = "loop"
          /\ UNCHANGED <<active, retry, reannounce, responder, announced, connected, ready,
                         reconfigured, loaded, entering, switch, stopper>>
      BY <2>20 DEF StoreRemaining, flagVars, lwipVars, linkVars, placeVars, switchVars, InTurn
    <3>2. remaining' \in 0 .. 255 /\ (loaded > 0 => remaining' = loaded - 1)
      BY <3>1, Decrement
    <3>3. active => remaining' = remaining - 1
      BY <3>1, <3>2
    <3> HIDE DEF Repeating
    <3>4. MdnsType' /\ FlagMatchesResponder'
      BY <3>1, <3>2
    <3>5. AnnouncementsAccounted' /\ Repeating'
      BY <3>1, <3>2, <3>3 DEF Repeating
    <3>6. QED
      BY <3>4, <3>5
  <2>21. QED
    BY <2>1, <2>2, <2>3, <2>4, <2>5, <2>6, <2>7, <2>8, <2>9, <2>10,
       <2>11, <2>12, <2>13, <2>14, <2>15, <2>16, <2>17, <2>18, <2>19,
       <2>20 DEF MdnsNext, ServerStep
<1>3. QED
  BY <1>1, <1>2, PTL DEF MdnsSpec

\* With wifi_connect_task out of the way, the device does not advertise itself in
\* the provisioning mode: server_task never comes between its own tests and the
\* registration.
Quiet ==
    /\ QuietInProvisioning
    /\ place # "loop" => switch = "none"
    /\ place # "loop" /\ ~entering => reconfigured
    /\ entering => place \in {"check", "register"}
    /\ switch # "none" => reconfigured /\ stopper = "server_task"

THEOREM ServerTaskAlwaysQuiet ==
    ASSUME Stoppers = {"server_task"}
    PROVE  MdnsSpec => []QuietInProvisioning
<1>1. MdnsInit => Quiet
  BY DEF MdnsInit, Quiet, QuietInProvisioning
<1>2. Advertising /\ Quiet /\ [MdnsNext]_mdnsVars => Quiet'
  <2> SUFFICES ASSUME Advertising, Quiet, [MdnsNext]_mdnsVars
               PROVE  Quiet'
    OBVIOUS
  <2> USE DEF Advertising, FlagMatchesResponder, Quiet, QuietInProvisioning, ServerInLoop
  <2>1. CASE Join
    BY <2>1 DEF Join, flagVars, lwipVars, linkVars, placeVars, switchVars
  <2>2. CASE GetAddress
    BY <2>2 DEF GetAddress, flagVars, lwipVars, linkVars, placeVars, switchVars
  <2>3. CASE LoseLink
    BY <2>3 DEF LoseLink, flagVars, lwipVars, linkVars, placeVars, switchVars
  <2>4. CASE NotReady
    BY <2>4 DEF NotReady, flagVars, lwipVars, linkVars, placeVars, switchVars, StartReturns
  <2>5. CASE Checked
    BY <2>5 DEF Checked, flagVars, lwipVars, linkVars, placeVars, switchVars
  <2>6. CASE RegistrationFails
    BY <2>6 DEF RegistrationFails, flagVars, lwipVars, linkVars, placeVars, switchVars, StartReturns
  <2>7. CASE RegisterHost
    BY <2>7 DEF RegisterHost, flagVars, lwipVars, linkVars, placeVars, switchVars, StartReturns
  <2>8. CASE BecomeStation
    BY <2>8 DEF BecomeStation, flagVars, lwipVars, linkVars, placeVars, switchVars
  <2>9. CASE ServiceRests
    BY <2>9 DEF ServiceRests, flagVars, lwipVars, linkVars, placeVars, switchVars
  <2>10. CASE CountRetry
    BY <2>10 DEF CountRetry, flagVars, lwipVars, linkVars, placeVars, switchVars, InTurn
  <2>11. CASE Retry
    BY <2>11 DEF Retry, flagVars, lwipVars, linkVars, placeVars, switchVars, InTurn
  <2>12. CASE CountReannounce
    BY <2>12 DEF CountReannounce, flagVars, lwipVars, linkVars, placeVars, switchVars, InTurn
  <2>13. CASE Reannounce
    BY <2>13 DEF Reannounce, flagVars, lwipVars, linkVars, placeVars, switchVars, InTurn
  <2>14. ASSUME NEW t \in Stoppers, SwitchStops(t)
        PROVE  Quiet'
    BY <2>14 DEF SwitchStops, flagVars, lwipVars, linkVars, placeVars, switchVars, Stop
  <2>15. CASE SwitchDisconnects
    BY <2>15 DEF SwitchDisconnects, flagVars, lwipVars, linkVars, placeVars, switchVars
  <2>16. CASE SwitchResets
    BY <2>16 DEF SwitchResets, flagVars, lwipVars, linkVars, placeVars, switchVars, Stop
  <2>17. CASE UNCHANGED mdnsVars
    BY <2>17 DEF mdnsVars, flagVars, lwipVars, linkVars, placeVars, switchVars
  <2>18. CASE ServiceTests
    BY <2>18 DEF ServiceTests, flagVars, lwipVars, linkVars, placeVars, switchVars, InTurn
  <2>19. CASE LoadRemaining
    BY <2>19 DEF LoadRemaining, flagVars, lwipVars, linkVars, placeVars, switchVars, InTurn
  <2>20. CASE StoreRemaining
    BY <2>20 DEF StoreRemaining, flagVars, lwipVars, linkVars, placeVars, switchVars, InTurn
  <2>21. QED
    BY <2>1, <2>2, <2>3, <2>4, <2>5, <2>6, <2>7, <2>8, <2>9, <2>10,
       <2>11, <2>12, <2>13, <2>14, <2>15, <2>16, <2>17, <2>18, <2>19,
       <2>20 DEF MdnsNext, ServerStep
<1>3. Quiet => QuietInProvisioning
  BY DEF Quiet
<1>4. QED
  BY <1>1, <1>2, <1>3, AlwaysAgree, PTL DEF MdnsSpec

-----------------------------------------------------------------------------
(* The list of networks.                                                   *)

\* The buffer holds nothing, or the listing as far as it fits and then a NUL.
Blank == \A i \in Positions : ssid_buff[i] = Nul
Written == /\ \A i \in 1 .. Fitting : ssid_buff[i - 1] = listing[i]
           /\ ssid_buff[Fitting] = Nul

\* What handler and callback rely on: the flag is down during a scan and the
\* handler waits; the position left by the scan before is only met with a blank
\* buffer and before the first result; and when the flag is up the buffer is
\* complete.
ScanInv ==
    /\ ScanListed
    /\ listing \in Seq(Found \cup {NewLine})
    /\ scanning => scanHandler = "wait" /\ ~scan_complete_flag
    /\ callback = "idle" /\ ~scanning => len = 0
    /\ scanHandler = "start" => Blank /\ ~scan_complete_flag
    /\ scanning /\ callback = "reset" => listing = <<>> /\ Blank
    /\ scanning /\ callback = "idle" => len = Fitting /\ Written
    /\ scanHandler = "wait" /\ scan_complete_flag => Written

\* The buffer has room for its terminating NUL.
LEMMA SomeCapacity == Capacity \in Nat /\ Capacity >= 1 /\ Positions = 0 .. Capacity - 1
BY ScanSizesAssumption DEF Positions

\* What fits of the listing ends inside the buffer, and it has no NUL in it.
LEMMA FittingInBuffer ==
    ASSUME listing \in Seq(Found \cup {NewLine})
    PROVE  /\ Fitting \in Positions /\ Fitting <= Len(listing)
           /\ \A i \in 1 .. Fitting : listing[i] \in Found \cup {NewLine}
           /\ listing = <<>> => Fitting = 0
<1>1. Len(listing) \in Nat /\ listing \in [1 .. Len(listing) -> Found \cup {NewLine}]
  OBVIOUS
<1>2. Fitting \in Positions /\ Fitting <= Len(listing)
  BY <1>1, SomeCapacity DEF Fitting
<1>3. 1 .. Fitting \subseteq 1 .. Len(listing)
  BY <1>1, <1>2, SomeCapacity
<1>4. listing = <<>> => Fitting = 0
  BY SomeCapacity DEF Fitting
<1>5. QED
  BY <1>1, <1>2, <1>3, <1>4

\* A reader of the string gets the listing as far as it fits.
LEMMA TextIsListing ==
    ASSUME ScanType, listing \in Seq(Found \cup {NewLine}), Written
    PROVE  Text = SubSeq(listing, 1, Fitting)
<1> DEFINE ends == {i \in Positions : ssid_buff[i] = Nul}
           end == CHOOSE i \in ends : \A j \in ends : i <= j
<1>1. Fitting \in ends
  BY FittingInBuffer DEF Written
<1>2. \A j \in ends : Fitting <= j
  <2> SUFFICES ASSUME NEW j \in Positions, j < Fitting
               PROVE  ssid_buff[j] # Nul
    BY FittingInBuffer, ScanSizesAssumption DEF Positions
  <2>1. j + 1 \in 1 .. Fitting /\ (j + 1) - 1 = j
    BY FittingInBuffer, ScanSizesAssumption DEF Positions
  <2>2. ssid_buff[j] = listing[j + 1] /\ listing[j + 1] \in Found \cup {NewLine}
    BY <2>1, FittingInBuffer DEF Written
  <2>3. QED
    BY <2>2, CellsAssumption
<1>3. end = Fitting
  <2>1. end \in ends /\ \A j \in ends : end <= j
    BY <1>1, <1>2
  <2>2. end \in Int /\ Fitting \in Int /\ end <= Fitting /\ Fitting <= end
    BY <2>1, <1>1, <1>2, SomeCapacity
  <2>3. QED
    BY <2>2
<1>4. Text = [i \in 1 .. Fitting |-> ssid_buff[i - 1]]
  BY <1>3 DEF Text
<1>5. Text = [i \in 1 .. Fitting |-> listing[i]]
  BY <1>4 DEF Written
<1>6. SubSeq(listing, 1, Fitting) = [i \in 1 .. Fitting |-> listing[i]]
  BY FittingInBuffer, ScanSizesAssumption DEF Positions
<1>7. QED
  BY <1>5, <1>6

\* A text that fits is appended whole.
LEMMA Appended ==
    ASSUME NEW offset \in Nat, NEW length \in Nat, offset + length < PageSize
    PROVE  AppendText(offset, length) = offset + length
BY ScanSizesAssumption DEF AppendText

\* Before the first scan there is nothing in the buffer.
LEMMA InitScanInv == ScanInit => ScanInv
<1> SUFFICES ASSUME ScanInit PROVE ScanInv
  OBVIOUS
<1>1. ScanType
  <2>1. len \in Positions /\ response_len \in Nat
    BY SomeCapacity DEF ScanInit
  <2>2. page \in Seq(Found \cup {NewLine})
    BY DEF ScanInit
  <2>3. ssid_buff \in [Positions -> Found \cup {NewLine, Nul}]
    BY DEF ScanInit
  <2>4. QED
    BY <2>1, <2>2, <2>3 DEF ScanInit, ScanType
<1>2. Terminated /\ PageListsThisScan /\ PageWhole
  BY DEF ScanInit, Terminated, PageListsThisScan, PageWhole
<1>3. listing \in Seq(Found \cup {NewLine})
  BY DEF ScanInit
<1>4. QED
  BY <1>1, <1>2, <1>3 DEF ScanInit, ScanInv, ScanListed

\* A result is the next line of the listing, as far as there is room.
LEMMA ResultKeeps ==
    ASSUME ScanInv, NEW r \in Found, NEW n \in 0 .. SsidLen, Result(r, n)
    PROVE  ScanInv'
<1> USE DEF Result
<1>1. ScanType /\ listing \in Seq(Found \cup {NewLine})
  BY DEF ScanInv, ScanListed
<1>2. len = Fitting /\ Written
  BY DEF ScanInv
<1>3. CASE n = 0
  <2>1. UNCHANGED <<ssid_buff, len, listing>>
    BY <1>3 DEF bufferVars
  <2>2. QED
    BY <2>1 DEF ScanInv, ScanListed, ScanType, Terminated, PageListsThisScan, PageWhole,
                Blank, Written, Fitting, responseVars
<1>4. CASE n # 0
  <2> DEFINE name == [i \in 1 .. n |-> r]
  <2>1. n \in Nat \ {0} /\ name \in Seq(Found \cup {NewLine}) /\ Len(name) = n
    BY <1>4, ScanSizesAssumption
  <2>2. listing' = listing \o name \o <<NewLine>>
    BY <1>4
  <2>3. /\ listing' \in Seq(Found \cup {NewLine}) /\ Len(listing') = Len(listing) + n + 1
        /\ \A i \in 1 .. Len(listing) : listing'[i] = listing[i]
        /\ \A i \in 1 .. n : listing'[Len(listing) + i] = r
        /\ listing'[Len(listing) + n + 1] = NewLine
    BY <1>1, <2>1, <2>2
  <2>4. len' = Fitting' /\ Written' /\ ssid_buff' \in [Positions -> Found \cup {NewLine, Nul}]
    <3> HIDE DEF name
    <3>1. CASE len < Capacity - 1
      <4> DEFINE k == IF n > Free THEN Free ELSE n
                 end == IF k < Free THEN len + k + 1 ELSE len + k
      <4>1. /\ len \in Nat /\ Len(listing) = len
            /\ Free = Capacity - 1 - len /\ Free \in Nat \ {0}
        <5>1. len \in Positions /\ Len(listing) \in Nat
          BY <1>1 DEF ScanType
        <5>2. QED
          BY <3>1, <1>2, <5>1, SomeCapacity DEF Fitting, Free
      <4>2. /\ ssid_buff' = [i \in Positions |->
                              IF i >= len /\ i < len + k THEN r
                              ELSE IF i = len + k /\ end > i THEN NewLine
                              ELSE IF i = end THEN Nul ELSE ssid_buff[i]]
            /\ len' = end
        BY <1>4, <3>1 DEF AppendName
      <4>3. /\ k \in Nat /\ k <= n /\ end \in Positions /\ end = Fitting'
            /\ end > len + k => k = n /\ end = len + n + 1
            /\ end = len + k \/ end = len + k + 1
        <5>1. Len(listing') = len + n + 1
          BY <4>1, <2>1, <2>3
        <5>2. Fitting' = IF len + n + 1 < Capacity THEN len + n + 1 ELSE Capacity - 1
          BY <5>1 DEF Fitting
        <5> HIDE DEF Fitting
        <5>3. QED
          BY <4>1, <2>1, <5>2, SomeCapacity
      <4> HIDE DEF k, end
      <4>4. ASSUME NEW i \in 1 .. Fitting'
            PROVE  ssid_buff'[i - 1] = listing'[i]
        <5>1. i \in Nat /\ i - 1 \in Positions /\ i >= 1 /\ i - 1 < end
          BY <4>3, ScanSizesAssumption DEF Positions
        <5>2. CASE i <= len
          <6>1. ssid_buff'[i - 1] = ssid_buff[i - 1]
            BY <4>1, <4>2, <4>3, <5>1, <5>2
          <6>2. i \in 1 .. Fitting /\ i \in 1 .. Len(listing)
            BY <1>2, <4>1, <5>1, <5>2
          <6>3. QED
            BY <6>1, <6>2, <1>2, <2>3 DEF Written
        <5>3. CASE i > len /\ i <= len + k
          <6>1. ssid_buff'[i - 1] = r
            BY <4>1, <4>2, <4>3, <5>1, <5>3
          <6>2. i - len \in 1 .. n /\ Len(listing) + (i - len) = i
            BY <4>1, <4>3, <5>1, <5>3, <2>1
          <6>3. listing'[Len(listing) + (i - len)] = r
            BY <6>2, <2>3
          <6>4. QED
            BY <6>1, <6>2, <6>3
        <5>4. CASE i > len + k
          <6>1. i = len + k + 1 /\ end = len + n + 1 /\ k = n
            BY <4>1, <4>3, <5>1, <5>4
          <6>2. ssid_buff'[i - 1] = NewLine
            BY <4>1, <4>2, <4>3, <5>1, <6>1
          <6>3. QED
            BY <6>1, <6>2, <2>3, <4>1
        <5>5. i <= len \/ (i > len /\ i <= len + k) \/ i > len + k
          BY <4>1, <4>3, <5>1
        <5>6. QED
          BY <5>2, <5>3, <5>4, <5>5
      <4>5. ssid_buff'[end] = Nul
        BY <4>1, <4>2, <4>3
      <4>6. ssid_buff' \in [Positions -> Found \cup {NewLine, Nul}]
        BY <4>2, <1>1 DEF ScanType
      <4>7. QED
        BY <4>2, <4>3, <4>4, <4>5, <4>6 DEF Written
    <3>2. CASE ~(len < Capacity - 1)
      <4>1. len = Capacity - 1 /\ Len(listing) >= len /\ UNCHANGED <<ssid_buff, len>>
        BY <3>2, <1>1, <1>2, FittingInBuffer, ScanSizesAssumption
        DEF ScanType, Positions, bufferVars
      <4>2. Fitting = len /\ Fitting' = len
        <5>1. Len(listing) \in Nat /\ Len(listing') \in Nat /\ Len(listing') >= Capacity
          BY <4>1, <1>1, <2>1, <2>3, SomeCapacity
        <5>2. QED
          BY <4>1, <1>2, <5>1, SomeCapacity DEF Fitting
      <4>3. \A i \in 1 .. len : ssid_buff'[i - 1] = listing'[i]
        <5>1. 1 .. len \subseteq 1 .. Len(listing)
          BY <4>1, <1>1, SomeCapacity
        <5>2. QED
          BY <4>1, <4>2, <5>1, <1>2, <2>3 DEF Written
      <4>4. ssid_buff'[len] = Nul
        BY <4>1, <4>2, <1>2 DEF Written
      <4>5. QED
        BY <4>1, <4>2, <4>3, <4>4, <1>1 DEF Written, ScanType
    <3>3. QED
      BY <3>1, <3>2
  <2>5. Fitting' \in Positions
    <3>1. Len(listing') \in Nat
      BY <2>3
    <3>2. QED
      BY <3>1, SomeCapacity DEF Fitting
  <2>6. Terminated'
    BY <2>4 DEF Terminated, Written
  <2>7. ScanType'
    BY <1>1, <2>4, <2>5 DEF ScanType, responseVars
  <2>8. scanHandler' = "wait" /\ scanning' /\ ~scan_complete_flag' /\ callback' = "idle"
    BY DEF ScanInv
  <2>9. QED
    BY <2>3, <2>4, <2>6, <2>7, <2>8 DEF ScanInv, ScanListed, PageListsThisScan, PageWhole
<1>5. QED
  BY <1>3, <1>4

\* The four texts of the response fit together, so none is cut.
LEMMA ComposeKeeps ==
    ASSUME ScanInv, Compose
    PROVE  ScanInv'
<1> USE DEF Compose
<1>1. ScanType /\ listing \in Seq(Found \cup {NewLine}) /\ Written
  BY DEF ScanInv, ScanListed
<1>2. page' = SubSeq(listing, 1, Fitting)
  BY <1>1, TextIsListing
<1>3. page' \in Seq(Found \cup {NewLine}) /\ Len(page') = Fitting
      /\ Fitting \in Nat /\ Fitting < Capacity
  <2>1. Fitting \in Nat /\ Fitting < Capacity /\ Fitting <= Len(listing) /\ Len(listing) \in Nat
    BY <1>1, FittingInBuffer, SomeCapacity
  <2>2. QED
    BY <1>1, <1>2, <2>1
<1>4. response_len' = PageParts[1] + Fitting + PageParts[2] + PageParts[3]
  <2> DEFINE a == PageParts[1]
             b == PageParts[2]
             c == PageParts[3]
  <2>1. /\ a \in Nat /\ b \in Nat /\ c \in Nat /\ PageSize \in Nat /\ Capacity \in Nat
        /\ PageSize >= a + b + c + Capacity
    BY ScanSizesAssumption
  <2>2. response_len' = AppendText(AppendText(AppendText(AppendText(0, a), Fitting), b), c)
    BY <1>1, <1>2, <1>3, TextIsListing
  <2> HIDE DEF a, b, c
  <2>3. AppendText(0, a) = a
    BY <2>1, <1>3, Appended
  <2>4. AppendText(a, Fitting) = a + Fitting
    BY <2>1, <1>3, Appended
  <2>5. AppendText(a + Fitting, b) = a + Fitting + b
    BY <2>1, <1>3, Appended
  <2>6. AppendText(a + Fitting + b, c) = a + Fitting + b + c
    BY <2>1, <1>3, Appended
  <2>7. QED
    BY <2>2, <2>3, <2>4, <2>5, <2>6 DEF a, b, c
<1>5. UNCHANGED <<ssid_buff, len, scan_complete_flag, scanning, callback, listing, scanHalted>>
      /\ scanHandler' = "write" /\ ~scanning
  BY DEF bufferVars, historyVars, ScanInv
<1>6. ScanType'
  <2>1. response_len' \in Nat
    BY <1>3, <1>4, ScanSizesAssumption
  <2>2. QED
    BY <2>1, <1>1, <1>3, <1>5 DEF ScanType
<1>7. PageListsThisScan' /\ PageWhole'
  BY <1>2, <1>3, <1>4, <1>5 DEF PageListsThisScan, PageWhole, Fitting
<1>8. QED
  BY <1>1, <1>5, <1>6, <1>7 DEF ScanInv, ScanListed, Terminated, Blank, Written, Fitting

\* Whatever a scan finds, for every size of the buffer and of the response, the
\* buffer stays a string, the page lists the results of its own scan as far as
\* they fit, and the response ends whole (scan_callback, scan_for_available_aps).
THEOREM AlwaysListed == ScanSpec => []ScanListed
<1>1. ScanInit => ScanInv
  BY InitScanInv
<1>2. ScanInv /\ [ScanNext]_scanVars => ScanInv'
  <2> SUFFICES ASSUME ScanInv, [ScanNext]_scanVars
               PROVE  ScanInv'
    OBVIOUS
  <2>a. ScanType /\ listing \in Seq(Found \cup {NewLine})
    BY DEF ScanInv, ScanListed
  <2>1. ASSUME NEW r \in Found, NEW n \in 0 .. SsidLen, Result(r, n)
        PROVE  ScanInv'
    BY <2>1, ResultKeeps
  <2>2. CASE Complete
    <3>1. len = Fitting /\ Written /\ Fitting \in Positions
      BY <2>2, <2>a, FittingInBuffer DEF Complete, ScanInv
    <3>2. ssid_buff' = ssid_buff
      BY <2>2, <2>a, <3>1 DEF Complete, Written, ScanType
    <3>3. /\ UNCHANGED <<len, listing, page, response_len, scanHandler, scanHalted>>
          /\ scanning' = FALSE /\ scan_complete_flag' = TRUE /\ callback' = "reset"
      BY <2>2 DEF Complete, responseVars, historyVars
    <3>4. scanHandler' = "wait"
      BY <2>2 DEF Complete, ScanInv
    <3>5. Written'
      BY <3>1, <3>2, <3>3 DEF Written, Fitting
    <3>6. ScanType'
      BY <2>a, <3>2, <3>3 DEF ScanType
    <3>7. QED
      BY <2>a, <3>3, <3>4, <3>5, <3>6
      DEF ScanInv, ScanListed, Terminated, PageListsThisScan, PageWhole
  <2>3. CASE CompleteResets
    <3>1. UNCHANGED <<ssid_buff, scan_complete_flag, scanning, scanHandler, page, response_len,
                      listing, scanHalted>>
          /\ len' = 0 /\ callback = "reset" /\ callback' = "idle"
      BY <2>3 DEF CompleteResets, responseVars, historyVars
    <3>2. 0 \in Positions
      BY ScanSizesAssumption DEF Positions
    <3>3. scanning => Fitting = 0 /\ ssid_buff[0] = Nul /\ Written
      BY <2>a, <3>1, <3>2, FittingInBuffer DEF ScanInv, Blank, Written
    <3>4. Written => Written'
      BY <3>1 DEF Written, Fitting
    <3>5. Fitting' = Fitting
      BY <3>1 DEF Fitting
    <3>6. ScanType' /\ Terminated' /\ PageListsThisScan' /\ PageWhole'
      BY <2>a, <3>1, <3>2, <3>3, <3>5
      DEF ScanInv, ScanListed, ScanType, Terminated, PageListsThisScan, PageWhole
    <3>7. QED
      BY <2>a, <3>1, <3>3, <3>4, <3>5, <3>6 DEF ScanInv, ScanListed, Blank
  <2>4. CASE Get
    <3>1. /\ UNCHANGED <<len, scanning, callback, listing, scanHalted>>
          /\ ssid_buff' = [i \in Positions |-> Nul] /\ page' = <<>> /\ response_len' = 0
          /\ scan_complete_flag' = FALSE /\ scanHandler' = "start"
      BY <2>4 DEF Get, historyVars
    <3>2. ~scanning
      BY <2>4 DEF Get, ScanInv
    <3>3. Blank'
      BY <3>1 DEF Blank
    <3>4. ssid_buff' \in [Positions -> Found \cup {NewLine, Nul}]
      BY <3>1
    <3>5. page' \in Seq(Found \cup {NewLine})
      BY <3>1
    <3>6. ScanType'
      BY <2>a, <3>1, <3>4, <3>5 DEF ScanType
    <3>7. QED
      BY <2>a, <3>1, <3>2, <3>3, <3>6
      DEF ScanInv, ScanListed, Terminated, PageListsThisScan, PageWhole
  <2>5. CASE StartFails
    BY <2>5, <2>a DEF StartFails, ScanInv, ScanListed, ScanType, Terminated, PageListsThisScan,
       PageWhole, Blank, Written, Fitting, bufferVars, responseVars, historyVars
  <2>6. CASE StartScan
    <3>1. /\ UNCHANGED <<ssid_buff, len, scan_complete_flag, callback, page, response_len,
                         scanHalted>>
          /\ scanning' = TRUE /\ listing' = <<>> /\ scanHandler' = "wait"
          /\ Blank /\ ~scan_complete_flag
      BY <2>6 DEF StartScan, bufferVars, responseVars, ScanInv
    <3>2. listing' \in Seq(Found \cup {NewLine}) /\ Fitting' = 0
      BY <3>1, SomeCapacity DEF Fitting
    <3>3. len \in Positions /\ 0 \in Positions
      BY <2>a, SomeCapacity DEF ScanType
    <3>4. Blank' /\ Terminated'
      BY <3>1, <3>3 DEF Blank, Terminated
    <3>5. Written'
      BY <3>1, <3>2, <3>3 DEF Written, Blank
    <3>6. callback = "idle" => len = 0
      BY <3>1, <2>6 DEF ScanInv, StartScan
    <3>7. ScanType'
      BY <2>a, <3>1 DEF ScanType
    <3>8. QED
      BY <3>1, <3>2, <3>4, <3>5, <3>6, <3>7
      DEF ScanInv, ScanListed, PageListsThisScan, PageWhole
  <2>7. CASE Compose
    BY <2>7, ComposeKeeps
  <2>8. CASE WriteResponse
    BY <2>8, <2>a DEF WriteResponse, ScanInv, ScanListed, ScanType, Terminated,
       PageListsThisScan, PageWhole, Blank, Written, Fitting, bufferVars, responseVars,
       historyVars
  <2>9. CASE UNCHANGED scanVars
    BY <2>9, <2>a DEF scanVars, ScanInv, ScanListed, ScanType, Terminated,
       PageListsThisScan, PageWhole, Blank, Written, Fitting, bufferVars, responseVars,
       historyVars
  <2>10. QED
    BY <2>1, <2>2, <2>3, <2>4, <2>5, <2>6, <2>7, <2>8, <2>9
    DEF ScanNext, CallbackStep, ScanHandlerStep, Wait, ScanStopped
<1>3. ScanInv => ScanListed
  BY DEF ScanInv
<1>4. QED
  BY <1>1, <1>2, <1>3, PTL DEF ScanSpec

-----------------------------------------------------------------------------
(* The provisioning form.                                                  *)

\* Where the k-th character of the form starts in the body, or will.
StartOf(k) == IF k <= Len(starts) THEN starts[k] ELSE Len(data)

\* Every piece of the body so far is the one its character of the form encodes to.
Composed ==
    /\ Len(starts) <= Len(Form(entered)) /\ Len(starts) <= Len(data)
    /\ StartOf(1) = 0
    /\ \A k \in 1 .. Len(starts) :
          /\ starts[k] < Len(data)
          /\ StartOf(k + 1) = starts[k] + Len(Piece(entered, k))
          /\ \A j \in 1 .. Len(Piece(entered, k)) : data[starts[k] + j] = Piece(entered, k)[j]

\* The buffer is the beginning of the form, and src stands at its next character.
DecodedSoFar ==
    /\ Len(buffer) <= Len(Form(entered))
    /\ \A k \in 1 .. Len(buffer) : buffer[k] = Form(entered)[k]
    /\ src = StartOf(Len(buffer) + 1)

\* What a body that is the form, and one that is not, look like at each step.
InForm ==
    entered.form =>
      /\ Composed
      /\ pc \notin {"idle", "compose"} => Len(starts) = Len(Form(entered))
      /\ pc \notin {"idle", "compose", "clear"} => DecodedSoFar
      /\ pc \notin {"idle", "compose", "clear", "decode"} => Len(buffer) = Len(Form(entered))

InCommand ==
    ~entered.form =>
      /\ pc \in {"idle", "clear", "decode", "done"}
      /\ pc # "idle" => data \in Commands
      /\ pc \in {"decode", "done"} => /\ wifi_ssid = <<>> /\ wifi_pwd = <<>>
                                      /\ buffer = <<>> => src = 0
                                      /\ buffer # <<>> => buffer[1] # SsidName[1]

\* The copy is the beginning of the value.
Copied(copy, value) ==
    /\ Len(copy) <= Len(value)
    /\ \A i \in 1 .. Len(copy) : copy[i] = value[i]

SsidTaken == wifi_ssid = Cut(entered.ssid, SsidSize)

\* Where buff_index stands in the form, and what has been taken out of it.
Parsing ==
    /\ pc \in {"idle", "compose", "clear", "decode"} => buff_index = 0
    /\ pc \in {"idle", "compose"} => buffer = <<>> /\ src = 0
    /\ pc \in {"decode", "ssid_name"} => wifi_ssid = <<>>
    /\ pc \in {"decode", "ssid_name", "ssid", "password_name"} => wifi_pwd = <<>>
    /\ pc = "ssid_name" => buff_index \in 0 .. 4
    /\ pc = "ssid" => buff_index = SsidStart + Len(wifi_ssid) /\ Copied(wifi_ssid, entered.ssid)
    /\ pc \in {"password_name", "password"} /\ Separated => SsidTaken
    /\ pc = "password_name" /\ Fits(entered) =>
          /\ buff_index \in 0 .. PwdStart(entered) - 1
          /\ Separated => \A i \in buff_index + 1 .. PwdStart(entered) - 1 :
                              Form(entered)[i] # Equals
    /\ pc = "password" /\ Fits(entered) =>
          /\ buff_index \in 0 .. PwdStart(entered) + Len(entered.password)
          /\ Separated => /\ buff_index = PwdStart(entered) + Len(wifi_pwd)
                          /\ Copied(wifi_pwd, entered.password)

Idle == pc = "idle" => entered = Nothing /\ data = <<>> /\ starts = <<>>

\* The inductive invariant.
FormInv == FormTaken /\ InForm /\ InCommand /\ Parsing /\ Idle

\* The digits that a browser writes are read back, in either case.
LEMMA HexRoundTrip ==
    ASSUME NEW n \in 0 .. 15, NEW lower \in BOOLEAN
    PROVE  /\ HexCode(n, lower) \in HexDigit /\ HexCode(n, lower) \in Character
           /\ HexValue(HexCode(n, lower)) = n
BY DEF HexCode, HexDigit, Digit, HexValue, Character

\* What the device makes of a piece.
DecodesTo(piece, c) ==
    \/ /\ Len(piece) = 1 /\ piece[1] # Percent
       /\ c = IF piece[1] = Plus THEN Space ELSE piece[1]
    \/ /\ Len(piece) = 3 /\ piece[1] = Percent
       /\ piece[2] \in HexDigit /\ piece[3] \in HexDigit
       /\ c = 16 * HexValue(piece[2]) + HexValue(piece[3])

\* What the browser makes of a character decodes to it.
LEMMA EncodeRoundTrip ==
    ASSUME NEW c \in Character, NEW lower \in BOOLEAN
    PROVE  EncodeChar(c, lower) \in Seq(Character) /\ DecodesTo(EncodeChar(c, lower), c)
<1>1. CASE c \in Digit \cup Letter
  <2>1. EncodeChar(c, lower) = <<c>> /\ c \notin {Percent, Plus}
    BY <1>1 DEF EncodeChar, Digit, Letter, Percent, Plus
  <2>2. QED
    BY <2>1 DEF DecodesTo
<1>2. CASE c \notin Digit \cup Letter /\ c = Space
  <2>1. EncodeChar(c, lower) = <<Plus>> /\ Plus # Percent /\ Plus \in Character
    BY <1>2 DEF EncodeChar, Percent, Plus, Character
  <2>2. QED
    BY <1>2, <2>1 DEF DecodesTo
<1>3. CASE c \notin Digit \cup Letter /\ c # Space
  <2> DEFINE h == c \div 16
             l == c % 16
  <2>1. h \in 0 .. 15 /\ l \in 0 .. 15 /\ 16 * h + l = c
    BY DEF Character
  <2>2. EncodeChar(c, lower) = <<Percent, HexCode(h, lower), HexCode(l, lower)>>
    BY <1>3 DEF EncodeChar
  <2> HIDE DEF h, l
  <2>3. Percent \in Character
    BY DEF Percent, Character
  <2>4. /\ HexCode(h, lower) \in HexDigit /\ HexCode(h, lower) \in Character
        /\ HexCode(l, lower) \in HexDigit /\ HexCode(l, lower) \in Character
        /\ HexValue(HexCode(h, lower)) = h /\ HexValue(HexCode(l, lower)) = l
    BY <2>1, HexRoundTrip
  <2>5. QED
    BY <2>1, <2>2, <2>3, <2>4 DEF DecodesTo
<1>4. QED
  BY <1>1, <1>2, <1>3

\* Where the parts of a form stand.
LEMMA FormParts ==
    ASSUME NEW e \in Entries
    PROVE  /\ e.form = TRUE /\ e.ssid \in Seq(Character) /\ e.password \in Seq(Character)
           /\ e.lower \in BOOLEAN
           /\ Len(e.ssid) \in Nat /\ Len(e.password) \in Nat
           /\ Len(PasswordName) \in Nat /\ Len(Submit) \in Nat \ {0}
           /\ PwdStart(e) = 7 + Len(e.ssid) + Len(PasswordName)
           /\ Fits(e) <=> PwdStart(e) + Len(e.password) <= 127
           /\ Form(e) \in Seq(Character)
           /\ Len(Form(e)) = PwdStart(e) + Len(e.password) + Len(Submit)
<1>1. /\ e.form = TRUE /\ e.ssid \in Seq(Character) /\ e.password \in Seq(Character)
      /\ e.lower \in BOOLEAN
  BY ValuesAssumption
<1>2. PasswordName \in Seq(Character) /\ Submit \in Seq(Character) /\ Submit # <<>>
  BY ValuesAssumption
<1>3. /\ Len(e.ssid) \in Nat /\ Len(e.password) \in Nat
      /\ Len(PasswordName) \in Nat /\ Len(Submit) \in Nat \ {0}
  BY <1>1, <1>2
<1> DEFINE s == Len(e.ssid)
           n == Len(PasswordName)
           p == Len(e.password)
           z == Len(Submit)
<1>4. PwdStart(e) = 7 + s + n
  <2> HIDE DEF s, n
  <2> QED BY <1>3 DEF PwdStart, SsidStart, s, n
<1>5. Fits(e) <=> PwdStart(e) + p <= 127
  BY <1>1 DEF Fits
<1>6. SsidName \in Seq(Character) /\ Len(SsidName) = 4 /\ <<Equals>> \in Seq(Character)
      /\ <<Ampersand>> \in Seq(Character)
  BY DEF SsidName, Character, Equals, Ampersand
<1>7. Form(e) \in Seq(Character)
  BY <1>1, <1>2, <1>6 DEF Form
<1>8. Len(Form(e)) = 4 + 1 + s + 1 + n + 1 + p + z
  <2>1. /\ SsidName \in Seq(Character) /\ e.ssid \in Seq(Character)
        /\ PasswordName \in Seq(Character) /\ e.password \in Seq(Character)
        /\ Submit \in Seq(Character) /\ <<Equals>> \in Seq(Character)
        /\ <<Ampersand>> \in Seq(Character)
    BY <1>1, <1>2, <1>6
  <2>2. Len(Form(e)) = Len(SsidName) + Len(<<Equals>>) + Len(e.ssid) + Len(<<Ampersand>>)
                       + Len(PasswordName) + Len(<<Equals>>) + Len(e.password) + Len(Submit)
    BY ONLY <2>1 DEF Form
  <2>3. Len(SsidName) = 4 /\ Len(<<Equals>>) = 1 /\ Len(<<Ampersand>>) = 1
    BY DEF SsidName
  <2>4. QED
    BY <2>2, <2>3
<1>9. Len(Form(e)) = PwdStart(e) + p + z
  <2> HIDE DEF s, n, p, z
  <2>1. s \in Nat /\ n \in Nat /\ p \in Nat /\ z \in Nat
    BY <1>3 DEF s, n, p, z
  <2> QED BY <2>1, <1>4, <1>8
<1>10. QED
  BY <1>1, <1>3, <1>4, <1>5, <1>7, <1>9

\* Where the elements of sequences stand that follow one another.
InParts(a, b, c, d, f, g, h, k) ==
    LET w == a \o b \o c \o d \o f \o g \o h \o k
    IN  /\ \A i \in 1 .. Len(a) : w[i] = a[i]
        /\ \A i \in 1 .. Len(b) : w[Len(a) + i] = b[i]
        /\ \A i \in 1 .. Len(c) : w[Len(a) + Len(b) + i] = c[i]
        /\ \A i \in 1 .. Len(d) : w[Len(a) + Len(b) + Len(c) + i] = d[i]
        /\ \A i \in 1 .. Len(f) : w[Len(a) + Len(b) + Len(c) + Len(d) + i] = f[i]
        /\ \A i \in 1 .. Len(g) :
              w[Len(a) + Len(b) + Len(c) + Len(d) + Len(f) + i] = g[i]
        /\ \A i \in 1 .. Len(h) :
              w[Len(a) + Len(b) + Len(c) + Len(d) + Len(f) + Len(g) + i] = h[i]
        /\ \A i \in 1 .. Len(k) :
              w[Len(a) + Len(b) + Len(c) + Len(d) + Len(f) + Len(g) + Len(h) + i] = k[i]

\* Eight sequences that follow one another have their elements there.
LEMMA EightParts ==
    ASSUME NEW S, NEW a \in Seq(S), NEW b \in Seq(S), NEW c \in Seq(S), NEW d \in Seq(S),
           NEW f \in Seq(S), NEW g \in Seq(S), NEW h \in Seq(S), NEW k \in Seq(S)
    PROVE  InParts(a, b, c, d, f, g, h, k)
<1> DEFINE w == a \o b \o c \o d \o f \o g \o h \o k
<1>1. \A i \in 1 .. Len(a) : w[i] = a[i]
  OBVIOUS
<1>2. \A i \in 1 .. Len(b) : w[Len(a) + i] = b[i]
  OBVIOUS
<1>3. \A i \in 1 .. Len(c) : w[Len(a) + Len(b) + i] = c[i]
  OBVIOUS
<1>4. \A i \in 1 .. Len(d) : w[Len(a) + Len(b) + Len(c) + i] = d[i]
  OBVIOUS
<1>5. \A i \in 1 .. Len(f) : w[Len(a) + Len(b) + Len(c) + Len(d) + i] = f[i]
  OBVIOUS
<1>6. \A i \in 1 .. Len(g) : w[Len(a) + Len(b) + Len(c) + Len(d) + Len(f) + i] = g[i]
  OBVIOUS
<1>7. \A i \in 1 .. Len(h) :
         w[Len(a) + Len(b) + Len(c) + Len(d) + Len(f) + Len(g) + i] = h[i]
  OBVIOUS
<1>8. \A i \in 1 .. Len(k) :
         w[Len(a) + Len(b) + Len(c) + Len(d) + Len(f) + Len(g) + Len(h) + i] = k[i]
  OBVIOUS
<1>9. QED
  BY <1>1, <1>2, <1>3, <1>4, <1>5, <1>6, <1>7, <1>8, Zenon DEF InParts

\* Which characters stand in a form.
LEMMA FormAt ==
    ASSUME NEW e \in Entries
    PROVE  /\ \A i \in 1 .. 4 : Form(e)[i] = SsidName[i]
           /\ Form(e)[5] = Equals
           /\ \A i \in 1 .. Len(e.ssid) : Form(e)[5 + i] = e.ssid[i]
           /\ Form(e)[6 + Len(e.ssid)] = Ampersand
           /\ \A i \in 1 .. Len(PasswordName) : Form(e)[6 + Len(e.ssid) + i] = PasswordName[i]
           /\ Form(e)[PwdStart(e)] = Equals
           /\ \A i \in 1 .. Len(e.password) : Form(e)[PwdStart(e) + i] = e.password[i]
           /\ \A i \in 1 .. Len(Submit) :
                 Form(e)[PwdStart(e) + Len(e.password) + i] = Submit[i]
<1> DEFINE n == Len(PasswordName)
           s == Len(e.ssid)
           p == Len(e.password)
           q == <<Equals>>
           m == <<Ampersand>>
           w == SsidName \o q \o e.ssid \o m \o PasswordName \o q \o e.password \o Submit
<1>1. /\ e.ssid \in Seq(Character) /\ e.password \in Seq(Character)
      /\ n \in Nat /\ s \in Nat /\ p \in Nat /\ Len(Submit) \in Nat
      /\ PwdStart(e) = 7 + s + n
  BY FormParts
<1>2. PasswordName \in Seq(Character) /\ Submit \in Seq(Character)
  BY ValuesAssumption
<1>3. q \in Seq(Character) /\ m \in Seq(Character) /\ SsidName \in Seq(Character)
  BY DEF Character, Equals, Ampersand, SsidName
<1>4. Len(q) = 1 /\ Len(m) = 1 /\ q[1] = Equals /\ m[1] = Ampersand /\ Len(SsidName) = 4
  BY DEF SsidName
<1>5. Form(e) = w
  BY Zenon DEF Form
<1> HIDE DEF q, m
<1>6. /\ \A i \in 1 .. Len(SsidName) : w[i] = SsidName[i]
      /\ \A i \in 1 .. Len(q) : w[Len(SsidName) + i] = q[i]
      /\ \A i \in 1 .. s : w[Len(SsidName) + Len(q) + i] = e.ssid[i]
      /\ \A i \in 1 .. Len(m) : w[Len(SsidName) + Len(q) + s + i] = m[i]
      /\ \A i \in 1 .. n : w[Len(SsidName) + Len(q) + s + Len(m) + i] = PasswordName[i]
      /\ \A i \in 1 .. Len(q) : w[Len(SsidName) + Len(q) + s + Len(m) + n + i] = q[i]
      /\ \A i \in 1 .. p :
            w[Len(SsidName) + Len(q) + s + Len(m) + n + Len(q) + i] = e.password[i]
      /\ \A i \in 1 .. Len(Submit) :
            w[Len(SsidName) + Len(q) + s + Len(m) + n + Len(q) + p + i] = Submit[i]
  <2>1. InParts(SsidName, q, e.ssid, m, PasswordName, q, e.password, Submit)
    BY <1>1, <1>2, <1>3, EightParts
  <2>2. QED
    BY <2>1, Zenon DEF InParts
<1> HIDE DEF w, n, s, p
<1>7. /\ \A i \in 1 .. 4 : w[i] = SsidName[i]
      /\ \A i \in 1 .. 1 : w[4 + i] = q[i]
      /\ \A i \in 1 .. s : w[4 + 1 + i] = e.ssid[i]
      /\ \A i \in 1 .. 1 : w[4 + 1 + s + i] = m[i]
      /\ \A i \in 1 .. n : w[4 + 1 + s + 1 + i] = PasswordName[i]
      /\ \A i \in 1 .. 1 : w[4 + 1 + s + 1 + n + i] = q[i]
      /\ \A i \in 1 .. p : w[4 + 1 + s + 1 + n + 1 + i] = e.password[i]
      /\ \A i \in 1 .. Len(Submit) : w[4 + 1 + s + 1 + n + 1 + p + i] = Submit[i]
  BY <1>4, <1>6, Zenon DEF n, s, p
<1>8. /\ w[5] = Equals /\ w[6 + s] = Ampersand /\ w[7 + s + n] = Equals
      /\ \A i \in 1 .. s : w[5 + i] = e.ssid[i]
      /\ \A i \in 1 .. n : w[6 + s + i] = PasswordName[i]
      /\ \A i \in 1 .. p : w[7 + s + n + i] = e.password[i]
      /\ \A i \in 1 .. Len(Submit) : w[7 + s + n + p + i] = Submit[i]
  <2>1. s \in Nat /\ n \in Nat /\ p \in Nat
    BY <1>1
  <2>2. /\ \A i \in 1 .. s : w[5 + i] = e.ssid[i]
        /\ \A i \in 1 .. n : w[6 + s + i] = PasswordName[i]
    BY <1>7, <2>1
  <2>3. /\ \A i \in 1 .. p : w[7 + s + n + i] = e.password[i]
        /\ \A i \in 1 .. Len(Submit) : w[7 + s + n + p + i] = Submit[i]
    <3>1. \A i \in Int : /\ 4 + 1 + s + 1 + n + 1 + i = 7 + s + n + i
                         /\ 4 + 1 + s + 1 + n + 1 + p + i = 7 + s + n + p + i
      BY <2>1
    <3>2. \A i \in 1 .. p : i \in Int
      OBVIOUS
    <3>3. \A i \in 1 .. Len(Submit) : i \in Int
      OBVIOUS
    <3>4. QED
      BY <1>7, <3>1, <3>2, <3>3, Zenon
  <2>4. w[5] = Equals /\ w[6 + s] = Ampersand /\ w[7 + s + n] = Equals
    <3>1. 1 \in 1 .. 1
      OBVIOUS
    <3>2. w[4 + 1] = q[1] /\ w[4 + 1 + s + 1] = m[1] /\ w[4 + 1 + s + 1 + n + 1] = q[1]
      BY <1>7, <3>1, Zenon
    <3>3. 4 + 1 = 5 /\ 4 + 1 + s + 1 = 6 + s /\ 4 + 1 + s + 1 + n + 1 = 7 + s + n
      BY <2>1
    <3>4. QED
      BY <1>4, <3>2, <3>3
  <2>5. QED
    BY <2>2, <2>3, <2>4, Zenon
<1>9. QED
  BY <1>1, <1>5, <1>7, <1>8, Zenon DEF n, s, p

\* Every piece decodes to its character: what the browser leaves as it is needs no
\* encoding.
LEMMA PieceRoundTrip ==
    ASSUME NEW e \in Entries, NEW k \in 1 .. Len(Form(e))
    PROVE  Piece(e, k) \in Seq(Character) /\ DecodesTo(Piece(e, k), Form(e)[k])
<1>1. Form(e)[k] \in Character /\ e.lower \in BOOLEAN
  <2>1. Form(e) \in Seq(Character) /\ e.lower \in BOOLEAN
    BY FormParts
  <2>2. QED
    BY <2>1
<1>2. CASE InValue(e, k)
  BY <1>1, <1>2, EncodeRoundTrip DEF Piece
<1>3. CASE ~InValue(e, k)
  <2> DEFINE n == Len(PasswordName)
             s == Len(e.ssid)
             p == Len(e.password)
  <2>1. /\ n \in Nat /\ s \in Nat /\ p \in Nat /\ Len(Submit) \in Nat
        /\ PwdStart(e) = 7 + s + n /\ Len(Form(e)) = PwdStart(e) + p + Len(Submit)
    BY FormParts
  <2>2. \/ k \in 1 .. 4 \/ k = 5 \/ k = 6 + s
        \/ k \in 6 + s + 1 .. 6 + s + n \/ k = PwdStart(e)
        \/ k \in PwdStart(e) + p + 1 .. PwdStart(e) + p + Len(Submit)
    <3>1. k \in Nat /\ k >= 1 /\ k <= Len(Form(e))
      BY FormParts
    <3>2. k \notin 6 .. 5 + s /\ k \notin PwdStart(e) + 1 .. PwdStart(e) + p
      BY <1>3 DEF InValue, SsidStart
    <3> HIDE DEF n, s, p
    <3>3. QED
      BY <3>1, <3>2, <2>1
  <2>3. Form(e)[k] \notin {Percent, Plus}
    <3>1. CASE k \in 1 .. 4
      <4>1. Form(e)[k] = SsidName[k]
        BY <3>1, FormAt
      <4>2. QED
        BY <3>1, <4>1 DEF SsidName, Percent, Plus
    <3>2. CASE k = 5 \/ k = 6 + s \/ k = PwdStart(e)
      BY <3>2, FormAt DEF Equals, Ampersand, Percent, Plus
    <3>3. CASE k \in 6 + s + 1 .. 6 + s + n
      <4>1. k - (6 + s) \in 1 .. n /\ 6 + s + (k - (6 + s)) = k
        <5> HIDE DEF n, s
        <5> QED BY <3>3, <2>1
      <4>2. Form(e)[k] = PasswordName[k - (6 + s)]
        <5>1. Form(e)[6 + s + (k - (6 + s))] = PasswordName[k - (6 + s)]
          BY <4>1, FormAt
        <5>2. QED
          BY <4>1, <5>1
      <4>3. \A i \in 1 .. n : PasswordName[i] \notin {Percent, Plus}
        <5>1. PasswordName \in Seq(Character \ {Percent, Plus, Equals})
          BY ValuesAssumption
        <5>2. QED
          BY ONLY <5>1
      <4>4. QED
        BY <4>1, <4>2, <4>3, Zenon
    <3>4. CASE k \in PwdStart(e) + p + 1 .. PwdStart(e) + p + Len(Submit)
      <4>1. /\ k - (PwdStart(e) + p) \in 1 .. Len(Submit)
            /\ PwdStart(e) + p + (k - (PwdStart(e) + p)) = k
        <5> HIDE DEF n, s, p
        <5> QED BY <3>4, <2>1
      <4>2. Form(e)[k] = Submit[k - (PwdStart(e) + p)]
        <5>1. Form(e)[PwdStart(e) + p + (k - (PwdStart(e) + p))]
                 = Submit[k - (PwdStart(e) + p)]
          BY <4>1, FormAt
        <5>2. QED
          BY <4>1, <5>1
      <4>3. \A i \in 1 .. Len(Submit) : Submit[i] \notin {Percent, Plus}
        <5>1. Submit \in Seq(Character \ {Percent, Plus})
          BY ValuesAssumption
        <5>2. QED
          BY ONLY <5>1
      <4>4. QED
        BY <4>1, <4>2, <4>3, Zenon
    <3>5. QED
      BY <2>2, <3>1, <3>2, <3>3, <3>4
  <2>4. Piece(e, k) = <<Form(e)[k]>>
    BY <1>3 DEF Piece
  <2>5. QED
    BY <1>1, <2>3, <2>4 DEF DecodesTo
<1>4. QED
  BY <1>2, <1>3

\* The text of a form, the lengths of its parts, and what of it matters.
Shape(e, f, s, n, p) ==
    /\ f = Form(e) /\ s = Len(e.ssid) /\ p = Len(e.password)
    /\ e.form = TRUE /\ e.ssid \in Seq(Character) /\ e.password \in Seq(Character)
    /\ PwdStart(e) = 7 + s + n
    /\ Len(f) \in Nat /\ 7 + s + n + p < Len(f) /\ (Fits(e) <=> 7 + s + n + p <= 127)
    /\ \A i \in 1 .. 4 : f[i] = SsidName[i]
    /\ f[5] = Equals
    /\ \A i \in 1 .. s : f[5 + i] = e.ssid[i]
    /\ f[6 + s] = Ampersand
    /\ \A i \in 1 .. n : f[6 + s + i] # Equals
    /\ f[7 + s + n] = Equals
    /\ \A i \in 1 .. p : f[7 + s + n + i] = e.password[i]
    /\ f[7 + s + n + p + 1] = Ampersand

\* Every form has that shape.
LEMMA FormShape ==
    ASSUME NEW e \in Entries
    PROVE  \E f \in Seq(Character), s, n, p \in Nat : Shape(e, f, s, n, p)
<1> DEFINE f == Form(e)
           s == Len(e.ssid)
           n == Len(PasswordName)
           p == Len(e.password)
<1>1. /\ f \in Seq(Character) /\ s \in Nat /\ n \in Nat /\ p \in Nat
      /\ e.form = TRUE /\ e.ssid \in Seq(Character) /\ e.password \in Seq(Character)
      /\ PwdStart(e) = 7 + s + n
      /\ Len(Submit) \in Nat \ {0}
      /\ Len(f) = PwdStart(e) + p + Len(Submit) /\ (Fits(e) <=> PwdStart(e) + p <= 127)
  BY FormParts
<1>2. Len(f) \in Nat /\ 7 + s + n + p < Len(f) /\ (Fits(e) <=> 7 + s + n + p <= 127)
  <2> HIDE DEF f, s, n, p
  <2> QED BY <1>1
<1>3. \A i \in 1 .. n : f[6 + s + i] # Equals
  <2>1. PasswordName \in Seq(Character \ {Percent, Plus, Equals})
    BY ValuesAssumption
  <2>2. \A i \in 1 .. n : PasswordName[i] # Equals
    BY ONLY <2>1
  <2>3. QED
    BY <2>2, FormAt, Zenon
<1>4. f[7 + s + n + p + 1] = Ampersand
  <2>1. 1 \in 1 .. Len(Submit)
    BY <1>1
  <2>2. f[PwdStart(e) + p + 1] = Submit[1]
    BY <2>1, FormAt
  <2>3. Submit[1] = Ampersand
    BY ValuesAssumption
  <2>4. QED
    BY <1>1, <2>2, <2>3, Zenon
<1>5. /\ \A i \in 1 .. 4 : f[i] = SsidName[i]
      /\ f[5] = Equals
      /\ \A i \in 1 .. s : f[5 + i] = e.ssid[i]
      /\ f[6 + s] = Ampersand
      /\ f[7 + s + n] = Equals
      /\ \A i \in 1 .. p : f[7 + s + n + i] = e.password[i]
  <2>1. /\ f[PwdStart(e)] = Equals
        /\ \A i \in 1 .. p : f[PwdStart(e) + i] = e.password[i]
    BY FormAt, Zenon
  <2>2. /\ \A i \in 1 .. 4 : f[i] = SsidName[i]
        /\ f[5] = Equals
        /\ \A i \in 1 .. s : f[5 + i] = e.ssid[i]
        /\ f[6 + s] = Ampersand
    BY FormAt, Zenon
  <2>3. QED
    BY <1>1, <2>1, <2>2, Zenon
<1>6. Shape(e, f, s, n, p)
  BY <1>1, <1>2, <1>3, <1>4, <1>5, Zenon DEF Shape
<1> HIDE DEF f, s, n, p
<1>7. QED
  BY <1>1, <1>6

\* Where the credentials are being parsed, the buffer is a form.
LEMMA InBuffer ==
    ASSUME FormInv, pc \in {"ssid_name", "ssid", "password_name", "password"}
    PROVE  \E e \in Entries, f \in Seq(Character), s, n, p \in Nat :
              /\ entered = e /\ Shape(e, f, s, n, p)
              /\ Len(buffer) = Len(f) /\ Len(data) \in Nat /\ Len(f) <= Len(data)
              /\ \A i \in Nat : i < Len(f) => At(i) = f[i + 1]
<1>1. entered \in Entries /\ entered.form
  <2>1. entered \in Entries \cup {Nothing} /\ entered.form
    BY Zenon DEF FormInv, FormTaken, FormType, InCommand
  <2>2. QED
    BY <2>1 DEF Nothing
<1>2. PICK e \in Entries, f \in Seq(Character), s, n, p \in Nat :
         entered = e /\ Shape(e, f, s, n, p)
  BY <1>1, FormShape, Zenon
<1>3. f = Form(entered) /\ Len(f) \in Nat
  BY <1>2, Zenon DEF Shape
<1>4. /\ Composed /\ Len(starts) = Len(f) /\ DecodedSoFar /\ Len(buffer) = Len(f)
  BY <1>1, <1>3, Zenon DEF FormInv, InForm
<1>5. Len(f) <= Len(data)
  BY <1>4, Zenon DEF Composed
<1>6. \A k \in 1 .. Len(buffer) : buffer[k] = f[k]
  BY <1>3, <1>4, Zenon DEF DecodedSoFar
<1>7. \A i \in Nat : i < Len(f) => At(i) = f[i + 1]
  BY <1>3, <1>4, <1>6 DEF At
<1>8. data \in Seq(Character)
  BY Zenon DEF FormInv, FormTaken, FormType
<1>9. QED
  BY <1>2, <1>4, <1>5, <1>7, <1>8

\* What the parser leaves alone.
LEMMA ParserKeeps ==
    ASSUME FormInv, UNCHANGED <<bodyVars, buffer, src>>,
           pc \in {"ssid_name", "ssid", "password_name", "password"},
           pc' \in {"ssid_name", "ssid", "password_name", "password", "done"}
    PROVE  InForm' /\ InCommand' /\ Idle' /\ ClearedByOthers'
<1>1. entered.form /\ entered' = entered /\ data' = data /\ starts' = starts
      /\ buffer' = buffer /\ src' = src
  BY Zenon DEF FormInv, InCommand, bodyVars
<1>2. /\ Composed /\ Len(starts) = Len(Form(entered)) /\ DecodedSoFar
      /\ Len(buffer) = Len(Form(entered))
  BY <1>1, Zenon DEF FormInv, InForm
<1>3. Composed' /\ DecodedSoFar'
  BY <1>1, <1>2 DEF Composed, DecodedSoFar, StartOf
<1>4. InForm'
  BY <1>1, <1>2, <1>3, Zenon DEF InForm
<1>5. InCommand' /\ Idle' /\ ClearedByOthers'
  BY <1>1 DEF InCommand, Idle, ClearedByOthers
<1>6. QED
  BY <1>4, <1>5

\* An element of a sequence.
LEMMA ElementOf ==
    ASSUME NEW S, NEW q \in Seq(S), NEW i \in 1 .. Len(q) PROVE q[i] \in S
  OBVIOUS

\* The steps of the parser, each by what the index and the copies are after it.
LEMMA SsidNameStep ==
    ASSUME FormInv, SkipName("ssid_name", "ssid") PROVE FormInv'
<1>1. PICK e \in Entries, f \in Seq(Character), s, n, p \in Nat :
              /\ entered = e /\ Shape(e, f, s, n, p)
              /\ Len(buffer) = Len(f) /\ Len(data) \in Nat /\ Len(f) <= Len(data)
              /\ \A i \in Nat : i < Len(f) => At(i) = f[i + 1]
  BY InBuffer DEF SkipName
<1> DEFINE b == buff_index
<1>3. b \in Nat /\ b <= 4 /\ wifi_ssid = <<>> /\ wifi_pwd = <<>>
  BY DEF SkipName, FormInv, Parsing
<1>2. /\ pc = "ssid_name" /\ b' = b + 1 /\ UNCHANGED <<bodyVars, buffer, src, fieldVars>>
      /\ pc' = IF At(b) = Equals THEN "ssid" ELSE "ssid_name"
  BY <1>3 DEF SkipName, NextIndex, Reads
<1>4. /\ Len(f) \in Nat /\ Len(f) > 7 /\ f[5] = Equals
      /\ \A i \in 1 .. 4 : f[i] = SsidName[i]
  <2>1. /\ Len(f) \in Nat /\ 7 + s + n + p < Len(f) /\ f[5] = Equals
        /\ \A i \in 1 .. 4 : f[i] = SsidName[i]
    BY <1>1, Zenon DEF Shape
  <2>2. QED
    BY <2>1
<1>5. At(b) = f[b + 1]
  BY <1>1, <1>3, <1>4
<1>6. At(b) = Equals <=> b = 4
  <2>1. b < 4 => f[b + 1] = SsidName[b + 1]
    BY <1>3, <1>4
  <2>2. b < 4 => SsidName[b + 1] # Equals
    BY <1>3 DEF SsidName, Equals
  <2>3. QED
    BY <1>3, <1>4, <1>5, <2>1, <2>2
<1>7. entered' = e /\ wifi_ssid' = <<>> /\ wifi_pwd' = <<>> /\ buffer' = buffer
  BY <1>1, <1>2, <1>3 DEF bodyVars, fieldVars
<1>8. \/ pc' = "ssid_name" /\ b < 4
      \/ pc' = "ssid" /\ b = 4
  BY <1>2, <1>3, <1>6
<1>9. Parsing'
  BY <1>2, <1>3, <1>7, <1>8 DEF Parsing, SsidStart, Copied
<1>10. FormType' /\ FieldsFit' /\ IndexInBody' /\ Extracted'
  BY <1>1, <1>2, <1>3, <1>4, <1>7, <1>8, SizesAssumption
     DEF FormInv, FormTaken, FormType, FieldsFit, IndexInBody, Extracted, bodyVars
<1>11. InForm' /\ InCommand' /\ Idle' /\ ClearedByOthers'
  BY <1>2, <1>8, ParserKeeps
<1>12. QED
  BY <1>9, <1>10, <1>11, Zenon DEF FormInv, FormTaken

LEMMA CopySsidStep ==
    ASSUME FormInv, CopySsid PROVE FormInv'
<1>1. PICK e \in Entries, f \in Seq(Character), s, n, p \in Nat :
              /\ entered = e /\ Shape(e, f, s, n, p)
              /\ Len(buffer) = Len(f) /\ Len(data) \in Nat /\ Len(f) <= Len(data)
              /\ \A i \in Nat : i < Len(f) => At(i) = f[i + 1]
  BY InBuffer DEF CopySsid
<1> DEFINE b == buff_index
           w == wifi_ssid
<1>2. pc = "ssid" /\ b = 5 + Len(w) /\ Len(w) \in Nat /\ Len(w) < SsidSize - 1
  BY DEF CopySsid, SsidRoom, FormInv, FormTaken, FormType, Parsing, SsidStart
<1>3. /\ pc = "ssid" /\ b' = b + 1 /\ UNCHANGED <<bodyVars, buffer, src, wifi_pwd, pc>>
      /\ At(b) # Ampersand /\ Len(w) < SsidSize - 1 /\ w' = Append(w, At(b))
  BY <1>2, SizesAssumption DEF CopySsid, SsidRoom, NextIndex
<1>4. /\ b \in Nat /\ w \in Seq(0 .. 255) /\ Len(w) \in Nat /\ wifi_pwd = <<>>
      /\ b = 5 + Len(w) /\ Len(w) <= s
      /\ \A i \in 1 .. Len(w) : w[i] = e.ssid[i]
  <2>1. /\ w \in Seq(0 .. 255) /\ wifi_pwd = <<>>
        /\ b = 5 + Len(w) /\ Copied(w, entered.ssid)
    BY <1>3 DEF FormInv, FormTaken, FormType, Parsing, SsidStart
  <2>2. s = Len(e.ssid)
    BY <1>1, Zenon DEF Shape
  <2>3. QED
    BY <1>2, <1>1, <2>1, <2>2 DEF Copied
<1>5. /\ Len(f) \in Nat /\ 7 + s + n + p < Len(f)
      /\ s \in Nat /\ n \in Nat /\ p \in Nat
      /\ f[6 + s] = Ampersand /\ \A i \in 1 .. s : f[5 + i] = e.ssid[i]
      /\ s = Len(e.ssid) /\ e.ssid \in Seq(Character)
  BY <1>1, Zenon DEF Shape
<1> HIDE DEF b, w
<1>6. At(b) = f[b + 1]
  <2> DEFINE l == Len(f)
             k == Len(w)
  <2>1. /\ l \in Nat /\ 7 + s + n + p < l /\ s \in Nat /\ n \in Nat /\ p \in Nat
        /\ b \in Nat /\ k \in Nat /\ b = 5 + k /\ k <= s
    BY <1>4, <1>5, Zenon
  <2> HIDE DEF k, l
  <2>2. b < l
    BY <2>1
  <2>3. QED
    BY <1>1, <2>1, <2>2, Zenon DEF l
<1>7. Len(w) < s /\ At(b) = e.ssid[Len(w) + 1]
  <2>1. Len(w) # s
    BY <1>3, <1>4, <1>5, <1>6
  <2>2. Len(w) < s
    BY <1>4, <2>1
  <2>3. f[5 + (Len(w) + 1)] = e.ssid[Len(w) + 1]
    BY <1>4, <1>5, <2>2
  <2>4. QED
    BY <1>4, <1>6, <2>2, <2>3
<1>8. At(b) \in 0 .. 255
  <2>1. Len(w) + 1 \in 1 .. Len(e.ssid)
    BY <1>4, <1>5, <1>7
  <2>2. e.ssid[Len(w) + 1] \in Character
    BY <1>5, <2>1
  <2>3. QED
    BY <1>7, <2>2 DEF Character
<1>9. /\ w' \in Seq(0 .. 255) /\ Len(w') = Len(w) + 1
      /\ \A i \in 1 .. Len(w') : w'[i] = e.ssid[i]
  BY <1>3, <1>4, <1>7, <1>8
<1>10. /\ entered' = e /\ pc' = "ssid" /\ wifi_pwd' = <<>>
      /\ Len(w') <= Len(e.ssid) /\ b' = 5 + Len(w') /\ b' \in 0 .. 127 /\ b' <= Len(f)
      /\ Len(w') <= SsidSize - 1
  <2>1. SsidSize \in 1 .. 122
    BY SizesAssumption
  <2>2. entered' = e /\ pc' = "ssid" /\ wifi_pwd' = <<>>
    BY <1>1, <1>3, <1>4 DEF bodyVars
  <2>3. Len(w') <= Len(e.ssid) /\ Len(w') <= SsidSize - 1
    BY <1>3, <1>4, <1>5, <1>7, <1>9, <2>1
  <2>4. b' = 5 + Len(w') /\ b' \in 0 .. 127 /\ b' <= Len(f)
    <3> DEFINE l == Len(f)
               k == Len(w)
    <3>1. /\ l \in Nat /\ 7 + s + n + p < l /\ k < SsidSize - 1
          /\ s \in Nat /\ n \in Nat /\ p \in Nat /\ k \in Nat /\ k < s
          /\ b = 5 + k /\ b' = b + 1
      BY <1>3, <1>4, <1>5, <1>7, Zenon
    <3> HIDE DEF k, l
    <3>2. b' = 5 + (k + 1) /\ b' \in 0 .. 127 /\ b' <= l
      BY <3>1, <2>1
    <3>3. QED
      BY <3>2, <1>9, Zenon DEF k, l
  <2>5. QED
    BY <2>2, <2>3, <2>4
<1>11. Parsing'
  BY <1>9, <1>10 DEF Parsing, SsidStart, Copied, w, b
<1>12. FormType' /\ FieldsFit' /\ IndexInBody' /\ Extracted'
  BY <1>1, <1>3, <1>9, <1>10
     DEF FormInv, FormTaken, FormType, FieldsFit, IndexInBody, Extracted, bodyVars, w, b
<1>13. InForm' /\ InCommand' /\ Idle' /\ ClearedByOthers'
  BY <1>3, ParserKeeps
<1>14. QED
  BY <1>11, <1>12, <1>13, Zenon DEF FormInv, FormTaken

LEMMA EndSsidStep ==
    ASSUME FormInv, EndSsid PROVE FormInv'
<1>1. PICK e \in Entries, f \in Seq(Character), s, n, p \in Nat :
              /\ entered = e /\ Shape(e, f, s, n, p)
              /\ Len(buffer) = Len(f) /\ Len(data) \in Nat /\ Len(f) <= Len(data)
              /\ \A i \in Nat : i < Len(f) => At(i) = f[i + 1]
  BY InBuffer DEF EndSsid
<1> DEFINE b == buff_index
           w == wifi_ssid
<1>2. pc = "ssid" /\ b = 5 + Len(w) /\ Len(w) \in Nat /\ Len(w) <= SsidSize - 1
  BY DEF EndSsid, FormInv, FormTaken, FormType, FieldsFit, Parsing, SsidStart
<1>3. /\ pc = "ssid" /\ b' = b + 1 /\ UNCHANGED <<bodyVars, buffer, src, fieldVars>>
      /\ pc' = "password_name"
      /\ At(b) = Ampersand \/ ~(Len(w) < SsidSize - 1)
  BY <1>2, SizesAssumption DEF EndSsid, SsidRoom, NextIndex
<1>4. /\ b \in Nat /\ w \in Seq(0 .. 255) /\ Len(w) \in Nat /\ wifi_pwd = <<>>
      /\ b = 5 + Len(w) /\ Len(w) <= s /\ Len(w) <= SsidSize - 1
      /\ \A i \in 1 .. Len(w) : w[i] = e.ssid[i]
  <2>1. /\ w \in Seq(0 .. 255) /\ wifi_pwd = <<>>
        /\ b = 5 + Len(w) /\ Copied(w, entered.ssid) /\ Len(w) <= SsidSize - 1
    BY <1>3 DEF FormInv, FormTaken, FormType, Parsing, SsidStart, FieldsFit
  <2>2. s = Len(e.ssid)
    BY <1>1, Zenon DEF Shape
  <2>3. QED
    BY <1>2, <1>1, <2>1, <2>2 DEF Copied
<1>5. /\ Len(f) \in Nat /\ 7 + s + n + p < Len(f)
      /\ s \in Nat /\ n \in Nat /\ p \in Nat
      /\ f[6 + s] = Ampersand /\ \A i \in 1 .. s : f[5 + i] = e.ssid[i]
      /\ \A i \in 1 .. n : f[6 + s + i] # Equals
      /\ s = Len(e.ssid) /\ e.ssid \in Seq(Character) /\ PwdStart(e) = 7 + s + n
  BY <1>1, Zenon DEF Shape
<1>6. SsidSize \in Nat \ {0} /\ SsidSize <= 122
  BY SizesAssumption
<1>7. entered' = e /\ w' = w /\ wifi_pwd' = <<>> /\ buffer' = buffer
  BY <1>1, <1>3, <1>4 DEF bodyVars, fieldVars
<1>8. b' = 6 + Len(w) /\ b' <= 6 + s + n
  <2> HIDE DEF b, w
  <2> QED BY <1>3, <1>4, <1>5
<1>9. ASSUME Separated
      PROVE  /\ w = Cut(e.ssid, SsidSize)
             /\ \A i \in 7 + Len(w) .. 6 + s + n : f[i] # Equals
  <2> HIDE DEF b, w
  <2>1. /\ \A i \in 1 .. s : e.ssid[i] # Ampersand
        /\ s < SsidSize \/ \A i \in 1 .. s : e.ssid[i] # Equals
    BY <1>1, <1>5, <1>9 DEF Separated, Occurs
  <2>2. Len(w) = s \/ Len(w) = SsidSize - 1
    <3>1. At(b) = f[b + 1]
      BY <1>1, <1>4, <1>5
    <3>2. Len(w) < s => At(b) = e.ssid[Len(w) + 1]
      <4>1. Len(w) < s => f[5 + (Len(w) + 1)] = e.ssid[Len(w) + 1]
        <5>1. Len(w) < s => Len(w) + 1 \in 1 .. s
          BY <1>4, <1>5
        <5>2. QED
          BY <1>5, <5>1, Zenon
      <4>2. QED
        BY <1>4, <3>1, <4>1
    <3>3. Len(w) < s => At(b) # Ampersand
      BY <1>4, <2>1, <3>2
    <3>4. QED
      BY <1>3, <1>4, <1>6, <3>3
  <2>3. Len(w) = IF s < SsidSize THEN s ELSE SsidSize - 1
    BY <1>4, <1>6, <2>2
  <2>4. w = Cut(e.ssid, SsidSize)
    <3> DEFINE c == SubSeq(e.ssid, 1, Len(w))
    <3>1. Cut(e.ssid, SsidSize) = c
      BY <1>5, <2>3, Zenon DEF Cut
    <3>2. c \in Seq(Character) /\ Len(c) = Len(w) /\ \A i \in 1 .. Len(w) : c[i] = e.ssid[i]
      BY <1>4, <1>5
    <3> HIDE DEF c
    <3>3. w = c
      BY <1>4, <3>2
    <3>4. QED
      BY <3>1, <3>3
  <2>5. ASSUME NEW i \in 7 + Len(w) .. 6 + s + n PROVE f[i] # Equals
    <3>1. CASE i <= 5 + s
      <4>1. s >= SsidSize
        BY <1>4, <1>6, <2>3, <3>1
      <4>2. i - 5 \in 1 .. s
        BY <1>4, <3>1
      <4>3. f[5 + (i - 5)] = e.ssid[i - 5] /\ e.ssid[i - 5] # Equals
        BY <1>5, <1>6, <2>1, <4>1, <4>2
      <4>4. QED
        BY <1>4, <4>3
    <3>2. CASE i = 6 + s
      BY <1>5, <3>2 DEF Ampersand, Equals
    <3>3. CASE i > 6 + s
      <4>1. i - (6 + s) \in 1 .. n
        BY <1>4, <3>3
      <4>2. f[6 + s + (i - (6 + s))] # Equals
        BY <1>5, <4>1
      <4>3. QED
        BY <1>4, <4>2
    <3>4. QED
      BY <1>4, <3>1, <3>2, <3>3
  <2>6. QED
    BY <2>4, <2>5
<1>10. Parsing'
  <2>1. Separated' => Separated
    BY <1>1, <1>7, Zenon DEF Separated
  <2>2. f = Form(e)
    BY <1>1, Zenon DEF Shape
  <2>3. b' \in 0 .. PwdStart(e) - 1
    <3> HIDE DEF b, w
    <3> QED BY <1>4, <1>5, <1>8
  <2>4. Separated' => /\ w' = Cut(e.ssid, SsidSize)
                      /\ \A i \in b' + 1 .. PwdStart(e) - 1 : Form(e)[i] # Equals
    <3> HIDE DEF b, w
    <3>1. b' + 1 = 7 + Len(w) /\ PwdStart(e) - 1 = 6 + s + n
      BY <1>4, <1>5, <1>8
    <3>2. QED
      BY <1>7, <1>9, <2>1, <2>2, <3>1, Zenon
  <2>5. QED
    BY <1>3, <1>7, <2>3, <2>4 DEF Parsing, SsidTaken, b, w
<1>11. FormType' /\ FieldsFit' /\ IndexInBody' /\ Extracted'
  <2>1. b' \in 0 .. 127 /\ b' <= Len(f)
    <3> DEFINE l == Len(f)
               k == Len(w)
    <3>1. /\ l \in Nat /\ 7 + s + n + p < l /\ k <= SsidSize - 1
          /\ s \in Nat /\ n \in Nat /\ p \in Nat /\ k \in Nat
          /\ b' = 6 + k /\ b' <= 6 + s + n
      BY <1>4, <1>5, <1>8, Zenon
    <3> HIDE DEF b, k, l
    <3>2. b' \in 0 .. 127 /\ b' <= l
      BY <1>6, <3>1
    <3>3. QED
      BY <3>2 DEF l
  <2>2. FormType /\ FieldsFit
    BY Zenon DEF FormInv, FormTaken
  <2>3. FormType'
    BY <1>3, <2>1, <2>2 DEF FormType, bodyVars, fieldVars, b
  <2>4. FieldsFit'
    <3>1. wifi_ssid' = wifi_ssid /\ wifi_pwd' = wifi_pwd
      BY <1>3, Zenon DEF fieldVars
    <3>2. QED
      BY <2>2, <3>1, Zenon DEF FieldsFit
  <2>5. IndexInBody' /\ Extracted'
    <3>1. Len(buffer') = Len(f) /\ pc' = "password_name"
      BY <1>1, <1>3, <1>7
    <3>2. IndexInBody'
      <4>1. b' \in 0 .. Len(f)
        BY <2>1
      <4>2. QED
        BY <3>1, <4>1, Zenon DEF IndexInBody
    <3>3. Extracted'
      BY <3>1 DEF Extracted
    <3>4. QED
      BY <3>2, <3>3
  <2>6. QED
    BY <2>3, <2>4, <2>5
<1>12. InForm' /\ InCommand' /\ Idle' /\ ClearedByOthers'
  BY <1>3, ParserKeeps
<1>13. QED
  BY <1>10, <1>11, <1>12, Zenon DEF FormInv, FormTaken

LEMMA PasswordNameStep ==
    ASSUME FormInv, SkipName("password_name", "password") PROVE FormInv'
<1>1. PICK e \in Entries, f \in Seq(Character), s, n, p \in Nat :
              /\ entered = e /\ Shape(e, f, s, n, p)
              /\ Len(buffer) = Len(f) /\ Len(data) \in Nat /\ Len(f) <= Len(data)
              /\ \A i \in Nat : i < Len(f) => At(i) = f[i + 1]
  BY InBuffer DEF SkipName
<1> DEFINE b == buff_index
           l == Len(f)
<1>2. /\ pc = "password_name" /\ b' = NextIndex(b)
      /\ UNCHANGED <<bodyVars, buffer, src, fieldVars>>
      /\ \E c \in Reads(b) : pc' = IF c = Equals THEN "password" ELSE "password_name"
  BY DEF SkipName
<1>3. /\ l \in Nat /\ 7 + s + n + p < l /\ (Fits(e) <=> 7 + s + n + p <= 127)
      /\ s \in Nat /\ n \in Nat /\ p \in Nat /\ PwdStart(e) = 7 + s + n
  BY <1>1, Zenon DEF Shape
<1>4. f[7 + s + n] = Equals /\ f = Form(e) /\ p = Len(e.password)
  BY <1>1, Zenon DEF Shape
<1>5. /\ b \in -128 .. 127 /\ wifi_pwd = <<>>
      /\ Separated => SsidTaken
      /\ Fits(e) => /\ b \in 0 .. PwdStart(e) - 1
                    /\ Separated => \A i \in b + 1 .. PwdStart(e) - 1 : Form(e)[i] # Equals
  BY <1>1, <1>2 DEF FormInv, FormTaken, FormType, Parsing
<1> HIDE DEF b, l
<1>6. pc' \in {"password_name", "password"}
  BY <1>2
<1>7. entered' = e /\ wifi_ssid' = wifi_ssid /\ wifi_pwd' = <<>> /\ buffer' = buffer
  BY <1>1, <1>2, <1>5 DEF bodyVars, fieldVars
<1>8. (SsidTaken' <=> SsidTaken) /\ (Separated' <=> Separated)
  BY <1>1, <1>7, Zenon DEF SsidTaken, Separated
<1>9. ASSUME ~Fits(e)
      PROVE  Parsing' /\ IndexInBody'
  BY <1>5, <1>6, <1>9, <1>7, <1>8 DEF Parsing, IndexInBody
<1>10. ASSUME Fits(e)
      PROVE  Parsing' /\ IndexInBody'
  <2>1. b \in 0 .. PwdStart(e) - 1 /\ b \in Nat
    BY <1>3, <1>5, <1>10
  <2>2. Separated => /\ SsidTaken
                     /\ \A i \in b + 1 .. PwdStart(e) - 1 : Form(e)[i] # Equals
    BY <1>5, <1>10
  <2>3. b <= 6 + s + n /\ b < l /\ 7 + s + n + p <= 127
    BY <1>3, <2>1, <1>10
  <2>4. b' = b + 1
    <3>1. b # 127
      BY <1>3, <2>1, <2>3
    <3>2. QED
      BY <1>2, <3>1 DEF NextIndex
  <2>5. At(b) = f[b + 1]
    BY <1>1, <2>1, <2>3 DEF l
  <2>6. pc' = IF At(b) = Equals THEN "password" ELSE "password_name"
    BY <1>2, <2>1 DEF Reads
  <2>7. ASSUME At(b) = Equals
         PROVE  Parsing' /\ b' <= 7 + s + n + p /\ pc' \in {"password_name", "password"}
    <3>1. pc' = "password"
      BY <2>6, <2>7
    <3>2. b' <= 7 + s + n + p
      BY <1>3, <2>1, <2>4, <2>3
    <3>3. ASSUME Separated PROVE b' = 7 + s + n
      <4>1. \A i \in b + 1 .. 6 + s + n : f[i] # Equals
        <5>1. PwdStart(e) - 1 = 6 + s + n
          BY <1>3
        <5>2. QED
          BY <1>4, <2>2, <3>3, <5>1, Zenon
      <4>2. ~(b + 1 <= 6 + s + n)
        <5>1. b + 1 <= 6 + s + n => b + 1 \in b + 1 .. 6 + s + n
          BY <1>3, <2>1
        <5>2. QED
          BY <2>5, <2>7, <4>1, <5>1, Zenon
      <4>3. QED
        BY <1>3, <2>1, <2>4, <2>3, <4>2
    <3>4. Parsing'
      <4>1. b' \in 0 .. PwdStart(e) + Len(e.password)
        <5>1. b' \in 0 .. PwdStart(e) + p
          BY <1>3, <2>1, <2>4, <3>2
        <5>2. QED
          BY <1>4, <5>1, Zenon
      <4>2. Len(wifi_pwd') = 0
        BY <1>7
      <4>3. Separated' => b' = PwdStart(e) + Len(wifi_pwd')
        BY <1>3, <1>8, <3>3, <4>2
      <4>4. Copied(wifi_pwd, entered.password)'
        BY <1>3, <1>4, <1>7 DEF Copied
      <4>5. Separated' => SsidTaken'
        BY <2>2, <1>8, Zenon
      <4>6. QED
        BY <1>7, <3>1, <4>1, <4>3, <4>4, <4>5 DEF Parsing, b
    <3>5. QED
      BY <3>1, <3>2, <3>4
  <2>8. ASSUME At(b) # Equals
         PROVE  Parsing' /\ b' <= 7 + s + n + p /\ pc' \in {"password_name", "password"}
    <3>1. pc' = "password_name"
      BY <2>6, <2>8
    <3>2. b' <= 6 + s + n
      <4>1. b # 6 + s + n
        <5>1. b = 6 + s + n => b + 1 = 7 + s + n
          BY <1>3
        <5>2. QED
          BY <1>4, <2>5, <2>8, <5>1, Zenon
      <4>2. QED
        BY <1>3, <2>1, <2>4, <2>3, <4>1
    <3>3. Parsing'
      <4>1. b' \in 0 .. PwdStart(e) - 1
        BY <1>3, <2>1, <2>4, <3>2
      <4>2. \A i \in b' + 1 .. PwdStart(e) - 1 : i \in b + 1 .. PwdStart(e) - 1
        BY <1>3, <2>1, <2>4
      <4>3. Separated' => \A i \in b' + 1 .. PwdStart(e) - 1 : Form(e)[i] # Equals
        BY <2>2, <1>8, <4>2, Zenon
      <4>4. Separated' => SsidTaken'
        BY <2>2, <1>8, Zenon
      <4>5. QED
        BY <1>7, <3>1, <4>1, <4>3, <4>4 DEF Parsing, b
    <3>4. b' <= 7 + s + n + p
      BY <1>3, <2>1, <2>4, <3>2
    <3>5. QED
      BY <3>1, <3>3, <3>4, Zenon
  <2>9. Parsing' /\ b' <= 7 + s + n + p /\ pc' \in {"password_name", "password"}
    BY <2>7, <2>8
  <2>10. b' \in 0 .. l
    BY <1>3, <2>1, <2>4, <2>9
  <2>11. IndexInBody'
    <3>1. Len(buffer') = l
      BY <1>1, <1>7 DEF l
    <3>2. QED
      BY <2>10, <3>1, Zenon DEF IndexInBody, b
  <2>12. QED
    BY <2>9, <2>11
<1>11. Parsing' /\ IndexInBody'
  BY <1>9, <1>10
<1>12. FormType' /\ FieldsFit' /\ Extracted'
  <2>1. FormType /\ FieldsFit
    BY Zenon DEF FormInv, FormTaken
  <2>2. wifi_pwd' = wifi_pwd
    BY <1>5, <1>7
  <2>3. b' \in -128 .. 127
    BY <1>2, <1>5 DEF NextIndex
  <2>4. FormType'
    BY <1>2, <1>6, <2>1, <2>3 DEF FormType, bodyVars, fieldVars, b
  <2>5. FieldsFit' /\ Extracted'
    BY <1>6, <1>7, <2>1, <2>2 DEF FieldsFit, Extracted
  <2>6. QED
    BY <2>4, <2>5
<1>13. InForm' /\ InCommand' /\ Idle' /\ ClearedByOthers'
  BY <1>2, <1>6, ParserKeeps
<1>14. QED
  BY <1>11, <1>12, <1>13, Zenon DEF FormInv, FormTaken

\* What is known of a password that is being taken within the index.
LEMMA InPassword ==
    ASSUME FormInv, pc = "password", Fits(entered)
    PROVE  \E e \in Entries, f \in Seq(Character), s, n, p \in Nat :
              /\ entered = e /\ Shape(e, f, s, n, p) /\ Len(buffer) = Len(f)
              /\ Len(data) \in Nat /\ Len(f) <= Len(data)
              /\ buff_index \in Nat /\ buff_index <= 7 + s + n + p
              /\ At(buff_index) = f[buff_index + 1]
              /\ buff_index < 7 + s + n + p \/ At(buff_index) = Ampersand
              /\ 7 + s + n + p <= 127
              /\ Separated =>
                    /\ buff_index = 7 + s + n + Len(wifi_pwd)
                    /\ Len(wifi_pwd) <= p
                    /\ \A i \in 1 .. Len(wifi_pwd) : wifi_pwd[i] = e.password[i]
                    /\ Len(wifi_pwd) < p => At(buff_index) = e.password[Len(wifi_pwd) + 1]
<1>1. PICK e \in Entries, f \in Seq(Character), s, n, p \in Nat :
              /\ entered = e /\ Shape(e, f, s, n, p)
              /\ Len(buffer) = Len(f) /\ Len(data) \in Nat /\ Len(f) <= Len(data)
              /\ \A i \in Nat : i < Len(f) => At(i) = f[i + 1]
  BY InBuffer
<1> DEFINE b == buff_index
           k == Len(wifi_pwd)
           l == Len(f)
<1>2. /\ l \in Nat /\ 7 + s + n + p < l /\ (Fits(e) <=> 7 + s + n + p <= 127)
      /\ s \in Nat /\ n \in Nat /\ p \in Nat /\ PwdStart(e) = 7 + s + n
  BY <1>1, Zenon DEF Shape
<1>3. /\ p = Len(e.password) /\ f[7 + s + n + p + 1] = Ampersand
      /\ \A i \in 1 .. p : f[7 + s + n + i] = e.password[i]
  BY <1>1, Zenon DEF Shape
<1>4. FormType /\ Parsing
  BY Zenon DEF FormInv, FormTaken
<1>5. b \in Nat /\ k \in Nat /\ 7 + s + n + p <= 127
  <2>1. b \in 0 .. PwdStart(e) + Len(e.password)
    BY <1>1, <1>4, Zenon DEF Parsing
  <2>2. k \in Nat
    BY <1>4 DEF FormType
  <2>3. QED
    BY <1>1, <1>2, <2>1, <2>2
<1>6. /\ b <= PwdStart(e) + Len(e.password)
      /\ Separated => b = PwdStart(e) + k /\ Copied(wifi_pwd, e.password)
  <2>1. /\ b \in 0 .. PwdStart(e) + Len(e.password)
        /\ Separated => b = PwdStart(e) + k /\ Copied(wifi_pwd, e.password)
    BY <1>1, <1>4, Zenon DEF Parsing
  <2>2. QED
    BY <2>1
<1>7. b <= 7 + s + n + p
  BY <1>2, <1>3, <1>6, Zenon
<1> HIDE DEF b, k, l
<1>8. b < l
  BY <1>2, <1>5, <1>7
<1>9. At(b) = f[b + 1]
  BY <1>1, <1>5, <1>8 DEF l
<1>10. b < 7 + s + n + p \/ At(b) = Ampersand
  <2>1. b < 7 + s + n + p \/ b + 1 = 7 + s + n + p + 1
    BY <1>2, <1>5, <1>7
  <2>2. QED
    BY <1>3, <1>9, <2>1, Zenon
<1>11. ASSUME Separated
       PROVE  /\ b = 7 + s + n + k /\ k <= p
              /\ \A i \in 1 .. k : wifi_pwd[i] = e.password[i]
              /\ k < p => At(b) = e.password[k + 1]
  <2>1. b = 7 + s + n + k
    BY <1>2, <1>6, <1>11, Zenon
  <2>2. k <= p /\ \A i \in 1 .. k : wifi_pwd[i] = e.password[i]
    BY <1>3, <1>6, <1>11, Zenon DEF Copied, k
  <2>3. k < p => At(b) = e.password[k + 1]
    <3>1. k < p => k + 1 \in 1 .. p
      BY <1>2, <1>5
    <3>2. b + 1 = 7 + s + n + (k + 1)
      BY <1>2, <1>5, <2>1
    <3>3. QED
      BY <1>3, <1>9, <3>1, <3>2, Zenon
  <2>4. QED
    BY <2>1, <2>2, <2>3
<1>12. QED
  BY <1>1, <1>5, <1>7, <1>9, <1>10, <1>11, Zenon DEF b, k

LEMMA CopyPasswordStep ==
    ASSUME FormInv, CopyPassword PROVE FormInv'
<1> DEFINE b == buff_index
           w == wifi_pwd
           k == Len(wifi_pwd)
<1>1. /\ pc = "password" /\ b' = NextIndex(b) /\ w' = Append(w, At(b))
      /\ UNCHANGED <<bodyVars, buffer, src, wifi_ssid, pc>>
      /\ At(b) # Ampersand /\ k < PwdSize - 1 /\ b \in 0 .. Len(data) - 1
  BY DEF CopyPassword, PasswordContinues
<1>2. FormType /\ FieldsFit /\ Parsing
  BY Zenon DEF FormInv, FormTaken
<1>3. w \in Seq(0 .. 255) /\ k \in Nat /\ b \in -128 .. 127 /\ b \in Nat
  BY <1>1, <1>2 DEF FormType
<1>4. At(b) \in 0 .. 255
  <2>1. buffer \in Seq(0 .. 255) /\ Len(buffer) \in Nat
    BY <1>2 DEF FormType
  <2>2. ASSUME b < Len(buffer) PROVE buffer[b + 1] \in 0 .. 255
    <3>1. b + 1 \in 1 .. Len(buffer)
      BY <1>3, <2>1, <2>2
    <3>2. QED
      BY <2>1, <3>1, ElementOf
  <2>3. CASE b < Len(buffer)
    BY <2>2, <2>3 DEF At
  <2>4. CASE ~(b < Len(buffer))
    BY <2>4 DEF At
  <2>5. QED
    BY <2>3, <2>4
<1>5. w' \in Seq(0 .. 255) /\ Len(w') = k + 1
  BY <1>1, <1>3, <1>4
<1>6. /\ pc' = "password" /\ entered' = entered /\ buffer' = buffer /\ data' = data
      /\ wifi_ssid' = wifi_ssid
  BY <1>1 DEF bodyVars
<1>7. (Separated' <=> Separated) /\ (SsidTaken' <=> SsidTaken)
  BY <1>6 DEF Separated, SsidTaken
<1>8. FormType' /\ FieldsFit' /\ Extracted'
  <2>1. b' \in -128 .. 127
    BY <1>1, <1>3 DEF NextIndex
  <2>2. FormType'
    BY <1>1, <1>2, <1>5, <2>1 DEF FormType, bodyVars
  <2>3. Len(w') <= PwdSize - 1
    <3>1. PwdSize \in 1 .. 128
      BY SizesAssumption
    <3>2. QED
      BY <1>1, <1>3, <1>5, <3>1
  <2>4. FieldsFit' /\ Extracted'
    BY <1>2, <1>6, <2>3 DEF FieldsFit, Extracted
  <2>5. QED
    BY <2>2, <2>4
<1>9. Separated' => SsidTaken'
  BY <1>1, <1>2, <1>7 DEF Parsing
<1>10. ASSUME ~Fits(entered)
       PROVE  Parsing' /\ IndexInBody'
  BY <1>6, <1>9, <1>10 DEF Parsing, IndexInBody
<1>11. ASSUME Fits(entered)
       PROVE  Parsing' /\ IndexInBody'
  <2>1. PICK e \in Entries, f \in Seq(Character), s, n, p \in Nat :
                /\ entered = e /\ Shape(e, f, s, n, p) /\ Len(buffer) = Len(f)
                /\ Len(data) \in Nat /\ Len(f) <= Len(data)
                /\ buff_index \in Nat /\ buff_index <= 7 + s + n + p
                /\ At(buff_index) = f[buff_index + 1]
                /\ buff_index < 7 + s + n + p \/ At(buff_index) = Ampersand
                /\ 7 + s + n + p <= 127
                /\ Separated =>
                      /\ buff_index = 7 + s + n + Len(wifi_pwd)
                      /\ Len(wifi_pwd) <= p
                      /\ \A i \in 1 .. Len(wifi_pwd) : wifi_pwd[i] = e.password[i]
                      /\ Len(wifi_pwd) < p => At(buff_index) = e.password[Len(wifi_pwd) + 1]
    BY <1>1, <1>11, InPassword
  <2> DEFINE l == Len(f)
  <2>2. /\ l \in Nat /\ 7 + s + n + p < l
        /\ s \in Nat /\ n \in Nat /\ p \in Nat /\ PwdStart(e) = 7 + s + n
    BY <2>1, Zenon DEF Shape
  <2>3. p = Len(e.password)
    BY <2>1, Zenon DEF Shape
  <2>4. b \in Nat /\ b < 7 + s + n + p
    BY <2>1, <1>1
  <2>5. b' = b + 1 /\ b' \in 0 .. l /\ b' \in 0 .. 7 + s + n + p
    <3>1. b' = b + 1
      BY <1>1, <2>1, <2>2, <2>4 DEF NextIndex
    <3> HIDE DEF b, l
    <3>2. QED
      BY <2>2, <2>4, <3>1
  <2>6. Separated' => /\ b' = 7 + s + n + Len(w') /\ Len(w') <= p
                       /\ \A i \in 1 .. Len(w') : w'[i] = e.password[i]
    <3>1. Separated' <=> Separated
      BY <1>6 DEF Separated
    <3>2. ASSUME Separated
          PROVE  /\ b' = 7 + s + n + Len(w') /\ Len(w') <= p
                 /\ \A i \in 1 .. Len(w') : w'[i] = e.password[i]
      <4>1. /\ b = 7 + s + n + k /\ k <= p
            /\ \A i \in 1 .. k : w[i] = e.password[i]
            /\ k < p => At(b) = e.password[k + 1]
        BY <2>1, <3>2, Zenon
      <4>2. k < p /\ b' = 7 + s + n + (k + 1)
        <5>1. b' = b + 1
          BY <2>5
        <5> HIDE DEF b, k
        <5>2. QED
          BY <2>2, <1>3, <2>4, <4>1, <5>1
      <4>3. Len(w') <= p
        BY <2>2, <1>3, <1>5, <4>2
      <4>4. \A i \in 1 .. Len(w') : w'[i] = e.password[i]
        <5>1. /\ \A i \in 1 .. k : w'[i] = w[i]
              /\ w'[k + 1] = At(b)
          BY <1>1, <1>3, <1>4
        <5>2. \A i \in 1 .. Len(w') : i \in 1 .. k \/ i = k + 1
          BY <1>3, <1>5
        <5>3. QED
          BY <4>1, <4>2, <5>1, <5>2, Zenon
      <4>5. QED
        BY <1>5, <4>1, <4>2, <4>3, <4>4, Zenon
    <3>3. QED
      BY <3>1, <3>2, Zenon
  <2>7. Parsing'
    <3>1. b' \in 0 .. PwdStart(e) + Len(e.password)
      BY <2>2, <2>3, <2>5, Zenon
    <3>2. Separated' => b' = PwdStart(e) + Len(w') /\ Copied(w', e.password)
      BY <2>2, <2>3, <2>6, Zenon DEF Copied
    <3>3. entered' = e
      BY <2>1, <1>6
    <3>4. Copied(wifi_pwd, entered.password)' <=> Copied(w', e.password)
      BY <3>3, Zenon DEF Copied
    <3>5. QED
      BY <1>6, <1>9, <3>1, <3>2, <3>3, <3>4 DEF Parsing
  <2>8. IndexInBody'
    <3>1. Len(buffer') = l
      BY <2>1, <1>6
    <3>2. QED
      BY <2>5, <3>1, Zenon DEF IndexInBody
  <2>9. QED
    BY <2>7, <2>8
<1>12. InForm' /\ InCommand' /\ Idle' /\ ClearedByOthers'
  BY <1>1, ParserKeeps
<1>13. QED
  BY <1>8, <1>10, <1>11, <1>12, Zenon DEF FormInv, FormTaken

LEMMA EndPasswordStep ==
    ASSUME FormInv, EndPassword PROVE FormInv'
<1> DEFINE b == buff_index
           w == wifi_pwd
           k == Len(wifi_pwd)
<1>1. /\ pc = "password" /\ pc' = "done"
      /\ UNCHANGED <<bodyVars, buffer, src, buff_index, fieldVars>>
      /\ ~(b \in 0 .. Len(data) - 1) \/ At(b) = Ampersand \/ ~(k < PwdSize - 1)
  BY DEF EndPassword, PasswordContinues
<1>2. /\ entered' = entered /\ buffer' = buffer /\ wifi_ssid' = wifi_ssid
      /\ wifi_pwd' = wifi_pwd /\ b' = b
  BY <1>1 DEF bodyVars, fieldVars
<1>3. FormType /\ FieldsFit /\ IndexInBody /\ Parsing
  BY Zenon DEF FormInv, FormTaken
<1>4. w \in Seq(0 .. 255) /\ k \in Nat
  BY <1>3 DEF FormType
<1>5. PwdSize \in Nat \ {0}
  BY SizesAssumption
<1>6. Separated => wifi_ssid = Cut(entered.ssid, SsidSize)
  BY <1>1, <1>3, Zenon DEF Parsing, SsidTaken
<1>7. FormType' /\ FieldsFit' /\ IndexInBody' /\ Parsing'
  <2>1. FormType'
    BY <1>1, <1>3 DEF FormType, bodyVars, fieldVars
  <2>2. FieldsFit'
    BY <1>2, <1>3, Zenon DEF FieldsFit
  <2>3. IndexInBody' /\ Parsing'
    BY <1>1, <1>2, <1>3 DEF IndexInBody, Parsing
  <2>4. QED
    BY <2>1, <2>2, <2>3
<1>8. ASSUME Separated, Fits(entered)
      PROVE  wifi_pwd = Cut(entered.password, PwdSize)
  <2>1. PICK e \in Entries, f \in Seq(Character), s, n, p \in Nat :
                /\ entered = e /\ Shape(e, f, s, n, p) /\ Len(buffer) = Len(f)
                /\ Len(data) \in Nat /\ Len(f) <= Len(data)
                /\ buff_index \in Nat /\ buff_index <= 7 + s + n + p
                /\ At(buff_index) = f[buff_index + 1]
                /\ buff_index < 7 + s + n + p \/ At(buff_index) = Ampersand
                /\ 7 + s + n + p <= 127
                /\ Separated =>
                      /\ buff_index = 7 + s + n + Len(wifi_pwd)
                      /\ Len(wifi_pwd) <= p
                      /\ \A i \in 1 .. Len(wifi_pwd) : wifi_pwd[i] = e.password[i]
                      /\ Len(wifi_pwd) < p => At(buff_index) = e.password[Len(wifi_pwd) + 1]
    BY <1>1, <1>8, InPassword
  <2> DEFINE l == Len(f)
  <2>2. /\ l \in Nat /\ 7 + s + n + p < l /\ s \in Nat /\ n \in Nat /\ p \in Nat
    BY <2>1, Zenon DEF Shape
  <2>3. p = Len(e.password) /\ e.password \in Seq(Character)
    BY <2>1, Zenon DEF Shape
  <2>4. b \in Nat /\ b < l /\ b < Len(data)
    <3>1. b \in Nat /\ b <= 7 + s + n + p /\ l <= Len(data) /\ Len(data) \in Nat
      BY <2>1
    <3> DEFINE d == Len(data)
    <3> HIDE DEF b, l, d
    <3>2. b < l /\ b < d
      BY <2>2, <3>1 DEF d
    <3>3. QED
      BY <3>1, <3>2 DEF d
  <2>5. w = Cut(e.password, PwdSize)
    <3>1. /\ k <= p
          /\ \A i \in 1 .. k : w[i] = e.password[i]
          /\ k < p => At(b) = e.password[k + 1]
      BY <2>1, <1>8, Zenon
    <3>2. \A i \in 1 .. p : e.password[i] # Ampersand
      BY <2>1, <2>3, <1>8 DEF Separated, Occurs
    <3>3. k < p => At(b) # Ampersand
      <4>1. k < p => k + 1 \in 1 .. p
        BY <2>2, <1>4
      <4>2. QED
        BY <3>1, <3>2, <4>1, Zenon
    <3>4. k <= PwdSize - 1
      BY <1>3 DEF FieldsFit
    <3>5. k = IF p < PwdSize THEN p ELSE PwdSize - 1
      <4>1. ~(k < p) \/ ~(k < PwdSize - 1)
        <5>1. b \in 0 .. Len(data) - 1
          BY <2>1, <2>4
        <5>2. QED
          BY <1>1, <3>3, <5>1, Zenon
      <4>2. k <= p
        BY <3>1
      <4> HIDE DEF k
      <4>3. QED
        BY <2>2, <1>4, <1>5, <3>4, <4>1, <4>2
    <3>6. w = Cut(e.password, PwdSize)
      <4> DEFINE c == SubSeq(e.password, 1, k)
      <4>1. Cut(e.password, PwdSize) = c
        BY <2>3, <3>5, Zenon DEF Cut
      <4>2. c \in Seq(Character) /\ Len(c) = k /\ \A i \in 1 .. k : c[i] = e.password[i]
        BY <2>3, <1>4, <3>1
      <4> HIDE DEF c
      <4>3. w = c
        BY <1>4, <3>1, <4>2
      <4>4. QED
        BY <4>1, <4>3
    <3>7. QED
      BY <3>6
  <2>6. QED
    BY <2>1, <2>5
<1>9. Extracted'
  <2>1. Separated' <=> Separated
    BY <1>2, Zenon DEF Separated
  <2>2. QED
    BY <1>2, <1>6, <1>8, <2>1, Zenon DEF Extracted
<1>10. InForm' /\ InCommand' /\ Idle' /\ ClearedByOthers'
  BY <1>1, ParserKeeps
<1>11. QED
  BY <1>7, <1>9, <1>10, Zenon DEF FormInv, FormTaken

\* The first state, and the steps of the browser.
LEMMA InitForm == FormInit => FormInv
<1> SUFFICES ASSUME FormInit PROVE FormInv
  OBVIOUS
<1>1. FormType /\ FieldsFit /\ IndexInBody
  BY SizesAssumption DEF FormInit, FormType, FieldsFit, IndexInBody
<1>2. Extracted /\ ClearedByOthers /\ InForm /\ InCommand /\ Idle
  BY DEF FormInit, Extracted, ClearedByOthers, InForm, InCommand, Idle, Nothing
<1>3. Parsing
  BY DEF FormInit, Parsing
<1>4. QED
  BY <1>1, <1>2, <1>3 DEF FormInv, FormTaken

LEMMA PostFormStep ==
    ASSUME FormInv, PostForm PROVE FormInv'
<1>1. /\ pc = "idle" /\ pc' = "compose" /\ entered' \in Entries
      /\ UNCHANGED <<data, starts, buffer, src, buff_index, fieldVars>>
  BY DEF PostForm
<1>2. data = <<>> /\ starts = <<>> /\ buffer = <<>> /\ src = 0 /\ buff_index = 0
  BY <1>1 DEF FormInv, Idle, Parsing
<1>3. FormType /\ FieldsFit
  BY Zenon DEF FormInv, FormTaken
<1>4. FormType' /\ FieldsFit'
  <2>1. FormType'
    BY <1>1, <1>3 DEF FormType, fieldVars
  <2>2. FieldsFit'
    BY <1>1, <1>3 DEF FieldsFit, fieldVars
  <2>3. QED
    BY <2>1, <2>2
<1>5. entered'.form = TRUE /\ Len(Form(entered')) \in Nat
  <2>1. PICK e \in Entries : entered' = e
    BY <1>1
  <2>2. e.form = TRUE /\ Form(e) \in Seq(Character)
    BY FormParts
  <2>3. Len(Form(e)) \in Nat
    BY <2>2
  <2>4. QED
    BY <2>1, <2>2, <2>3, Zenon
<1>6. IndexInBody' /\ Extracted' /\ ClearedByOthers' /\ InCommand' /\ Idle'
  BY <1>1, <1>2, <1>5
     DEF IndexInBody, Extracted, ClearedByOthers, InCommand, Idle
<1>7. Composed'
  BY <1>1, <1>2, <1>5 DEF Composed, StartOf
<1>8. InForm'
  BY <1>1, <1>7, Zenon DEF InForm
<1>9. Parsing'
  BY <1>1, <1>2, Zenon DEF Parsing
<1>10. QED
  BY <1>4, <1>6, <1>8, <1>9, Zenon DEF FormInv, FormTaken

LEMMA PostCommandStep ==
    ASSUME FormInv, PostCommand PROVE FormInv'
<1>1. /\ pc = "idle" /\ pc' = "clear" /\ data' \in Commands
      /\ UNCHANGED <<entered, starts, buffer, src, buff_index, fieldVars>>
  BY DEF PostCommand
<1>2. entered = Nothing /\ starts = <<>> /\ buffer = <<>> /\ src = 0 /\ buff_index = 0
  BY <1>1 DEF FormInv, Idle, Parsing
<1>3. FormType /\ FieldsFit
  BY Zenon DEF FormInv, FormTaken
<1>4. FormType' /\ FieldsFit'
  <2>1. data' \in Seq(Character)
    BY <1>1, ValuesAssumption
  <2>2. FormType'
    BY <1>1, <1>3, <2>1 DEF FormType, fieldVars
  <2>3. FieldsFit'
    BY <1>1, <1>3 DEF FieldsFit, fieldVars
  <2>4. QED
    BY <2>2, <2>3
<1>5. ~entered'.form
  BY <1>1, <1>2 DEF Nothing
<1>6. IndexInBody' /\ Extracted' /\ ClearedByOthers' /\ InCommand' /\ Idle'
  BY <1>1, <1>2, <1>5
     DEF IndexInBody, Extracted, ClearedByOthers, InCommand, Idle
<1>7. InForm'
  BY <1>5, Zenon DEF InForm
<1>8. Parsing'
  BY <1>1, <1>2, Zenon DEF Parsing
<1>9. QED
  BY <1>4, <1>6, <1>7, <1>8, Zenon DEF FormInv, FormTaken

\* A form is being composed, and nothing of it decoded.
LEMMA InCompose ==
    ASSUME FormInv, pc = "compose"
    PROVE  /\ entered \in Entries /\ entered.form /\ Composed
           /\ buffer = <<>> /\ src = 0 /\ buff_index = 0
<1>1. FormType /\ InCommand /\ Parsing /\ InForm
  BY Zenon DEF FormInv, FormTaken
<1>2. entered.form
  BY <1>1, Zenon DEF InCommand
<1>3. entered \in Entries
  BY <1>1, <1>2 DEF FormType, Nothing
<1>4. QED
  BY <1>1, <1>2, <1>3, Zenon DEF InForm, Parsing

LEMMA SendStep ==
    ASSUME FormInv, Send PROVE FormInv'
<1>1. /\ pc = "compose" /\ pc' = "clear" /\ Len(starts) = Len(Form(entered))
      /\ entered' = entered /\ data' = data /\ starts' = starts /\ buffer' = buffer
      /\ src' = src /\ buff_index' = buff_index
      /\ wifi_ssid' = wifi_ssid /\ wifi_pwd' = wifi_pwd
  BY DEF Send, bodyVars, fieldVars
<1>2. /\ entered.form /\ Composed /\ buffer = <<>> /\ src = 0 /\ buff_index = 0
  BY <1>1, InCompose
<1>3. FormType /\ FieldsFit
  BY Zenon DEF FormInv, FormTaken
<1>4. FormType' /\ FieldsFit'
  BY <1>1, <1>3 DEF FormType, FieldsFit
<1>5. IndexInBody' /\ Extracted' /\ ClearedByOthers' /\ InCommand' /\ Idle'
  BY <1>1, <1>2 DEF IndexInBody, Extracted, ClearedByOthers, InCommand, Idle
<1>6. Composed'
  BY <1>1, <1>2 DEF Composed, StartOf
<1>7. InForm'
  BY <1>1, <1>6, Zenon DEF InForm
<1>8. Parsing'
  BY <1>1, <1>2, Zenon DEF Parsing
<1>9. QED
  BY <1>4, <1>5, <1>7, <1>8, Zenon DEF FormInv, FormTaken

LEMMA ComposeCharStep ==
    ASSUME FormInv, ComposeChar PROVE FormInv'
<1>1. PICK e \in Entries : entered = e
  BY InCompose DEF ComposeChar
<1> DEFINE m == Len(starts)
           d == Len(data)
           t == Piece(e, m + 1)
<1>2. /\ pc = "compose" /\ pc' = "compose" /\ m < Len(Form(e))
      /\ starts' = Append(starts, d) /\ data' = data \o t
      /\ entered' = e /\ buffer' = buffer /\ src' = src /\ buff_index' = buff_index
      /\ wifi_ssid' = wifi_ssid /\ wifi_pwd' = wifi_pwd
  BY <1>1 DEF ComposeChar, fieldVars
<1>3. entered.form /\ Composed /\ buffer = <<>> /\ src = 0 /\ buff_index = 0
  BY <1>2, InCompose
<1>4. FormType /\ FieldsFit
  BY Zenon DEF FormInv, FormTaken
<1>5. data \in Seq(Character) /\ starts \in Seq(Nat) /\ d \in Nat /\ m \in Nat
  BY <1>4 DEF FormType
<1>6. Len(Form(e)) \in Nat
  BY FormParts
<1>7. m + 1 \in 1 .. Len(Form(e))
  BY <1>2, <1>5, <1>6
<1>8. t \in Seq(Character) /\ Len(t) \in Nat \ {0}
  BY <1>7, PieceRoundTrip DEF DecodesTo
<1> HIDE DEF t
<1>9. /\ data' \in Seq(Character) /\ Len(data') = d + Len(t)
      /\ \A j \in 1 .. d : data'[j] = data[j]
      /\ \A j \in 1 .. Len(t) : data'[d + j] = t[j]
  BY <1>2, <1>5, <1>8
<1>10. /\ starts' \in Seq(Nat) /\ Len(starts') = m + 1 /\ starts'[m + 1] = d
       /\ \A k \in 1 .. m : starts'[k] = starts[k]
  BY <1>2, <1>5
<1>11. /\ m <= d
       /\ StartOf(1) = 0
       /\ \A k \in 1 .. m :
             /\ starts[k] < d
             /\ StartOf(k + 1) = starts[k] + Len(Piece(e, k))
             /\ \A j \in 1 .. Len(Piece(e, k)) : data[starts[k] + j] = Piece(e, k)[j]
  BY <1>1, <1>3, Zenon DEF Composed
<1>12. Composed'
  <2> DEFINE At2(k) == IF k <= m + 1 THEN starts'[k] ELSE Len(data')
  <2>1. \A k \in 1 .. m + 1 : At2(k) = StartOf(k)
    BY <1>5, <1>10 DEF StartOf
  <2>2. At2(1) = 0
    BY <1>5, <1>11, <2>1
  <2>3. ASSUME NEW k \in 1 .. m
        PROVE  /\ starts'[k] < Len(data')
               /\ At2(k + 1) = starts'[k] + Len(Piece(e, k))
               /\ \A j \in 1 .. Len(Piece(e, k)) : data'[starts'[k] + j] = Piece(e, k)[j]
    <3>1. Piece(e, k) \in Seq(Character) /\ Len(Piece(e, k)) \in Nat
      BY <1>2, <1>5, <1>6, PieceRoundTrip
    <3>2. starts'[k] = starts[k] /\ starts[k] \in Nat /\ starts[k] < d
      <4>1. starts'[k] = starts[k] /\ starts[k] < d
        BY <1>10, <1>11, Zenon
      <4>2. QED
        BY <1>5, <4>1
    <3>3. At2(k + 1) = starts[k] + Len(Piece(e, k))
      BY <1>5, <1>11, <2>1
    <3>4. At2(k + 1) <= d
      <4>1. StartOf(k + 1) <= d
        BY <1>5, <1>11 DEF StartOf
      <4>2. QED
        BY <1>5, <2>1, <4>1
    <3>5. ASSUME NEW j \in 1 .. Len(Piece(e, k))
          PROVE  data'[starts'[k] + j] = Piece(e, k)[j]
      <4>1. starts[k] + j \in 1 .. d
        BY <1>5, <3>1, <3>2, <3>3, <3>4
      <4>2. data[starts[k] + j] = Piece(e, k)[j]
        BY <1>11
      <4>3. QED
        BY <1>9, <3>2, <4>1, <4>2
    <3>6. QED
      BY <1>5, <1>8, <1>9, <3>2, <3>3, <3>5
  <2>4. /\ starts'[m + 1] < Len(data')
        /\ At2((m + 1) + 1) = starts'[m + 1] + Len(t)
        /\ \A j \in 1 .. Len(t) : data'[starts'[m + 1] + j] = t[j]
    BY <1>5, <1>8, <1>9, <1>10
  <2> HIDE DEF At2
  <2>5. ASSUME NEW k \in 1 .. m + 1
        PROVE  /\ starts'[k] < Len(data')
               /\ At2(k + 1) = starts'[k] + Len(Piece(e, k))
               /\ \A j \in 1 .. Len(Piece(e, k)) : data'[starts'[k] + j] = Piece(e, k)[j]
    <3>1. CASE k \in 1 .. m
      BY <2>3, <3>1, Zenon
    <3>2. CASE k = m + 1
      BY <2>4, <3>2, Zenon DEF t
    <3>3. QED
      BY <1>5, <3>1, <3>2
  <2>6. \A k \in 1 .. m + 1 :
           /\ starts'[k] < Len(data')
           /\ At2(k + 1) = starts'[k] + Len(Piece(e, k))
           /\ \A j \in 1 .. Len(Piece(e, k)) : data'[starts'[k] + j] = Piece(e, k)[j]
    BY <2>5, Zenon
  <2>7. m + 1 <= Len(Form(e)) /\ m + 1 <= Len(data')
    BY <1>5, <1>7, <1>8, <1>9, <1>11
  <2>8. \A k : StartOf(k)' = At2(k)
    BY <1>10, Zenon DEF StartOf, At2
  <2>9. QED
    BY <1>2, <1>10, <2>2, <2>6, <2>7, <2>8, Zenon DEF Composed
<1>13. FormType' /\ FieldsFit'
  <2>1. FormType'
    BY <1>1, <1>2, <1>4, <1>9, <1>10 DEF FormType
  <2>2. FieldsFit'
    BY <1>2, <1>4, Zenon DEF FieldsFit
  <2>3. QED
    BY <2>1, <2>2
<1>14. IndexInBody' /\ Extracted' /\ ClearedByOthers' /\ InCommand' /\ Idle'
  BY <1>1, <1>2, <1>3 DEF IndexInBody, Extracted, ClearedByOthers, InCommand, Idle
<1>15. InForm'
  BY <1>2, <1>12, Zenon DEF InForm
<1>16. Parsing'
  BY <1>2, <1>3, Zenon DEF Parsing
<1>17. QED
  BY <1>13, <1>14, <1>15, <1>16, Zenon DEF FormInv, FormTaken

\* The buffers are cleared, and the next body may come.
LEMMA ClearStep ==
    ASSUME FormInv, ClearBuffers PROVE FormInv'
<1>1. /\ pc = "clear" /\ pc' = "decode" /\ wifi_ssid' = <<>> /\ wifi_pwd' = <<>>
      /\ buffer' = <<>> /\ src' = 0 /\ buff_index' = buff_index
      /\ entered' = entered /\ data' = data /\ starts' = starts
  BY DEF ClearBuffers, bodyVars
<1>2. FormType /\ InForm /\ InCommand /\ Parsing /\ FieldsFit
  BY Zenon DEF FormInv, FormTaken
<1>3. buff_index = 0
  BY <1>1, <1>2, Zenon DEF Parsing
<1>4. FormType'
  BY <1>1, <1>2 DEF FormType
<1>5. FieldsFit' /\ IndexInBody'
  BY <1>1, <1>3, SizesAssumption DEF FieldsFit, IndexInBody
<1>6. Extracted' /\ ClearedByOthers' /\ InCommand' /\ Idle'
  BY <1>1, <1>2 DEF Extracted, ClearedByOthers, InCommand, Idle
<1>7. InForm'
  <2>1. CASE ~entered.form
    BY <1>1, <2>1, Zenon DEF InForm
  <2>2. CASE entered.form
    <3>1. Composed /\ Len(starts) = Len(Form(entered))
      BY <1>1, <1>2, <2>2, Zenon DEF InForm
    <3>2. entered \in Entries
      BY <1>2, <2>2 DEF FormType, Nothing
    <3>3. Len(Form(entered)) \in Nat
      BY <3>2, FormParts
    <3>4. Composed'
      BY <1>1, <3>1 DEF Composed, StartOf
    <3>5. DecodedSoFar'
      <4>1. StartOf(1) = 0
        BY <3>1, Zenon DEF Composed
      <4>2. StartOf(1)' = StartOf(1)
        BY <1>1, Zenon DEF StartOf
      <4>3. QED
        BY <1>1, <3>3, <4>1, <4>2 DEF DecodedSoFar
    <3>6. QED
      BY <1>1, <3>1, <3>4, <3>5, Zenon DEF InForm
  <2>3. QED
    BY <2>1, <2>2
<1>8. Parsing'
  BY <1>1, <1>3, Zenon DEF Parsing
<1>9. QED
  BY <1>4, <1>5, <1>6, <1>7, <1>8, Zenon DEF FormInv, FormTaken

LEMMA ReturnStep ==
    ASSUME FormInv, Return PROVE FormInv'
<1>1. /\ pc = "done" /\ pc' = "idle" /\ wifi_ssid' = wifi_ssid /\ wifi_pwd' = wifi_pwd
      /\ buffer' = <<>> /\ src' = 0 /\ buff_index' = 0
      /\ entered' = Nothing /\ data' = <<>> /\ starts' = <<>>
  BY DEF Return, fieldVars
<1>2. FormType /\ FieldsFit
  BY Zenon DEF FormInv, FormTaken
<1>3. FormType'
  BY <1>1, <1>2 DEF FormType
<1>4. FieldsFit' /\ IndexInBody'
  BY <1>1, <1>2 DEF FieldsFit, IndexInBody
<1>5. Extracted' /\ ClearedByOthers' /\ InCommand' /\ InForm' /\ Idle'
  BY <1>1 DEF Extracted, ClearedByOthers, InCommand, InForm, Idle, Nothing
<1>6. Parsing'
  BY <1>1, Zenon DEF Parsing
<1>7. QED
  BY <1>3, <1>4, <1>5, <1>6, Zenon DEF FormInv, FormTaken

\* What is known while a form is decoded: how much of it is, and what comes next.
LEMMA InDecode ==
    ASSUME FormInv, pc = "decode", entered.form
    PROVE  \E e \in Entries, l \in Nat :
              /\ entered = e /\ Composed /\ DecodedSoFar
              /\ l = Len(Form(e)) /\ Len(starts) = l
              /\ Len(buffer) \in Nat /\ Len(buffer) <= l
              /\ \A k \in 1 .. Len(buffer) : buffer[k] = Form(e)[k]
              /\ src \in Nat /\ Len(data) \in Nat
              /\ src >= Len(data) => Len(buffer) = l
              /\ src < Len(data) =>
                    /\ Len(buffer) + 1 \in 1 .. l
                    /\ StartOf(Len(buffer) + 2) = src + Len(Piece(e, Len(buffer) + 1))
                    /\ src + Len(Piece(e, Len(buffer) + 1)) <= Len(data)
                    /\ \A j \in 1 .. Len(Piece(e, Len(buffer) + 1)) :
                          data[src + j] = Piece(e, Len(buffer) + 1)[j]
<1>1. FormType /\ InForm
  BY Zenon DEF FormInv, FormTaken
<1>2. PICK e \in Entries : entered = e
  BY <1>1 DEF FormType, Nothing
<1>3. Composed /\ Len(starts) = Len(Form(e)) /\ DecodedSoFar
  BY <1>1, <1>2, Zenon DEF InForm
<1> DEFINE l == Len(Form(e))
           k == Len(buffer)
           t == Piece(e, k + 1)
           d == Len(data)
<1>4. l \in Nat
  BY FormParts
<1>5. k \in Nat /\ src \in Nat /\ d \in Nat
  BY <1>1 DEF FormType
<1>6. /\ k <= l /\ src = StartOf(k + 1)
      /\ \A i \in 1 .. k : buffer[i] = Form(e)[i]
  BY <1>2, <1>3, Zenon DEF DecodedSoFar
<1>7. \A i \in 1 .. l :
         /\ starts[i] < d
         /\ StartOf(i + 1) = starts[i] + Len(Piece(e, i))
         /\ \A j \in 1 .. Len(Piece(e, i)) : data[starts[i] + j] = Piece(e, i)[j]
  BY <1>2, <1>3, Zenon DEF Composed
<1> HIDE DEF t
<1>8. k < l => k + 1 \in 1 .. l /\ StartOf(k + 1) = starts[k + 1]
  BY <1>3, <1>4, <1>5 DEF StartOf
<1>9. k < l => src < d
  BY <1>6, <1>7, <1>8, Zenon
<1>10. k = l => src = d
  BY <1>3, <1>4, <1>6 DEF StartOf
<1>11. src >= d => k = l
  <2> HIDE DEF k, l, d
  <2> QED BY <1>4, <1>5, <1>6, <1>9
<1>12. ASSUME src < d
       PROVE  /\ k + 1 \in 1 .. l
              /\ StartOf(k + 2) = src + Len(t)
              /\ src + Len(t) <= d
              /\ \A j \in 1 .. Len(t) : data[src + j] = t[j]
  <2>1. k < l
    <3> HIDE DEF k, l, d
    <3> QED BY <1>4, <1>5, <1>6, <1>10, <1>12
  <2>2. k + 1 \in 1 .. l /\ src = starts[k + 1]
    BY <1>6, <1>8, <2>1, Zenon
  <2>3. /\ StartOf((k + 1) + 1) = src + Len(t)
        /\ \A j \in 1 .. Len(t) : data[src + j] = t[j]
    BY <1>7, <2>2, Zenon DEF t
  <2>4. StartOf(k + 2) = src + Len(t)
    <3>1. (k + 1) + 1 = k + 2
      BY <1>5
    <3>2. QED
      BY <2>3, <3>1, Zenon
  <2>5. StartOf(k + 2) <= d
    <3>1. CASE k + 2 <= Len(starts)
      <4>1. k + 2 \in 1 .. l /\ StartOf(k + 2) = starts[k + 2]
        BY <1>3, <1>4, <1>5, <3>1 DEF StartOf
      <4>2. starts[k + 2] < d
        BY <1>7, <4>1, Zenon
      <4>3. starts[k + 2] \in Nat
        BY <1>1, <1>3, <4>1 DEF FormType
      <4>4. QED
        BY <1>5, <4>1, <4>2, <4>3
    <3>2. CASE ~(k + 2 <= Len(starts))
      BY <1>5, <3>2 DEF StartOf
    <3>3. QED
      BY <3>1, <3>2
  <2>6. QED
    BY <2>2, <2>3, <2>4, <2>5, Zenon
<1>13. QED
  BY <1>2, <1>3, <1>4, <1>5, <1>6, <1>11, <1>12, Zenon DEF t

\* A step that decodes the right character keeps the invariant.
LEMMA DecodeStep ==
    ASSUME FormInv, pc = "decode", src < Len(data),
           NEW c \in 0 .. 255, NEW w \in Nat,
           buffer' = Append(buffer, c), src' = src + w,
           UNCHANGED <<bodyVars, buff_index, fieldVars, pc>>,
           entered.form => /\ c = Form(entered)[Len(buffer) + 1]
                           /\ w = Len(Piece(entered, Len(buffer) + 1)),
           ~entered.form /\ buffer = <<>> => c # SsidName[1]
    PROVE  FormInv'
<1>1. /\ wifi_ssid' = wifi_ssid /\ wifi_pwd' = wifi_pwd /\ buff_index' = buff_index
      /\ entered' = entered /\ data' = data /\ starts' = starts /\ pc' = "decode"
  BY DEF bodyVars, fieldVars
<1>2. FormType /\ InForm /\ InCommand /\ Parsing /\ FieldsFit
  BY Zenon DEF FormInv, FormTaken
<1>3. buff_index = 0 /\ buffer \in Seq(0 .. 255) /\ src \in Nat
  BY <1>2 DEF Parsing, FormType
<1>4. /\ buffer' \in Seq(0 .. 255) /\ Len(buffer') = Len(buffer) + 1
      /\ Len(buffer) \in Nat /\ buffer'[Len(buffer) + 1] = c
      /\ \A k \in 1 .. Len(buffer) : buffer'[k] = buffer[k]
  BY <1>3
<1>5. FormType'
  <2>1. src' \in Nat
    BY <1>3
  <2>2. QED
    BY <1>1, <1>2, <1>4, <2>1 DEF FormType
<1>6. FieldsFit'
  BY <1>1, <1>2, Zenon DEF FieldsFit
<1>7. IndexInBody'
  BY <1>1, <1>3, <1>4 DEF IndexInBody
<1>8. Extracted' /\ ClearedByOthers' /\ Idle'
  BY <1>1 DEF Extracted, ClearedByOthers, Idle
<1>9. Parsing'
  BY <1>1, <1>2, Zenon DEF Parsing
<1>10. CASE entered.form
  <2>1. PICK e \in Entries, l \in Nat :
           /\ entered = e /\ Composed /\ DecodedSoFar
           /\ l = Len(Form(e)) /\ Len(starts) = l
           /\ \A k \in 1 .. Len(buffer) : buffer[k] = Form(e)[k]
           /\ Len(buffer) + 1 \in 1 .. l
           /\ StartOf(Len(buffer) + 2) = src + Len(Piece(e, Len(buffer) + 1))
    <3>1. ~(src >= Len(data))
      BY <1>2, <1>3 DEF FormType
    <3>2. QED
      BY <1>10, <3>1, InDecode
  <2> DEFINE k == Len(buffer)
  <2>2. Composed'
    BY <1>1, <2>1 DEF Composed, StartOf
  <2>3. DecodedSoFar'
    <3>1. \A i : StartOf(i)' = StartOf(i)
      BY <1>1, Zenon DEF StartOf
    <3>2. src' = StartOf(k + 2)
      BY <1>10, <2>1, Zenon
    <3>3. (k + 1) + 1 = k + 2 /\ \A i \in 1 .. k + 1 : i \in 1 .. k \/ i = k + 1
      BY <1>4
    <3>4. k + 1 <= l
      BY <1>4, <2>1
    <3>5. \A i \in 1 .. k + 1 : buffer'[i] = Form(e)[i]
      BY <1>4, <1>10, <2>1, <3>3, Zenon
    <3>6. QED
      BY <1>1, <1>4, <2>1, <3>1, <3>2, <3>3, <3>4, <3>5, Zenon DEF DecodedSoFar
  <2>4. InForm'
    BY <1>1, <2>1, <2>2, <2>3, Zenon DEF InForm
  <2>5. InCommand'
    BY <1>1, <1>10, Zenon DEF InCommand
  <2>6. QED
    BY <1>5, <1>6, <1>7, <1>8, <1>9, <2>4, <2>5, Zenon DEF FormInv, FormTaken
<1>11. CASE ~entered.form
  <2>1. InForm'
    BY <1>1, <1>11, Zenon DEF InForm
  <2>2. /\ data \in Commands /\ wifi_ssid = <<>> /\ wifi_pwd = <<>>
        /\ buffer # <<>> => buffer[1] # SsidName[1]
    BY <1>2, <1>11, Zenon DEF InCommand
  <2>3. buffer' # <<>>
    BY <1>3, <1>4
  <2>4. buffer'[1] # SsidName[1]
    <3>1. CASE buffer = <<>>
      <4>1. buffer'[1] = c
        BY <1>4, <3>1
      <4>2. QED
        BY <1>11, <3>1, <4>1
    <3>2. CASE buffer # <<>>
      <4>1. 1 \in 1 .. Len(buffer)
        BY <1>3, <3>2
      <4>2. QED
        BY <1>4, <2>2, <3>2, <4>1, Zenon
    <3>3. QED
      BY <3>1, <3>2
  <2>5. InCommand'
    BY <1>1, <2>2, <2>3, <2>4 DEF InCommand
  <2>6. QED
    BY <1>5, <1>6, <1>7, <1>8, <1>9, <2>1, <2>5, Zenon DEF FormInv, FormTaken
<1>12. QED
  BY <1>10, <1>11

\* The piece that is next, and what it stands for.
LEMMA NextPiece ==
    ASSUME FormInv, pc = "decode", src < Len(data), entered.form
    PROVE  \E c, t :
              /\ c = Form(entered)[Len(buffer) + 1] /\ t = Piece(entered, Len(buffer) + 1)
              /\ c \in Character /\ DecodesTo(t, c)
              /\ src \in Nat /\ Len(data) \in Nat /\ src + Len(t) <= Len(data)
              /\ \A j \in 1 .. Len(t) : data[src + j] = t[j]
<1>1. PICK e \in Entries, l \in Nat :
              /\ entered = e /\ l = Len(Form(e))
              /\ src \in Nat /\ Len(data) \in Nat
              /\ Len(buffer) + 1 \in 1 .. l
              /\ src + Len(Piece(e, Len(buffer) + 1)) <= Len(data)
              /\ \A j \in 1 .. Len(Piece(e, Len(buffer) + 1)) :
                    data[src + j] = Piece(e, Len(buffer) + 1)[j]
  BY InDecode
<1> DEFINE c == Form(e)[Len(buffer) + 1]
           t == Piece(e, Len(buffer) + 1)
<1>2. DecodesTo(t, c)
  BY <1>1, PieceRoundTrip
<1>3. c \in Character
  <2>1. Form(e) \in Seq(Character)
    BY FormParts
  <2>2. QED
    BY <1>1, <2>1
<1> HIDE DEF c, t
<1>4. src + Len(t) <= Len(data) /\ \A j \in 1 .. Len(t) : data[src + j] = t[j]
  BY <1>1, Zenon DEF t
<1>5. QED
  BY <1>1, <1>2, <1>3, <1>4, Zenon DEF c, t

\* The two steps of url_decode take the piece that is next, and no other.
LEMMA DecodeEscapeStep ==
    ASSUME FormInv, DecodeEscape PROVE FormInv'
<1> DEFINE h == HexValue(data[src + 2])
           g == HexValue(data[src + 3])
<1>1. /\ pc = "decode" /\ src < Len(data) /\ IsEscape(src + 1)
      /\ buffer' = Append(buffer, 16 * h + g) /\ src' = src + 3
      /\ UNCHANGED <<bodyVars, buff_index, fieldVars, pc>>
  BY DEF DecodeEscape
<1>2. src \in Nat /\ data \in Seq(Character)
  BY Zenon DEF FormInv, FormTaken, FormType
<1>3. /\ data[src + 1] = Percent
      /\ data[src + 2] \in HexDigit /\ data[src + 3] \in HexDigit
  <2>1. (src + 1) + 1 = src + 2 /\ (src + 1) + 2 = src + 3
    BY <1>2
  <2>2. QED
    BY <1>1, <2>1, Zenon DEF IsEscape
<1>4. \A d \in HexDigit : HexValue(d) \in 0 .. 15
  BY DEF HexDigit, Digit, HexValue
<1>5. h \in 0 .. 15 /\ g \in 0 .. 15
  BY <1>3, <1>4
<1>6. 16 * h + g \in 0 .. 255
  <2> HIDE DEF h, g
  <2> QED BY <1>5
<1>7. ASSUME entered.form
      PROVE  /\ 16 * h + g = Form(entered)[Len(buffer) + 1]
             /\ 3 = Len(Piece(entered, Len(buffer) + 1))
  <2>1. PICK c, t :
              /\ c = Form(entered)[Len(buffer) + 1] /\ t = Piece(entered, Len(buffer) + 1)
              /\ c \in Character /\ DecodesTo(t, c)
              /\ src \in Nat /\ Len(data) \in Nat /\ src + Len(t) <= Len(data)
              /\ \A j \in 1 .. Len(t) : data[src + j] = t[j]
    BY <1>1, <1>7, NextPiece
  <2>2. Len(t) \in {1, 3}
    BY <2>1 DEF DecodesTo
  <2>3. t[1] = Percent
    BY <1>3, <2>1, <2>2
  <2>4. /\ Len(t) = 3 /\ c = 16 * HexValue(t[2]) + HexValue(t[3])
    BY <2>1, <2>3 DEF DecodesTo
  <2>5. data[src + 2] = t[2] /\ data[src + 3] = t[3]
    BY <2>1, <2>4
  <2>6. QED
    BY <2>1, <2>4, <2>5, Zenon
<1>8. ~entered.form /\ buffer = <<>> => 16 * h + g # SsidName[1]
  <2> SUFFICES ASSUME ~entered.form, buffer = <<>> PROVE FALSE
    OBVIOUS
  <2>1. src = 0 /\ data \in Commands
    BY <1>1, Zenon DEF FormInv, InCommand
  <2>2. data # <<>> /\ data[1] = Percent
    BY <1>1, <1>2, <1>3, <2>1
  <2>3. data[1] \notin {Percent, SsidName[1]}
    BY <2>1, <2>2, ValuesAssumption, Zenon
  <2>4. QED
    BY <2>2, <2>3
<1> HIDE DEF h, g
<1>9. QED
  BY <1>1, <1>6, <1>7, <1>8, DecodeStep

LEMMA DecodeOtherStep ==
    ASSUME FormInv, DecodeOther PROVE FormInv'
<1> DEFINE c == IF data[src + 1] = Plus THEN Space ELSE data[src + 1]
<1>1. /\ pc = "decode" /\ src < Len(data) /\ ~IsEscape(src + 1)
      /\ buffer' = Append(buffer, c) /\ src' = src + 1
      /\ UNCHANGED <<bodyVars, buff_index, fieldVars, pc>>
  BY DEF DecodeOther
<1>2. src \in Nat /\ data \in Seq(Character)
  BY Zenon DEF FormInv, FormTaken, FormType
<1>3. c \in 0 .. 255
  <2>1. src + 1 \in 1 .. Len(data)
    BY <1>1, <1>2
  <2>2. data[src + 1] \in Character
    BY <1>2, <2>1
  <2>3. QED
    BY <2>2 DEF Character, Space
<1>4. ASSUME entered.form
      PROVE  /\ c = Form(entered)[Len(buffer) + 1]
             /\ 1 = Len(Piece(entered, Len(buffer) + 1))
  <2>1. PICK x, t :
              /\ x = Form(entered)[Len(buffer) + 1] /\ t = Piece(entered, Len(buffer) + 1)
              /\ x \in Character /\ DecodesTo(t, x)
              /\ src \in Nat /\ Len(data) \in Nat /\ src + Len(t) <= Len(data)
              /\ \A j \in 1 .. Len(t) : data[src + j] = t[j]
    BY <1>1, <1>4, NextPiece
  <2>2. Len(t) \in {1, 3}
    BY <2>1 DEF DecodesTo
  <2>3. t[1] = data[src + 1]
    BY <2>1, <2>2
  <2>4. Len(t) # 3
    <3> SUFFICES ASSUME Len(t) = 3 PROVE FALSE
      OBVIOUS
    <3>1. t[1] = Percent /\ t[2] \in HexDigit /\ t[3] \in HexDigit
      BY <2>1 DEF DecodesTo
    <3>2. data[src + 2] = t[2] /\ data[src + 3] = t[3]
      BY <2>1
    <3>3. (src + 1) + 1 = src + 2 /\ (src + 1) + 2 = src + 3 /\ src + 3 <= Len(data)
      BY <2>1
    <3>4. QED
      BY <1>1, <2>3, <3>1, <3>2, <3>3, Zenon DEF IsEscape
  <2>5. Len(t) = 1 /\ x = IF t[1] = Plus THEN Space ELSE t[1]
    BY <2>1, <2>2, <2>4 DEF DecodesTo
  <2>6. QED
    BY <2>1, <2>3, <2>5, Zenon
<1>5. ~entered.form /\ buffer = <<>> => c # SsidName[1]
  <2> SUFFICES ASSUME ~entered.form, buffer = <<>> PROVE c # SsidName[1]
    OBVIOUS
  <2>1. src = 0 /\ data \in Commands
    BY <1>1, Zenon DEF FormInv, InCommand
  <2>2. data # <<>>
    BY <1>1, <1>2, <2>1
  <2>3. data[1] \notin {Percent, SsidName[1]}
    BY <2>1, <2>2, ValuesAssumption, Zenon
  <2>4. QED
    BY <2>1, <2>3 DEF SsidName, Space
<1> HIDE DEF c
<1>6. QED
  BY <1>1, <1>3, <1>4, <1>5, DecodeStep

\* The body is decoded: only the form is parsed.
LEMMA DecodedStep ==
    ASSUME FormInv, Decoded PROVE FormInv'
<1>1. /\ pc = "decode" /\ src >= Len(data)
      /\ pc' = IF \A i \in 1 .. 4 : At(i - 1) = SsidName[i] THEN "ssid_name" ELSE "done"
      /\ wifi_ssid' = wifi_ssid /\ wifi_pwd' = wifi_pwd /\ buff_index' = buff_index
      /\ entered' = entered /\ data' = data /\ starts' = starts
      /\ buffer' = buffer /\ src' = src
  BY DEF Decoded, bodyVars, fieldVars
<1>2. FormType /\ InForm /\ InCommand /\ Parsing /\ FieldsFit
  BY Zenon DEF FormInv, FormTaken
<1>3. buff_index = 0 /\ wifi_ssid = <<>> /\ wifi_pwd = <<>>
  BY <1>1, <1>2, Zenon DEF Parsing
<1>4. Len(buffer) \in Nat
  BY <1>2 DEF FormType
<1>5. FormType' /\ FieldsFit' /\ IndexInBody' /\ Idle'
  <2>1. FormType' /\ FieldsFit'
    BY <1>1, <1>2 DEF FormType, FieldsFit
  <2>2. IndexInBody' /\ Idle'
    BY <1>1, <1>3, <1>4 DEF IndexInBody, Idle
  <2>3. QED
    BY <2>1, <2>2
<1>6. Parsing'
  BY <1>1, <1>3 DEF Parsing
<1>7. CASE entered.form
  <2>1. PICK e \in Entries, l \in Nat :
           /\ entered = e /\ Composed /\ DecodedSoFar
           /\ l = Len(Form(e)) /\ Len(starts) = l /\ Len(buffer) = l
           /\ \A k \in 1 .. Len(buffer) : buffer[k] = Form(e)[k]
    BY <1>1, <1>7, InDecode
  <2>2. pc' = "ssid_name"
    <3>1. l >= 4 /\ \A i \in 1 .. 4 : Form(e)[i] = SsidName[i]
      <4>1. PICK f \in Seq(Character), s, n, p \in Nat : Shape(e, f, s, n, p)
        BY FormShape
      <4>2. f = Form(e) /\ 7 + s + n + p < Len(f) /\ \A i \in 1 .. 4 : f[i] = SsidName[i]
        BY <4>1, Zenon DEF Shape
      <4>3. 7 + s + n + p < l
        BY <2>1, <4>2, Zenon
      <4>4. QED
        BY <4>2, <4>3, <2>1
    <3>2. ASSUME NEW i \in 1 .. 4 PROVE At(i - 1) = SsidName[i]
      <4>1. i - 1 < Len(buffer) /\ (i - 1) + 1 = i /\ i \in 1 .. Len(buffer)
        BY <2>1, <3>1
      <4>2. At(i - 1) = buffer[i]
        BY <4>1, Zenon DEF At
      <4>3. QED
        BY <2>1, <3>1, <4>1, <4>2, Zenon
    <3>3. QED
      BY <1>1, <3>2
  <2>3. Composed' /\ DecodedSoFar'
    BY <1>1, <2>1 DEF Composed, DecodedSoFar, StartOf
  <2>4. InForm'
    BY <1>1, <2>1, <2>2, <2>3, Zenon DEF InForm
  <2>5. InCommand' /\ Extracted' /\ ClearedByOthers'
    BY <1>1, <1>7, <2>2 DEF InCommand, Extracted, ClearedByOthers
  <2>6. QED
    BY <1>5, <1>6, <2>4, <2>5, Zenon DEF FormInv, FormTaken
<1>8. CASE ~entered.form
  <2>1. /\ data \in Commands
        /\ buffer = <<>> => src = 0
        /\ buffer # <<>> => buffer[1] # SsidName[1]
    BY <1>1, <1>2, <1>8, Zenon DEF InCommand
  <2>2. pc' = "done"
    <3>1. At(0) # SsidName[1]
      <4>1. CASE buffer = <<>>
        BY <4>1 DEF At, SsidName
      <4>2. CASE buffer # <<>>
        <5>1. 0 < Len(buffer)
          BY <1>2, <4>2 DEF FormType
        <5>2. At(0) = buffer[1]
          BY <5>1 DEF At
        <5>3. QED
          BY <2>1, <4>2, <5>2
      <4>3. QED
        BY <4>1, <4>2
    <3>2. ~ \A i \in 1 .. 4 : At(i - 1) = SsidName[i]
      <4> SUFFICES ASSUME \A i \in 1 .. 4 : At(i - 1) = SsidName[i] PROVE FALSE
        OBVIOUS
      <4>1. 1 \in 1 .. 4 /\ 1 - 1 = 0
        OBVIOUS
      <4>2. QED
        BY <3>1, <4>1, Zenon
    <3>3. QED
      BY <1>1, <3>2
  <2>3. InForm'
    BY <1>1, <1>8, Zenon DEF InForm
  <2>4. InCommand' /\ Extracted' /\ ClearedByOthers'
    BY <1>1, <1>3, <1>8, <2>1, <2>2 DEF InCommand, Extracted, ClearedByOthers
  <2>5. QED
    BY <1>5, <1>6, <2>3, <2>4, Zenon DEF FormInv, FormTaken
<1>9. QED
  BY <1>7, <1>8

\* Whatever a user enters, of any characters and any length, and for all sizes of the
\* two buffers: url_decode undoes what the browser has encoded, and parse_wifi_
\* credentials takes the name out of it, cut to its buffer, unless the values hold a
\* separator, and the password too unless the index wraps before its end; neither
\* is ever longer than its buffer, and the body of a command leaves both empty.
THEOREM AlwaysTaken == FormSpec => []FormTaken
<1>1. FormInv /\ [FormNext]_formVars => FormInv'
  <2> SUFFICES ASSUME FormInv, [FormNext]_formVars PROVE FormInv'
    OBVIOUS
  <2>1. CASE PostForm
    BY <2>1, PostFormStep
  <2>2. CASE ComposeChar
    BY <2>2, ComposeCharStep
  <2>3. CASE Send
    BY <2>3, SendStep
  <2>4. CASE PostCommand
    BY <2>4, PostCommandStep
  <2>5. CASE ClearBuffers
    BY <2>5, ClearStep
  <2>6. CASE DecodeEscape
    BY <2>6, DecodeEscapeStep
  <2>7. CASE DecodeOther
    BY <2>7, DecodeOtherStep
  <2>8. CASE Decoded
    BY <2>8, DecodedStep
  <2>9. CASE SkipName("ssid_name", "ssid")
    BY <2>9, SsidNameStep
  <2>10. CASE CopySsid
    BY <2>10, CopySsidStep
  <2>11. CASE EndSsid
    BY <2>11, EndSsidStep
  <2>12. CASE SkipName("password_name", "password")
    BY <2>12, PasswordNameStep
  <2>13. CASE CopyPassword
    BY <2>13, CopyPasswordStep
  <2>14. CASE EndPassword
    BY <2>14, EndPasswordStep
  <2>15. CASE Return
    BY <2>15, ReturnStep
  <2>16. CASE UNCHANGED formVars
    <3>1. /\ entered' = entered /\ data' = data /\ starts' = starts /\ buffer' = buffer
          /\ src' = src /\ buff_index' = buff_index /\ wifi_ssid' = wifi_ssid
          /\ wifi_pwd' = wifi_pwd /\ pc' = pc
      BY <2>16 DEF formVars, bodyVars, fieldVars
    <3>2. FormTaken'
      <4>1. FormTaken
        BY DEF FormInv
      <4>2. QED
        BY <3>1, <4>1, Zenon
           DEF FormTaken, FormType, FieldsFit, IndexInBody, Extracted, ClearedByOthers,
               Separated
    <3>3. InForm' /\ InCommand'
      <4>1. InForm /\ InCommand
        BY DEF FormInv
      <4>2. QED
        BY <3>1, <4>1 DEF InForm, InCommand, Composed, DecodedSoFar, StartOf
    <3>4. Parsing' /\ Idle'
      <4>1. Parsing /\ Idle
        BY DEF FormInv
      <4>2. QED
        BY <3>1, <4>1 DEF Parsing, Idle, Separated, SsidTaken, Copied
    <3>5. QED
      BY <3>2, <3>3, <3>4 DEF FormInv
  <2>17. QED
    BY <2>1, <2>2, <2>3, <2>4, <2>5, <2>6, <2>7, <2>8, <2>9, <2>10, <2>11, <2>12, <2>13,
       <2>14, <2>15, <2>16, Zenon DEF FormNext, ParseStep
<1>2. FormInv => FormTaken
  BY DEF FormInv
<1>3. QED
  BY InitForm, <1>1, <1>2, PTL DEF FormSpec
=============================================================================
