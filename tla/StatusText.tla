----------------------------- MODULE StatusText -----------------------------
(***************************************************************************)
(* The status text of the actuator, from lin_actuator_get_http_status      *)
(* (source/LIN_actuator.c) to the plain text that oled_prepare_status_text *)
(* makes of it for the display (source/display_status.c).  A word is the   *)
(* string of the source; a text is the sequence of its cells, in which all *)
(* printing characters are one Letter.  The tags of the HTML text are the  *)
(* fields of a record: no state and no message contains one.               *)
(***************************************************************************)
EXTENDS Integers, Sequences, SequencesExt

CONSTANTS Letter, Space, NewLine    \* the cells of a text

ASSUME CellsAssumption == Letter # Space /\ Letter # NewLine /\ Space # NewLine

-----------------------------------------------------------------------------
(* Texts. *)

Spelled(word) == [i \in 1 .. Len(word) |-> Letter]

Labelled(word, text) == Spelled(word) \o <<Space>> \o text

Sentence(words) ==
    FoldLeft(LAMBDA text, word :
                 IF text = <<>> THEN Spelled(word) ELSE text \o <<Space>> \o Spelled(word),
             <<>>, words)

\* snprintf and memcpy into a buffer: what does not fit is cut.
Cut(text, size) == SubSeq(text, 1, IF Len(text) < size THEN Len(text) ELSE size - 1)

-----------------------------------------------------------------------------
(* The messages of lin_set_debug, and the states they are set in.          *)

Initialized      == <<"LIN", "actuator", "module", "initialized.">>
OpenAccepted     == <<"Open", "command", "accepted.", "Repeating", "until", "replaced",
                      "or", "calibration", "starts.">>
CloseAccepted    == <<"Close", "command", "accepted.", "Repeating", "until", "replaced",
                      "or", "calibration", "starts.">>
OpenIgnored      == <<"Open", "request", "ignored.", "Actuator", "is", "not",
                      "calibrated", "yet.">>
CloseIgnored     == <<"Close", "request", "ignored.", "Actuator", "is", "not",
                      "calibrated", "yet.">>
Started          == <<"Calibration", "started.", "Moving", "toward", "closed",
                      "learned", "position.">>
ClosedLearned    == <<"Closed", "position", "learned.", "Continuing", "calibration",
                      "toward", "open.">>
Finished         == <<"Calibration", "finished.", "All", "positions", "learned.",
                      "Actuator", "is", "ready.">>
OpenActive       == <<"Open", "command", "active.", "Actuator", "status", "received.">>
CloseActive      == <<"Close", "command", "active.", "Actuator", "status", "received.">>
WaitingFor(what) == <<"Calibration", "in", "progress.", "Waiting", "for", what, "learned">>
                    \o IF what = "all" THEN <<"positions.">> ELSE <<"position.">>
Incomplete       == <<"No", "complete", "actuator", "response", "available", "yet.">>
Unexpected       == <<"Unexpected", "status", "signature:", "0x00">>

\* What the module reports in a state: whether all positions are learned, and
\* the last message.  A refused request of a motion has found them not learned.
Moving(accepted, active) ==
    ({TRUE} \X {accepted}) \cup (BOOLEAN \X {active, Incomplete, Unexpected})
    \cup ({FALSE} \X {OpenIgnored, CloseIgnored})

Calibrating(begun, waiting) ==
    {FALSE} \X {begun, waiting, OpenIgnored, CloseIgnored, Incomplete, Unexpected}

Reports ==
    [IDLE                  |-> {FALSE} \X {Initialized, OpenIgnored, CloseIgnored},
     CALIBRATING_TO_CLOSED |-> Calibrating(Started, WaitingFor("closed")),
     CALIBRATING_TO_OPEN   |-> Calibrating(ClosedLearned, WaitingFor("all")),
     READY                 |-> {<<TRUE, Finished>>},
     OPENING               |-> Moving(OpenAccepted, OpenActive),
     CLOSING               |-> Moving(CloseAccepted, CloseActive)]

\* lin_actuator_get_http_status: the two flags are followed by " <br>".
HttpStatus(state, learned, message) ==
    [state   |-> Spelled(state) \o <<Space>>,
     learned |-> Spelled(IF learned THEN "YES" ELSE "NO") \o <<Space>>,
     event   |-> message]

HttpStatuses ==
    UNION {{HttpStatus(state, r[1], r[2]) : r \in Reports[state]} : state \in DOMAIN Reports}

-----------------------------------------------------------------------------
(* oled_prepare_status_text.                                               *)

\* "Calibration" at the start, or else the first "CALIBRATION", becomes "CALIB".
Shortened(words) ==
    IF words # <<>> /\ Head(words) = "Calibration"
    THEN <<"CALIB">> \o Tail(words)
    ELSE LET i == SelectInSeq(words, LAMBDA w : w = "CALIBRATION")
         IN  IF i = 0 THEN words ELSE ReplaceAt(words, i, "CALIB")

Replaced(words) ==
    CASE IsPrefix(<<"CALIB", "finished.">>, words) -> <<"CALIBRATION", "FINISHED">>
      [] IsPrefix(<<"Open", "command", "accepted.">>, words) -> <<"OPEN">>
      [] IsPrefix(<<"Close", "command", "accepted.">>, words) -> <<"CLOSE">>
      [] OTHER -> words

StateSize   == 64
LearnedSize == 16
EventSize   == 128
PlainSize   == 256

StateLine(status) ==
    Sentence(<<"LIN", "State:">>) \o <<Space>> \o Cut(status.state, StateSize)

LearnedLine(status) ==
    Sentence(<<"Learned", "Pos.:">>) \o <<Space>> \o Cut(status.learned, LearnedSize)

EventLine(status) ==
    LET words == Replaced(Shortened(status.event))
    IN  IF words \in {<<>>, Initialized} THEN <<>>
        ELSE <<NewLine>> \o Sentence(<<"Last", "Event:">>) \o <<Space>>
             \o Cut(Sentence(words), EventSize)

PlainStatus(status) ==
    Cut(StateLine(status) \o <<NewLine>> \o LearnedLine(status) \o EventLine(status), PlainSize)
=============================================================================
