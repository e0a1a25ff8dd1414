----------------------------- MODULE FormFields -----------------------------
(***************************************************************************)
(* From the provisioning form to the credentials (url_decode and parse_    *)
(* wifi_credentials of source/web_server.c).  The browser encodes what the *)
(* user has entered; the device first decodes the whole body and then      *)
(* takes the two values out of it, up to a separator or to the length of   *)
(* its buffer.  A character is a byte; the loops over characters are       *)
(* steps, so that every index is seen.  The index is an int8_t and wraps   *)
(* behind 127: a longer form is not parsed as it should, and what it is    *)
(* parsed to is part of the model.  The decoded body fits the buffer of    *)
(* 2048 characters.  Provisioning takes the result as one value.           *)
(***************************************************************************)
EXTENDS Integers, Sequences

CONSTANTS
    Entries,            \* what a user enters, and how the browser writes digits
    PasswordName,       \* the name of the second field
    Submit,             \* what the browser adds for the button
    Commands,           \* bodies that are not of this form
    SsidSize, PwdSize   \* sizeof(wifi_ssid) and sizeof(wifi_pwd)

VARIABLES
    entered,       \* what the user has entered, if it is a form
    data,          \* the body of the POST
    starts,        \* where in it each character of the form starts (history)
    buffer, src,   \* the decoded body, and how much of data is in it
    buff_index, wifi_ssid, wifi_pwd,
    pc

bodyVars == <<entered, data, starts>>
fieldVars == <<wifi_ssid, wifi_pwd>>
formVars == <<bodyVars, buffer, src, buff_index, fieldVars, pc>>

Equals == 61
Ampersand == 38
Percent == 37
Plus == 43
Space == 32
SsidName == <<83, 83, 73, 68>>   \* "SSID"

Nothing == [form |-> FALSE, ssid |-> <<>>, password |-> <<>>, lower |-> FALSE]

Character == 1 .. 255
Occurs(c, text) == \E i \in 1 .. Len(text) : text[i] = c

\* The names of the fields and the button need no encoding, and the body of a
\* command does not begin like a form.
ASSUME ValuesAssumption ==
    /\ Entries \subseteq [form : {TRUE}, ssid : Seq(Character), password : Seq(Character),
                         lower : BOOLEAN]
    /\ PasswordName \in Seq(Character \ {Percent, Plus, Equals})
    /\ Submit \in Seq(Character \ {Percent, Plus}) /\ Submit # <<>> /\ Submit[1] = Ampersand
    /\ Commands \subseteq Seq(Character)
    /\ \A c \in Commands : c # <<>> => c[1] \notin {Percent, SsidName[1]}
\* The name is cut before the index of its last character wraps (32 and 64 here).
ASSUME SizesAssumption == SsidSize \in 1 .. 122 /\ PwdSize \in 1 .. 128

-----------------------------------------------------------------------------
(* The browser.  External.                                                 *)

Digit == 48 .. 57
Letter == 65 .. 90 \cup 97 .. 122
HexDigit == Digit \cup 65 .. 70 \cup 97 .. 102

\* Hexadecimal digits of either case are in use.
HexCode(n, lower) == IF n < 10 THEN 48 + n ELSE IF lower THEN 87 + n ELSE 55 + n

EncodeChar(c, lower) ==
    IF c \in Digit \cup Letter THEN <<c>>
    ELSE IF c = Space THEN <<Plus>>
    ELSE <<Percent, HexCode(c \div 16, lower), HexCode(c % 16, lower)>>

\* The form before it is encoded, and which of it are the values.
Form(e) ==
    SsidName \o <<Equals>> \o e.ssid \o <<Ampersand>>
    \o PasswordName \o <<Equals>> \o e.password \o Submit
SsidStart == 5
PwdStart(e) == SsidStart + Len(e.ssid) + Len(PasswordName) + 2
InValue(e, k) ==
    \/ k \in SsidStart + 1 .. SsidStart + Len(e.ssid)
    \/ k \in PwdStart(e) + 1 .. PwdStart(e) + Len(e.password)

\* What the browser sends for a character of the form.
Piece(e, k) == IF InValue(e, k) THEN EncodeChar(Form(e)[k], e.lower) ELSE <<Form(e)[k]>>

FormInit ==
    /\ entered = Nothing
    /\ data = <<>> /\ starts = <<>>
    /\ buffer = <<>> /\ src = 0
    /\ buff_index = 0
    /\ wifi_ssid = <<>> /\ wifi_pwd = <<>>
    /\ pc = "idle"

PostForm ==
    /\ pc = "idle"
    /\ entered' \in Entries
    /\ pc' = "compose"
    /\ UNCHANGED <<data, starts, buffer, src, buff_index, fieldVars>>

ComposeChar ==
    /\ pc = "compose" /\ Len(starts) < Len(Form(entered))
    /\ starts' = Append(starts, Len(data))
    /\ data' = data \o Piece(entered, Len(starts) + 1)
    /\ UNCHANGED <<entered, buffer, src, buff_index, fieldVars, pc>>

Send ==
    /\ pc = "compose" /\ Len(starts) = Len(Form(entered))
    /\ pc' = "clear"
    /\ UNCHANGED <<bodyVars, buffer, src, buff_index, fieldVars>>

\* The page of the station mode, still open in a browser, posts a command.
PostCommand ==
    /\ pc = "idle"
    /\ data' \in Commands
    /\ pc' = "clear"
    /\ UNCHANGED <<entered, starts, buffer, src, buff_index, fieldVars>>

-----------------------------------------------------------------------------
(* url_decode.                                                             *)

\* Mutant: the credentials are not cleared.
ClearBufferOnly ==
    /\ pc = "clear"
    /\ buffer' = <<>> /\ src' = 0
    /\ pc' = "decode"
    /\ UNCHANGED <<bodyVars, buff_index, fieldVars>>

ClearBuffers ==
    /\ pc = "clear"
    /\ wifi_ssid' = <<>> /\ wifi_pwd' = <<>>
    /\ buffer' = <<>> /\ src' = 0
    /\ pc' = "decode"
    /\ UNCHANGED <<bodyVars, buff_index>>

\* Mutant: only capital hexadecimal digits.
HexValueCapitals(c) == IF c >= 65 THEN c - 55 ELSE c - 48

HexValue(c) ==
    LET capital == IF c >= 97 THEN c - 32 ELSE c
    IN  IF capital >= 65 THEN capital - 55 ELSE capital - 48

IsEscape(i) ==
    /\ data[i] = Percent
    /\ i + 2 <= Len(data)
    /\ data[i + 1] \in HexDigit /\ data[i + 2] \in HexDigit

DecodeEscape ==
    /\ pc = "decode" /\ src < Len(data) /\ IsEscape(src + 1)
    /\ buffer' = Append(buffer, 16 * HexValue(data[src + 2]) + HexValue(data[src + 3]))
    /\ src' = src + 3
    /\ UNCHANGED <<bodyVars, buff_index, fieldVars, pc>>

DecodeOther ==
    /\ pc = "decode" /\ src < Len(data) /\ ~IsEscape(src + 1)
    /\ buffer' = Append(buffer, IF data[src + 1] = Plus THEN Space ELSE data[src + 1])
    /\ src' = src + 1
    /\ UNCHANGED <<bodyVars, buff_index, fieldVars, pc>>

-----------------------------------------------------------------------------
(* parse_wifi_credentials.                                                 *)

\* What the buffer, cleared before, has at an index.
At(i) == IF i < Len(buffer) THEN buffer[i + 1] ELSE 0

\* buff_index++ of an int8_t.
NextIndex(i) == IF i = 127 THEN -128 ELSE i + 1

\* What a read may find; in front of the buffer there is anything.
Reads(i) == IF i < 0 THEN 0 .. 255 ELSE {At(i)}

Decoded ==
    /\ pc = "decode" /\ src >= Len(data)
    /\ pc' = IF \A i \in 1 .. 4 : At(i - 1) = SsidName[i] THEN "ssid_name" ELSE "done"
    /\ UNCHANGED <<bodyVars, buffer, src, buff_index, fieldVars>>

\* The loop that looks for the "=" after a name.
SkipName(name, value) ==
    /\ pc = name
    /\ buff_index' = NextIndex(buff_index)
    /\ \E c \in Reads(buff_index) : pc' = IF c = Equals THEN value ELSE name
    /\ UNCHANGED <<bodyVars, buffer, src, fieldVars>>

\* Mutant: the buffer is taken to have room for one character more.
SsidRoomPast == Len(wifi_ssid) < SsidSize

SsidRoom == Len(wifi_ssid) < SsidSize - 1

CopySsid ==
    /\ pc = "ssid"
    /\ At(buff_index) # Ampersand /\ SsidRoom
    /\ wifi_ssid' = Append(wifi_ssid, At(buff_index))
    /\ buff_index' = NextIndex(buff_index)
    /\ UNCHANGED <<bodyVars, buffer, src, wifi_pwd, pc>>

\* Mutant: a name that does not fit is parsed once more.
EndSsidRetries ==
    /\ pc = "ssid"
    /\ At(buff_index) = Ampersand \/ ~SsidRoom
    /\ buff_index' = IF SsidRoom THEN buff_index + 1 ELSE 0
    /\ pc' = IF SsidRoom THEN "password_name" ELSE "ssid_name"
    /\ UNCHANGED <<bodyVars, buffer, src, fieldVars>>

EndSsid ==
    /\ pc = "ssid"
    /\ At(buff_index) = Ampersand \/ ~SsidRoom
    /\ buff_index' = NextIndex(buff_index)
    /\ pc' = "password_name"
    /\ UNCHANGED <<bodyVars, buffer, src, fieldVars>>

\* Mutant: the value goes on behind the separator.
PasswordContinuesOn ==
    /\ buff_index \in 0 .. Len(data) - 1
    /\ Len(wifi_pwd) < PwdSize - 1

\* An index below zero is compared as a large unsigned number.
PasswordContinues ==
    /\ buff_index \in 0 .. Len(data) - 1
    /\ At(buff_index) # Ampersand
    /\ Len(wifi_pwd) < PwdSize - 1

CopyPassword ==
    /\ pc = "password"
    /\ PasswordContinues
    /\ wifi_pwd' = Append(wifi_pwd, At(buff_index))
    /\ buff_index' = NextIndex(buff_index)
    /\ UNCHANGED <<bodyVars, buffer, src, wifi_ssid, pc>>

EndPassword ==
    /\ pc = "password"
    /\ ~PasswordContinues
    /\ pc' = "done"
    /\ UNCHANGED <<bodyVars, buffer, src, buff_index, fieldVars>>

\* start_wifi_connect_task follows (Provisioning); the next form may come.
Return ==
    /\ pc = "done"
    /\ pc' = "idle"
    /\ entered' = Nothing /\ data' = <<>> /\ starts' = <<>>
    /\ buffer' = <<>> /\ src' = 0 /\ buff_index' = 0
    /\ UNCHANGED fieldVars

-----------------------------------------------------------------------------
ParseStep ==
    \/ ClearBuffers \/ DecodeEscape \/ DecodeOther \/ Decoded
    \/ SkipName("ssid_name", "ssid") \/ CopySsid \/ EndSsid
    \/ SkipName("password_name", "password") \/ CopyPassword \/ EndPassword
    \/ Return

FormNext == PostForm \/ ComposeChar \/ Send \/ PostCommand \/ ParseStep

FormSpec == FormInit /\ [][FormNext]_formVars

FormFairSpec == FormSpec /\ WF_formVars(ParseStep)

-----------------------------------------------------------------------------
FormType ==
    /\ entered \in Entries \cup {Nothing}
    /\ data \in Seq(Character) /\ starts \in Seq(Nat)
    /\ buffer \in Seq(0 .. 255) /\ src \in Nat
    /\ buff_index \in -128 .. 127
    /\ wifi_ssid \in Seq(0 .. 255) /\ wifi_pwd \in Seq(0 .. 255)
    /\ pc \in {"idle", "compose", "clear", "decode", "ssid_name", "ssid", "password_name",
               "password", "done"}

\* No credential is longer than its buffer, whatever the body (lines 261 and 280).
FieldsFit == Len(wifi_ssid) <= SsidSize - 1 /\ Len(wifi_pwd) <= PwdSize - 1

\* The index comes to the end of both values before it wraps.
Fits(e) == e.form => PwdStart(e) + Len(e.password) <= 127

\* The loops that look for a separator find it inside the body of every form that
\* the index reaches the end of; the name is taken from inside it whatever the
\* length (lines 244, 255 and 270).
IndexInBody ==
    Fits(entered) \/ pc \in {"ssid_name", "ssid"} => buff_index \in 0 .. Len(buffer)

Cut(value, size) == SubSeq(value, 1, IF Len(value) < size THEN Len(value) ELSE size - 1)

Separated ==
    /\ ~Occurs(Ampersand, entered.ssid) /\ ~Occurs(Ampersand, entered.password)
    /\ Len(entered.ssid) < SsidSize \/ ~Occurs(Equals, entered.ssid)

\* What the user has entered arrives, with every character a form encodes and
\* with "=" in a value, cut to the length of the buffers: the name whatever its
\* length, the password if the index reaches its end (lines 242 to 289).
Extracted ==
    pc = "done" /\ entered.form /\ Separated =>
        /\ wifi_ssid = Cut(entered.ssid, SsidSize)
        /\ Fits(entered) => wifi_pwd = Cut(entered.password, PwdSize)

\* A body that is not the form leaves no credentials of an earlier one behind.
ClearedByOthers == pc = "done" /\ ~entered.form => wifi_ssid = <<>> /\ wifi_pwd = <<>>

\* What the user has entered arrives, cut to the buffers, unless it has the
\* separator in it or is too long for the index; no credential is longer than its
\* buffer, whatever the length of the form; other bodies clear the credentials
\* (url_decode and parse_wifi_credentials).
FormTaken == FormType /\ FieldsFit /\ IndexInBody /\ Extracted /\ ClearedByOthers

\* Every body is parsed to its end: no loop runs for ever, not when the index
\* wraps either, because it then comes to the first "=" again (lines 255 to 286).
ParseEnds == pc = "clear" ~> pc = "idle"

\* "Extracts SSID/password from the provisioning form POST body" (lines 239 to
\* 240): values that fit the buffers arrive as entered.
FormExtracted ==
    /\ pc = "done" /\ entered.form
    /\ Len(entered.ssid) < SsidSize /\ Len(entered.password) < PwdSize
    => wifi_ssid = entered.ssid /\ wifi_pwd = entered.password
=============================================================================
