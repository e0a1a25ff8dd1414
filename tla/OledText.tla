------------------------------ MODULE OledText ------------------------------
(***************************************************************************)
(* The screens of the display (source/display_status.c): which texts each  *)
(* display_status_show_ function draws, and how the texts are laid out on  *)
(* the rows of the frame buffer.  One task draws here; what several do is  *)
(* OledScreen's.  A row is represented by the piece of a text that is      *)
(* drawn on it.                                                            *)
(***************************************************************************)
EXTENDS StatusText

CONSTANTS
    Width, Height,    \* OLED_WIDTH, OLED_HEIGHT
    CharWidth,        \* OLED_CHAR_WIDTH
    StatusStartRow,   \* OLED_STATUS_START_ROW
    LineSize,         \* size of the line buffers of the show_ functions
    CopySize,         \* sizeof(normalized) of oled_draw_wrapped
    Ssids, Reasons, Addresses, HostNames, AccessPoint, BootLines,  \* what the callers pass
    Statuses          \* the plain status texts

TextRows == Height \div 8

\* Mutant: a row takes a character that is only in part on the screen.
ColsRoundedUp == (Width + CharWidth - 1) \div CharWidth

Cols == Width \div CharWidth

Cell == {Letter, Space, NewLine}

\* The sizes of the device.  A line buffer holds up to two characters more than a
\* row, and below the title there are two rows for each of three lines.
ASSUME SizesAssumption ==
    /\ Width \in Nat /\ Height \in Nat /\ CharWidth \in Nat /\ CharWidth >= 6
    /\ Cols >= 2 /\ TextRows >= 8
    /\ LineSize \in 1 .. Cols + 3 /\ CopySize \in Nat /\ CopySize >= LineSize
    /\ StatusStartRow \in 4 .. TextRows - 3

\* Strings are sequences; "IP " and an address fit on a row.
ASSUME StringsAssumption ==
    /\ \A s \in {"WI-FI SERVER", "AUTO CONNECT", "PROVISIONING", "CONNECTING", "SUCCESS",
                 "CONNECT FAIL", "DEVICE READY", "SSID:", "SSID", "KNOWN", "TRY", "IP", "AP",
                 "PWD", "1/6", "SCANNING", "WIFI", "PLEASE", "WAIT"} : Len(s) \in Nat
    /\ Len("SCANNING") + Len("WIFI") + 1 < LineSize
    /\ Len("PLEASE") + Len("WAIT") + 1 < LineSize

\* The arguments of the callers are names without line ends.
ASSUME ArgumentsAssumption ==
    /\ Ssids \cup Reasons \cup Addresses \cup HostNames \cup AccessPoint \subseteq Seq({Letter, Space})
    /\ \A a \in Addresses : Len("IP") + 1 + Len(a) <= Cols
    /\ \A h \in HostNames : Len(h) <= Cols
    /\ BootLines \subseteq Seq({Letter, Space}) \X Seq({Letter, Space})
    /\ \A pair \in BootLines : Len(pair[1]) < LineSize /\ Len(pair[2]) < LineSize

\* The first line of a status is a label that ends with a space at p, a name that
\* fits on a row, and a space before the line end at a; the second one fits on a
\* row and ends at b.
StatusForm(t, p, a, b) ==
    /\ p + 1 < a - 1 /\ t[1] = Letter /\ t[p] = Space
    /\ \A i \in p + 1 .. a - 2 : t[i] = Letter
    /\ t[a - 1] = Space
    /\ \A i \in 1 .. b - 1 : t[i] = NewLine <=> i = a
    /\ a + 1 < b /\ t[a + 1] = Letter
    /\ b = Len(t) + 1 \/ t[b] = NewLine
ASSUME StatusesAssumption ==
    \A t \in Statuses :
        /\ t \in Seq(Cell)
        /\ \E p \in 1 .. Cols : \E a \in p + 2 .. p + Cols + 2 : \E b \in a + 1 .. a + Cols + 1 :
               b <= Len(t) + 1 /\ b <= CopySize /\ StatusForm(t, p, a, b)

VARIABLES
    texts,          \* the title and the lines of the screen, and the status under it
    header,         \* how many of them are not the status
    stationScreen,  \* the screen is the one of the station mode
    current,        \* the text that is drawn, Len(texts) + 1 when all are
    index,          \* position in it
    row,            \* next_row
    screen          \* the rows of the frame buffer

lineVars == <<texts, header, stationScreen>>
textVars == <<lineVars, current, index, row, screen>>

Segment(k, first, length) == [text |-> k, first |-> first, length |-> length]
EmptyRow == Segment(0, 1, 0)
ClearBuffer == [r \in 0 .. TextRows - 1 |-> EmptyRow]

TextInit ==
    /\ texts = <<>> /\ header = 0 /\ stationScreen = FALSE
    /\ current = 1 /\ index = 1
    /\ row = 0
    /\ screen = ClearBuffer

AllDrawn == current > Len(texts)
Text == texts[current]

-----------------------------------------------------------------------------
(* Cells of the frame buffer.                                              *)

\* The bytes that oled_draw_char writes: five columns and the gap after them.
CharBytes(r, c) ==
    IF r >= TextRows \/ c >= Cols THEN {}
    ELSE LET first == r * Width + c * CharWidth IN first .. first + 5

\* oled_draw_text: one row, cut at its last column.
DrawText(rows, r, k, first, length) ==
    [rows EXCEPT ![r] = Segment(k, first, IF length > Cols THEN Cols ELSE length)]

-----------------------------------------------------------------------------
(* The screens.                                                            *)

\* oled_show_screen: clears the buffer, then the title on row 0.
ShowScreen(title, lines) ==
    /\ AllDrawn
    /\ texts' = <<Spelled(title)>> \o lines
    /\ header' = Len(texts')
    /\ current' = 2 /\ index' = 1
    /\ row' = 2
    /\ screen' = DrawText(ClearBuffer, 0, 1, 1, Len(texts'[1]))

\* A line of a screen, in a buffer of LineSize: a label and an argument.
Line(label, argument) == Cut(Labelled(label, argument), LineSize)
Counter(label) == Line(label, Spelled("1/6"))

ShowBoot(first, second) == ShowScreen("WI-FI SERVER", <<first, second>>)
ShowKnownNetworkAttempt(ssid) ==
    ShowScreen("AUTO CONNECT", <<Line("SSID:", ssid), Counter("KNOWN")>>)
ShowScanning ==
    ShowScreen("PROVISIONING",
               <<Labelled("SCANNING", Spelled("WIFI")), Labelled("PLEASE", Spelled("WAIT"))>>)
ShowConnecting(ssid) == ShowScreen("CONNECTING", <<Line("SSID", ssid), Counter("TRY")>>)
ShowConnectSuccess(ssid, ip, host) ==
    ShowScreen("SUCCESS", <<Line("SSID", ssid), Line("IP", ip), Cut(host, LineSize)>>)
ShowConnectFailure(ssid, reason) ==
    ShowScreen("CONNECT FAIL", <<Line("SSID", ssid), Cut(reason, LineSize)>>)
ShowProvisioning(ssid, password, ip) ==
    ShowScreen("PROVISIONING", <<Line("AP", ssid), Line("PWD", password), Line("IP", ip)>>)
ShowStaReady(ip, host) == ShowScreen("DEVICE READY", <<Line("IP", ip), Cut(host, LineSize)>>)

\* The screens of server_task, of the attempts to connect and of the handlers.
OtherScreen ==
    /\ \/ \E pair \in BootLines : ShowBoot(pair[1], pair[2])
       \/ ShowScanning
       \/ \E s \in Ssids : ShowKnownNetworkAttempt(s) \/ ShowConnecting(s)
       \/ \E s \in Ssids, a \in Addresses, h \in HostNames : ShowConnectSuccess(s, a, h)
       \/ \E s \in Ssids, r \in Reasons : ShowConnectFailure(s, r)
       \/ \E s, p \in AccessPoint, a \in Addresses : ShowProvisioning(s, p, a)
    /\ stationScreen' = FALSE

StationScreen ==
    /\ \E a \in Addresses, h \in HostNames : ShowStaReady(a, h)
    /\ stationScreen' = TRUE

\* Mutant: the whole buffer is cleared.
ShowStaStatusClear(plain) ==
    /\ AllDrawn /\ stationScreen
    /\ texts' = SubSeq(texts, 1, header) \o <<plain>>
    /\ current' = Len(texts') /\ index' = 1
    /\ row' = StatusStartRow
    /\ screen' = ClearBuffer
    /\ UNCHANGED <<header, stationScreen>>

\* display_status_show_sta_status: only the rows from StatusStartRow on are cleared.
ShowStaStatus(plain) ==
    /\ AllDrawn /\ stationScreen
    /\ texts' = SubSeq(texts, 1, header) \o <<plain>>
    /\ current' = Len(texts') /\ index' = 1
    /\ row' = StatusStartRow
    /\ screen' = [r \in 0 .. TextRows - 1 |-> IF r < StatusStartRow THEN screen[r] ELSE EmptyRow]
    /\ UNCHANGED <<header, stationScreen>>

-----------------------------------------------------------------------------
(* oled_draw_wrapped: one row per step.                                    *)

\* The copy that is drawn.
Normalized == Cut(Text, CopySize)

\* The first position from i on with one of the cells, or the end of the text.
FirstFrom(text, i, cells) ==
    CHOOSE j \in i .. Len(text) + 1 :
        /\ j = Len(text) + 1 \/ text[j] \in cells
        /\ \A k \in i .. j - 1 : text[k] \notin cells

\* The position after the last one of w .. e - 1 with one of the cells, or w.
AfterLast(text, w, e, cells) ==
    CHOOSE j \in w .. e :
        /\ j = w \/ text[j - 1] \in cells
        /\ \A k \in j .. e - 1 : text[k] \notin cells

\* Leading spaces are skipped, and one line end after them.
WordStart(text, i) ==
    LET j == FirstFrom(text, i, {Letter, NewLine})
    IN  IF j <= Len(text) /\ text[j] = NewLine THEN j + 1 ELSE j

\* Where the row that starts at w is full or its line ends.
FillEnd(text, w) ==
    LET e == FirstFrom(text, w, {NewLine})
    IN  IF e < w + Cols THEN e ELSE w + Cols

\* Mutant: a full row is not cut at a space.
RowEndUncut(text, w) == FillEnd(text, w)

\* Where the row ends: a full row in the middle of a line is cut after its last space.
RowEnd(text, w) ==
    LET e == FillEnd(text, w)
        s == AfterLast(text, w, e, {Space})
    IN  IF e <= Len(text) /\ text[e] # NewLine /\ s # w THEN s ELSE e

\* The length of the row without its trailing spaces.
Trimmed(text, w, e) == AfterLast(text, w, e, {Letter, NewLine}) - w

\* Mutant: the position is not set back when the row is cut.
WrapRowForward ==
    /\ ~ AllDrawn
    /\ index <= Len(Normalized) /\ row < TextRows
    /\ LET w == WordStart(Normalized, index)
           f == FillEnd(Normalized, w)
       IN  /\ screen' = DrawText(screen, row, current, w,
                                 Trimmed(Normalized, w, RowEnd(Normalized, w)))
           /\ index' = IF f <= Len(Normalized) /\ Normalized[f] = NewLine THEN f + 1 ELSE f
    /\ row' = row + 1
    /\ UNCHANGED <<lineVars, current>>

WrapRow ==
    /\ ~ AllDrawn
    /\ index <= Len(Normalized) /\ row < TextRows
    /\ LET w == WordStart(Normalized, index)
           e == RowEnd(Normalized, w)
       IN  /\ screen' = DrawText(screen, row, current, w, Trimmed(Normalized, w, e))
           /\ index' = IF e <= Len(Normalized) /\ Normalized[e] = NewLine THEN e + 1 ELSE e
    /\ row' = row + 1
    /\ UNCHANGED <<lineVars, current>>

\* The end of the text or of the screen: the next text starts on the next row.
NextText ==
    /\ ~ AllDrawn
    /\ index > Len(Normalized) \/ row >= TextRows
    /\ current' = current + 1
    /\ index' = 1
    /\ UNCHANGED <<lineVars, row, screen>>

TextNext ==
    \/ OtherScreen
    \/ StationScreen
    \/ \E plain \in Statuses : ShowStaStatus(plain)
    \/ WrapRow
    \/ NextText

TextSpec == TextInit /\ [][TextNext]_textVars

-----------------------------------------------------------------------------
(* Properties.                                                             *)

\* The position after the piece on a row, the rows with a piece, and what is drawn.
PastRow(r) == screen[r].first + screen[r].length
Used == {r \in 0 .. TextRows - 1 : screen[r].length > 0}
Drawn(k, i) == \E r \in Used : screen[r].text = k /\ i \in screen[r].first .. PastRow(r) - 1

LettersDrawn(k, last) == \A i \in 1 .. last : texts[k][i] = Letter => Drawn(k, i)

TextType ==
    /\ texts \in Seq(Seq(Cell))
    /\ header \in 0 .. Len(texts) /\ stationScreen \in BOOLEAN
    /\ current \in 1 .. Len(texts) + 1
    /\ index \in Nat \ {0} /\ (~ AllDrawn => index <= Len(Text) + 1)
    /\ row \in 0 .. TextRows
    /\ screen \in [0 .. TextRows - 1 -> [text : 0 .. Len(texts), first : Nat \ {0}, length : 0 .. Cols]]
    /\ \A r \in Used : screen[r].text # 0 /\ PastRow(r) <= Len(texts[screen[r].text]) + 1

\* What oled_draw_wrapped (445-507) has passed of a text is on the screen, each
\* character once and in the order of the text.
ReadingOrder ==
    /\ \A r, s \in Used : r < s =>
           \/ screen[r].text < screen[s].text
           \/ screen[r].text = screen[s].text /\ PastRow(r) <= screen[s].first
    /\ ~ AllDrawn => LettersDrawn(current, index - 1)

\* A word is split between two rows only if it is longer than a row
\* (oled_draw_wrapped 483-490).
WordsWhole ==
    \A r \in Used :
        LET text == texts[screen[r].text] IN
        /\ screen[r].text > 1
        /\ PastRow(r) < CopySize /\ PastRow(r) <= Len(text)
        /\ text[PastRow(r)] = Letter
        => /\ screen[r].length = Cols
           /\ \A i \in screen[r].first .. PastRow(r) - 1 : text[i] = Letter

\* The characters on both sides of a line end never share a row, and no row
\* runs over the end of its row of the frame buffer (oled_draw_char 386-399).
RowsApart ==
    \A r \in Used :
        /\ \A i \in screen[r].first .. PastRow(r) - 1 : texts[screen[r].text][i] # NewLine
        /\ \A c \in 0 .. screen[r].length - 1 :
               /\ CharBytes(r, c) # {}
               /\ CharBytes(r, c) \subseteq r * Width .. (r + 1) * Width - 1

\* Whatever the texts, what is passed is drawn once and in order, words are split
\* only if they are longer than a row, and no row runs into the next
\* (oled_draw_wrapped and oled_draw_char).
Legible == TextType /\ ReadingOrder /\ WordsWhole /\ RowsApart

\* Every character of the lines of a screen finds its place under the title,
\* however the names wrap (oled_show_screen 528-534), and the live status that
\* is drawn below (753-770) leaves the address of the station in place.
LinesComplete ==
    AllDrawn => \A k \in 2 .. header : LettersDrawn(k, Len(texts[k]))

Status == Len(texts)
StatusDrawn == AllDrawn /\ Len(texts) > header

\* Whatever the event, the state of the actuator and whether its positions are
\* learned are on the screen: the event is what is dropped (753-770).
StateShown ==
    StatusDrawn =>
        \A i \in 1 .. Len(texts[Status]) :
            \/ texts[Status][i] # Letter \/ Drawn(Status, i)
            \/ \E a, b \in 1 .. i - 1 : a < b /\ texts[Status][a] = NewLine /\ texts[Status][b] = NewLine

\* On the display of the device every line of every screen finds its place, and
\* the live status shows the state of the actuator and whether its positions are
\* learned, whatever the event (oled_show_screen, oled_prepare_status_text).
ScreenComplete == LinesComplete /\ StateShown

\* "moving whole words to the next row when required" (432-436): a word that
\* starts a row would not have fitted on the row above.
MovedWhenRequired ==
    \A r \in Used : r + 1 \in Used =>
        LET k == screen[r + 1].text
            next == screen[r + 1].first
        IN  screen[r].text = k /\ k > 1 /\ (\A i \in PastRow(r) .. next - 1 : texts[k][i] = Space)
            => FirstFrom(texts[k], next, {Space, NewLine}) - screen[r].first > Cols

\* "shortens calibration wording so it fits on the small display" (60-62): the
\* status that oled_prepare_status_text makes is drawn to its end.
StatusFits == StatusDrawn => LettersDrawn(Status, Len(texts[Status]))
=============================================================================
