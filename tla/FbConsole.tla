------------------------------ MODULE FbConsole ------------------------------
(* The serial port that is a console on the frame buffer                    *)
(* (FrameBufferSerialPortLib.c): a cursor, a colour and the cells of the    *)
(* screen.  Writing keeps interrupts off until FbConPutCharWithFactor       *)
(* itself turns them on; from then on an interrupt's handler may write      *)
(* between two characters and in the middle of a line feed, which does not  *)
(* turn them off.  Characters are two that are drawn, the space, the two    *)
(* controls, and "other" for all that is ignored; every image that links    *)
(* the library has a cursor of its own.                                     *)
EXTENDS Naturals, Sequences

CONSTANTS
    Width, Height,      \* PcdMipiFrameBufferWidth, PcdMipiFrameBufferHeight, in pixels
    TextLengths,        \* how many characters a call writes
    ConsoleWrites,      \* bound: calls of SerialPortWrite and SerialPortWriteCritical
    StaleIntStates      \* what intstate may hold where nothing was assigned to it

FONT_WIDTH == 5
FONT_HEIGHT == 12

\* m_MaxPosition (FbConReset)
Columns == Width \div (FONT_WIDTH + 1)
Rows == (Height - 1) \div FONT_HEIGHT

\* With fewer rows a line feed clears the screen for ever.
ASSUME ConsoleAssumption ==
    /\ Width \in Nat /\ Height \in Nat /\ Columns > 0 /\ Rows > 2
    /\ TextLengths \subseteq Nat /\ StaleIntStates \subseteq BOOLEAN

VARIABLES
    m_Initialized,  \* nothing is drawn before
    m_Position,     \* the cursor
    m_Color,        \* the foreground colour
    shown,          \* cell -> character and colour, for the cells drawn since the screen was cleared
    writers,        \* the calls in progress, each with the characters left, the one to paint
                    \* again, and what it is at in a line feed or a space that may be
                    \* interrupted; the last is running, the others are interrupted
    interrupts,     \* whether they are enabled
    caller,         \* whether they were when the first of the calls was made
    latest,         \* the character drawn last, unless the line was left since
    written         \* calls made

consoleVars == <<m_Initialized, m_Position, m_Color, shown, writers, interrupts, caller, latest, written>>

ConsoleInit ==
    /\ m_Initialized = FALSE /\ m_Position = [x |-> 0, y |-> 0] /\ m_Color = "none"
    /\ shown = <<>> /\ writers = <<>> /\ interrupts \in BOOLEAN /\ caller = interrupts
    /\ latest = "none" /\ written = 0

\* The pixels FbConDrawglyph writes: rows of five, one stride apart.
GlyphPixels(x, y) ==
    {(y * FONT_HEIGHT * Width) + (x * (FONT_WIDTH + 1)) + (row * Width) + column :
        row \in 0..(FONT_HEIGHT - 1), column \in 0..(FONT_WIDTH - 1)}

-----------------------------------------------------------------------------
(* Calls *)

SerialPortInitialize ==
    /\ writers = <<>> /\ ~m_Initialized /\ m_Initialized' = TRUE
    /\ m_Position' = [x |-> 0, y |-> 0] /\ m_Color' = "white"
    /\ UNCHANGED <<shown, writers, interrupts, caller, latest, written>>

\* A call of the program, or of the handler of an interrupt; in either case
\* with interrupts off from here on.
BeginWrite(critical) ==
    /\ written < ConsoleWrites
    /\ writers = <<>> \/ interrupts
    /\ \E left \in TextLengths :
          writers' = Append(writers, [left |-> left, repaint |-> "none", at |-> "char", row |-> 0,
                                      critical |-> critical, foreground |-> m_Color,
                                      enabled |-> writers = <<>> /\ interrupts])
    /\ m_Color' = IF critical THEN "yellow" ELSE m_Color
    /\ caller' = IF writers = <<>> THEN interrupts ELSE caller
    /\ interrupts' = FALSE /\ written' = written + 1
    /\ UNCHANGED <<m_Initialized, m_Position, shown, latest>>

Writer == writers[Len(writers)]

\* Back to the caller; the return from an interrupt enables them again.
EndWrite ==
    /\ writers # <<>> /\ Writer.left = 0
    /\ writers' = SubSeq(writers, 1, Len(writers) - 1)
    /\ m_Color' = IF Writer.critical THEN Writer.foreground ELSE m_Color
    /\ interrupts' = (interrupts \/ Writer.enabled \/ Len(writers) > 1)
    /\ UNCHANGED <<m_Initialized, m_Position, shown, caller, latest, written>>

\* The program may turn interrupts on and off between its calls.
Critical ==
    /\ writers = <<>> /\ written < ConsoleWrites
    /\ interrupts' = ~interrupts /\ caller' = interrupts'
    /\ UNCHANGED <<m_Initialized, m_Position, m_Color, shown, writers, latest, written>>

-----------------------------------------------------------------------------
(* FbConPutCharWithFactor *)

Chars == {"a", "b", " ", "\n", "\r", "other"}

\* The next character of the text is c, the one to be painted again if there
\* is, or a space that has been looked at.
Comes(c) ==
    /\ writers # <<>> /\ Writer.left > 0 /\ Writer.repaint \in {c, "none"}
    /\ Writer.at = "char" \/ (Writer.at = "space" /\ c = " ")
CharTaken ==
    [writers EXCEPT ![Len(writers)].left = @ - 1, ![Len(writers)].repaint = "none",
                    ![Len(writers)].at = "char", ![Len(writers)].row = 0]
PaintAgain(c) ==
    [writers EXCEPT ![Len(writers)].repaint = c, ![Len(writers)].at = "char", ![Len(writers)].row = 0]
GoesOn(at, row) ==
    writers' = [writers EXCEPT ![Len(writers)].at = at, ![Len(writers)].row = row]

\* Not drawn: controls but two, what is not ASCII, a space in the first column;
\* and everything before the console is initialised.
Ignored(c) ==
    /\ Comes(c) /\ Writer.at = "char"
    /\ ~m_Initialized \/ c = "other" \/ (c = " " /\ m_Position.x = 0)
    /\ writers' = CharTaken
    /\ latest' = IF Writer.repaint = "none" THEN latest ELSE "none"
    /\ UNCHANGED <<m_Initialized, m_Position, m_Color, shown, interrupts, caller, written>>

CarriageReturn ==
    /\ m_Initialized /\ Comes("\r") /\ writers' = CharTaken
    /\ m_Position' = [m_Position EXCEPT !.x = 0] /\ latest' = "none"
    /\ UNCHANGED <<m_Initialized, m_Color, shown, interrupts, caller, written>>

\* Mutant of Newline: what did not fit is not painted again.
NewlineLost(c, drawn, intstate) ==
    LET y == m_Position.y + 1
    IN /\ IF y >= Rows - 1
          THEN shown' = <<>> /\ m_Position' = [x |-> 0, y |-> 0]
          ELSE shown' = drawn /\ m_Position' = [x |-> 0, y |-> y]
       /\ writers' = CharTaken
       /\ interrupts' = (interrupts \/ intstate)

\* newline: the next row, or an empty screen on which the character is painted
\* again, be it a line feed; the interrupts as intstate says.  One step where
\* they are off until then.
Newline(c, drawn, intstate) ==
    LET y == m_Position.y + 1
    IN /\ IF y >= Rows - 1
          THEN shown' = <<>> /\ m_Position' = [x |-> 0, y |-> 0]
               /\ writers' = PaintAgain(c)
          ELSE shown' = drawn /\ m_Position' = [x |-> 0, y |-> y] /\ writers' = CharTaken
       /\ interrupts' = (interrupts \/ intstate)

\* A line feed comes to newline without having read the interrupt state, or
\* turned interrupts off.
LineFeed ==
    /\ m_Initialized /\ Comes("\n") /\ ~interrupts /\ latest' = "none"
    /\ \E intstate \in StaleIntStates : Newline("\n", shown, intstate)
    /\ UNCHANGED <<m_Initialized, m_Color, caller, written>>

\* Where they are on, statement by statement: the row is read, and written
\* back; the column; the bound is looked at, of the row that was written or of
\* the one that is there; the screen is cleared, and the row set to the first.
\* Interrupts stay on, whatever intstate is.
FeedAt(at) ==
    /\ writers # <<>> /\ Writer.at = at
    /\ UNCHANGED <<m_Initialized, m_Color, interrupts, caller, written>>

ReadRow ==
    /\ m_Initialized /\ Comes("\n") /\ interrupts /\ FeedAt("char")
    /\ GoesOn("row", m_Position.y + 1) /\ latest' = "none" /\ UNCHANGED <<m_Position, shown>>
WriteRow ==
    /\ FeedAt("row") /\ GoesOn("column", Writer.row)
    /\ m_Position' = [m_Position EXCEPT !.y = Writer.row] /\ UNCHANGED <<shown, latest>>
WriteColumn ==
    /\ FeedAt("column") /\ GoesOn("bound", Writer.row)
    /\ m_Position' = [m_Position EXCEPT !.x = 0] /\ UNCHANGED <<shown, latest>>
LookAtBound ==
    /\ FeedAt("bound") /\ UNCHANGED <<m_Position, shown>>
    /\ \E y \in {Writer.row, m_Position.y} :
          IF y >= Rows - 1 THEN GoesOn("clear", Writer.row) /\ UNCHANGED latest
                           ELSE writers' = CharTaken /\ latest' = "none"
ClearScreen ==
    /\ FeedAt("clear") /\ GoesOn("home", Writer.row)
    /\ shown' = <<>> /\ UNCHANGED <<m_Position, latest>>
FirstRow ==
    /\ FeedAt("home") /\ writers' = PaintAgain("\n")
    /\ m_Position' = [m_Position EXCEPT !.y = 0] /\ latest' = "none" /\ UNCHANGED shown
InterruptibleFeed ==
    ReadRow \/ WriteRow \/ WriteColumn \/ LookAtBound \/ ClearScreen \/ FirstRow

\* The column of a space is looked at before interrupts are turned off.
LookAtSpace ==
    /\ m_Initialized /\ Comes(" ") /\ interrupts /\ m_Position.x > 0
    /\ FeedAt("char") /\ GoesOn("space", 0) /\ UNCHANGED <<m_Position, shown, latest>>

Paint(c) ==
    LET here == <<m_Position.x, m_Position.y>>
        drawn == [cell \in DOMAIN shown \cup {here} |->
                    IF cell = here THEN [char |-> c, colour |-> m_Color, critical |-> Writer.critical] ELSE shown[cell]]
    IN /\ m_Initialized /\ Comes(c)
       /\ c = " " => Writer.at = "space" \/ (~interrupts /\ m_Position.x > 0)
       /\ latest' = c
       /\ IF m_Position.x + 1 >= Columns
          THEN Newline(c, drawn, interrupts)
          ELSE /\ shown' = drawn /\ m_Position' = [m_Position EXCEPT !.x = @ + 1]
               /\ writers' = CharTaken /\ UNCHANGED interrupts
       /\ UNCHANGED <<m_Initialized, m_Color, caller, written>>

ConsoleNext ==
    \/ SerialPortInitialize \/ BeginWrite(TRUE) \/ BeginWrite(FALSE) \/ EndWrite \/ Critical
    \/ CarriageReturn \/ LineFeed \/ InterruptibleFeed \/ LookAtSpace
    \/ \E c \in {" ", "other", "a"} : Ignored(c)
    \/ \E c \in {" ", "a", "b"} : Paint(c)

ConsoleSpec == ConsoleInit /\ [][ConsoleNext]_consoleVars

-----------------------------------------------------------------------------
(* Properties *)

Cells == (0..(Columns - 1)) \X (0..(Rows - 1))

\* Glyphs lie in the frame, and apart from one another.
GlyphsApart ==
    \A c \in Cells :
        /\ GlyphPixels(c[1], c[2]) \subseteq 0..((Width * Height) - 1)
        /\ \A d \in Cells \ {c} : GlyphPixels(c[1], c[2]) \cap GlyphPixels(d[1], d[2]) = {}

\* The cell before the cursor.
CellBefore(x, y) == IF x > 0 THEN <<x - 1, y>> ELSE <<Columns - 1, y - 1>>

\* Whatever is interrupted and wherever the screen is cleared: the cursor stays
\* on a row of the frame, and above the last but for a line feed that is not
\* through; the character drawn last can be read before it unless a character
\* is about to be painted again or a line feed is not through; critical text is
\* yellow, the colour is white again when the last call has returned, and a
\* caller that had interrupts on has them on again (FbConPutCharWithFactor,
\* SerialPortWriteCritical).
FbConsoleOk ==
    /\ GlyphsApart
    /\ m_Position.x < Columns /\ m_Position.y < Rows
    /\ (\A w \in 1..Len(writers) : writers[w].at \in {"char", "space"}) => m_Position.y < Rows - 1
    /\ latest # "none" /\ (\A w \in 1..Len(writers) : writers[w].repaint = "none" /\ writers[w].at = "char") =>
          /\ m_Position # [x |-> 0, y |-> 0]
          /\ CellBefore(m_Position.x, m_Position.y) \in DOMAIN shown
          /\ shown[CellBefore(m_Position.x, m_Position.y)].char = latest
    /\ \A c \in DOMAIN shown : shown[c].critical => shown[c].colour = "yellow"
    /\ writers = <<>> => (m_Initialized => m_Color = "white") /\ (caller => interrupts)

\* The cursor is above the last row, which is the row that clears the screen,
\* whenever a handler writes.
CursorAboveLastRow == writers # <<>> /\ ~interrupts => m_Position.y < Rows - 1

\* "BOOLEAN intstate = ArmGetInterruptState(); ArmDisableInterrupts();": text
\* is written with interrupts off, and a caller that had them off keeps them
\* off.  A line feed jumps over that assignment.
InterruptsKept == interrupts => caller

\* Only SerialPortWriteCritical writes in yellow.
WhiteUnlessCritical == \A c \in DOMAIN shown : ~shown[c].critical => shown[c].colour = "white"
=============================================================================
