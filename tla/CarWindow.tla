------------------------------ MODULE CarWindow ------------------------------
(***************************************************************************)
(* The player's side of a frame (main.cpp, windowContext.cpp,              *)
(* carClass.cpp): the arrow keys move the car, a click picks a color,      *)
(* chooses the chat box, sends the text or ends the game, typing edits the *)
(* text, and what changed is handed to the session.                        *)
(*                                                                         *)
(* The layout is the program's. The car's size and the lengths of the      *)
(* buffers are parameters, so that an instance has its borders within      *)
(* reach.                                                                  *)
(***************************************************************************)
EXTENDS Integers, Sequences

CONSTANTS
  CarWidth, CarHeight, \* carWidth and carHeight: 50
  MaxChars,            \* MAX_INPUT_CHARS: 105
  RawJsonSize,         \* the size of m_textMsgRawJson: 300
  Letters,             \* the characters that may be typed
  NUL,
  Points               \* where the player may click

screenWidth == 1600
screenHeight == 850
menuPanelHeight == 120
chatPanelHeight == 160
windowYBoundary == screenHeight - menuPanelHeight - chatPanelHeight

ASSUME CarAssumption == /\ CarWidth \in 1..screenWidth
                        /\ CarHeight \in 1..windowYBoundary
ASSUME LetterAssumption == NUL \notin Letters
ASSUME PointAssumption == Points \subseteq (0..screenWidth) \X (0..screenHeight)

\* How many characters sprintf makes of a text of n characters: those of the
\* template, the color, the own uuid, no addressee, and Global.
TextFrame(n) == 144 + n

ASSUME BufferAssumption == /\ MaxChars \in Nat
                           /\ RawJsonSize \in Nat
                           /\ TextFrame(MaxChars) < RawJsonSize

-----------------------------------------------------------------------------
(***************************************************************************)
(* The layout.                                                             *)
(***************************************************************************)
In(p, left, top, right, bottom) == p[1] \in left..right /\ p[2] \in top..bottom

colorBoxX == 850
colorBoxY == screenHeight - 110
colorBoxWidth == 400
colorBoxHeight == 50
colorSquareLength == 50
NOCOLOR == 0
Selections == 1..8

\* Fault: the borders between two squares belong to the left one.
SelectionLeft(p) ==
  IF ~In(p, colorBoxX, colorBoxY, colorBoxX + colorBoxWidth, colorBoxY + colorBoxHeight)
  THEN NOCOLOR
  ELSE IF p[1] <= colorBoxX + 350 THEN 1 + (p[1] - colorBoxX - 1) \div 50 ELSE 8

\* The n-th square ends before colorBoxX + 50 * n; the last one has the rest.
windowIsMouseInColorSelection(p) ==
  IF ~In(p, colorBoxX, colorBoxY, colorBoxX + colorBoxWidth, colorBoxY + colorBoxHeight)
  THEN NOCOLOR
  ELSE IF p[1] < colorBoxX + 350 THEN 1 + (p[1] - colorBoxX) \div 50 ELSE 8

\* The pixels that drawDefaultSquaresColor fills with the color of selection n.
Square(n) ==
  LET initX == colorBoxX + (n - 1) * colorSquareLength
  IN  (initX .. initX + colorSquareLength - 1)
        \X (colorBoxY .. colorBoxY + colorBoxHeight - 1)

\* The two edges of the color box that count as part of it, though no square is
\* drawn there.
FarEdge(p) == \/ p[1] = colorBoxX + colorBoxWidth
              \/ p[2] = colorBoxY + colorBoxHeight

\* A raylib rectangle has its left and top edges and not the others. The box and
\* the button share one column of pixels.
chatSendBoxY == screenHeight - menuPanelHeight - 25
windowIsMouseCollidesChatBox(p) == In(p, 0, chatSendBoxY, 1499, chatSendBoxY + 24)
windowIsMouseCollidesChatSendButton(p) ==
  In(p, 1499, chatSendBoxY, 1598, chatSendBoxY + 24)

escBoxX == screenWidth - 100 - 5
escBoxY == screenHeight - 40 - 5
windowIsMouseInEscape(p) == In(p, escBoxX, escBoxY, escBoxX + 100, escBoxY + 40)

-----------------------------------------------------------------------------
(***************************************************************************)
(* The colors: their ints, as GetColor takes them, and their strings.      *)
(***************************************************************************)
colorEnumToHexValue ==
  << [hexValue |-> 7991807,    hexString |-> "0079F1"],
     [hexValue |-> 14954751,   hexString |-> "00E430"],
     [hexValue |-> -433506305, hexString |-> "E62937"],
     [hexValue |-> -16711681,  hexString |-> "FF00FF"],
     [hexValue |-> -6225665,   hexString |-> "FFA100"],
     [hexValue |-> -34012929,  hexString |-> "FDF900"],
     [hexValue |-> 1723858943, hexString |-> "25FDCB"],
     [hexValue |-> -926365441, hexString |-> "C8C8C8"] >>

colorHexValueToString(v) ==
  CASE v = 7991807    -> "0079F1" [] v = 14954751   -> "00E430"
    [] v = -433506305 -> "E62937" [] v = -16711681  -> "FF00FF"
    [] v = -6225665   -> "FFA100" [] v = -34012929  -> "FDF900"
    [] v = 1723858943 -> "25FDCB" [] v = -926365441 -> "C8C8C8"
    [] OTHER -> "0079F1"

colorStringToHexValue(s) ==
  CASE s = "0079F1" -> 7991807    [] s = "00E430" -> 14954751
    [] s = "E62937" -> -433506305 [] s = "FF00FF" -> -16711681
    [] s = "FFA100" -> -6225665   [] s = "FDF900" -> -34012929
    [] s = "25FDCB" -> 1723858943 [] s = "C8C8C8" -> -926365441
    [] OTHER -> 7991807

setCarColor(v) == [hexValue |-> v, hexString |-> colorHexValueToString(v)]

-----------------------------------------------------------------------------
VARIABLES
  phase,       \* where the loop is in a frame
  running,     \* g_gameRunning
  x, y,        \* g_X and g_Y
  move,        \* whether the position is to be sent
  carColor,    \* the car's color
  currColor,   \* the session's m_currColor
  mouseOnText, \* whether typing goes to the chat box
  buf,         \* textmessage
  letterCount,
  text,        \* whether the text is to be sent
  line,        \* the own lines that this frame put on the screen
  said,        \* the text and color that the session sent in this frame
  lost,        \* whether the session refused the text of this frame
  onBoth,      \* whether this frame's click hit both the box and the button
  told,        \* the last position that the session took
  refused,     \* whether the session refused the last one
  typed        \* the characters a player believes to have typed

car == <<x, y, move, told, refused>>
color == <<carColor, currColor>>
chat == <<mouseOnText, buf, letterCount, text, line, said, lost, onBoth, typed>>
vars == <<phase, running, car, color, chat>>

Init ==
  /\ phase = "update" /\ running = TRUE
  /\ x = 0 /\ y = 0 /\ move = FALSE
  /\ carColor = [hexValue |-> 7991807, hexString |-> "0079F1"]
  /\ currColor = "0079F1"
  /\ mouseOnText = FALSE
  /\ buf = [i \in 0..MaxChars |-> NUL] /\ letterCount = 0
  /\ text = FALSE /\ line = <<>> /\ said = <<>>
  /\ lost = FALSE /\ onBoth = FALSE
  /\ told = <<0, 0>> /\ refused = FALSE
  /\ typed = <<>>

\* The C string in buf; without a NUL it would go on beyond the array.
strlen == CHOOSE n \in 0..(MaxChars + 1) :
            /\ n <= MaxChars => buf[n] = NUL
            /\ \A i \in 0..(n-1) : buf[i] # NUL
String == [i \in 1..strlen |-> buf[i-1]]
Line(b, c) == [text |-> b, color |-> c]

-----------------------------------------------------------------------------
\* A frame begins; a newcomer among the messages asks for the own position.
Update ==
  /\ phase = "update" /\ running
  /\ move' \in {move, TRUE}
  /\ line' = <<>> /\ said' = <<>> /\ lost' = FALSE /\ onBoth' = FALSE
  /\ phase' = "keys"
  /\ UNCHANGED <<running, x, y, told, refused, color, mouseOnText, buf, letterCount,
                 text, typed>>

\* Fault: the limit is the screen's and not the car's.
ForthToTheEdge(held, v, limit) == IF held /\ v < limit + 1 THEN v + 2 ELSE v

\* An arrow key moves the car by two pixels, up to the border.
Back(held, v) == IF held /\ v > 1 THEN v - 2 ELSE v
Forth(held, v, limit) == IF held /\ v < limit - 1 THEN v + 2 ELSE v

\* Fault: only the horizontal keys ask for the position to be sent.
KeysQuietly(K) ==
  LET up    == Back("up" \in K, y)
      down  == Forth("down" \in K, up, windowYBoundary - CarHeight)
      left  == Back("left" \in K, x)
      right == Forth("right" \in K, left, screenWidth - CarWidth)
  IN  /\ phase = "keys"
      /\ y' = down /\ x' = right
      /\ move' = (move \/ left # x \/ right # left)
      /\ phase' = "mouse"
      /\ UNCHANGED <<running, told, refused, color, chat>>

Keys(K) ==
  LET up    == Back("up" \in K, y)
      down  == Forth("down" \in K, up, windowYBoundary - CarHeight)
      left  == Back("left" \in K, x)
      right == Forth("right" \in K, left, screenWidth - CarWidth)
  IN  /\ phase = "keys"
      /\ y' = down /\ x' = right
      /\ move' = (move \/ up # y \/ down # up \/ left # x \/ right # left)
      /\ phase' = "mouse"
      /\ UNCHANGED <<running, told, refused, color, chat>>

\* Fault: the session keeps the color only if it can send it.
PickOffline(n) ==
  IF n = NOCOLOR THEN UNCHANGED color
  ELSE /\ carColor' = setCarColor(colorEnumToHexValue[n].hexValue)
       /\ currColor' \in {currColor, colorEnumToHexValue[n].hexString}

\* The session keeps the color also when it cannot send it.
PickColor(n) ==
  IF n = NOCOLOR THEN UNCHANGED color
  ELSE /\ carColor' = setCarColor(colorEnumToHexValue[n].hexValue)
       /\ currColor' = colorEnumToHexValue[n].hexString

\* The mouse button has just been pressed, or it has not.
Click(p) ==
  /\ phase = "mouse"
  /\ PickColor(windowIsMouseInColorSelection(p))
  /\ mouseOnText' = windowIsMouseCollidesChatBox(p)
  /\ IF windowIsMouseCollidesChatSendButton(p)
     THEN text' = TRUE /\ line' = Append(line, Line(String, carColor'.hexString))
     ELSE UNCHANGED <<text, line>>
  /\ running' = (running /\ ~windowIsMouseInEscape(p))
  /\ onBoth' = (/\ windowIsMouseCollidesChatBox(p)
                /\ windowIsMouseCollidesChatSendButton(p))
  /\ phase' = "send"
  /\ UNCHANGED <<car, buf, letterCount, said, lost, typed>>

NoClick ==
  /\ phase = "mouse"
  /\ phase' = "send"
  /\ UNCHANGED <<running, car, color, chat>>

\* sendPosition drops the position if the session is not connected or in the
\* middle of a message.
SendPosition ==
  /\ phase = "send"
  /\ IF move THEN \/ told' = <<x, y>> /\ refused' = FALSE
                  \/ refused' = TRUE /\ UNCHANGED told
             ELSE UNCHANGED <<told, refused>>
  /\ move' = FALSE
  /\ phase' = IF mouseOnText THEN "type" ELSE "text"
  /\ UNCHANGED <<running, x, y, color, chat>>

\* One of the characters pressed in this frame; those outside 32..125, and all of
\* them once the buffer is full, are skipped.
Type(k) ==
  /\ phase = "type"
  /\ letterCount < MaxChars
  /\ buf' = [buf EXCEPT ![letterCount] = k, ![letterCount + 1] = NUL]
  /\ letterCount' = letterCount + 1
  /\ typed' = Append(typed, k)
  /\ UNCHANGED <<phase, running, car, color, mouseOnText, text, line, said, lost,
                 onBoth>>

\* Fault: the count goes back and the text stays as it is.
BackspaceCount(pressed) ==
  LET n == IF letterCount > 0 THEN letterCount - 1 ELSE 0
  IN  IF pressed THEN /\ letterCount' = n
                      /\ typed' = SubSeq(typed, 1, n)
                      /\ UNCHANGED buf
                 ELSE UNCHANGED <<letterCount, buf, typed>>

Backspace(pressed) ==
  LET n == IF letterCount > 0 THEN letterCount - 1 ELSE 0
  IN  IF pressed THEN /\ letterCount' = n
                      /\ buf' = [buf EXCEPT ![n] = NUL]
                      /\ typed' = SubSeq(typed, 1, n)
                 ELSE UNCHANGED <<letterCount, buf, typed>>

\* The other keys of the chat box: backspace, then enter.
EndTyping(back, enter) ==
  /\ phase = "type"
  /\ Backspace(back)
  /\ IF enter THEN text' = TRUE /\ line' = Append(line, Line(String', carColor.hexString))
              ELSE UNCHANGED <<text, line>>
  /\ phase' = "text"
  /\ UNCHANGED <<running, car, color, mouseOnText, said, lost, onBoth>>

\* Fault: the text is cleared before it is sent.
SendTextCleared ==
  /\ phase = "text"
  /\ IF text THEN \/ said' = <<Line(<<>>, currColor)>> /\ lost' = FALSE
                  \/ said' = <<>> /\ lost' = TRUE
             ELSE UNCHANGED <<said, lost>>
  /\ text' = FALSE
  /\ phase' = "draw"
  /\ UNCHANGED <<running, car, color, mouseOnText, buf, letterCount, line, onBoth,
                 typed>>

\* sendTextMessage drops the text like sendPosition the position, and nobody asks
\* for it again. The text stays in the box.
SendText ==
  /\ phase = "text"
  /\ IF text THEN \/ said' = <<Line(String, currColor)>> /\ lost' = FALSE
                  \/ said' = <<>> /\ lost' = TRUE
             ELSE UNCHANGED <<said, lost>>
  /\ text' = FALSE
  /\ phase' = "draw"
  /\ UNCHANGED <<running, car, color, mouseOnText, buf, letterCount, line, onBoth,
                 typed>>

Draw ==
  /\ phase = "draw"
  /\ phase' = "update"
  /\ UNCHANGED <<running, car, color, chat>>

Arrows == {"up", "down", "left", "right"}

Next ==
  \/ Update
  \/ \E K \in SUBSET Arrows : Keys(K)
  \/ \E p \in Points : Click(p)
  \/ NoClick
  \/ SendPosition
  \/ \E k \in Letters : Type(k)
  \/ \E back, enter \in BOOLEAN : EndTyping(back, enter)
  \/ SendText
  \/ Draw

Spec == Init /\ [][Next]_vars
=============================================================================
