--------------------------- MODULE CarWindowProofs ---------------------------
(***************************************************************************)
(* Proofs about CarWindow, for every size of the car, lengths of the       *)
(* buffers, characters and points to click at.                             *)
(***************************************************************************)
EXTENDS CarWindowInv, TLAPS

USE CarAssumption, LetterAssumption, PointAssumption, BufferAssumption

-----------------------------------------------------------------------------
(***************************************************************************)
(* The colors and the layout.                                              *)
(***************************************************************************)

\* The int of a selection leads to its string, and the string back to the int.
LEMMA TablesAgree ==
  ASSUME NEW n \in Selections
  PROVE  LET c == colorEnumToHexValue[n]
         IN  /\ setCarColor(c.hexValue) = c
             /\ colorStringToHexValue(c.hexString) = c.hexValue
BY DEF Selections, colorEnumToHexValue, setCarColor, colorHexValueToString,
       colorStringToHexValue

LEMMA PointType ==
  ASSUME NEW p \in Points
  PROVE  p[1] \in Int /\ p[2] \in Int
<1>1. p \in (0..1600) \X (0..850)
  BY DEF screenWidth, screenHeight
<1> QED BY <1>1

LEMMA SelectionType ==
  ASSUME NEW p \in Points
  PROVE  windowIsMouseInColorSelection(p) \in Selections \cup {NOCOLOR}
<1>1. p[1] \in Int /\ p[2] \in Int
  BY PointType
<1> QED BY <1>1 DEF windowIsMouseInColorSelection, In, Selections, NOCOLOR,
        colorBoxX, colorBoxWidth, screenHeight, colorBoxY, colorBoxHeight

LEMMA SquareIsSelected ==
  ASSUME NEW p \in Points, NEW n \in Selections, p \in Square(n)
  PROVE  windowIsMouseInColorSelection(p) = n
<1>1. p[1] \in Int /\ p[2] \in Int
  BY PointType
<1>2. /\ p[1] >= 850 + (n - 1) * 50 /\ p[1] < 850 + n * 50
      /\ p[2] >= 740 /\ p[2] < 790 /\ n \in 1..8
  BY <1>1 DEF Square, colorBoxX, colorSquareLength, colorBoxY, colorBoxHeight,
              screenHeight, Selections
<1>3. In(p, colorBoxX, colorBoxY, colorBoxX + colorBoxWidth, colorBoxY + colorBoxHeight)
  BY <1>1, <1>2 DEF In, colorBoxX, colorBoxY, colorBoxWidth, colorBoxHeight, screenHeight
<1>4. CASE n = 8
  BY <1>2, <1>3, <1>4 DEF windowIsMouseInColorSelection, colorBoxX
<1>5. CASE n \in 1..7
  <2>1. p[1] < colorBoxX + 350 /\ (p[1] - colorBoxX) \div 50 = n - 1
    BY <1>1, <1>2, <1>5 DEF colorBoxX
  <2> QED BY <1>2, <1>3, <2>1 DEF windowIsMouseInColorSelection
<1> QED BY <1>2, <1>4, <1>5

LEMMA ElsewhereNothing ==
  ASSUME NEW p \in Points, \A n \in Selections : p \notin Square(n), ~FarEdge(p)
  PROVE  windowIsMouseInColorSelection(p) = NOCOLOR
<1>0. p \in (0..1600) \X (0..850) /\ p[1] \in Int /\ p[2] \in Int
  BY PointType DEF screenWidth, screenHeight
<1>1. SUFFICES ASSUME In(p, colorBoxX, colorBoxY, colorBoxX + colorBoxWidth,
                         colorBoxY + colorBoxHeight)
               PROVE  FALSE
  BY DEF windowIsMouseInColorSelection
<1>2. p[1] \in 850..1249 /\ p[2] \in 740..789
  BY <1>0, <1>1 DEF In, FarEdge, colorBoxX, colorBoxY, colorBoxWidth,
     colorBoxHeight, screenHeight
<1> DEFINE n == 1 + (p[1] - 850) \div 50
<1>3. /\ n \in 1..8
      /\ 850 + (n - 1) * 50 <= p[1] /\ p[1] <= 850 + (n - 1) * 50 + 49
  BY <1>2
<1> HIDE DEF n
<1>4. p \in Square(n)
  BY <1>0, <1>2, <1>3 DEF Square, colorBoxX, colorBoxY, colorSquareLength,
     colorBoxHeight, screenHeight
<1> QED BY <1>3, <1>4 DEF Selections

-----------------------------------------------------------------------------
(***************************************************************************)
(* The text.                                                               *)
(***************************************************************************)

LEMMA AppendNotEmpty ==
  ASSUME NEW S, NEW q \in Seq(S), NEW m
  PROVE  Append(q, m) # <<>>
<1>1. Len(Append(q, m)) = Len(q) + 1 /\ Len(q) \in Nat
  OBVIOUS
<1> QED BY <1>1

LEMMA StrlenIsCount ==
  ASSUME TypeOK, BufferInv
  PROVE  strlen = letterCount
<1> DEFINE P(n) == /\ n <= MaxChars => buf[n] = NUL
                   /\ \A i \in 0..(n-1) : buf[i] # NUL
<1>1. letterCount \in 0..(MaxChars + 1) /\ P(letterCount)
  BY DEF TypeOK, BufferInv
<1>2. strlen \in 0..(MaxChars + 1) /\ P(strlen)
  BY <1>1, Zenon DEF strlen
<1>3. ~(strlen < letterCount)
  BY <1>1, <1>2 DEF TypeOK
<1>4. ~(letterCount < strlen)
  BY <1>1, <1>2 DEF TypeOK
<1> QED BY <1>1, <1>2, <1>3, <1>4

\* The text in the buffer is what was typed.
LEMMA BufferHoldsTyped == TypeOK /\ BufferInv => ShowsTyped
<1> SUFFICES ASSUME TypeOK, BufferInv PROVE ShowsTyped
  OBVIOUS
<1>1. strlen = letterCount
  BY StrlenIsCount
<1>2. typed \in Seq(Letters) /\ Len(typed) = letterCount /\ letterCount \in Nat
  BY DEF TypeOK, BufferInv, Texts
<1>3. \A i \in 1..letterCount : typed[i] = buf[i-1]
  <2> TAKE i \in 1..letterCount
  <2>1. i - 1 \in 0..(letterCount - 1) /\ (i - 1) + 1 = i
    BY <1>2
  <2> QED BY <2>1 DEF BufferInv
<1>4. typed = [i \in 1..letterCount |-> typed[i]]
  BY <1>2
<1> QED BY <1>1, <1>3, <1>4 DEF ShowsTyped, String

\* A step that leaves the buffer and the typed characters alone.
LEMMA TextUnchanged ==
  ASSUME BufferInv, UNCHANGED <<buf, letterCount, typed>>
  PROVE  BufferInv' /\ strlen' = strlen /\ String' = String
BY DEF BufferInv, strlen, String

LEMMA TypeKeepsText ==
  ASSUME TypeOK, BufferInv, NEW k \in Letters, Type(k)
  PROVE  /\ BufferInv'
         /\ buf' \in [0..MaxChars -> Letters \cup {NUL}]
         /\ letterCount' \in 0..MaxChars
         /\ typed' \in Texts
<1>1. /\ letterCount \in 0..MaxChars /\ letterCount + 1 \in 0..MaxChars
      /\ letterCount' = letterCount + 1
      /\ buf' = [buf EXCEPT ![letterCount] = k, ![letterCount + 1] = NUL]
      /\ typed' = Append(typed, k)
      /\ typed \in Seq(Letters) /\ Len(typed) = letterCount
  BY DEF Type, TypeOK, BufferInv, Texts
<1>2. /\ typed' \in Seq(Letters) /\ Len(typed') = letterCount'
      /\ typed'[letterCount + 1] = k
      /\ \A i \in 1..letterCount : typed'[i] = typed[i]
  BY <1>1
<1>3. buf' \in [0..MaxChars -> Letters \cup {NUL}]
  BY <1>1 DEF TypeOK
<1>4. buf'[letterCount'] = NUL /\ buf'[letterCount] = k
  BY <1>1 DEF TypeOK
<1>5. ASSUME NEW i \in 0..(letterCount' - 1)
      PROVE  buf'[i] \in Letters /\ typed'[i+1] = buf'[i]
  <2>1. CASE i = letterCount
    BY <1>2, <1>4, <2>1
  <2>2. CASE i # letterCount
    <3>1. i \in 0..(letterCount - 1) /\ i + 1 \in 1..letterCount /\ i \in 0..MaxChars
      BY <1>1, <2>2
    <3>2. buf'[i] = buf[i]
      BY <1>1, <3>1 DEF TypeOK
    <3>3. buf[i] \in Letters /\ typed[i+1] = buf[i]
      BY <3>1 DEF BufferInv
    <3>4. typed'[i+1] = typed[i+1]
      BY <1>2, <3>1
    <3> QED BY <3>2, <3>3, <3>4
  <2> QED BY <2>1, <2>2
<1> QED BY <1>1, <1>2, <1>3, <1>4, <1>5 DEF BufferInv, Texts

LEMMA BackspaceKeepsText ==
  ASSUME TypeOK, BufferInv, NEW back \in BOOLEAN, Backspace(back)
  PROVE  /\ BufferInv'
         /\ buf' \in [0..MaxChars -> Letters \cup {NUL}]
         /\ letterCount' \in 0..MaxChars
         /\ typed' \in Texts
<1>1. CASE ~back
  BY <1>1, TextUnchanged DEF Backspace, TypeOK
<1>2. CASE back
  <2> DEFINE n == IF letterCount > 0 THEN letterCount - 1 ELSE 0
  <2>1. /\ n \in 0..letterCount /\ n \in 0..MaxChars /\ letterCount \in Nat
        /\ letterCount' = n /\ buf' = [buf EXCEPT ![n] = NUL]
        /\ typed' = SubSeq(typed, 1, n)
        /\ typed \in Seq(Letters) /\ Len(typed) = letterCount
    BY <1>2 DEF Backspace, TypeOK, BufferInv, Texts
  <2> HIDE DEF n
  <2>2. /\ typed' \in Seq(Letters) /\ Len(typed') = n
        /\ \A i \in 1..n : typed'[i] = typed[i]
    BY <2>1
  <2>3. buf' \in [0..MaxChars -> Letters \cup {NUL}] /\ buf'[n] = NUL
    BY <2>1 DEF TypeOK
  <2>4. ASSUME NEW i \in 0..(letterCount' - 1)
        PROVE  buf'[i] \in Letters /\ typed'[i+1] = buf'[i]
    <3>1. i \in 0..(letterCount - 1) /\ i + 1 \in 1..n /\ i # n /\ i \in 0..MaxChars
      BY <2>1 DEF TypeOK
    <3>2. buf'[i] = buf[i]
      BY <2>1, <3>1 DEF TypeOK
    <3>3. buf[i] \in Letters /\ typed[i+1] = buf[i]
      BY <3>1 DEF BufferInv
    <3>4. typed'[i+1] = typed[i+1]
      BY <2>2, <3>1
    <3> QED BY <3>2, <3>3, <3>4
  <2> QED BY <2>1, <2>2, <2>3, <2>4 DEF BufferInv, Texts
<1> QED BY <1>1, <1>2

-----------------------------------------------------------------------------
(***************************************************************************)
(* The track.                                                              *)
(***************************************************************************)

LEMMA ArrowsStay ==
  ASSUME NEW limit \in Nat, NEW v \in 0..limit, NEW back, NEW forth
  PROVE  Back(back, v) \in 0..limit /\ Forth(forth, v, limit) \in 0..limit
BY DEF Back, Forth

LEMMA InitInv == Init => IInv
<1> SUFFICES ASSUME Init PROVE IInv
  OBVIOUS
<1>1. 0 \in 0..MaxChars
  BY BufferAssumption
<1>7. typed = <<>> /\ typed \in Seq(Letters) /\ Len(typed) = 0
  BY SMT DEF Init
<1>8. buf \in [0..MaxChars -> Letters \cup {NUL}] /\ buf[0] = NUL
  BY <1>1, SMT DEF Init
<1>2. TypeOK
  <2>1. letterCount \in 0..MaxChars /\ typed \in Texts
    BY <1>1, <1>7, SMT DEF Init, Texts
  <2>2. told \in Int \X Int /\ x \in Int /\ y \in Int
    BY SMT DEF Init
  <2>3. phase = "update" /\ running = TRUE /\ move = FALSE /\ refused = FALSE
    BY SMT DEF Init
  <2>4. mouseOnText = FALSE /\ text = FALSE /\ lost = FALSE /\ onBoth = FALSE
    BY SMT DEF Init
  <2> QED BY <1>8, <2>1, <2>2, <2>3, <2>4, Zenon DEF TypeOK
<1>3. InTrack
  BY SMT DEF Init, InTrack, screenWidth, windowYBoundary, screenHeight, menuPanelHeight,
         chatPanelHeight
<1>4. BufferInv
  BY <1>1, <1>7, <1>8, SMT DEF Init, BufferInv
<1>5. ColorInv
  <2>1. colorEnumToHexValue[1] = carColor /\ 1 \in Selections
    BY SMT DEF Init, colorEnumToHexValue, Selections
  <2> QED BY <2>1, SMT DEF ColorInv, Init
<1>6. ToldInv /\ LineInv /\ SaidInv
  BY SMT DEF Init, ToldInv, LineInv, LinesAreSent, SaidInv
<1> QED BY <1>2, <1>3, <1>4, <1>5, <1>6 DEF IInv

-----------------------------------------------------------------------------
(***************************************************************************)
(* Each action keeps the invariant.                                        *)
(***************************************************************************)

LEMMA UpdateInv == IInv /\ Update => IInv'
<1> SUFFICES ASSUME IInv, Update PROVE IInv'
  OBVIOUS
<1>1. TypeOK /\ InTrack /\ ToldInv /\ ColorInv /\ BufferInv /\ LineInv /\ SaidInv
  BY DEF IInv
<1>2. UNCHANGED <<running, x, y, told, refused, carColor, currColor, mouseOnText, buf,
                  letterCount, text, typed>> /\ phase = "update" /\ phase' = "keys"
  BY DEF Update, color
<1>3. /\ move' \in {move, TRUE} /\ line' = <<>> /\ said' = <<>>
      /\ lost' = FALSE /\ onBoth' = FALSE
  BY DEF Update
<1>4. TypeOK'
  BY <1>1, <1>2, <1>3, Zenon DEF TypeOK
<1>5. InTrack' /\ ColorInv'
  BY <1>1, <1>2, SMT DEF InTrack, ColorInv
<1>6. BufferInv'
  BY <1>1, <1>2, TextUnchanged
<1>7. ToldInv'
  BY <1>1, <1>2 DEF ToldInv
<1>8. LineInv'
  BY <1>1, <1>2, <1>3 DEF LineInv, LinesAreSent
<1>9. SaidInv'
  BY <1>1, <1>2, <1>3 DEF SaidInv
<1> QED BY <1>4, <1>5, <1>6, <1>7, <1>8, <1>9 DEF IInv

LEMMA KeysInv == \A K \in SUBSET Arrows : IInv /\ Keys(K) => IInv'
<1> SUFFICES ASSUME NEW K \in SUBSET Arrows, IInv, Keys(K) PROVE IInv'
  OBVIOUS
<1>1. TypeOK /\ InTrack /\ ToldInv /\ ColorInv /\ BufferInv /\ LineInv /\ SaidInv
  BY DEF IInv
<1> DEFINE up    == Back("up" \in K, y)
           down  == Forth("down" \in K, up, windowYBoundary - CarHeight)
           left  == Back("left" \in K, x)
           right == Forth("right" \in K, left, screenWidth - CarWidth)
<1>2. /\ UNCHANGED <<running, told, refused, carColor, currColor, mouseOnText, buf,
                     letterCount, text, line, said, lost, onBoth, typed>>
      /\ phase = "keys" /\ phase' = "mouse"
  BY DEF Keys, color, chat
<1>3. /\ y' = down /\ x' = right
      /\ move' = (move \/ up # y \/ down # up \/ left # x \/ right # left)
  BY DEF Keys
<1>4. screenWidth - CarWidth \in Nat /\ windowYBoundary - CarHeight \in Nat
  BY DEF screenWidth, windowYBoundary, screenHeight, menuPanelHeight, chatPanelHeight
<1>5. up \in 0..(windowYBoundary - CarHeight) /\ left \in 0..(screenWidth - CarWidth)
  <2>1. y \in 0..(windowYBoundary - CarHeight) /\ x \in 0..(screenWidth - CarWidth)
    BY <1>1 DEF InTrack
  <2>2. up \in 0..(windowYBoundary - CarHeight)
    BY <1>4, <2>1, ArrowsStay, Zenon
  <2>3. left \in 0..(screenWidth - CarWidth)
    BY <1>4, <2>1, ArrowsStay, Zenon
  <2> QED BY <2>2, <2>3
<1>6. down \in 0..(windowYBoundary - CarHeight) /\ right \in 0..(screenWidth - CarWidth)
  <2> HIDE DEF up, left
  <2>1. down \in 0..(windowYBoundary - CarHeight)
    BY <1>4, <1>5, ArrowsStay, Zenon
  <2>2. right \in 0..(screenWidth - CarWidth)
    BY <1>4, <1>5, ArrowsStay, Zenon
  <2> QED BY <2>1, <2>2
<1> HIDE DEF up, down, left, right
<1>7. InTrack'
  BY <1>3, <1>6, Zenon DEF InTrack
<1>8. x' \in Int /\ y' \in Int /\ move' \in BOOLEAN
  <2>1. x' \in Int /\ y' \in Int
    BY <1>3, <1>4, <1>6
  <2>2. move' \in BOOLEAN
    BY <1>3, Zenon
  <2> QED BY <2>1, <2>2
<1>9. TypeOK'
  BY <1>1, <1>2, <1>8, Zenon DEF TypeOK
<1>10. ToldInv'
  <2>1. CASE told = <<x, y>> \/ refused
    <3>1. CASE x' = x /\ y' = y
      BY <1>2, <2>1, <3>1 DEF ToldInv
    <3>2. CASE x' # x \/ y' # y
      <4>1. move'
        BY <1>3, <3>2, Zenon
      <4> QED BY <4>1, <1>2 DEF ToldInv
    <3> QED BY <3>1, <3>2
  <2>2. CASE ~(told = <<x, y>> \/ refused)
    BY <1>1, <1>2, <2>2 DEF ToldInv
  <2> QED BY <2>1, <2>2
<1>11. ColorInv'
  BY <1>1, <1>2, SMT DEF ColorInv
<1>12. BufferInv'
  BY <1>1, <1>2, TextUnchanged
<1>13. LineInv'
  BY <1>1, <1>2 DEF LineInv, LinesAreSent
<1>14. SaidInv'
  BY <1>1, <1>2 DEF SaidInv
<1> QED BY <1>7, <1>9, <1>10, <1>11, <1>12, <1>13, <1>14 DEF IInv

LEMMA ClickInv == \A p \in Points : IInv /\ Click(p) => IInv'
<1> SUFFICES ASSUME NEW p \in Points, IInv, Click(p) PROVE IInv'
  OBVIOUS
<1>1. TypeOK /\ InTrack /\ ToldInv /\ ColorInv /\ BufferInv /\ LineInv /\ SaidInv
  BY DEF IInv
<1>2. /\ UNCHANGED <<x, y, move, told, refused, buf, letterCount, said, lost, typed>>
      /\ phase = "mouse" /\ phase' = "send"
      /\ running' = (running /\ ~windowIsMouseInEscape(p))
      /\ onBoth' = (/\ windowIsMouseCollidesChatBox(p)
                    /\ windowIsMouseCollidesChatSendButton(p))
      /\ mouseOnText' = windowIsMouseCollidesChatBox(p)
  BY DEF Click, car
<1>3. IF windowIsMouseCollidesChatSendButton(p)
      THEN text' = TRUE /\ line' = Append(line, Line(String, carColor'.hexString))
      ELSE UNCHANGED <<text, line>>
  BY DEF Click
<1>4. ColorInv'
  <2> DEFINE n == windowIsMouseInColorSelection(p)
  <2>1. PickColor(n)
    BY DEF Click
  <2>2. CASE n = NOCOLOR
    BY <1>1, <2>1, <2>2, SMT DEF PickColor, color, ColorInv
  <2>3. CASE n \in Selections
    <3>1. /\ carColor' = setCarColor(colorEnumToHexValue[n].hexValue)
          /\ currColor' = colorEnumToHexValue[n].hexString
      BY <2>1, <2>3, SMT DEF PickColor, NOCOLOR, Selections
    <3>2. carColor' = colorEnumToHexValue[n]
      BY <3>1, <2>3, TablesAgree
    <3> HIDE DEF n
    <3> QED BY <2>3, <3>1, <3>2 DEF ColorInv
  <2> QED BY <2>2, <2>3, SelectionType
<1>5. TypeOK'
  <2>1. /\ windowIsMouseInEscape(p) \in BOOLEAN
        /\ windowIsMouseCollidesChatBox(p) \in BOOLEAN
    BY DEF windowIsMouseInEscape, windowIsMouseCollidesChatBox, In
  <2>2. running' \in BOOLEAN /\ mouseOnText' \in BOOLEAN /\ onBoth' \in BOOLEAN
    BY <1>2, <2>1, Zenon
  <2>3. text' \in BOOLEAN
    BY <1>1, <1>3, Zenon DEF TypeOK
  <2> QED BY <1>1, <1>2, <2>2, <2>3, Zenon DEF TypeOK
<1>6. InTrack'
  BY <1>1, <1>2, SMT DEF InTrack
<1>7. ToldInv'
  BY <1>1, <1>2 DEF ToldInv
<1>8. BufferInv'
  BY <1>1, <1>2, TextUnchanged
<1>9. LineInv'
  <2>1. line = <<>> /\ ~text
    BY <1>1, <1>2 DEF LineInv
  <2>2. String = typed
    BY <1>1, BufferHoldsTyped DEF ShowsTyped
  <2>3. carColor'.hexString = currColor'
    BY <1>4, SMT DEF ColorInv
  <2>4. CASE windowIsMouseCollidesChatSendButton(p)
    <3>1. text' /\ line' = <<Line(typed', currColor')>>
      BY <1>2, <1>3, <2>1, <2>2, <2>3, <2>4
    <3>2. mouseOnText' => onBoth'
      BY <1>2, <2>4, Zenon
    <3> QED BY <1>2, <3>1, <3>2 DEF LineInv, LinesAreSent
  <2>5. CASE ~windowIsMouseCollidesChatSendButton(p)
    <3>1. ~onBoth'
      BY <1>2, <2>5, Zenon
    <3> QED BY <1>2, <1>3, <2>1, <2>5, <3>1 DEF LineInv, LinesAreSent
  <2> QED BY <2>4, <2>5
<1>10. SaidInv'
  BY <1>1, <1>2 DEF SaidInv
<1> QED BY <1>4, <1>5, <1>6, <1>7, <1>8, <1>9, <1>10 DEF IInv

LEMMA NoClickInv == IInv /\ NoClick => IInv'
<1> SUFFICES ASSUME IInv, NoClick PROVE IInv'
  OBVIOUS
<1>1. TypeOK /\ InTrack /\ ToldInv /\ ColorInv /\ BufferInv /\ LineInv /\ SaidInv
  BY DEF IInv
<1>2. /\ UNCHANGED <<running, x, y, move, told, refused, carColor, currColor,
                     mouseOnText, buf, letterCount, text, line, said, lost, onBoth, typed>>
      /\ phase = "mouse" /\ phase' = "send"
  BY DEF NoClick, car, color, chat
<1>3. TypeOK'
  BY <1>1, <1>2, Zenon DEF TypeOK
<1>4. InTrack' /\ ColorInv'
  BY <1>1, <1>2, SMT DEF InTrack, ColorInv
<1>5. BufferInv'
  BY <1>1, <1>2, TextUnchanged
<1>6. ToldInv' /\ SaidInv'
  BY <1>1, <1>2 DEF ToldInv, SaidInv
<1>7. LineInv'
  BY <1>1, <1>2 DEF LineInv, LinesAreSent
<1> QED BY <1>3, <1>4, <1>5, <1>6, <1>7 DEF IInv

LEMMA SendPositionInv == IInv /\ SendPosition => IInv'
<1> SUFFICES ASSUME IInv, SendPosition PROVE IInv'
  OBVIOUS
<1>1. TypeOK /\ InTrack /\ ToldInv /\ ColorInv /\ BufferInv /\ LineInv /\ SaidInv
  BY DEF IInv
<1>2. /\ UNCHANGED <<running, x, y, carColor, currColor, mouseOnText, buf,
                     letterCount, text, line, said, lost, onBoth, typed>>
      /\ phase = "send" /\ move' = FALSE
      /\ phase' = IF mouseOnText THEN "type" ELSE "text"
  BY DEF SendPosition, color, chat
<1>3. IF move THEN \/ told' = <<x, y>> /\ refused' = FALSE
                   \/ refused' = TRUE /\ UNCHANGED told
              ELSE UNCHANGED <<told, refused>>
  BY DEF SendPosition
<1>4. TypeOK'
  <2>1. phase' \in {"type", "text"}
    BY <1>2
  <2>2. <<x, y>> \in Int \X Int
    BY <1>1, Zenon DEF TypeOK
  <2>3. told' \in Int \X Int
    BY <1>1, <1>3, <2>2, Zenon DEF TypeOK
  <2>4. refused' \in BOOLEAN
    BY <1>1, <1>3, Zenon DEF TypeOK
  <2> QED BY <1>1, <1>2, <2>1, <2>3, <2>4, Zenon DEF TypeOK
<1>5. InTrack' /\ ColorInv'
  BY <1>1, <1>2, SMT DEF InTrack, ColorInv
<1>6. BufferInv'
  BY <1>1, <1>2, TextUnchanged
<1>7. ToldInv'
  BY <1>1, <1>2, <1>3 DEF ToldInv
<1>8. LineInv'
  <2>1. CASE mouseOnText
    BY <1>1, <1>2, <2>1 DEF LineInv, LinesAreSent
  <2>2. CASE ~mouseOnText
    BY <1>1, <1>2, <2>2 DEF LineInv, LinesAreSent
  <2> QED BY <2>1, <2>2
<1>9. SaidInv'
  BY <1>1, <1>2 DEF SaidInv
<1> QED BY <1>4, <1>5, <1>6, <1>7, <1>8, <1>9 DEF IInv

LEMMA TypeInv == \A k \in Letters : IInv /\ Type(k) => IInv'
<1> SUFFICES ASSUME NEW k \in Letters, IInv, Type(k) PROVE IInv'
  OBVIOUS
<1>1. TypeOK /\ InTrack /\ ToldInv /\ ColorInv /\ BufferInv /\ LineInv /\ SaidInv
  BY DEF IInv
<1>2. /\ UNCHANGED <<running, phase, x, y, move, told, refused, carColor, currColor,
                     mouseOnText, text, line, said, lost, onBoth>>
      /\ phase = "type"
  BY DEF Type, car, color
<1>3. /\ BufferInv' /\ buf' \in [0..MaxChars -> Letters \cup {NUL}]
      /\ letterCount' \in 0..MaxChars /\ typed' \in Texts
  BY <1>1, TypeKeepsText
<1>4. TypeOK'
  BY <1>1, <1>2, <1>3, Zenon DEF TypeOK
<1>5. InTrack' /\ ColorInv'
  BY <1>1, <1>2, SMT DEF InTrack, ColorInv
<1>6. ToldInv'
  BY <1>1, <1>2 DEF ToldInv
<1>7. LineInv'
  <2>1. /\ (text <=> line # <<>>) /\ (onBoth => line # <<>>)
        /\ onBoth \/ line = <<>>
        /\ line = <<>> \/ line = <<line[1]>>
    BY <1>1, <1>2 DEF LineInv
  <2> QED BY <1>2, <2>1 DEF LineInv, LinesAreSent
<1>8. SaidInv'
  BY <1>1, <1>2 DEF SaidInv
<1> QED BY <1>3, <1>4, <1>5, <1>6, <1>7, <1>8 DEF IInv

LEMMA EndTypingInv == \A back, enter \in BOOLEAN : IInv /\ EndTyping(back, enter) => IInv'
<1> SUFFICES ASSUME NEW back \in BOOLEAN, NEW enter \in BOOLEAN,
                    IInv, EndTyping(back, enter)
             PROVE  IInv'
  OBVIOUS
<1>1. TypeOK /\ InTrack /\ ToldInv /\ ColorInv /\ BufferInv /\ LineInv /\ SaidInv
  BY DEF IInv
<1>2. /\ UNCHANGED <<running, x, y, move, told, refused, carColor, currColor,
                     mouseOnText, said, lost, onBoth>>
      /\ phase = "type" /\ phase' = "text"
  BY DEF EndTyping, car, color
<1>3. IF enter THEN text' = TRUE /\ line' = Append(line, Line(String', carColor.hexString))
               ELSE UNCHANGED <<text, line>>
  BY DEF EndTyping
<1>4. /\ BufferInv' /\ buf' \in [0..MaxChars -> Letters \cup {NUL}]
      /\ letterCount' \in 0..MaxChars /\ typed' \in Texts
  BY <1>1, BackspaceKeepsText DEF EndTyping
<1>5. TypeOK'
  <2>1. text' \in BOOLEAN
    BY <1>1, <1>3, Zenon DEF TypeOK
  <2> QED BY <1>1, <1>2, <1>4, <2>1, Zenon DEF TypeOK
<1>6. InTrack' /\ ColorInv'
  BY <1>1, <1>2, SMT DEF InTrack, ColorInv
<1>7. ToldInv'
  BY <1>1, <1>2 DEF ToldInv
<1>8. LineInv'
  <2>1. (text <=> line # <<>>) /\ (onBoth => line # <<>>) /\ (onBoth \/ line = <<>>)
    BY <1>1, <1>2 DEF LineInv
  <2>2. String' = typed'
    <3>1. (TypeOK /\ BufferInv => ShowsTyped)'
      BY BufferHoldsTyped, PTL
    <3> QED BY <1>4, <1>5, <3>1 DEF ShowsTyped
  <2>3. carColor.hexString = currColor'
    BY <1>1, <1>2, SMT DEF ColorInv
  <2>4. ~enter => line' = line /\ text' = text
    BY <1>3
  <2>5. enter => text' /\ line' = Append(line, Line(typed', currColor'))
    BY <1>3, <2>2, <2>3
  <2>6. Append(line, Line(typed', currColor')) # <<>>
    <3>1. line = <<>> \/ line = <<line[1]>>
      BY <1>1, <1>2 DEF LineInv
    <3> DEFINE t == line[1]
    <3>2. <<>> \in Seq({t}) /\ <<t>> \in Seq({t})
      OBVIOUS
    <3>3. line \in Seq({t})
      BY <3>1, <3>2, Zenon
    <3> HIDE DEF t
    <3> QED BY <3>3, AppendNotEmpty, Zenon
  <2>7. ~onBoth => line' \in {<<>>, <<Line(typed', currColor')>>}
    <3> DEFINE L == Line(typed', currColor')
    <3>1. Append(<<>>, L) = <<L>>
      OBVIOUS
    <3> HIDE DEF L
    <3>2. CASE enter
      BY <2>1, <2>5, <3>1, <3>2, Zenon DEF L
    <3>3. CASE ~enter
      BY <2>1, <2>4, <3>3, Zenon
    <3> QED BY <3>2, <3>3, Zenon DEF L
  <2> QED BY <1>2, <2>1, <2>4, <2>5, <2>6, <2>7 DEF LineInv, LinesAreSent
<1>9. SaidInv'
  BY <1>1, <1>2 DEF SaidInv
<1> QED BY <1>4, <1>5, <1>6, <1>7, <1>8, <1>9 DEF IInv

LEMMA SendTextInv == IInv /\ SendText => IInv'
<1> SUFFICES ASSUME IInv, SendText PROVE IInv'
  OBVIOUS
<1>1. TypeOK /\ InTrack /\ ToldInv /\ ColorInv /\ BufferInv /\ LineInv /\ SaidInv
  BY DEF IInv
<1>2. /\ UNCHANGED <<running, x, y, move, told, refused, carColor, currColor,
                     mouseOnText, buf, letterCount, line, onBoth, typed>>
      /\ phase = "text" /\ phase' = "draw" /\ text' = FALSE
      /\ IF text THEN \/ said' = <<Line(String, currColor)>> /\ lost' = FALSE
                      \/ said' = <<>> /\ lost' = TRUE
                 ELSE UNCHANGED <<said, lost>>
  BY DEF SendText, car, color
<1>3. String = typed
  BY <1>1, BufferHoldsTyped DEF ShowsTyped
<1>4. TypeOK'
  BY <1>1, <1>2, Zenon DEF TypeOK
<1>5. InTrack' /\ ColorInv'
  BY <1>1, <1>2, SMT DEF InTrack, ColorInv
<1>6. BufferInv'
  BY <1>1, <1>2, TextUnchanged
<1>7. ToldInv'
  BY <1>1, <1>2 DEF ToldInv
<1>8. LineInv'
  <2>1. /\ text <=> line # <<>>
        /\ ~onBoth => line \in {<<>>, <<Line(typed, currColor)>>}
    BY <1>1, <1>2 DEF LineInv
  <2>2. said = <<>>
    BY <1>1, <1>2 DEF SaidInv
  <2>3. LinesAreSent'
    BY <1>2, <1>3, <2>1, <2>2 DEF LinesAreSent
  <2> QED BY <1>2, <2>3 DEF LineInv
<1>9. SaidInv'
  BY <1>1, <1>2, <1>3 DEF SaidInv
<1> QED BY <1>4, <1>5, <1>6, <1>7, <1>8, <1>9 DEF IInv

LEMMA DrawInv == IInv /\ Draw => IInv'
<1> SUFFICES ASSUME IInv, Draw PROVE IInv'
  OBVIOUS
<1>1. TypeOK /\ InTrack /\ ToldInv /\ ColorInv /\ BufferInv /\ LineInv /\ SaidInv
  BY DEF IInv
<1>2. /\ UNCHANGED <<running, x, y, move, told, refused, carColor, currColor,
                     mouseOnText, buf, letterCount, text, line, said, lost, onBoth, typed>>
      /\ phase = "draw" /\ phase' = "update"
  BY DEF Draw, car, color, chat
<1>3. TypeOK'
  BY <1>1, <1>2, Zenon DEF TypeOK
<1>4. InTrack' /\ ColorInv'
  BY <1>1, <1>2, SMT DEF InTrack, ColorInv
<1>5. BufferInv'
  BY <1>1, <1>2, TextUnchanged
<1>6. ToldInv' /\ SaidInv'
  BY <1>1, <1>2 DEF ToldInv, SaidInv
<1>7. LineInv'
  BY <1>1, <1>2 DEF LineInv, LinesAreSent
<1> QED BY <1>3, <1>4, <1>5, <1>6, <1>7 DEF IInv

LEMMA StutterInv == IInv /\ UNCHANGED vars => IInv'
<1> SUFFICES ASSUME IInv, UNCHANGED vars PROVE IInv'
  OBVIOUS
<1>1. TypeOK /\ InTrack /\ ToldInv /\ ColorInv /\ BufferInv /\ LineInv /\ SaidInv
  BY DEF IInv
<1>2. UNCHANGED <<phase, running, x, y, move, told, refused, carColor, currColor,
                  mouseOnText, buf, letterCount, text, line, said, lost, onBoth, typed>>
  BY DEF vars, car, color, chat
<1>3. TypeOK'
  BY <1>1, <1>2, Zenon DEF TypeOK
<1>4. InTrack' /\ ColorInv'
  BY <1>1, <1>2, SMT DEF InTrack, ColorInv
<1>5. BufferInv'
  BY <1>1, <1>2, TextUnchanged
<1>6. ToldInv' /\ SaidInv'
  BY <1>1, <1>2 DEF ToldInv, SaidInv
<1>7. LineInv'
  BY <1>1, <1>2 DEF LineInv, LinesAreSent
<1> QED BY <1>3, <1>4, <1>5, <1>6, <1>7 DEF IInv

-----------------------------------------------------------------------------
(***************************************************************************)
(* Theorems.                                                               *)
(***************************************************************************)

\* The invariant holds in every reachable state.
THEOREM Invariance == Spec => []IInv
<1>1. IInv /\ [Next]_vars => IInv'
  BY UpdateInv, KeysInv, ClickInv, NoClickInv, SendPositionInv, TypeInv,
     EndTypingInv, SendTextInv, DrawInv, StutterInv DEF Next
<1> QED BY <1>1, InitInv, PTL DEF Spec

\* No combination of keys moves the car off its track.
THEOREM CarStaysInTrack == Spec => []InTrack
<1>1. IInv => InTrack
  BY DEF IInv
<1> QED BY <1>1, Invariance, PTL

\* A frame that moves the car tells its position, or the session refused it.
THEOREM MovesAreTold == Spec => []PositionTold
<1>1. IInv => PositionTold
  BY DEF IInv, ToldInv, PositionTold
<1> QED BY <1>1, Invariance, PTL

\* The peers draw the car in the color its player sees.
THEOREM SameColor == Spec => []PeersSeeMyColor
<1>1. IInv => PeersSeeMyColor
  <2> SUFFICES ASSUME IInv PROVE PeersSeeMyColor
    OBVIOUS
  <2>1. PICK n \in Selections : carColor = colorEnumToHexValue[n]
    BY DEF IInv, ColorInv
  <2>2. carColor.hexString = currColor
    BY SMT DEF IInv, ColorInv
  <2> QED BY <2>1, <2>2, TablesAgree DEF PeersSeeMyColor
<1> QED BY <1>1, Invariance, PTL

\* The buffer holds what was typed and not erased.
THEOREM TextIsTyped == Spec => []ShowsTyped
<1>1. IInv => ShowsTyped
  BY BufferHoldsTyped DEF IInv
<1> QED BY <1>1, Invariance, PTL

\* A shown line is sent as it is shown, apart from the two cases that the property
\* names.
THEOREM LinesSent == Spec => []LinesAreSent
<1>1. IInv => LinesAreSent
  BY DEF IInv, LineInv
<1> QED BY <1>1, Invariance, PTL

\* Every text that is sent fits into the array it is packed in.
THEOREM TextsFit == Spec => []FramesFit
<1>1. IInv => FramesFit
  <2> SUFFICES ASSUME IInv, NEW i \in 1..Len(said)
               PROVE  TextFrame(Len(said[i].text)) + 1 <= RawJsonSize
    BY DEF FramesFit
  <2>1. said = <<Line(typed, currColor)>>
    BY DEF IInv, SaidInv
  <2>2. said[i].text = typed
    BY <2>1 DEF Line
  <2>3. Len(typed) \in 0..MaxChars
    BY DEF IInv, BufferInv, TypeOK
  <2> QED BY <2>2, <2>3 DEF TextFrame
<1> QED BY <1>1, Invariance, PTL

\* A click on a square picks the color that is drawn there, and one elsewhere none,
\* apart from the far edges.
THEOREM ClicksPickTheirColor == Spec => PickedIsDrawn
<1>1. ASSUME NEW p \in Points, NEW n \in Selections, Click(p), p \in Square(n)
      PROVE  carColor'.hexValue = colorEnumToHexValue[n].hexValue
  <2>1. windowIsMouseInColorSelection(p) = n /\ n # NOCOLOR
    BY <1>1, SquareIsSelected DEF Selections, NOCOLOR
  <2>2. carColor' = setCarColor(colorEnumToHexValue[n].hexValue)
    BY <1>1, <2>1, SMT DEF Click, PickColor
  <2> QED BY <2>2, SMT DEF setCarColor
<1>2. ASSUME NEW p \in Points, Click(p), \A n \in Selections : p \notin Square(n)
      PROVE  carColor' = carColor \/ FarEdge(p)
  <2>1. ~FarEdge(p) => windowIsMouseInColorSelection(p) = NOCOLOR
    BY <1>2, ElsewhereNothing
  <2> QED BY <1>2, <2>1, SMT DEF Click, PickColor, color
<1>3. \A p \in Points : Click(p) =>
        /\ \A n \in Selections :
             p \in Square(n) =>
               carColor'.hexValue = colorEnumToHexValue[n].hexValue
        /\ (\A n \in Selections : p \notin Square(n)) =>
             carColor' = carColor \/ FarEdge(p)
  BY <1>1, <1>2, Zenon
<1> QED BY <1>3, PTL DEF PickedIsDrawn, Spec
=============================================================================
