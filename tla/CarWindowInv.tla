---------------------------- MODULE CarWindowInv ----------------------------
(***************************************************************************)
(* Properties of CarWindow, and its inductive invariant.                   *)
(***************************************************************************)
EXTENDS CarWindow

Texts == Seq(Letters)

TypeOK ==
  /\ phase \in {"update", "keys", "mouse", "send", "type", "text", "draw"}
  /\ running \in BOOLEAN /\ move \in BOOLEAN /\ refused \in BOOLEAN
  /\ x \in Int /\ y \in Int /\ told \in Int \X Int
  /\ mouseOnText \in BOOLEAN /\ text \in BOOLEAN
  /\ lost \in BOOLEAN /\ onBoth \in BOOLEAN
  /\ buf \in [0..MaxChars -> Letters \cup {NUL}]
  /\ letterCount \in 0..MaxChars
  /\ typed \in Texts

\* The car never leaves the track, whatever keys are held together.
InTrack == /\ x \in 0 .. screenWidth - CarWidth
           /\ y \in 0 .. windowYBoundary - CarHeight

\* Once a frame is past its input, the last position that was told is the car's,
\* unless the session refused it: no way to move it forgets to tell.
PositionTold ==
  phase \in {"type", "text", "draw", "update"} => told = <<x, y>> \/ refused

\* The color that the peers make of the session's color is the one that the player
\* sees, although they come from three tables.
PeersSeeMyColor == colorStringToHexValue(currColor) = carColor.hexValue

\* Whatever was typed and erased, the C string in the buffer is what is left of it.
ShowsTyped == String = typed

\* A frame that shows no line of the player's sends none. What it shows as a new
\* line is what it sends ("append locally first the broadcast"), in that color,
\* unless the session drops it; a click in the column that the box and the button
\* share shows the text, lets the player edit it, and sends what it is then.
LinesAreSent ==
  phase = "draw" =>
    \/ said = line
    \/ line # <<>> /\ lost /\ said = <<>>
    \/ line # <<>> /\ onBoth /\ said = <<Line(typed, currColor)>>

\* A text always fits into the array in which sprintf packs it.
FramesFit == \A i \in 1..Len(said) : TextFrame(Len(said[i].text)) + 1 <= RawJsonSize

\* A click on one of the drawn squares gives the car the color of that square; one
\* that is on no square changes nothing, except on the far edges of the color box.
PickedIsDrawn ==
  [][\A p \in Points : Click(p) =>
       /\ \A n \in Selections :
            p \in Square(n) =>
              carColor'.hexValue = colorEnumToHexValue[n].hexValue
       /\ (\A n \in Selections : p \notin Square(n)) =>
            carColor' = carColor \/ FarEdge(p)]_vars

-----------------------------------------------------------------------------
ToldInv == told = <<x, y>> \/ refused \/ (move /\ phase \in {"mouse", "send"})

ColorInv == /\ \E n \in Selections : carColor = colorEnumToHexValue[n]
            /\ carColor.hexString = currColor

BufferInv ==
  /\ buf[letterCount] = NUL
  /\ Len(typed) = letterCount
  /\ \A i \in 0..(letterCount-1) : buf[i] \in Letters /\ typed[i+1] = buf[i]

\* A frame has at most one own line, with the text that is about to be sent,
\* unless its click hit both the box and the button.
LineInv ==
  /\ phase \in {"keys", "mouse"} => line = <<>> /\ ~text /\ ~onBoth
  /\ phase \in {"send", "type", "text"} =>
       /\ text <=> line # <<>>
       /\ onBoth => line # <<>>
       /\ ~onBoth => line \in {<<>>, <<Line(typed, currColor)>>}
       /\ phase # "text" => line = <<>> \/ line = <<line[1]>>
       /\ (phase = "type" \/ (phase = "send" /\ mouseOnText)) => onBoth \/ line = <<>>
  /\ phase \in {"draw", "update"} => ~text
  /\ LinesAreSent

SaidInv == /\ phase \in {"keys", "mouse", "send", "type", "text"} => said = <<>>
           /\ said = <<>> \/ said = <<Line(typed, currColor)>>
           /\ phase = "type" => mouseOnText

IInv ==
  /\ TypeOK /\ InTrack /\ ToldInv /\ ColorInv /\ BufferInv /\ LineInv /\ SaidInv
=============================================================================
