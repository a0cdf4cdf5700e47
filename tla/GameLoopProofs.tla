--------------------------- MODULE GameLoopProofs ---------------------------
(***************************************************************************)
(* Proofs about GameLoop, for any players, news, bounds and text lines.    *)
(***************************************************************************)
EXTENDS GameLoopInv, TLAPS

USE NewsAssumption, LinesAssumption

Item == News \cup {Wake}

-----------------------------------------------------------------------------
\* The two ends of a queue.
LEMMA AppendFacts ==
  ASSUME NEW q \in Seq(Item), NEW m \in Item
  PROVE  /\ Append(q, m) \in Seq(Item) /\ Append(q, m) # <<>>
         /\ Len(q) \in Nat /\ Len(Append(q, m)) = Len(q) + 1
         /\ \A i \in 1..Len(q) : Append(q, m)[i] = q[i]
         /\ Append(q, m)[Len(q) + 1] = m
BY SMTT(20)

LEMMA TailFacts ==
  ASSUME NEW q \in Seq(Item), q # <<>>
  PROVE  /\ Tail(q) \in Seq(Item)
         /\ Len(q) \in Nat /\ Len(q) > 0
         /\ Len(Tail(q)) = Len(q) - 1
         /\ \A i \in 1..Len(Tail(q)) : Tail(q)[i] = q[i + 1]
         /\ Head(q) = q[1] /\ Head(q) \in Item
OBVIOUS

\* A queue of News stays one.
LEMMA NewsQueue ==
  ASSUME NEW q \in Seq(News)
  PROVE  /\ q \in Seq(Item)
         /\ \A m \in News : Append(q, m) \in Seq(News)
         /\ q # <<>> => Head(q) \in News /\ Tail(q) \in Seq(News)
BY DEF Item

LEMMA MsgFacts ==
  /\ \A m \in Item : /\ m.kind \in AllNewsKinds \cup {"empty"}
                     /\ m.kind # "empty" <=> m \in News
                     /\ m \in News => /\ m.who \in Players
                                      /\ m.n \in Nat /\ m.color \in Nat
  /\ \A k \in AllNewsKinds, a \in Players, n, c \in Nat :
       /\ Msg(k, a, n, c) \in News
       /\ Msg(k, a, n, c).kind = k /\ Msg(k, a, n, c).who = a
       /\ Msg(k, a, n, c).n = n /\ Msg(k, a, n, c).color = c
  /\ Wake \in Item /\ Wake.kind = "empty"
BY DEF Item, News, Msg, Wake, AllNewsKinds

\* The text in front pushes the last one out.
LEMMA ScrollType ==
  ASSUME NEW S, texts \in Seq(S), Len(texts) = Lines, NEW t \in S
  PROVE  Scroll(t) \in Seq(S) /\ Len(Scroll(t)) = Lines
<1>1. SubSeq(texts, 1, Lines - 1) \in Seq(S)
  OBVIOUS
<1>2. Len(SubSeq(texts, 1, Lines - 1)) = Lines - 1
  OBVIOUS
<1>3. <<t>> \in Seq(S) /\ Len(<<t>>) = 1
  OBVIOUS
<1> QED BY <1>1, <1>2, <1>3 DEF Scroll

Car == [here : BOOLEAN, n : Nat, color : Nat]
Got == [gone : BOOLEAN, n : Nat, color : Nat, tint : Nat, all : Nat]

\* Changing one entry of a table.
LEMMA ExceptType ==
  ASSUME NEW S, NEW R, NEW f \in [S -> R], NEW a \in S, NEW r \in R
  PROVE  [f EXCEPT ![a] = r] \in [S -> R]
OBVIOUS

LEMMA InitType == Init => TypeOK
<1> SUFFICES ASSUME Init PROVE TypeOK
  OBVIOUS
<1>1. /\ <<>> \in Seq(News \cup {Wake}) /\ <<>> \in Seq(News)
      /\ <<>> \in Seq(News \cup [kind : {"own"}])
  OBVIOUS
<1> QED BY <1>1 DEF Init, TypeOK

LEMMA MainType ==
  ASSUME TypeOK,
         \/ PostRequestPassword \/ WebsocketConn \/ StartThreads \/ TestLoop
         \/ DrawCars \/ CloseSession \/ JoinThreads
         \/ SetHandleBatch
  PROVE  TypeOK'
<1>1. CASE StartThreads
  <2>1. Own \in [kind : {"own"}]
    BY DEF Own
  <2>2. texts' \in Seq(News \cup [kind : {"own"}])
    BY <1>1, <2>1 DEF StartThreads
  <2> QED BY <1>1, <2>2 DEF StartThreads, TypeOK, Frame, queues, screen, history
<1>2. CASE PostRequestPassword \/ WebsocketConn
  BY <1>2 DEF PostRequestPassword, WebsocketConn, TypeOK, queues, screen, history
<1>3. CASE TestLoop
  BY <1>3 DEF TestLoop, TypeOK, Frame, queues, screen, history
<1>4. CASE DrawCars
  BY <1>4 DEF DrawCars, TypeOK, Frame, queues, history
<1>5. CASE CloseSession \/ JoinThreads
  BY <1>5 DEF CloseSession, JoinThreads, TypeOK, queues, screen, history
<1>6. CASE SetHandleBatch
  BY <1>6 DEF SetHandleBatch, TypeOK, queues, screen, history
<1> QED BY <1>1, <1>2, <1>3, <1>4, <1>5, <1>6

\* What is known of a player after one more message.
NewGot(g, k, n, c) ==
  [gone |-> k = "exit" \/ (g.gone /\ k # "pos"), n |-> n,
   color |-> IF k = "pos" /\ c # 0 THEN c ELSE g.color,
   tint |-> IF k = "color" THEN c ELSE g.tint, all |-> g.all + 1]

LEMMA OnMessageStep ==
  ASSUME TypeOK, NEW a \in Players, NEW k \in AllNewsKinds,
         NEW c \in Colors[a] \cup {0}, OnMessage(a, k, c)
  PROVE  /\ c \in Nat
         /\ \E n \in Nat :
              /\ n = IF k = "pos" THEN got[a].n + 1 ELSE got[a].n
              /\ wsQ' = Append(wsQ, Msg(k, a, n, c))
              /\ heard' = heard \cup {Msg(k, a, n, c)}
              /\ got' = [got EXCEPT ![a] = NewGot(got[a], k, n, c)]
<1>1. c \in Nat
  OBVIOUS
<1> DEFINE n == IF k = "pos" THEN got[a].n + 1 ELSE got[a].n
           m == Msg(k, a, n, c)
<1>2. n \in Nat
  BY DEF TypeOK
<1>3. /\ wsQ' = Append(wsQ, m) /\ heard' = heard \cup {m}
  BY DEF OnMessage
<1>4. got' = [got EXCEPT ![a] = NewGot(got[a], k, n, c)]
  BY DEF OnMessage, NewGot, Msg
<1> QED BY <1>1, <1>2, <1>3, <1>4

LEMMA QueueType ==
  ASSUME TypeOK, Routing,
         \/ Route \/ PopRouted \/ HandlePosition \/ Drop \/ WakeRelay
         \/ \E a \in Players, k \in AllNewsKinds :
              \E c \in Colors[a] \cup {0} : OnMessage(a, k, c)
  PROVE  TypeOK'
<1>0. wsQ \in Seq(Item) /\ posQ \in Seq(Item) /\ guiQ \in Seq(Item)
  BY NewsQueue DEF TypeOK, Item
<1>1. CASE Route
  <2>1. /\ Head(wsQ) \in Item
        /\ Head(wsQ).kind # "empty" => Head(wsQ) \in News
    BY <1>0, <1>1, TailFacts, MsgFacts DEF Route
  <2>2. posQ' \in Seq(News) /\ guiQ' \in Seq(News) /\ routed' \in Item
    <3>1. CASE Head(wsQ) \in News
      <4>1. /\ Append(posQ, Head(wsQ)) \in Seq(News)
            /\ Append(guiQ, Head(wsQ)) \in Seq(News)
        BY <3>1, NewsQueue DEF TypeOK
      <4> QED BY <1>1, <2>1, <4>1 DEF Route, TypeOK, Item
    <3>2. CASE Head(wsQ).kind = "empty"
      BY <1>1, <3>2 DEF Route, TypeOK, Item
    <3> QED BY <2>1, <3>1, <3>2
  <2> QED BY <1>1, <2>2 DEF Route, TypeOK, screen, Item
<1>2. CASE PopRouted
  <2>1. wsQ' \in Seq(Item)
    BY <1>0, <1>2, TailFacts DEF PopRouted, Routing
  <2> QED BY <1>2, <2>1 DEF PopRouted, TypeOK, screen, history, Item
<1>3. CASE HandlePosition
  <2>1. posQ # <<>> => /\ Head(posQ) \in News /\ Tail(posQ) \in Seq(News)
                       /\ Head(posQ).who \in Players
                       /\ Head(posQ).n \in Nat /\ Head(posQ).color \in Nat
    BY NewsQueue DEF TypeOK, News
  <2>2. posQ # <<>> =>
          [here |-> TRUE, n |-> Head(posQ).n, color |-> Head(posQ).color] \in Car
    BY <2>1 DEF Car
  <2>3. cars' \in [Players -> Car]
    <3>1. cars \in [Players -> Car]
      BY DEF TypeOK, Car
    <3>2. \/ cars' = cars
          \/ posQ # <<>> /\ cars' = [cars EXCEPT ![Head(posQ).who] =
               [here |-> TRUE, n |-> Head(posQ).n, color |-> Head(posQ).color]]
      BY <1>3 DEF HandlePosition, ShowPosition
    <3> QED BY <2>1, <2>2, <3>1, <3>2, ExceptType
  <2>4. posQ' \in Seq(News) /\ move' \in BOOLEAN
    BY <1>3, <2>1 DEF HandlePosition, ShowPosition, TypeOK
  <2>5. dropped' \in [Players -> Nat]
    <3>1. \/ dropped' = dropped
          \/ posQ # <<>> /\ dropped' = [dropped EXCEPT ![Head(posQ).who] =
                                          Head(posQ).n]
      BY <1>3 DEF HandlePosition
    <3>2. dropped \in [Players -> Nat]
      BY DEF TypeOK
    <3> QED BY <2>1, <3>1, <3>2, ExceptType
  <2>6. game' \in {"gui", "aborted"}
    BY <1>3 DEF HandlePosition
  <2>7. UNCHANGED <<relay, batch, running, handleBatch, wsQ, guiQ, texts, popped,
                    got, heard, routed, greeted, missed>>
    BY <1>3 DEF HandlePosition
  <2> QED BY <2>3, <2>4, <2>5, <2>6, <2>7 DEF TypeOK, Car, Frame
<1>4. CASE Drop
  <2>1. posQ # <<>> => /\ Tail(posQ) \in Seq(News)
                       /\ Head(posQ).who \in Players /\ Head(posQ).n \in Nat
    BY NewsQueue DEF TypeOK, News
  <2>2. /\ dropped' \in [Players -> Nat] /\ posQ' \in Seq(News)
        /\ popped' \in Nat
    <3>1. popped + 1 < Len(posQ) => posQ # <<>>
      BY DEF TypeOK
    <3>2. CASE popped + 1 < Len(posQ)
      <4>1. /\ dropped' = [dropped EXCEPT ![Head(posQ).who] = Head(posQ).n]
            /\ posQ' = Tail(posQ) /\ popped' = popped + 1
        BY <1>4, <3>2 DEF Drop
      <4>2. dropped \in [Players -> Nat] /\ popped \in Nat
        BY DEF TypeOK
      <4> QED BY <2>1, <3>1, <3>2, <4>1, <4>2, ExceptType
    <3>3. CASE ~(popped + 1 < Len(posQ))
      BY <1>4, <3>3 DEF Drop, TypeOK
    <3> QED BY <3>2, <3>3
  <2> QED BY <1>4, <2>2 DEF Drop, TypeOK, Frame
<1>5. CASE WakeRelay
  <2>1. wsQ' \in Seq(Item)
    BY <1>0, <1>5, AppendFacts, MsgFacts DEF WakeRelay
  <2> QED BY <1>5, <2>1 DEF WakeRelay, TypeOK, screen, history, Item
<1>6. ASSUME NEW a \in Players, NEW k \in AllNewsKinds,
             NEW c \in Colors[a] \cup {0}, OnMessage(a, k, c)
      PROVE  TypeOK'
  <2>1. c \in Nat
    BY ZenonT(40), <1>6, OnMessageStep
  <2>2. PICK n \in Nat : /\ n = IF k = "pos" THEN got[a].n + 1 ELSE got[a].n
                         /\ wsQ' = Append(wsQ, Msg(k, a, n, c))
                         /\ heard' = heard \cup {Msg(k, a, n, c)}
                         /\ got' = [got EXCEPT ![a] = NewGot(got[a], k, n, c)]
    BY ZenonT(40), <1>6, OnMessageStep
  <2>3. Msg(k, a, n, c) \in News /\ Msg(k, a, n, c) \in Item
    BY <2>1, MsgFacts DEF Item
  <2>4. wsQ' \in Seq(Item) /\ heard' \subseteq News
    BY <1>0, <2>2, <2>3, AppendFacts DEF TypeOK
  <2>5. got' \in [Players -> Got]
    <3>1. got \in [Players -> Got] /\ got[a] \in Got
      BY DEF TypeOK, Got
    <3>2. NewGot(got[a], k, n, c) \in Got
      BY SMTT(40), <2>1, <3>1 DEF Got, NewGot
    <3> QED BY <2>2, <3>1, <3>2, ExceptType
  <2>6. UNCHANGED <<game, relay, batch, running, handleBatch, posQ, guiQ, cars,
                    texts, move, popped, routed, dropped, greeted,
                    missed>>
    BY <1>6 DEF OnMessage, threads, screen
  <2>7. /\ wsQ' \in Seq(News \cup {Wake}) /\ heard' \subseteq News
        /\ got' \in [Players -> [gone : BOOLEAN, n : Nat, color : Nat,
                                 tint : Nat, all : Nat]]
    BY <2>4, <2>5 DEF Item, Got
  <2> QED BY ZenonT(40), <2>6, <2>7 DEF TypeOK
<1> QED BY <1>1, <1>2, <1>3, <1>4, <1>5, <1>6

LEMMA GuiType ==
  ASSUME TypeOK, Filled, HandleGui \/ Input
  PROVE  TypeOK'
<1>1. CASE HandleGui
  <2>1. guiQ # <<>> => /\ Head(guiQ) \in News /\ Tail(guiQ) \in Seq(News)
                       /\ Head(guiQ).who \in Players
                       /\ Head(guiQ).color \in Nat
    BY NewsQueue DEF TypeOK, News
  <2>2. texts' \in Seq(News \cup [kind : {"own"}])
    <3>1. Len(texts) = Lines
      BY <1>1 DEF HandleGui, Filled, Frame
    <3> QED BY <1>1, <2>1, <3>1, ScrollType DEF HandleGui, GuiWaits, TypeOK
  <2>3. cars' \in [Players -> [here : BOOLEAN, n : Nat, color : Nat]]
    <3> DEFINE m == Head(guiQ)
               r == [here |-> cars[m.who].here /\ m.kind # "exit",
                     n |-> cars[m.who].n,
                     color |-> IF m.kind = "color" /\ cars[m.who].here
                                 THEN m.color ELSE cars[m.who].color]
    <3>0. cars' = cars \/ (guiQ # <<>> /\ cars' = [cars EXCEPT ![m.who] = r])
      BY <1>1 DEF HandleGui, GuiWaits
    <3>1. CASE cars' = cars
      BY <3>1 DEF TypeOK
    <3>2. CASE guiQ # <<>> /\ cars' = [cars EXCEPT ![m.who] = r]
      <4>1. m.who \in Players /\ m.color \in Nat /\ cars[m.who] \in Car
        BY <2>1, <3>2 DEF TypeOK, Car
      <4>2. r \in Car
        BY <4>1 DEF Car
      <4> HIDE DEF r, m
      <4>3. cars' \in [Players -> Car]
        BY <3>2, <4>1, <4>2, ExceptType DEF TypeOK, Car
      <4> QED BY <4>3 DEF Car
    <3> QED BY <3>0, <3>1, <3>2
  <2>4. /\ greeted' \subseteq Players /\ missed' \subseteq Players
        /\ guiQ' \in Seq(News)
    BY <1>1, <2>1 DEF HandleGui, GuiWaits, TypeOK
  <2> QED BY <1>1, <2>2, <2>3, <2>4 DEF HandleGui, TypeOK, Frame
<1>2. CASE Input
  <2>1. texts' \in Seq(News \cup [kind : {"own"}])
    <3>1. Len(texts) = Lines
      BY <1>2 DEF Input, Filled, Frame
    <3>2. Own \in News \cup [kind : {"own"}]
      BY DEF Own
    <3> QED BY <1>2, <3>1, <3>2, ScrollType DEF Input, TypeOK
  <2>2. greeted' \subseteq Players /\ missed' \subseteq Players
    BY <1>2 DEF Input, SendPosition, TypeOK, Known
  <2> QED BY <1>2, <2>1, <2>2 DEF Input, TypeOK, Frame, queues
<1> QED BY <1>1, <1>2

LEMMA NextType == TypeOK /\ Routing /\ Filled /\ [Next]_vars => TypeOK'
<1> SUFFICES ASSUME TypeOK, Routing, Filled, [Next]_vars PROVE TypeOK'
  OBVIOUS
<1>1. CASE UNCHANGED vars
  BY <1>1 DEF vars, threads, queues, screen, history, TypeOK
<1>2. CASE Next
  BY <1>2, MainType, QueueType, GuiType DEF Next, GameStep, RelayStep
<1> QED BY <1>1, <1>2

-----------------------------------------------------------------------------
\* How the queues move.
LEMMA QueueTypes ==
  ASSUME TypeOK, Routing
  PROVE  /\ wsQ \in Seq(Item) /\ posQ \in Seq(Item) /\ guiQ \in Seq(Item)
         /\ Unrouted \in Seq(Item)
         /\ \A i \in 1..Len(posQ) :
              posQ[i] \in News /\ IsPos(posQ[i]) /\ posQ[i] \in Item
         /\ \A i \in 1..Len(guiQ) : guiQ[i] \in News
<1>1. wsQ \in Seq(Item) /\ posQ \in Seq(Item) /\ guiQ \in Seq(Item)
  BY NewsQueue DEF TypeOK, Item
<1>2. Unrouted \in Seq(Item)
  BY <1>1, TailFacts DEF Unrouted, Routing
<1>3. \A i \in 1..Len(posQ) : posQ[i] \in News
  BY DEF TypeOK
<1>4. \A i \in 1..Len(guiQ) : guiQ[i] \in News
  BY DEF TypeOK
<1> QED BY <1>1, <1>2, <1>3, <1>4 DEF Routing, Item

LEMMA RisingTail ==
  ASSUME NEW q \in Seq(Item), q # <<>>, Rising(q)
  PROVE  Rising(Tail(q))
<1>1. /\ Len(q) \in Nat /\ Len(Tail(q)) = Len(q) - 1
      /\ \A i \in 1..Len(Tail(q)) : Tail(q)[i] = q[i + 1]
  BY TailFacts
<1> SUFFICES ASSUME NEW i \in 1..Len(Tail(q)), NEW j \in 1..Len(Tail(q)), i < j,
                    IsPos(Tail(q)[i]), IsPos(Tail(q)[j]),
                    Tail(q)[i].who = Tail(q)[j].who
             PROVE  Tail(q)[i].n < Tail(q)[j].n
  BY DEF Rising
<1>2. i + 1 \in 1..Len(q) /\ j + 1 \in 1..Len(q) /\ i + 1 < j + 1
  BY <1>1
<1>3. Tail(q)[i] = q[i + 1] /\ Tail(q)[j] = q[j + 1]
  BY <1>1
<1> QED BY <1>2, <1>3 DEF Rising

LEMMA RisingAppend ==
  ASSUME NEW q \in Seq(Item), NEW m \in Item, Rising(q),
         \A i \in 1..Len(q) :
           (IsPos(m) /\ IsPos(q[i]) /\ q[i].who = m.who) => q[i].n < m.n
  PROVE  Rising(Append(q, m))
<1> DEFINE r == Append(q, m)
<1>1. /\ Len(q) \in Nat /\ Len(r) = Len(q) + 1 /\ r[Len(q) + 1] = m
      /\ \A i \in 1..Len(q) : r[i] = q[i]
  BY AppendFacts
<1> SUFFICES ASSUME NEW i \in 1..Len(r), NEW j \in 1..Len(r), i < j,
                    IsPos(r[i]), IsPos(r[j]), r[i].who = r[j].who
             PROVE  r[i].n < r[j].n
  BY DEF Rising
<1> HIDE DEF r
<1>2. i \in 1..Len(q) /\ r[i] = q[i]
  BY <1>1
<1>3. CASE j \in 1..Len(q)
  BY <1>1, <1>2, <1>3 DEF Rising
<1>4. CASE j = Len(q) + 1
  BY <1>1, <1>2, <1>4
<1>5. j \in 1..Len(q) \/ j = Len(q) + 1
  BY <1>1
<1> QED BY <1>3, <1>4, <1>5

\* The relay's two steps seen from what it has still to move.
LEMMA RouteEffect ==
  ASSUME TypeOK, Routing, Route
  PROVE  /\ Unrouted # <<>> /\ Unrouted' = Tail(Unrouted)
         /\ Unrouted[1] \in Item
         /\ IF IsPos(Unrouted[1])
            THEN posQ' = Append(posQ, Unrouted[1]) /\ routed' = Unrouted[1]
            ELSE posQ' = posQ /\ routed' = routed
         /\ \/ guiQ' = guiQ /\ Unrouted[1].kind \in {"pos", "empty", "junk"}
            \/ guiQ' = Append(guiQ, Unrouted[1]) /\ Unrouted[1].kind # "pos"
<1>1. Unrouted = wsQ /\ Unrouted # <<>> /\ Unrouted' = Tail(wsQ)
  BY DEF Route, Unrouted
<1>2. wsQ[1] = Head(wsQ) /\ wsQ[1] \in Item
  BY <1>1, QueueTypes, TailFacts
<1> QED BY <1>1, <1>2 DEF Route, IsPos

LEMMA PopEffect ==
  ASSUME Routing, PopRouted
  PROVE  Unrouted' = Unrouted
BY DEF PopRouted, Unrouted, Routing

LEMMA AppendEffect ==
  ASSUME TypeOK, Routing, NEW m \in Item, wsQ' = Append(wsQ, m), relay' = relay
  PROVE  Unrouted' = Append(Unrouted, m)
<1>1. CASE relay = "pop"
  <2>1. wsQ # <<>> /\ wsQ \in Seq(Item)
    BY <1>1, QueueTypes DEF Routing
  <2>2. Tail(Append(wsQ, m)) = Append(Tail(wsQ), m)
    BY <2>1
  <2> QED BY <1>1, <2>2 DEF Unrouted
<1>2. CASE relay # "pop"
  BY <1>2 DEF Unrouted
<1> QED BY <1>1, <1>2

\* The positions that are taken out of posQ, to be shown or to be dropped.
LEMMA TakeEffect ==
  ASSUME TypeOK, Routing, posQ # <<>>
  PROVE  /\ posQ[1] = Head(posQ) /\ IsPos(posQ[1])
         /\ posQ[1].who \in Players /\ posQ[1].n \in Nat
         /\ posQ[1].color \in Nat
<1>1. posQ \in Seq(Item) /\ Len(posQ) \in Nat /\ Len(posQ) > 0
  BY QueueTypes, TailFacts
<1> QED BY <1>1, QueueTypes, TailFacts DEF News

\* What the game's thread does with the position in front: nothing, show it, or
\* drop it because it cannot be read.
Nothing == UNCHANGED <<posQ, cars, move, dropped>>

Showing ==
  /\ posQ # <<>> /\ posQ' = Tail(posQ) /\ posQ[1].color # 0 /\ game' = "gui"
  /\ cars' = [cars EXCEPT ![posQ[1].who] =
                [here |-> TRUE, n |-> posQ[1].n, color |-> posQ[1].color]]
  /\ move' = (move \/ posQ[1].who \notin Known)
  /\ dropped' = dropped

Skipping ==
  /\ posQ # <<>> /\ posQ' = Tail(posQ) /\ posQ[1].color = 0
  /\ dropped' = [dropped EXCEPT ![posQ[1].who] = posQ[1].n]
  /\ UNCHANGED <<cars, move>>

LEMMA PositionEffect ==
  ASSUME TypeOK, Routing, HandlePosition
  PROVE  Nothing \/ Showing \/ Skipping
<1>1. posQ # <<>> => posQ[1] = Head(posQ)
  BY TakeEffect
<1>2. CASE posQ = <<>> \/ game' = "aborted"
  BY <1>2 DEF HandlePosition, Nothing
<1>3. CASE posQ # <<>> /\ game' # "aborted" /\ posQ[1].color # 0
  BY <1>1, <1>3 DEF HandlePosition, ShowPosition, Showing
<1>4. CASE posQ # <<>> /\ game' # "aborted" /\ posQ[1].color = 0
  BY <1>1, <1>4 DEF HandlePosition, Skipping
<1> QED BY <1>2, <1>3, <1>4

\* What handling a message of the general queue does to the players.
LEMMA GuiEffect ==
  ASSUME TypeOK, HandleGui
  PROVE  \/ UNCHANGED <<guiQ, cars, greeted, missed>>
         \/ /\ guiQ # <<>> /\ guiQ' = Tail(guiQ)
            /\ guiQ[1] = Head(guiQ) /\ guiQ[1] \in News
            /\ guiQ[1].who \in Players
            /\ \A a \in Players :
                 /\ cars'[a].n = cars[a].n
                 /\ cars'[a].here =
                      (cars[a].here /\ ~(guiQ[1].kind = "exit" /\ a = guiQ[1].who))
                 /\ cars'[a].color =
                      IF guiQ[1].kind = "color" /\ a = guiQ[1].who /\ cars[a].here
                      THEN guiQ[1].color ELSE cars[a].color
            /\ greeted' = IF guiQ[1].kind = "exit" THEN greeted \ {guiQ[1].who}
                                                  ELSE greeted
            /\ missed' = IF guiQ[1].kind = "exit" THEN missed \ {guiQ[1].who}
                                                 ELSE missed
<1>1. CASE GuiWaits \/ game' = "aborted"
  BY <1>1 DEF HandleGui
<1>2. CASE ~GuiWaits /\ game' # "aborted"
  <2>0. guiQ # <<>>
    BY <1>2 DEF GuiWaits
  <2> DEFINE m == guiQ[1]
             r == [here |-> cars[m.who].here /\ m.kind # "exit",
                   n |-> cars[m.who].n,
                   color |-> IF m.kind = "color" /\ cars[m.who].here
                               THEN m.color ELSE cars[m.who].color]
  <2>1. m = Head(guiQ) /\ m \in News /\ m.who \in Players
    BY ZenonT(40), <2>0, NewsQueue, TailFacts DEF TypeOK, News
  <2>2. cars' = [cars EXCEPT ![m.who] = r]
    BY <1>2, <2>1 DEF HandleGui
  <2>3. /\ guiQ' = Tail(guiQ)
        /\ greeted' = IF m.kind = "exit" THEN greeted \ {m.who} ELSE greeted
        /\ missed' = IF m.kind = "exit" THEN missed \ {m.who} ELSE missed
    BY <1>2, <2>1 DEF HandleGui
  <2>4. cars \in [Players -> Car]
    BY DEF TypeOK, Car
  <2>5. \A a \in Players : cars'[a] = IF a = m.who THEN r ELSE cars[a]
    BY <2>1, <2>2, <2>4
  <2>6. \A a \in Players :
          /\ cars'[a].n = cars[a].n
          /\ cars'[a].here = (cars[a].here /\ ~(m.kind = "exit" /\ a = m.who))
          /\ cars'[a].color = IF m.kind = "color" /\ a = m.who /\ cars[a].here
                              THEN m.color ELSE cars[a].color
    <3> TAKE a \in Players
    <3>1. CASE a # m.who
      <4>1. cars'[a] = cars[a] /\ cars[a] \in Car
        BY <2>4, <2>5, <3>1
      <4> QED BY <3>1, <4>1 DEF Car
    <3>2. CASE a = m.who
      <4>1. cars'[a] = r /\ cars[m.who] \in Car
        BY <2>4, <2>5, <3>2
      <4> QED BY <3>2, <4>1 DEF Car
    <3> QED BY <3>1, <3>2
  <2> QED BY <2>0, <2>1, <2>3, <2>6
<1> QED BY <1>1, <1>2

-----------------------------------------------------------------------------
\* The order of the positions, kept by each way the queues move.
Order == Behind /\ InLine /\ NewestLast /\ Arriving

LEMMA OrderIdle ==
  ASSUME TypeOK, Routing, Order,
         UNCHANGED <<posQ, got, routed, dropped>>, Unrouted' = Unrouted,
         \A a \in Players : cars'[a].n = cars[a].n
  PROVE  Order'
<1>1. /\ \A i \in 1..Len(posQ) : posQ[i].who \in Players
      /\ \A i \in 1..Len(Unrouted) :
           IsPos(Unrouted[i]) => Unrouted[i].who \in Players
  BY QueueTypes, MsgFacts DEF IsPos, AllNewsKinds
<1>2. Behind'
  BY DEF Order, Behind
<1>3. InLine'
  BY <1>1 DEF Order, InLine, Rising, Ahead
<1>4. NewestLast'
  BY MsgFacts DEF Order, NewestLast, TypeOK, Item
<1>5. Arriving'
  BY DEF Order, Arriving, Waits
<1> QED BY <1>2, <1>3, <1>4, <1>5 DEF Order

\* A message is received, or the relay is woken.
LEMMA OrderReceive ==
  ASSUME TypeOK, Routing, Order, NEW m \in Item,
         UNCHANGED <<posQ, cars, routed, dropped>>,
         Unrouted' = Append(Unrouted, m),
         \/ m.kind = "empty" /\ got' = got
         \/ /\ m \in News /\ m.n = got'[m.who].n
            /\ got'[m.who].n = IF IsPos(m) THEN got[m.who].n + 1
                                           ELSE got[m.who].n
            /\ \A b \in Players \ {m.who} : got'[b] = got[b]
  PROVE  Order'
<1>1. /\ Unrouted \in Seq(Item) /\ Len(Unrouted) \in Nat
      /\ Len(Unrouted') = Len(Unrouted) + 1
      /\ \A i \in 1..Len(Unrouted) : Unrouted'[i] = Unrouted[i]
      /\ Unrouted'[Len(Unrouted) + 1] = m
  BY QueueTypes, AppendFacts
<1>2. /\ \A i \in 1..Len(posQ) : posQ[i].who \in Players /\ posQ[i].n \in Nat
      /\ \A i \in 1..Len(Unrouted) :
           IsPos(Unrouted[i]) => /\ Unrouted[i].who \in Players
                                 /\ Unrouted[i].n \in Nat
      /\ IsPos(m) => m.who \in Players /\ m.kind # "empty"
      /\ m \in News => m.who \in Players
  BY QueueTypes, MsgFacts DEF IsPos, AllNewsKinds
<1>3. \A a \in Players : /\ got[a].n \in Nat /\ cars[a].n \in Nat
                         /\ dropped[a] \in Nat
  BY DEF TypeOK
<1>4. \A a \in Players : /\ got'[a].n \in Nat /\ got[a].n <= got'[a].n
                         /\ got'[a].n = IF IsPos(m) /\ m.who = a
                                        THEN got[a].n + 1 ELSE got[a].n
  <2> TAKE a \in Players
  <2>1. CASE m.kind = "empty"
    BY <1>2, <1>3, <2>1
  <2>2. CASE m \in News /\ m.who = a
    BY <1>3, <2>2 DEF IsPos
  <2>3. CASE m \in News /\ m.who # a
    <3>1. got'[a] = got[a]
      BY <2>3
    <3> QED BY <1>3, <2>3, <3>1
  <2> QED BY <2>1, <2>2, <2>3
<1>5. Behind'
  BY <1>3, <1>4 DEF Order, Behind
<1>6. Rising(posQ)' /\ Ahead(posQ)'
  <2>1. Rising(posQ) /\ Ahead(posQ)
    BY DEF Order, InLine
  <2>2. Rising(posQ)'
    BY <2>1 DEF Rising
  <2>3. ASSUME NEW i \in 1..Len(posQ), IsPos(posQ[i])
        PROVE  /\ cars[posQ[i].who].n < posQ[i].n
               /\ dropped[posQ[i].who] < posQ[i].n
               /\ posQ[i].n <= got'[posQ[i].who].n
    <3>1. /\ cars[posQ[i].who].n < posQ[i].n
          /\ dropped[posQ[i].who] < posQ[i].n
          /\ posQ[i].n <= got[posQ[i].who].n
      BY <2>1, <2>3 DEF Ahead
    <3>2. posQ[i].who \in Players /\ posQ[i].n \in Nat
      BY <1>2
    <3>3. /\ got[posQ[i].who].n \in Nat /\ got'[posQ[i].who].n \in Nat
          /\ got[posQ[i].who].n <= got'[posQ[i].who].n
      BY <1>3, <1>4, <3>2
    <3> QED BY <3>1, <3>2, <3>3
  <2>4. Ahead(posQ)'
    BY <2>3 DEF Ahead
  <2> QED BY <2>2, <2>4
<1>7. Rising(Unrouted)'
  <2>1. ASSUME NEW i \in 1..Len(Unrouted),
               IsPos(m), IsPos(Unrouted[i]), Unrouted[i].who = m.who
        PROVE  Unrouted[i].n < m.n
    <3>1. Unrouted[i].n <= got[m.who].n
      BY <2>1 DEF Order, InLine, Ahead
    <3>2. m \in News /\ m.who \in Players /\ m.n = got'[m.who].n
      BY <1>2, <2>1
    <3>3. got'[m.who].n = got[m.who].n + 1 /\ got[m.who].n \in Nat
      BY <1>3, <1>4, <2>1, <3>2
    <3>4. Unrouted[i].n \in Nat
      BY <1>2, <2>1
    <3> QED BY <3>1, <3>2, <3>3, <3>4
  <2>2. Rising(Append(Unrouted, m))
    BY <1>1, <2>1, RisingAppend DEF Order, InLine
  <2>3. Rising(Unrouted')
    BY <2>2
  <2> QED BY <2>3 DEF Rising
<1>8. Ahead(Unrouted)'
  <2> SUFFICES ASSUME NEW i \in 1..Len(Unrouted'), IsPos(Unrouted'[i])
               PROVE  /\ cars[Unrouted'[i].who].n < Unrouted'[i].n
                      /\ dropped[Unrouted'[i].who] < Unrouted'[i].n
                      /\ Unrouted'[i].n <= got'[Unrouted'[i].who].n
    BY DEF Ahead
  <2>1. CASE i \in 1..Len(Unrouted)
    <3>1. Unrouted'[i] = Unrouted[i] /\ IsPos(Unrouted[i])
      BY <1>1, <2>1
    <3>2. /\ cars[Unrouted[i].who].n < Unrouted[i].n
          /\ dropped[Unrouted[i].who] < Unrouted[i].n
          /\ Unrouted[i].n <= got[Unrouted[i].who].n
      BY <2>1, <3>1 DEF Order, InLine, Ahead
    <3>3. Unrouted[i].who \in Players /\ Unrouted[i].n \in Nat
      BY <1>2, <2>1, <3>1
    <3> QED BY SMTT(40), <1>3, <1>4, <3>1, <3>2, <3>3
  <2>2. CASE i = Len(Unrouted) + 1
    <3>1. Unrouted'[i] = m /\ IsPos(m)
      BY <1>1, <2>2
    <3>2. m \in News /\ m.who \in Players /\ m.n = got'[m.who].n
      BY <1>2, <3>1
    <3>3. /\ got'[m.who].n = got[m.who].n + 1 /\ got[m.who].n \in Nat
          /\ cars[m.who].n \in Nat /\ dropped[m.who] \in Nat
      BY <1>3, <1>4, <3>1, <3>2
    <3>4. cars[m.who].n <= got[m.who].n /\ dropped[m.who] <= got[m.who].n
      BY <3>2 DEF Order, Behind
    <3> QED BY <3>1, <3>2, <3>3, <3>4
  <2>3. i \in 1..Len(Unrouted) \/ i = Len(Unrouted) + 1
    BY <1>1
  <2> QED BY <2>1, <2>2, <2>3
<1>9. InLine'
  <2> SUFFICES ASSUME NEW i \in 1..Len(posQ), NEW j \in 1..Len(Unrouted'),
                      IsPos(Unrouted'[j]), posQ[i].who = Unrouted'[j].who
               PROVE  posQ[i].n < Unrouted'[j].n
    BY <1>6, <1>7, <1>8 DEF InLine
  <2>1. CASE j \in 1..Len(Unrouted)
    BY <1>1, <2>1 DEF Order, InLine
  <2>2. CASE j = Len(Unrouted) + 1
    <3>1. IsPos(posQ[i]) /\ posQ[i].who = m.who /\ IsPos(m)
      BY <1>1, <2>2, QueueTypes
    <3>2. posQ[i].n <= got[m.who].n
      BY <3>1 DEF Order, InLine, Ahead
    <3> QED BY <1>1, <1>2, <1>3, <1>4, <2>2, <3>1, <3>2 DEF IsPos
  <2>3. j \in 1..Len(Unrouted) \/ j = Len(Unrouted) + 1
    BY <1>1
  <2> QED BY <2>1, <2>2, <2>3
<1>10. NewestLast'
  BY DEF Order, NewestLast
<1>11. Arriving'
  <2> SUFFICES ASSUME NEW a \in Players
               PROVE  \/ cars[a].n = got'[a].n \/ dropped[a] = got'[a].n
                      \/ Waits(a, posQ)' \/ Waits(a, Unrouted)'
    BY DEF Arriving
  <2>1. CASE IsPos(m) /\ m.who = a
    <3>1. Len(Unrouted) + 1 \in 1..Len(Unrouted')
      BY <1>1
    <3> QED BY <1>1, <1>2, <2>1, <3>1 DEF Waits, IsPos
  <2>2. CASE ~(IsPos(m) /\ m.who = a)
    <3>1. got'[a].n = got[a].n
      BY <1>4, <2>2
    <3>2. ASSUME Waits(a, Unrouted) PROVE Waits(a, Unrouted)'
      <4>1. PICK i \in 1..Len(Unrouted) :
              IsPos(Unrouted[i]) /\ Unrouted[i].who = a /\ Unrouted[i].n = got[a].n
        BY <3>2 DEF Waits
      <4>2. i \in 1..Len(Unrouted') /\ Unrouted'[i] = Unrouted[i]
        BY <1>1
      <4> QED BY <3>1, <4>1, <4>2 DEF Waits, IsPos
    <3> QED BY <3>1, <3>2 DEF Order, Arriving, Waits
  <2> QED BY <2>1, <2>2
<1> QED BY <1>5, <1>9, <1>10, <1>11 DEF Order

\* The relay moves a message.
LEMMA OrderRoute ==
  ASSUME TypeOK, Routing, Order, Route
  PROVE  Order'
<1> DEFINE h == Unrouted[1]
<1>1. /\ Unrouted # <<>> /\ Unrouted' = Tail(Unrouted) /\ h \in Item
      /\ IF IsPos(h) THEN posQ' = Append(posQ, h) /\ routed' = h
                     ELSE posQ' = posQ /\ routed' = routed
      /\ UNCHANGED <<cars, got, dropped>>
  BY RouteEffect DEF Route, screen
<1>2. /\ Unrouted \in Seq(Item) /\ Len(Unrouted) \in Nat /\ Len(Unrouted) > 0
      /\ Len(Unrouted') = Len(Unrouted) - 1
      /\ \A i \in 1..Len(Unrouted') : Unrouted'[i] = Unrouted[i + 1]
  BY <1>1, QueueTypes, TailFacts
<1>3. posQ \in Seq(Item) /\ Len(posQ) \in Nat
  BY QueueTypes, AppendFacts
<1>4. IsPos(h) => /\ posQ' # <<>> /\ Len(posQ') = Len(posQ) + 1
                  /\ \A i \in 1..Len(posQ) : posQ'[i] = posQ[i]
                  /\ posQ'[Len(posQ) + 1] = h
                  /\ h.who \in Players /\ h.n \in Nat
  <2>1. IsPos(h) => h.who \in Players /\ h.n \in Nat
    BY <1>1, MsgFacts DEF IsPos
  <2>2. \A m \in Item : /\ Append(posQ, m) # <<>>
                        /\ Len(Append(posQ, m)) = Len(posQ) + 1
                        /\ \A i \in 1..Len(posQ) : Append(posQ, m)[i] = posQ[i]
                        /\ Append(posQ, m)[Len(posQ) + 1] = m
    BY <1>3, AppendFacts
  <2>3. IsPos(h) => posQ' = Append(posQ, h)
    BY <1>1
  <2>4. h \in Item
    BY <1>1
  <2> HIDE DEF h
  <2> QED BY <2>1, <2>2, <2>3, <2>4
<1>5. Rising(Unrouted)' /\ Ahead(Unrouted)'
  <2>1. Rising(Unrouted)'
    BY <1>1, <1>2, RisingTail DEF Order, InLine, Rising
  <2>2. Ahead(Unrouted)'
    BY <1>1, <1>2 DEF Order, InLine, Ahead
  <2> QED BY <2>1, <2>2
<1>6. Rising(posQ)' /\ Ahead(posQ)'
  <2>1. CASE ~IsPos(h)
    BY <1>1, <2>1 DEF Order, InLine, Rising, Ahead
  <2>2. CASE IsPos(h)
    <3>1. \A i \in 1..Len(posQ) :
            (IsPos(posQ[i]) /\ posQ[i].who = h.who) => posQ[i].n < h.n
      BY <1>2, <2>2 DEF Order, InLine
    <3>2. Rising(Append(posQ, h))
      BY <1>1, <1>3, <3>1, RisingAppend DEF Order, InLine
    <3>3. Rising(posQ)'
      BY <1>1, <2>2, <3>2 DEF Rising
    <3>4. /\ cars[h.who].n < h.n /\ dropped[h.who] < h.n /\ h.n <= got[h.who].n
      BY <1>2, <2>2 DEF Order, InLine, Ahead
    <3>5. Ahead(posQ)'
      <4> SUFFICES ASSUME NEW i \in 1..Len(posQ'), IsPos(posQ'[i])
                   PROVE  /\ cars[posQ'[i].who].n < posQ'[i].n
                          /\ dropped[posQ'[i].who] < posQ'[i].n
                          /\ posQ'[i].n <= got[posQ'[i].who].n
        BY <1>1 DEF Ahead
      <4>1. CASE i \in 1..Len(posQ)
        BY <1>4, <2>2, <4>1 DEF Order, InLine, Ahead
      <4>2. CASE i = Len(posQ) + 1
        BY <1>4, <2>2, <3>4, <4>2
      <4>3. i \in 1..Len(posQ) \/ i = Len(posQ) + 1
        BY <1>3, <1>4, <2>2
      <4> QED BY <4>1, <4>2, <4>3
    <3> QED BY <3>3, <3>5
  <2> QED BY <2>1, <2>2
<1>7. InLine'
  <2> SUFFICES ASSUME NEW i \in 1..Len(posQ'), NEW j \in 1..Len(Unrouted'),
                      IsPos(Unrouted'[j]), posQ'[i].who = Unrouted'[j].who
               PROVE  posQ'[i].n < Unrouted'[j].n
    BY <1>5, <1>6 DEF InLine
  <2>1. j + 1 \in 1..Len(Unrouted) /\ Unrouted'[j] = Unrouted[j + 1]
    BY <1>2
  <2>2. CASE i \in 1..Len(posQ) /\ posQ'[i] = posQ[i]
    BY <2>1, <2>2 DEF Order, InLine
  <2>3. CASE IsPos(h) /\ posQ'[i] = h
    <3>1. 1 \in 1..Len(Unrouted) /\ 1 < j + 1
      BY <1>2
    <3> QED BY <2>1, <2>3, <3>1 DEF Order, InLine, Rising
  <2>4. \/ i \in 1..Len(posQ) /\ posQ'[i] = posQ[i]
        \/ IsPos(h) /\ posQ'[i] = h
    BY <1>1, <1>3, <1>4
  <2> QED BY <2>2, <2>3, <2>4
<1>8. NewestLast'
  BY <1>1, <1>4 DEF Order, NewestLast
<1>9. Behind'
  BY <1>1 DEF Order, Behind
<1>10. Arriving'
  <2> SUFFICES ASSUME NEW a \in Players
               PROVE  \/ cars[a].n = got[a].n \/ dropped[a] = got[a].n
                      \/ Waits(a, posQ)' \/ Waits(a, Unrouted)'
    BY <1>1 DEF Arriving
  <2>1. ASSUME Waits(a, posQ) PROVE Waits(a, posQ)'
    <3>1. PICK i \in 1..Len(posQ) :
            IsPos(posQ[i]) /\ posQ[i].who = a /\ posQ[i].n = got[a].n
      BY <2>1 DEF Waits
    <3>2. i \in 1..Len(posQ') /\ posQ'[i] = posQ[i]
      BY <1>1, <1>3, <1>4
    <3> QED BY <1>1, <3>1, <3>2 DEF Waits, IsPos
  <2>2. ASSUME Waits(a, Unrouted) PROVE Waits(a, posQ)' \/ Waits(a, Unrouted)'
    <3>1. PICK i \in 1..Len(Unrouted) : /\ IsPos(Unrouted[i])
                                        /\ Unrouted[i].who = a
                                        /\ Unrouted[i].n = got[a].n
      BY <2>2 DEF Waits
    <3>2. CASE i = 1
      <4>1. IsPos(h) /\ h.who = a /\ h.n = got[a].n
        BY <3>1, <3>2
      <4>2. Len(posQ) + 1 \in 1..Len(posQ') /\ posQ'[Len(posQ) + 1] = h
        BY <1>3, <1>4, <4>1
      <4> QED BY <1>1, <4>1, <4>2 DEF Waits, IsPos
    <3>3. CASE i # 1
      <4>1. i - 1 \in 1..Len(Unrouted') /\ Unrouted'[i - 1] = Unrouted[i]
        BY <1>2, <3>3
      <4> QED BY <1>1, <3>1, <4>1 DEF Waits, IsPos
    <3> QED BY <3>2, <3>3
  <2> QED BY <2>1, <2>2 DEF Order, Arriving
<1> QED BY <1>7, <1>8, <1>9, <1>10 DEF Order

\* A position is taken from posQ, to be shown or to be dropped.
LEMMA OrderTake ==
  ASSUME TypeOK, Routing, Order, posQ # <<>>,
         posQ' = Tail(posQ), UNCHANGED <<got, routed>>, Unrouted' = Unrouted,
         \/ /\ dropped' = dropped
            /\ \A a \in Players :
                 cars'[a].n = IF a = posQ[1].who THEN posQ[1].n ELSE cars[a].n
         \/ /\ cars' = cars /\ (Len(posQ) > 1 \/ posQ[1].color = 0)
            /\ \A a \in Players :
                 dropped'[a] = IF a = posQ[1].who THEN posQ[1].n ELSE dropped[a]
  PROVE  Order'
<1> DEFINE h == posQ[1]
<1>1. /\ posQ \in Seq(Item) /\ Len(posQ) \in Nat /\ Len(posQ) > 0
      /\ Len(posQ') = Len(posQ) - 1
      /\ \A i \in 1..Len(posQ') : posQ'[i] = posQ[i + 1]
  BY QueueTypes, TailFacts
<1>2. IsPos(h) /\ h.who \in Players /\ h.n \in Nat
  BY TakeEffect
<1>3. \A a \in Players : /\ got[a].n \in Nat /\ cars[a].n \in Nat
                         /\ dropped[a] \in Nat
  BY DEF TypeOK
<1>4. /\ cars[h.who].n < h.n /\ dropped[h.who] < h.n /\ h.n <= got[h.who].n
  BY <1>1, <1>2 DEF Order, InLine, Ahead
<1>5. \A i \in 1..Len(posQ') :
        /\ IsPos(posQ'[i]) /\ posQ'[i].who \in Players /\ posQ'[i].n \in Nat
        /\ posQ'[i].who = h.who => h.n < posQ'[i].n
  <2> SUFFICES ASSUME NEW i \in 1..Len(posQ')
               PROVE  /\ IsPos(posQ'[i]) /\ posQ'[i].who \in Players
                      /\ posQ'[i].n \in Nat
                      /\ posQ'[i].who = h.who => h.n < posQ'[i].n
    OBVIOUS
  <2>1. i + 1 \in 1..Len(posQ) /\ 1 \in 1..Len(posQ) /\ 1 < i + 1
    BY <1>1
  <2>2. posQ'[i] = posQ[i + 1]
    BY <1>1
  <2>3. posQ[i + 1] \in News /\ IsPos(posQ[i + 1])
    BY <2>1, QueueTypes
  <2>4. posQ[i + 1].who \in Players /\ posQ[i + 1].n \in Nat
    BY <2>3 DEF News
  <2>5. posQ[i + 1].who = h.who => h.n < posQ[i + 1].n
    BY <1>2, <2>1, <2>3 DEF Order, InLine, Rising
  <2> QED BY <2>2, <2>3, <2>4, <2>5
<1>6. \A i \in 1..Len(Unrouted) :
        IsPos(Unrouted[i]) =>
          /\ Unrouted[i].who \in Players /\ Unrouted[i].n \in Nat
          /\ Unrouted[i].who = h.who => h.n < Unrouted[i].n
  <2> SUFFICES ASSUME NEW i \in 1..Len(Unrouted), IsPos(Unrouted[i])
               PROVE  /\ Unrouted[i].who \in Players /\ Unrouted[i].n \in Nat
                      /\ Unrouted[i].who = h.who => h.n < Unrouted[i].n
    OBVIOUS
  <2>1. Unrouted[i] \in Item
    BY QueueTypes
  <2>2. Unrouted[i].who \in Players /\ Unrouted[i].n \in Nat
    BY <2>1, MsgFacts DEF IsPos
  <2>3. 1 \in 1..Len(posQ)
    BY <1>1
  <2>4. Unrouted[i].who = h.who => h.n < Unrouted[i].n
    BY <2>3 DEF Order, InLine
  <2> QED BY <2>2, <2>4
<1>7. Rising(posQ)' /\ Rising(Unrouted)'
  BY <1>1, RisingTail DEF Order, InLine, Rising
<1>8. Ahead(posQ)'
  <2> SUFFICES ASSUME NEW i \in 1..Len(posQ')
               PROVE  /\ cars'[posQ'[i].who].n < posQ'[i].n
                      /\ dropped'[posQ'[i].who] < posQ'[i].n
                      /\ posQ'[i].n <= got[posQ'[i].who].n
    BY DEF Ahead
  <2>1. /\ cars[posQ'[i].who].n < posQ'[i].n
        /\ dropped[posQ'[i].who] < posQ'[i].n
        /\ posQ'[i].n <= got[posQ'[i].who].n
    BY <1>1, <1>5 DEF Order, InLine, Ahead
  <2> QED BY <1>5, <2>1
<1>9. Ahead(Unrouted)'
  <2> SUFFICES ASSUME NEW i \in 1..Len(Unrouted), IsPos(Unrouted[i])
               PROVE  /\ cars'[Unrouted[i].who].n < Unrouted[i].n
                      /\ dropped'[Unrouted[i].who] < Unrouted[i].n
                      /\ Unrouted[i].n <= got[Unrouted[i].who].n
    BY DEF Ahead
  <2>1. /\ cars[Unrouted[i].who].n < Unrouted[i].n
        /\ dropped[Unrouted[i].who] < Unrouted[i].n
        /\ Unrouted[i].n <= got[Unrouted[i].who].n
    BY DEF Order, InLine, Ahead
  <2> QED BY <1>6, <2>1
<1>10. InLine'
  <2> SUFFICES ASSUME NEW i \in 1..Len(posQ'), NEW j \in 1..Len(Unrouted'),
                      IsPos(Unrouted'[j]), posQ'[i].who = Unrouted'[j].who
               PROVE  posQ'[i].n < Unrouted'[j].n
    BY <1>7, <1>8, <1>9 DEF InLine
  <2>1. posQ'[i] = posQ[i + 1] /\ i + 1 \in 1..Len(posQ)
    BY <1>1
  <2>2. Unrouted' = Unrouted
    OBVIOUS
  <2> QED BY <2>1, <2>2 DEF Order, InLine
<1>11. Behind'
  BY <1>3, <1>4 DEF Order, Behind
<1>12. NewestLast'
  <2>1. CASE posQ' # <<>>
    BY <1>1, <2>1 DEF Order, NewestLast
  <2>2. CASE posQ' = <<>>
    <3>0. Len(posQ') = 0 /\ Len(posQ') = Len(posQ) - 1 /\ Len(posQ) \in Nat
      BY <1>1, <2>2
    <3> DEFINE l == Len(posQ)  k == Len(posQ')
    <3>1. l = 1
      <4>1. k = 0 /\ k = l - 1 /\ l \in Nat
        BY <3>0
      <4> HIDE DEF l, k
      <4> QED BY <4>1
    <3>2. routed = posQ[Len(posQ)]
      BY DEF Order, NewestLast
    <3> QED BY <1>2, <2>2, <3>1, <3>2 DEF NewestLast
  <2> QED BY <2>1, <2>2
<1>13. Arriving'
  <2> SUFFICES ASSUME NEW a \in Players
               PROVE  \/ cars'[a].n = got[a].n \/ dropped'[a] = got[a].n
                      \/ Waits(a, posQ)' \/ Waits(a, Unrouted)'
    BY DEF Arriving
  <2>1. CASE Waits(a, posQ)
    <3>1. PICK i \in 1..Len(posQ) :
            IsPos(posQ[i]) /\ posQ[i].who = a /\ posQ[i].n = got[a].n
      BY <2>1 DEF Waits
    <3>2. CASE i = 1
      BY <3>1, <3>2
    <3>3. CASE i # 1
      <4>1. i - 1 \in 1..Len(posQ') /\ posQ'[i - 1] = posQ[i]
        BY <1>1, <3>3
      <4> QED BY <3>1, <4>1 DEF Waits, IsPos
    <3> QED BY <3>2, <3>3
  <2>2. CASE Waits(a, Unrouted)
    BY <2>2 DEF Waits
  <2>3. CASE cars[a].n = got[a].n \/ dropped[a] = got[a].n
    <3>1. a # h.who
      BY <1>2, <1>3, <1>4, <2>3
    <3> QED BY <2>3, <3>1
  <2> QED BY <2>1, <2>2, <2>3 DEF Order, Arriving
<1> QED BY <1>10, <1>11, <1>12, <1>13 DEF Order

LEMMA OrderNext ==
  ASSUME TypeOK, Routing, Order, [Next]_vars
  PROVE  Order'
<1>1. CASE \/ PostRequestPassword \/ WebsocketConn \/ TestLoop \/ Input
           \/ DrawCars \/ CloseSession \/ JoinThreads
           \/ SetHandleBatch \/ StartThreads \/ UNCHANGED vars
  <2>1. UNCHANGED <<posQ, got, routed, dropped, cars, wsQ>>
    BY <1>1 DEF PostRequestPassword, WebsocketConn, TestLoop, Input, DrawCars,
       CloseSession, JoinThreads, SetHandleBatch, StartThreads, vars,
       queues, screen, history
  <2>2. Unrouted' = Unrouted
    <3>1. CASE StartThreads
      BY <2>1, <3>1 DEF StartThreads, Unrouted, Routing
    <3>2. CASE relay' = relay
      BY <2>1, <3>2 DEF Unrouted
    <3> QED BY <1>1, <3>1, <3>2 DEF PostRequestPassword, WebsocketConn, TestLoop,
            Input, DrawCars, CloseSession, JoinThreads, SetHandleBatch,
            vars, threads
  <2> QED BY <2>1, <2>2, OrderIdle
<1>2. CASE PopRouted
  BY <1>2, PopEffect, OrderIdle DEF PopRouted, screen, history
<1>3. CASE Route
  BY <1>3, OrderRoute
<1>4. CASE HandlePosition
  <2>1. UNCHANGED <<got, routed, wsQ, relay>> /\ Unrouted' = Unrouted
    BY <1>4 DEF HandlePosition, Unrouted
  <2>2. CASE Nothing
    BY <2>1, <2>2, OrderIdle DEF Nothing
  <2>3. CASE Showing
    <3>1. posQ[1].who \in Players
      BY <2>3, TakeEffect DEF Showing
    <3>2. \A a \in Players :
            cars'[a].n = IF a = posQ[1].who THEN posQ[1].n ELSE cars[a].n
      BY <2>3, <3>1 DEF Showing, TypeOK
    <3> QED BY <2>1, <2>3, <3>2, OrderTake DEF Showing
  <2>4. CASE Skipping
    <3>1. posQ[1].who \in Players
      BY <2>4, TakeEffect DEF Skipping
    <3>2. \A a \in Players :
            dropped'[a] = IF a = posQ[1].who THEN posQ[1].n ELSE dropped[a]
      BY <2>4, <3>1 DEF Skipping, TypeOK
    <3> QED BY <2>1, <2>4, <3>2, OrderTake DEF Skipping
  <2> QED BY <1>4, <2>2, <2>3, <2>4, PositionEffect
<1>5. CASE HandleGui
  <2>1. UNCHANGED <<posQ, got, routed, dropped, wsQ, relay>>
    BY <1>5 DEF HandleGui
  <2>2. \A a \in Players : cars'[a].n = cars[a].n
    BY <1>5, GuiEffect
  <2> QED BY <2>1, <2>2, OrderIdle DEF Unrouted
<1>6. CASE Drop
  <2>1. UNCHANGED <<got, routed, cars, wsQ, relay>> /\ Unrouted' = Unrouted
    BY <1>6 DEF Drop, Unrouted
  <2>2. CASE ~(popped + 1 < Len(posQ))
    BY <1>6, <2>1, <2>2, OrderIdle DEF Drop
  <2>3. CASE popped + 1 < Len(posQ)
    <3>1. posQ # <<>> /\ Len(posQ) > 1
      BY <2>3 DEF TypeOK
    <3>2. posQ[1] = Head(posQ) /\ posQ[1].who \in Players
      BY <3>1, TakeEffect
    <3>3. /\ posQ' = Tail(posQ)
          /\ dropped' = [dropped EXCEPT ![posQ[1].who] = posQ[1].n]
      BY <1>6, <2>3, <3>2 DEF Drop
    <3>4. \A a \in Players :
            dropped'[a] = IF a = posQ[1].who THEN posQ[1].n ELSE dropped[a]
      BY <3>2, <3>3 DEF TypeOK
    <3> QED BY <2>1, <3>1, <3>3, <3>4, OrderTake
  <2> QED BY <2>2, <2>3
<1>7. CASE WakeRelay
  <2>1. Unrouted' = Append(Unrouted, Wake)
    BY <1>7, AppendEffect, MsgFacts DEF WakeRelay
  <2> QED BY <1>7, <2>1, OrderReceive, MsgFacts DEF WakeRelay, screen, history
<1>8. ASSUME NEW a \in Players, NEW k \in AllNewsKinds,
             NEW c \in Colors[a] \cup {0}, OnMessage(a, k, c)
      PROVE  Order'
  <2>0. c \in Nat
    BY <1>8, OnMessageStep
  <2>1. PICK n \in Nat :
           /\ n = IF k = "pos" THEN got[a].n + 1 ELSE got[a].n
           /\ wsQ' = Append(wsQ, Msg(k, a, n, c))
           /\ got' = [got EXCEPT ![a] = NewGot(got[a], k, n, c)]
    BY <1>8, OnMessageStep
  <2> DEFINE m == Msg(k, a, n, c)
  <2>2. m \in News /\ m \in Item /\ m.kind = k /\ m.who = a /\ m.n = n
    BY <2>0, MsgFacts DEF Item
  <2>3. relay' = relay /\ UNCHANGED <<posQ, cars, routed, dropped>>
    BY <1>8 DEF OnMessage, threads, screen
  <2>4. Unrouted' = Append(Unrouted, m)
    BY <2>1, <2>2, <2>3, AppendEffect
  <2>5. got'[a].n = n /\ \A b \in Players \ {a} : got'[b] = got[b]
    BY <2>1 DEF TypeOK, NewGot
  <2> HIDE DEF m
  <2> QED BY <2>1, <2>2, <2>3, <2>4, <2>5, OrderReceive DEF IsPos
<1> QED BY <1>1, <1>2, <1>3, <1>4, <1>5, <1>6, <1>7, <1>8
        DEF Next, GameStep, RelayStep

-----------------------------------------------------------------------------
LEMMA FramesNext ==
  ASSUME TypeOK, Routing, Filled, Greeting, [Next]_vars
  PROVE  Routing' /\ Filled' /\ Greeting'
<1>1. CASE \/ PostRequestPassword \/ WebsocketConn \/ TestLoop
           \/ DrawCars \/ CloseSession \/ JoinThreads
           \/ SetHandleBatch \/ UNCHANGED vars
  BY <1>1 DEF PostRequestPassword, WebsocketConn, TestLoop, DrawCars,
     CloseSession, JoinThreads, SetHandleBatch, vars, threads, queues, screen,
     history, Routing, Filled, Greeting, Known, Frame
<1>2. CASE StartThreads
  <2>1. texts' = [i \in 1..Lines |-> Own] /\ Len(texts') = Lines
    BY <1>2 DEF StartThreads
  <2> QED BY <1>2, <2>1 DEF StartThreads, Routing, Filled, Greeting, Known, queues,
          screen, history
<1>3. CASE PopRouted
  BY <1>3 DEF PopRouted, Routing, Filled, Greeting, Known, screen, history
<1>4. CASE Route
  <2>1. \A i \in 1..Len(posQ') : IsPos(posQ'[i])
    <3>1. CASE IsPos(Unrouted[1])
      <4>1. posQ' = Append(posQ, Unrouted[1]) /\ Unrouted[1] \in Item
        BY <1>4, <3>1, RouteEffect
      <4>2. posQ \in Seq(Item)
        BY QueueTypes
      <4> QED BY <3>1, <4>1, <4>2, AppendFacts DEF Routing
    <3>2. CASE ~IsPos(Unrouted[1])
      BY <1>4, <3>2, RouteEffect DEF Routing
    <3> QED BY <3>1, <3>2
  <2> QED BY <1>4, <2>1 DEF Route, Routing, Filled, Greeting, Known, screen
<1>5. CASE HandlePosition
  <2>1. \A i \in 1..Len(posQ') : IsPos(posQ'[i])
    <3>1. posQ' = posQ \/ (posQ # <<>> /\ posQ' = Tail(posQ))
      BY <1>5 DEF HandlePosition
    <3>2. CASE posQ' = posQ
      BY <3>2 DEF Routing
    <3>3. CASE posQ # <<>> /\ posQ' = Tail(posQ)
      BY <3>3, QueueTypes, TailFacts DEF Routing
    <3> QED BY <3>1, <3>2, <3>3
  <2>2. Greeting'
    <3>0. /\ Known \subseteq greeted \cup missed
          /\ greeted' = greeted /\ missed' = missed
      BY <1>5 DEF HandlePosition, Greeting
    <3>1. CASE cars' = cars
      BY <3>0, <3>1 DEF Greeting, Known
    <3>2. CASE Showing
      <4>1. \A a \in Players : cars'[a].here => cars[a].here \/ a = posQ[1].who
        BY <3>2 DEF Showing, TypeOK
      <4>2. CASE posQ[1].who \in Known
        BY <3>0, <4>1, <4>2 DEF Greeting, Known
      <4>3. CASE posQ[1].who \notin Known
        BY <3>2, <4>3 DEF Showing, Greeting
      <4> QED BY <4>2, <4>3
    <3> QED BY <1>5, <3>1, <3>2, PositionEffect DEF Nothing, Skipping
  <2>3. Filled'
    BY <1>5 DEF HandlePosition, Filled, Frame
  <2> QED BY <1>5, <2>1, <2>2, <2>3 DEF HandlePosition, Routing
<1>6. CASE HandleGui
  <2>1. Routing'
    BY <1>6 DEF HandleGui, Routing
  <2>2. Filled'
    <3>1. Len(texts) = Lines
      BY <1>6 DEF HandleGui, Filled, Frame
    <3>2. guiQ # <<>> => Head(guiQ) \in News
      BY NewsQueue DEF TypeOK
    <3>3. Len(texts') = Lines
      BY <1>6, <3>1, <3>2, ScrollType DEF HandleGui, GuiWaits, TypeOK
    <3> QED BY <3>3 DEF Filled
  <2>3. Greeting'
    <3>1. Known \subseteq greeted \cup missed =>
            Known' \subseteq greeted' \cup missed'
      BY <1>6, GuiEffect DEF Known
    <3> QED BY <1>6, <3>1 DEF HandleGui, Greeting
  <2> QED BY <2>1, <2>2, <2>3
<1>7. CASE Input
  <2>1. Len(texts) = Lines
    BY <1>7 DEF Input, Filled, Frame
  <2>2. Own \in News \cup [kind : {"own"}]
    BY DEF Own
  <2>3. Len(texts') = Lines
    BY <1>7, <2>1, <2>2, ScrollType DEF Input, TypeOK
  <2>4. Greeting'
    <3>1. UNCHANGED <<cars>>
      BY <1>7 DEF Input
    <3>2. CASE SendPosition
      BY <3>1, <3>2 DEF SendPosition, Greeting, Known
    <3>3. CASE ~move /\ UNCHANGED <<greeted, missed>>
      BY <3>1, <3>3 DEF Greeting, Known
    <3> QED BY <1>7, <3>2, <3>3 DEF Input
  <2> QED BY <1>7, <2>3, <2>4 DEF Input, Routing, Filled, queues, Frame
<1>8. CASE Drop
  <2>1. \A i \in 1..Len(posQ') : IsPos(posQ'[i])
    <3>1. CASE posQ' = posQ
      BY <3>1 DEF Routing
    <3>2. CASE posQ # <<>> /\ posQ' = Tail(posQ)
      BY <3>2, QueueTypes, TailFacts DEF Routing
    <3>3. popped + 1 < Len(posQ) => posQ # <<>>
      BY DEF TypeOK
    <3> QED BY <1>8, <3>1, <3>2, <3>3 DEF Drop
  <2> QED BY <1>8, <2>1 DEF Drop, Routing, Filled, Greeting, Known, Frame
<1>9. CASE WakeRelay
  <2>1. wsQ' # <<>>
    BY <1>9, QueueTypes, AppendFacts, MsgFacts DEF WakeRelay
  <2>2. Routing'
    BY <1>9, <2>1 DEF WakeRelay, Routing
  <2>3. Filled' /\ Greeting'
    BY <1>9 DEF WakeRelay, Filled, Greeting, Known, screen, history, Frame
  <2> QED BY <2>2, <2>3
<1>10. ASSUME NEW a \in Players, NEW k \in AllNewsKinds,
              NEW c \in Colors[a] \cup {0}, OnMessage(a, k, c)
       PROVE  Routing' /\ Filled' /\ Greeting'
  <2>1. wsQ' # <<>>
    <3>1. PICK n \in Nat : wsQ' = Append(wsQ, Msg(k, a, n, c))
      BY <1>10, OnMessageStep
    <3> QED BY SMTT(40), <3>1 DEF TypeOK
  <2> QED BY <1>10, <2>1 DEF OnMessage, Routing, Filled, Greeting, Known, threads,
          screen
<1> QED BY <1>1, <1>2, <1>3, <1>4, <1>5, <1>6, <1>7, <1>8, <1>9, <1>10
        DEF Next, GameStep, RelayStep

-----------------------------------------------------------------------------
\* The colors of a player in one queue, when it grows or is taken from.
LEMMA ColoredAppend ==
  ASSUME NEW q \in Seq(Item), NEW m \in Item, NEW a
  PROVE  Colored(Append(q, m), a) <=> (Colored(q, a) \/ IsColor(m, a))
<1> DEFINE r == Append(q, m)
<1>1. /\ Len(q) \in Nat /\ Len(r) = Len(q) + 1 /\ r[Len(q) + 1] = m
      /\ \A i \in 1..Len(q) : r[i] = q[i]
  BY AppendFacts
<1>2. Len(q) + 1 \in 1..Len(r) /\ \A i \in 1..Len(q) : i \in 1..Len(r)
  BY <1>1
<1>3. \A i \in 1..Len(r) : i \in 1..Len(q) \/ i = Len(q) + 1
  BY <1>1
<1> HIDE DEF r
<1>4. Colored(r, a) <=> (Colored(q, a) \/ IsColor(m, a))
  BY <1>1, <1>2, <1>3 DEF Colored
<1> QED BY <1>4 DEF r

LEMMA ColoredTail ==
  ASSUME NEW q \in Seq(Item), q # <<>>, NEW a
  PROVE  Colored(q, a) <=> (IsColor(q[1], a) \/ Colored(Tail(q), a))
<1> DEFINE r == Tail(q)
<1>1. /\ Len(q) \in Nat /\ Len(q) > 0 /\ Len(r) = Len(q) - 1
      /\ \A i \in 1..Len(r) : r[i] = q[i + 1]
  BY TailFacts
<1>2. /\ 1 \in 1..Len(q) /\ \A i \in 1..Len(r) : i + 1 \in 1..Len(q)
      /\ \A i \in 1..Len(q) : i = 1 \/ (i - 1 \in 1..Len(r) /\ r[i - 1] = q[i])
  BY <1>1
<1> HIDE DEF r
<1>3. Colored(r, a) => Colored(q, a)
  BY <1>1, <1>2 DEF Colored
<1>4. Colored(q, a) => IsColor(q[1], a) \/ Colored(r, a)
  BY <1>2 DEF Colored
<1>5. IsColor(q[1], a) => Colored(q, a)
  BY <1>2 DEF Colored
<1> QED BY <1>3, <1>4, <1>5 DEF r

LEMMA FollowedAppend ==
  ASSUME NEW q \in Seq(Item), NEW m \in Item, NEW a, NEW i \in 1..Len(q)
  PROVE  /\ Followed(q, i, a) => Followed(Append(q, m), i, a)
         /\ IsColor(m, a) => Followed(Append(q, m), i, a)
<1> DEFINE r == Append(q, m)
<1>1. /\ Len(q) \in Nat /\ Len(r) = Len(q) + 1 /\ r[Len(q) + 1] = m
      /\ \A j \in 1..Len(q) : r[j] = q[j] /\ j \in 1..Len(r)
  BY AppendFacts
<1>2. Len(q) + 1 \in 1..Len(r) /\ i < Len(q) + 1
  BY <1>1
<1> HIDE DEF r
<1>3. Followed(q, i, a) => Followed(r, i, a)
  BY <1>1 DEF Followed
<1>4. IsColor(m, a) => Followed(r, i, a)
  BY <1>1, <1>2 DEF Followed
<1> QED BY <1>3, <1>4 DEF r

LEMMA FollowedTail ==
  ASSUME NEW q \in Seq(Item), q # <<>>, NEW a, NEW i \in 1..Len(Tail(q)),
         Followed(q, i + 1, a)
  PROVE  Followed(Tail(q), i, a)
<1> DEFINE r == Tail(q)
<1>1. /\ Len(q) \in Nat /\ Len(q) > 0 /\ Len(r) = Len(q) - 1
      /\ \A j \in 1..Len(r) : r[j] = q[j + 1]
  BY TailFacts
<1>2. CASE q[i + 1].color = got[a].tint
  BY <1>1, <1>2 DEF Followed
<1>3. CASE \E j \in 1..Len(q) : i + 1 < j /\ IsColor(q[j], a)
  <2>1. PICK j \in 1..Len(q) : i + 1 < j /\ IsColor(q[j], a)
    BY <1>3
  <2>2. j - 1 \in 1..Len(r) /\ i < j - 1 /\ r[j - 1] = q[j]
    BY <1>1, <2>1
  <2> HIDE DEF r
  <2>3. Followed(r, i, a)
    BY <2>1, <2>2 DEF Followed
  <2> QED BY <2>3 DEF r
<1> QED BY <1>2, <1>3 DEF Followed

\* The first color of a queue, once it is taken out, is the last one or another
\* one follows.
LEMMA FollowedFirst ==
  ASSUME NEW q \in Seq(Item), q # <<>>, NEW a, Followed(q, 1, a)
  PROVE  q[1].color = got[a].tint \/ Colored(Tail(q), a)
<1>1. CASE \E j \in 1..Len(q) : 1 < j /\ IsColor(q[j], a)
  <2>1. PICK j \in 1..Len(q) : 1 < j /\ IsColor(q[j], a)
    BY <1>1
  <2>2. j - 1 \in 1..Len(Tail(q)) /\ Tail(q)[j - 1] = q[j]
    BY <2>1, TailFacts
  <2> QED BY <2>1, <2>2 DEF Colored
<1> QED BY <1>1 DEF Followed

-----------------------------------------------------------------------------
\* The colors, kept by each way the queues move.
LEMMA ColorIdle ==
  ASSUME ColorInv, UNCHANGED <<guiQ, got, cars>>, Unrouted' = Unrouted,
         Carries(posQ)'
  PROVE  ColorInv'
<1>1. Carries(Unrouted)'
  BY DEF ColorInv, Carries
<1>2. Following'
  BY DEF ColorInv, Following, Followed, Colored
<1>3. Settling'
  BY DEF ColorInv, Settling, Colored
<1> QED BY <1>1, <1>2, <1>3 DEF ColorInv

LEMMA ColorRoute ==
  ASSUME TypeOK, Routing, ColorInv, Route
  PROVE  ColorInv'
<1> DEFINE h == Unrouted[1]  t == Tail(Unrouted)
<1>1. /\ Unrouted # <<>> /\ Unrouted' = t /\ h \in Item
      /\ \/ posQ' = posQ
         \/ posQ' = Append(posQ, h)
      /\ \/ guiQ' = guiQ /\ h.kind \in {"pos", "empty", "junk"}
         \/ guiQ' = Append(guiQ, h)
      /\ UNCHANGED <<cars, got>>
  BY RouteEffect DEF Route, screen
<1>2. /\ Unrouted \in Seq(Item) /\ Len(Unrouted) \in Nat /\ Len(Unrouted) > 0
      /\ t \in Seq(Item) /\ Len(t) = Len(Unrouted) - 1
      /\ \A i \in 1..Len(t) : t[i] = Unrouted[i + 1]
      /\ 1 \in 1..Len(Unrouted)
      /\ \A i \in 1..Len(t) : i + 1 \in 1..Len(Unrouted)
  BY <1>1, QueueTypes, TailFacts
<1>3. posQ \in Seq(Item) /\ guiQ \in Seq(Item)
  BY QueueTypes
<1>4. Carries(posQ)'
  <2>1. CASE posQ' = posQ
    BY <1>1, <2>1 DEF ColorInv, Carries
  <2>2. CASE posQ' = Append(posQ, h)
    <3>1. /\ Len(posQ) \in Nat /\ Len(posQ') = Len(posQ) + 1
          /\ posQ'[Len(posQ) + 1] = h
          /\ \A i \in 1..Len(posQ) : posQ'[i] = posQ[i]
      BY <1>1, <1>3, <2>2, AppendFacts
    <3> SUFFICES ASSUME NEW i \in 1..Len(posQ'), IsPos(posQ'[i]),
                        posQ'[i].n = got[posQ'[i].who].n
                 PROVE  posQ'[i].color \in {0, got[posQ'[i].who].color}
      BY <1>1 DEF Carries
    <3>2. CASE i \in 1..Len(posQ)
      BY <3>1, <3>2 DEF ColorInv, Carries
    <3>3. CASE i = Len(posQ) + 1
      BY <1>2, <3>1, <3>3 DEF ColorInv, Carries
    <3>4. i \in 1..Len(posQ) \/ i = Len(posQ) + 1
      BY <3>1
    <3> QED BY <3>2, <3>3, <3>4
  <2> QED BY <1>1, <2>1, <2>2
<1>5. Carries(Unrouted)'
  BY SMTT(40), <1>1, <1>2 DEF ColorInv, Carries
<1>6. \A a \in Players : /\ Colored(Unrouted, a) => IsColor(h, a) \/ Colored(t, a)
                         /\ Colored(guiQ, a) => Colored(guiQ', a)
                         /\ IsColor(h, a) => Colored(guiQ', a)
  <2> TAKE a \in Players
  <2>1. Colored(Unrouted, a) => IsColor(h, a) \/ Colored(t, a)
    BY <1>1, <1>2, ColoredTail
  <2>2. IsColor(h, a) => guiQ' = Append(guiQ, h)
    BY <1>1 DEF IsColor
  <2>3. Colored(Append(guiQ, h), a) <=> (Colored(guiQ, a) \/ IsColor(h, a))
    BY <1>1, <1>3, ColoredAppend
  <2> QED BY <1>1, <2>1, <2>2, <2>3
<1>7. Settling'
  BY <1>1, <1>6 DEF ColorInv, Settling, Colored
<1>8. Following'
  <2> SUFFICES ASSUME NEW a \in Players
               PROVE  /\ \A i \in 1..Len(guiQ') :
                           IsColor(guiQ'[i], a) =>
                             Followed(guiQ', i, a) \/ Colored(t, a)
                      /\ \A i \in 1..Len(t) : IsColor(t[i], a) => Followed(t, i, a)
    BY <1>1 DEF Following, Followed, Colored
  <2>1. \A i \in 1..Len(t) : IsColor(t[i], a) => Followed(t, i, a)
    <3> SUFFICES ASSUME NEW i \in 1..Len(t), IsColor(t[i], a)
                 PROVE  Followed(t, i, a)
      OBVIOUS
    <3>1. Followed(Unrouted, i + 1, a)
      BY <1>2 DEF ColorInv, Following
    <3> QED BY <1>1, <1>2, <3>1, FollowedTail
  <2>2. ASSUME NEW i \in 1..Len(guiQ'), IsColor(guiQ'[i], a)
        PROVE  Followed(guiQ', i, a) \/ Colored(t, a)
    <3>1. CASE guiQ' = guiQ /\ h.kind \in {"pos", "empty", "junk"}
      <4>1. ~IsColor(h, a)
        BY <3>1 DEF IsColor
      <4>2. Followed(guiQ, i, a) \/ Colored(Unrouted, a)
        BY <2>2, <3>1 DEF ColorInv, Following
      <4> QED BY <1>6, <3>1, <4>1, <4>2
    <3>2. CASE guiQ' = Append(guiQ, h)
      <4>1. /\ Len(guiQ) \in Nat /\ Len(guiQ') = Len(guiQ) + 1
            /\ guiQ'[Len(guiQ) + 1] = h
            /\ \A j \in 1..Len(guiQ) : guiQ'[j] = guiQ[j]
        BY <1>1, <1>3, <3>2, AppendFacts
      <4>2. CASE i \in 1..Len(guiQ)
        <5>1. Followed(guiQ, i, a) \/ Colored(Unrouted, a)
          BY <2>2, <4>1, <4>2 DEF ColorInv, Following
        <5>2. /\ Followed(guiQ, i, a) => Followed(guiQ', i, a)
              /\ IsColor(h, a) => Followed(guiQ', i, a)
          BY <1>1, <1>3, <3>2, <4>2, FollowedAppend
        <5> QED BY <1>6, <5>1, <5>2
      <4>3. CASE i = Len(guiQ) + 1
        <5>1. IsColor(h, a)
          BY <2>2, <4>1, <4>3
        <5>2. Followed(Unrouted, 1, a)
          BY <1>2, <5>1 DEF ColorInv, Following
        <5>3. h.color = got[a].tint \/ Colored(t, a)
          BY <1>1, <1>2, <5>2, FollowedFirst
        <5>4. h.color = got[a].tint => Followed(guiQ', i, a)
          BY <4>1, <4>3 DEF Followed
        <5> QED BY <5>3, <5>4
      <4>4. i \in 1..Len(guiQ) \/ i = Len(guiQ) + 1
        BY <4>1
      <4> QED BY <4>2, <4>3, <4>4
    <3> QED BY <1>1, <3>1, <3>2
  <2> QED BY <2>1, <2>2
<1> QED BY <1>4, <1>5, <1>7, <1>8 DEF ColorInv

\* A position is shown.
LEMMA ColorShow ==
  ASSUME TypeOK, Routing, ColorInv, posQ # <<>>, posQ' = Tail(posQ),
         UNCHANGED <<guiQ, got>>, Unrouted' = Unrouted, posQ[1].color # 0,
         cars' = [cars EXCEPT ![posQ[1].who] =
                    [here |-> TRUE, n |-> posQ[1].n, color |-> posQ[1].color]]
  PROVE  ColorInv'
<1> DEFINE h == posQ[1]
<1>1. /\ Len(posQ) \in Nat /\ Len(posQ) > 0 /\ Len(posQ') = Len(posQ) - 1
      /\ \A i \in 1..Len(posQ') : posQ'[i] = posQ[i + 1]
      /\ 1 \in 1..Len(posQ) /\ \A i \in 1..Len(posQ') : i + 1 \in 1..Len(posQ)
  BY QueueTypes, TailFacts
<1>2. IsPos(h) /\ h.who \in Players
  BY TakeEffect
<1>3. \A a \in Players :
        cars'[a] = IF a = h.who THEN [here |-> TRUE, n |-> h.n, color |-> h.color]
                                ELSE cars[a]
  BY DEF TypeOK
<1>4. Carries(posQ)'
  BY SMTT(40), <1>1 DEF ColorInv, Carries
<1>5. Carries(Unrouted)'
  BY DEF ColorInv, Carries
<1>6. Following'
  BY DEF ColorInv, Following, Followed, Colored
<1>7. Settling'
  <2> SUFFICES ASSUME NEW a \in Players, cars'[a].here, cars'[a].n = got[a].n
               PROVE  \/ cars'[a].color \in {got[a].color, got[a].tint}
                      \/ Colored(guiQ, a) \/ Colored(Unrouted, a)
    BY DEF Settling, Colored
  <2>1. CASE a = h.who
    <3>1. cars'[a].n = h.n /\ cars'[a].color = h.color
      BY <1>3, <2>1
    <3> QED BY <1>1, <1>2, <2>1, <3>1 DEF ColorInv, Carries
  <2>2. CASE a # h.who
    BY <1>3, <2>2 DEF ColorInv, Settling
  <2> QED BY <2>1, <2>2
<1> QED BY <1>4, <1>5, <1>6, <1>7 DEF ColorInv

\* A message of the general queue is handled.
LEMMA ColorGui ==
  ASSUME TypeOK, Routing, ColorInv, HandleGui
  PROVE  ColorInv'
<1> DEFINE m == guiQ[1]
<1>0. UNCHANGED <<posQ, got>> /\ Unrouted' = Unrouted
  BY DEF HandleGui, Unrouted
<1>1. Carries(posQ)' /\ Carries(Unrouted)'
  BY <1>0 DEF ColorInv, Carries
<1>2. CASE UNCHANGED <<guiQ, cars>>
  BY <1>0, <1>1, <1>2, ColorIdle
<1>3. CASE guiQ # <<>> /\ ~UNCHANGED <<guiQ, cars>>
  <2>1. /\ guiQ' = Tail(guiQ) /\ m.who \in Players
        /\ \A a \in Players :
             /\ cars'[a].n = cars[a].n
             /\ cars'[a].here =
                  (cars[a].here /\ ~(m.kind = "exit" /\ a = m.who))
             /\ cars'[a].color =
                  IF m.kind = "color" /\ a = m.who /\ cars[a].here
                  THEN m.color ELSE cars[a].color
    BY <1>3, GuiEffect
  <2>2. /\ guiQ \in Seq(Item)
        /\ Len(guiQ) \in Nat /\ Len(guiQ) > 0 /\ Len(guiQ') = Len(guiQ) - 1
        /\ \A i \in 1..Len(guiQ') : guiQ'[i] = guiQ[i + 1]
        /\ 1 \in 1..Len(guiQ) /\ \A i \in 1..Len(guiQ') : i + 1 \in 1..Len(guiQ)
    BY <1>3, <2>1, QueueTypes, TailFacts
  <2>3. Following'
    <3> SUFFICES ASSUME NEW a \in Players
                 PROVE  /\ \A i \in 1..Len(guiQ') :
                             IsColor(guiQ'[i], a) =>
                               Followed(guiQ', i, a) \/ Colored(Unrouted, a)
                        /\ \A i \in 1..Len(Unrouted) :
                             IsColor(Unrouted[i], a) => Followed(Unrouted, i, a)
      BY <1>0 DEF Following, Followed, Colored
    <3>1. ASSUME NEW i \in 1..Len(guiQ'), IsColor(guiQ'[i], a)
          PROVE  Followed(guiQ', i, a) \/ Colored(Unrouted, a)
      <4>1. Followed(guiQ, i + 1, a) \/ Colored(Unrouted, a)
        BY <2>2, <3>1 DEF ColorInv, Following
      <4> QED BY <1>3, <2>1, <2>2, <4>1, FollowedTail
    <3> QED BY <3>1 DEF ColorInv, Following
  <2>4. Settling'
    <3> SUFFICES ASSUME NEW a \in Players, cars'[a].here, cars[a].n = got[a].n
                 PROVE  \/ cars'[a].color \in {got[a].color, got[a].tint}
                        \/ Colored(guiQ', a) \/ Colored(Unrouted, a)
      BY <1>0, <2>1 DEF Settling, Colored
    <3>1. cars[a].here
      BY <2>1
    <3>2. Colored(guiQ, a) => IsColor(m, a) \/ Colored(guiQ', a)
      BY <1>3, <2>1, <2>2, ColoredTail
    <3>3. CASE IsColor(m, a)
      <4>1. Followed(guiQ, 1, a) \/ Colored(Unrouted, a)
        BY <2>2, <3>3 DEF ColorInv, Following
      <4>2. Followed(guiQ, 1, a) =>
              m.color = got[a].tint \/ Colored(guiQ', a)
        BY <1>3, <2>1, <2>2, FollowedFirst
      <4>3. cars'[a].color = m.color
        BY <2>1, <3>1, <3>3 DEF IsColor
      <4> QED BY <4>1, <4>2, <4>3
    <3>4. CASE ~IsColor(m, a)
      <4>1. cars'[a].color = cars[a].color
        BY <2>1, <3>4 DEF IsColor
      <4> QED BY <3>1, <3>2, <3>4, <4>1 DEF ColorInv, Settling
    <3> QED BY <3>3, <3>4
  <2> QED BY <1>1, <2>3, <2>4 DEF ColorInv
<1> QED BY <1>2, <1>3, GuiEffect

\* A message is received.
LEMMA ColorReceive ==
  ASSUME TypeOK, Routing, Order, ColorInv, NEW a \in Players,
         NEW k \in AllNewsKinds, NEW c \in Colors[a] \cup {0}, OnMessage(a, k, c)
  PROVE  ColorInv'
<1>0. c \in Nat
  BY OnMessageStep
<1>1. PICK n \in Nat :
         /\ n = IF k = "pos" THEN got[a].n + 1 ELSE got[a].n
         /\ wsQ' = Append(wsQ, Msg(k, a, n, c))
         /\ got' = [got EXCEPT ![a] = NewGot(got[a], k, n, c)]
  BY OnMessageStep
<1> DEFINE m == Msg(k, a, n, c)
<1>2. /\ m \in Item /\ m.kind = k /\ m.who = a /\ m.n = n /\ m.color = c
  BY <1>0, MsgFacts DEF Item
<1>3. relay' = relay /\ UNCHANGED <<posQ, guiQ, cars>>
  BY DEF OnMessage, threads, screen
<1>4. Unrouted' = Append(Unrouted, m)
  BY <1>1, <1>2, <1>3, AppendEffect
<1>5. /\ got'[a].n = n
      /\ got'[a].color = IF k = "pos" /\ c # 0 THEN c ELSE got[a].color
      /\ got'[a].tint = IF k = "color" THEN c ELSE got[a].tint
      /\ \A b \in Players \ {a} : got'[b] = got[b]
  BY <1>1 DEF TypeOK, NewGot
<1>6. /\ Unrouted \in Seq(Item) /\ Len(Unrouted) \in Nat
      /\ Len(Unrouted') = Len(Unrouted) + 1
      /\ Unrouted'[Len(Unrouted) + 1] = m
      /\ \A i \in 1..Len(Unrouted) : Unrouted'[i] = Unrouted[i]
      /\ \A i \in 1..Len(Unrouted') :
           i \in 1..Len(Unrouted) \/ i = Len(Unrouted) + 1
  <2>1. Unrouted \in Seq(Item)
    BY QueueTypes
  <2> HIDE DEF m
  <2>2. /\ Len(Unrouted) \in Nat
        /\ Len(Unrouted') = Len(Unrouted) + 1
        /\ Unrouted'[Len(Unrouted) + 1] = m
        /\ \A i \in 1..Len(Unrouted) : Unrouted'[i] = Unrouted[i]
    BY <1>2, <1>4, <2>1, AppendFacts
  <2> QED BY <2>1, <2>2
<1> HIDE DEF m
<1>7. /\ \A i \in 1..Len(posQ) : posQ[i].who \in Players /\ posQ[i].n \in Nat
      /\ \A i \in 1..Len(Unrouted) :
           Unrouted[i].kind # "empty" => /\ Unrouted[i].who \in Players
                                         /\ Unrouted[i].n \in Nat
  BY QueueTypes, MsgFacts DEF Item
<1>8. /\ got[a].n \in Nat /\ cars[a].n \in Nat /\ cars[a].n <= got[a].n
  BY DEF TypeOK, Order, Behind
\* An older position is the newest one only when none was received.
<1>9. ASSUME NEW p \in Nat, p <= got[a].n, p = got'[a].n
      PROVE  /\ k # "pos" /\ p = got[a].n
             /\ got'[a].color = got[a].color
  BY <1>1, <1>5, <1>8, <1>9
<1>10. Carries(posQ)'
  <2> SUFFICES ASSUME NEW i \in 1..Len(posQ), IsPos(posQ[i]),
                      posQ[i].n = got'[posQ[i].who].n
               PROVE  posQ[i].color \in {0, got'[posQ[i].who].color}
    BY <1>3 DEF Carries
  <2>1. CASE posQ[i].who # a
    BY <1>5, <1>7, <2>1 DEF ColorInv, Carries
  <2>2. CASE posQ[i].who = a
    <3>1. posQ[i].n <= got[a].n
      BY <2>2 DEF Order, InLine, Ahead
    <3> QED BY <1>7, <1>9, <2>2, <3>1 DEF ColorInv, Carries
  <2> QED BY <2>1, <2>2
<1>11. Carries(Unrouted)'
  <2> SUFFICES ASSUME NEW i \in 1..Len(Unrouted'), IsPos(Unrouted'[i]),
                      Unrouted'[i].n = got'[Unrouted'[i].who].n
               PROVE  Unrouted'[i].color \in {0, got'[Unrouted'[i].who].color}
    BY DEF Carries
  <2>1. CASE i = Len(Unrouted) + 1
    BY <1>2, <1>5, <1>6, <2>1 DEF IsPos
  <2>2. CASE i \in 1..Len(Unrouted)
    <3>1. /\ Unrouted'[i] = Unrouted[i] /\ IsPos(Unrouted[i])
          /\ Unrouted[i].who \in Players /\ Unrouted[i].n \in Nat
      BY <1>6, <1>7, <2>2 DEF IsPos
    <3>2. CASE Unrouted[i].who # a
      BY SMTT(60), <1>5, <2>2, <3>1, <3>2 DEF ColorInv, Carries
    <3>3. CASE Unrouted[i].who = a
      <4>1. Unrouted[i].n <= got[a].n
        BY <2>2, <3>1, <3>3 DEF Order, InLine, Ahead
      <4>2. /\ Unrouted[i].n = got[a].n
            /\ got'[a].color = got[a].color
        BY <1>9, <3>1, <3>3, <4>1
      <4> QED BY <2>2, <3>1, <3>3, <4>2 DEF ColorInv, Carries
    <3> QED BY <3>2, <3>3
  <2> QED BY <1>6, <2>1, <2>2
<1>12. \A b \in Players :
         Colored(Unrouted', b) <=> (Colored(Unrouted, b) \/ IsColor(m, b))
  BY <1>2, <1>4, <1>6, ColoredAppend
<1>13. \A b \in Players : IsColor(m, b) \/ got'[b].tint = got[b].tint
  BY <1>1, <1>2, <1>5 DEF IsColor
<1>14. Settling'
  <2> SUFFICES ASSUME NEW b \in Players, cars[b].here, cars[b].n = got'[b].n
               PROVE  \/ cars[b].color \in {got'[b].color, got'[b].tint}
                      \/ Colored(guiQ, b) \/ Colored(Unrouted', b)
    BY <1>3 DEF Settling, Colored
  <2>1. CASE b # a
    BY <1>5, <1>12, <2>1 DEF ColorInv, Settling
  <2>2. CASE b = a
    BY <1>8, <1>9, <1>12, <1>13, <2>2 DEF ColorInv, Settling
  <2> QED BY <2>1, <2>2
<1>15. Following'
  <2> SUFFICES ASSUME NEW b \in Players
               PROVE  /\ \A i \in 1..Len(guiQ) :
                           IsColor(guiQ[i], b) =>
                             Followed(guiQ, i, b)' \/ Colored(Unrouted', b)
                      /\ \A i \in 1..Len(Unrouted') :
                           IsColor(Unrouted'[i], b) => Followed(Unrouted, i, b)'
    BY <1>3 DEF Following, Followed, Colored
  <2>1. ASSUME NEW i \in 1..Len(guiQ), IsColor(guiQ[i], b)
        PROVE  Followed(guiQ, i, b)' \/ Colored(Unrouted', b)
    <3>1. Followed(guiQ, i, b) \/ Colored(Unrouted, b)
      BY <2>1 DEF ColorInv, Following
    <3>2. CASE IsColor(m, b)
      BY <1>12, <3>2
    <3>3. CASE got'[b].tint = got[b].tint
      BY <1>3, <1>12, <3>1, <3>3 DEF Followed
    <3> QED BY <1>13, <3>2, <3>3
  <2>2. ASSUME NEW i \in 1..Len(Unrouted'), IsColor(Unrouted'[i], b)
        PROVE  Followed(Unrouted, i, b)'
    <3>1. CASE i = Len(Unrouted) + 1
      BY <1>2, <1>5, <1>6, <2>2, <3>1 DEF Followed, IsColor
    <3>2. CASE i \in 1..Len(Unrouted)
      <4>1. Followed(Unrouted, i, b)
        BY <1>6, <2>2, <3>2 DEF ColorInv, Following
      <4>2. /\ Followed(Unrouted, i, b) => Followed(Unrouted', i, b)
            /\ IsColor(m, b) =>
                 \E j \in 1..Len(Unrouted') : i < j /\ IsColor(Unrouted'[j], b)
        <5>1. Followed(Unrouted, i, b) => Followed(Append(Unrouted, m), i, b)
          BY <1>2, <1>6, <3>2, FollowedAppend
        <5>2. /\ Len(Unrouted) + 1 \in 1..Len(Unrouted')
              /\ i < Len(Unrouted) + 1
          BY <1>6, <3>2
        <5> QED BY <1>4, <1>6, <5>1, <5>2
      <4>3. CASE IsColor(m, b)
        BY <4>2, <4>3 DEF Followed
      <4>4. CASE got'[b].tint = got[b].tint
        BY <4>1, <4>2, <4>4 DEF Followed
      <4> QED BY <1>13, <4>3, <4>4
    <3> QED BY <1>6, <3>1, <3>2
  <2> QED BY <2>1, <2>2
<1> QED BY <1>10, <1>11, <1>14, <1>15 DEF ColorInv

-----------------------------------------------------------------------------
\* What is in a queue was heard, when it grows or is taken from.
LEMMA ToldAppend ==
  ASSUME NEW q \in Seq(Item), NEW m \in Item, m \in heard \cup {Wake}, Told(q)
  PROVE  Told(Append(q, m))
<1> DEFINE r == Append(q, m)
<1>1. /\ Len(q) \in Nat /\ Len(r) = Len(q) + 1 /\ r[Len(q) + 1] = m
      /\ \A i \in 1..Len(q) : r[i] = q[i]
  BY AppendFacts
<1> HIDE DEF r
<1>2. \A i \in 1..Len(r) : i \in 1..Len(q) \/ i = Len(q) + 1
  BY <1>1
<1>3. Told(r)
  BY <1>1, <1>2 DEF Told
<1> QED BY <1>3 DEF r

LEMMA ToldTail ==
  ASSUME NEW q \in Seq(Item), q # <<>>, Told(q)
  PROVE  /\ Told(Tail(q))
         /\ q[1] \in heard \cup {Wake}
<1>1. /\ Len(q) \in Nat /\ Len(q) > 0 /\ Len(Tail(q)) = Len(q) - 1
      /\ \A i \in 1..Len(Tail(q)) : Tail(q)[i] = q[i + 1]
      /\ 1 \in 1..Len(q) /\ \A i \in 1..Len(Tail(q)) : i + 1 \in 1..Len(q)
  BY TailFacts
<1> QED BY <1>1 DEF Told

LEMMA HeardNext ==
  ASSUME TypeOK, Routing, HeardInv, [Next]_vars
  PROVE  HeardInv'
<1>0. /\ posQ \in Seq(Item) /\ guiQ \in Seq(Item) /\ Unrouted \in Seq(Item)
      /\ heard \subseteq News
  BY QueueTypes DEF TypeOK
<1>1. CASE \/ PostRequestPassword \/ WebsocketConn \/ TestLoop \/ Input
           \/ DrawCars \/ CloseSession \/ JoinThreads
           \/ SetHandleBatch \/ StartThreads \/ PopRouted \/ UNCHANGED vars
  <2>1. UNCHANGED <<posQ, guiQ, got, heard>>
    BY <1>1 DEF PostRequestPassword, WebsocketConn, TestLoop, Input, DrawCars,
       CloseSession, JoinThreads, SetHandleBatch, StartThreads,
       PopRouted, vars, queues, screen, history
  <2>2. Unrouted' = Unrouted
    <3>1. CASE StartThreads
      BY <3>1 DEF StartThreads, Unrouted, Routing, queues
    <3>2. CASE PopRouted
      BY <3>2, PopEffect
    <3>3. CASE UNCHANGED <<wsQ, relay>>
      BY <3>3 DEF Unrouted
    <3> QED BY <1>1, <3>1, <3>2, <3>3 DEF PostRequestPassword, WebsocketConn,
            TestLoop, Input, DrawCars, CloseSession, JoinThreads,
            SetHandleBatch, vars, threads, queues
  <2> QED BY <2>1, <2>2 DEF HeardInv, Told
<1>2. CASE Route
  <2> DEFINE h == Unrouted[1]
  <2>1. /\ Unrouted # <<>> /\ Unrouted' = Tail(Unrouted) /\ h \in Item
        /\ posQ' = posQ \/ posQ' = Append(posQ, h)
        /\ guiQ' = guiQ \/ guiQ' = Append(guiQ, h)
        /\ UNCHANGED <<got, heard>>
    BY <1>2, RouteEffect DEF Route
  <2>2. h \in heard \cup {Wake} /\ Told(Tail(Unrouted))
    BY <1>0, <2>1, ToldTail DEF HeardInv
  <2> HIDE DEF h
  <2>3. Told(Append(posQ, h)) /\ Told(Append(guiQ, h))
    BY <1>0, <2>1, <2>2, ToldAppend DEF HeardInv
  <2> QED BY <2>1, <2>2, <2>3 DEF HeardInv, Told
<1>3. CASE HandlePosition \/ HandleGui \/ Drop
  <2>1. UNCHANGED <<got, heard>> /\ Unrouted' = Unrouted
    BY <1>3 DEF HandlePosition, HandleGui, Drop, history, Unrouted
  <2>2. /\ posQ' = posQ \/ (posQ # <<>> /\ posQ' = Tail(posQ))
        /\ guiQ' = guiQ \/ (guiQ # <<>> /\ guiQ' = Tail(guiQ))
    <3>1. popped + 1 < Len(posQ) => posQ # <<>>
      BY DEF TypeOK
    <3> QED BY <1>3, <3>1 DEF HandlePosition, HandleGui, GuiWaits, Drop
  <2>3. /\ posQ # <<>> => Told(Tail(posQ))
        /\ guiQ # <<>> => Told(Tail(guiQ))
    BY <1>0, ToldTail DEF HeardInv
  <2> QED BY <2>1, <2>2, <2>3 DEF HeardInv, Told
<1>4. CASE WakeRelay
  <2>1. Unrouted' = Append(Unrouted, Wake) /\ UNCHANGED <<posQ, guiQ, got, heard>>
    BY <1>4, AppendEffect, MsgFacts DEF WakeRelay, history
  <2>2. Told(Append(Unrouted, Wake))
    BY <1>0, MsgFacts, ToldAppend DEF HeardInv
  <2> QED BY <2>1, <2>2 DEF HeardInv, Told
<1>5. ASSUME NEW a \in Players, NEW k \in AllNewsKinds,
             NEW c \in Colors[a] \cup {0}, OnMessage(a, k, c)
      PROVE  HeardInv'
  <2>1. c \in Nat
    BY <1>5, OnMessageStep
  <2>2. PICK n \in Nat :
           /\ n = IF k = "pos" THEN got[a].n + 1 ELSE got[a].n
           /\ wsQ' = Append(wsQ, Msg(k, a, n, c))
           /\ heard' = heard \cup {Msg(k, a, n, c)}
           /\ got' = [got EXCEPT ![a] = NewGot(got[a], k, n, c)]
    BY <1>5, OnMessageStep
  <2> DEFINE m == Msg(k, a, n, c)
  <2>3. m \in Item /\ m.who = a /\ m.n = n
    BY <2>1, MsgFacts DEF Item
  <2>4. relay' = relay /\ UNCHANGED <<posQ, guiQ>>
    BY <1>5 DEF OnMessage, threads
  <2>5. Unrouted' = Append(Unrouted, m)
    BY <2>2, <2>3, <2>4, AppendEffect
  <2>6. heard' = heard \cup {m}
    BY <2>2
  <2>7. \A b \in Players : /\ got[b].n \in Nat
                           /\ got'[b].n = IF b = a THEN n ELSE got[b].n
    BY <2>2 DEF TypeOK, NewGot
  <2> HIDE DEF m
  <2>8. Told(posQ)' /\ Told(guiQ)'
    BY <2>4, <2>6 DEF HeardInv, Told
  <2>9. Told(Unrouted)'
    <3>1. /\ Len(Unrouted) \in Nat /\ Len(Unrouted') = Len(Unrouted) + 1
          /\ Unrouted'[Len(Unrouted) + 1] = m
          /\ \A i \in 1..Len(Unrouted) : Unrouted'[i] = Unrouted[i]
      BY <1>0, <2>3, <2>5, AppendFacts
    <3>2. \A i \in 1..Len(Unrouted') : i \in 1..Len(Unrouted) \/ i = Len(Unrouted) + 1
      BY <3>1
    <3> QED BY <2>6, <3>1, <3>2 DEF HeardInv, Told
  <2>10. ASSUME NEW o \in heard' PROVE o.n <= got'[o.who].n
    <3>1. CASE o = m
      BY <2>3, <2>7, <3>1
    <3>2. CASE o \in heard
      <4>1. o.who \in Players /\ o.n \in Nat /\ o.n <= got[o.who].n
        BY <1>0, <3>2 DEF News, HeardInv
      <4> QED BY <2>2, <2>7, <4>1
    <3> QED BY <2>6, <2>10, <3>1, <3>2
  <2> QED BY <2>8, <2>9, <2>10 DEF HeardInv
<1> QED BY <1>1, <1>2, <1>3, <1>4, <1>5 DEF Next, GameStep, RelayStep

\* The threads that the game waits for can end.
LEMMA LeavingNext ==
  ASSUME TypeOK, Routing, Leaving, [Next]_vars
  PROVE  Leaving'
<1>1. CASE \/ PostRequestPassword \/ WebsocketConn \/ StartThreads \/ TestLoop
           \/ DrawCars \/ CloseSession \/ JoinThreads
           \/ SetHandleBatch \/ Input \/ UNCHANGED vars
  <2>1. CASE StartThreads
    BY <2>1 DEF StartThreads, Leaving
  <2>2. CASE Input
    BY <2>2 DEF Input, Leaving, queues, Frame
  <2>3. CASE CloseSession
    BY <2>3 DEF CloseSession, Leaving, queues
  <2>4. CASE SetHandleBatch
    BY <2>4 DEF SetHandleBatch, Leaving, queues
  <2>5. CASE PostRequestPassword \/ WebsocketConn \/ JoinThreads
    BY <2>5 DEF PostRequestPassword, WebsocketConn, JoinThreads, Leaving, Frame
  <2>6. CASE TestLoop \/ DrawCars \/ UNCHANGED vars
    BY <2>6 DEF TestLoop, DrawCars, vars, threads, queues, Leaving, Frame
  <2> QED BY <1>1, <2>1, <2>2, <2>3, <2>4, <2>5, <2>6
<1>2. CASE HandlePosition \/ HandleGui \/ Drop
  BY <1>2 DEF HandlePosition, HandleGui, Drop, Leaving, Frame
<1>3. CASE Route \/ PopRouted
  BY <1>3 DEF Route, PopRouted, Leaving, screen
<1>4. CASE WakeRelay
  <2>1. wsQ' # <<>>
    BY <1>4, QueueTypes, AppendFacts, MsgFacts DEF WakeRelay
  <2> QED BY <1>4, <2>1 DEF WakeRelay, Leaving, Frame
<1>5. ASSUME NEW a \in Players, NEW k \in AllNewsKinds,
             NEW c \in Colors[a] \cup {0}, OnMessage(a, k, c)
      PROVE  Leaving'
  BY <1>5 DEF OnMessage, Leaving, threads, Frame
<1> QED BY <1>1, <1>2, <1>3, <1>4, <1>5 DEF Next, GameStep, RelayStep

-----------------------------------------------------------------------------
LEMMA InitInv == Init => IInv
<1> SUFFICES ASSUME Init PROVE IInv
  OBVIOUS
<1>1. /\ TypeOK /\ posQ = <<>> /\ guiQ = <<>> /\ Unrouted = <<>>
      /\ routed = Wake /\ Known = {}
      /\ \A a \in Players : /\ cars[a].n = 0 /\ got[a].n = 0 /\ dropped[a] = 0
                            /\ ~cars[a].here
  BY InitType DEF Init, Unrouted, Known
<1>2. Routing /\ Filled /\ Behind /\ Greeting
  BY <1>1 DEF Init, Routing, Filled, Behind, Greeting, Frame
<1>3. InLine /\ NewestLast /\ Arriving
  BY <1>1 DEF InLine, Rising, Ahead, NewestLast, Arriving
<1>4. ColorInv
  BY <1>1 DEF ColorInv, Carries, Following, Settling
<1>5. HeardInv /\ Leaving
  BY <1>1 DEF Init, HeardInv, Told, Leaving, Frame
<1> QED BY <1>1, <1>2, <1>3, <1>4, <1>5 DEF IInv, OrderInv

LEMMA ColorNext ==
  ASSUME TypeOK, Routing, Order, ColorInv, [Next]_vars
  PROVE  ColorInv'
<1>1. CASE \/ PostRequestPassword \/ WebsocketConn \/ TestLoop \/ Input
           \/ DrawCars \/ CloseSession \/ JoinThreads
           \/ SetHandleBatch \/ StartThreads \/ UNCHANGED vars
  <2>1. UNCHANGED <<posQ, guiQ, got, cars, wsQ>>
    BY <1>1 DEF PostRequestPassword, WebsocketConn, TestLoop, Input, DrawCars,
       CloseSession, JoinThreads, SetHandleBatch, StartThreads, vars,
       queues, screen, history
  <2>2. Unrouted' = Unrouted
    <3>1. CASE StartThreads
      BY <2>1, <3>1 DEF StartThreads, Unrouted, Routing
    <3>2. CASE relay' = relay
      BY <2>1, <3>2 DEF Unrouted
    <3> QED BY <1>1, <3>1, <3>2 DEF PostRequestPassword, WebsocketConn, TestLoop,
            Input, DrawCars, CloseSession, JoinThreads, SetHandleBatch,
            vars, threads
  <2>3. Carries(posQ)'
    BY <2>1 DEF ColorInv, Carries
  <2> QED BY <2>1, <2>2, <2>3, ColorIdle
<1>2. CASE PopRouted
  <2>1. UNCHANGED <<posQ, guiQ, got, cars>> /\ Unrouted' = Unrouted
    BY <1>2, PopEffect DEF PopRouted, screen, history
  <2>2. Carries(posQ)'
    BY <2>1 DEF ColorInv, Carries
  <2> QED BY <2>1, <2>2, ColorIdle
<1>3. CASE Route
  BY <1>3, ColorRoute
<1>4. CASE HandlePosition
  <2>1. UNCHANGED <<got, guiQ, wsQ, relay>> /\ Unrouted' = Unrouted
    BY <1>4 DEF HandlePosition, history, Unrouted
  <2>2. CASE Nothing
    <3>1. Carries(posQ)'
      BY <2>1, <2>2 DEF ColorInv, Carries, Nothing
    <3> QED BY <2>1, <2>2, <3>1, ColorIdle DEF Nothing
  <2>3. CASE Showing
    BY <2>1, <2>3, ColorShow DEF Showing
  <2>4. CASE Skipping
    <3>1. \A i \in 1..Len(posQ') :
            posQ'[i] = posQ[i + 1] /\ i + 1 \in 1..Len(posQ)
      BY <2>4, QueueTypes, TailFacts DEF Skipping
    <3>2. Carries(posQ)'
      BY <2>1, <3>1 DEF ColorInv, Carries
    <3> QED BY <2>1, <2>4, <3>2, ColorIdle DEF Skipping
  <2> QED BY <1>4, <2>2, <2>3, <2>4, PositionEffect
<1>5. CASE HandleGui
  BY <1>5, ColorGui
<1>6. CASE Drop
  <2>1. UNCHANGED <<got, cars, guiQ>> /\ Unrouted' = Unrouted
    BY <1>6 DEF Drop, Unrouted
  <2>2. Carries(posQ)'
    <3>1. popped + 1 < Len(posQ) => posQ # <<>>
      BY DEF TypeOK
    <3>2. CASE posQ' = posQ
      BY <2>1, <3>2 DEF ColorInv, Carries
    <3>3. CASE posQ # <<>> /\ posQ' = Tail(posQ)
      <4>1. \A i \in 1..Len(posQ') :
              posQ'[i] = posQ[i + 1] /\ i + 1 \in 1..Len(posQ)
        BY <3>3, QueueTypes, TailFacts
      <4> QED BY <2>1, <4>1 DEF ColorInv, Carries
    <3> QED BY <1>6, <3>1, <3>2, <3>3 DEF Drop
  <2> QED BY <2>1, <2>2, ColorIdle
<1>7. CASE WakeRelay
  <2>1. Unrouted' = Append(Unrouted, Wake) /\ Unrouted \in Seq(Item)
    BY <1>7, AppendEffect, MsgFacts, QueueTypes DEF WakeRelay
  <2>2. UNCHANGED <<posQ, guiQ, got, cars>>
    BY <1>7 DEF WakeRelay, screen, history
  <2>3. /\ Len(Unrouted) \in Nat /\ Len(Unrouted') = Len(Unrouted) + 1
        /\ Unrouted'[Len(Unrouted) + 1] = Wake
        /\ \A i \in 1..Len(Unrouted) : Unrouted'[i] = Unrouted[i]
    BY <2>1, MsgFacts, AppendFacts
  <2>4. \A i \in 1..Len(Unrouted') :
          \/ i \in 1..Len(Unrouted) /\ Unrouted'[i] = Unrouted[i]
          \/ Unrouted'[i].kind = "empty"
    BY <2>3, MsgFacts
  <2>5. Carries(posQ)' /\ Carries(Unrouted)'
    BY <2>2, <2>4 DEF ColorInv, Carries, IsPos
  <2>6. \A a \in Players : Colored(Unrouted', a) <=> Colored(Unrouted, a)
    BY <2>1, MsgFacts, ColoredAppend DEF IsColor
  <2>7. Settling'
    BY <2>2, <2>6 DEF ColorInv, Settling, Colored
  <2>8. Following'
    <3>1. ASSUME NEW a \in Players, NEW i \in 1..Len(Unrouted'),
                 IsColor(Unrouted'[i], a)
          PROVE  Followed(Unrouted', i, a)
      <4>1. i \in 1..Len(Unrouted) /\ Unrouted'[i] = Unrouted[i]
        BY <2>4, <3>1 DEF IsColor
      <4>2. Followed(Unrouted, i, a)
        BY <3>1, <4>1 DEF ColorInv, Following
      <4>3. Followed(Append(Unrouted, Wake), i, a)
        BY <2>1, <4>1, <4>2, MsgFacts, FollowedAppend
      <4> QED BY <2>1, <4>3
    <3> QED BY <2>2, <2>6, <3>1 DEF ColorInv, Following, Followed, Colored
  <2> QED BY <2>5, <2>7, <2>8 DEF ColorInv
<1>8. ASSUME NEW a \in Players, NEW k \in AllNewsKinds,
             NEW c \in Colors[a] \cup {0}, OnMessage(a, k, c)
      PROVE  ColorInv'
  BY <1>8, ColorReceive
<1> QED BY <1>1, <1>2, <1>3, <1>4, <1>5, <1>6, <1>7, <1>8
        DEF Next, GameStep, RelayStep

LEMMA NextInv == IInv /\ [Next]_vars => IInv'
<1> SUFFICES ASSUME IInv, [Next]_vars PROVE IInv'
  OBVIOUS
<1>1. /\ TypeOK /\ Routing /\ Filled /\ Greeting /\ Order /\ ColorInv
  BY DEF IInv, OrderInv, Order
<1>2. TypeOK' /\ Routing' /\ Filled' /\ Greeting' /\ Order' /\ ColorInv'
  BY <1>1, NextType, FramesNext, OrderNext, ColorNext
<1>3. HeardInv' /\ Leaving'
  BY <1>1, HeardNext, LeavingNext DEF IInv
<1> QED BY <1>2, <1>3 DEF IInv, OrderInv, Order

\* The invariant holds in every reachable state.
THEOREM Invariance == Spec => []IInv
<1> QED BY InitInv, NextInv, PTL DEF Spec

-----------------------------------------------------------------------------
\* Handling a message of the general queue paints a car, removes it, or leaves
\* the screen as it is.
LEMMA GuiOnScreen ==
  ASSUME TypeOK, Routing, HeardInv, HandleGui, cars' # cars
  PROVE  Shown!Paint \/ Shown!Remove
<1> DEFINE m == Head(guiQ)  w == m.who
           r == [here |-> cars[w].here /\ m.kind # "exit", n |-> cars[w].n,
                 color |-> IF m.kind = "color" /\ cars[w].here
                             THEN m.color ELSE cars[w].color]
<1>1. guiQ # <<>> /\ cars' = [cars EXCEPT ![w] = r] /\ heard' = heard
  BY DEF HandleGui, GuiWaits
<1>2. m = guiQ[1] /\ guiQ[1] \in News /\ guiQ \in Seq(Item)
  BY <1>1, QueueTypes, TailFacts, NewsQueue DEF TypeOK
<1>3. m \in heard
  <2>1. m \in heard \cup {Wake}
    BY <1>1, <1>2, ToldTail DEF HeardInv
  <2>2. m # Wake
    <3>1. m.kind # "empty"
      BY <1>2 DEF News, AllNewsKinds
    <3> QED BY <3>1, MsgFacts
  <2> QED BY <2>1, <2>2
<1>4. w \in Players /\ cars \in [Players -> Car] /\ cars[w] \in Car
  BY <1>2 DEF News, TypeOK, Car
<1> HIDE DEF m
<1>5. r # cars[w]
  BY <1>1, <1>4
<1>6. cars[w].here /\ m.kind \in {"color", "exit"}
  BY <1>4, <1>5 DEF Car
<1>7. CASE m.kind = "color"
  <2>1. r = [cars[w] EXCEPT !.color = m.color]
    BY <1>4, <1>6, <1>7 DEF Car
  <2>2. cars' = [cars EXCEPT ![w].color = m.color]
    BY <1>1, <1>4, <2>1
  <2> QED BY <1>1, <1>3, <1>6, <1>7, <2>2 DEF Shown!Paint
<1>8. CASE m.kind = "exit"
  <2> DEFINE f == [here |-> FALSE, n |-> cars[w].n, color |-> cars[w].color]
  <2>1. r = f
    BY <1>6, <1>8
  <2>2. [cars[w] EXCEPT !.here = FALSE] = f
    <3> DEFINE e == [cars[w] EXCEPT !.here = FALSE]
    <3>1. e \in Car /\ f \in Car
      BY <1>4 DEF Car
    <3>2. e.here = f.here /\ e.n = f.n /\ e.color = f.color
      BY <1>4 DEF Car
    <3> HIDE DEF e, f
    <3>3. e = f
      BY <3>1, <3>2 DEF Car
    <3> QED BY <3>3 DEF e
  <2>3. cars' = [cars EXCEPT ![w].here = FALSE]
    BY <1>1, <1>4, <2>1, <2>2
  <2> QED BY <1>1, <1>3, <1>6, <1>8, <2>3 DEF Shown!Remove
<1> QED BY <1>6, <1>7, <1>8

\* A position from the queue that changes the screen is shown there.
LEMMA PositionOnScreen ==
  ASSUME TypeOK, Routing, InLine, HeardInv, HandlePosition, cars' # cars
  PROVE  Shown!Show
<1> DEFINE m == posQ[1]
<1>0. Showing
  BY PositionEffect DEF Nothing, Skipping
<1>1. posQ # <<>> /\ IsPos(m) /\ m.who \in Players /\ m.n \in Nat
  BY <1>0, TakeEffect DEF Showing
<1>2. cars' = [cars EXCEPT ![m.who] =
                 [here |-> TRUE, n |-> m.n, color |-> m.color]]
  BY <1>0 DEF Showing
<1>3. heard' = heard
  BY DEF HandlePosition, history
<1>4. posQ \in Seq(Item) /\ 1 \in 1..Len(posQ)
  BY <1>1, QueueTypes, TailFacts
<1>5. m \in heard
  <2>1. m \in heard \cup {Wake}
    BY <1>1, <1>4, ToldTail DEF HeardInv
  <2> QED BY <1>1, <2>1, MsgFacts DEF IsPos
<1>6. cars[m.who].n < m.n
  BY <1>1, <1>4 DEF InLine, Ahead
<1> HIDE DEF m
<1> QED BY <1>1, <1>2, <1>3, <1>5, <1>6 DEF Shown!Show, IsPos

\* A message that arrives is heard.
LEMMA MessageHeard ==
  ASSUME TypeOK, HeardInv, NEW a \in Players, NEW k \in AllNewsKinds,
         NEW c \in Colors[a] \cup {0}, OnMessage(a, k, c)
  PROVE  Shown!Hear
<1>1. c \in Nat
  BY OnMessageStep
<1>2. PICK n \in Nat : /\ n = IF k = "pos" THEN got[a].n + 1 ELSE got[a].n
                       /\ heard' = heard \cup {Msg(k, a, n, c)}
  BY OnMessageStep
<1> DEFINE m == Msg(k, a, n, c)
<1>3. m \in News /\ m.kind = k /\ m.who = a /\ m.n = n
  BY <1>1, MsgFacts
<1>4. cars' = cars /\ heard' = heard \cup {m}
  BY <1>2 DEF OnMessage, screen
<1> HIDE DEF m
<1>5. m \in Shown!News
  BY <1>3 DEF News, Shown!News, AllNewsKinds
<1>6. ASSUME m.kind = "pos", NEW o \in heard, o.who = m.who PROVE o.n < m.n
  <2>1. o.n \in Nat /\ got[a].n \in Nat /\ o.n <= got[a].n
    BY <1>3, <1>6 DEF TypeOK, News, HeardInv
  <2> QED BY <1>2, <1>3, <1>6, <2>1
<1> QED BY <1>4, <1>5, <1>6 DEF Shown!Hear

\* The queues between the session and the screen implement the abstract screen:
\* each step of the program hears, shows, paints or removes one thing, or changes
\* nothing that the player sees.
THEOREM ScreenRefinement == Spec => KeepsScreen
<1>1. Init => Shown!Init
  BY DEF Init, Shown!Init
<1>2. IInv /\ [Next]_vars => [Shown!Next]_<<heard, cars>>
  <2> SUFFICES ASSUME IInv, [Next]_vars, ~UNCHANGED <<heard, cars>>
               PROVE  Shown!Next
    OBVIOUS
  <2>1. TypeOK /\ Routing /\ InLine /\ HeardInv
    BY DEF IInv, OrderInv
  <2>2. CASE HandleGui
    <3>1. heard' = heard
      BY <2>2 DEF HandleGui
    <3> QED BY <2>1, <2>2, <3>1, GuiOnScreen DEF Shown!Next
  <2>3. CASE HandlePosition
    <3>1. heard' = heard /\ cars' # cars
      BY <2>3 DEF HandlePosition
    <3> QED BY <2>1, <2>3, <3>1, PositionOnScreen DEF Shown!Next
  <2>4. ASSUME NEW a \in Players, NEW k \in AllNewsKinds,
               NEW c \in Colors[a] \cup {0}, OnMessage(a, k, c)
        PROVE  Shown!Next
    BY <2>1, <2>4, MessageHeard DEF Shown!Next
  <2>5. \/ HandleGui \/ HandlePosition
        \/ \E a \in Players, k \in AllNewsKinds :
             \E c \in Colors[a] \cup {0} : OnMessage(a, k, c)
    BY DEF Next, GameStep, RelayStep, PostRequestPassword, WebsocketConn, TestLoop,
       Input, DrawCars, CloseSession, JoinThreads, SetHandleBatch,
       StartThreads, Route, PopRouted, Drop, WakeRelay, queues, screen, history,
       vars
  <2> QED BY <2>2, <2>3, <2>4, <2>5
<1> QED BY <1>1, <1>2, Invariance, PTL DEF Spec, KeepsScreen, Shown!Spec

\* In particular a player's car is never shown at an earlier position than before,
\* whatever the relay, the batch and exits do in between.
THEOREM CarsGoForward ==
  Spec => [][\A a \in Players : cars'[a].n >= cars[a].n]_vars
<1>1. IInv /\ [Shown!Next]_<<heard, cars>> =>
        [\A a \in Players : cars'[a].n >= cars[a].n]_vars
  <2> SUFFICES ASSUME IInv, [Shown!Next]_<<heard, cars>>, NEW a \in Players
               PROVE  cars'[a].n >= cars[a].n
    OBVIOUS
  <2>1. cars \in [Players -> Car] /\ heard \subseteq News
    BY DEF IInv, OrderInv, TypeOK, Car
  <2>2. CASE Shown!Hear
    BY <2>1, <2>2 DEF Shown!Hear, Car
  <2>3. CASE Shown!Show
    <3>1. PICK m \in heard :
            /\ cars[m.who].n < m.n
            /\ cars' = [cars EXCEPT ![m.who] =
                          [here |-> TRUE, n |-> m.n, color |-> m.color]]
      BY <2>3 DEF Shown!Show
    <3>2. m.n \in Nat /\ cars[a].n \in Nat
      BY <2>1 DEF News, Car
    <3> QED BY <2>1, <3>1, <3>2
  <2>4. CASE Shown!Paint
    <3>1. PICK m \in heard : cars' = [cars EXCEPT ![m.who].color = m.color]
      BY <2>4 DEF Shown!Paint
    <3> QED BY <2>1, <3>1 DEF Car
  <2>5. CASE Shown!Remove
    <3>1. PICK m \in heard : cars' = [cars EXCEPT ![m.who].here = FALSE]
      BY <2>5 DEF Shown!Remove
    <3> QED BY <2>1, <3>1 DEF Car
  <2>6. CASE cars' = cars
    BY <2>1, <2>6 DEF Car
  <2> QED BY <2>2, <2>3, <2>4, <2>5, <2>6 DEF Shown!Next
<1> QED BY <1>1, Invariance, ScreenRefinement, PTL DEF KeepsScreen, Shown!Spec

\* When no position waits, the newest one that was routed is on the screen, unless
\* it could not be read.
THEOREM NewestOnScreen == Spec => []NewestShown
<1>1. IInv => NewestShown
  BY DEF IInv, OrderInv, NewestLast, NewestShown
<1> QED BY <1>1, Invariance, PTL

\* Apart from the batch and from positions that cannot be read, nothing loses the
\* last position of a player.
THEOREM OnlyBatchLoses == Spec => []ShownAtRest
<1>1. ASSUME IInv, wsQ = <<>>, posQ = <<>>, NEW a \in Players
      PROVE  cars[a].n = got[a].n \/ dropped[a] = got[a].n
  <2>1. Unrouted = <<>>
    BY <1>1 DEF IInv, OrderInv, Routing, Unrouted
  <2> QED BY <1>1, <2>1 DEF IInv, OrderInv, Arriving, Waits
<1>2. IInv => ShownAtRest
  BY <1>1 DEF ShownAtRest
<1> QED BY <1>2, Invariance, PTL

\* Colors and positions, which take different queues, end up agreeing once the
\* player has moved after its last change.
THEOREM ColorsAgreeAtRest == Spec => []ColorSettles
<1>1. ASSUME IInv, AtRest PROVE Unrouted = <<>> /\ guiQ = <<>>
  BY <1>1 DEF IInv, OrderInv, Routing, Unrouted, AtRest
<1>2. IInv => ColorSettles
  BY <1>1 DEF IInv, ColorInv, Settling, Colored, ColorSettles
<1> QED BY <1>2, Invariance, PTL

\* The game never waits for a thread that sleeps forever.
THEOREM JoinsOnlyAwake == Spec => []JoinsAwake
<1>1. IInv => JoinsAwake
  BY DEF IInv, Leaving, JoinsAwake
<1> QED BY <1>1, Invariance, PTL

\* By the frame that shows a player, the own position was sent to it or the
\* session has refused it.
THEOREM EveryoneGreeted == Spec => []NewcomersGreeted
<1>1. IInv => NewcomersGreeted
  BY DEF IInv, OrderInv, Greeting, NewcomersGreeted
<1> QED BY <1>1, Invariance, PTL
=============================================================================
