----------------------------- MODULE LinkQueues ------------------------------
(***************************************************************************)
(* Facts about the queues that stand for the two directions of the MAVLink *)
(* link in MissionTransfer, MissionDownload and Tui: which frames are on   *)
(* the way and which is ahead of which.  Frames are put at the end, taken  *)
(* or lost at the head, and never overtake each other.                     *)
(***************************************************************************)
EXTENDS Integers, Sequences, TLAPS

\* The frames on the way.
Elems(q) == {q[i] : i \in 1 .. Len(q)}

\* Some f is ahead of some g.
Ahead(q, f, g) == \E i, j \in 1 .. Len(q) : i < j /\ q[i] = f /\ q[j] = g

\* Nothing is behind f.
Last(q, f) == \A g \in Elems(q) : ~Ahead(q, f, g)

\* A step that puts nothing on the link and takes at most one frame off it.
Taken(q, qNext) == qNext = q \/ (q # << >> /\ qNext = Tail(q))
-----------------------------------------------------------------------------
\* A queue of frames stays one.
LEMMA QueueTypes ==
    ASSUME NEW S, NEW q \in Seq(S)
    PROVE  /\ \A x \in S : Append(q, x) \in Seq(S)
           /\ q # << >> => Tail(q) \in Seq(S) /\ Head(q) \in S
  OBVIOUS

\* What is on the way after a frame was put or taken.
LEMMA QueueElems ==
    ASSUME NEW S, NEW q \in Seq(S)
    PROVE  /\ Elems(q) \subseteq S
           /\ Elems(<< >>) = {}
           /\ \A x \in S : Elems(Append(q, x)) = Elems(q) \cup {x}
           /\ q # << >> => Elems(q) = {Head(q)} \cup Elems(Tail(q))
<1>1. Elems(q) \subseteq S /\ Elems(<< >>) = {}
  BY DEF Elems
<1>2. ASSUME NEW x \in S PROVE Elems(Append(q, x)) = Elems(q) \cup {x}
  <2> DEFINE r == Append(q, x)
  <2>1. Len(r) = Len(q) + 1 /\ r[Len(q) + 1] = x /\ \A i \in 1 .. Len(q) : r[i] = q[i]
    OBVIOUS
  <2>2. 1 .. Len(r) = (1 .. Len(q)) \cup {Len(q) + 1}
    BY <2>1
  <2> HIDE DEF r
  <2> QED
    BY <2>1, <2>2 DEF Elems, r
<1>3. ASSUME q # << >> PROVE Elems(q) = {Head(q)} \cup Elems(Tail(q))
  <2> DEFINE r == Tail(q)
  <2>1. Len(q) \in Nat /\ Len(q) > 0 /\ Len(r) = Len(q) - 1 /\ \A i \in 1 .. Len(r) : r[i] = q[i + 1]
    BY <1>3
  <2>2. Head(q) = q[1]
    BY <1>3
  <2> HIDE DEF r
  <2>3. ASSUME NEW f \in Elems(q) PROVE f \in {q[1]} \cup Elems(r)
    <3>1. PICK i \in 1 .. Len(q) : f = q[i]
      BY <2>3 DEF Elems
    <3>2. CASE i = 1
      BY <3>1, <3>2
    <3>3. CASE i # 1
      <4>1. i - 1 \in 1 .. Len(r) /\ r[i - 1] = q[i]
        BY <2>1, <3>3
      <4> QED
        BY <3>1, <4>1 DEF Elems
    <3> QED
      BY <3>2, <3>3
  <2>4. ASSUME NEW f \in Elems(r) PROVE f \in Elems(q)
    <3>1. PICK i \in 1 .. Len(r) : f = r[i]
      BY <2>4 DEF Elems
    <3>2. i + 1 \in 1 .. Len(q) /\ f = q[i + 1]
      BY <2>1, <3>1
    <3> QED
      BY <3>2 DEF Elems
  <2>5. q[1] \in Elems(q)
    BY <2>1 DEF Elems
  <2> QED
    BY <2>2, <2>3, <2>4, <2>5 DEF r
<1> QED
  BY <1>1, <1>2, <1>3

\* The same for a frame put by concatenation.
LEMMA QueueConcat ==
    ASSUME NEW S, NEW q \in Seq(S), NEW x \in S
    PROVE  Elems(q \o <<x>>) = Elems(q) \cup {x}
<1> DEFINE r == q \o <<x>>
<1>1. r = Append(q, x)
  OBVIOUS
<1>2. Elems(Append(q, x)) = Elems(q) \cup {x}
  BY QueueElems
<1> HIDE DEF r
<1>3. Elems(r) = Elems(q) \cup {x}
  BY <1>1, <1>2
<1> QED
  BY <1>3 DEF r

\* What is ahead of what after a frame was put or taken.
LEMMA QueueOrder ==
    ASSUME NEW S, NEW q \in Seq(S), NEW f, NEW g
    PROVE  /\ ~Ahead(<< >>, f, g)
           /\ \A x \in S : Ahead(Append(q, x), f, g) =>
                 Ahead(q, f, g) \/ (f \in Elems(q) /\ g = x)
           /\ q # << >> => /\ Ahead(Tail(q), f, g) => Ahead(q, f, g)
                           /\ g \in Elems(Tail(q)) => Ahead(q, Head(q), g)
<1>1. ~Ahead(<< >>, f, g)
  BY DEF Ahead
<1>2. ASSUME NEW x \in S, Ahead(Append(q, x), f, g)
      PROVE  Ahead(q, f, g) \/ (f \in Elems(q) /\ g = x)
  <2> DEFINE r == Append(q, x)
  <2>1. Len(q) \in Nat /\ Len(r) = Len(q) + 1 /\ r[Len(q) + 1] = x /\ \A i \in 1 .. Len(q) : r[i] = q[i]
    OBVIOUS
  <2> HIDE DEF r
  <2>2. PICK i, j \in 1 .. Len(r) : i < j /\ r[i] = f /\ r[j] = g
    BY <1>2 DEF Ahead, r
  <2>3. i \in 1 .. Len(q) /\ f = q[i]
    BY <2>1, <2>2
  <2>4. j \in 1 .. Len(q) \/ g = x
    BY <2>1, <2>2
  <2>5. j \in 1 .. Len(q) => q[j] = g
    BY <2>1, <2>2
  <2> QED
    BY <2>2, <2>3, <2>4, <2>5 DEF Ahead, Elems
<1>3. ASSUME q # << >>
      PROVE  /\ Ahead(Tail(q), f, g) => Ahead(q, f, g)
             /\ g \in Elems(Tail(q)) => Ahead(q, Head(q), g)
  <2> DEFINE r == Tail(q)
  <2>1. Len(q) \in Nat /\ Len(q) > 0 /\ Len(r) = Len(q) - 1 /\ \A i \in 1 .. Len(r) : r[i] = q[i + 1]
    BY <1>3
  <2>2. Head(q) = q[1]
    BY <1>3
  <2> HIDE DEF r
  <2>3. ASSUME Ahead(r, f, g) PROVE Ahead(q, f, g)
    <3>1. PICK i, j \in 1 .. Len(r) : i < j /\ r[i] = f /\ r[j] = g
      BY <2>3 DEF Ahead
    <3>2. /\ i + 1 \in 1 .. Len(q) /\ j + 1 \in 1 .. Len(q)
          /\ i + 1 < j + 1 /\ q[i + 1] = f /\ q[j + 1] = g
      BY <2>1, <3>1
    <3> QED
      BY <3>2 DEF Ahead
  <2>4. ASSUME g \in Elems(r) PROVE Ahead(q, q[1], g)
    <3>1. PICK j \in 1 .. Len(r) : r[j] = g
      BY <2>4 DEF Elems
    <3>2. j + 1 \in 1 .. Len(q) /\ 1 \in 1 .. Len(q) /\ 1 < j + 1 /\ q[j + 1] = g
      BY <2>1, <3>1
    <3> QED
      BY <3>2 DEF Ahead
  <2> QED
    BY <2>2, <2>3, <2>4 DEF r
<1> QED
  BY <1>1, <1>2, <1>3

\* What the head of a queue is, and what is left behind it.
LEMMA QueueTail ==
    ASSUME NEW S, NEW q \in Seq(S), q # << >>
    PROVE  /\ Head(q) \in Elems(q)
           /\ Elems(Tail(q)) \subseteq Elems(q)
           /\ \A f, g : Ahead(Tail(q), f, g) => Ahead(q, f, g)
           /\ \A f : Last(q, f) => Last(Tail(q), f)
           /\ \A g \in Elems(Tail(q)) : Ahead(q, Head(q), g)
           /\ Last(q, Head(q)) => Elems(Tail(q)) = {}
<1>1. Elems(q) = {Head(q)} \cup Elems(Tail(q))
  BY QueueElems
<1>2. \A f, g : /\ Ahead(Tail(q), f, g) => Ahead(q, f, g)
                /\ g \in Elems(Tail(q)) => Ahead(q, Head(q), g)
  BY QueueOrder
<1> QED
  BY <1>1, <1>2 DEF Last

\* A frame that is put is behind all others.
LEMMA QueueAppend ==
    ASSUME NEW S, NEW q \in Seq(S), NEW x \in S
    PROVE  /\ Elems(Append(q, x)) = Elems(q) \cup {x}
           /\ \A f, g : Ahead(Append(q, x), f, g) =>
                 Ahead(q, f, g) \/ (f \in Elems(q) /\ g = x)
           /\ \A f : f \notin Elems(q) => Last(Append(q, x), f)
<1>1. Elems(Append(q, x)) = Elems(q) \cup {x}
  BY QueueElems
<1>2. \A f, g : Ahead(Append(q, x), f, g) => Ahead(q, f, g) \/ (f \in Elems(q) /\ g = x)
  BY QueueOrder
<1>3. \A f, g : Ahead(q, f, g) => f \in Elems(q)
  BY DEF Ahead, Elems
<1> QED
  BY <1>1, <1>2, <1>3 DEF Last

\* What is left after taking a frame was there before, in the same order.
LEMMA TakenFacts ==
    ASSUME NEW S, NEW q \in Seq(S), NEW r, Taken(q, r)
    PROVE  /\ Elems(r) \subseteq Elems(q)
           /\ \A f, g : Ahead(r, f, g) => Ahead(q, f, g)
           /\ \A f : Last(q, f) => Last(r, f)
           /\ q = << >> => r = << >>
           /\ \A f \in Elems(q) : Last(q, f) /\ f \notin Elems(r) =>
                 Elems(r) = {}
<1>1. CASE r = q
  BY <1>1 DEF Last
<1>2. CASE q # << >> /\ r = Tail(q)
  <2>1. Elems(q) = {Head(q)} \cup Elems(r)
    BY <1>2, QueueElems
  <2> QED
    BY <1>2, <2>1, QueueTail
<1> QED
  BY <1>1, <1>2 DEF Taken
=============================================================================
