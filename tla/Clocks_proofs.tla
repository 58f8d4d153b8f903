---------------------------- MODULE Clocks_proofs ----------------------------
(***************************************************************************)
(* Proofs about the two modules whose clocks have to agree.                 *)
(*                                                                         *)
(* Timecode is sent by its cue alone, read as it was sent and fires the      *)
(* triggers it passes once, for every list, day, base and number of pieces.  *)
(*                                                                         *)
(* A Fade and the dissolve it drives keep together, no picture is left in     *)
(* the dark and no sound below its level, for any Fades, pictures, plans,     *)
(* outputs, pre-waits and calls, where no two Fades dissolve into the same    *)
(* picture.                                                                 *)
(***************************************************************************)
EXTENDS Timecode, Crossfade, FiniteSetTheorems, SequenceTheorems, WellFoundedInduction,
        NaturalsInduction, TLAPS

---------------------------------------------------------------------------
(***************************************************************************)
(* Timecode: the inductive invariant.                                       *)
(***************************************************************************)
Number == 0..(None - 1)          \* what a group of pieces can say
Generators == [live : BOOLEAN, frame : Frames, next : 0..Pieces]
Receivers == [nibbles : [Places -> 0..(Base - 1)], count : 0..Pieces, run : 0..Pieces]

SenderTypes ==
  /\ source \in {"mtc", "ltc"} /\ cue \in {"standby", "waiting", "running"} /\ active \in 0..2
  /\ gen \in [Two -> Generators]
WireTypes ==
  /\ tc \in {"on", "changing", "off"} /\ ears \in (SUBSET Two) \ {{}}
  /\ rx \in [Two -> Receivers] /\ queue \in Seq(Number)
ListTypes ==
  /\ prev \in Number \cup {None} /\ mark \in Number /\ on \in BOOLEAN
  /\ trig \in [Cue -> Frames \cup {None}] /\ there \subseteq Cue /\ loop \in {"idle", "fire"}
  /\ done \subseteq Cue /\ fire \subseteq Cue /\ bykey \subseteq Cue /\ keys \subseteq Keyed

\* The generator of a cue is there from its start to its end and no longer.
Owned == GeneratorOwned /\ (cue # "running" => active = 0)

\* Pieces that came in order are those of the frame whose next piece is on its way.
Agrees(r, t) ==
  r.run \in 1..(Pieces - 1) =>
    \/ t.next = Pieces
    \/ t.next = r.run /\ \A k \in 0..(r.run - 1) : r.nibbles[k] = Nibble(t.frame, k)
Reading ==
  \A e \in Two : /\ source = "ltc" => rx[e].run = 0
                 /\ \A g \in Two : gen[g].live => Agrees(rx[e], gen[g])

\* What fires between two locks is of this tick.
Idle == loop = "idle" => fire = {} /\ bykey = {}

\* A cue that fired, or is to, lies behind the position and behind the mark.
Covered == \A c \in done \cup fire : Past(c, prev) /\ Past(c, mark)

\* A cue that lies behind either has fired, is to fire, or has its reason not to.
Accounted ==
  on => \A c \in there : (Past(c, prev) \/ Past(c, mark)) /\ trig[c] > 0
                           => c \in done \cup excused \cup fire

\* A key that was pressed is somewhere on its way.
KeysKept == pressed \cap there \subseteq keys \cup spoilt \cup bykey

SenderInv   == SenderTypes /\ Owned
ReceiverInv == WireTypes /\ Reading /\ GroupsAreRead
LoopInv     == ListTypes /\ Idle /\ Covered /\ FiresOnce /\ Accounted /\ KeysKept
IInv == SenderInv /\ ReceiverInv /\ LoopInv

---------------------------------------------------------------------------
(***************************************************************************)
(* Positions and their pieces.                                              *)
(***************************************************************************)
\* A nonempty set of naturals has a least element.
LEMMA Least ==
  ASSUME NEW T \in SUBSET Nat, T # {}
  PROVE  \E x \in T : \A y \in T : x <= y
<1> DEFINE R == {p \in Nat \X Nat : p[1] < p[2]}
<1>1. R = OpToRel(<, Nat)
  BY DEF OpToRel
<1>2. IsWellFoundedOn(R, Nat)
  BY <1>1, NatLessThanWellFounded
<1>3. \E x \in T : \A y \in T : ~(<<y, x>> \in R)
  <2> HIDE DEF R
  <2> QED
    BY <1>2, WFMin
<1>4. \A x, y \in Nat : <<y, x>> \in R <=> y < x
  OBVIOUS
<1>5. \A x, y \in Nat : ~(y < x) => x <= y
  OBVIOUS
<1> QED
  <2> HIDE DEF R
  <2> QED
    BY <1>3, <1>4, <1>5

\* What holds at 0 and, with a number, at the one above it, holds up to any bound.
LEMMA UpTo ==
  ASSUME NEW N \in Nat, NEW S, 0 \in S, \A k \in 1..N : k - 1 \in S => k \in S
  PROVE  0..N \subseteq S
<1> DEFINE T == {k \in 0..N : k \notin S}
<1> SUFFICES ASSUME T # {} PROVE FALSE
  OBVIOUS
<1>0. T \in SUBSET Nat
  OBVIOUS
<1>1. PICK x \in T : \A y \in T : x <= y
  <2> HIDE DEF T
  <2> QED
    BY <1>0, Least
<1>2. x \in 1..N /\ x - 1 \in 0..N /\ ~(x <= x - 1)
  BY <1>1
<1>3. x - 1 \in S
  BY <1>1, <1>2
<1> QED
  BY <1>1, <1>2, <1>3

\* A value that is worked out step by step, each from the one before, exists.
LEMMA Stepwise ==
  ASSUME NEW N \in Nat, NEW a \in Nat, NEW step \in [1..N -> [Nat -> Nat]]
  PROVE  \E f \in [0..N -> Nat] : f[0] = a /\ \A k \in 1..N : f[k] = step[k][f[k - 1]]
<1> DEFINE Works(n, f) == f[0] = a /\ \A k \in 1..n : f[k] = step[k][f[k - 1]]
           S == {n \in 0..N : \E f \in [0..n -> Nat] : Works(n, f)}
<1>1. 0 \in S
  <2> DEFINE f == [k \in 0..0 |-> a]
  <2>1. f \in [0..0 -> Nat] /\ f[0] = a /\ 1..0 = {} /\ 0 \in 0..N
    OBVIOUS
  <2>2. Works(0, f)
    BY <2>1
  <2> HIDE DEF Works, f
  <2> QED
    BY <2>1, <2>2
<1>2. ASSUME NEW k \in 1..N, k - 1 \in S PROVE k \in S
  <2>1. PICK f \in [0..(k - 1) -> Nat] : Works(k - 1, f)
    BY <1>2
  <2>2. k - 1 \in 0..(k - 1) /\ f[k - 1] \in Nat
    OBVIOUS
  <2>3. step[k] \in [Nat -> Nat]
    OBVIOUS
  <2> DEFINE v == step[k][f[k - 1]]
             g == [i \in 0..k |-> IF i = k THEN v ELSE f[i]]
  <2>4. v \in Nat
    BY <2>2, <2>3
  <2>5. g \in [0..k -> Nat] /\ (\A i \in 0..(k - 1) : g[i] = f[i]) /\ g[k] = v
    <3> HIDE DEF v
    <3>1. \A i \in 0..k : i # k => i \in 0..(k - 1)
      OBVIOUS
    <3>2. \A i \in 0..k : (IF i = k THEN v ELSE f[i]) \in Nat
      BY <2>4, <3>1
    <3>3. \A i \in 0..(k - 1) : i \in 0..k /\ i # k
      OBVIOUS
    <3>4. g \in [0..k -> Nat]
      BY <3>2
    <3>6. g[k] = v
      BY k \in 0..k
    <3>5. \A i \in 0..(k - 1) : g[i] = f[i]
      BY <3>3
    <3> QED
      BY <3>4, <3>5, <3>6
  <2>6. g[k] = step[k][g[k - 1]]
    BY <2>2, <2>5
  <2>7. f[0] = a /\ \A i \in 1..(k - 1) : f[i] = step[i][f[i - 1]]
    BY <2>1
  <2> HIDE DEF g
  <2>8. \A i \in 1..k : i = k \/ (i \in 1..(k - 1) /\ i \in 0..(k - 1) /\ i - 1 \in 0..(k - 1))
    OBVIOUS
  <2>9. \A i \in 1..k : g[i] = step[i][g[i - 1]]
    BY <2>5, <2>6, <2>7, <2>8
  <2>10. g[0] = a
    BY <2>5, <2>7
  <2>11. Works(k, g)
    BY <2>9, <2>10
  <2> HIDE DEF Works
  <2> QED
    BY <2>5, <2>11, k \in 0..N
<1>3. 0..N \subseteq S
  <2> HIDE DEF S
  <2> QED
    BY <1>1, <1>2, UpTo
<1>4. PICK f \in [0..N -> Nat] : Works(N, f)
  <2> HIDE DEF Works
  <2> QED
    BY <1>3, N \in 0..N
<1> QED
  BY <1>4

\* A place stands for Base times the one below it.
LEMMA Weights ==
  /\ Weight \in [0..Pieces -> Nat \ {0}] /\ Weight[0] = 1
  /\ \A k \in 1..Pieces : Weight[k] = Base * Weight[k - 1]
<1> USE TimecodeAssumption
<1> DEFINE step == [k \in 1..Pieces |-> [x \in Nat |-> Base * x]]
<1>1. step \in [1..Pieces -> [Nat -> Nat]]
  OBVIOUS
<1>a. Pieces \in Nat /\ 0 \in Nat /\ 1 \in Nat
  OBVIOUS
<1>2. PICK f \in [0..Pieces -> Nat] : f[0] = 1 /\ \A k \in 1..Pieces : f[k] = step[k][f[k - 1]]
  <2> HIDE DEF step
  <2>1. \A a \in Nat : \E f \in [0..Pieces -> Nat] :
          f[0] = a /\ \A k \in 1..Pieces : f[k] = step[k][f[k - 1]]
    <3> HIDE TimecodeAssumption
    <3>1. \A N \in Nat, a \in Nat : \A s \in [1..N -> [Nat -> Nat]] :
            \E f \in [0..N -> Nat] : f[0] = a /\ \A k \in 1..N : f[k] = s[k][f[k - 1]]
      BY Stepwise, Zenon
    <3>2. \A a \in Nat : \A s \in [1..Pieces -> [Nat -> Nat]] :
            \E f \in [0..Pieces -> Nat] : f[0] = a /\ \A k \in 1..Pieces : f[k] = s[k][f[k - 1]]
      BY <1>a, <3>1, Zenon
    <3> QED
      BY <1>1, <3>2, Zenon
  <2> QED
    BY <1>a, <2>1, Zenon
<1>3. \A k \in 1..Pieces : f[k] = Base * f[k - 1]
  <2> TAKE k \in 1..Pieces
  <2>1. k - 1 \in 0..Pieces /\ f[k - 1] \in Nat
    OBVIOUS
  <2>2. f[k] = step[k][f[k - 1]]
    <3> HIDE DEF step
    <3> QED
      BY <1>2
  <2> QED
    BY <2>1, <2>2
<1>4. f = [k \in 0..Pieces |-> IF k = 0 THEN 1 ELSE Base * f[k - 1]]
  BY <1>2, <1>3
<1>5. Weight = [k \in 0..Pieces |-> IF k = 0 THEN 1 ELSE Base * Weight[k - 1]]
  BY <1>4, Zenon DEF Weight
<1>6. Weight[0] = 1 /\ \A k \in 1..Pieces : Weight[k] = Base * Weight[k - 1]
  BY <1>5
<1> DEFINE S == {k \in 0..Pieces : Weight[k] \in Nat \ {0}}
<1>7. 0 \in S
  BY <1>6
<1>8. ASSUME NEW k \in 1..Pieces, k - 1 \in S PROVE k \in S
  <2>1. Weight[k - 1] \in Nat \ {0} /\ Weight[k] = Base * Weight[k - 1]
    BY <1>6, <1>8
  <2>2. \A x \in Nat \ {0} : Base * x \in Nat \ {0}
    OBVIOUS
  <2> QED
    BY <2>1, <2>2
<1>9. 0..Pieces \subseteq S
  <2> HIDE DEF S
  <2> QED
    BY <1>7, <1>8, UpTo
<1>10. DOMAIN Weight = 0..Pieces
  BY <1>5, Zenon
<1> QED
  BY <1>5, <1>6, <1>9

\* There is a number that stands for no frame, and it is above all frames.
LEMMA Bounds == None \in Nat \ {0} /\ Frames \subseteq Number /\ 0 \in Number /\ None \notin Number
BY Weights, TimecodeAssumption DEF None, Frames, Number

\* Join works its number out from the highest place down.
LEMMA Joining ==
  ASSUME NEW n \in [Places -> 0..(Base - 1)]
  PROVE  \E top \in [0..Pieces -> Nat] :
           /\ top[0] = 0 /\ Join(n) = top[Pieces]
           /\ \A k \in 1..Pieces : top[k] = top[k - 1] * Base + n[Pieces - k]
<1> USE TimecodeAssumption
<1>0. \A k \in 1..Pieces : n[Pieces - k] \in 0..(Base - 1)
  BY DEF Places
<1> DEFINE step == [k \in 1..Pieces |-> [x \in Nat |-> x * Base + n[Pieces - k]]]
           Sum(f) == [k \in 0..Pieces |-> IF k = 0 THEN 0 ELSE f[k - 1] * Base + n[Pieces - k]]
           top == CHOOSE f : f = Sum(f)
<1>1. step \in [1..Pieces -> [Nat -> Nat]]
  BY <1>0
<1>a. Pieces \in Nat /\ 0 \in Nat /\ 1 \in Nat
  OBVIOUS
<1>2. PICK f \in [0..Pieces -> Nat] : f[0] = 0 /\ \A k \in 1..Pieces : f[k] = step[k][f[k - 1]]
  <2> HIDE DEF step
  <2>1. \A a \in Nat : \E f \in [0..Pieces -> Nat] :
          f[0] = a /\ \A k \in 1..Pieces : f[k] = step[k][f[k - 1]]
    <3> HIDE TimecodeAssumption
    <3>1. \A N \in Nat, a \in Nat : \A s \in [1..N -> [Nat -> Nat]] :
            \E f \in [0..N -> Nat] : f[0] = a /\ \A k \in 1..N : f[k] = s[k][f[k - 1]]
      BY Stepwise, Zenon
    <3>2. \A a \in Nat : \A s \in [1..Pieces -> [Nat -> Nat]] :
            \E f \in [0..Pieces -> Nat] : f[0] = a /\ \A k \in 1..Pieces : f[k] = s[k][f[k - 1]]
      BY <1>a, <3>1, Zenon
    <3> QED
      BY <1>1, <3>2, Zenon
  <2> QED
    BY <1>a, <2>1, Zenon
<1>3. \A k \in 1..Pieces : f[k] = f[k - 1] * Base + n[Pieces - k]
  <2> TAKE k \in 1..Pieces
  <2>1. k - 1 \in 0..Pieces /\ f[k - 1] \in Nat
    OBVIOUS
  <2>2. f[k] = step[k][f[k - 1]]
    <3> HIDE DEF step
    <3> QED
      BY <1>2
  <2> QED
    BY <2>1, <2>2
<1>4. f = Sum(f)
  BY <1>2, <1>3
<1>5. top = Sum(top)
  <2> HIDE DEF Sum
  <2> QED
    BY <1>4, Zenon
<1>6. Join(n) = top[Pieces]
  BY Zenon DEF Join
<1> HIDE DEF top
<1>7. top[0] = 0 /\ \A k \in 1..Pieces : top[k] = top[k - 1] * Base + n[Pieces - k]
  BY <1>5
<1> DEFINE S == {k \in 0..Pieces : top[k] \in Nat}
<1>8. 0 \in S
  BY <1>7
<1>9. ASSUME NEW k \in 1..Pieces, k - 1 \in S PROVE k \in S
  <2>1. top[k - 1] \in Nat /\ top[k] = top[k - 1] * Base + n[Pieces - k]
    BY <1>7, <1>9
  <2>2. \A x \in Nat, y \in 0..(Base - 1) : x * Base + y \in Nat
    OBVIOUS
  <2>3. n[Pieces - k] \in 0..(Base - 1)
    BY <1>0
  <2>4. top[k] \in Nat
    BY <2>1, <2>2, <2>3
  <2> QED
    BY <2>4
<1>10. 0..Pieces \subseteq S
  <2> HIDE DEF S
  <2> QED
    BY <1>8, <1>9, UpTo
<1>11. top \in [0..Pieces -> Nat]
  BY <1>5, <1>10
<1> QED
  BY <1>6, <1>7, <1>11

\* Whatever pieces come together, they say a number of the range.
LEMMA JoinIsNumber ==
  ASSUME NEW n \in [Places -> 0..(Base - 1)]
  PROVE  Join(n) \in Number
<1> USE TimecodeAssumption
<1>0. \A k \in 1..Pieces : n[Pieces - k] \in 0..(Base - 1)
  BY DEF Places
<1>1. PICK top \in [0..Pieces -> Nat] :
        /\ top[0] = 0 /\ Join(n) = top[Pieces]
        /\ \A k \in 1..Pieces : top[k] = top[k - 1] * Base + n[Pieces - k]
  BY Joining
<1> DEFINE S == {k \in 0..Pieces : top[k] <= Weight[k] - 1}
<1>2. 0 \in S
  BY <1>1, Weights
<1>3. ASSUME NEW k \in 1..Pieces, k - 1 \in S PROVE k \in S
  <2>1. top[k] = top[k - 1] * Base + n[Pieces - k] /\ Weight[k] = Base * Weight[k - 1]
    BY <1>1, Weights
  <2>2. top[k - 1] <= Weight[k - 1] - 1 /\ top[k - 1] \in Nat /\ Weight[k - 1] \in Nat
    BY <1>1, <1>3, Weights
  <2>3. \A x, w \in Nat, y \in 0..(Base - 1) : x <= w - 1 => x * Base + y <= Base * w - 1
    <3> TAKE x, w \in Nat, y \in 0..(Base - 1)
    <3> HAVE x <= w - 1
    <3>1. PICK d \in Nat : w = x + 1 + d
      <4>1. w - 1 - x \in Nat /\ w = x + 1 + (w - 1 - x)
        OBVIOUS
      <4> QED
        BY <4>1
    <3>2. Base * w = x * Base + Base + Base * d
      BY <3>1
    <3>3. Base * d \in Nat /\ x * Base \in Nat
      OBVIOUS
    <3> QED
      BY <3>2, <3>3
  <2>4. top[k] <= Weight[k] - 1
    BY <2>1, <2>2, <2>3, <1>0
  <2> QED
    BY <2>4
<1>4. 0..Pieces \subseteq S
  <2> HIDE DEF S
  <2> QED
    BY <1>2, <1>3, UpTo
<1> QED
  BY <1>1, <1>4, Weights DEF Number, None

\* The pieces of a frame, joined, are the frame.
LEMMA JoinReads ==
  ASSUME NEW frame \in Frames, NEW n \in [Places -> 0..(Base - 1)],
         \A k \in Places : n[k] = Nibble(frame, k)
  PROVE  Join(n) = frame
<1> USE TimecodeAssumption
<1>1. PICK top \in [0..Pieces -> Nat] :
        /\ top[0] = 0 /\ Join(n) = top[Pieces]
        /\ \A k \in 1..Pieces : top[k] = top[k - 1] * Base + n[Pieces - k]
  BY Joining
<1>2. frame \in Nat /\ frame < Weight[Pieces]
  BY Bounds, Weights DEF Frames, None
<1> DEFINE S == {k \in 0..Pieces : top[k] = frame \div Weight[Pieces - k]}
<1>3. 0 \in S
  <2>1. Weight[Pieces] \in Nat \ {0} /\ Pieces - 0 = Pieces /\ top[0] = 0
    BY <1>1, Weights
  <2>2. \A f \in Nat, w \in Nat \ {0} : f < w => f \div w = 0
    OBVIOUS
  <2> QED
    BY <1>2, <2>1, <2>2
<1>4. ASSUME NEW k \in 1..Pieces, k - 1 \in S PROVE k \in S
  <2> DEFINE w == Weight[Pieces - k]
             q == frame \div w
  <2>1. w \in Nat \ {0} /\ Weight[Pieces - (k - 1)] = Base * w
    <3>1. Pieces - k \in 0..Pieces /\ Pieces - (k - 1) \in 1..Pieces
          /\ Pieces - (k - 1) - 1 = Pieces - k
      OBVIOUS
    <3> QED
      BY <3>1, Weights
  <2>2. top[k - 1] = frame \div (Base * w)
    BY <1>4, <2>1
  <2>3. n[Pieces - k] = q % Base
    <3>1. Pieces - k \in Places
      BY DEF Places
    <3> QED
      BY <3>1 DEF Nibble
  <2>4. frame \div (Base * w) = q \div Base
    <3>1. \A f \in Nat, x, y \in Nat \ {0} : f \div (x * y) = (f \div x) \div y
      OBVIOUS
    <3> HIDE DEF w
    <3>2. Base * w = w * Base
      BY <2>1
    <3>3. frame \div (w * Base) = (frame \div w) \div Base
      BY <1>2, <2>1, <3>1
    <3> QED
      BY <3>2, <3>3
  <2>5. q \in Nat
    <3> HIDE DEF w
    <3> QED
      BY <1>2, <2>1
  <2>6. (q \div Base) * Base + (q % Base) = q
    <3> HIDE DEF q
    <3> QED
      BY <2>5
  <2>7. top[k] = top[k - 1] * Base + n[Pieces - k]
    BY <1>1
  <2> QED
    BY <2>2, <2>3, <2>4, <2>6, <2>7
<1>5. 0..Pieces \subseteq S
  <2> HIDE DEF S
  <2> QED
    BY <1>3, <1>4, UpTo
<1>6. top[Pieces] = frame \div Weight[0]
  BY <1>5
<1> QED
  BY <1>1, <1>2, <1>6, Weights

---------------------------------------------------------------------------
(***************************************************************************)
(* The sender.                                                              *)
(***************************************************************************)
\* A generator sends its full frame once, then the pieces of a frame in order and goes on
\* to the next.
LEMMA Advancing ==
  ASSUME NEW t \in Generators
  PROVE  /\ Advanced(t) \in Generators /\ Advanced(t).live = t.live
         /\ source = "mtc" /\ t.next < Pieces - 1 =>
              Advanced(t).next = t.next + 1 /\ Advanced(t).frame = t.frame
         /\ t.next = Pieces - 1 \/ t.next = Pieces => Advanced(t).next = 0
<1> USE TimecodeAssumption
<1>1. PICK l \in BOOLEAN, f \in Frames, n \in 0..Pieces : t = [live |-> l, frame |-> f, next |-> n]
  BY DEF Generators
<1>2. (f + Step) % Day \in Frames /\ 0 \in 0..Pieces
  BY DEF Frames
<1>3. CASE n = Pieces
  <2>1. Advanced(t) = [live |-> l, frame |-> f, next |-> 0]
    BY <1>1, <1>3 DEF Advanced
  <2> QED
    BY <1>1, <1>2, <1>3, <2>1 DEF Generators
<1>4. CASE n # Pieces /\ (source = "ltc" \/ n = Pieces - 1)
  <2>1. Advanced(t) = [live |-> l, frame |-> (f + Step) % Day, next |-> 0]
    BY <1>1, <1>4 DEF Advanced
  <2> QED
    BY <1>1, <1>2, <1>4, <2>1 DEF Generators
<1>5. CASE n # Pieces /\ source # "ltc" /\ n # Pieces - 1
  <2>1. Advanced(t) = [live |-> l, frame |-> f, next |-> n + 1]
    BY <1>1, <1>5 DEF Advanced
  <2>2. n + 1 \in 0..Pieces
    BY <1>5
  <2> QED
    BY <1>1, <1>2, <1>5, <2>1, <2>2 DEF Generators
<1> QED
  BY <1>3, <1>4, <1>5

\* What has no part in sending leaves it alone.
LEMMA SenderCarriesOver ==
  ASSUME SenderInv, UNCHANGED <<source, sender>>
  PROVE  SenderInv'
BY DEF SenderInv, SenderTypes, Owned, GeneratorOwned, sender

\* A cue that starts has nothing left of an earlier one, and owns what it starts.
LEMMA StartActionOwns ==
  ASSUME SenderInv, cue # "running", StartAction, UNCHANGED source
  PROVE  SenderInv'
<1> USE TimecodeAssumption
<1>0. CASE UNCHANGED <<active, gen>>
  BY <1>0 DEF StartAction, SenderInv, SenderTypes, Owned, GeneratorOwned
<1> SUFFICES ASSUME ~UNCHANGED <<active, gen>> PROVE SenderInv'
  BY <1>0
<1>1. PICK g \in Two, f \in Starts :
        /\ ~gen[g].live /\ active' = g /\ cue' = "running"
        /\ gen' = [gen EXCEPT ![g] = [live |-> TRUE, frame |-> f,
                                      next |-> IF source = "mtc" THEN Pieces ELSE 0]]
  BY DEF StartAction, Two
<1> DEFINE t == [live |-> TRUE, frame |-> f, next |-> IF source = "mtc" THEN Pieces ELSE 0]
<1>2. t \in Generators
  BY DEF Generators
<1>3. gen' = [gen EXCEPT ![g] = t]
  BY <1>1
<1>4. t.live
  OBVIOUS
<1> HIDE DEF t
<1>5. SenderTypes'
  <2>1. gen' \in [Two -> Generators]
    BY <1>2, <1>3 DEF SenderInv, SenderTypes
  <2>2. active' \in 0..2
    BY <1>1 DEF Two
  <2> QED
    BY <1>1, <2>1, <2>2 DEF SenderInv, SenderTypes
<1>6. \A h \in Two : ~gen[h].live
  BY DEF SenderInv, Owned, GeneratorOwned, Two
<1>7. \A h \in Two : gen'[h].live => h = g
  BY <1>3, <1>6 DEF SenderInv, SenderTypes
<1> QED
  BY <1>1, <1>5, <1>7 DEF SenderInv, Owned, GeneratorOwned

\* A cue that ends takes its generator with it.
LEMMA SilenceOwns ==
  ASSUME SenderInv, Silence
  PROVE  SenderInv'
<1> USE TimecodeAssumption DEF SenderInv, SenderTypes
<1>1. cue' \in {"standby", cue} /\ gen' = Dropped /\ active' = 0 /\ source' = source
  BY DEF Silence, elsewhere
<1>2. NoThread \in Generators /\ ~NoThread.live
  BY DEF NoThread, Generators, Frames
<1>3. gen' \in [Two -> Generators] /\ \A h \in Two : ~gen'[h].live
  <2>1. CASE active = 0
    BY <1>1, <2>1 DEF Dropped, Owned, GeneratorOwned, Two
  <2>2. CASE active # 0
    <3>1. active \in Two /\ gen' = [gen EXCEPT ![active] = NoThread]
      BY <1>1, <2>2 DEF Dropped, Two
    <3>2. \A h \in Two : h # active => ~gen[h].live
      BY DEF Owned, GeneratorOwned
    <3>3. gen' \in [Two -> Generators]
      BY <1>2, <3>1
    <3>4. \A h \in Two : gen'[h] = IF h = active THEN NoThread ELSE gen[h]
      BY <3>1
    <3> QED
      BY <1>2, <3>2, <3>3, <3>4
  <2> QED
    BY <2>1, <2>2
<1> QED
  BY <1>1, <1>3 DEF Owned, GeneratorOwned, Two

\* A message sent leaves the thread alive, or not, as it was.
LEMMA SendOwns ==
  ASSUME SenderInv, NEW g \in Two, Send(g)
  PROVE  SenderInv'
<1>1. gen' = [gen EXCEPT ![g] = Advanced(gen[g])] /\ UNCHANGED <<source, cue, active>>
  BY DEF Send
<1>2. Advanced(gen[g]) \in Generators /\ Advanced(gen[g]).live = gen[g].live
  BY Advancing DEF SenderInv, SenderTypes
<1>3. gen' \in [Two -> Generators] /\ \A h \in Two : gen'[h].live = gen[h].live
  BY <1>1, <1>2 DEF SenderInv, SenderTypes
<1> QED
  BY <1>1, <1>3 DEF SenderInv, SenderTypes, Owned, GeneratorOwned

\* Every step keeps generators owned.
LEMMA SenderInductive == SenderInv /\ [Next]_vars => SenderInv'
<1> SUFFICES ASSUME SenderInv, [Next]_vars PROVE SenderInv'
  OBVIOUS
<1>1. CASE Go \/ Starting
  BY <1>1, StartActionOwns DEF Go, Starting, elsewhere
<1>2. CASE GoWaits
  BY <1>2 DEF GoWaits, elsewhere, SenderInv, SenderTypes, Owned, GeneratorOwned
<1>3. CASE Silence
  BY <1>3, SilenceOwns
<1>4. CASE \E g \in Two : SendMtc(g) \/ SendLtc(g)
  BY <1>4, SendOwns DEF SendMtc, SendLtc
<1>5. CASE Reconfigure \/ Reconfigured \/ Disable
  BY <1>5, SenderCarriesOver DEF Reconfigure, Reconfigured, Disable, Configure
<1>6. CASE SetEnabled \/ Reopen \/ \E c \in Cue : SetTrigger(c) \/ RemoveCue(c)
  BY <1>6, SenderCarriesOver DEF SetEnabled, Reopen, SetTrigger, RemoveCue, Editing
<1>7. CASE SetListener \/ Press
  BY <1>7, SenderCarriesOver DEF SetListener, Press
<1>8. CASE GivesUp \/ Fires \/ \E free, freekeys \in BOOLEAN : Drain(free, freekeys)
  BY <1>8, SenderCarriesOver DEF GivesUp, Fires, Drain
<1>9. CASE UNCHANGED vars
  BY <1>9, SenderCarriesOver DEF vars
<1> QED
  BY <1>1, <1>2, <1>3, <1>4, <1>5, <1>6, <1>7, <1>8, <1>9 DEF Next

---------------------------------------------------------------------------
(***************************************************************************)
(* The receiver.                                                            *)
(***************************************************************************)
\* What neither sends nor receives leaves what was read alone, emptying the queue included.
LEMMA ReceiverCarriesOver ==
  ASSUME ReceiverInv, UNCHANGED <<source, gen, ears, rx, misread>>,
         tc' \in {"on", "changing", "off"}, queue' = queue \/ queue' = <<>>
  PROVE  ReceiverInv'
<1>1. queue' \in Seq(Number)
  <2>1. <<>> \in Seq(Number) /\ queue \in Seq(Number)
    BY DEF ReceiverInv, WireTypes
  <2> QED
    BY <2>1
<1> QED
  BY <1>1 DEF ReceiverInv, WireTypes, Reading, Agrees, GroupsAreRead, Nibble

\* A receiver that has nothing yet, one whose run is broken off, and one that hears a full
\* frame: none has a run that could be read wrongly.
LEMMA Receiving ==
  /\ Fresh \in Receivers /\ Fresh.run = 0
  /\ \A r \in Receivers : /\ BrokenOff(r) \in Receivers /\ BrokenOff(r).run = 0
                          /\ FullFrame(r) \in Receivers /\ FullFrame(r).run = 0
<1> USE TimecodeAssumption
<1>1. 0 \in 0..(Base - 1) /\ 0 \in 0..Pieces /\ Pieces \in 0..Pieces
  OBVIOUS
<1>2. [k \in Places |-> 0] \in [Places -> 0..(Base - 1)]
  BY <1>1
<1>3. Fresh \in Receivers /\ Fresh.run = 0
  BY <1>1, <1>2 DEF Fresh, Receivers
<1>4. ASSUME NEW r \in Receivers
      PROVE  /\ BrokenOff(r) \in Receivers /\ BrokenOff(r).run = 0
             /\ FullFrame(r) \in Receivers /\ FullFrame(r).run = 0
  <2>1. PICK n \in [Places -> 0..(Base - 1)], c \in 0..Pieces, u \in 0..Pieces :
          r = [nibbles |-> n, count |-> c, run |-> u]
    BY DEF Receivers
  <2>2. BrokenOff(r) = [nibbles |-> n, count |-> c, run |-> 0]
    BY <2>1 DEF BrokenOff
  <2>3. FullFrame(r) = [nibbles |-> n, count |-> Pieces, run |-> 0]
    BY <2>1 DEF FullFrame
  <2>4. [nibbles |-> n, count |-> c, run |-> 0] \in Receivers
        /\ [nibbles |-> n, count |-> Pieces, run |-> 0] \in Receivers
    BY <1>1 DEF Receivers
  <2> QED
    BY <2>2, <2>3, <2>4
<1> QED
  BY <1>3, <1>4

\* A piece is a digit of the base.
LEMMA NibbleType ==
  ASSUME NEW frame \in Frames, NEW k \in Places
  PROVE  Nibble(frame, k) \in 0..(Base - 1)
<1>1. frame \in Nat /\ Weight[k] \in Nat \ {0} /\ Base \in Nat \ {0}
  BY Weights, TimecodeAssumption DEF Frames, Places
<1>2. \A f \in Nat, w, b \in Nat \ {0} : (f \div w) % b \in 0..(b - 1)
  OBVIOUS
<1> QED
  BY <1>1, <1>2 DEF Nibble

\* A piece that a thread hears continues the run of its frame or begins one; the last of a
\* whole run makes the frame.
LEMMA PieceIsRead ==
  ASSUME NEW r \in Receivers, NEW t \in Generators, Agrees(r, t), source = "mtc",
         t.next < Pieces
  PROVE  LET q == QuarterFrame(r, t.frame, t.next) IN
         /\ q \in Receivers /\ Agrees(q, Advanced(t))
         /\ Reported(r, t.frame, t.next) \subseteq Number /\ ~Misread(r, t.frame, t.next)
<1> USE TimecodeAssumption
<1> DEFINE frame == t.frame
           k == t.next
           n == WithPiece(r, frame, k)
           q == QuarterFrame(r, frame, k)
<1>1. frame \in Frames /\ k \in Places /\ k # Pieces
  BY DEF Generators, Places
<1>2. q = [nibbles |-> n, count |-> IF Assembled(r, k) THEN 0 ELSE r.count + 1, run |-> Run(r, k)]
  BY DEF QuarterFrame
<1>3. r.nibbles \in [Places -> 0..(Base - 1)] /\ r.count \in 0..Pieces /\ r.run \in 0..Pieces
  BY DEF Receivers
<1>4. k < Pieces - 1 => Advanced(t).next = k + 1 /\ Advanced(t).frame = frame
  BY <1>1, Advancing DEF Places
<1>5. \A i \in 0..(r.run - 1) : r.run \in 1..(Pieces - 1) => k = r.run /\ r.nibbles[i] = Nibble(frame, i)
  BY <1>1 DEF Agrees, Places
<1> HIDE DEF frame, k
<1>6. n \in [Places -> 0..(Base - 1)] /\ n[k] = Nibble(frame, k)
      /\ \A i \in Places \ {k} : n[i] = r.nibbles[i]
  BY <1>1, <1>3, NibbleType DEF WithPiece
<1>7. Join(n) \in Number
  BY <1>6, JoinIsNumber
<1>8. Reported(r, frame, k) = IF Assembled(r, k) THEN {Join(n)} ELSE {}
  BY <1>1 DEF Reported
<1> HIDE DEF n
<1>9. Run(r, k) \in 0..Pieces /\ (Run(r, k) # 0 => Run(r, k) = k + 1)
  BY <1>1, <1>3 DEF Run, Places
<1>10. \A i \in 0..k : Run(r, k) # 0 => n[i] = Nibble(frame, i)
  <2>1. CASE k = 0
    BY <1>6, <2>1
  <2>2. CASE k # 0 /\ r.run = k
    <3>1. r.run \in 1..(Pieces - 1)
      BY <1>1, <2>2 DEF Places
    <3>2. \A i \in 0..(k - 1) : r.nibbles[i] = Nibble(frame, i) /\ i \in Places \ {k}
      BY <1>1, <1>5, <2>2, <3>1 DEF Places
    <3>3. \A i \in 0..k : i = k \/ i \in 0..(k - 1)
      BY <1>1 DEF Places
    <3> QED
      BY <1>6, <3>2, <3>3
  <2>3. CASE k # 0 /\ r.run # k
    BY <2>3 DEF Run
  <2> QED
    BY <2>1, <2>2, <2>3
<1>11. ~Misread(r, frame, k)
  <2> SUFFICES ASSUME Run(r, k) = Pieces PROVE Reported(r, frame, k) = {frame}
    BY DEF Misread
  <2>1. k = Pieces - 1
    BY <1>1, <1>9 DEF Places
  <2>2. \A i \in Places : n[i] = Nibble(frame, i)
    BY <1>10, <2>1 DEF Places
  <2>3. Join(n) = frame
    BY <1>1, <1>6, <2>2, JoinReads
  <2> QED
    BY <1>8, <2>1, <2>3 DEF Assembled
<1>12. q \in Receivers
  <2>1. ~Assembled(r, k) => r.count + 1 \in 0..Pieces
    BY <1>3 DEF Assembled
  <2>2. (IF Assembled(r, k) THEN 0 ELSE r.count + 1) \in 0..Pieces
    BY <2>1
  <2> QED
    BY <1>2, <1>6, <1>9, <2>2 DEF Receivers
<1>13. Agrees(q, Advanced(t))
  <2>1. q.run = Run(r, k) /\ q.nibbles = n
    BY <1>2
  <2> SUFFICES ASSUME Run(r, k) \in 1..(Pieces - 1)
               PROVE  /\ Advanced(t).next = Run(r, k)
                      /\ \A i \in 0..(Run(r, k) - 1) : n[i] = Nibble(Advanced(t).frame, i)
    BY <2>1 DEF Agrees
  <2>2. Run(r, k) = k + 1 /\ k < Pieces - 1
    BY <1>1, <1>9 DEF Places
  <2>3. \A i \in 0..(Run(r, k) - 1) : i \in 0..k
    BY <1>1, <2>2 DEF Places
  <2> QED
    BY <1>4, <1>10, <2>2, <2>3
<1> QED
  BY <1>7, <1>8, <1>11, <1>12, <1>13 DEF frame, k

\* Whatever a thread hears it reads as it was sent; what it loses ends its run.
LEMMA MessageIsRead ==
  ASSUME NEW r \in Receivers, NEW t \in Generators, Agrees(r, t), source \in {"mtc", "ltc"},
         source = "ltc" => r.run = 0
  PROVE  LET h == Heard(r, t.frame, t.next) IN
         /\ h \in Receivers /\ Agrees(h, Advanced(t)) /\ (source = "ltc" => h.run = 0)
         /\ BrokenOff(r) \in Receivers /\ Agrees(BrokenOff(r), Advanced(t)) /\ BrokenOff(r).run = 0
         /\ Reported(r, t.frame, t.next) \subseteq Number /\ ~Misread(r, t.frame, t.next)
<1>1. t.frame \in Number /\ t.next \in 0..Pieces /\ Pieces \in Nat
  BY Bounds, TimecodeAssumption DEF Generators
<1>2. \A q : q.run = 0 => Agrees(q, Advanced(t))
  BY DEF Agrees
<1>3. BrokenOff(r) \in Receivers /\ BrokenOff(r).run = 0
      /\ FullFrame(r) \in Receivers /\ FullFrame(r).run = 0
  BY Receiving
<1>4. CASE source = "ltc"
  <2>1. Heard(r, t.frame, t.next) = r /\ Reported(r, t.frame, t.next) = {t.frame}
        /\ ~Misread(r, t.frame, t.next)
    BY <1>4 DEF Heard, Reported, Misread
  <2> QED
    BY <1>1, <1>2, <1>3, <1>4, <2>1
<1>5. CASE source = "mtc" /\ t.next = Pieces
  <2>1. Heard(r, t.frame, t.next) = FullFrame(r) /\ Reported(r, t.frame, t.next) = {t.frame}
        /\ ~Misread(r, t.frame, t.next)
    BY <1>1, <1>5 DEF Heard, Reported, Misread
  <2> QED
    BY <1>1, <1>2, <1>3, <1>5, <2>1
<1>6. CASE source = "mtc" /\ t.next # Pieces
  <2>1. t.next < Pieces
    BY <1>1, <1>6
  <2>2. Heard(r, t.frame, t.next) = QuarterFrame(r, t.frame, t.next)
    BY <1>6 DEF Heard
  <2> QED
    BY <1>2, <1>3, <1>6, <2>1, <2>2, PieceIsRead
<1> QED
  BY <1>4, <1>5, <1>6

\* A message that is sent arrives at a thread, or is lost, and none misreads a group for it.
LEMMA SendReads ==
  ASSUME SenderInv, ReceiverInv, NEW g \in Two, Send(g)
  PROVE  ReceiverInv'
<1> DEFINE t == gen[g]
<1>1. t.live /\ UNCHANGED <<source, tc, ears>> /\ gen' = [gen EXCEPT ![g] = Advanced(t)]
  BY DEF Send
<1>2. t \in Generators /\ gen \in [Two -> Generators] /\ source \in {"mtc", "ltc"}
  BY DEF SenderInv, SenderTypes
<1>3. PICK hearing \in SUBSET Listening : Deliver(t.frame, t.next, hearing)
  BY DEF Send
<1>4. rx \in [Two -> Receivers] /\ queue \in Seq(Number) /\ misread = {}
      /\ tc' \in {"on", "changing", "off"} /\ ears' \in (SUBSET Two) \ {{}}
      /\ hearing \subseteq Two
  BY <1>1 DEF ReceiverInv, WireTypes, GroupsAreRead, Listening
<1> DEFINE Now(e) == IF e \in hearing THEN Heard(rx[e], t.frame, t.next) ELSE BrokenOff(rx[e])
<1>5. \A e \in Two : /\ Now(e) \in Receivers /\ Agrees(Now(e), Advanced(t))
                     /\ source = "ltc" => Now(e).run = 0
                     /\ Reported(rx[e], t.frame, t.next) \subseteq Number
                     /\ ~Misread(rx[e], t.frame, t.next)
  <2> TAKE e \in Two
  <2>1. rx[e] \in Receivers /\ Agrees(rx[e], t) /\ (source = "ltc" => rx[e].run = 0)
    BY <1>1, <1>4 DEF ReceiverInv, Reading
  <2> HIDE DEF t
  <2> QED
    BY <1>2, <2>1, MessageIsRead
<1>6. rx' = [e \in Two |-> Now(e)] /\ misread' = {}
      /\ (queue' = queue \/ \E latest \in Number : queue' = Append(queue, latest))
  BY <1>3, <1>4, <1>5 DEF Deliver
<1> HIDE DEF Now
<1>7. \A h \in Two : gen'[h].live => h = g
  <2>1. \A h \in Two : gen[h].live => h = g
    BY <1>1 DEF SenderInv, Owned, GeneratorOwned
  <2> QED
    BY <1>1, <1>2, <2>1
<1>8. gen'[g] = Advanced(t)
  BY <1>1, <1>2
<1> HIDE DEF t
<1>9. Reading'
  <2> SUFFICES ASSUME NEW e \in Two
               PROVE  /\ source = "ltc" => rx'[e].run = 0
                      /\ \A h \in Two : gen'[h].live => Agrees(rx'[e], gen'[h])
    BY <1>1 DEF Reading, Agrees, Nibble
  <2>1. rx'[e] = Now(e)
    BY <1>6
  <2>2. ASSUME NEW h \in Two, gen'[h].live PROVE Agrees(Now(e), gen'[h])
    BY <1>5, <1>7, <1>8, <2>2
  <2>3. source = "ltc" => Now(e).run = 0
    BY <1>5
  <2> QED
    BY <2>1, <2>2, <2>3
<1>10. WireTypes'
  <2>1. queue' \in Seq(Number)
    BY <1>4, <1>6
  <2>2. rx' \in [Two -> Receivers]
    BY <1>5, <1>6
  <2> QED
    BY <1>4, <2>1, <2>2 DEF WireTypes
<1> QED
  BY <1>6, <1>9, <1>10 DEF ReceiverInv, GroupsAreRead

\* A thread that starts sends a full frame first, which no run goes on over.
LEMMA StartReads ==
  ASSUME SenderInv, SenderInv', ReceiverInv, StartAction, UNCHANGED <<source, receiver, queue, misread>>
  PROVE  ReceiverInv'
<1>0. CASE UNCHANGED <<active, gen>>
  BY <1>0, ReceiverCarriesOver DEF receiver, ReceiverInv, WireTypes
<1> SUFFICES ASSUME ~UNCHANGED <<active, gen>> PROVE ReceiverInv'
  BY <1>0
<1>1. PICK g \in Two, f \in Starts :
        /\ active' = g
        /\ gen' = [gen EXCEPT ![g] = [live |-> TRUE, frame |-> f,
                                      next |-> IF source = "mtc" THEN Pieces ELSE 0]]
  BY DEF StartAction, Two
<1>2. \A h \in Two : gen'[h].live => h = g
  BY <1>1 DEF SenderInv, Owned, GeneratorOwned
<1>3. gen'[g].next = IF source = "mtc" THEN Pieces ELSE 0
  BY <1>1 DEF SenderInv, SenderTypes
<1>4. source \in {"mtc", "ltc"} /\ source' = source /\ rx' = rx
  BY DEF SenderInv, SenderTypes, receiver
<1>5. Reading'
  <2>1. CASE source = "ltc"
    BY <1>4, <2>1, TimecodeAssumption DEF Reading, Agrees, ReceiverInv
  <2>2. CASE source = "mtc"
    BY <1>2, <1>3, <1>4, <2>2 DEF Reading, Agrees
  <2> QED
    BY <1>4, <2>1, <2>2
<1> QED
  BY <1>5 DEF ReceiverInv, WireTypes, GroupsAreRead, receiver

\* A receiver that is started again: its new thread has nothing yet.
LEMMA ReconfiguredReads ==
  ASSUME ReceiverInv, Reconfigured
  PROVE  ReceiverInv'
<1>1. PICK late \in SUBSET ears :
        /\ ears' = late \cup {IF 1 \in late THEN 2 ELSE 1}
        /\ rx' = [e \in Two |-> IF e \in late THEN rx[e] ELSE Fresh]
  BY DEF Reconfigured
<1>2. tc' = "on" /\ UNCHANGED <<source, gen, queue, misread>>
  BY DEF Reconfigured, Configure, sender
<1>3. ears' \in (SUBSET Two) \ {{}} /\ rx' \in [Two -> Receivers]
  <2>1. ears \subseteq Two /\ rx \in [Two -> Receivers]
    BY DEF ReceiverInv, WireTypes
  <2>2. ears' \subseteq Two /\ ears' # {}
    BY <1>1, <2>1 DEF Two
  <2>3. rx' \in [Two -> Receivers]
    BY <1>1, <2>1, Receiving
  <2> QED
    BY <2>2, <2>3
<1>4. Reading'
  <2> SUFFICES ASSUME NEW e \in Two
               PROVE  /\ source = "ltc" => rx'[e].run = 0
                      /\ \A h \in Two : gen[h].live => Agrees(rx'[e], gen[h])
    BY <1>2 DEF Reading, Agrees, Nibble
  <2>1. CASE rx'[e] = rx[e]
    BY <2>1 DEF ReceiverInv, Reading
  <2>2. CASE rx'[e] = Fresh
    BY <2>2, Receiving DEF Agrees
  <2> QED
    BY <1>1, <2>1, <2>2
<1> QED
  BY <1>2, <1>3, <1>4 DEF ReceiverInv, WireTypes, GroupsAreRead

\* Every step reads what was sent.
LEMMA ReceiverInductive ==
  SenderInv /\ SenderInv' /\ ReceiverInv /\ [Next]_vars => ReceiverInv'
<1> SUFFICES ASSUME SenderInv, SenderInv', ReceiverInv, [Next]_vars PROVE ReceiverInv'
  OBVIOUS
<1>0. tc \in {"on", "changing", "off"}
  BY DEF ReceiverInv, WireTypes
<1>1. CASE Go \/ Starting
  BY <1>1, StartReads DEF Go, Starting, elsewhere
<1>2. CASE GoWaits
  BY <1>0, <1>2, ReceiverCarriesOver DEF GoWaits, elsewhere, receiver
<1>3. CASE Silence
  <2>1. active' = 0 /\ UNCHANGED <<source, tc, ears, rx, queue, misread>>
    BY <1>3 DEF Silence, elsewhere, receiver
  <2>2. \A h \in Two : ~gen'[h].live
    BY <2>1 DEF SenderInv, Owned, GeneratorOwned, Two
  <2> QED
    BY <2>1, <2>2 DEF ReceiverInv, WireTypes, Reading, GroupsAreRead
<1>4. CASE \E g \in Two : SendMtc(g) \/ SendLtc(g)
  BY <1>4, SendReads DEF SendMtc, SendLtc
<1>5. CASE Reconfigure \/ Disable
  BY <1>0, <1>5, ReceiverCarriesOver DEF Reconfigure, Disable, Configure, sender
<1>6. CASE Reconfigured
  BY <1>6, ReconfiguredReads
<1>7. CASE SetEnabled \/ Reopen \/ \E c \in Cue : SetTrigger(c) \/ RemoveCue(c)
  BY <1>0, <1>7, ReceiverCarriesOver
     DEF SetEnabled, Reopen, SetTrigger, RemoveCue, Editing, sender, receiver
<1>8. CASE SetListener \/ Press
  BY <1>0, <1>8, ReceiverCarriesOver DEF SetListener, Press, sender, receiver
<1>9. CASE GivesUp \/ Fires \/ \E free, freekeys \in BOOLEAN : Drain(free, freekeys)
  BY <1>0, <1>9, ReceiverCarriesOver DEF GivesUp, Fires, Drain, sender, receiver
<1>10. CASE UNCHANGED vars
  BY <1>0, <1>10, ReceiverCarriesOver DEF vars, sender, receiver
<1> QED
  BY <1>1, <1>2, <1>3, <1>4, <1>5, <1>6, <1>7, <1>8, <1>9, <1>10 DEF Next

---------------------------------------------------------------------------
(***************************************************************************)
(* The loop, the list and the keys.                                         *)
(***************************************************************************)
\* What has no part in the loop leaves it alone.
LEMMA LoopCarriesOver ==
  ASSUME LoopInv, UNCHANGED <<midi, list, looping, account>>
  PROVE  LoopInv'
BY DEF LoopInv, ListTypes, Idle, Covered, FiresOnce, Accounted, KeysKept, Past,
       midi, list, looping, account

\* A trigger that is set is a matter for the next round.
LEMMA SetTriggerAccounts ==
  ASSUME LoopInv, NEW c \in Cue, SetTrigger(c)
  PROVE  LoopInv'
<1>1. PICK f \in Frames \cup {None} : trig' = [trig EXCEPT ![c] = f]
  BY DEF SetTrigger
<1>2. /\ c \notin fire /\ done' = done \ {c} /\ excused' = excused \cup {c}
      /\ UNCHANGED <<on, there, mark, fire, bykey, pressed, spoilt, keys, prev, loop>>
  BY DEF SetTrigger, Editing, same
<1>3. trig' \in [Cue -> Frames \cup {None}] /\ \A d \in Cue \ {c} : trig'[d] = trig[d]
  BY <1>1 DEF LoopInv, ListTypes
<1>4. ListTypes' /\ Idle' /\ FiresOnce' /\ KeysKept'
  BY <1>2, <1>3 DEF LoopInv, ListTypes, Idle, FiresOnce, KeysKept
<1>5. Covered'
  <2> SUFFICES ASSUME NEW d \in done' \cup fire' PROVE Past(d, prev)' /\ Past(d, mark)'
    BY DEF Covered
  <2>1. d \in Cue \ {c} /\ d \in done \cup fire
    BY <1>2 DEF LoopInv, ListTypes
  <2>2. Past(d, prev) /\ Past(d, mark)
    BY <2>1 DEF LoopInv, Covered
  <2> QED
    BY <1>2, <1>3, <2>1, <2>2 DEF Past
<1>6. Accounted'
  <2> SUFFICES ASSUME on', NEW d \in there', (Past(d, prev) \/ Past(d, mark))', trig'[d] > 0,
                      d # c
               PROVE  d \in done' \cup excused' \cup fire'
    BY <1>2 DEF Accounted
  <2>1. d \in Cue \ {c} /\ d \in there
    BY <1>2 DEF LoopInv, ListTypes
  <2>2. (Past(d, prev) \/ Past(d, mark)) /\ trig[d] > 0
    BY <1>2, <1>3, <2>1 DEF Past
  <2> QED
    BY <1>2, <2>1, <2>2 DEF LoopInv, Accounted
<1> QED
  BY <1>4, <1>5, <1>6 DEF LoopInv

\* The other edits of the list.
LEMMA EditingAccounts ==
  ASSUME LoopInv, SetEnabled \/ Reopen \/ \E c \in Cue : RemoveCue(c)
  PROVE  LoopInv'
<1>1. CASE SetEnabled
  <2>1. /\ on' = ~on /\ excused' = excused \cup { c \in Cue : Past(c, prev) \/ Past(c, mark) }
        /\ UNCHANGED <<trig, there, mark, done, fire, bykey, pressed, spoilt, keys, prev, loop>>
    BY <1>1 DEF SetEnabled, Editing, same
  <2> QED
    BY <2>1 DEF LoopInv, ListTypes, Idle, Covered, FiresOnce, Accounted, KeysKept, Past
<1>2. CASE Reopen
  <2>1. /\ fire' = {} /\ bykey' = {} /\ pressed' = keys /\ spoilt' = {} /\ mark' = 0 /\ done' = {}
        /\ excused' = { c \in Cue : Past(c, prev) }
        /\ UNCHANGED <<on, trig, there, keys, prev, loop>>
    BY <1>2 DEF Reopen, Editing
  <2>2. \A c \in Cue : Past(c, 0) => ~(trig[c] > 0)
    <3> TAKE c \in Cue
    <3>1. trig[c] \in Nat
      BY Bounds DEF LoopInv, ListTypes, Number, Frames
    <3> QED
      BY <3>1 DEF Past
  <2>3. Accounted'
    <3> SUFFICES ASSUME NEW c \in there', (Past(c, prev) \/ Past(c, mark))', trig'[c] > 0
                 PROVE  c \in excused'
      BY DEF Accounted
    <3>1. c \in Cue /\ (Past(c, prev) \/ Past(c, 0)) /\ trig[c] > 0
      BY <2>1 DEF LoopInv, ListTypes, Past
    <3> QED
      BY <2>1, <2>2, <3>1
  <2> QED
    BY <2>1, <2>3, Bounds DEF LoopInv, ListTypes, Idle, Covered, FiresOnce, KeysKept
<1>3. CASE \E c \in Cue : RemoveCue(c)
  <2>1. PICK c \in Cue : there' = there \ {c}
          /\ UNCHANGED <<trig, on, mark, done, excused, fire, bykey, pressed, spoilt, keys, prev, loop>>
    BY <1>3 DEF RemoveCue, Editing, same, account
  <2> QED
    BY <2>1 DEF LoopInv, ListTypes, Idle, Covered, FiresOnce, Accounted, KeysKept, Past
<1> QED
  BY <1>1, <1>2, <1>3

\* A press and a listener that is replaced.
LEMMA KeysAccount ==
  ASSUME LoopInv, SetListener \/ Press
  PROVE  LoopInv'
<1>1. UNCHANGED <<list, looping, account>>
  BY DEF SetListener, Press
<1>2. ListTypes' /\ Idle' /\ Covered' /\ FiresOnce' /\ Accounted'
  <2>1. keys' \subseteq Keyed
    BY DEF SetListener, Press
  <2> QED
    BY <1>1, <2>1 DEF LoopInv, ListTypes, Idle, Covered, FiresOnce, Accounted, Past,
                      list, looping, account
<1>3. KeysKept'
  <2>1. CASE SetListener
    BY <1>1, <2>1 DEF SetListener, LoopInv, KeysKept, list, looping
  <2>2. CASE Press
    BY <1>1, <2>2 DEF Press, LoopInv, ListTypes, KeysKept, list, looping
  <2> QED
    BY <2>1, <2>2
<1> QED
  BY <1>2, <1>3 DEF LoopInv

\* The latest position of the queue is one.
LEMMA LatestType ==
  ASSUME ReceiverInv, queue # <<>>
  PROVE  Latest \in Number
<1>1. queue \in Seq(Number) /\ Len(queue) \in 1..Len(queue)
  BY DEF ReceiverInv, WireTypes
<1> QED
  BY <1>1 DEF Latest, Last

\* A tick drains the keys.
LEMMA DrainKeys ==
  ASSUME LoopInv, NEW free, NEW freekeys, Drain(free, freekeys)
  PROVE  KeysKept' /\ keys' = {} /\ bykey' \subseteq Cue /\ loop = "idle" /\ loop' = "fire"
<1>1. /\ keys' = {} /\ bykey' = (IF freekeys THEN keys \cap there ELSE {})
      /\ spoilt' = (IF freekeys THEN spoilt ELSE spoilt \cup keys)
      /\ UNCHANGED <<pressed, there>> /\ loop = "idle" /\ loop' = "fire"
  BY DEF Drain, Taken
<1>2. pressed \cap there \subseteq keys \cup spoilt
  BY <1>1 DEF LoopInv, Idle, KeysKept
<1> QED
  BY <1>1, <1>2 DEF LoopInv, ListTypes, KeysKept

\* A tick that finds the position where it was.
LEMMA DrainStill ==
  ASSUME ReceiverInv, LoopInv, NEW free, NEW freekeys, Drain(free, freekeys), ~Moved
  PROVE  LoopInv'
<1>1. ~JumpedBack
  <2>1. CASE queue = <<>>
    BY <2>1 DEF JumpedBack
  <2>2. CASE queue # <<>>
    <3>1. Latest \in Number /\ prev = Latest
      BY <2>2, LatestType DEF Moved
    <3> QED
      BY <3>1, Bounds DEF JumpedBack, Number
  <2> QED
    BY <2>1, <2>2
<1>2. /\ fire' = {} /\ mark' = mark /\ excused' = excused /\ UNCHANGED <<on, trig, there>>
  BY <1>1 DEF Drain, Rearmed, Unseen
<1>3. prev' = prev /\ done' = done
  <2>1. CASE queue = <<>>
    BY <2>1 DEF Drain
  <2>2. CASE queue # <<>>
    <3>1. prev = Latest /\ prev' = Latest /\ done' = { c \in done : Past(c, Latest) }
      BY <2>2 DEF Moved, Drain
    <3>2. \A c \in done : Past(c, Latest)
      BY <3>1 DEF LoopInv, Covered
    <3> QED
      BY <3>1, <3>2
  <2> QED
    BY <2>1, <2>2
<1>4. KeysKept' /\ keys' = {} /\ bykey' \subseteq Cue /\ loop = "idle" /\ loop' = "fire"
  BY DrainKeys
<1>5. fire = {}
  BY <1>4 DEF LoopInv, Idle
<1> QED
  BY <1>2, <1>3, <1>4, <1>5 DEF LoopInv, ListTypes, Idle, Covered, FiresOnce, Accounted, Past

\* A tick that finds the position behind where it was: what lies ahead is armed again, and
\* what the jump landed on is passed over.
LEMMA DrainBack ==
  ASSUME ReceiverInv, LoopInv, NEW free, NEW freekeys, Drain(free, freekeys), JumpedBack
  PROVE  LoopInv'
<1> DEFINE L == Latest
<1>1. queue # <<>> /\ prev # None /\ L < prev
  BY DEF JumpedBack
<1>2. L \in Number /\ prev \in Number
  BY <1>1, LatestType DEF LoopInv, ListTypes
<1>3. L \in Nat /\ prev \in Nat /\ mark \in Nat /\ L # None /\ \A c \in Cue : trig[c] \in Nat
  BY <1>2, Bounds DEF LoopInv, ListTypes, Number, Frames
<1>4. Moved
  BY <1>1, <1>3 DEF Moved
<1>5. KeysKept' /\ keys' = {} /\ bykey' \subseteq Cue /\ loop = "idle" /\ loop' = "fire"
  BY DrainKeys
<1>6. fire = {}
  BY <1>5 DEF LoopInv, Idle
<1>7. prev' = L /\ done' = { c \in done : Past(c, L) } /\ UNCHANGED <<on, trig, there>>
  BY <1>1 DEF Drain
<1>8. excused' = (excused \ Rearmed(free)) \cup Unseen(free)
  BY DEF Drain
<1>9. CASE free /\ on
  <2>1. Crossed = {}
    BY <1>3, <1>4 DEF Crossed, Armed, Past
  <2>2. mark' = L /\ fire' = {}
    BY <1>4, <1>9, <2>1 DEF Drain, Armed
  <2>3. Unseen(free) = { c \in Cue : trig[c] = L } /\ Rearmed(free) = { c \in Cue : trig[c] # None /\ trig[c] > L }
    BY <1>4, <1>9 DEF Unseen, Rearmed
  <2>4. Accounted'
    <3> SUFFICES ASSUME NEW c \in there, Past(c, L), trig[c] > 0
                 PROVE  c \in done' \cup excused'
      BY <1>7, <2>2 DEF Accounted, Past
    <3>1. c \in Cue
      BY DEF LoopInv, ListTypes
    <3>2. Past(c, prev)
      BY <1>1, <1>3, <3>1 DEF Past
    <3>3. c \in done \cup excused
      BY <1>6, <1>9, <3>2 DEF LoopInv, Accounted
    <3>4. c \notin Rearmed(free)
      BY <1>3, <2>3, <3>1 DEF Past
    <3> QED
      BY <1>7, <1>8, <3>3, <3>4
  <2>5. Covered'
    BY <1>7, <2>2 DEF Covered, Past
  <2> HIDE DEF L
  <2> QED
    BY <1>2, <1>5, <1>7, <2>2, <2>4, <2>5 DEF LoopInv, ListTypes, Idle, FiresOnce
<1>10. CASE ~(free /\ on)
  <2>1. mark' = mark /\ fire' = {}
    BY <1>10 DEF Drain
  <2>2. on => Cue \subseteq excused'
    BY <1>4, <1>8, <1>10 DEF Unseen
  <2>3. Accounted'
    BY <1>7, <2>2 DEF Accounted, LoopInv, ListTypes
  <2>4. Covered'
    BY <1>7, <2>1 DEF Covered, LoopInv, Past
  <2> HIDE DEF L
  <2> QED
    BY <1>2, <1>5, <1>7, <2>1, <2>3, <2>4 DEF LoopInv, ListTypes, Idle, FiresOnce
<1> QED
  BY <1>9, <1>10

\* A tick that finds the position ahead: what lies between the mark and it is crossed.
LEMMA DrainOn ==
  ASSUME ReceiverInv, LoopInv, NEW free, NEW freekeys, Drain(free, freekeys), Moved, ~JumpedBack
  PROVE  LoopInv'
<1> DEFINE L == Latest
<1>1. queue # <<>> /\ L \in Number
  BY LatestType DEF Moved
<1>2. L \in Nat /\ mark \in Nat /\ mark # None /\ L # None /\ \A c \in Cue : trig[c] \in Nat
  BY <1>1, Bounds DEF LoopInv, ListTypes, Number, Frames
<1>3. prev = None \/ (prev \in Nat /\ prev <= L)
  BY <1>1, <1>2, Bounds DEF LoopInv, ListTypes, Number, JumpedBack
<1>4. \A c \in Cue : Past(c, prev) => Past(c, L)
  BY <1>2, <1>3 DEF Past
<1>5. KeysKept' /\ keys' = {} /\ bykey' \subseteq Cue /\ loop = "idle" /\ loop' = "fire"
  BY DrainKeys
<1>6. fire = {}
  BY <1>5 DEF LoopInv, Idle
<1>7. prev' = L /\ done' = done /\ UNCHANGED <<on, trig, there>>
  <2>1. prev' = L /\ done' = { c \in done : Past(c, L) } /\ UNCHANGED <<on, trig, there>>
    BY <1>1 DEF Drain
  <2>2. \A c \in done : Past(c, L)
    BY <1>4 DEF LoopInv, ListTypes, Covered
  <2> QED
    BY <2>1, <2>2
<1>8. excused' = excused \cup Unseen(free)
  BY DEF Drain, Rearmed
<1>9. CASE free /\ on
  <2>1. Crossed = { c \in Cue : Past(c, L) /\ trig[c] > mark }
    BY DEF Crossed, Armed
  <2>2. mark' = (IF Crossed = {} THEN mark ELSE L) /\ fire' = Crossed \cap there
    BY <1>9 DEF Drain, Armed
  <2>3. \A c \in done : Past(c, mark) /\ Past(c, L)
    BY <1>4 DEF LoopInv, ListTypes, Covered
  <2>4. Covered'
    BY <1>7, <2>1, <2>2, <2>3 DEF Covered, Past
  <2>5. FiresOnce'
    BY <1>2, <1>7, <2>1, <2>2, <2>3 DEF FiresOnce, Past, LoopInv, ListTypes
  <2>6. Accounted'
    <3> SUFFICES ASSUME NEW c \in there, Past(c, L) \/ Past(c, mark), trig[c] > 0
                 PROVE  c \in done \cup excused \cup fire'
      BY <1>7, <1>8, <2>2 DEF Accounted, Past
    <3>1. c \in Cue
      BY DEF LoopInv, ListTypes
    <3>2. CASE Past(c, mark)
      BY <1>6, <1>9, <3>2 DEF LoopInv, Accounted
    <3>3. CASE ~Past(c, mark)
      BY <1>2, <2>1, <2>2, <3>1, <3>3 DEF Past
    <3> QED
      BY <3>2, <3>3
  <2>7. mark' \in Number /\ fire' \subseteq Cue
    BY <1>1, <2>1, <2>2 DEF LoopInv, ListTypes
  <2> HIDE DEF L
  <2> QED
    BY <1>1, <1>5, <1>7, <2>4, <2>5, <2>6, <2>7 DEF LoopInv, ListTypes, Idle
<1>10. CASE ~(free /\ on)
  <2>1. mark' = mark /\ fire' = {}
    BY <1>10 DEF Drain
  <2>2. on => \A c \in Cue : Past(c, L) => c \in excused'
    BY <1>8, <1>10 DEF Unseen
  <2>3. Accounted'
    <3> SUFFICES ASSUME on, NEW c \in there, Past(c, L) \/ Past(c, mark), trig[c] > 0
                 PROVE  c \in done \cup excused'
      BY <1>7, <2>1 DEF Accounted, Past
    <3>1. c \in Cue
      BY DEF LoopInv, ListTypes
    <3>2. CASE Past(c, mark)
      BY <1>6, <1>8, <3>2 DEF LoopInv, Accounted
    <3> QED
      BY <2>2, <3>1, <3>2
  <2>4. \A c \in done : Past(c, mark) /\ Past(c, L)
    BY <1>4 DEF LoopInv, ListTypes, Covered
  <2>5. Covered'
    BY <1>7, <2>1, <2>4 DEF Covered, Past
  <2> HIDE DEF L
  <2> QED
    BY <1>1, <1>5, <1>7, <2>1, <2>3, <2>5 DEF LoopInv, ListTypes, Idle, FiresOnce
<1> QED
  BY <1>9, <1>10

\* The end of a tick: what it was to fire is fired, or has its reason.
LEMMA TickEnds ==
  ASSUME LoopInv, GivesUp \/ Fires
  PROVE  LoopInv'
<1>1. CASE GivesUp
  <2>1. /\ loop' = "idle" /\ fire' = {} /\ bykey' = {}
        /\ excused' = excused \cup fire /\ spoilt' = spoilt \cup bykey
        /\ UNCHANGED <<keys, pressed, on, trig, there, mark, prev, done>>
    BY <1>1 DEF GivesUp, list
  <2> QED
    BY <2>1 DEF LoopInv, ListTypes, Idle, Covered, FiresOnce, Accounted, KeysKept, Past
<1>2. CASE Fires
  <2>1. /\ loop' = "idle" /\ fire' = {} /\ bykey' = {}
        /\ done' = done \cup (fire \cap there) /\ excused' = excused \ fire
        /\ pressed' = pressed \ bykey /\ spoilt' = spoilt \ bykey
        /\ UNCHANGED <<keys, on, trig, there, mark, prev>>
    BY <1>2 DEF Fires, list
  <2> QED
    BY <2>1 DEF LoopInv, ListTypes, Idle, Covered, FiresOnce, Accounted, KeysKept, Past
<1> QED
  BY <1>1, <1>2

\* Every step keeps the triggers and the keys.
LEMMA LoopInductive == ReceiverInv /\ LoopInv /\ [Next]_vars => LoopInv'
<1> SUFFICES ASSUME ReceiverInv, LoopInv, [Next]_vars PROVE LoopInv'
  OBVIOUS
<1>1. CASE Go \/ GoWaits \/ Starting \/ Silence
  BY <1>1, LoopCarriesOver DEF Go, GoWaits, Starting, Silence, elsewhere
<1>2. CASE \E g \in Two : SendMtc(g) \/ SendLtc(g)
  BY <1>2, LoopCarriesOver DEF SendMtc, SendLtc, Send
<1>3. CASE Reconfigure \/ Reconfigured \/ Disable
  BY <1>3, LoopCarriesOver DEF Reconfigure, Reconfigured, Disable, Configure
<1>4. CASE SetEnabled \/ Reopen \/ \E c \in Cue : SetTrigger(c) \/ RemoveCue(c)
  BY <1>4, SetTriggerAccounts, EditingAccounts
<1>5. CASE SetListener \/ Press
  BY <1>5, KeysAccount
<1>6. CASE \E free, freekeys \in BOOLEAN : Drain(free, freekeys)
  BY <1>6, DrainStill, DrainBack, DrainOn
<1>7. CASE GivesUp \/ Fires
  BY <1>7, TickEnds
<1>8. CASE UNCHANGED vars
  BY <1>8, LoopCarriesOver DEF vars
<1> QED
  BY <1>1, <1>2, <1>3, <1>4, <1>5, <1>6, <1>7, <1>8 DEF Next

---------------------------------------------------------------------------
(***************************************************************************)
(* The theorems.                                                            *)
(***************************************************************************)
\* The invariant holds as the program starts.
LEMMA AtTheStart == Init => IInv
<1> SUFFICES ASSUME Init PROVE IInv
  OBVIOUS
<1> USE TimecodeAssumption
<1>1. NoThread \in Generators /\ ~NoThread.live
  BY DEF NoThread, Generators, Frames
<1>2. SenderInv
  <2>1. gen = [g \in Two |-> NoThread] /\ cue = "standby" /\ active = 0 /\ source \in Sources
    BY DEF Init
  <2> QED
    BY <1>1, <2>1 DEF SenderInv, SenderTypes, Owned, GeneratorOwned
<1>3. ReceiverInv
  <2>1. /\ rx = [e \in Two |-> Fresh] /\ ears = {1} /\ queue = <<>> /\ tc = "on" /\ misread = {}
        /\ gen = [g \in Two |-> NoThread]
    BY DEF Init
  <2>2. <<>> \in Seq(Number)
    OBVIOUS
  <2> QED
    BY <1>1, <2>1, <2>2, Receiving DEF ReceiverInv, WireTypes, Reading, Agrees, GroupsAreRead, Two
<1>4. LoopInv
  <2>1. /\ keys = {} /\ prev = None /\ mark = 0 /\ on = TRUE /\ trig \in Trigs /\ there = Cue
        /\ loop = "idle" /\ fire = {} /\ bykey = {} /\ done = {} /\ pressed = {}
    BY DEF Init
  <2>2. \A c \in Cue : ~Past(c, None) /\ (Past(c, 0) => ~(trig[c] > 0))
    <3> TAKE c \in Cue
    <3>1. trig[c] \in Nat
      BY <2>1, Bounds DEF Number, Frames
    <3> QED
      BY <3>1 DEF Past
  <2> QED
    BY <2>1, <2>2, Bounds DEF LoopInv, ListTypes, Idle, Covered, FiresOnce, Accounted, KeysKept
<1> QED
  BY <1>2, <1>3, <1>4 DEF IInv

\* The invariant says what the properties do.
LEMMA Says == IInv => TimecodeSafety /\ TriggersKept
<1> SUFFICES ASSUME IInv PROVE TimecodeSafety /\ TriggersKept
  OBVIOUS
<1>1. TypeOK
  <2>1. \A g \in Two : gen[g].frame \in Frames /\ gen[g].next \in 0..Pieces
    BY DEF IInv, SenderInv, SenderTypes, Generators
  <2>2. /\ ears \in (SUBSET Two) \ {{}}
        /\ \A e \in Two : rx[e].count \in 0..Pieces /\ rx[e].run \in 0..Pieces
    BY DEF IInv, ReceiverInv, WireTypes, Receivers
  <2>3. \A i \in DOMAIN queue : queue[i] \in 0..(None - 1)
    <3>1. queue \in Seq(Number)
      BY DEF IInv, ReceiverInv, WireTypes
    <3>2. \A i \in DOMAIN queue : queue[i] \in Number
      BY <3>1
    <3> QED
      BY <3>2 DEF Number
  <2> QED
    BY <2>1, <2>2, <2>3
       DEF IInv, SenderInv, SenderTypes, ReceiverInv, WireTypes, LoopInv, ListTypes, TypeOK, Number
<1>2. GeneratorOwned /\ GroupsAreRead /\ FiresOnce
  BY DEF IInv, SenderInv, Owned, ReceiverInv, LoopInv
<1>3. KeysAnswered /\ CrossedAreAccounted
  <2>1. \A c \in Cue : CanFire(c) => trig[c] > 0
    BY DEF CanFire, Frames
  <2> QED
    BY <2>1 DEF IInv, LoopInv, ListTypes, Idle, KeysKept, Accounted, KeysAnswered,
                CrossedAreAccounted
<1> QED
  BY <1>1, <1>2, <1>3 DEF TimecodeSafety, TriggersKept

\* The invariant holds throughout.
LEMMA Inductive == Spec => []IInv
<1>1. IInv /\ [Next]_vars => IInv'
  BY SenderInductive, ReceiverInductive, LoopInductive DEF IInv
<1> QED
  BY <1>1, AtTheStart, PTL DEF Spec

\* Timecode is sent by the one cue that runs (TimecodeCue::start_action, stop), a group of
\* quarter frames that comes whole and in order is read as the frame it was
\* (push_quarter_frame), and no key that was pressed is lost but to a held workspace or a
\* replaced listener: for every base, number of pieces, day and list.
THEOREM SentAndRead == Spec => []TimecodeSafety
<1>1. IInv => TimecodeSafety
  BY Says
<1> QED
  BY <1>1, Inductive, PTL

\* A trigger fires once until the timecode has been seen before it again, and none but one
\* at 00:00:00:00, which never fires, is passed without a reason (tc_triggers_crossed, the
\* event loop's sections 0 and 9b), however positions jump, ticks are given up, receiving
\* threads outlive a change of settings and the list is edited.
THEOREM TriggersFireOnce == Spec => []TriggersKept
<1>1. IInv => TriggersKept
  BY Says
<1> QED
  BY <1>1, Inductive, PTL


---------------------------------------------------------------------------
(***************************************************************************)
(* Crossfade: the inductive invariant.                                      *)
(***************************************************************************)
\* No two Fades dissolve into the same picture: the second to would give its slot a new link,
\* and the first keep the clock of the old one.
OneFadeEach == \A f, g \in Fades : Plan[f].into = Plan[g].into /\ Plan[f].into # Nobody => f = g

---------------------------------------------------------------------------
(***************************************************************************)
(* Types.                                                                   *)
(***************************************************************************)
Voices == 0..LastVoice
Crosses == [is : {"none", "pending", "linked"}, started : BOOLEAN, voice : Voices, level : Level,
            targets : SUBSET Picture, sounds : SUBSET [voice : Voice, gain : Level]]
FadeRecords == [state : {"standby", "running", "paused"}, waits : BOOLEAN, clock : 0..Span,
                runs : BOOLEAN, awaiting : BOOLEAN, done : BOOLEAN, cross : Crosses,
                targets : SUBSET [voice : Voice, gain : Level, opacity : Level]]
PicRecords == [state : {"standby", "running"}, voice : Voices, waits : BOOLEAN]
Outs == [voice : Voice, from : Level, apart : BOOLEAN]
Links == [is : BOOLEAN, out : SUBSET Outs, revealed : BOOLEAN, paused : BOOLEAN, runs : BOOLEAN,
          started : BOOLEAN, done : 0..Span, since : 0..Span]
Layers == [on : BOOLEAN, shown : BOOLEAN, stopping : BOOLEAN, opacity : Level, gain : Level,
           link : Links]
Pasts == [late : SUBSET Voices, missed : SUBSET Voices, left : SUBSET Voices, faded : SUBSET Voices,
          taken : SUBSET Voices, dull : SUBSET Voices, dim : SUBSET Voices, spent : SUBSET Voices]
Worlds == [fade : [Fades -> FadeRecords], pic : [Picture -> PicRecords], layer : [Voice -> Layers],
           next : 1..(LastVoice + 1), of : [Voice -> Picture \cup {Nobody}], past : Pasts]
\* A picture that is on its slot and not being stopped; the picture a Fade brings in.
Live(w, v) == w.layer[v].on /\ ~w.layer[v].stopping
Linked(w, f) == w.fade[f].cross.is = "linked"
Incoming(w, f) == w.fade[f].cross.voice

\* A cue at rest or in its pre-wait has no voice, and the voice of a cue was started for it.
PicsIn(w) ==
  \A p \in Picture :
    /\ w.pic[p].state = "standby" \/ w.pic[p].waits => w.pic[p].voice = NoVoice
    /\ w.pic[p].state = "standby" => ~w.pic[p].waits
    /\ w.pic[p].voice # NoVoice => w.pic[p].voice < w.next /\ w.of[w.pic[p].voice] = p
    /\ OnSlot(w, w.pic[p].voice) => Live(w, w.pic[p].voice)

\* What is on a slot was started, and belongs to the cue it was started for.
VoicesIn(w) ==
  \A v \in Voice :
    /\ w.layer[v].on \/ w.layer[v] = Gone
    /\ w.layer[v].on => v < w.next
    /\ Live(w, v) => w.of[v] \in Picture /\ w.pic[w.of[v]].voice = v

\* The clock of a dissolve runs from the reveal on, but for its pauses, and drives the
\* pictures no longer than it has been running.
ClockIn(l) ==
  /\ l.is \/ l = NoLink
  /\ l.runs <=> l.revealed /\ ~l.paused
  /\ l.runs => l.started
  /\ l.started => l.revealed
  /\ l.started \/ (l.done = 0 /\ l.since = 0)
  /\ l.done <= l.since
LinksIn(w) ==
  \A v \in Voice : LET l == w.layer[v].link IN
    /\ ClockIn(l)
    /\ l.is => Live(w, v) /\ (w.layer[v].shown => l.revealed)
    /\ \A o \in l.out : o.voice # v

\* What a Fade waits for, and what it has linked.
CrossOf(w, f) ==
  LET r == w.fade[f] IN
  /\ r.cross.is = "pending" => r.awaiting
  /\ r.cross.is = "none" => ~r.awaiting
  /\ r.cross.is # "none" => Plan[f].into # Nobody
  /\ r.cross.is = "linked" => /\ r.cross.voice # NoVoice /\ r.cross.voice < w.next
                              /\ w.of[r.cross.voice] = Plan[f].into /\ ~r.waits
  /\ r.awaiting => ~r.runs /\ (r.waits \/ r.clock = 0) /\ ~r.done
  /\ r.done => ~r.waits
CrossIn(w) == \A f \in Fades : CrossOf(w, f)
\* The picture a Fade dissolves into has a link from nobody else.
AloneOf(w, f) ==
  \A u \in Voice : w.of[u] = Plan[f].into /\ w.layer[u].link.is =>
    /\ ~(w.fade[f].cross.is = "pending" /\ w.fade[f].cross.started)
    /\ Linked(w, f) => u = Incoming(w, f)
AloneIn(w) == \A f \in Fades : AloneOf(w, f)

\* A Fade and the link it drives: paused together, and on one clock once the Fade has seen the
\* first frame.  Until then the dissolve has been driven for all the time since it started, which
\* is what the clock of the Fade is then set to.
Together(r, l, late) ==
  /\ l.paused <=> r.state = "paused"
  /\ r.awaiting /\ l.started /\ ~late => r.state = "running" /\ l.since = l.done
  /\ ~r.awaiting => /\ l.started /\ (r.runs <=> r.state = "running")
                    /\ l.done <= r.clock /\ (~late => r.clock = l.done)
\* A Fade whose link is gone has seen the dissolve to its end, or has yet to be told.
StepOf(w, f) ==
  Linked(w, f) /\ w.fade[f].state # "standby" =>
    LET v == Incoming(w, f) IN
    /\ w.layer[v].link.is => Together(w.fade[f], w.layer[v].link, v \in w.past.late)
    /\ Live(w, v) /\ ~w.layer[v].link.is => w.fade[f].awaiting \/ w.fade[f].clock = Span
StepIn(w) == \A f \in Fades : StepOf(w, f)

\* The sounds SoundComes takes no account of.
Excused(w) == w.past.left \cup w.past.missed \cup w.past.faded \cup w.past.taken \cup w.past.dull
\* A Fade that is done has brought its sound to the end.
DoneOf(w, f) ==
  Linked(w, f) /\ w.fade[f].state # "standby" /\ w.fade[f].done =>
    /\ w.fade[f].clock = Span
    /\ Live(w, Incoming(w, f)) => \/ w.layer[Incoming(w, f)].gain = "full"
                                  \/ Incoming(w, f) \in Excused(w)
DoneIn(w) == \A f \in Fades : DoneOf(w, f)
\* The Fade that has the sound of a picture in hand, or is about to.
OwnerOf(w, f, v) == w.fade[f].state # "standby" /\ Linked(w, f) /\ Incoming(w, f) = v
AgainOf(w, f, v) == /\ w.fade[f].state = "running" /\ ~w.fade[f].waits /\ Plan[f].into = w.of[v]
                    /\ w.fade[f].cross.is = "pending" /\ w.fade[f].cross.started
\* A sound below its level is in the hands of a Fade, or (S) of one about to link it again.
SoundIn(w, S) ==
  \A v \in Voice : Live(w, v) /\ w.layer[v].gain # "full" =>
    \/ \E f \in Fades : OwnerOf(w, f, v)
    \/ v \in Excused(w)
    \/ \E f \in S : AgainOf(w, f, v)

\* What is dim is dissolved, its own way or apart, or was taken before it was seen in full.
DimIn(w) ==
  \A v \in Voice : Live(w, v) /\ w.layer[v].shown /\ w.layer[v].opacity # "full" =>
    \/ v \in w.past.faded \cup w.past.dim \cup w.past.spent
    \/ w.layer[v].link.is /\ ~Mixes(w.layer[v].link)
    \/ \E u \in Voice : \E o \in w.layer[u].link.out : o.voice = v /\ o.apart

\* History knows what the Fades drive and what the links took.
HistIn(w) ==
  /\ \A f \in Fades : /\ \A t \in w.fade[f].targets : t.voice \in w.past.faded
                      /\ \A s \in w.fade[f].cross.sounds : s.voice \in w.past.taken
                      /\ f \in Dulled(w) => Incoming(w, f) \in w.past.dull
  /\ \A v \in Voice : \A o \in w.layer[v].link.out : o.from # "full" => o.voice \in w.past.dim

\* The invariant of the Fades, their links and their pictures.
FadeCore(w) == /\ PicsIn(w) /\ VoicesIn(w) /\ LinksIn(w) /\ CrossIn(w) /\ AloneIn(w) /\ StepIn(w)
               /\ DoneIn(w) /\ DimIn(w)

---------------------------------------------------------------------------
\* The constants, as the proofs below use them.
LEMMA Constants ==
  /\ Span \in Nat \ {0} /\ LastVoice \in Nat /\ 0 \in Voices /\ NoVoice = 0 /\ Nobody \notin Picture
  /\ Voice \subseteq Voices /\ \A v \in Voices : v \in Voice <=> v # 0
  /\ \A f \in Fades : /\ Plan[f].targets \subseteq Picture /\ Plan[f].into \in Picture \cup {Nobody}
                      /\ Plan[f].waits \in BOOLEAN /\ Plan[f].stops \in BOOLEAN
BY CrossfadeAssumption DEF CrossfadeAssumption, Voice, Voices, NoVoice, Plans

\* The fields of a world.
LEMMA WorldIs ==
  ASSUME NEW w \in Worlds
  PROVE  /\ w.fade \in [Fades -> FadeRecords] /\ w.pic \in [Picture -> PicRecords]
         /\ w.layer \in [Voice -> Layers] /\ w.next \in 1..(LastVoice + 1)
         /\ w.of \in [Voice -> Picture \cup {Nobody}] /\ w.past \in Pasts
BY DEF Worlds

\* The fields of a Fade.
LEMMA FadeIs ==
  ASSUME NEW w \in Worlds, NEW f \in Fades
  PROVE  /\ w.fade[f] \in FadeRecords /\ w.fade[f].state \in {"standby", "running", "paused"}
         /\ w.fade[f].waits \in BOOLEAN /\ w.fade[f].clock \in 0..Span /\ w.fade[f].runs \in BOOLEAN
         /\ w.fade[f].awaiting \in BOOLEAN /\ w.fade[f].done \in BOOLEAN
         /\ w.fade[f].cross \in Crosses /\ w.fade[f].cross.is \in {"none", "pending", "linked"}
         /\ w.fade[f].cross.started \in BOOLEAN /\ w.fade[f].cross.voice \in Voices
         /\ w.fade[f].cross.level \in Level /\ w.fade[f].cross.targets \in SUBSET Picture
         /\ w.fade[f].cross.sounds \in SUBSET [voice : Voice, gain : Level]
         /\ w.fade[f].targets \in SUBSET [voice : Voice, gain : Level, opacity : Level]
<1>1. w.fade[f] \in FadeRecords
  BY WorldIs
<1>2. w.fade[f].cross \in Crosses
  BY <1>1 DEF FadeRecords
<1> QED
  BY <1>1, <1>2 DEF FadeRecords, Crosses

\* The fields of a slot.
LEMMA LayerIs ==
  ASSUME NEW w \in Worlds, NEW v \in Voice
  PROVE  /\ w.layer[v] \in Layers /\ w.layer[v].on \in BOOLEAN /\ w.layer[v].shown \in BOOLEAN
         /\ w.layer[v].stopping \in BOOLEAN /\ w.layer[v].opacity \in Level
         /\ w.layer[v].gain \in Level /\ w.layer[v].link \in Links
<1>1. w.layer[v] \in Layers
  BY WorldIs
<1> QED
  BY <1>1 DEF Layers

\* The fields of a link.
LEMMA LinkIs ==
  ASSUME NEW l \in Links
  PROVE  /\ l.is \in BOOLEAN /\ l.revealed \in BOOLEAN /\ l.paused \in BOOLEAN /\ l.runs \in BOOLEAN
         /\ l.started \in BOOLEAN /\ l.done \in 0..Span /\ l.since \in 0..Span /\ l.out \subseteq Outs
BY DEF Links

\* The fields of a picture.
LEMMA PicIs ==
  ASSUME NEW w \in Worlds, NEW p \in Picture
  PROVE  /\ w.pic[p] \in PicRecords /\ w.pic[p].state \in {"standby", "running"}
         /\ w.pic[p].voice \in Voices /\ w.pic[p].waits \in BOOLEAN
<1>1. w.pic[p] \in PicRecords
  BY WorldIs
<1> QED
  BY <1>1 DEF PicRecords

\* slot_for_voice finds nothing for no voice.
LEMMA OnSlotIs ==
  ASSUME NEW w \in Worlds, NEW v \in Voices
  PROVE  OnSlot(w, v) <=> v \in Voice /\ w.layer[v].on
BY Constants DEF OnSlot

\* What is put in its place leaves a world.
LEMMA PutFade ==
  ASSUME NEW w \in Worlds, NEW f \in Fades, NEW r \in FadeRecords
  PROVE  LET x == [w EXCEPT !.fade[f] = r] IN
         /\ x \in Worlds /\ x.fade = [w.fade EXCEPT ![f] = r] /\ x.pic = w.pic /\ x.layer = w.layer
         /\ x.next = w.next /\ x.of = w.of /\ x.past = w.past
BY DEF Worlds

\* So does a slot.
LEMMA PutLayer ==
  ASSUME NEW w \in Worlds, NEW v \in Voice, NEW l \in Layers
  PROVE  LET x == [w EXCEPT !.layer[v] = l] IN
         /\ x \in Worlds /\ x.fade = w.fade /\ x.pic = w.pic /\ x.layer = [w.layer EXCEPT ![v] = l]
         /\ x.next = w.next /\ x.of = w.of /\ x.past = w.past
BY DEF Worlds

\* So do all the slots.
LEMMA PutLayers ==
  ASSUME NEW w \in Worlds, NEW m \in [Voice -> Layers]
  PROVE  LET x == [w EXCEPT !.layer = m] IN
         /\ x \in Worlds /\ x.fade = w.fade /\ x.pic = w.pic /\ x.layer = m
         /\ x.next = w.next /\ x.of = w.of /\ x.past = w.past
BY DEF Worlds

\* So does a picture.
LEMMA PutPic ==
  ASSUME NEW w \in Worlds, NEW p \in Picture, NEW r \in PicRecords
  PROVE  LET x == [w EXCEPT !.pic[p] = r] IN
         /\ x \in Worlds /\ x.fade = w.fade /\ x.pic = [w.pic EXCEPT ![p] = r] /\ x.layer = w.layer
         /\ x.next = w.next /\ x.of = w.of /\ x.past = w.past
BY DEF Worlds

\* What history keeps.
LEMMA KeptIs ==
  ASSUME NEW old \in Worlds, NEW w \in Worlds
  PROVE  LET x == Kept(old, w) IN
         /\ x \in Worlds /\ x.fade = w.fade /\ x.pic = w.pic /\ x.layer = w.layer
         /\ x.next = w.next /\ x.of = w.of
         /\ x.past.late = w.past.late /\ x.past.missed = w.past.missed /\ x.past.left = w.past.left
         /\ x.past.faded = w.past.faded \cup UNION { { t.voice : t \in w.fade[f].targets } : f \in Fades }
         /\ x.past.taken = w.past.taken \cup
              UNION { { s.voice : s \in w.fade[f].cross.sounds } : f \in Fades }
         /\ x.past.dull = w.past.dull \cup { w.fade[f].cross.voice : f \in Dulled(w) }
         /\ x.past.dim = w.past.dim \cup
              UNION { { o.voice : o \in { o \in w.layer[v].link.out : o.from # "full" } } : v \in Voice }
         /\ x.past.spent = w.past.spent \cup
              UNION { { o.voice : o \in old.layer[v].link.out } : v \in Forgone(old, w) }
<1> DEFINE faded == UNION { { t.voice : t \in w.fade[f].targets } : f \in Fades }
           taken == UNION { { s.voice : s \in w.fade[f].cross.sounds } : f \in Fades }
           dull == { w.fade[f].cross.voice : f \in Dulled(w) }
           dim == UNION { { o.voice : o \in { o \in w.layer[v].link.out : o.from # "full" } } : v \in Voice }
           spent == UNION { { o.voice : o \in old.layer[v].link.out } : v \in Forgone(old, w) }
<1>0. Voice \subseteq Voices
  BY Constants
<1>1. faded \subseteq Voices
  <2>1. \A f \in Fades : \A t \in w.fade[f].targets : t.voice \in Voice
    BY FadeIs
  <2> QED
    BY <1>0, <2>1
<1>2. taken \subseteq Voices
  <2>1. \A f \in Fades : \A t \in w.fade[f].cross.sounds : t.voice \in Voice
    BY FadeIs
  <2> QED
    BY <1>0, <2>1
<1>3. dull \subseteq Voices
  BY FadeIs DEF Dulled
<1>4. dim \subseteq Voices /\ spent \subseteq Voices
  <2>1. \A v \in Voice : \A o \in w.layer[v].link.out : o.voice \in Voice
    BY LayerIs, LinkIs DEF Outs
  <2>2. \A v \in Voice : \A o \in old.layer[v].link.out : o.voice \in Voice
    BY LayerIs, LinkIs DEF Outs
  <2> QED
    BY <1>0, <2>1, <2>2 DEF Forgone
<1> DEFINE q == Remembered(old, w)
<1>5. q = [w.past EXCEPT !.faded = @ \cup faded, !.taken = @ \cup taken,
                         !.dull = @ \cup dull, !.dim = @ \cup dim, !.spent = @ \cup spent]
  BY DEF Remembered
<1> HIDE DEF faded, taken, dull, dim, spent, q
<1>6. w.past \in Pasts
  BY WorldIs
<1>7. /\ q \in Pasts /\ q.late = w.past.late /\ q.missed = w.past.missed /\ q.left = w.past.left
      /\ q.faded = w.past.faded \cup faded /\ q.taken = w.past.taken \cup taken
      /\ q.dull = w.past.dull \cup dull /\ q.dim = w.past.dim \cup dim
      /\ q.spent = w.past.spent \cup spent
  BY <1>1, <1>2, <1>3, <1>4, <1>5, <1>6 DEF Pasts
<1>9. LET x == [w EXCEPT !.past = q] IN
         /\ x \in Worlds /\ x.fade = w.fade /\ x.pic = w.pic /\ x.layer = w.layer
         /\ x.next = w.next /\ x.of = w.of /\ x.past = q
  BY <1>7 DEF Worlds
<1> QED
  BY <1>7, <1>9 DEF faded, taken, dull, dim, spent, Kept, q

Grows(w, x) ==
  /\ w.past.late \subseteq x.past.late /\ w.past.missed \subseteq x.past.missed
  /\ w.past.left \subseteq x.past.left /\ w.past.faded \subseteq x.past.faded
  /\ w.past.taken \subseteq x.past.taken /\ w.past.dull \subseteq x.past.dull
  /\ w.past.dim \subseteq x.past.dim /\ w.past.spent \subseteq x.past.spent

\* History that grows excuses no less.
LEMMA GrowsIs ==
  ASSUME NEW w, NEW x, Grows(w, x)
  PROVE  /\ Excused(w) \subseteq Excused(x) /\ w.past.late \subseteq x.past.late
         /\ w.past.faded \cup w.past.dim \cup w.past.spent \subseteq x.past.faded \cup x.past.dim \cup x.past.spent
BY DEF Grows, Excused

\* The cues keep what they have on the slots that stay, or come to rest.
AtRest == [state |-> "standby", voice |-> NoVoice, waits |-> FALSE]

\* The pictures stay as they should be when slots that stay are not let go.
LEMMA PicsSame ==
  ASSUME NEW w \in Worlds, NEW x \in Worlds, PicsIn(w), x.next = w.next, x.of = w.of,
         \A p \in Picture : x.pic[p] = w.pic[p] \/ x.pic[p] = AtRest,
         \A p \in Picture : LET u == x.pic[p].voice IN
           u \in Voice /\ x.layer[u].on => w.layer[u].on /\ (Live(w, u) => Live(x, u))
  PROVE  PicsIn(x)
<1> SUFFICES ASSUME NEW p \in Picture
             PROVE  /\ x.pic[p].state = "standby" \/ x.pic[p].waits => x.pic[p].voice = NoVoice
                    /\ x.pic[p].state = "standby" => ~x.pic[p].waits
                    /\ x.pic[p].voice # NoVoice => x.pic[p].voice < x.next /\ x.of[x.pic[p].voice] = p
                    /\ OnSlot(x, x.pic[p].voice) => Live(x, x.pic[p].voice)
  BY DEF PicsIn
<1>1. CASE x.pic[p] = AtRest
  BY <1>1 DEF AtRest, OnSlot
<1>2. CASE x.pic[p] = w.pic[p]
  <2> DEFINE u == x.pic[p].voice
  <2>1. /\ x.pic[p].state = "standby" \/ x.pic[p].waits => x.pic[p].voice = NoVoice
        /\ x.pic[p].state = "standby" => ~x.pic[p].waits
        /\ u # NoVoice => u < x.next /\ x.of[u] = p
    BY <1>2 DEF PicsIn
  <2>2. ASSUME OnSlot(x, u) PROVE Live(x, u)
    <3>1. u \in Voice /\ x.layer[u].on
      BY <2>2, PicIs, OnSlotIs
    <3>2. w.layer[u].on /\ (Live(w, u) => Live(x, u))
      BY <3>1
    <3>3. OnSlot(w, u)
      BY <3>1, <3>2, Constants DEF OnSlot
    <3>4. Live(w, u)
      BY <1>2, <3>3 DEF PicsIn
    <3> QED
      BY <3>2, <3>4
  <2> QED
    BY <2>1, <2>2
<1> QED
  BY <1>1, <1>2

\* More history changes nothing that holds.
LEMMA GrownKeeps ==
  ASSUME NEW w \in Worlds, NEW x \in Worlds, FadeCore(w),
         x.fade = w.fade, x.pic = w.pic, x.layer = w.layer, x.next = w.next, x.of = w.of,
         w.past.late \subseteq x.past.late, w.past.missed \subseteq x.past.missed,
         w.past.left \subseteq x.past.left, w.past.faded \subseteq x.past.faded,
         w.past.taken \subseteq x.past.taken, w.past.dull \subseteq x.past.dull,
         w.past.dim \subseteq x.past.dim, w.past.spent \subseteq x.past.spent
  PROVE  FadeCore(x) /\ \A S : SoundIn(w, S) => SoundIn(x, S)
<1>1. PicsIn(x)
  BY PicsSame DEF FadeCore, Live
<1>2. PicsIn(x) /\ VoicesIn(x) /\ LinksIn(x) /\ CrossIn(x) /\ AloneIn(x)
  BY <1>1 DEF FadeCore, VoicesIn, LinksIn, CrossIn, CrossOf, AloneIn, AloneOf, Live, Linked, Incoming
<1>3. StepIn(x)
  <2>2. \A v : (v \in w.past.late) => (v \in x.past.late)
    OBVIOUS
  <2>3. \A f, v : Together(w.fade[f], w.layer[v].link, v \in w.past.late)
                 => Together(w.fade[f], w.layer[v].link, v \in x.past.late)
    BY <2>2 DEF Together
  <2>4. StepIn(w)
    BY DEF FadeCore
  <2> QED
    BY <2>3, <2>4 DEF StepIn, StepOf, Live, Linked, Incoming
<1>4. DoneIn(x)
  BY DEF FadeCore, DoneIn, DoneOf, Excused, Live, Linked, Incoming
<1>5. DimIn(x)
  BY DEF FadeCore, DimIn, Live
<1>6. ASSUME NEW S, SoundIn(w, S) PROVE SoundIn(x, S)
  BY <1>6 DEF SoundIn, Excused, Live, Linked, Incoming, OwnerOf, AgainOf
<1> QED
  BY <1>2, <1>3, <1>4, <1>5, <1>6 DEF FadeCore

\* History knows what there is once it was kept.
LEMMA KeptHist ==
  ASSUME NEW old \in Worlds, NEW w \in Worlds
  PROVE  HistIn(Kept(old, w))
<1> DEFINE x == Kept(old, w)
<1>1. x.fade = w.fade /\ x.layer = w.layer
  BY KeptIs
<1>2. \A f \in Fades : \A t \in w.fade[f].targets : t.voice \in x.past.faded
  BY KeptIs
<1>3. \A f \in Fades : \A s \in w.fade[f].cross.sounds : s.voice \in x.past.taken
  BY KeptIs
<1>4. \A f \in Dulled(w) : w.fade[f].cross.voice \in x.past.dull
  BY KeptIs
<1>5. \A v \in Voice : \A o \in w.layer[v].link.out : o.from # "full" => o.voice \in x.past.dim
  BY KeptIs
<1> HIDE DEF x
<1>6. HistIn(x)
  BY <1>1, <1>2, <1>3, <1>4, <1>5 DEF HistIn, Dulled, Incoming
<1> QED
  BY <1>6 DEF x

\* To keep history disturbs nothing.
LEMMA KeptKeeps ==
  ASSUME NEW old \in Worlds, NEW w \in Worlds, FadeCore(w)
  PROVE  FadeCore(Kept(old, w)) /\ HistIn(Kept(old, w)) /\ \A S : SoundIn(w, S) => SoundIn(Kept(old, w), S)
<1> DEFINE x == Kept(old, w)
<1>1. /\ x \in Worlds /\ x.fade = w.fade /\ x.pic = w.pic /\ x.layer = w.layer
      /\ x.next = w.next /\ x.of = w.of
  BY KeptIs
<1>2. /\ w.past.late \subseteq x.past.late /\ w.past.missed \subseteq x.past.missed
      /\ w.past.left \subseteq x.past.left /\ w.past.faded \subseteq x.past.faded
      /\ w.past.taken \subseteq x.past.taken /\ w.past.dull \subseteq x.past.dull
      /\ w.past.dim \subseteq x.past.dim /\ w.past.spent \subseteq x.past.spent
  BY KeptIs
<1>3. HistIn(x)
  BY KeptHist
<1> HIDE DEF x
<1>4. FadeCore(x) /\ \A S : SoundIn(w, S) => SoundIn(x, S)
  BY <1>1, <1>2, GrownKeeps
<1> QED
  BY <1>3, <1>4 DEF x

---------------------------------------------------------------------------
(***************************************************************************)
(* What the calls of the output do to the slots.                            *)
(***************************************************************************)
\* Only the slots change; a slot changes in its opacity only.
OnlyLayers(w, x) == x.fade = w.fade /\ x.pic = w.pic /\ x.next = w.next /\ x.of = w.of /\ x.past = w.past
SameLayer(l, m) == /\ m.on = l.on /\ m.shown = l.shown /\ m.stopping = l.stopping
                   /\ m.gain = l.gain /\ m.link = l.link
\* A link that is given up before it landed gives a picture back what it took.
GivesBack(w, l, v) == l.is /\ ~Landed(l) /\ w.layer[v].on /\ \E o \in l.out : o.voice = v /\ o.apart
Given(w, x, l, v) ==
  /\ SameLayer(w.layer[v], x.layer[v])
  /\ GivesBack(w, l, v) => \E o \in l.out : o.voice = v /\ o.apart /\ x.layer[v].opacity = o.from
  /\ ~GivesBack(w, l, v) => x.layer[v].opacity = w.layer[v].opacity

\* A link that is given up gives back what it took, and changes nothing else.
LEMMA AbandonedIs ==
  ASSUME NEW w \in Worlds, NEW l \in Links
  PROVE  LET x == Abandoned(w, l) IN
         x \in Worlds /\ OnlyLayers(w, x) /\ \A v \in Voice : Given(w, x, l, v)
<1> DEFINE own(v) == { o \in l.out : o.voice = v /\ o.apart }
           from(v) == (CHOOSE o \in own(v) : TRUE).from
           m == [v \in Voice |-> IF own(v) # {} /\ w.layer[v].on
                                 THEN [w.layer[v] EXCEPT !.opacity = from(v)] ELSE w.layer[v]]
           x == Abandoned(w, l)
<1>1. CASE ~l.is \/ Landed(l)
  BY <1>1 DEF Abandoned, OnlyLayers, Given, GivesBack, SameLayer
<1>2. CASE ~(~l.is \/ Landed(l))
  <2>1. \A v \in Voice : own(v) # {} =>
          \E o \in l.out : o.voice = v /\ o.apart /\ from(v) = o.from /\ o.from \in Level
    BY LinkIs DEF Outs
  <2>2. \A v \in Voice : w.layer[v] \in Layers
    BY LayerIs
  <2>3. \A v \in Voice : m[v] = IF own(v) # {} /\ w.layer[v].on
                                THEN [w.layer[v] EXCEPT !.opacity = from(v)] ELSE w.layer[v]
    BY Zenon
  <2>4. x = [w EXCEPT !.layer = m]
    BY <1>2 DEF Abandoned
  <2>5. \A v \in Voice : own(v) # {} <=> \E o \in l.out : o.voice = v /\ o.apart
    OBVIOUS
  <2> HIDE DEF own, from
  <2>6. m \in [Voice -> Layers]
    <3>1. \A v \in Voice : own(v) # {} => from(v) \in Level
      BY <2>1
    <3> QED
      BY <2>2, <3>1 DEF Layers
  <2>7. \A v \in Voice : (own(v) # {} /\ w.layer[v].on => SameLayer(w.layer[v], m[v]) /\ m[v].opacity = from(v))
    BY <2>2, <2>3 DEF SameLayer, Layers
  <2>8. \A v \in Voice : (~(own(v) # {} /\ w.layer[v].on) => m[v] = w.layer[v])
    BY <2>3
  <2> HIDE DEF m
  <2>9. x \in Worlds /\ OnlyLayers(w, x) /\ x.layer = m
    BY <2>4, <2>6, PutLayers DEF OnlyLayers
  <2> HIDE DEF x
  <2>10. ASSUME NEW v \in Voice PROVE Given(w, x, l, v)
    BY <1>2, <2>1, <2>5, <2>7, <2>8, <2>9 DEF Given, GivesBack, SameLayer
  <2> QED
    BY <2>9, <2>10 DEF x
<1> QED
  BY <1>1, <1>2

\* A slot that is told to stop, or is done with its content: it is live no more.
Lost(w, x, v) ==
  /\ x.layer[v].link = NoLink /\ ~Live(x, v)
  /\ x.layer[v].on \/ x.layer[v] = Gone
  /\ x.layer[v].on => w.layer[v].on
  /\ \A u \in Voice : u # v => Given(w, x, w.layer[v].link, u)

\* No link.
LEMMA NoLinkIs == NoLink \in Links /\ ~NoLink.is /\ ClockIn(NoLink) /\ NoLink.out = {}
<1>1. 0 \in 0..Span
  BY Constants
<1> QED
  BY <1>1 DEF NoLink, Links, ClockIn

\* An empty slot.
LEMMA GoneIs == Gone \in Layers /\ ~Gone.on /\ ~Gone.shown /\ ~Gone.stopping /\ Gone.link = NoLink
                /\ Gone.gain = "none" /\ Gone.opacity = "none"
BY NoLinkIs DEF Gone, Layers, Level

\* A picture that is stopped loses its link.
LEMMA BeginStopIs ==
  ASSUME NEW w \in Worlds, NEW v \in Voice, w.layer[v].on
  PROVE  LET x == BeginStop(w, v) IN x \in Worlds /\ OnlyLayers(w, x) /\ Lost(w, x, v)
<1> DEFINE l == [w.layer[v] EXCEPT !.stopping = TRUE, !.shown = TRUE, !.opacity = "none", !.link = NoLink]
           y == [w EXCEPT !.layer[v] = l]
           x == Abandoned(y, w.layer[v].link)
<1>1. BeginStop(w, v) = x
  BY OnSlotIs, Constants DEF BeginStop
<1>2. l \in Layers /\ l.on /\ l.stopping /\ l.link = NoLink
  BY LayerIs, NoLinkIs DEF Layers, Level
<1>3. /\ y \in Worlds /\ y.fade = w.fade /\ y.pic = w.pic /\ y.layer = [w.layer EXCEPT ![v] = l]
      /\ y.next = w.next /\ y.of = w.of /\ y.past = w.past
  <2> HIDE DEF l
  <2> QED
    BY <1>2, PutLayer
<1>4. w.layer[v].link \in Links
  BY LayerIs
<1>5. y.layer[v] = l /\ \A u \in Voice : u # v => y.layer[u] = w.layer[u]
  <2> HIDE DEF l, y
  <2> QED
    BY <1>3, WorldIs
<1> HIDE DEF l, y
<1>6. x \in Worlds /\ OnlyLayers(y, x) /\ \A u \in Voice : Given(y, x, w.layer[v].link, u)
  BY <1>3, <1>4, AbandonedIs
<1> HIDE DEF x
<1>7. OnlyLayers(w, x)
  BY <1>3, <1>6 DEF OnlyLayers
<1>8. Lost(w, x, v)
  <2>1. SameLayer(l, x.layer[v])
    BY <1>5, <1>6 DEF Given
  <2>2. ASSUME NEW u \in Voice, u # v PROVE Given(w, x, w.layer[v].link, u)
    BY <1>5, <1>6, <2>2 DEF Given, GivesBack
  <2> QED
    BY <1>2, <2>1, <2>2 DEF Lost, SameLayer, Live
<1> QED
  BY <1>1, <1>6, <1>7, <1>8

\* So does one that leaves.
LEMMA LeaveIs ==
  ASSUME NEW w \in Worlds, NEW v \in Voice
  PROVE  LET x == Leave(w, v) IN x \in Worlds /\ OnlyLayers(w, x) /\ Lost(w, x, v) /\ ~x.layer[v].on
<1> DEFINE y == [w EXCEPT !.layer[v] = Gone]
           x == Abandoned(y, w.layer[v].link)
<1>1. Leave(w, v) = x
  BY DEF Leave
<1>3. /\ y \in Worlds /\ y.fade = w.fade /\ y.pic = w.pic /\ y.layer = [w.layer EXCEPT ![v] = Gone]
      /\ y.next = w.next /\ y.of = w.of /\ y.past = w.past
  BY GoneIs, PutLayer
<1>4. w.layer[v].link \in Links
  BY LayerIs
<1>5. y.layer[v] = Gone /\ \A u \in Voice : u # v => y.layer[u] = w.layer[u]
  <2> HIDE DEF y
  <2> QED
    BY <1>3, WorldIs
<1> HIDE DEF y
<1>6. x \in Worlds /\ OnlyLayers(y, x) /\ \A u \in Voice : Given(y, x, w.layer[v].link, u)
  BY <1>3, <1>4, AbandonedIs
<1> HIDE DEF x
<1>7. OnlyLayers(w, x)
  BY <1>3, <1>6 DEF OnlyLayers
<1>8. Lost(w, x, v) /\ ~x.layer[v].on
  <2>1. SameLayer(Gone, x.layer[v]) /\ x.layer[v].opacity = Gone.opacity
    BY <1>5, <1>6, GoneIs DEF Given, GivesBack
  <2>2. ASSUME NEW u \in Voice, u # v PROVE Given(w, x, w.layer[v].link, u)
    BY <1>5, <1>6, <2>2 DEF Given, GivesBack
  <2>3. x.layer[v] \in Layers
    BY <1>6, LayerIs
  <2>4. x.layer[v] = Gone
    BY <2>1, <2>3, GoneIs DEF SameLayer, Layers
  <2> QED
    BY <2>2, <2>4, GoneIs DEF Lost, Live
<1> QED
  BY <1>1, <1>6, <1>7, <1>8

\* What is given back is all there is to a slot that has nothing on it.
LEMMA GivenGone ==
  ASSUME NEW w \in Worlds, NEW x \in Worlds, NEW l, NEW v \in Voice, Given(w, x, l, v),
         w.layer[v] = Gone
  PROVE  x.layer[v] = Gone
<1>1. SameLayer(Gone, x.layer[v]) /\ x.layer[v].opacity = Gone.opacity
  BY GoneIs DEF Given, GivesBack
<1> QED
  BY <1>1, LayerIs, GoneIs DEF SameLayer, Layers

\* A picture is at rest again.
Rested(w, x, v) == \A p \in Picture :
  x.pic[p] = w.pic[p] \/ (x.pic[p] = AtRest /\ (w.pic[p].voice = v \/ ~OnSlot(w, w.pic[p].voice)))

\* The invariant outlives a picture that leaves.
LEMMA LossKeeps ==
  ASSUME NEW w \in Worlds, NEW x \in Worlds, NEW v \in Voice, FadeCore(w), HistIn(w), Lost(w, x, v),
         x.fade = w.fade, x.next = w.next, x.of = w.of, x.past = w.past, Rested(w, x, v),
         x.layer[v].on => \A p \in Picture : x.pic[p].voice # v
  PROVE  /\ FadeCore(Kept(w, x)) /\ HistIn(Kept(w, x))
         /\ \A S : SoundIn(w, S) => SoundIn(Kept(w, x), S)
<1> DEFINE k == Kept(w, x)
<1>1. /\ k \in Worlds /\ k.fade = w.fade /\ k.pic = x.pic /\ k.layer = x.layer
      /\ k.next = w.next /\ k.of = w.of
  BY KeptIs
<1>2. /\ w.past.late \subseteq k.past.late /\ w.past.missed \subseteq k.past.missed
      /\ w.past.left \subseteq k.past.left /\ w.past.faded \subseteq k.past.faded
      /\ w.past.taken \subseteq k.past.taken /\ w.past.dull \subseteq k.past.dull
      /\ w.past.dim \subseteq k.past.dim /\ w.past.spent \subseteq k.past.spent
  BY KeptIs
<1>3. \A u \in Forgone(w, x) : \A o \in w.layer[u].link.out : o.voice \in k.past.spent
  BY KeptIs
<1>4. HistIn(k)
  BY KeptHist
<1> HIDE DEF k
<1>5. \A u \in Voice : u # v => SameLayer(w.layer[u], x.layer[u])
  BY DEF Lost, Given
<1>6. \A u \in Voice : Live(x, u) => u # v /\ Live(w, u)
  BY <1>5 DEF Lost, Live, SameLayer
<1>7. \A u \in Voice : x.layer[u].link.is => x.layer[u].link = w.layer[u].link /\ u # v
  BY <1>5, NoLinkIs DEF Lost, SameLayer
<1>8. PicsIn(k)
  <2>1. \A p \in Picture : x.pic[p] = w.pic[p] \/ x.pic[p] = AtRest
    BY DEF Rested
  <2>2. ASSUME NEW p \in Picture, x.pic[p].voice \in Voice, x.layer[x.pic[p].voice].on
        PROVE  w.layer[x.pic[p].voice].on /\ (Live(w, x.pic[p].voice) => Live(x, x.pic[p].voice))
    <3>1. x.pic[p].voice # v
      BY <2>2
    <3> QED
      BY <1>5, <2>2, <3>1 DEF SameLayer, Live
  <2> QED
    BY <1>1, <2>1, <2>2, PicsSame DEF FadeCore, Live
<1>9. VoicesIn(k)
  <2>1. ASSUME NEW u \in Voice PROVE x.layer[u].on \/ x.layer[u] = Gone
    BY <1>5, GivenGone DEF FadeCore, VoicesIn, Lost, SameLayer
  <2>2. ASSUME NEW u \in Voice, x.layer[u].on PROVE u < w.next
    BY <1>5, <2>2 DEF FadeCore, VoicesIn, Lost, SameLayer
  <2>3. ASSUME NEW u \in Voice, Live(x, u) PROVE w.of[u] \in Picture /\ x.pic[w.of[u]].voice = u
    <3>1. w.of[u] \in Picture /\ w.pic[w.of[u]].voice = u /\ w.layer[u].on /\ u # v
      BY <1>6, <2>3 DEF FadeCore, VoicesIn, Live
    <3>2. OnSlot(w, u)
      BY <3>1, Constants, OnSlotIs
    <3> QED
      BY <3>1, <3>2 DEF Rested
  <2> QED
    BY <1>1, <2>1, <2>2, <2>3 DEF VoicesIn, Live
<1>10. LinksIn(k)
  <2>1. ASSUME NEW u \in Voice, u # v
        PROVE  x.layer[u].link = w.layer[u].link /\ x.layer[u].shown = w.layer[u].shown
               /\ (Live(w, u) => Live(x, u))
    BY <1>5, <2>1 DEF SameLayer, Live
  <2>2. x.layer[v].link = NoLink
    BY DEF Lost
  <2> QED
    BY <1>1, <2>1, <2>2, NoLinkIs DEF FadeCore, LinksIn, Live
<1>11. CrossIn(k)
  BY <1>1 DEF FadeCore, CrossIn, CrossOf
<1>12. AloneIn(k)
  BY <1>1, <1>7 DEF FadeCore, AloneIn, AloneOf, Linked, Incoming
<1>13. StepIn(k)
  <2>1. ASSUME NEW f \in Fades, Linked(w, f), w.fade[f].state # "standby"
        PROVE  LET u == Incoming(w, f) IN
               /\ u \in Voice
               /\ x.layer[u].link.is => Together(w.fade[f], x.layer[u].link, u \in k.past.late)
               /\ Live(x, u) /\ ~x.layer[u].link.is => w.fade[f].awaiting \/ w.fade[f].clock = Span
    <3> DEFINE u == Incoming(w, f)
    <3>1. u \in Voice
      BY <2>1, Constants, FadeIs DEF FadeCore, CrossIn, CrossOf, Linked, Incoming
    <3>2. /\ w.layer[u].link.is => Together(w.fade[f], w.layer[u].link, u \in w.past.late)
          /\ Live(w, u) /\ ~w.layer[u].link.is => w.fade[f].awaiting \/ w.fade[f].clock = Span
      BY <2>1 DEF FadeCore, StepIn, StepOf
    <3>3. Together(w.fade[f], w.layer[u].link, u \in w.past.late)
            => Together(w.fade[f], w.layer[u].link, u \in k.past.late)
      BY <1>2 DEF Together
    <3>4. x.layer[u].link = w.layer[u].link \/ u = v
      BY <1>5, <3>1 DEF SameLayer
    <3> QED
      BY <1>6, <1>7, <3>1, <3>2, <3>3, <3>4
  <2> QED
    BY <1>1, <2>1 DEF StepIn, StepOf, Live, Linked, Incoming
<1>14. DoneIn(k)
  <2>1. \A f \in Fades : Linked(w, f) => Incoming(w, f) \in Voice
    BY Constants, FadeIs DEF FadeCore, CrossIn, CrossOf, Linked, Incoming
  <2> QED
    BY <1>1, <1>2, <1>5, <1>6, <2>1 DEF FadeCore, DoneIn, DoneOf, Excused, Live, Linked, Incoming, SameLayer
<1>15. DimIn(k)
  <2>1. ASSUME NEW u \in Voice, Live(x, u), x.layer[u].shown, x.layer[u].opacity # "full"
        PROVE  \/ u \in k.past.faded \cup k.past.dim \cup k.past.spent
               \/ x.layer[u].link.is /\ ~Mixes(x.layer[u].link)
               \/ \E t \in Voice : \E o \in x.layer[t].link.out : o.voice = u /\ o.apart
    <3> DEFINE l == w.layer[v].link
    <3>1. u # v /\ Live(w, u) /\ w.layer[u].shown /\ x.layer[u].link = w.layer[u].link
      BY <1>5, <1>6, <2>1 DEF SameLayer
    <3>2. Given(w, x, l, u)
      BY <3>1 DEF Lost
    <3>3. CASE GivesBack(w, l, u)
      <4>1. PICK o \in l.out : o.voice = u /\ x.layer[u].opacity = o.from
        BY <3>2, <3>3 DEF Given
      <4>2. u \in w.past.dim
        BY <2>1, <4>1 DEF HistIn
      <4> QED
        BY <1>2, <4>2
    <3>4. CASE ~GivesBack(w, l, u)
      <4>1. w.layer[u].opacity # "full"
        BY <2>1, <3>2, <3>4 DEF Given
      <4>2. \/ u \in w.past.faded \cup w.past.dim \cup w.past.spent
            \/ w.layer[u].link.is /\ ~Mixes(w.layer[u].link)
            \/ \E t \in Voice : \E o \in w.layer[t].link.out : o.voice = u /\ o.apart
        BY <3>1, <4>1 DEF FadeCore, DimIn
      <4>3. ASSUME NEW t \in Voice, NEW o \in w.layer[t].link.out, o.voice = u, o.apart, t # v
            PROVE  o \in x.layer[t].link.out
        BY <1>5, <4>3 DEF SameLayer
      <4>4. ASSUME NEW o \in l.out, o.voice = u, o.apart
            PROVE  u \in k.past.spent
        <5>1. l.is
          BY <4>4, NoLinkIs DEF FadeCore, LinksIn, ClockIn
        <5>2. Landed(l)
          BY <3>1, <3>4, <4>4, <5>1 DEF GivesBack, Live
        <5>3. v \in Forgone(w, x)
          BY <5>2, NoLinkIs DEF Forgone, Landed, Lost
        <5> QED
          BY <1>3, <4>4, <5>3
      <4> QED
        BY <1>2, <3>1, <4>2, <4>3, <4>4
    <3> QED
      BY <3>3, <3>4
  <2> QED
    BY <1>1, <2>1 DEF DimIn, Live
<1>16. ASSUME NEW S, SoundIn(w, S) PROVE SoundIn(k, S)
  <2>1. \A u \in Voice : Live(x, u) => x.layer[u].gain = w.layer[u].gain
    BY <1>5, <1>6 DEF SameLayer
  <2> QED
    BY <1>1, <1>2, <1>6, <1>16, <2>1 DEF SoundIn, Excused, Live, Linked, Incoming, OwnerOf, AgainOf
<1> QED
  BY <1>4, <1>8, <1>9, <1>10, <1>11, <1>12, <1>13, <1>14, <1>15, <1>16 DEF FadeCore, k

\* Nor does a picture that is off its slot disturb it when it comes to rest.
LEMMA RestKeeps ==
  ASSUME NEW w \in Worlds, NEW x \in Worlds, FadeCore(w), HistIn(w), Rested(w, x, NoVoice),
         x.fade = w.fade, x.layer = w.layer, x.next = w.next, x.of = w.of, x.past = w.past
  PROVE  FadeCore(x) /\ HistIn(x) /\ \A S : SoundIn(w, S) => SoundIn(x, S)
<1>1. PicsIn(x)
  <2>1. \A p \in Picture : x.pic[p] = w.pic[p] \/ x.pic[p] = AtRest
    BY DEF Rested
  <2> QED
    BY <2>1, PicsSame DEF FadeCore, Live
<1>2. VoicesIn(x)
  <2>1. ASSUME NEW u \in Voice, Live(w, u) PROVE w.of[u] \in Picture /\ x.pic[w.of[u]].voice = u
    <3>1. w.of[u] \in Picture /\ w.pic[w.of[u]].voice = u /\ w.layer[u].on
      BY <2>1 DEF FadeCore, VoicesIn, Live
    <3>2. OnSlot(w, u) /\ u # NoVoice
      BY <3>1, Constants, OnSlotIs
    <3> QED
      BY <3>1, <3>2 DEF Rested
  <2> QED
    BY <2>1 DEF FadeCore, VoicesIn, Live
<1>3. LinksIn(x) /\ CrossIn(x) /\ AloneIn(x)
  BY DEF FadeCore, LinksIn, CrossIn, CrossOf, AloneIn, AloneOf, Live, Linked, Incoming
<1>7. StepIn(x)
  BY DEF FadeCore, StepIn, StepOf, Live, Linked, Incoming
<1>4. DoneIn(x) /\ DimIn(x)
  BY DEF FadeCore, DoneIn, DoneOf, DimIn, Live, Linked, Incoming, Excused
<1>5. HistIn(x)
  BY DEF HistIn, Dulled, Incoming
<1>6. \A S : SoundIn(w, S) => SoundIn(x, S)
  BY DEF SoundIn, Excused, Live, Linked, Incoming, OwnerOf, AgainOf
<1> QED
  BY <1>1, <1>2, <1>3, <1>4, <1>5, <1>6, <1>7 DEF FadeCore

\* A picture that ends, or has been stopped, leaves the invariant.
LEMMA LeaveKeeps ==
  ASSUME NEW w \in Worlds, NEW v \in Voice, FadeCore(w), HistIn(w)
  PROVE  LET x == Kept(w, Leave(w, v)) IN
         x \in Worlds /\ FadeCore(x) /\ HistIn(x) /\ \A S : SoundIn(w, S) => SoundIn(x, S)
<1> DEFINE y == Leave(w, v)
<1>1. y \in Worlds /\ OnlyLayers(w, y) /\ Lost(w, y, v) /\ ~y.layer[v].on
  BY LeaveIs
<1> HIDE DEF y
<1>2. Rested(w, y, v)
  BY <1>1 DEF Rested, OnlyLayers
<1>3. Kept(w, y) \in Worlds
  BY <1>1, KeptIs
<1>4. FadeCore(Kept(w, y)) /\ HistIn(Kept(w, y)) /\ \A S : SoundIn(w, S) => SoundIn(Kept(w, y), S)
  BY <1>1, <1>2, LossKeeps DEF OnlyLayers
<1> QED
  BY <1>3, <1>4 DEF y

\* So does one the operator stops.
LEMMA StopPictureKeeps ==
  ASSUME NEW w \in Worlds, NEW p \in Picture, FadeCore(w), HistIn(w)
  PROVE  LET x == Kept(w, StopPicture(w, p)) IN
         x \in Worlds /\ FadeCore(x) /\ HistIn(x) /\ \A S : SoundIn(w, S) => SoundIn(x, S)
<1> DEFINE v == w.pic[p].voice
           y == [w EXCEPT !.pic[p] = AtRest]
           x == BeginStop(y, v)
<1>1. StopPicture(w, p) = x
  BY DEF StopPicture, AtRest
<1>2. v \in Voices
  BY PicIs
<1>3. AtRest \in PicRecords
  BY Constants DEF AtRest, PicRecords
<1>4. /\ y \in Worlds /\ y.fade = w.fade /\ y.pic = [w.pic EXCEPT ![p] = AtRest] /\ y.layer = w.layer
      /\ y.next = w.next /\ y.of = w.of /\ y.past = w.past
  BY <1>3, PutPic
<1>5. y.pic[p] = AtRest /\ \A q \in Picture : q # p => y.pic[q] = w.pic[q]
  <2> HIDE DEF y
  <2> QED
    BY <1>4, WorldIs
<1> HIDE DEF y
<1>6. CASE OnSlot(y, v)
  <2>1. v \in Voice /\ y.layer[v].on
    BY <1>2, <1>4, <1>6, OnSlotIs
  <2>2. x \in Worlds /\ OnlyLayers(y, x) /\ Lost(y, x, v)
    BY <1>4, <2>1, BeginStopIs
  <2> HIDE DEF x
  <2>3. Lost(w, x, v)
    BY <1>4, <2>2 DEF Lost, Given, GivesBack
  <2>4. Rested(w, x, v)
    BY <1>5, <2>2 DEF Rested, OnlyLayers
  <2>5. FadeCore(Kept(w, x)) /\ HistIn(Kept(w, x)) /\ \A S : SoundIn(w, S) => SoundIn(Kept(w, x), S)
    <3> HIDE DEF v
    <3>1. x.fade = w.fade /\ x.next = w.next /\ x.of = w.of /\ x.past = w.past
      BY <1>4, <2>2 DEF OnlyLayers
    <3>2. \A q \in Picture : x.pic[q].voice # v
      <4>1. \A q \in Picture : w.pic[q].voice = v => q = p
        BY <2>1, Constants DEF FadeCore, PicsIn, v
      <4>2. x.pic = y.pic /\ v # NoVoice
        BY <2>1, <2>2, Constants DEF OnlyLayers
      <4>3. \A q \in Picture : q # p => x.pic[q].voice # v
        BY <1>5, <4>1, <4>2
      <4> QED
        BY <1>5, <4>2, <4>3 DEF AtRest
    <3> QED
      BY <2>1, <2>2, <2>3, <2>4, <3>1, <3>2, LossKeeps
  <2>6. Kept(w, x) \in Worlds
    BY <2>2, KeptIs
  <2> QED
    BY <1>1, <2>5, <2>6
<1>7. CASE ~OnSlot(y, v)
  <2>1. x = y
    BY <1>7 DEF BeginStop
  <2>2. Rested(w, y, NoVoice)
    BY <1>4, <1>5, <1>7 DEF Rested, OnSlot
  <2>3. FadeCore(y)
    BY <1>4, <2>2, RestKeeps
  <2>4. \A S : SoundIn(w, S) => SoundIn(y, S)
    BY <1>4, <2>2, RestKeeps
  <2>5. Kept(w, y) \in Worlds
    BY <1>4, KeptIs
  <2>6. FadeCore(Kept(w, y)) /\ HistIn(Kept(w, y)) /\ \A S : SoundIn(y, S) => SoundIn(Kept(w, y), S)
    BY <1>4, <2>3, KeptKeeps
  <2> QED
    BY <1>1, <2>1, <2>4, <2>5, <2>6
<1> QED
  BY <1>6, <1>7

---------------------------------------------------------------------------
(***************************************************************************)
(* What changes with a Fade alone, and with the link it drives.             *)
(***************************************************************************)
SameRest(w, x) == x.pic = w.pic /\ x.next = w.next /\ x.of = w.of
OnlyFade(w, x, f) == \A g \in Fades : g # f => x.fade[g] = w.fade[g]
OneIn(x, f) == CrossOf(x, f) /\ AloneOf(x, f) /\ StepOf(x, f) /\ DoneOf(x, f)

\* The picture a Fade has linked is the one its plan names.
LEMMA IncomingIs ==
  ASSUME NEW w \in Worlds, NEW f \in Fades, Linked(w, f), CrossOf(w, f)
  PROVE  /\ Incoming(w, f) \in Voice /\ w.of[Incoming(w, f)] = Plan[f].into /\ Plan[f].into \in Picture
         /\ Incoming(w, f) < w.next
BY Constants, FadeIs DEF CrossOf, Linked, Incoming

\* One Fade drives one link.
LEMMA OneDrives ==
  ASSUME OneFadeEach, NEW w \in Worlds, NEW f \in Fades, NEW g \in Fades, FadeCore(w),
         Linked(w, f), Linked(w, g), Incoming(w, f) = Incoming(w, g)
  PROVE  f = g
<1>1. CrossOf(w, f) /\ CrossOf(w, g)
  BY DEF FadeCore, CrossIn
<1>2. Plan[f].into = Plan[g].into /\ Plan[f].into \in Picture
  BY <1>1, IncomingIs
<1> QED
  BY <1>2, Constants DEF OneFadeEach

\* A Fade keeps its step with a link nothing happens to.
LEMMA StepSame ==
  ASSUME NEW w \in Worlds, NEW x \in Worlds, NEW f \in Fades, StepOf(w, f), x.fade[f] = w.fade[f],
         w.past.late \subseteq x.past.late,
         Linked(w, f) => LET v == Incoming(w, f) IN /\ x.layer[v].link = w.layer[v].link
                                                    /\ Live(x, v) => Live(w, v)
  PROVE  StepOf(x, f)
<1> SUFFICES ASSUME Linked(w, f), w.fade[f].state # "standby" PROVE StepOf(x, f)
  BY DEF StepOf, Linked
<1> DEFINE v == Incoming(w, f)
<1>1. Incoming(x, f) = v /\ x.layer[v].link = w.layer[v].link /\ (Live(x, v) => Live(w, v))
  BY DEF Incoming
<1>2. Together(w.fade[f], w.layer[v].link, v \in w.past.late)
        => Together(w.fade[f], w.layer[v].link, v \in x.past.late)
  BY DEF Together
<1>3. /\ w.layer[v].link.is => Together(w.fade[f], w.layer[v].link, v \in w.past.late)
      /\ Live(w, v) /\ ~w.layer[v].link.is => w.fade[f].awaiting \/ w.fade[f].clock = Span
  BY DEF StepOf
<1> HIDE DEF v
<1> QED
  BY <1>1, <1>2, <1>3 DEF StepOf

\* What changes of one Fade has to be looked at for that Fade only.
LEMMA FadeOnlyCore ==
  ASSUME NEW w \in Worlds, NEW x \in Worlds, NEW f \in Fades, FadeCore(w), SameRest(w, x),
         x.layer = w.layer, OnlyFade(w, x, f), Grows(w, x), OneIn(x, f)
  PROVE  FadeCore(x)
<1>0. PicsIn(x)
  BY PicsSame DEF FadeCore, Live, SameRest
<1>1. PicsIn(x) /\ VoicesIn(x) /\ LinksIn(x)
  BY <1>0 DEF FadeCore, VoicesIn, LinksIn, Live, SameRest
<1>2. DimIn(x)
  BY GrowsIs DEF FadeCore, DimIn, Live
<1>3. ASSUME NEW g \in Fades, g # f PROVE OneIn(x, g)
  <2>1. x.fade[g] = w.fade[g]
    BY <1>3 DEF OnlyFade
  <2>2. CrossOf(w, g) /\ AloneOf(w, g) /\ StepOf(w, g) /\ DoneOf(w, g)
    BY DEF FadeCore, CrossIn, AloneIn, StepIn, DoneIn
  <2>3. CrossOf(x, g)
    BY <2>1, <2>2 DEF CrossOf, SameRest
  <2>4. AloneOf(x, g)
    BY <2>1, <2>2 DEF AloneOf, SameRest, Linked, Incoming
  <2>5. StepOf(x, g)
    BY <2>1, <2>2, GrowsIs, StepSame DEF Live
  <2>6. DoneOf(x, g)
    BY <2>1, <2>2, GrowsIs DEF DoneOf, Live, Linked, Incoming
  <2> QED
    BY <2>3, <2>4, <2>5, <2>6 DEF OneIn
<1> QED
  BY <1>1, <1>2, <1>3 DEF FadeCore, CrossIn, AloneIn, StepIn, DoneIn, OneIn

\* Whoever loses the sound of a picture leaves it to another.
LEMMA SoundOnlyFade ==
  ASSUME NEW w \in Worlds, NEW x \in Worlds, NEW f \in Fades, NEW S \in SUBSET Fades, NEW T,
         SoundIn(w, S), x.of = w.of, OnlyFade(w, x, f), Grows(w, x), \A g \in S : g = f \/ g \in T,
         \A v \in Voice : Live(x, v) /\ x.layer[v].gain # "full" =>
           \/ v \in Excused(x) \/ (\E g \in Fades : OwnerOf(x, g, v)) \/ (\E g \in T : AgainOf(x, g, v))
           \/ /\ Live(w, v) /\ w.layer[v].gain # "full"
              /\ ~OwnerOf(w, f, v) /\ (f \in S => ~AgainOf(w, f, v))
  PROVE  SoundIn(x, T)
<1> SUFFICES ASSUME NEW v \in Voice, Live(x, v), x.layer[v].gain # "full",
                    Live(w, v) /\ w.layer[v].gain # "full",
                    ~OwnerOf(w, f, v) /\ (f \in S => ~AgainOf(w, f, v))
             PROVE  \/ v \in Excused(x) \/ (\E g \in Fades : OwnerOf(x, g, v))
                    \/ (\E g \in T : AgainOf(x, g, v))
  BY DEF SoundIn
<1>1. \A g \in Fades : g # f => x.fade[g] = w.fade[g]
  BY DEF OnlyFade
<1>2. CASE \E g \in Fades : OwnerOf(w, g, v)
  <2>1. PICK g \in Fades : OwnerOf(w, g, v)
    BY <1>2
  <2>2. OwnerOf(x, g, v)
    BY <1>1, <2>1 DEF OwnerOf, Linked, Incoming
  <2> QED
    BY <2>2
<1>3. CASE v \in Excused(w)
  BY <1>3, GrowsIs
<1>4. CASE \E g \in S : AgainOf(w, g, v)
  <2>1. PICK g \in S : AgainOf(w, g, v)
    BY <1>4
  <2>2. g \in T /\ AgainOf(x, g, v)
    BY <1>1, <2>1 DEF AgainOf
  <2> QED
    BY <2>2
<1> QED
  BY <1>2, <1>3, <1>4 DEF SoundIn

\* The link of a Fade is held or goes on.
LEMMA HeldCore ==
  ASSUME OneFadeEach, NEW w \in Worlds, NEW x \in Worlds, NEW f \in Fades, NEW v \in Voice, NEW l \in Links,
         FadeCore(w), SameRest(w, x), OnlyFade(w, x, f), Grows(w, x), OneIn(x, f),
         Linked(w, f), v = Incoming(w, f), w.layer[v].link.is,
         l.is, l.out = w.layer[v].link.out, l.revealed = w.layer[v].link.revealed, ClockIn(l),
         x.layer = [w.layer EXCEPT ![v] = [w.layer[v] EXCEPT !.link = l]]
  PROVE  FadeCore(x)
<1>1. \A u \in Voice : u # v => x.layer[u] = w.layer[u]
  BY WorldIs
<1>2. x.layer[v] = [w.layer[v] EXCEPT !.link = l]
  BY WorldIs
<1>3. SameLayer([w.layer[v] EXCEPT !.link = l], x.layer[v]) /\ x.layer[v].link = l
      /\ x.layer[v].on = w.layer[v].on /\ x.layer[v].shown = w.layer[v].shown
      /\ x.layer[v].stopping = w.layer[v].stopping /\ x.layer[v].gain = w.layer[v].gain
      /\ x.layer[v].opacity = w.layer[v].opacity
  BY <1>2, LayerIs DEF Layers, SameLayer
<1>4. \A u \in Voice : Live(x, u) <=> Live(w, u)
  BY <1>1, <1>3 DEF Live
<1>5. \A u \in Voice : /\ x.layer[u].link.is <=> w.layer[u].link.is
                       /\ x.layer[u].link.out = w.layer[u].link.out
                       /\ x.layer[u].shown = w.layer[u].shown /\ x.layer[u].on = w.layer[u].on
                       /\ x.layer[u].gain = w.layer[u].gain /\ x.layer[u].opacity = w.layer[u].opacity
  BY <1>1, <1>3
<1>6. Live(w, v)
  BY DEF FadeCore, LinksIn
<1>7. PicsIn(x)
  <2>1. x.next = w.next /\ x.of = w.of /\ x.pic = w.pic /\ PicsIn(w)
    BY DEF FadeCore, SameRest
  <2>2. ASSUME NEW p \in Picture, x.pic[p].voice \in Voice, x.layer[x.pic[p].voice].on
        PROVE  w.layer[x.pic[p].voice].on /\ (Live(w, x.pic[p].voice) => Live(x, x.pic[p].voice))
    BY <1>4, <1>5, <2>2
  <2> QED
    BY <2>1, <2>2, PicsSame
<1>8. VoicesIn(x)
  <2>1. w.layer[v].on
    BY <1>6 DEF Live
  <2>2. \A u \in Voice : x.layer[u].on \/ x.layer[u] = Gone
    BY <1>1, <1>3, <2>1 DEF FadeCore, VoicesIn
  <2> QED
    BY <1>4, <1>5, <2>2 DEF FadeCore, VoicesIn, SameRest
<1>9. LinksIn(x)
  <2>1. \A u \in Voice : ClockIn(x.layer[u].link)
    BY <1>1, <1>3 DEF FadeCore, LinksIn
  <2>2. \A u \in Voice : x.layer[u].link.revealed = w.layer[u].link.revealed
    BY <1>1, <1>3
  <2> QED
    BY <1>4, <1>5, <2>1, <2>2 DEF FadeCore, LinksIn
<1>10. DimIn(x)
  <2>1. \A u \in Voice : Mixes(x.layer[u].link) <=> Mixes(w.layer[u].link)
    BY <1>5 DEF Mixes
  <2> QED
    BY <1>4, <1>5, <2>1, GrowsIs DEF FadeCore, DimIn
<1>11. ASSUME NEW g \in Fades, g # f PROVE OneIn(x, g)
  <2>1. x.fade[g] = w.fade[g]
    BY <1>11 DEF OnlyFade
  <2>2. CrossOf(w, g) /\ AloneOf(w, g) /\ StepOf(w, g) /\ DoneOf(w, g)
    BY DEF FadeCore, CrossIn, AloneIn, StepIn, DoneIn
  <2>3. CrossOf(x, g)
    BY <2>1, <2>2 DEF CrossOf, SameRest
  <2>4. AloneOf(x, g)
    <3>1. \A u \in Voice : x.layer[u].link.is => w.layer[u].link.is
      BY <1>5
    <3>2. x.of = w.of
      BY DEF SameRest
    <3> QED
      BY <2>1, <2>2, <3>1, <3>2 DEF AloneOf, Linked, Incoming
  <2>5. Linked(w, g) => Incoming(w, g) \in Voice /\ Incoming(w, g) # v
    BY <1>11, <2>2, IncomingIs, OneDrives
  <2>6. StepOf(x, g)
    <3>1. w.past.late \subseteq x.past.late
      BY GrowsIs
    <3>2. Linked(w, g) => /\ x.layer[Incoming(w, g)].link = w.layer[Incoming(w, g)].link
                          /\ Live(x, Incoming(w, g)) => Live(w, Incoming(w, g))
      BY <1>1, <1>4, <2>5
    <3> QED
      BY <2>1, <2>2, <3>1, <3>2, StepSame
  <2>7. DoneOf(x, g)
    <3>1. Linked(w, g) => /\ x.layer[Incoming(w, g)].gain = w.layer[Incoming(w, g)].gain
                          /\ Live(x, Incoming(w, g)) => Live(w, Incoming(w, g))
      BY <1>4, <1>5, <2>5
    <3>2. Excused(w) \subseteq Excused(x)
      BY GrowsIs
    <3> QED
      BY <2>1, <2>2, <3>1, <3>2 DEF DoneOf, Linked, Incoming
  <2> QED
    BY <2>3, <2>4, <2>6, <2>7 DEF OneIn
<1> QED
  BY <1>7, <1>8, <1>9, <1>10, <1>11 DEF FadeCore, CrossIn, AloneIn, StepIn, DoneIn, OneIn

---------------------------------------------------------------------------
(***************************************************************************)
(* What the operator does to a Fade.                                        *)
(***************************************************************************)
LEMMA CrossIs ==
  ASSUME NEW w \in Worlds, NEW f \in Fades
  PROVE  /\ LinkedVoice(w, f) = IF Linked(w, f) THEN Incoming(w, f) ELSE NoVoice
         /\ LinkedVoice(w, f) \in Voices
BY Constants, FadeIs DEF LinkedVoice, Linked, Incoming

\* A dissolve that is paused or resumed.
LEMMA ClocksIs ==
  ASSUME NEW l \in Links, ClockIn(l), l.is
  PROVE  /\ ClockPause(l) \in Links /\ ClockIn(ClockPause(l)) /\ ClockPause(l).is
         /\ ClockPause(l).out = l.out /\ ClockPause(l).revealed = l.revealed
         /\ ClockPause(l).paused /\ ClockPause(l).started = l.started /\ ClockPause(l).done = l.done
         /\ ClockPause(l).since = l.since
         /\ ClockResume(l) \in Links /\ ClockIn(ClockResume(l)) /\ ClockResume(l).is
         /\ ClockResume(l).out = l.out /\ ClockResume(l).revealed = l.revealed
         /\ ~ClockResume(l).paused /\ (l.started => ClockResume(l).started)
         /\ ClockResume(l).done = l.done /\ ClockResume(l).since = l.since
         /\ (ClockResume(l).started /\ ~l.started => l.done = 0 /\ l.since = 0)
BY LinkIs DEF Links, ClockIn, ClockPause, ClockResume, RunClock

\* What a call changes of the clocks of a Fade.
LEMMA FadePutIs ==
  ASSUME NEW w \in Worlds, NEW f \in Fades, NEW r \in FadeRecords
  PROVE  LET x == [w EXCEPT !.fade[f] = r] IN
         /\ x \in Worlds /\ x.layer = w.layer /\ SameRest(w, x) /\ OnlyFade(w, x, f) /\ x.fade[f] = r
         /\ x.past = w.past
<1> DEFINE x == [w EXCEPT !.fade[f] = r]
<1>1. /\ x \in Worlds /\ x.fade = [w.fade EXCEPT ![f] = r] /\ x.pic = w.pic /\ x.layer = w.layer
      /\ x.next = w.next /\ x.of = w.of /\ x.past = w.past
  BY PutFade
<1> HIDE DEF x
<1>2. x.fade[f] = r /\ \A g \in Fades : g # f => x.fade[g] = w.fade[g]
  BY <1>1, WorldIs
<1> QED
  BY <1>1, <1>2 DEF SameRest, OnlyFade, x

\* hold_crossfade, on the picture a Fade has linked.
LEMMA HoldIs ==
  ASSUME NEW w \in Worlds, NEW v \in Voices, NEW paused \in BOOLEAN, LinksIn(w)
  PROVE  LET x == HoldCrossfade(w, v, paused)
             l == IF paused THEN ClockPause(w.layer[v].link) ELSE ClockResume(w.layer[v].link)
         IN /\ x \in Worlds /\ OnlyLayers(w, x)
            /\ v \in Voice /\ w.layer[v].link.is =>
                 l \in Links /\ x.layer = [w.layer EXCEPT ![v] = [w.layer[v] EXCEPT !.link = l]]
            /\ ~(v \in Voice /\ w.layer[v].link.is) => x = w
<1> DEFINE l == IF paused THEN ClockPause(w.layer[v].link) ELSE ClockResume(w.layer[v].link)
           m == [w.layer[v] EXCEPT !.link = l]
<1>1. CASE v \in Voice /\ w.layer[v].link.is
  <2>1. OnSlot(w, v)
    BY <1>1, OnSlotIs DEF LinksIn, Live
  <2>2. w.layer[v].link \in Links /\ ClockIn(w.layer[v].link)
    BY <1>1, LayerIs DEF LinksIn
  <2>3. l \in Links
    BY <1>1, <2>2, ClocksIs
  <2> HIDE DEF l
  <2>4. m \in Layers
    BY <1>1, <2>3, LayerIs DEF Layers
  <2>5. HoldCrossfade(w, v, paused) = [w EXCEPT !.layer[v] = m]
    BY <1>1, <2>1 DEF HoldCrossfade, l
  <2> HIDE DEF m
  <2> QED
    BY <1>1, <2>3, <2>4, <2>5, PutLayer DEF OnlyLayers, l, m
<1>2. CASE ~(v \in Voice /\ w.layer[v].link.is)
  <2>1. HoldCrossfade(w, v, paused) = w
    BY <1>2, OnSlotIs DEF HoldCrossfade
  <2> QED
    BY <1>2, <2>1 DEF OnlyLayers
<1> QED
  BY <1>1, <1>2

\* hold_crossfade, where there is none.
LEMMA HoldNone ==
  ASSUME NEW w \in Worlds, NEW v \in Voices, NEW paused, LinksIn(w), ~(v \in Voice /\ w.layer[v].link.is)
  PROVE  HoldCrossfade(w, v, paused) = w
BY OnSlotIs DEF HoldCrossfade

\* History that is added by hand.
LEMMA PastPut ==
  ASSUME NEW w \in Worlds, NEW L \in SUBSET Voices
  PROVE  /\ LET x == [w EXCEPT !.past.late = @ \cup L] IN
            /\ x \in Worlds /\ x.layer = w.layer /\ x.fade = w.fade /\ SameRest(w, x) /\ Grows(w, x)
            /\ L \subseteq x.past.late
         /\ LET x == [w EXCEPT !.past.left = @ \cup L] IN
            /\ x \in Worlds /\ x.layer = w.layer /\ x.fade = w.fade /\ SameRest(w, x) /\ Grows(w, x)
            /\ L \subseteq x.past.left
<1>1. w.past \in Pasts
  BY WorldIs
<1> DEFINE a == [w.past EXCEPT !.late = @ \cup L]
           b == [w.past EXCEPT !.left = @ \cup L]
<1>2. a \in Pasts /\ b \in Pasts
  BY <1>1 DEF Pasts
<1>3. /\ w.past.late \subseteq a.late /\ w.past.missed \subseteq a.missed
      /\ w.past.left \subseteq a.left /\ w.past.faded \subseteq a.faded
      /\ w.past.taken \subseteq a.taken /\ w.past.dull \subseteq a.dull
      /\ w.past.dim \subseteq a.dim /\ w.past.spent \subseteq a.spent /\ L \subseteq a.late
  BY <1>1 DEF Pasts
<1>4. /\ w.past.late \subseteq b.late /\ w.past.missed \subseteq b.missed
      /\ w.past.left \subseteq b.left /\ w.past.faded \subseteq b.faded
      /\ w.past.taken \subseteq b.taken /\ w.past.dull \subseteq b.dull
      /\ w.past.dim \subseteq b.dim /\ w.past.spent \subseteq b.spent /\ L \subseteq b.left
  BY <1>1 DEF Pasts
<1>5. [w EXCEPT !.past.late = @ \cup L] = [w EXCEPT !.past = a]
      /\ [w EXCEPT !.past.left = @ \cup L] = [w EXCEPT !.past = b]
  OBVIOUS
<1> HIDE DEF a, b
<1>6. ASSUME NEW q \in Pasts
      PROVE  LET x == [w EXCEPT !.past = q] IN
             /\ x \in Worlds /\ x.layer = w.layer /\ x.fade = w.fade /\ SameRest(w, x) /\ x.past = q
  BY DEF Worlds, SameRest
<1> QED
  BY <1>2, <1>3, <1>4, <1>5, <1>6 DEF Grows

\* The records of a Fade.
LEMMA RecordIs ==
  ASSUME NEW r \in FadeRecords
  PROVE  /\ r.state \in {"standby", "running", "paused"} /\ r.waits \in BOOLEAN /\ r.clock \in 0..Span
         /\ r.runs \in BOOLEAN /\ r.awaiting \in BOOLEAN /\ r.done \in BOOLEAN /\ r.cross \in Crosses
         /\ r.targets \in SUBSET [voice : Voice, gain : Level, opacity : Level]
         /\ 0 \in 0..Span
BY Constants DEF FadeRecords

\* A Fade that is stopped,
LEMMA HaltedIs ==
  ASSUME NEW r \in FadeRecords
  PROVE  LET h == Halted(r) IN
         /\ h \in FadeRecords /\ h.state = "standby" /\ ~h.waits /\ ~h.runs /\ h.clock = 0
         /\ h.awaiting = r.awaiting /\ h.done = r.done /\ h.cross = r.cross /\ h.targets = r.targets
BY RecordIs DEF FadeRecords, Halted

\* one that is paused,
LEMMA PausedIs ==
  ASSUME NEW r \in FadeRecords
  PROVE  LET h == Paused(r) IN
         /\ h \in FadeRecords /\ h.state = "paused" /\ h.runs = (r.runs /\ r.waits)
         /\ h.waits = r.waits /\ h.clock = r.clock
         /\ h.awaiting = r.awaiting /\ h.done = r.done /\ h.cross = r.cross /\ h.targets = r.targets
<1>1. (r.runs /\ r.waits) \in BOOLEAN
  OBVIOUS
<1> QED
  BY <1>1, RecordIs DEF FadeRecords, Paused

\* one that is resumed,
LEMMA ResumedIs ==
  ASSUME NEW r \in FadeRecords
  PROVE  LET h == Resumed(r) IN
         /\ h \in FadeRecords /\ h.state = "running" /\ (h.runs <=> r.runs \/ (~r.waits /\ ~r.awaiting))
         /\ h.waits = r.waits /\ (r.waits => h.clock = 0) /\ (~r.waits => h.clock = r.clock)
         /\ h.awaiting = r.awaiting /\ h.done = r.done /\ h.cross = r.cross /\ h.targets = r.targets
<1> DEFINE runs == r.runs \/ ClockRestarts(r)
           clock == IF r.waits THEN 0 ELSE r.clock
<1>1. runs \in BOOLEAN /\ clock \in 0..Span
  BY RecordIs
<1>2. runs <=> r.runs \/ (~r.waits /\ ~r.awaiting)
  BY DEF ClockRestarts
<1>3. Resumed(r) = [r EXCEPT !.state = "running", !.runs = runs, !.clock = clock]
  BY DEF Resumed
<1>4. (r.waits => clock = 0) /\ (~r.waits => clock = r.clock)
  OBVIOUS
<1> HIDE DEF runs, clock
<1>5. LET h == [r EXCEPT !.state = "running", !.runs = runs, !.clock = clock] IN
      /\ h \in FadeRecords /\ h.state = "running" /\ h.runs = runs /\ h.clock = clock
      /\ h.waits = r.waits /\ h.awaiting = r.awaiting /\ h.done = r.done /\ h.cross = r.cross
      /\ h.targets = r.targets
  BY <1>1, RecordIs DEF FadeRecords
<1> QED
  BY <1>2, <1>3, <1>4, <1>5

\* one whose picture has come,
LEMMA UnderwayIs ==
  ASSUME NEW r \in FadeRecords, NEW since \in 0..Span
  PROVE  LET h == Underway(r, since) IN
         /\ h \in FadeRecords /\ h.state = r.state /\ h.runs /\ h.waits = r.waits /\ h.clock = since
         /\ ~h.awaiting /\ h.done = r.done /\ h.cross = r.cross /\ h.targets = r.targets
BY RecordIs DEF FadeRecords, Underway

\* and one whose pre-wait is over.
LEMMA WaitedIs ==
  ASSUME NEW r \in FadeRecords
  PROVE  LET h == Waited(r) IN
         /\ h \in FadeRecords /\ h.state = r.state
         /\ r.clock = 0 => h = r
         /\ r.clock # 0 => ~h.waits /\ (h.runs <=> ~r.awaiting) /\ h.clock = 0
         /\ h.awaiting = r.awaiting /\ h.done = r.done /\ h.cross = r.cross /\ h.targets = r.targets
<1>1. (~r.awaiting) \in BOOLEAN
  OBVIOUS
<1> QED
  BY <1>1, RecordIs DEF FadeRecords, Waited

\* A Fade that is given a crossfade, or none.
LEMMA CrossedIs ==
  ASSUME NEW r \in FadeRecords, NEW c \in Crosses
  PROVE  LET h == WithCross(r, c) IN
         /\ h \in FadeRecords /\ h.state = r.state /\ h.waits = r.waits /\ h.done = r.done
         /\ h.targets = r.targets /\ h.cross = c /\ (h.awaiting <=> c.is # "none")
         /\ h.awaiting /\ ~r.awaiting => ~h.runs /\ h.clock = 0
         /\ ~h.awaiting /\ r.awaiting =>
              (h.runs <=> r.runs \/ (~r.waits /\ r.state = "running")) /\ h.clock = r.clock
         /\ (h.awaiting <=> r.awaiting) => h.runs = r.runs /\ h.clock = r.clock
<1> DEFINE waits == c.is # "none"
           runs == IF waits /\ ~r.awaiting THEN FALSE
                   ELSE IF ~waits /\ r.awaiting THEN r.runs \/ (~r.waits /\ r.state = "running")
                   ELSE r.runs
           clock == IF waits /\ ~r.awaiting THEN 0 ELSE r.clock
<1>1. waits \in BOOLEAN /\ runs \in BOOLEAN /\ clock \in 0..Span
  BY RecordIs
<1>2. WithCross(r, c) = [r EXCEPT !.cross = c, !.awaiting = waits, !.runs = runs, !.clock = clock]
  BY DEF WithCross
<1>3. /\ waits /\ ~r.awaiting => ~runs /\ clock = 0
      /\ ~waits /\ r.awaiting => (runs <=> r.runs \/ (~r.waits /\ r.state = "running")) /\ clock = r.clock
      /\ (waits <=> r.awaiting) => runs = r.runs /\ clock = r.clock
  BY RecordIs
<1>4. waits <=> c.is # "none"
  OBVIOUS
<1> HIDE DEF waits, runs, clock
<1>5. LET h == [r EXCEPT !.cross = c, !.awaiting = waits, !.runs = runs, !.clock = clock] IN
      /\ h \in FadeRecords /\ h.state = r.state /\ h.waits = r.waits /\ h.done = r.done
      /\ h.targets = r.targets /\ h.cross = c /\ h.awaiting = waits /\ h.runs = runs /\ h.clock = clock
  BY <1>1, RecordIs DEF FadeRecords
<1> QED
  BY <1>2, <1>3, <1>4, <1>5

\* A Fade is put in its place after a call of the output.
WithFade(w, f, r) == [w EXCEPT !.fade[f] = r]

\* A Fade that changes after its link did.
LEMMA FadePutAfter ==
  ASSUME NEW w \in Worlds, NEW h \in Worlds, NEW f \in Fades, NEW r \in FadeRecords, OnlyLayers(w, h)
  PROVE  LET x == WithFade(h, f, r) IN
         /\ x \in Worlds /\ x.layer = h.layer /\ SameRest(w, x) /\ OnlyFade(w, x, f)
         /\ x.past = w.past /\ x.fade[f] = r
<1>1. LET z == [h EXCEPT !.fade[f] = r] IN
      /\ z \in Worlds /\ z.layer = h.layer /\ SameRest(h, z) /\ OnlyFade(h, z, f) /\ z.fade[f] = r
      /\ z.past = h.past
  BY FadePutIs
<1> QED
  BY <1>1 DEF SameRest, OnlyFade, OnlyLayers, WithFade

\* The clocks of a Fade change, and perhaps that of its link: the rest is as it was.
Reclocked(w, x, v, l) ==
  /\ v \in Voice /\ l \in Links /\ w.layer[v].link.is /\ l.is /\ ClockIn(l)
  /\ l.out = w.layer[v].link.out /\ l.revealed = w.layer[v].link.revealed
  /\ x.layer = [w.layer EXCEPT ![v] = [w.layer[v] EXCEPT !.link = l]]

\* A Fade whose clock alone changed.
LEMMA ReclockedIs ==
  ASSUME NEW w \in Worlds, NEW x \in Worlds, NEW v, NEW l, Reclocked(w, x, v, l)
  PROVE  /\ \A u \in Voice : u # v => x.layer[u] = w.layer[u]
         /\ x.layer[v].link = l
         /\ \A u \in Voice : /\ Live(x, u) <=> Live(w, u)
                             /\ x.layer[u].link.is <=> w.layer[u].link.is
                             /\ x.layer[u].gain = w.layer[u].gain
<1>1. v \in Voice /\ l.is /\ w.layer[v].link.is
  BY DEF Reclocked
<1>2. (\A u \in Voice : u # v => x.layer[u] = w.layer[u]) /\ x.layer[v] = [w.layer[v] EXCEPT !.link = l]
  BY WorldIs DEF Reclocked
<1>3. x.layer[v].link = l /\ x.layer[v].on = w.layer[v].on
      /\ x.layer[v].stopping = w.layer[v].stopping /\ x.layer[v].gain = w.layer[v].gain
  BY <1>1, <1>2, LayerIs DEF Layers
<1> QED
  BY <1>1, <1>2, <1>3 DEF Live

\* What a Fade does to itself leaves the other Fades alone,
LEMMA FadeMoves ==
  ASSUME OneFadeEach, NEW w \in Worlds, NEW x \in Worlds, NEW f \in Fades, NEW l,
         FadeCore(w), SoundIn(w, {}), SameRest(w, x), OnlyFade(w, x, f), Grows(w, x),
         x.fade[f].cross = w.fade[f].cross, CrossOf(x, f), StepOf(x, f), DoneOf(x, f),
         x.layer = w.layer \/ (Linked(w, f) /\ Reclocked(w, x, Incoming(w, f), l)),
         \/ w.fade[f].state = "standby" \/ x.fade[f].state # "standby"
         \/ Linked(w, f) => Incoming(w, f) \in Excused(x)
  PROVE  FadeCore(x) /\ SoundIn(x, {})
<1>1. \A u \in Voice : /\ Live(x, u) <=> Live(w, u)
                       /\ x.layer[u].link.is <=> w.layer[u].link.is
                       /\ x.layer[u].gain = w.layer[u].gain
  <2>1. CASE x.layer = w.layer
    BY <2>1 DEF Live
  <2>2. CASE Reclocked(w, x, Incoming(w, f), l)
    BY <2>2, ReclockedIs
  <2> QED
    BY <2>1, <2>2
<1>2. AloneOf(x, f)
  <2>1. AloneOf(w, f)
    BY DEF FadeCore, AloneIn
  <2> QED
    BY <1>1, <2>1 DEF AloneOf, SameRest, Linked, Incoming
<1>3. OneIn(x, f)
  BY <1>2 DEF OneIn
<1>4. FadeCore(x)
  <2>1. CASE x.layer = w.layer
    BY <1>3, <2>1, FadeOnlyCore
  <2>2. CASE Linked(w, f) /\ Reclocked(w, x, Incoming(w, f), l)
    <3> DEFINE v == Incoming(w, f)
    <3>1. /\ v \in Voice /\ l \in Links /\ w.layer[v].link.is /\ l.is /\ ClockIn(l)
          /\ l.out = w.layer[v].link.out /\ l.revealed = w.layer[v].link.revealed
          /\ x.layer = [w.layer EXCEPT ![v] = [w.layer[v] EXCEPT !.link = l]]
      BY <2>2 DEF Reclocked
    <3>2. v = Incoming(w, f)
      OBVIOUS
    <3> HIDE DEF v
    <3> QED
      BY <1>3, <2>2, <3>1, <3>2, HeldCore
  <2> QED
    BY <2>1, <2>2
<1>5. SoundIn(x, {})
  <2>1. ASSUME NEW v \in Voice, OwnerOf(w, f, v) PROVE OwnerOf(x, f, v) \/ v \in Excused(x)
    BY <2>1 DEF OwnerOf, Linked, Incoming
  <2>2. x.of = w.of
    BY DEF SameRest
  <2> QED
    BY <1>1, <2>1, <2>2, SoundOnlyFade
<1> QED
  BY <1>4, <1>5

\* and so does what it does to its link.
LEMMA HoldMoves ==
  ASSUME NEW w \in Worlds, NEW x \in Worlds, NEW f \in Fades, NEW paused \in BOOLEAN, FadeCore(w),
         x.layer = HoldCrossfade(w, LinkedVoice(w, f), paused).layer
  PROVE  LET v == Incoming(w, f)
             l == IF paused THEN ClockPause(w.layer[v].link) ELSE ClockResume(w.layer[v].link)
         IN /\ Linked(w, f) /\ w.layer[v].link.is => Reclocked(w, x, v, l)
            /\ ~(Linked(w, f) /\ w.layer[v].link.is) => x.layer = w.layer
<1> DEFINE v == Incoming(w, f)
           l == IF paused THEN ClockPause(w.layer[v].link) ELSE ClockResume(w.layer[v].link)
<1>1. LinksIn(w) /\ CrossOf(w, f)
  BY DEF FadeCore, CrossIn
<1>2. CASE Linked(w, f) /\ w.layer[v].link.is
  <2>1. LinkedVoice(w, f) = v /\ v \in Voice
    BY <1>1, <1>2, CrossIs, IncomingIs
  <2>2. w.layer[v].link \in Links /\ ClockIn(w.layer[v].link)
    BY <1>1, <2>1, LayerIs DEF LinksIn
  <2>3. l.is /\ ClockIn(l) /\ l.out = w.layer[v].link.out /\ l.revealed = w.layer[v].link.revealed
    BY <1>2, <2>2, ClocksIs
  <2>4. l \in Links /\ x.layer = [w.layer EXCEPT ![v] = [w.layer[v] EXCEPT !.link = l]]
    BY <1>1, <1>2, <2>1, Constants, HoldIs
  <2>5. Reclocked(w, x, v, l)
    <3> HIDE DEF v, l
    <3> QED
      BY <1>2, <2>1, <2>3, <2>4 DEF Reclocked
  <2> QED
    BY <1>2, <2>5
<1>3. CASE ~(Linked(w, f) /\ w.layer[v].link.is)
  <2>1. ~(LinkedVoice(w, f) \in Voice /\ w.layer[LinkedVoice(w, f)].link.is)
    BY <1>3, CrossIs, Constants
  <2>2. LinkedVoice(w, f) \in Voices
    BY CrossIs
  <2>3. HoldCrossfade(w, LinkedVoice(w, f), paused) = w
    BY <1>1, <2>1, <2>2, HoldNone
  <2> QED
    BY <1>3, <2>3
<1> QED
  BY <1>2, <1>3

\* A pause holds the Fade and its link together.
LEMMA PauseKeeps ==
  ASSUME OneFadeEach, NEW w \in Worlds, NEW f \in Fades, NEW L \in SUBSET Voices, FadeCore(w), SoundIn(w, {}),
         w.fade[f].state = "running",
         w.fade[f].awaiting /\ Linked(w, f) /\ Phase(w, Incoming(w, f)) = "started"
           => Incoming(w, f) \in L
  PROVE  LET x == [PauseFade(w, f) EXCEPT !.past.late = @ \cup L] IN
         x \in Worlds /\ FadeCore(x) /\ SoundIn(x, {})
<1> DEFINE r == Paused(w.fade[f])
           h == HoldCrossfade(w, LinkedVoice(w, f), TRUE)
           y == PauseFade(w, f)
           x == [y EXCEPT !.past.late = @ \cup L]
           v == Incoming(w, f)
           l == ClockPause(w.layer[v].link)
<1>1. /\ r \in FadeRecords /\ r.state = "paused" /\ r.runs = (w.fade[f].runs /\ w.fade[f].waits)
      /\ r.waits = w.fade[f].waits /\ r.clock = w.fade[f].clock
      /\ r.awaiting = w.fade[f].awaiting /\ r.done = w.fade[f].done /\ r.cross = w.fade[f].cross
  BY FadeIs, PausedIs
<1>2. LinksIn(w) /\ CrossOf(w, f) /\ StepOf(w, f) /\ DoneOf(w, f)
  BY DEF FadeCore, CrossIn, StepIn, DoneIn
<1>3. y = WithFade(h, f, r)
  BY DEF PauseFade, WithFade
<1>4. /\ y \in Worlds /\ y.layer = h.layer /\ SameRest(w, y) /\ OnlyFade(w, y, f)
      /\ y.past = w.past /\ y.fade[f] = r
  <2> HIDE DEF r
  <2>1. h \in Worlds /\ OnlyLayers(w, h)
    BY <1>2, CrossIs, HoldIs
  <2> HIDE DEF y, h
  <2> QED
    BY <1>1, <1>3, <2>1, FadePutAfter
<1> HIDE DEF y
<1>5. /\ x \in Worlds /\ x.layer = y.layer /\ x.fade = y.fade /\ SameRest(y, x) /\ Grows(y, x)
      /\ L \subseteq x.past.late
  BY <1>4, PastPut
<1> HIDE DEF x
<1>6. SameRest(w, x) /\ OnlyFade(w, x, f) /\ Grows(w, x) /\ x.fade[f] = r /\ x.layer = h.layer
  BY <1>4, <1>5 DEF SameRest, OnlyFade, Grows
<1> HIDE DEF h, r
<1>7. /\ Linked(w, f) /\ w.layer[v].link.is => Reclocked(w, x, v, l)
      /\ ~(Linked(w, f) /\ w.layer[v].link.is) => x.layer = w.layer
  BY <1>5, <1>6, HoldMoves DEF h
<1>8. CrossOf(x, f)
  BY <1>1, <1>2, <1>6, FadeIs DEF CrossOf, SameRest
<1>9. StepOf(x, f)
  <2> SUFFICES ASSUME Linked(w, f) PROVE StepOf(x, f)
    BY <1>1, <1>6 DEF StepOf, Linked
  <2>1. Linked(x, f) /\ Incoming(x, f) = v /\ v \in Voice /\ ~w.fade[f].waits
    BY <1>1, <1>2, <1>6, IncomingIs DEF Linked, Incoming, CrossOf
  <2>2. CASE w.layer[v].link.is
    <3>1. Reclocked(w, x, v, l)
      BY <1>7, <2>2
    <3>2. x.layer[v].link = l /\ l.is
      <4> HIDE DEF l, v
      <4>1. x.layer[v].link = l
        BY <1>5, <3>1, ReclockedIs
      <4> QED
        BY <3>1, <4>1 DEF Reclocked
    <3>3. /\ l.paused /\ l.started = w.layer[v].link.started /\ l.done = w.layer[v].link.done
          /\ l.since = w.layer[v].link.since
      BY <1>2, <2>1, <2>2, LayerIs, ClocksIs DEF LinksIn
    <3>4. Together(w.fade[f], w.layer[v].link, v \in w.past.late)
      BY <1>2, <2>2 DEF StepOf
    <3>5. w.fade[f].awaiting /\ l.started => v \in x.past.late
      <4>1. SUFFICES ASSUME w.fade[f].awaiting, l.started PROVE v \in L
        BY <1>5
      <4>2. OnSlot(w, v)
        BY <1>2, <2>1, <2>2, Constants, OnSlotIs DEF LinksIn, Live
      <4>3. Phase(w, v) = "started"
        BY <2>2, <3>3, <4>1, <4>2 DEF Phase
      <4> QED
        BY <4>1, <4>3
    <3>6. (v \in w.past.late) => (v \in x.past.late)
      BY <1>6 DEF Grows
    <3>7. Together(r, l, v \in x.past.late)
      <4> HIDE DEF l, v
      <4> QED
        BY <1>1, <2>1, <3>3, <3>4, <3>5, <3>6, FadeIs DEF Together
    <3> QED
      BY <1>6, <2>1, <3>2, <3>7 DEF StepOf
  <2>3. CASE ~w.layer[v].link.is
    <3>1. x.layer = w.layer
      BY <1>7, <2>3
    <3>2. Live(w, v) => w.fade[f].awaiting \/ w.fade[f].clock = Span
      BY <1>2, <2>3 DEF StepOf
    <3>3. Live(x, v) => Live(w, v)
      BY <3>1 DEF Live
    <3> HIDE DEF v
    <3> QED
      BY <1>1, <1>6, <2>1, <2>3, <3>1, <3>2, <3>3 DEF StepOf
  <2> QED
    BY <2>2, <2>3
<1>10. DoneOf(x, f)
  <2>1. \A u \in Voice : (Live(x, u) => Live(w, u)) /\ x.layer[u].gain = w.layer[u].gain
    BY <1>5, <1>7, ReclockedIs DEF Live
  <2>2. Linked(w, f) => v \in Voice
    BY <1>2, IncomingIs
  <2>3. Excused(w) \subseteq Excused(x)
    BY <1>6, GrowsIs
  <2> QED
    BY <1>1, <1>2, <1>6, <2>1, <2>2, <2>3 DEF DoneOf, Linked, Incoming
<1>11. x.layer = w.layer \/ (Linked(w, f) /\ Reclocked(w, x, Incoming(w, f), l))
  BY <1>7
<1>12. x.fade[f].cross = w.fade[f].cross /\ x.fade[f].state # "standby"
  BY <1>1, <1>6
<1> HIDE DEF l
<1>13. FadeCore(x) /\ SoundIn(x, {})
  BY <1>5, <1>6, <1>8, <1>9, <1>10, <1>11, <1>12, FadeMoves
<1> QED
  BY <1>5, <1>13 DEF x, y

\* So does what takes it back.
LEMMA ResumeKeeps ==
  ASSUME OneFadeEach, NEW w \in Worlds, NEW f \in Fades, FadeCore(w), SoundIn(w, {}),
         w.fade[f].state = "paused"
  PROVE  LET x == ResumeFade(w, f) IN x \in Worlds /\ FadeCore(x) /\ SoundIn(x, {})
<1> DEFINE r == Resumed(w.fade[f])
           h == HoldCrossfade(w, LinkedVoice(w, f), FALSE)
           x == ResumeFade(w, f)
           v == Incoming(w, f)
           l == ClockResume(w.layer[v].link)
<1>1. /\ r \in FadeRecords /\ r.state = "running"
      /\ r.runs <=> w.fade[f].runs \/ (~w.fade[f].waits /\ ~w.fade[f].awaiting)
      /\ r.waits = w.fade[f].waits /\ (r.waits => r.clock = 0) /\ (~r.waits => r.clock = w.fade[f].clock)
      /\ r.awaiting = w.fade[f].awaiting /\ r.done = w.fade[f].done /\ r.cross = w.fade[f].cross
  BY FadeIs, ResumedIs
<1>2. LinksIn(w) /\ CrossOf(w, f) /\ StepOf(w, f) /\ DoneOf(w, f)
  BY DEF FadeCore, CrossIn, StepIn, DoneIn
<1>3. x = WithFade(h, f, r)
  BY DEF ResumeFade, WithFade
<1>4. /\ x \in Worlds /\ x.layer = h.layer /\ SameRest(w, x) /\ OnlyFade(w, x, f)
      /\ x.past = w.past /\ x.fade[f] = r
  <2> HIDE DEF r
  <2>1. h \in Worlds /\ OnlyLayers(w, h)
    BY <1>2, CrossIs, HoldIs
  <2> HIDE DEF x, h
  <2> QED
    BY <1>1, <1>3, <2>1, FadePutAfter
<1> HIDE DEF x
<1>6. Grows(w, x)
  BY <1>4 DEF Grows
<1> HIDE DEF h, r
<1>7. /\ Linked(w, f) /\ w.layer[v].link.is => Reclocked(w, x, v, l)
      /\ ~(Linked(w, f) /\ w.layer[v].link.is) => x.layer = w.layer
  BY <1>4, HoldMoves DEF h
<1>8. CrossOf(x, f)
  BY <1>1, <1>2, <1>4, FadeIs DEF CrossOf, SameRest
<1>9. StepOf(x, f)
  <2> SUFFICES ASSUME Linked(w, f) PROVE StepOf(x, f)
    BY <1>1, <1>4 DEF StepOf, Linked
  <2>1. Linked(x, f) /\ Incoming(x, f) = v /\ v \in Voice /\ ~w.fade[f].waits
    BY <1>1, <1>2, <1>4, IncomingIs DEF Linked, Incoming, CrossOf
  <2>2. CASE w.layer[v].link.is
    <3>1. Reclocked(w, x, v, l)
      BY <1>7, <2>2
    <3>2. x.layer[v].link = l /\ l.is
      <4> HIDE DEF l, v
      <4>1. x.layer[v].link = l
        BY <1>4, <3>1, ReclockedIs
      <4> QED
        BY <3>1, <4>1 DEF Reclocked
    <3>3. /\ ~l.paused /\ (w.layer[v].link.started => l.started) /\ l.done = w.layer[v].link.done
          /\ l.since = w.layer[v].link.since
          /\ l.started /\ ~w.layer[v].link.started => l.done = 0 /\ l.since = 0
      BY <1>2, <2>1, <2>2, LayerIs, ClocksIs DEF LinksIn
    <3>4. Together(w.fade[f], w.layer[v].link, v \in w.past.late)
      BY <1>2, <2>2 DEF StepOf
    <3>6. (v \in w.past.late) = (v \in x.past.late)
      BY <1>4
    <3>7. Together(r, l, v \in x.past.late)
      <4> HIDE DEF l, v
      <4> QED
        BY <1>1, <2>1, <3>3, <3>4, <3>6, FadeIs DEF Together
    <3> QED
      BY <1>4, <2>1, <3>2, <3>7 DEF StepOf
  <2>3. CASE ~w.layer[v].link.is
    <3>1. x.layer = w.layer
      BY <1>7, <2>3
    <3>2. Live(w, v) => w.fade[f].awaiting \/ w.fade[f].clock = Span
      BY <1>2, <2>3 DEF StepOf
    <3>3. Live(x, v) => Live(w, v)
      BY <3>1 DEF Live
    <3> HIDE DEF v
    <3> QED
      BY <1>1, <1>4, <2>1, <2>3, <3>1, <3>2, <3>3 DEF StepOf
  <2> QED
    BY <2>2, <2>3
<1>10. DoneOf(x, f)
  <2>1. \A u \in Voice : (Live(x, u) => Live(w, u)) /\ x.layer[u].gain = w.layer[u].gain
    BY <1>4, <1>7, ReclockedIs DEF Live
  <2>2. Linked(w, f) => v \in Voice /\ ~w.fade[f].waits
    BY <1>2, IncomingIs DEF CrossOf, Linked
  <2>3. Excused(w) \subseteq Excused(x)
    BY <1>6, GrowsIs
  <2> QED
    BY <1>1, <1>2, <1>4, <2>1, <2>2, <2>3 DEF DoneOf, Linked, Incoming
<1>11. x.layer = w.layer \/ (Linked(w, f) /\ Reclocked(w, x, Incoming(w, f), l))
  BY <1>7
<1>12. x.fade[f].cross = w.fade[f].cross /\ x.fade[f].state # "standby"
  BY <1>1, <1>4
<1> HIDE DEF l
<1>13. FadeCore(x) /\ SoundIn(x, {})
  BY <1>4, <1>6, <1>8, <1>9, <1>10, <1>11, <1>12, FadeMoves
<1> QED
  BY <1>4, <1>13 DEF x

\* A crossfade that still waits is cancelled with its Fade.
Cancelled(w, x, v) ==
  /\ x.layer[v].link = NoLink /\ x.layer[v].on = w.layer[v].on /\ x.layer[v].shown = w.layer[v].shown
  /\ x.layer[v].stopping = w.layer[v].stopping /\ x.layer[v].gain = w.layer[v].gain
  /\ w.layer[v].link.revealed => x.layer[v].opacity = "full"
  /\ \A u \in Voice : u # v => Given(w, x, w.layer[v].link, u)

\* A link that waits is cancelled: its picture is seen as if it had none.
LEMMA CancelKeeps ==
  ASSUME OneFadeEach, NEW w \in Worlds, NEW x \in Worlds, NEW f \in Fades, FadeCore(w), HistIn(w), SoundIn(w, {}),
         SameRest(w, x), OnlyFade(w, x, f), Grows(w, x), CrossOf(x, f), x.fade[f].state = "standby",
         x.fade[f].cross = w.fade[f].cross, Linked(w, f), Incoming(w, f) \in Excused(x),
         w.layer[Incoming(w, f)].link.is, ~w.layer[Incoming(w, f)].link.started,
         Cancelled(w, x, Incoming(w, f))
  PROVE  FadeCore(x) /\ SoundIn(x, {})
<1> DEFINE v == Incoming(w, f)
           l == w.layer[v].link
<1>1. v \in Voice
  BY IncomingIs DEF FadeCore, CrossIn
<1>2. /\ x.layer[v].link = NoLink /\ x.layer[v].on = w.layer[v].on /\ x.layer[v].shown = w.layer[v].shown
      /\ x.layer[v].stopping = w.layer[v].stopping /\ x.layer[v].gain = w.layer[v].gain
      /\ l.revealed => x.layer[v].opacity = "full"
  BY DEF Cancelled
<1>3. \A u \in Voice : u # v => Given(w, x, l, u)
  BY DEF Cancelled
<1>4. l.is /\ ~Landed(l)
  <2>1. ClockIn(l)
    BY <1>1 DEF FadeCore, LinksIn
  <2> QED
    BY <2>1, Constants DEF Landed, ClockIn
<1>5. v = Incoming(w, f) /\ v \in Excused(x) /\ Linked(w, f)
  OBVIOUS
<1>6. Live(w, v) /\ (w.layer[v].shown => l.revealed)
  BY <1>1 DEF FadeCore, LinksIn
<1>7. l = w.layer[v].link
  OBVIOUS
<1> HIDE DEF v, l
<1>8. \A u \in Voice : u # v => SameLayer(w.layer[u], x.layer[u])
  BY <1>3 DEF Given
<1>9. \A u \in Voice : /\ Live(x, u) <=> Live(w, u)
                       /\ x.layer[u].gain = w.layer[u].gain /\ x.layer[u].shown = w.layer[u].shown
                       /\ x.layer[u].on = w.layer[u].on
                       /\ x.layer[u].link.is => u # v /\ x.layer[u].link = w.layer[u].link
  BY <1>2, <1>8, NoLinkIs DEF Live, SameLayer
<1>10. PicsIn(x)
  BY <1>9, PicsSame DEF FadeCore, SameRest
<1>11. VoicesIn(x)
  <2>1. ASSUME NEW u \in Voice PROVE x.layer[u].on \/ x.layer[u] = Gone
    BY <1>3, <1>6, <1>9, GivenGone DEF FadeCore, VoicesIn, Live
  <2> QED
    BY <1>9, <2>1 DEF FadeCore, VoicesIn, SameRest
<1>12. LinksIn(x)
  <2>1. \A u \in Voice : u # v => x.layer[u].link = w.layer[u].link
    BY <1>8 DEF SameLayer
  <2> QED
    BY <1>2, <1>9, <2>1, NoLinkIs DEF FadeCore, LinksIn
<1>13. DimIn(x)
  <2>1. ASSUME NEW u \in Voice, Live(x, u), x.layer[u].shown, x.layer[u].opacity # "full"
        PROVE  \/ u \in x.past.faded \cup x.past.dim \cup x.past.spent
               \/ x.layer[u].link.is /\ ~Mixes(x.layer[u].link)
               \/ \E t \in Voice : \E o \in x.layer[t].link.out : o.voice = u /\ o.apart
    <3>1. u # v
      BY <1>2, <1>6, <1>9, <2>1
    <3>2. Given(w, x, l, u) /\ Live(w, u) /\ w.layer[u].shown /\ x.layer[u].link = w.layer[u].link
      BY <1>3, <1>8, <1>9, <2>1, <3>1 DEF SameLayer
    <3>3. CASE GivesBack(w, l, u)
      <4>1. PICK o \in l.out : o.voice = u /\ x.layer[u].opacity = o.from
        BY <3>2, <3>3 DEF Given
      <4>2. u \in w.past.dim
        BY <1>1, <1>7, <2>1, <4>1 DEF HistIn
      <4> QED
        BY <4>2, GrowsIs
    <3>4. CASE ~GivesBack(w, l, u)
      <4>1. w.layer[u].opacity # "full"
        BY <2>1, <3>2, <3>4 DEF Given
      <4>2. \/ u \in w.past.faded \cup w.past.dim \cup w.past.spent
            \/ w.layer[u].link.is /\ ~Mixes(w.layer[u].link)
            \/ \E t \in Voice : \E o \in w.layer[t].link.out : o.voice = u /\ o.apart
        BY <3>2, <4>1 DEF FadeCore, DimIn
      <4>3. ASSUME NEW t \in Voice, NEW o \in w.layer[t].link.out, o.voice = u, o.apart
            PROVE  o \in x.layer[t].link.out
        <5>1. t # v
          BY <1>4, <1>7, <3>2, <3>4, <4>3 DEF GivesBack, Live
        <5> QED
          BY <1>8, <4>3, <5>1 DEF SameLayer
      <4> QED
        BY <3>2, <4>2, <4>3, GrowsIs
    <3> QED
      BY <3>3, <3>4
  <2> QED
    BY <2>1 DEF DimIn
<1>14. ASSUME NEW g \in Fades, g # f PROVE OneIn(x, g)
  <2>1. x.fade[g] = w.fade[g]
    BY <1>14 DEF OnlyFade
  <2>2. CrossOf(w, g) /\ AloneOf(w, g) /\ StepOf(w, g) /\ DoneOf(w, g)
    BY DEF FadeCore, CrossIn, AloneIn, StepIn, DoneIn
  <2>3. CrossOf(x, g)
    BY <2>1, <2>2 DEF CrossOf, SameRest
  <2>4. AloneOf(x, g)
    BY <1>9, <2>1, <2>2 DEF AloneOf, Linked, Incoming, SameRest
  <2>5. Linked(w, g) => Incoming(w, g) \in Voice /\ Incoming(w, g) # v
    BY <1>5, <1>14, <2>2, IncomingIs, OneDrives
  <2>6. StepOf(x, g)
    <3>1. w.past.late \subseteq x.past.late
      BY GrowsIs
    <3>2. Linked(w, g) => /\ x.layer[Incoming(w, g)].link = w.layer[Incoming(w, g)].link
                          /\ Live(x, Incoming(w, g)) => Live(w, Incoming(w, g))
      BY <1>8, <1>9, <2>5 DEF SameLayer
    <3> QED
      BY <2>1, <2>2, <3>1, <3>2, StepSame
  <2>7. DoneOf(x, g)
    <3>1. Linked(w, g) => /\ x.layer[Incoming(w, g)].gain = w.layer[Incoming(w, g)].gain
                          /\ Live(x, Incoming(w, g)) => Live(w, Incoming(w, g))
      BY <1>9, <2>5
    <3>2. Excused(w) \subseteq Excused(x)
      BY GrowsIs
    <3> QED
      BY <2>1, <2>2, <3>1, <3>2 DEF DoneOf, Linked, Incoming
  <2> QED
    BY <2>3, <2>4, <2>6, <2>7 DEF OneIn
<1>15. OneIn(x, f)
  <2>1. AloneOf(x, f)
    <3>1. AloneOf(w, f)
      BY DEF FadeCore, AloneIn
    <3> QED
      BY <1>9, <3>1 DEF AloneOf, Linked, Incoming, SameRest
  <2> QED
    BY <2>1 DEF OneIn, StepOf, DoneOf
<1>16. FadeCore(x)
  BY <1>10, <1>11, <1>12, <1>13, <1>14, <1>15 DEF FadeCore, CrossIn, AloneIn, StepIn, DoneIn, OneIn
<1>17. SoundIn(x, {})
  <2>1. ASSUME NEW u \in Voice, OwnerOf(w, f, u) PROVE u \in Excused(x)
    BY <1>5, <2>1 DEF OwnerOf
  <2>2. x.of = w.of
    BY DEF SameRest
  <2> QED
    BY <1>9, <2>1, <2>2, SoundOnlyFade
<1> QED
  BY <1>16, <1>17

\* release_crossfade cancels, freezes or does nothing.
LEMMA ReleaseIs ==
  ASSUME NEW w \in Worlds, NEW v \in Voices, LinksIn(w)
  PROVE  LET x == ReleaseCrossfade(w, v) IN
         /\ x \in Worlds /\ OnlyLayers(w, x)
         /\ ~(v \in Voice /\ w.layer[v].link.is) => x = w
         /\ v \in Voice /\ w.layer[v].link.is /\ w.layer[v].link.started =>
              x.layer = [w.layer EXCEPT ![v] = [w.layer[v] EXCEPT !.link = ClockPause(w.layer[v].link)]]
         /\ v \in Voice /\ w.layer[v].link.is /\ ~w.layer[v].link.started => Cancelled(w, x, v)
<1> DEFINE l == w.layer[v].link
           x == ReleaseCrossfade(w, v)
<1>1. CASE ~(v \in Voice /\ l.is)
  <2>1. Phase(w, v) = "none"
    BY <1>1, OnSlotIs DEF Phase
  <2>2. x = w
    BY <2>1 DEF ReleaseCrossfade
  <2> QED
    BY <1>1, <2>2 DEF OnlyLayers
<1>2. CASE v \in Voice /\ l.is /\ l.started
  <2>1. OnSlot(w, v)
    BY <1>2, OnSlotIs DEF LinksIn, Live
  <2>2. Phase(w, v) = "started"
    BY <1>2, <2>1 DEF Phase
  <2>3. ClockPause(l) \in Links
    BY <1>2, LayerIs, ClocksIs DEF LinksIn
  <2> DEFINE m == [w.layer[v] EXCEPT !.link = ClockPause(l)]
  <2>4. m \in Layers
    BY <1>2, <2>3, LayerIs DEF Layers
  <2>5. x = [w EXCEPT !.layer[v] = m]
    BY <2>2 DEF ReleaseCrossfade
  <2> HIDE DEF m, x
  <2>6. x \in Worlds /\ OnlyLayers(w, x) /\ x.layer = [w.layer EXCEPT ![v] = m]
    BY <1>2, <2>4, <2>5, PutLayer DEF OnlyLayers
  <2> QED
    BY <1>2, <2>6 DEF m, x
<1>3. CASE v \in Voice /\ l.is /\ ~l.started
  <2>1. OnSlot(w, v)
    BY <1>3, OnSlotIs DEF LinksIn, Live
  <2>2. Phase(w, v) = "waiting"
    BY <1>3, <2>1 DEF Phase
  <2>3. l \in Links /\ w.layer[v] \in Layers /\ (\A o \in l.out : o.voice # v)
    BY <1>3, LayerIs DEF LinksIn
  <2> DEFINE m == [w.layer[v] EXCEPT !.link = NoLink,
                                     !.opacity = IF l.revealed THEN "full" ELSE w.layer[v].opacity]
             y == [w EXCEPT !.layer[v] = m]
  <2>4. /\ m \in Layers /\ m.link = NoLink /\ m.on = w.layer[v].on /\ m.shown = w.layer[v].shown
        /\ m.stopping = w.layer[v].stopping /\ m.gain = w.layer[v].gain
        /\ l.revealed => m.opacity = "full"
    BY <2>3, NoLinkIs, LayerIs DEF Layers, Level
  <2>5. x = Abandoned(y, l)
    BY <2>2 DEF ReleaseCrossfade
  <2> HIDE DEF m, x
  <2>6. y \in Worlds /\ OnlyLayers(w, y) /\ y.layer = [w.layer EXCEPT ![v] = m]
    BY <1>3, <2>4, PutLayer DEF OnlyLayers
  <2>7. y.layer[v] = m /\ \A u \in Voice : u # v => y.layer[u] = w.layer[u]
    <3> HIDE DEF y
    <3> QED
      BY <1>3, <2>6, WorldIs
  <2> HIDE DEF y, l
  <2>8. x \in Worlds /\ OnlyLayers(y, x) /\ \A u \in Voice : Given(y, x, l, u)
    BY <2>3, <2>5, <2>6, AbandonedIs
  <2>9. SameLayer(m, x.layer[v]) /\ x.layer[v].opacity = m.opacity
    BY <1>3, <2>3, <2>7, <2>8 DEF Given, GivesBack
  <2>10. \A u \in Voice : u # v => Given(w, x, l, u)
    BY <2>7, <2>8 DEF Given, GivesBack
  <2>11. Cancelled(w, x, v)
    BY <2>4, <2>9, <2>10 DEF Cancelled, SameLayer, l
  <2>12. OnlyLayers(w, x)
    BY <2>6, <2>8 DEF OnlyLayers
  <2> QED
    BY <1>3, <2>8, <2>11, <2>12 DEF x, l
<1> QED
  BY <1>1, <1>2, <1>3

\* A stop leaves the sound where it is, which history knows.
LEMMA StopKeeps ==
  ASSUME OneFadeEach, NEW w \in Worlds, NEW f \in Fades, NEW L \in SUBSET Voices, FadeCore(w), HistIn(w),
         SoundIn(w, {}), Linked(w, f) => Incoming(w, f) \in L
  PROVE  LET x == [StopFade(w, f) EXCEPT !.past.left = @ \cup L] IN
         x \in Worlds /\ FadeCore(x) /\ SoundIn(x, {})
<1> DEFINE r == Halted(w.fade[f])
           h == ReleaseCrossfade(w, LinkedVoice(w, f))
           y == StopFade(w, f)
           x == [y EXCEPT !.past.left = @ \cup L]
           v == Incoming(w, f)
           l == ClockPause(w.layer[v].link)
<1>1. /\ r \in FadeRecords /\ r.state = "standby" /\ ~r.waits /\ ~r.runs /\ r.clock = 0
      /\ r.awaiting = w.fade[f].awaiting /\ r.done = w.fade[f].done /\ r.cross = w.fade[f].cross
  BY FadeIs, HaltedIs
<1>2. LinksIn(w) /\ CrossOf(w, f)
  BY DEF FadeCore, CrossIn
<1>3. y = WithFade(h, f, r)
  BY DEF StopFade, WithFade
<1>4. LinkedVoice(w, f) \in Voices /\ (Linked(w, f) => LinkedVoice(w, f) = v /\ v \in Voice)
      /\ (~Linked(w, f) => LinkedVoice(w, f) \notin Voice)
  BY <1>2, Constants, CrossIs, IncomingIs
<1>5. h \in Worlds /\ OnlyLayers(w, h)
  BY <1>2, <1>4, ReleaseIs
<1>6. /\ y \in Worlds /\ y.layer = h.layer /\ SameRest(w, y) /\ OnlyFade(w, y, f)
      /\ y.past = w.past /\ y.fade[f] = r
  <2> HIDE DEF r, y, h
  <2> QED
    BY <1>1, <1>3, <1>5, FadePutAfter
<1> HIDE DEF y
<1>7. /\ x \in Worlds /\ x.layer = y.layer /\ x.fade = y.fade /\ SameRest(y, x) /\ Grows(y, x)
      /\ L \subseteq x.past.left
  BY <1>6, PastPut
<1> HIDE DEF x
<1>8. SameRest(w, x) /\ OnlyFade(w, x, f) /\ Grows(w, x) /\ x.fade[f] = r /\ x.layer = h.layer
  BY <1>6, <1>7 DEF SameRest, OnlyFade, Grows
<1> HIDE DEF r
<1>9. CrossOf(x, f)
  BY <1>1, <1>2, <1>8, FadeIs DEF CrossOf, SameRest
<1>10. Linked(w, f) => v \in Excused(x)
  BY <1>7 DEF Excused
<1>11. /\ x.fade[f].cross = w.fade[f].cross /\ x.fade[f].state = "standby"
       /\ StepOf(x, f) /\ DoneOf(x, f)
  BY <1>1, <1>8 DEF StepOf, DoneOf
<1>12. CASE Linked(w, f) /\ w.layer[v].link.is /\ ~w.layer[v].link.started
  <2>1. Cancelled(w, h, v)
    BY <1>2, <1>4, <1>12, ReleaseIs
  <2>2. Cancelled(w, x, v)
    BY <1>8, <2>1 DEF Cancelled, Given
  <2> QED
    BY <1>7, <1>8, <1>9, <1>10, <1>11, <1>12, <2>2, CancelKeeps DEF x, y
<1>13. CASE Linked(w, f) /\ w.layer[v].link.is /\ w.layer[v].link.started
  <2>1. h.layer = [w.layer EXCEPT ![v] = [w.layer[v] EXCEPT !.link = l]]
    BY <1>2, <1>4, <1>13, ReleaseIs
  <2>2. l \in Links /\ l.is /\ ClockIn(l) /\ l.out = w.layer[v].link.out /\ l.revealed = w.layer[v].link.revealed
    BY <1>2, <1>4, <1>13, LayerIs, ClocksIs DEF LinksIn
  <2> HIDE DEF l
  <2>3. Reclocked(w, x, v, l)
    BY <1>4, <1>8, <1>13, <2>1, <2>2 DEF Reclocked
  <2>4. FadeCore(x) /\ SoundIn(x, {})
    BY <1>7, <1>8, <1>9, <1>10, <1>11, <1>13, <2>3, FadeMoves
  <2> QED
    BY <1>7, <2>4 DEF x, y
<1>14. CASE ~(Linked(w, f) /\ w.layer[v].link.is)
  <2>1. h = w
    BY <1>2, <1>4, <1>14, ReleaseIs
  <2> HIDE DEF h
  <2>2. x.layer = w.layer
    BY <1>8, <2>1
  <2>4. FadeCore(x) /\ SoundIn(x, {})
    BY <1>7, <1>8, <1>9, <1>10, <1>11, <2>2, FadeMoves
  <2> QED
    BY <1>7, <2>4 DEF x, y
<1> QED
  BY <1>12, <1>13, <1>14
---------------------------------------------------------------------------
(***************************************************************************)
(* A picture is started: it has a voice nobody had.                         *)
(***************************************************************************)
FreshSlot == [Gone EXCEPT !.on = TRUE, !.gain = "full"]

\* A slot whose content is loaded.
LEMMA FreshIs == /\ FreshSlot \in Layers /\ FreshSlot.on /\ ~FreshSlot.shown /\ ~FreshSlot.stopping
                 /\ FreshSlot.gain = "full" /\ FreshSlot.link = NoLink
BY GoneIs, NoLinkIs DEF FreshSlot, Gone, Layers, Level

StartedIn(w, x, p) ==
  /\ x.fade = w.fade /\ x.past = w.past /\ x.next = w.next + 1 /\ w.next \in Voice
  /\ x.pic[p] = [state |-> "running", voice |-> w.next, waits |-> FALSE]
  /\ \A q \in Picture : q # p => x.pic[q] = w.pic[q]
  /\ x.layer[w.next] = FreshSlot /\ \A u \in Voice : u # w.next => x.layer[u] = w.layer[u]
  /\ x.of[w.next] = p /\ \A u \in Voice : u # w.next => x.of[u] = w.of[u]

\* A picture that starts,
LEMMA StartIs ==
  ASSUME NEW w \in Worlds, NEW p \in Picture, w.next <= LastVoice
  PROVE  StartPicture(w, p) \in Worlds /\ StartedIn(w, StartPicture(w, p), p)
<1> DEFINE x == StartPicture(w, p)
           s == [state |-> "running", voice |-> w.next, waits |-> FALSE]
<1>1. w.next \in Voice /\ w.next + 1 \in 1..(LastVoice + 1) /\ w.next \in Voices
  BY WorldIs, Constants DEF Voice, Voices
<1>2. s \in PicRecords
  BY <1>1 DEF PicRecords
<1> HIDE DEF s
<1>3. x = [w EXCEPT !.pic[p] = s, !.layer[w.next] = FreshSlot, !.of[w.next] = p, !.next = w.next + 1]
  BY DEF StartPicture, FreshSlot, s
<1>4. /\ x \in Worlds /\ x.fade = w.fade /\ x.past = w.past /\ x.next = w.next + 1
      /\ x.pic = [w.pic EXCEPT ![p] = s] /\ x.layer = [w.layer EXCEPT ![w.next] = FreshSlot]
      /\ x.of = [w.of EXCEPT ![w.next] = p]
  <2> HIDE DEF x
  <2> QED
    BY <1>1, <1>2, <1>3, FreshIs DEF Worlds
<1> HIDE DEF x
<1>5. StartedIn(w, x, p)
  BY <1>1, <1>4, WorldIs DEF s, StartedIn
<1> QED
  BY <1>4, <1>5 DEF x

\* disturbs no other.
LEMMA StartKeeps ==
  ASSUME NEW w \in Worlds, NEW p \in Picture, FadeCore(w), w.next <= LastVoice, w.pic[p].voice = NoVoice
  PROVE  LET x == StartPicture(w, p) IN FadeCore(x) /\ \A S : SoundIn(w, S) => SoundIn(x, S)
<1> DEFINE x == StartPicture(w, p)
           v == w.next
<1>0. x \in Worlds /\ StartedIn(w, x, p)
  BY StartIs
<1> HIDE DEF x
<1>1. /\ x \in Worlds /\ x.fade = w.fade /\ x.past = w.past /\ x.next = v + 1 /\ v \in Voice
      /\ x.pic[p] = [state |-> "running", voice |-> v, waits |-> FALSE]
      /\ x.layer[v] = FreshSlot /\ x.of[v] = p
  BY <1>0 DEF StartedIn
<1>2. /\ \A q \in Picture : q # p => x.pic[q] = w.pic[q]
      /\ \A u \in Voice : u # v => x.layer[u] = w.layer[u] /\ x.of[u] = w.of[u]
  BY <1>0 DEF StartedIn
<1>3. v \in Nat /\ LastVoice \in Nat /\ v # NoVoice /\ \A u \in Voice : u \in Nat
  BY <1>1, Constants DEF Voice
<1>30. ASSUME NEW n \in Nat, n < w.next PROVE n < x.next
  BY <1>1, <1>3, <1>30
<1>4. v = w.next
  OBVIOUS
<1> HIDE DEF v
<1>5. \A u \in Voice : Live(w, u) \/ w.layer[u].on \/ w.layer[u].link.is => u # v
  BY <1>3, <1>4 DEF FadeCore, VoicesIn, LinksIn, Live
<1>6. \A u \in Voice : u # v => (Live(x, u) <=> Live(w, u))
  BY <1>2 DEF Live
<1>7. Live(x, v)
  BY <1>1, FreshIs DEF Live
<1>8. PicsIn(x)
  <2> SUFFICES ASSUME NEW q \in Picture
               PROVE  /\ x.pic[q].state = "standby" \/ x.pic[q].waits => x.pic[q].voice = NoVoice
                      /\ x.pic[q].state = "standby" => ~x.pic[q].waits
                      /\ x.pic[q].voice # NoVoice => x.pic[q].voice < x.next /\ x.of[x.pic[q].voice] = q
                      /\ OnSlot(x, x.pic[q].voice) => Live(x, x.pic[q].voice)
    BY DEF PicsIn
  <2>1. CASE q = p
    BY <1>1, <1>3, <1>7, <2>1
  <2>2. CASE q # p
    <3>1. /\ w.pic[q].state = "standby" \/ w.pic[q].waits => w.pic[q].voice = NoVoice
          /\ w.pic[q].state = "standby" => ~w.pic[q].waits
          /\ w.pic[q].voice # NoVoice => w.pic[q].voice < w.next /\ w.of[w.pic[q].voice] = q
          /\ OnSlot(w, w.pic[q].voice) => Live(w, w.pic[q].voice)
      BY DEF FadeCore, PicsIn
    <3>2. w.pic[q].voice \in Voices /\ (w.pic[q].voice # NoVoice => w.pic[q].voice \in Voice)
          /\ w.pic[q].voice \in Nat
      BY PicIs, Constants DEF Voices
    <3>3. x.pic[q] = w.pic[q]
      BY <1>2, <2>2
    <3>4. w.pic[q].voice # NoVoice => w.pic[q].voice # v
      BY <1>3, <1>4, <3>1, <3>2
    <3>5. w.pic[q].voice # NoVoice => w.pic[q].voice < x.next
      BY <1>1, <1>3, <1>4, <3>1, <3>2
    <3>6. OnSlot(x, w.pic[q].voice) => Live(x, w.pic[q].voice)
      BY <1>2, <1>6, <3>1, <3>2, <3>4 DEF OnSlot
    <3> QED
      BY <1>2, <3>1, <3>2, <3>3, <3>4, <3>5, <3>6
  <2> QED
    BY <2>1, <2>2
<1>9. VoicesIn(x)
  <2> SUFFICES ASSUME NEW u \in Voice
               PROVE  /\ x.layer[u].on \/ x.layer[u] = Gone
                      /\ x.layer[u].on => u < x.next
                      /\ Live(x, u) => x.of[u] \in Picture /\ x.pic[x.of[u]].voice = u
    BY DEF VoicesIn
  <2>1. CASE u = v
    BY <1>1, <1>3, <2>1, FreshIs
  <2>2. CASE u # v
    <3>1. /\ w.layer[u].on \/ w.layer[u] = Gone
          /\ w.layer[u].on => u < w.next
          /\ Live(w, u) => w.of[u] \in Picture /\ w.pic[w.of[u]].voice = u
      BY DEF FadeCore, VoicesIn
    <3>2. x.layer[u].on => u < x.next
      BY <1>2, <1>3, <1>30, <2>2, <3>1
    <3>3. Live(w, u) => w.of[u] # p
      BY <3>1, Constants
    <3> QED
      BY <1>2, <1>6, <2>2, <3>1, <3>2, <3>3
  <2> QED
    BY <2>1, <2>2
<1>10. LinksIn(x)
  BY <1>1, <1>2, <1>6, FreshIs, NoLinkIs DEF FadeCore, LinksIn
<1>11. \A f \in Fades : Linked(w, f) => Incoming(w, f) \in Voice /\ Incoming(w, f) # v
  BY <1>3, <1>4, IncomingIs DEF FadeCore, CrossIn
<1>12. CrossIn(x)
  <2> SUFFICES ASSUME NEW f \in Fades PROVE CrossOf(x, f)
    BY DEF CrossIn
  <2>1. CrossOf(w, f)
    BY DEF FadeCore, CrossIn
  <2>2. Linked(w, f) => Incoming(w, f) < x.next /\ x.of[Incoming(w, f)] = w.of[Incoming(w, f)]
    BY <1>2, <1>3, <1>11, <1>30, <2>1 DEF CrossOf, Linked, Incoming
  <2> QED
    BY <1>1, <2>1, <2>2 DEF CrossOf, Linked, Incoming
<1>13. AloneIn(x)
  <2>1. \A u \in Voice : x.layer[u].link.is => u # v /\ w.layer[u].link.is
    BY <1>1, <1>2, FreshIs, NoLinkIs
  <2> QED
    BY <1>1, <1>2, <2>1 DEF FadeCore, AloneIn, AloneOf, Linked, Incoming
<1>14. StepIn(x)
  <2> SUFFICES ASSUME NEW f \in Fades PROVE StepOf(x, f)
    BY DEF StepIn
  <2>1. StepOf(w, f)
    BY DEF FadeCore, StepIn
  <2>2. Linked(w, f) => LET u == Incoming(w, f) IN /\ x.layer[u].link = w.layer[u].link
                                                   /\ Live(x, u) => Live(w, u)
    BY <1>2, <1>6, <1>11
  <2> QED
    BY <1>1, <2>1, <2>2, StepSame
<1>15. DoneIn(x)
  <2>1. \A f \in Fades : Linked(w, f) => LET u == Incoming(w, f) IN
          x.layer[u].gain = w.layer[u].gain /\ (Live(x, u) => Live(w, u))
    BY <1>2, <1>6, <1>11
  <2>2. Excused(x) = Excused(w)
    BY <1>1 DEF Excused
  <2> QED
    BY <1>1, <2>1, <2>2 DEF FadeCore, DoneIn, DoneOf, Linked, Incoming
<1>16. DimIn(x)
  <2> SUFFICES ASSUME NEW u \in Voice, Live(x, u), x.layer[u].shown, x.layer[u].opacity # "full"
               PROVE  \/ u \in x.past.faded \cup x.past.dim \cup x.past.spent
                      \/ x.layer[u].link.is /\ ~Mixes(x.layer[u].link)
                      \/ \E t \in Voice : \E o \in x.layer[t].link.out : o.voice = u /\ o.apart
    BY DEF DimIn
  <2>1. u # v
    BY <1>1, FreshIs
  <2>2. \/ u \in w.past.faded \cup w.past.dim \cup w.past.spent
        \/ w.layer[u].link.is /\ ~Mixes(w.layer[u].link)
        \/ \E t \in Voice : \E o \in w.layer[t].link.out : o.voice = u /\ o.apart
    BY <1>2, <1>6, <2>1 DEF FadeCore, DimIn
  <2>3. \A t \in Voice : \A o \in w.layer[t].link.out : o \in x.layer[t].link.out
    <3>1. w.layer[v].link.out = {}
      BY <1>1, <1>5, NoLinkIs DEF FadeCore, LinksIn, ClockIn
    <3> QED
      BY <1>2, <3>1
  <2> QED
    BY <1>1, <1>2, <2>1, <2>2, <2>3
<1>17. ASSUME NEW S, SoundIn(w, S) PROVE SoundIn(x, S)
  <2> SUFFICES ASSUME NEW u \in Voice, Live(x, u), x.layer[u].gain # "full"
               PROVE  \/ \E f \in Fades : OwnerOf(x, f, u)
                      \/ u \in Excused(x)
                      \/ \E f \in S : AgainOf(x, f, u)
    BY DEF SoundIn
  <2>1. u # v
    BY <1>1, FreshIs
  <2>2. \/ \E f \in Fades : OwnerOf(w, f, u)
        \/ u \in Excused(w)
        \/ \E f \in S : AgainOf(w, f, u)
    BY <1>2, <1>6, <1>17, <2>1 DEF SoundIn
  <2>3. x.fade = w.fade /\ x.of[u] = w.of[u] /\ Excused(x) = Excused(w)
    BY <1>1, <1>2, <2>1 DEF Excused
  <2> QED
    BY <2>2, <2>3 DEF OwnerOf, AgainOf, Linked, Incoming
<1>18. FadeCore(x)
  BY <1>8, <1>9, <1>10, <1>12, <1>13, <1>14, <1>15, <1>16 DEF FadeCore
<1> QED
  BY <1>17, <1>18 DEF x

\* Nor does a picture that waits, or waits no longer.
LEMMA PicPutKeeps ==
  ASSUME NEW w \in Worlds, NEW x \in Worlds, FadeCore(w), x.fade = w.fade, x.layer = w.layer, x.of = w.of,
         x.past = w.past, x.next = w.next \/ x.next = w.next + 1,
         \A q \in Picture : /\ x.pic[q].voice = w.pic[q].voice
                            /\ x.pic[q].state = "standby" \/ x.pic[q].waits => x.pic[q].voice = NoVoice
                            /\ x.pic[q].state = "standby" => ~x.pic[q].waits
  PROVE  FadeCore(x) /\ (HistIn(w) => HistIn(x)) /\ \A S : SoundIn(w, S) => SoundIn(x, S)
<1>0. ASSUME NEW n \in Voices, n < w.next PROVE n < x.next
  BY <1>0, WorldIs, Constants DEF Voices
<1>1. PicsIn(x)
  <2>1. \A q \in Picture : w.pic[q].voice \in Voices
    BY PicIs
  <2> QED
    BY <1>0, <2>1 DEF FadeCore, PicsIn, OnSlot, Live
<1>2. VoicesIn(x)
  BY <1>0, Constants DEF FadeCore, VoicesIn, Live
<1>3. LinksIn(x) /\ AloneIn(x) /\ DimIn(x)
  BY DEF FadeCore, LinksIn, AloneIn, AloneOf, DimIn, Live, Linked, Incoming
<1>4. CrossIn(x)
  <2>1. \A f \in Fades : w.fade[f].cross.voice \in Voices
    BY FadeIs
  <2> QED
    BY <1>0, <2>1 DEF FadeCore, CrossIn, CrossOf
<1>5. StepIn(x)
  BY DEF FadeCore, StepIn, StepOf, Live, Linked, Incoming
<1>6. DoneIn(x)
  BY DEF FadeCore, DoneIn, DoneOf, Live, Linked, Incoming, Excused
<1>7. HistIn(w) => HistIn(x)
  BY DEF HistIn, Dulled, Incoming
<1>8. \A S : SoundIn(w, S) => SoundIn(x, S)
  BY DEF SoundIn, Excused, Live, Linked, Incoming, OwnerOf, AgainOf
<1> QED
  BY <1>1, <1>2, <1>3, <1>4, <1>5, <1>6, <1>7, <1>8 DEF FadeCore

\* The GO of a picture.
LEMMA GoPictureKeeps ==
  ASSUME NEW w \in Worlds, NEW p \in Picture, NEW ok, FadeCore(w)
  PROVE  LET x == GoPicture(w, p, ok) IN
         /\ x \in Worlds /\ FadeCore(x) /\ (\A S : SoundIn(w, S) => SoundIn(x, S))
         /\ x.fade = w.fade /\ x.past = w.past
         /\ w.pic[p].state # "running" =>
              x.pic[p].voice = NoVoice \/ x.layer[x.pic[p].voice].link = NoLink
<1> DEFINE x == GoPicture(w, p, ok)
<1>1. CASE w.pic[p].state = "running"
  <2>1. x = w
    BY <1>1 DEF GoPicture
  <2> QED
    BY <1>1, <2>1
<1>2. CASE w.pic[p].state # "running" /\ p \in Slow
  <2> DEFINE r == [w.pic[p] EXCEPT !.state = "running", !.waits = TRUE]
  <2>1. w.pic[p].voice = NoVoice
    BY <1>2, PicIs DEF FadeCore, PicsIn
  <2>2. r \in PicRecords /\ r.state = "running" /\ r.voice = NoVoice
    BY <2>1, PicIs DEF PicRecords
  <2>3. x = [w EXCEPT !.pic[p] = r]
    BY <1>2 DEF GoPicture
  <2> HIDE DEF r, x
  <2>4. /\ x \in Worlds /\ x.fade = w.fade /\ x.pic = [w.pic EXCEPT ![p] = r] /\ x.layer = w.layer
        /\ x.next = w.next /\ x.of = w.of /\ x.past = w.past
    BY <2>2, <2>3, PutPic
  <2>5. x.pic[p] = r /\ \A q \in Picture : q # p => x.pic[q] = w.pic[q]
    BY <2>4, WorldIs
  <2>6. \A q \in Picture : /\ x.pic[q].voice = w.pic[q].voice
                           /\ x.pic[q].state = "standby" \/ x.pic[q].waits => x.pic[q].voice = NoVoice
                           /\ x.pic[q].state = "standby" => ~x.pic[q].waits
    BY <2>1, <2>2, <2>5 DEF FadeCore, PicsIn
  <2>7. FadeCore(x) /\ \A S : SoundIn(w, S) => SoundIn(x, S)
    BY <2>4, <2>6, PicPutKeeps
  <2> QED
    BY <2>1, <2>4, <2>6, <2>7 DEF x
<1>3. CASE w.pic[p].state # "running" /\ p \notin Slow /\ p \in ok /\ w.next <= LastVoice
  <2>1. x = StartPicture(w, p)
    BY <1>3 DEF GoPicture
  <2>2. w.pic[p].voice = NoVoice
    BY <1>3, PicIs DEF FadeCore, PicsIn
  <2>3. x \in Worlds /\ StartedIn(w, x, p)
    BY <1>3, <2>1, StartIs
  <2>4. FadeCore(x) /\ \A S : SoundIn(w, S) => SoundIn(x, S)
    BY <1>3, <2>1, <2>2, StartKeeps
  <2> HIDE DEF x
  <2>5. x.fade = w.fade /\ x.past = w.past /\ x.pic[p].voice = w.next /\ x.layer[w.next].link = NoLink
    BY <2>3, FreshIs DEF StartedIn
  <2> QED
    BY <2>3, <2>4, <2>5 DEF x
<1>4. CASE w.pic[p].state # "running" /\ p \notin Slow /\ ~(p \in ok /\ w.next <= LastVoice)
  <2>1. x = w
    BY <1>4 DEF GoPicture
  <2>2. w.pic[p].voice = NoVoice
    BY <1>4, PicIs DEF FadeCore, PicsIn
  <2> QED
    BY <2>1, <2>2
<1> QED
  BY <1>1, <1>2, <1>3, <1>4
---------------------------------------------------------------------------
(***************************************************************************)
(* A Fade asks for its crossfade, gives it up, or links it.                 *)
(***************************************************************************)
LEMMA PlainCross ==
  /\ Plain \in Crosses /\ Plain.is = "none" /\ ~Plain.started
  /\ \A b \in BOOLEAN : Pending(b) \in Crosses /\ Pending(b).is = "pending" /\ Pending(b).started = b
<1>1. Plain \in Crosses /\ Plain.is = "none" /\ ~Plain.started
  BY Constants DEF Plain, Crosses, Level
<1>2. ASSUME NEW b \in BOOLEAN
      PROVE  Pending(b) \in Crosses /\ Pending(b).is = "pending" /\ Pending(b).started = b
  BY <1>1 DEF Crosses, Pending
<1> QED
  BY <1>1, <1>2

\* Nothing changes but a Fade.
FadeAlone(w, x, f) == /\ x \in Worlds /\ x.layer = w.layer /\ SameRest(w, x) /\ OnlyFade(w, x, f)
                      /\ x.past = w.past

\* One Fade changes,
LEMMA FadeAloneIs ==
  ASSUME NEW w \in Worlds, NEW f \in Fades, NEW r \in FadeRecords
  PROVE  FadeAlone(w, WithFade(w, f, r), f) /\ WithFade(w, f, r).fade[f] = r
BY FadePutIs DEF FadeAlone, WithFade

\* and changes again.
LEMMA FadeAloneTwice ==
  ASSUME NEW w, NEW x, NEW y, NEW f \in Fades, FadeAlone(w, x, f), FadeAlone(x, y, f)
  PROVE  FadeAlone(w, y, f)
BY DEF FadeAlone, SameRest, OnlyFade

\* set_crossfade changes one Fade.
LEMMA SetCrossIs ==
  ASSUME NEW w \in Worlds, NEW f \in Fades, NEW c \in Crosses
  PROVE  LET x == SetCrossfade(w, f, c) IN FadeAlone(w, x, f) /\ x.fade[f] = WithCross(w.fade[f], c)
<1>1. WithCross(w.fade[f], c) \in FadeRecords
  BY FadeIs, CrossedIs
<1>2. SetCrossfade(w, f, c) = WithFade(w, f, WithCross(w.fade[f], c))
  BY DEF SetCrossfade, WithFade
<1> QED
  BY <1>1, <1>2, FadeAloneIs

\* The same Fade, with other targets.
Retargeted(r, s) == /\ s.state = r.state /\ s.waits = r.waits /\ s.clock = r.clock /\ s.runs = r.runs
                    /\ s.awaiting = r.awaiting /\ s.done = r.done /\ s.cross = r.cross

\* set_plain_fade changes what that Fade moves itself.
LEMMA SetPlainIs ==
  ASSUME NEW w \in Worlds, NEW f \in Fades, NEW skip
  PROVE  LET x == SetPlainFade(w, f, skip) IN FadeAlone(w, x, f) /\ Retargeted(w.fade[f], x.fade[f])
<1> DEFINE ts == { [voice |-> w.pic[p].voice, gain |-> w.layer[w.pic[p].voice].gain,
                    opacity |-> w.layer[w.pic[p].voice].opacity] :
                   p \in { q \in Plan[f].targets \ skip : w.pic[q].voice # NoVoice } }
           r == [w.fade[f] EXCEPT !.targets = ts]
           x == SetPlainFade(w, f, skip)
<1>1. ts \subseteq [voice : Voice, gain : Level, opacity : Level]
  <2> SUFFICES ASSUME NEW p \in Plan[f].targets, w.pic[p].voice # NoVoice
               PROVE  [voice |-> w.pic[p].voice, gain |-> w.layer[w.pic[p].voice].gain,
                       opacity |-> w.layer[w.pic[p].voice].opacity]
                         \in [voice : Voice, gain : Level, opacity : Level]
    OBVIOUS
  <2>1. p \in Picture
    BY Constants
  <2>2. w.pic[p].voice \in Voice
    BY <2>1, PicIs, Constants
  <2> QED
    BY <2>2, LayerIs
<1>2. x = WithFade(w, f, r)
  BY DEF SetPlainFade, WithFade
<1> HIDE DEF ts
<1>3. r \in FadeRecords /\ Retargeted(w.fade[f], r)
  BY <1>1, FadeIs DEF FadeRecords, Retargeted
<1> HIDE DEF r, x
<1>4. FadeAlone(w, x, f) /\ x.fade[f] = r
  BY <1>2, <1>3, FadeAloneIs
<1> QED
  BY <1>3, <1>4 DEF x

\* A Fade that is not linked, or no more, has the sound of no picture in hand.
LEMMA UnlinkedKeeps ==
  ASSUME NEW w \in Worlds, NEW x \in Worlds, NEW f \in Fades, NEW S \in SUBSET Fades, NEW T,
         FadeCore(w), SoundIn(w, S), FadeAlone(w, x, f), ~Linked(x, f), CrossOf(x, f), AloneOf(x, f),
         \A g \in S : g = f \/ g \in T,
         \A v \in Voice : Live(w, v) /\ w.layer[v].gain # "full"
                          /\ (OwnerOf(w, f, v) \/ (f \in S /\ AgainOf(w, f, v)))
                            => v \in Excused(w) \/ (f \in T /\ AgainOf(x, f, v))
  PROVE  FadeCore(x) /\ SoundIn(x, T)
<1>1. /\ x.layer = w.layer /\ SameRest(w, x) /\ OnlyFade(w, x, f) /\ x.past = w.past /\ x.of = w.of
  BY DEF FadeAlone, SameRest
<1>2. Grows(w, x) /\ Excused(w) = Excused(x)
  BY <1>1 DEF Grows, Excused
<1>3. OneIn(x, f)
  BY DEF OneIn, StepOf, DoneOf
<1>4. FadeCore(x)
  BY <1>1, <1>2, <1>3, FadeOnlyCore
<1>5. SoundIn(x, T)
  <2>1. \A v \in Voice : Live(x, v) <=> Live(w, v)
    BY <1>1 DEF Live
  <2>2. \A v \in Voice : Live(x, v) /\ x.layer[v].gain # "full" =>
           \/ v \in Excused(x) \/ (\E g \in Fades : OwnerOf(x, g, v)) \/ (\E g \in T : AgainOf(x, g, v))
           \/ /\ Live(w, v) /\ w.layer[v].gain # "full"
              /\ ~OwnerOf(w, f, v) /\ (f \in S => ~AgainOf(w, f, v))
    BY <1>1, <1>2, <2>1
  <2> QED
    BY <1>1, <1>2, <2>2, SoundOnlyFade
<1> QED
  BY <1>4, <1>5

\* A crossfade that is given up.
LEMMA GiveUpKeeps ==
  ASSUME NEW w \in Worlds, NEW f \in Fades, NEW S \in SUBSET Fades, NEW T, FadeCore(w), SoundIn(w, S),
         w.fade[f].cross.is = "pending", \A g \in S : g = f \/ g \in T,
         \A v \in Voice : Live(w, v) => ~AgainOf(w, f, v)
  PROVE  LET x == GiveUp(w, f) IN x \in Worlds /\ FadeCore(x) /\ SoundIn(x, T)
<1> DEFINE y == SetPlainFade(w, f, {Plan[f].into})
           x == SetCrossfade(y, f, Plain)
<1>1. FadeAlone(w, y, f) /\ Retargeted(w.fade[f], y.fade[f])
  BY SetPlainIs
<1>2. y \in Worlds
  BY <1>1 DEF FadeAlone
<1> HIDE DEF y
<1>3. FadeAlone(y, x, f) /\ x.fade[f] = WithCross(y.fade[f], Plain)
  BY <1>2, PlainCross, SetCrossIs
<1> HIDE DEF x
<1>4. FadeAlone(w, x, f) /\ x \in Worlds
  BY <1>1, <1>3, FadeAloneTwice DEF FadeAlone
<1>5. /\ x.fade[f].waits = w.fade[f].waits /\ x.fade[f].done = w.fade[f].done
      /\ x.fade[f].cross = Plain /\ ~x.fade[f].awaiting
  <2>1. y.fade[f] \in FadeRecords
    BY <1>2, FadeIs
  <2>2. LET h == WithCross(y.fade[f], Plain) IN
        h.waits = y.fade[f].waits /\ h.done = y.fade[f].done /\ h.cross = Plain /\ ~h.awaiting
    BY <2>1, PlainCross, CrossedIs
  <2> QED
    BY <1>1, <1>3, <2>2 DEF Retargeted
<1>6. CrossOf(w, f)
  BY DEF FadeCore, CrossIn
<1>7. CrossOf(x, f) /\ ~Linked(x, f) /\ AloneOf(x, f)
  BY <1>5, <1>6, PlainCross DEF CrossOf, Linked, AloneOf
<1>8. \A v \in Voice : ~OwnerOf(w, f, v)
  BY DEF OwnerOf, Linked
<1>9. FadeCore(x) /\ SoundIn(x, T)
  <2>1. \A v \in Voice : Live(w, v) /\ w.layer[v].gain # "full"
                          /\ (OwnerOf(w, f, v) \/ (f \in S /\ AgainOf(w, f, v)))
                            => v \in Excused(w) \/ (f \in T /\ AgainOf(x, f, v))
    BY <1>8
  <2> QED
    BY <1>4, <1>7, <2>1, UnlinkedKeeps
<1>10. GiveUp(w, f) = x
  BY DEF GiveUp, x, y
<1> QED
  BY <1>4, <1>9, <1>10
\* The incoming picture gets its link, and its sound is taken away.
NewLink(l) == /\ l \in Links /\ l.is /\ ClockIn(l) /\ ~l.paused /\ l.done = 0 /\ l.since = 0
Silent(w, x, v) ==
  LET m == x.layer[v] IN
  /\ \A u \in Voice : u # v => x.layer[u] = w.layer[u]
  /\ m.on = w.layer[v].on /\ m.shown = w.layer[v].shown /\ m.stopping = w.layer[v].stopping
  /\ NewLink(m.link) /\ (m.shown => m.link.revealed) /\ \A o \in m.link.out : o.voice # v
  /\ m.shown /\ m.opacity # "full" => ~Mixes(m.link)

\* The clock of a link at the first frame.
LEMMA RevealIs ==
  ASSUME NEW l \in Links, ClockIn(l), l.is
  PROVE  LET r == ClockReveal(l) IN
         /\ r \in Links /\ ClockIn(r) /\ r.is /\ r.revealed /\ r.out = l.out /\ r.paused = l.paused
         /\ r.done = l.done /\ r.since = l.since
         /\ (l.started => r = l) /\ (r.started /\ ~l.started => ~l.paused /\ l.done = 0 /\ l.since = 0)
BY LinkIs DEF Links, ClockIn, ClockReveal, RunClock

\* link_crossfade gives the incoming slot a new link.
LEMMA LinkCrossIs ==
  ASSUME NEW w \in Worlds, NEW v \in Voice, NEW voices \in SUBSET Voices, w.layer[v].link = NoLink
  PROVE  LET x == [LinkCrossfade(w, v, voices) EXCEPT !.layer[v].gain = "none"] IN
         x \in Worlds /\ OnlyLayers(w, x) /\ Silent(w, x, v)
<1> DEFINE out == { [voice |-> u, from |-> w.layer[u].opacity,
                     apart |-> Screen[w.of[u]] # Screen[w.of[v]]] :
                    u \in { u \in voices \ {v} : OnSlot(w, u) } }
           new == [NoLink EXCEPT !.is = TRUE, !.out = out]
           s == w.layer[v]
           l == IF s.shown THEN ClockReveal(new) ELSE new
           o == IF ~s.shown THEN s.opacity ELSE IF Mixes(new) THEN "full" ELSE "none"
           m == [s EXCEPT !.link = l, !.opacity = o]
           y == LinkCrossfade(w, v, voices)
           n == [m EXCEPT !.gain = "none"]
           x == [y EXCEPT !.layer[v].gain = "none"]
<1>1. out \subseteq Outs /\ \A e \in out : e.voice # v
  <2> SUFFICES ASSUME NEW u \in voices, u # v, OnSlot(w, u)
               PROVE  [voice |-> u, from |-> w.layer[u].opacity,
                       apart |-> Screen[w.of[u]] # Screen[w.of[v]]] \in Outs
    OBVIOUS
  <2>1. u \in Voice
    BY OnSlotIs
  <2>2. w.layer[u].opacity \in Level /\ (Screen[w.of[u]] # Screen[w.of[v]]) \in BOOLEAN
    BY <2>1, LayerIs
  <2> QED
    BY <2>1, <2>2 DEF Outs
<1>2. y = Abandoned([w EXCEPT !.layer[v] = m], s.link)
  BY DEF LinkCrossfade
<1>3. y = [w EXCEPT !.layer[v] = m]
  <2> HIDE DEF m
  <2> QED
    BY <1>2, NoLinkIs DEF Abandoned
<1> HIDE DEF out
<1>4. new \in Links /\ ClockIn(new) /\ new.is /\ ~new.paused /\ new.done = 0 /\ new.since = 0 /\ new.out = out
  BY <1>1, NoLinkIs, Constants DEF NoLink, Links, ClockIn
<1> HIDE DEF new
<1>5. NewLink(l) /\ (s.shown => l.revealed) /\ l.out = out
  BY <1>4, RevealIs DEF NewLink
<1>6. o \in Level /\ s \in Layers
  BY LayerIs DEF Level
<1>7. s.shown /\ o # "full" => ~Mixes(l)
  BY <1>4, <1>5 DEF Mixes
<1> HIDE DEF l, o
<1>8. s.on \in BOOLEAN /\ s.shown \in BOOLEAN /\ s.stopping \in BOOLEAN /\ s.gain \in Level
  BY LayerIs
<1> HIDE DEF s
<1>9. /\ m \in Layers /\ m.on = s.on /\ m.shown = s.shown /\ m.stopping = s.stopping
      /\ m.link = l /\ m.opacity = o
  BY <1>5, <1>6, <1>8 DEF Layers, NewLink
<1>10. /\ n \in Layers /\ n.on = s.on /\ n.shown = s.shown /\ n.stopping = s.stopping
       /\ n.link = l /\ n.opacity = o
  <2> HIDE DEF m
  <2> QED
    BY <1>9 DEF Layers, Level
<1> HIDE DEF m
<1>11. /\ y \in Worlds /\ y.fade = w.fade /\ y.pic = w.pic /\ y.layer = [w.layer EXCEPT ![v] = m]
       /\ y.next = w.next /\ y.of = w.of /\ y.past = w.past
  <2> HIDE DEF y
  <2> QED
    BY <1>3, <1>9, PutLayer
<1>12. y.layer[v] = m
  <2> HIDE DEF y
  <2> QED
    BY <1>11, WorldIs
<1>13. x = [y EXCEPT !.layer[v] = n]
  <2> HIDE DEF y
  <2> QED
    BY <1>12
<1> HIDE DEF n
<1>14. /\ x \in Worlds /\ x.fade = y.fade /\ x.pic = y.pic /\ x.layer = [y.layer EXCEPT ![v] = n]
       /\ x.next = y.next /\ x.of = y.of /\ x.past = y.past
  <2> HIDE DEF y, x
  <2> QED
    BY <1>10, <1>11, <1>13, PutLayer
<1> HIDE DEF x, y
<1>15. x.layer[v] = n /\ \A u \in Voice : u # v => x.layer[u] = w.layer[u]
  BY <1>11, <1>14, WorldIs
<1>16. Silent(w, x, v)
  BY <1>1, <1>5, <1>7, <1>10, <1>15 DEF Silent, s
<1>17. OnlyLayers(w, x)
  BY <1>11, <1>14 DEF OnlyLayers
<1> QED
  BY <1>14, <1>16, <1>17 DEF x, y

\* A Fade with the link it just made keeps the invariant,
LEMMA LinkedCore ==
  ASSUME OneFadeEach, NEW w \in Worlds, NEW x \in Worlds, NEW f \in Fades, NEW v \in Voice,
         NEW S \in SUBSET Fades, NEW T, FadeCore(w), SoundIn(w, S), \A g \in S : g = f \/ g \in T,
         Plan[f].into \in Picture, w.pic[Plan[f].into].voice = v, w.layer[v].on, w.layer[v].link = NoLink,
         w.fade[f].cross.is = "pending", w.fade[f].state = "running", ~w.fade[f].waits,
         SameRest(w, x), OnlyFade(w, x, f), x.past = w.past, Silent(w, x, v),
         Linked(x, f), Incoming(x, f) = v, x.fade[f].state = "running", ~x.fade[f].waits,
         x.fade[f].awaiting, ~x.fade[f].runs, ~x.fade[f].done, x.fade[f].clock = 0
  PROVE  FadeCore(x) /\ SoundIn(x, T)
<1> DEFINE p == Plan[f].into
           l == x.layer[v].link
<1>1. /\ \A u \in Voice : u # v => x.layer[u] = w.layer[u]
      /\ x.layer[v].on = w.layer[v].on /\ x.layer[v].shown = w.layer[v].shown
      /\ x.layer[v].stopping = w.layer[v].stopping
      /\ NewLink(l) /\ (x.layer[v].shown => l.revealed) /\ \A o \in l.out : o.voice # v
      /\ x.layer[v].shown /\ x.layer[v].opacity # "full" => ~Mixes(l)
  BY DEF Silent
<1>2. Live(w, v) /\ w.of[v] = p /\ v < w.next /\ v # NoVoice
  BY Constants, OnSlotIs DEF FadeCore, PicsIn
<1>3. \A u \in Voice : Live(x, u) <=> Live(w, u)
  BY <1>1 DEF Live
<1>4. \A u \in Voice : x.layer[u].on = w.layer[u].on /\ x.layer[u].shown = w.layer[u].shown
  BY <1>1
<1>5. \A u \in Voice : Live(w, u) /\ w.of[u] = p => u = v
  BY DEF FadeCore, VoicesIn
<1>6. Grows(w, x) /\ Excused(x) = Excused(w) /\ x.of = w.of /\ x.next = w.next
  BY DEF Grows, Excused, SameRest
<1>7. w.layer[v].link.out = {} /\ ~w.layer[v].link.is
  BY NoLinkIs
<1> HIDE DEF l, p
<1>8. PicsIn(x)
  <2>1. x.next = w.next /\ x.of = w.of /\ x.pic = w.pic /\ PicsIn(w)
    BY DEF FadeCore, SameRest
  <2>2. ASSUME NEW q \in Picture, x.pic[q].voice \in Voice, x.layer[x.pic[q].voice].on
        PROVE  w.layer[x.pic[q].voice].on /\ (Live(w, x.pic[q].voice) => Live(x, x.pic[q].voice))
    BY <1>3, <1>4, <2>2
  <2> QED
    BY <2>1, <2>2, PicsSame
<1>9. VoicesIn(x)
  <2>1. \A u \in Voice : x.layer[u].on \/ x.layer[u] = Gone
    BY <1>1 DEF FadeCore, VoicesIn
  <2> QED
    BY <1>3, <1>4, <2>1 DEF FadeCore, VoicesIn, SameRest
<1>10. LinksIn(x)
  <2> SUFFICES ASSUME NEW u \in Voice
               PROVE  /\ ClockIn(x.layer[u].link)
                      /\ x.layer[u].link.is => Live(x, u) /\ (x.layer[u].shown => x.layer[u].link.revealed)
                      /\ \A o \in x.layer[u].link.out : o.voice # u
    BY DEF LinksIn
  <2>1. CASE u = v
    BY <1>1, <1>2, <1>3, <2>1 DEF NewLink, l
  <2>2. CASE u # v
    <3>1. x.layer[u] = w.layer[u] /\ (Live(x, u) <=> Live(w, u))
      BY <1>1, <1>3, <2>2
    <3> QED
      BY <3>1 DEF FadeCore, LinksIn
  <2> QED
    BY <2>1, <2>2
<1>11. DimIn(x)
  <2> SUFFICES ASSUME NEW u \in Voice, Live(x, u), x.layer[u].shown, x.layer[u].opacity # "full"
               PROVE  \/ u \in x.past.faded \cup x.past.dim \cup x.past.spent
                      \/ x.layer[u].link.is /\ ~Mixes(x.layer[u].link)
                      \/ \E t \in Voice : \E o \in x.layer[t].link.out : o.voice = u /\ o.apart
    BY DEF DimIn
  <2>1. CASE u = v
    BY <1>1, <2>1 DEF NewLink, l
  <2>2. CASE u # v
    <3>1. \/ u \in w.past.faded \cup w.past.dim \cup w.past.spent
          \/ w.layer[u].link.is /\ ~Mixes(w.layer[u].link)
          \/ \E t \in Voice : \E o \in w.layer[t].link.out : o.voice = u /\ o.apart
      BY <1>1, <1>3, <2>2 DEF FadeCore, DimIn
    <3>2. \A t \in Voice : \A o \in w.layer[t].link.out : o \in x.layer[t].link.out
      BY <1>1, <1>7
    <3> QED
      BY <1>1, <2>2, <3>1, <3>2
  <2> QED
    BY <2>1, <2>2
<1>12. ASSUME NEW g \in Fades, g # f PROVE OneIn(x, g)
  <2>1. x.fade[g] = w.fade[g]
    BY <1>12 DEF OnlyFade
  <2>2. CrossOf(w, g) /\ AloneOf(w, g) /\ StepOf(w, g) /\ DoneOf(w, g)
    BY DEF FadeCore, CrossIn, AloneIn, StepIn, DoneIn
  <2>3. CrossOf(x, g)
    BY <1>6, <2>1, <2>2 DEF CrossOf
  <2>4. Plan[g].into # p
    BY <1>12, Constants DEF OneFadeEach, p
  <2>5. AloneOf(x, g)
    <3>1. \A u \in Voice : x.of[u] = Plan[g].into /\ x.layer[u].link.is => w.layer[u].link.is
      BY <1>1, <1>2, <1>6, <2>4
    <3> QED
      BY <1>6, <2>1, <2>2, <3>1 DEF AloneOf, Linked, Incoming
  <2>6. Linked(w, g) => Incoming(w, g) \in Voice /\ Incoming(w, g) # v
    BY <1>2, <2>2, <2>4, IncomingIs
  <2>7. StepOf(x, g)
    <3>1. w.past.late \subseteq x.past.late
      BY <1>6, GrowsIs
    <3>2. Linked(w, g) => /\ x.layer[Incoming(w, g)].link = w.layer[Incoming(w, g)].link
                          /\ Live(x, Incoming(w, g)) => Live(w, Incoming(w, g))
      BY <1>1, <1>3, <2>6
    <3> QED
      BY <2>1, <2>2, <3>1, <3>2, StepSame
  <2>8. DoneOf(x, g)
    <3>1. Linked(w, g) => /\ x.layer[Incoming(w, g)].gain = w.layer[Incoming(w, g)].gain
                          /\ Live(x, Incoming(w, g)) => Live(w, Incoming(w, g))
      BY <1>1, <1>3, <2>6
    <3> QED
      BY <1>6, <2>1, <2>2, <3>1 DEF DoneOf, Linked, Incoming
  <2> QED
    BY <2>3, <2>5, <2>7, <2>8 DEF OneIn
<1>13. OneIn(x, f)
  <2>1. CrossOf(x, f)
    BY <1>2, <1>6, Constants DEF CrossOf, Linked, Incoming, p
  <2>2. AloneOf(x, f)
    <3>1. ASSUME NEW u \in Voice, x.of[u] = Plan[f].into, x.layer[u].link.is PROVE u = v
      <4>1. Live(x, u)
        BY <1>10, <3>1 DEF LinksIn
      <4> QED
        BY <1>3, <1>5, <1>6, <3>1, <4>1 DEF p
    <3> QED
      BY <3>1 DEF AloneOf, Linked
  <2>3. StepOf(x, f)
    <3>1. Together(x.fade[f], l, v \in x.past.late)
      BY <1>1 DEF Together, NewLink
    <3> QED
      BY <3>1 DEF StepOf, l
  <2>4. DoneOf(x, f)
    BY DEF DoneOf
  <2> QED
    BY <2>1, <2>2, <2>3, <2>4 DEF OneIn
<1>14. FadeCore(x)
  BY <1>8, <1>9, <1>10, <1>11, <1>12, <1>13 DEF FadeCore, CrossIn, AloneIn, StepIn, DoneIn, OneIn
<1>15. SoundIn(x, T)
  <2>1. OwnerOf(x, f, v)
    BY DEF OwnerOf
  <2>2. \A u \in Voice : u # v /\ Live(w, u) => ~OwnerOf(w, f, u) /\ ~AgainOf(w, f, u)
    BY <1>5 DEF OwnerOf, Linked, AgainOf, p
  <2>3. \A u \in Voice : Live(x, u) /\ x.layer[u].gain # "full" =>
           \/ u \in Excused(x) \/ (\E g \in Fades : OwnerOf(x, g, u)) \/ (\E g \in T : AgainOf(x, g, u))
           \/ /\ Live(w, u) /\ w.layer[u].gain # "full"
              /\ ~OwnerOf(w, f, u) /\ (f \in S => ~AgainOf(w, f, u))
    BY <1>1, <1>3, <2>1, <2>2
  <2> QED
    BY <1>6, <2>3, SoundOnlyFade
<1> QED
  BY <1>14, <1>15

\* and has the sound it brings in.
LEMMA LinkKeeps ==
  ASSUME OneFadeEach, NEW w \in Worlds, NEW f \in Fades, NEW S \in SUBSET Fades, NEW T,
         FadeCore(w), SoundIn(w, S), \A g \in S : g = f \/ g \in T,
         w.fade[f].cross.is = "pending", w.fade[f].state = "running", ~w.fade[f].waits,
         w.pic[Plan[f].into].voice # NoVoice, w.layer[w.pic[Plan[f].into].voice].link = NoLink
  PROVE  LET x == Link(w, f) IN x \in Worlds /\ FadeCore(x) /\ SoundIn(x, T)
<1> DEFINE p == Plan[f].into
           v == w.pic[p].voice
           dissolved == { q \in Plan[f].targets \ {p} : w.pic[q].voice # NoVoice }
           sounds == { [voice |-> w.pic[q].voice, gain |-> w.layer[w.pic[q].voice].gain] :
                       q \in { u \in dissolved : OnSlot(w, w.pic[u].voice) } }
           voices == { w.pic[q].voice : q \in dissolved }
           h == [LinkCrossfade(w, v, voices) EXCEPT !.layer[v].gain = "none"]
           y == SetPlainFade(h, f, dissolved \cup {p})
           c == [is |-> "linked", started |-> TRUE, voice |-> v, level |-> w.layer[v].gain,
                 targets |-> dissolved, sounds |-> sounds]
           x == SetCrossfade(y, f, c)
<1>1. CrossOf(w, f)
  BY DEF FadeCore, CrossIn
<1>2. p \in Picture /\ w.fade[f].awaiting /\ ~w.fade[f].runs /\ ~w.fade[f].done /\ w.fade[f].clock = 0
  BY <1>1, Constants DEF CrossOf
<1>3. v \in Voice /\ v \in Voices
  BY <1>2, PicIs, Constants
<1>4. \A u \in Voice : Live(w, u) /\ AgainOf(w, f, u) => u = v
  BY <1>2 DEF FadeCore, VoicesIn, AgainOf
<1>5. CASE ~OnSlot(w, v)
  <2>1. Link(w, f) = GiveUp(w, f)
    BY <1>5 DEF Link
  <2>2. \A u \in Voice : Live(w, u) => ~AgainOf(w, f, u)
    BY <1>3, <1>4, <1>5, OnSlotIs DEF Live
  <2> QED
    BY <2>1, <2>2, GiveUpKeeps
<1>6. CASE OnSlot(w, v)
  <2>1. Link(w, f) = x
    BY <1>6 DEF Link
  <2>2. dissolved \subseteq Picture
    BY Constants
  <2>3. voices \in SUBSET Voices /\ sounds \in SUBSET [voice : Voice, gain : Level]
    <3>1. ASSUME NEW q \in dissolved PROVE w.pic[q].voice \in Voice
      BY <2>2, PicIs, Constants
    <3> QED
      BY <2>2, <3>1, Constants, LayerIs
  <2> HIDE DEF dissolved, sounds
  <2>4. c \in Crosses /\ c.is = "linked" /\ c.voice = v
    BY <1>3, <2>2, <2>3, LayerIs DEF Crosses
  <2>5. h \in Worlds /\ OnlyLayers(w, h) /\ Silent(w, h, v)
    <3> HIDE DEF voices, v
    <3> QED
      BY <1>3, <2>3, LinkCrossIs DEF v
  <2> HIDE DEF h, c, v
  <2>6. FadeAlone(h, y, f) /\ Retargeted(h.fade[f], y.fade[f])
    BY <2>5, SetPlainIs
  <2> HIDE DEF y
  <2>7. y \in Worlds
    BY <2>6 DEF FadeAlone
  <2>8. FadeAlone(y, x, f) /\ x.fade[f] = WithCross(y.fade[f], c)
    BY <2>4, <2>7, SetCrossIs
  <2> HIDE DEF x
  <2>9. FadeAlone(h, x, f)
    BY <2>6, <2>8, FadeAloneTwice
  <2>10. /\ x \in Worlds /\ SameRest(w, x) /\ OnlyFade(w, x, f) /\ x.past = w.past /\ Silent(w, x, v)
    BY <2>5, <2>9 DEF FadeAlone, OnlyLayers, SameRest, OnlyFade, Silent
  <2>11. /\ Linked(x, f) /\ Incoming(x, f) = v /\ x.fade[f].state = "running" /\ ~x.fade[f].waits
         /\ x.fade[f].awaiting /\ ~x.fade[f].runs /\ ~x.fade[f].done /\ x.fade[f].clock = 0
    <3> DEFINE r == y.fade[f]
    <3>1. /\ r \in FadeRecords /\ r.state = "running" /\ ~r.waits /\ r.awaiting /\ ~r.runs /\ ~r.done
          /\ r.clock = 0
      BY <1>2, <2>5, <2>6, <2>7, FadeIs DEF Retargeted, OnlyLayers
    <3> HIDE DEF r
    <3>2. LET k == WithCross(r, c) IN
          /\ k.state = r.state /\ k.waits = r.waits /\ k.done = r.done /\ k.cross = c
          /\ (k.awaiting <=> c.is # "none")
          /\ (k.awaiting <=> r.awaiting) => k.runs = r.runs /\ k.clock = r.clock
      BY <2>4, <3>1, CrossedIs
    <3>3. x.fade[f] = WithCross(r, c)
      BY <2>8 DEF r
    <3> QED
      BY <2>4, <3>1, <3>2, <3>3 DEF Linked, Incoming
  <2>12. w.layer[v].on /\ w.layer[v].link = NoLink /\ w.pic[p].voice = v /\ v \in Voice
    BY <1>3, <1>6, OnSlotIs DEF v
  <2>13. FadeCore(x) /\ SoundIn(x, T)
    BY <1>2, <2>10, <2>11, <2>12, LinkedCore
  <2> QED
    BY <2>1, <2>10, <2>13
<1> QED
  BY <1>5, <1>6

\* A Fade that asks again has no link.
LEMMA AskedIs ==
  ASSUME NEW w \in Worlds, NEW f \in Fades
  PROVE  LET x == Asked(w, f)
             r == w.fade[f]
             s == x.fade[f]
         IN /\ FadeAlone(w, x, f) /\ s.cross = Pending(TRUE) /\ s.cross.is = "pending" /\ s.cross.started
            /\ s.state = r.state /\ s.waits = r.waits /\ s.clock = r.clock /\ s.runs = r.runs
            /\ s.awaiting = r.awaiting /\ s.done = r.done /\ s.targets = r.targets
<1> DEFINE s == [w.fade[f] EXCEPT !.cross = Pending(TRUE)]
           x == Asked(w, f)
<1>1. x = WithFade(w, f, s)
  BY DEF WithFade, Asked
<1>2. Pending(TRUE) \in Crosses /\ Pending(TRUE).is = "pending" /\ Pending(TRUE).started
  BY PlainCross
<1>3. /\ s \in FadeRecords /\ s.cross = Pending(TRUE)
      /\ s.state = w.fade[f].state /\ s.waits = w.fade[f].waits /\ s.clock = w.fade[f].clock
      /\ s.runs = w.fade[f].runs /\ s.awaiting = w.fade[f].awaiting /\ s.done = w.fade[f].done
      /\ s.targets = w.fade[f].targets
  BY <1>2, FadeIs DEF FadeRecords
<1> HIDE DEF s, x
<1>4. FadeAlone(w, x, f) /\ x.fade[f] = s
  BY <1>1, <1>3, FadeAloneIs
<1> QED
  BY <1>2, <1>3, <1>4 DEF x

\* Who asks for nothing has nothing to answer for.
LEMMA SoundLeft ==
  ASSUME NEW w \in Worlds, NEW f \in Fades, NEW S \in SUBSET Fades, NEW T, SoundIn(w, S),
         \A g \in S : g = f \/ g \in T, \A v \in Voice : Live(w, v) => ~AgainOf(w, f, v)
  PROVE  SoundIn(w, T)
BY DEF SoundIn

\* A Fade without a link leaves those of the others.
LEMMA UnlinkedAlone ==
  ASSUME NEW w \in Worlds, NEW x \in Worlds, NEW f \in Fades, FadeCore(w), SoundIn(w, {}),
         FadeAlone(w, x, f), ~Linked(x, f), CrossOf(x, f), AloneOf(x, f),
         \A v \in Voice : OwnerOf(w, f, v) => v \in Excused(w)
  PROVE  FadeCore(x) /\ SoundIn(x, {})
<1>1. \A g \in {} : g = f \/ g \in {}
  OBVIOUS
<1>2. \A v \in Voice : Live(w, v) /\ w.layer[v].gain # "full"
                       /\ (OwnerOf(w, f, v) \/ (f \in {} /\ AgainOf(w, f, v)))
                         => v \in Excused(w) \/ (f \in {} /\ AgainOf(x, f, v))
  OBVIOUS
<1>3. {} \in SUBSET Fades
  OBVIOUS
<1> QED
  BY <1>1, <1>2, <1>3, UnlinkedKeeps

\* A Fade whose picture has not got a link asks for it.
LEMMA AskedKeeps ==
  ASSUME NEW w \in Worlds, NEW f \in Fades, NEW S \in SUBSET Fades, NEW T, FadeCore(w), SoundIn(w, S),
         w.fade[f].awaiting, \A u \in Voice : w.of[u] = Plan[f].into => ~w.layer[u].link.is,
         \A g \in S : g = f \/ g \in T,
         w.fade[f].cross.is # "none",
         \A v \in Voice : Live(w, v) /\ w.layer[v].gain # "full"
                          /\ (OwnerOf(w, f, v) \/ (f \in S /\ AgainOf(w, f, v)))
                            => v \in Excused(w) \/ (f \in T /\ AgainOf(Asked(w, f), f, v))
  PROVE  Asked(w, f) \in Worlds /\ FadeCore(Asked(w, f)) /\ SoundIn(Asked(w, f), T)
<1> DEFINE x == Asked(w, f)
           r == w.fade[f]
           s == x.fade[f]
<1>1. /\ FadeAlone(w, x, f) /\ s.cross.is = "pending"
      /\ s.state = r.state /\ s.waits = r.waits /\ s.clock = r.clock /\ s.runs = r.runs
      /\ s.awaiting = r.awaiting /\ s.done = r.done
  BY AskedIs
<1>2. CrossOf(w, f)
  BY DEF FadeCore, CrossIn
<1>3. \A v \in Voice : Live(w, v) /\ w.layer[v].gain # "full"
                          /\ (OwnerOf(w, f, v) \/ (f \in S /\ AgainOf(w, f, v)))
                            => v \in Excused(w) \/ (f \in T /\ AgainOf(x, f, v))
  OBVIOUS
<1> HIDE DEF x
<1>4. x \in Worlds /\ x.layer = w.layer /\ x.of = w.of
  BY <1>1 DEF FadeAlone, SameRest
<1>5. CrossOf(x, f) /\ ~Linked(x, f)
  BY <1>1, <1>2 DEF CrossOf, Linked
<1>6. AloneOf(x, f)
  BY <1>4 DEF AloneOf
<1>7. FadeCore(x) /\ SoundIn(x, T)
  BY <1>1, <1>3, <1>4, <1>5, <1>6, UnlinkedKeeps
<1> QED
  BY <1>4, <1>7 DEF x

\* link_or_wait.
LEMMA LinkOrWaitKeeps ==
  ASSUME OneFadeEach, NEW w \in Worlds, NEW f \in Fades, NEW S \in SUBSET Fades, NEW T,
         FadeCore(w), SoundIn(w, S), w.fade[f].state = "running", \A g \in S : g = f \/ g \in T,
         ~w.fade[f].waits, w.fade[f].cross.is = "pending",
         \A u \in Voice : w.of[u] = Plan[f].into => ~w.layer[u].link.is
  PROVE  LET x == LinkOrWait(w, f) IN x \in Worlds /\ FadeCore(x) /\ SoundIn(x, T)
<1> DEFINE p == Plan[f].into
           v == w.pic[p].voice
           y == Asked(w, f)
           s == y.fade[f]
           r == w.fade[f]
<1>1. CrossOf(w, f)
  BY DEF FadeCore, CrossIn
<1>2. p \in Picture /\ r.awaiting /\ ~r.runs /\ r.clock = 0 /\ ~r.done
  BY <1>1, Constants DEF CrossOf
<1>3. \A u \in Voice : Live(w, u) /\ AgainOf(w, f, u) => v = u /\ v # NoVoice
  BY <1>2, Constants DEF FadeCore, VoicesIn, AgainOf
<1>4. v # NoVoice => v \in Voice /\ w.of[v] = p
  BY <1>2, PicIs, Constants DEF FadeCore, PicsIn
<1>5. CASE w.pic[p].state # "running"
  <2>1. v = NoVoice
    BY <1>2, <1>5, PicIs DEF FadeCore, PicsIn
  <2>2. \A u \in Voice : Live(w, u) => ~AgainOf(w, f, u)
    BY <1>3, <2>1
  <2>3. LinkOrWait(w, f) = GiveUp(w, f)
    BY <1>5 DEF LinkOrWait
  <2> QED
    BY <2>2, <2>3, GiveUpKeeps
<1>6. CASE w.pic[p].state = "running"
  <2>1. /\ FadeAlone(w, y, f) /\ s.cross = Pending(TRUE) /\ s.cross.is = "pending" /\ s.cross.started
        /\ s.state = r.state /\ s.waits = r.waits /\ s.clock = r.clock /\ s.runs = r.runs
        /\ s.awaiting = r.awaiting /\ s.done = r.done
    BY AskedIs
  <2>2. y \in Worlds /\ y.layer = w.layer /\ y.of = w.of /\ y.pic = w.pic
    BY <2>1 DEF FadeAlone, SameRest
  <2>3. \A u \in Voice : ~OwnerOf(w, f, u)
    BY DEF OwnerOf, Linked
  <2>4. CASE v = NoVoice
    <3>1. \A u \in Voice : Live(w, u) /\ w.layer[u].gain # "full"
                           /\ (OwnerOf(w, f, u) \/ (f \in S /\ AgainOf(w, f, u)))
                             => u \in Excused(w) \/ (f \in T /\ AgainOf(Asked(w, f), f, u))
      BY <1>3, <2>3, <2>4
    <3>2. Asked(w, f) \in Worlds /\ FadeCore(Asked(w, f)) /\ SoundIn(Asked(w, f), T)
      BY <1>2, <3>1, AskedKeeps
    <3>3. LinkOrWait(w, f) = Asked(w, f)
      BY <1>6, <2>4 DEF LinkOrWait
    <3> QED
      BY <3>2, <3>3
  <2>5. CASE v # NoVoice
    <3>1. \A u \in Voice : Live(w, u) /\ w.layer[u].gain # "full"
                           /\ (OwnerOf(w, f, u) \/ (f \in S /\ AgainOf(w, f, u)))
                             => u \in Excused(w) \/ (f \in S /\ AgainOf(Asked(w, f), f, u))
      <4> HIDE DEF y
      <4> QED
        BY <2>1, <2>2, <2>3 DEF AgainOf, y
    <3>2. \A g \in S : g = f \/ g \in S
      OBVIOUS
    <3>3. FadeCore(y) /\ SoundIn(y, S)
      BY <1>2, <3>1, <3>2, AskedKeeps
    <3>4. w.layer[v].link = NoLink
      <4>1. ClockIn(w.layer[v].link) /\ ~w.layer[v].link.is
        BY <1>4, <2>5 DEF FadeCore, LinksIn
      <4> QED
        BY <4>1 DEF ClockIn
    <3>5. LinkOrWait(w, f) = Link(y, f)
      BY <1>6, <2>5 DEF LinkOrWait
    <3> HIDE DEF y
    <3>6. /\ y.pic[p].voice # NoVoice /\ y.layer[y.pic[p].voice].link = NoLink
          /\ y.fade[f].cross.is = "pending" /\ y.fade[f].state = "running" /\ ~y.fade[f].waits
      BY <2>1, <2>2, <2>5, <3>4
    <3>7. Link(y, f) \in Worlds /\ FadeCore(Link(y, f)) /\ SoundIn(Link(y, f), T)
      BY <2>2, <3>3, <3>6, LinkKeeps
    <3> QED
      BY <3>5, <3>7
  <2> QED
    BY <2>4, <2>5
<1> QED
  BY <1>5, <1>6

\* advance_crossfade.
LEMMA AdvanceKeeps ==
  ASSUME OneFadeEach, NEW w \in Worlds, NEW f \in Fades, NEW ok, NEW S \in SUBSET Fades, NEW T,
         FadeCore(w), SoundIn(w, S), w.fade[f].state = "running", \A g \in S : g = f \/ g \in T
  PROVE  LET x == Advance(w, f, ok) IN x \in Worlds /\ FadeCore(x) /\ SoundIn(x, T)
<1> DEFINE r == w.fade[f]
           p == Plan[f].into
           up == w.pic[p].state = "running"
           begun == r.cross.started
           y == GoPicture(w, p, ok)
           x == Advance(w, f, ok)
<1>0. Advance(w, f, ok) = IF r.waits \/ r.cross.is # "pending" THEN w
                          ELSE IF begun <=> up THEN LinkOrWait(IF begun THEN w ELSE y, f)
                          ELSE GiveUp(w, f)
  BY DEF Advance
<1>1. CASE r.waits \/ r.cross.is # "pending"
  <2>1. x = w
    BY <1>0, <1>1
  <2>2. \A u \in Voice : ~AgainOf(w, f, u)
    BY <1>1 DEF AgainOf
  <2> QED
    BY <2>1, <2>2, SoundLeft
<1> SUFFICES ASSUME ~r.waits, r.cross.is = "pending"
             PROVE  x \in Worlds /\ FadeCore(x) /\ SoundIn(x, T)
  BY <1>1
<1>2. CrossOf(w, f) /\ AloneOf(w, f)
  BY DEF FadeCore, CrossIn, AloneIn
<1>3. p \in Picture /\ r.awaiting /\ ~r.runs /\ r.clock = 0 /\ ~r.done
  BY <1>2, Constants DEF CrossOf
<1>4. \A u \in Voice : Live(w, u) /\ AgainOf(w, f, u) => begun /\ up
  <2> SUFFICES ASSUME NEW u \in Voice, Live(w, u), AgainOf(w, f, u) PROVE begun /\ up
    OBVIOUS
  <2>1. w.pic[p].voice = u /\ u # NoVoice
    BY <1>3, Constants DEF FadeCore, VoicesIn, AgainOf
  <2>2. up
    BY <1>3, <2>1, PicIs DEF FadeCore, PicsIn
  <2> QED
    BY <2>2 DEF AgainOf
<1>5. CASE ~(up <=> begun)
  <2>1. x = GiveUp(w, f)
    BY <1>0, <1>5
  <2>2. \A u \in Voice : Live(w, u) => ~AgainOf(w, f, u)
    BY <1>4, <1>5
  <2> QED
    BY <2>1, <2>2, GiveUpKeeps
<1>6. CASE up /\ begun
  <2>1. x = LinkOrWait(w, f)
    BY <1>0, <1>6
  <2>2. \A u \in Voice : w.of[u] = p => ~w.layer[u].link.is
    BY <1>2, <1>6 DEF AloneOf
  <2> QED
    BY <2>1, <2>2, LinkOrWaitKeeps
<1>7. CASE ~up /\ ~begun
  <2>1. x = LinkOrWait(y, f)
    BY <1>0, <1>7
  <2>2. /\ y \in Worlds /\ FadeCore(y) /\ (\A X : SoundIn(w, X) => SoundIn(y, X))
        /\ y.fade = w.fade /\ (y.pic[p].voice = NoVoice \/ y.layer[y.pic[p].voice].link = NoLink)
    BY <1>3, <1>7, GoPictureKeeps
  <2> HIDE DEF y
  <2>3. ASSUME NEW u \in Voice, y.of[u] = p, y.layer[u].link.is PROVE FALSE
    <3>1. Live(y, u)
      BY <2>2, <2>3 DEF FadeCore, LinksIn
    <3>2. y.pic[p].voice = u
      BY <2>2, <2>3, <3>1 DEF FadeCore, VoicesIn
    <3> QED
      BY <2>2, <2>3, <3>2, NoLinkIs, Constants
  <2>4. SoundIn(y, S) /\ y.fade[f].state = "running" /\ ~y.fade[f].waits /\ y.fade[f].cross.is = "pending"
    BY <2>2
  <2> QED
    BY <2>1, <2>2, <2>3, <2>4, LinkOrWaitKeeps
<1> QED
  BY <1>5, <1>6, <1>7
---------------------------------------------------------------------------
(***************************************************************************)
(* The GO of a Fade.                                                        *)
(***************************************************************************)
LEMMA FiredIs ==
  ASSUME NEW f \in Fades
  PROVE  /\ Fired(f) \in FadeRecords /\ Fired(f).state = "running" /\ Fired(f).waits = Plan[f].waits
         /\ Fired(f).clock = 0 /\ ~Fired(f).awaiting /\ ~Fired(f).done /\ Fired(f).cross = Plain
<1>1. Plan[f].waits \in BOOLEAN /\ Plain \in Crosses /\ 0 \in 0..Span /\ (~Plan[f].waits) \in BOOLEAN
  BY Constants, PlainCross
<1> QED
  BY <1>1 DEF Fired, Rest, FadeRecords

\* The GO of a Fade: what it drove is forgotten, which history knows.
LEMMA GoFadeKeeps ==
  ASSUME OneFadeEach, NEW w \in Worlds, NEW f \in Fades, NEW ok, FadeCore(w), SoundIn(w, {}),
         \A v \in Voice : OwnerOf(w, f, v) => v \in Excused(w)
  PROVE  LET x == GoFade(w, f, ok) IN x \in Worlds /\ FadeCore(x) /\ SoundIn(x, {})
<1> DEFINE y == WithFade(w, f, Fired(f))
           z == SetCrossfade(y, f, Pending(FALSE))
           t == SetPlainFade(y, f, {})
<1>1. FadeAlone(w, y, f) /\ y.fade[f] = Fired(f)
  BY FiredIs, FadeAloneIs
<1>2. y \in Worlds
  BY <1>1 DEF FadeAlone
<1>3. GoFade(w, f, ok) = IF Plan[f].into = Nobody THEN t ELSE Advance(z, f, ok)
  BY DEF GoFade, WithFade
<1> HIDE DEF y
<1>4. CASE Plan[f].into = Nobody
  <2>1. FadeAlone(y, t, f) /\ Retargeted(y.fade[f], t.fade[f])
    BY <1>2, SetPlainIs
  <2> HIDE DEF t
  <2>2. FadeAlone(w, t, f) /\ t \in Worlds
    BY <1>1, <2>1, FadeAloneTwice DEF FadeAlone
  <2>3. ~Linked(t, f) /\ CrossOf(t, f) /\ AloneOf(t, f)
    BY <1>1, <2>1, FiredIs, PlainCross DEF Retargeted, Linked, CrossOf, AloneOf
  <2>5. FadeCore(t) /\ SoundIn(t, {})
    BY <2>2, <2>3, UnlinkedAlone
  <2> QED
    BY <1>3, <1>4, <2>2, <2>5
<1>5. CASE Plan[f].into # Nobody
  <2>1. FadeAlone(y, z, f) /\ z.fade[f] = WithCross(Fired(f), Pending(FALSE))
    BY <1>1, <1>2, PlainCross, SetCrossIs
  <2> HIDE DEF z
  <2>2. FadeAlone(w, z, f) /\ z \in Worlds
    BY <1>1, <2>1, FadeAloneTwice DEF FadeAlone
  <2>3. /\ z.fade[f].state = "running" /\ z.fade[f].cross = Pending(FALSE) /\ z.fade[f].awaiting
        /\ ~z.fade[f].runs /\ z.fade[f].clock = 0 /\ ~z.fade[f].done
    <3>0. Fired(f) \in FadeRecords /\ Pending(FALSE) \in Crosses
      BY FiredIs, PlainCross
    <3>1. LET h == WithCross(Fired(f), Pending(FALSE)) IN
          /\ h.state = Fired(f).state /\ h.done = Fired(f).done
          /\ h.cross = Pending(FALSE) /\ (h.awaiting <=> Pending(FALSE).is # "none")
          /\ h.awaiting /\ ~Fired(f).awaiting => ~h.runs /\ h.clock = 0
      BY <3>0, CrossedIs
    <3> QED
      BY <2>1, <3>1, FiredIs, PlainCross
  <2>4. ~Linked(z, f) /\ CrossOf(z, f) /\ AloneOf(z, f)
    BY <1>5, <2>3, PlainCross DEF Linked, CrossOf, AloneOf
  <2>5. \A g \in {} : g = f \/ g \in {}
    OBVIOUS
  <2>6. FadeCore(z) /\ SoundIn(z, {})
    BY <2>2, <2>4, UnlinkedAlone
  <2>7. Advance(z, f, ok) \in Worlds /\ FadeCore(Advance(z, f, ok)) /\ SoundIn(Advance(z, f, ok), {})
    BY <2>2, <2>3, <2>5, <2>6, AdvanceKeeps
  <2> QED
    BY <1>3, <1>5, <2>7
<1> QED
  BY <1>4, <1>5

---------------------------------------------------------------------------
(***************************************************************************)
(* The tick of a Fade.                                                      *)
(***************************************************************************)
LEMMA ScaledIs ==
  ASSUME NEW full \in Level, NEW k
  PROVE  Scaled(full, k) \in Level /\ (k = Span => Scaled(full, k) = full)
BY Constants DEF Scaled, Level

\* What one level becomes.
LEMMA MovedIs ==
  ASSUME NEW l \in Layers, NEW r \in FadeRecords, NEW v \in Voice, NEW k \in 0..Span
  PROVE  LET m == LevelsAfter(l, r, v, k) IN
         /\ m \in Layers /\ m.on = l.on /\ m.shown = l.shown /\ m.stopping = l.stopping
         /\ m.link = l.link /\ (~l.on => m = l)
         /\ r.cross.is = "linked" /\ r.cross.voice = v =>
              m.opacity = l.opacity /\ (l.on => m.gain = Scaled(r.cross.level, k))
         /\ ~(r.cross.is = "linked" /\ r.cross.voice = v) =>
              \/ m = l
              \/ m.opacity = l.opacity /\ \E s \in r.cross.sounds : s.voice = v
              \/ \E t \in r.targets : t.voice = v
<1> DEFINE plain == { t \in r.targets : t.voice = v }
           falls == { s \in r.cross.sounds : s.voice = v }
           t == CHOOSE t \in plain : TRUE
           s == CHOOSE s \in falls : TRUE
           owns == r.cross.is = "linked" /\ r.cross.voice = v
           a == Scaled(r.cross.level, k)
           b == Scaled(s.gain, Span - k)
           c == Scaled(t.gain, Span - k)
           d == Scaled(t.opacity, Span - k)
           m == LevelsAfter(l, r, v, k)
<1>1. r.cross \in Crosses /\ r.targets \in SUBSET [voice : Voice, gain : Level, opacity : Level]
  BY RecordIs
<1>2. r.cross.level \in Level /\ r.cross.sounds \in SUBSET [voice : Voice, gain : Level]
  BY <1>1 DEF Crosses
<1>3. plain # {} => t.gain \in Level /\ t.opacity \in Level
  BY <1>1
<1>4. falls # {} => s.gain \in Level
  BY <1>2
<1>5. m = IF ~l.on THEN l ELSE IF owns THEN [l EXCEPT !.gain = a]
          ELSE IF falls # {} THEN [l EXCEPT !.gain = b]
          ELSE IF plain # {} THEN [l EXCEPT !.gain = c, !.opacity = d] ELSE l
  BY DEF LevelsAfter
<1>6. a \in Level /\ (falls # {} => b \in Level) /\ (plain # {} => c \in Level /\ d \in Level)
  BY <1>2, <1>3, <1>4, ScaledIs
<1>7. (falls # {} => \E q \in r.cross.sounds : q.voice = v) /\ (plain # {} => \E q \in r.targets : q.voice = v)
  OBVIOUS
<1> SUFFICES /\ m \in Layers /\ m.on = l.on /\ m.shown = l.shown /\ m.stopping = l.stopping
             /\ m.link = l.link /\ (~l.on => m = l)
             /\ (owns => m.opacity = l.opacity /\ (l.on => m.gain = a))
             /\ (~owns => \/ m = l
                          \/ m.opacity = l.opacity /\ \E q \in r.cross.sounds : q.voice = v
                          \/ \E q \in r.targets : q.voice = v)
  OBVIOUS
<1> HIDE DEF plain, falls, t, s, a, b, c, d, m, owns
<1>10. ASSUME NEW g \in Level
       PROVE  LET z == [l EXCEPT !.gain = g] IN
              /\ z \in Layers /\ z.on = l.on /\ z.shown = l.shown /\ z.stopping = l.stopping
              /\ z.link = l.link /\ z.opacity = l.opacity /\ z.gain = g
  BY DEF Layers
<1>11. ASSUME NEW g \in Level, NEW o \in Level
       PROVE  LET z == [l EXCEPT !.gain = g, !.opacity = o] IN
              /\ z \in Layers /\ z.on = l.on /\ z.shown = l.shown /\ z.stopping = l.stopping
              /\ z.link = l.link
  BY DEF Layers
<1>12. CASE ~l.on
  BY <1>5, <1>12
<1>13. CASE l.on /\ owns
  <2>1. m = [l EXCEPT !.gain = a]
    BY <1>5, <1>13
  <2> QED
    BY <1>6, <1>10, <1>13, <2>1
<1>14. CASE l.on /\ ~owns /\ falls # {}
  <2>1. m = [l EXCEPT !.gain = b]
    BY <1>5, <1>14
  <2> QED
    BY <1>6, <1>7, <1>10, <1>14, <2>1
<1>15. CASE l.on /\ ~owns /\ falls = {} /\ plain # {}
  <2>1. m = [l EXCEPT !.gain = c, !.opacity = d]
    BY <1>5, <1>15
  <2> QED
    BY <1>6, <1>7, <1>11, <1>15, <2>1
<1>16. CASE l.on /\ ~owns /\ falls = {} /\ plain = {}
  <2>1. m = l
    BY <1>5, <1>16
  <2> QED
    BY <1>16, <2>1
<1> QED
  BY <1>12, <1>13, <1>14, <1>15, <1>16

\* What a Fade makes of the levels.
Levelled(w, x, f, k) == \A v \in Voice :
  LET l == w.layer[v]
      m == x.layer[v]
  IN /\ m.on = l.on /\ m.shown = l.shown /\ m.stopping = l.stopping /\ m.link = l.link
     /\ ~l.on => m = l
     /\ OwnerOf(w, f, v) => m.opacity = l.opacity /\ (l.on => m.gain = Scaled(w.fade[f].cross.level, k))
     /\ ~OwnerOf(w, f, v) =>
          \/ m = l
          \/ m.opacity = l.opacity /\ \E s \in w.fade[f].cross.sounds : s.voice = v
          \/ \E t \in w.fade[f].targets : t.voice = v

\* What the levels become.
LEMMA SetLevelsIs ==
  ASSUME NEW w \in Worlds, NEW f \in Fades, NEW k \in 0..Span, w.fade[f].state # "standby"
  PROVE  LET x == SetLevels(w, f, k) IN x \in Worlds /\ OnlyLayers(w, x) /\ Levelled(w, x, f, k)
<1> DEFINE r == w.fade[f]
           m == [v \in Voice |-> LevelsAfter(w.layer[v], r, v, k)]
           x == SetLevels(w, f, k)
<1>1. r \in FadeRecords
  BY FadeIs
<1>2. x = [w EXCEPT !.layer = m]
  BY DEF SetLevels, Moves
<1>3. \A v \in Voice : w.layer[v] \in Layers /\ m[v] = LevelsAfter(w.layer[v], r, v, k)
  BY LayerIs
<1>4. \A v \in Voice : OwnerOf(w, f, v) <=> r.cross.is = "linked" /\ r.cross.voice = v
  BY DEF OwnerOf, Linked, Incoming
<1>5. m = [v \in Voice |-> m[v]]
  OBVIOUS
<1> HIDE DEF m
<1>6. \A v \in Voice :
        /\ m[v] \in Layers /\ m[v].on = w.layer[v].on /\ m[v].shown = w.layer[v].shown
        /\ m[v].stopping = w.layer[v].stopping
        /\ m[v].link = w.layer[v].link /\ (~w.layer[v].on => m[v] = w.layer[v])
        /\ r.cross.is = "linked" /\ r.cross.voice = v =>
             /\ m[v].opacity = w.layer[v].opacity
             /\ w.layer[v].on => m[v].gain = Scaled(r.cross.level, k)
        /\ ~(r.cross.is = "linked" /\ r.cross.voice = v) =>
             \/ m[v] = w.layer[v]
             \/ m[v].opacity = w.layer[v].opacity /\ \E s \in r.cross.sounds : s.voice = v
             \/ \E t \in r.targets : t.voice = v
  <2> HIDE DEF r
  <2>1. TAKE v \in Voice
  <2>2. w.layer[v] \in Layers /\ m[v] = LevelsAfter(w.layer[v], r, v, k)
    BY <1>3
  <2> QED
    BY <1>1, <2>2, MovedIs
<1>7. m \in [Voice -> Layers]
  BY <1>5, <1>6
<1>8. x \in Worlds /\ OnlyLayers(w, x) /\ x.layer = m
  BY <1>2, <1>7, PutLayers DEF OnlyLayers
<1> HIDE DEF x
<1>9. Levelled(w, x, f, k)
  BY <1>4, <1>6, <1>8 DEF Levelled
<1> QED
  BY <1>8, <1>9 DEF x

\* History that knew all knows what is left.
LEMMA HistSame ==
  ASSUME NEW w \in Worlds, NEW x \in Worlds, NEW f \in Fades, HistIn(w), OnlyFade(w, x, f),
         x.fade[f].targets = w.fade[f].targets, x.past = w.past,
         x.fade[f].cross = w.fade[f].cross \/ (x.fade[f].cross.sounds = {} /\ ~Linked(x, f)),
         \A v \in Voice : x.layer[v].link = w.layer[v].link
  PROVE  HistIn(x)
<1>1. ASSUME NEW g \in Fades
      PROVE  /\ \A t \in x.fade[g].targets : t.voice \in x.past.faded
             /\ \A s \in x.fade[g].cross.sounds : s.voice \in x.past.taken
             /\ g \in Dulled(x) => Incoming(x, g) \in x.past.dull
  <2>1. CASE x.fade[g] = w.fade[g] \/ (g = f /\ x.fade[f].cross = w.fade[f].cross)
    <3>1. x.fade[g].cross = w.fade[g].cross /\ x.fade[g].targets = w.fade[g].targets
      BY <2>1
    <3>2. g \in Dulled(x) <=> g \in Dulled(w)
      BY <3>1 DEF Dulled
    <3> QED
      BY <3>1, <3>2 DEF HistIn, Incoming
  <2>2. CASE g = f /\ x.fade[f].cross.sounds = {} /\ ~Linked(x, f)
    BY <2>2 DEF HistIn, Dulled, Linked
  <2> QED
    BY <2>1, <2>2 DEF OnlyFade
<1>2. \A v \in Voice : \A o \in x.layer[v].link.out : o.from # "full" => o.voice \in x.past.dim
  BY DEF HistIn
<1> QED
  BY <1>1, <1>2 DEF HistIn

\* The end of a pre-wait.
LEMMA WaitedKeeps ==
  ASSUME NEW w \in Worlds, NEW f \in Fades, FadeCore(w), HistIn(w), SoundIn(w, Fades), w.fade[f].waits
  PROVE  LET x == WithFade(w, f, Waited(w.fade[f])) IN
         x \in Worlds /\ FadeCore(x) /\ HistIn(x) /\ SoundIn(x, Fades)
<1> DEFINE r == w.fade[f]
           h == Waited(r)
           x == WithFade(w, f, h)
<1>0. r \in FadeRecords
  BY FadeIs
<1>1. /\ h \in FadeRecords /\ h.state = r.state
      /\ r.clock = 0 => h = r
      /\ r.clock # 0 => ~h.waits /\ (h.runs <=> ~r.awaiting) /\ h.clock = 0
      /\ h.awaiting = r.awaiting /\ h.done = r.done /\ h.cross = r.cross /\ h.targets = r.targets
  BY <1>0, WaitedIs
<1> HIDE DEF h
<1>2. FadeAlone(w, x, f) /\ x.fade[f] = h
  BY <1>1, FadeAloneIs
<1> HIDE DEF x
<1>3. /\ x \in Worlds /\ x.layer = w.layer /\ SameRest(w, x) /\ OnlyFade(w, x, f) /\ x.past = w.past
      /\ x.of = w.of
  BY <1>2 DEF FadeAlone, SameRest
<1>4. CrossOf(w, f) /\ AloneOf(w, f)
  BY DEF FadeCore, CrossIn, AloneIn
<1>5. ~Linked(w, f) /\ ~Linked(x, f) /\ ~r.done
  BY <1>1, <1>2, <1>4, FadeIs DEF CrossOf, Linked
<1>6. CrossOf(x, f)
  <2>1. /\ h.cross.is = "pending" => h.awaiting
        /\ h.cross.is = "none" => ~h.awaiting
        /\ h.cross.is # "none" => Plan[f].into # Nobody
        /\ h.cross.is # "linked" /\ ~h.done
    BY <1>1, <1>4, <1>5 DEF CrossOf, Linked
  <2>2. h.awaiting => ~h.runs /\ (h.waits \/ h.clock = 0)
    BY <1>1, <1>4 DEF CrossOf
  <2> QED
    BY <1>2, <2>1, <2>2 DEF CrossOf
<1>7. AloneOf(x, f)
  BY <1>1, <1>2, <1>3, <1>4, <1>5 DEF AloneOf
<1>8. \A v \in Voice : ~OwnerOf(w, f, v) /\ ~AgainOf(w, f, v)
  BY <1>5 DEF OwnerOf, AgainOf
<1>9. FadeCore(x) /\ SoundIn(x, Fades)
  <2>1. \A v \in Voice : Live(w, v) /\ w.layer[v].gain # "full"
                          /\ (OwnerOf(w, f, v) \/ (f \in Fades /\ AgainOf(w, f, v)))
                            => v \in Excused(w) \/ (f \in Fades /\ AgainOf(x, f, v))
    BY <1>8
  <2> QED
    BY <1>2, <1>3, <1>5, <1>6, <1>7, <2>1, UnlinkedKeeps
<1>10. HistIn(x)
  BY <1>1, <1>2, <1>3, HistSame
<1> QED
  BY <1>3, <1>9, <1>10 DEF x, h

\* The dissolve has begun: the Fade goes on with its clock.
LEMMA UnderwayKeeps ==
  ASSUME NEW w \in Worlds, NEW f \in Fades, FadeCore(w), HistIn(w), SoundIn(w, Fades), Linked(w, f),
         w.fade[f].state = "running", w.fade[f].awaiting,
         w.layer[Incoming(w, f)].link.is, w.layer[Incoming(w, f)].link.started
  PROVE  LET x == WithFade(w, f, Underway(w.fade[f], w.layer[Incoming(w, f)].link.since)) IN
         /\ x \in Worlds /\ FadeCore(x) /\ HistIn(x) /\ SoundIn(x, Fades)
         /\ ~x.fade[f].awaiting /\ x.fade[f].state = "running"
<1> DEFINE r == w.fade[f]
           v == Incoming(w, f)
           l == w.layer[v].link
           h == Underway(r, l.since)
           x == WithFade(w, f, h)
<1>0. r \in FadeRecords
  BY FadeIs
<1>4. CrossOf(w, f) /\ AloneOf(w, f) /\ StepOf(w, f)
  BY DEF FadeCore, CrossIn, AloneIn, StepIn
<1>5. v \in Voice
  BY <1>4, IncomingIs
<1>6. l \in Links /\ ClockIn(l)
  BY <1>5, LayerIs DEF FadeCore, LinksIn
<1>7. l.since \in 0..Span /\ l.done \in 0..Span /\ l.done <= l.since
  BY <1>6, LinkIs DEF ClockIn
<1>1. /\ h \in FadeRecords /\ h.state = r.state /\ h.runs /\ h.waits = r.waits /\ h.clock = l.since
      /\ ~h.awaiting /\ h.done = r.done /\ h.cross = r.cross /\ h.targets = r.targets
  BY <1>0, <1>7, UnderwayIs
<1>a. Together(r, l, v \in w.past.late)
  BY <1>4 DEF StepOf
<1> HIDE DEF h
<1>2. FadeAlone(w, x, f) /\ x.fade[f] = h
  BY <1>1, FadeAloneIs
<1> HIDE DEF x
<1>3. /\ x \in Worlds /\ x.layer = w.layer /\ SameRest(w, x) /\ OnlyFade(w, x, f) /\ x.past = w.past
      /\ x.of = w.of /\ x.next = w.next
  BY <1>2 DEF FadeAlone, SameRest
<1>8. Linked(x, f) /\ Incoming(x, f) = v
  BY <1>1, <1>2 DEF Linked, Incoming
<1>9. CrossOf(x, f)
  <2>1. /\ r.cross.is = "linked" /\ Plan[f].into # Nobody /\ r.cross.voice # NoVoice
        /\ r.cross.voice < x.next /\ x.of[r.cross.voice] = Plan[f].into /\ ~r.waits
    BY <1>3, <1>4 DEF CrossOf, Linked
  <2>2. x.fade[f].cross = r.cross /\ ~x.fade[f].waits /\ ~x.fade[f].awaiting
    BY <1>1, <1>2, <2>1
  <2> HIDE DEF r
  <2> QED
    BY <2>1, <2>2 DEF CrossOf
<1>10. AloneOf(x, f)
  BY <1>1, <1>2, <1>3, <1>4 DEF AloneOf, Linked, Incoming
<1>11. StepOf(x, f)
  <2>1. Together(h, l, v \in w.past.late)
    <3>1. (v \in w.past.late) \/ l.since = l.done
      BY <1>a DEF Together
    <3>2. l.paused <=> h.state = "paused"
      BY <1>1, <1>a DEF Together
    <3> QED
      BY <1>1, <1>7, <3>1, <3>2 DEF Together
  <2> HIDE DEF l, v
  <2>2. x.layer[v].link = l /\ l.is
    BY <1>3 DEF l, v
  <2> QED
    BY <1>2, <1>3, <1>8, <2>1, <2>2 DEF StepOf
<1>12. DoneOf(x, f)
  BY <1>1, <1>2, <1>4 DEF DoneOf, CrossOf
<1>13. Grows(w, x) /\ Excused(x) = Excused(w)
  BY <1>3 DEF Grows, Excused
<1>14. FadeCore(x)
  BY <1>3, <1>9, <1>10, <1>11, <1>12, <1>13, FadeOnlyCore DEF OneIn
<1>15. SoundIn(x, Fades)
  <2>1. \A u \in Voice : /\ Live(x, u) <=> Live(w, u)
                         /\ OwnerOf(w, f, u) => OwnerOf(x, f, u)
                         /\ ~AgainOf(w, f, u)
    BY <1>1, <1>2, <1>3, <1>8 DEF Live, OwnerOf, AgainOf, Linked
  <2>2. \A u \in Voice : Live(x, u) /\ x.layer[u].gain # "full" =>
           \/ u \in Excused(x) \/ (\E g \in Fades : OwnerOf(x, g, u)) \/ (\E g \in Fades : AgainOf(x, g, u))
           \/ /\ Live(w, u) /\ w.layer[u].gain # "full"
              /\ ~OwnerOf(w, f, u) /\ (f \in Fades => ~AgainOf(w, f, u))
    BY <1>3, <2>1
  <2> QED
    BY <1>3, <1>13, <2>2, SoundOnlyFade
<1>16. HistIn(x)
  BY <1>1, <1>2, <1>3, HistSame
<1> QED
  BY <1>1, <1>2, <1>3, <1>14, <1>15, <1>16 DEF x, h

\* A link that is gone before its time is forgotten, with the picture.
LEMMA DroppedKeeps ==
  ASSUME NEW w \in Worlds, NEW f \in Fades, FadeCore(w), HistIn(w), SoundIn(w, Fades),
         w.fade[f].state = "running", ~w.fade[f].awaiting, w.fade[f].clock < Span
  PROVE  LET x == DropAbandoned(w, f) IN
         /\ x \in Worlds /\ FadeCore(x) /\ HistIn(x) /\ SoundIn(x, Fades)
         /\ x.fade[f].state = "running" /\ ~x.fade[f].awaiting /\ x.fade[f].clock = w.fade[f].clock
         /\ x.fade[f].done = w.fade[f].done /\ ~x.fade[f].waits = ~w.fade[f].waits
         /\ x.fade[f].cross.targets \in SUBSET Picture
<1> DEFINE r == w.fade[f]
           v == Incoming(w, f)
           x == DropAbandoned(w, f)
<1>0. r \in FadeRecords
  BY FadeIs
<1>4. CrossOf(w, f) /\ AloneOf(w, f) /\ StepOf(w, f)
  BY DEF FadeCore, CrossIn, AloneIn, StepIn
<1>1. CASE ~(Linked(w, f) /\ Phase(w, v) = "none")
  <2>1. x = w
    BY <1>1 DEF DropAbandoned, Linked, Incoming
  <2> QED
    BY <2>1, FadeIs
<1>2. CASE Linked(w, f) /\ Phase(w, v) = "none"
  <2> DEFINE h == [r EXCEPT !.cross = Plain]
  <2>1. x = WithFade(w, f, h)
    BY <1>2 DEF DropAbandoned, WithFade, Linked, Incoming
  <2>2. /\ h \in FadeRecords /\ h.state = r.state /\ h.waits = r.waits /\ h.clock = r.clock
        /\ h.awaiting = r.awaiting /\ h.done = r.done /\ h.cross = Plain /\ h.targets = r.targets
    BY <1>0, PlainCross, RecordIs DEF FadeRecords
  <2> HIDE DEF h, x
  <2>3. FadeAlone(w, x, f) /\ x.fade[f] = h
    BY <2>1, <2>2, FadeAloneIs
  <2>4. /\ x \in Worlds /\ x.layer = w.layer /\ SameRest(w, x) /\ OnlyFade(w, x, f) /\ x.past = w.past
    BY <2>3 DEF FadeAlone
  <2>5. v \in Voice
    BY <1>2, <1>4, IncomingIs
  <2>6. ~Live(w, v)
    <3>1. ~OnSlot(w, v) \/ ~w.layer[v].link.is
      BY <1>2 DEF Phase
    <3>2. Live(w, v) => OnSlot(w, v)
      BY <2>5, Constants DEF Live, OnSlot
    <3>3. r.clock # Span
      BY <1>0, RecordIs, Constants
    <3> QED
      BY <1>2, <1>4, <3>1, <3>2, <3>3 DEF StepOf
  <2>7. ~Linked(x, f) /\ CrossOf(x, f) /\ AloneOf(x, f)
    BY <1>4, <2>2, <2>3, PlainCross DEF Linked, CrossOf, AloneOf
  <2>8. \A u \in Voice : Live(w, u) => ~OwnerOf(w, f, u) /\ ~AgainOf(w, f, u)
    BY <1>2, <2>6 DEF OwnerOf, AgainOf, Linked
  <2>9. FadeCore(x) /\ SoundIn(x, Fades)
    <3>1. \A u \in Voice : Live(w, u) /\ w.layer[u].gain # "full"
                            /\ (OwnerOf(w, f, u) \/ (f \in Fades /\ AgainOf(w, f, u)))
                              => u \in Excused(w) \/ (f \in Fades /\ AgainOf(x, f, u))
      BY <2>8
    <3> QED
      BY <2>3, <2>4, <2>7, <3>1, UnlinkedKeeps
  <2>10. HistIn(x)
    <3>1. x.fade[f].cross.sounds = {}
      BY <2>2, <2>3 DEF Plain
    <3> QED
      BY <2>2, <2>3, <2>4, <2>7, <3>1, HistSame
  <2>11. x.fade[f].cross.targets \in SUBSET Picture
    BY <2>4, FadeIs
  <2> QED
    BY <2>2, <2>3, <2>4, <2>9, <2>10, <2>11 DEF x
<1> QED
  BY <1>1, <1>2

\* The levels move: only what a history says is moved, or the sound that comes in.
LEMMA LevelsKeep ==
  ASSUME OneFadeEach, NEW w \in Worlds, NEW f \in Fades, NEW k \in 0..Span,
         FadeCore(w), HistIn(w), SoundIn(w, Fades), w.fade[f].state = "running", k = w.fade[f].clock
  PROVE  LET x == SetLevels(w, f, k) IN
         /\ x \in Worlds /\ FadeCore(x) /\ HistIn(x) /\ SoundIn(x, Fades) /\ x.fade = w.fade
         /\ Linked(x, f) /\ k = Span /\ Live(x, Incoming(x, f)) =>
              x.layer[Incoming(x, f)].gain = "full" \/ Incoming(x, f) \in Excused(x)
<1> DEFINE x == SetLevels(w, f, k)
<1>1. x \in Worlds /\ OnlyLayers(w, x) /\ Levelled(w, x, f, k)
  BY SetLevelsIs
<1> HIDE DEF x
<1>2. /\ x.fade = w.fade /\ x.pic = w.pic /\ x.next = w.next /\ x.of = w.of /\ x.past = w.past
      /\ Excused(x) = Excused(w)
  BY <1>1 DEF OnlyLayers, Excused
<1>3. \A v \in Voice :
        /\ x.layer[v].on = w.layer[v].on /\ x.layer[v].shown = w.layer[v].shown
        /\ x.layer[v].stopping = w.layer[v].stopping /\ x.layer[v].link = w.layer[v].link
        /\ Live(x, v) <=> Live(w, v)
        /\ ~w.layer[v].on => x.layer[v] = w.layer[v]
  BY <1>1 DEF Levelled, Live
<1>4. \A v \in Voice : OwnerOf(w, f, v) => /\ x.layer[v].opacity = w.layer[v].opacity
                                           /\ Live(w, v) => x.layer[v].gain = Scaled(w.fade[f].cross.level, k)
  BY <1>1 DEF Levelled, Live
<1>5. \A v \in Voice : ~OwnerOf(w, f, v) =>
        /\ x.layer[v].gain = w.layer[v].gain \/ v \in Excused(w)
        /\ x.layer[v].opacity = w.layer[v].opacity \/ v \in w.past.faded
  <2>1. TAKE v \in Voice
  <2>2. ((\E s \in w.fade[f].cross.sounds : s.voice = v) => v \in w.past.taken)
        /\ ((\E t \in w.fade[f].targets : t.voice = v) => v \in w.past.faded)
    BY DEF HistIn
  <2>3. v \in w.past.taken \/ v \in w.past.faded => v \in Excused(w)
    BY DEF Excused
  <2>4. ~OwnerOf(w, f, v) =>
          \/ x.layer[v] = w.layer[v]
          \/ x.layer[v].opacity = w.layer[v].opacity /\ \E s \in w.fade[f].cross.sounds : s.voice = v
          \/ \E t \in w.fade[f].targets : t.voice = v
    BY <1>1 DEF Levelled
  <2> QED
    BY <2>2, <2>3, <2>4
<1>6. \A g \in Fades : /\ Linked(x, g) <=> Linked(w, g)
                       /\ Incoming(x, g) = Incoming(w, g)
                       /\ \A v : OwnerOf(x, g, v) <=> OwnerOf(w, g, v)
                       /\ \A v : AgainOf(x, g, v) <=> AgainOf(w, g, v)
  BY <1>2 DEF Linked, Incoming, OwnerOf, AgainOf
<1>7. \A g \in Fades : Linked(w, g) => Incoming(w, g) \in Voice
  BY IncomingIs DEF FadeCore, CrossIn
<1>8. PicsIn(x)
  <2>1. \A p \in Picture : LET u == x.pic[p].voice IN
           u \in Voice /\ x.layer[u].on => w.layer[u].on /\ (Live(w, u) => Live(x, u))
    BY <1>3
  <2>2. \A p \in Picture : x.pic[p] = w.pic[p] \/ x.pic[p] = AtRest
    BY <1>2
  <2> QED
    BY <1>1, <1>2, <2>1, <2>2, PicsSame DEF FadeCore
<1>9. VoicesIn(x)
  BY <1>2, <1>3 DEF FadeCore, VoicesIn
<1>10. LinksIn(x)
  BY <1>3 DEF FadeCore, LinksIn
<1>11. CrossIn(x)
  BY <1>2 DEF FadeCore, CrossIn, CrossOf
<1>12. AloneIn(x)
  BY <1>2, <1>3, <1>6 DEF FadeCore, AloneIn, AloneOf
<1>13. StepIn(x)
  <2>1. ASSUME NEW g \in Fades PROVE StepOf(x, g)
    <3>1. StepOf(w, g) /\ w.past.late \subseteq x.past.late /\ x.fade[g] = w.fade[g]
      BY <1>2 DEF FadeCore, StepIn
    <3>2. Linked(w, g) => LET v == Incoming(w, g) IN /\ x.layer[v].link = w.layer[v].link
                                                     /\ Live(x, v) => Live(w, v)
      BY <1>3, <1>7
    <3> QED
      BY <1>1, <3>1, <3>2, StepSame
  <2> QED
    BY <2>1 DEF StepIn
<1>14. Linked(w, f) /\ k = Span /\ Live(w, Incoming(w, f)) =>
              x.layer[Incoming(w, f)].gain = "full" \/ Incoming(w, f) \in Excused(w)
  <2> SUFFICES ASSUME Linked(w, f), k = Span, Live(w, Incoming(w, f))
               PROVE  x.layer[Incoming(w, f)].gain = "full" \/ Incoming(w, f) \in Excused(w)
    OBVIOUS
  <2>1. OwnerOf(w, f, Incoming(w, f))
    BY DEF OwnerOf
  <2>2. x.layer[Incoming(w, f)].gain = w.fade[f].cross.level
    BY <1>4, <1>7, <2>1, FadeIs, ScaledIs
  <2>3. w.fade[f].cross.level # "full" => Incoming(w, f) \in w.past.dull
    BY DEF HistIn, Dulled, Linked
  <2> QED
    BY <2>2, <2>3 DEF Excused
<1>15. DoneIn(x)
  <2>1. ASSUME NEW g \in Fades, Linked(w, g), w.fade[g].state # "standby", w.fade[g].done
        PROVE  /\ w.fade[g].clock = Span
               /\ Live(x, Incoming(w, g)) => \/ x.layer[Incoming(w, g)].gain = "full"
                                             \/ Incoming(w, g) \in Excused(w)
    <3> DEFINE u == Incoming(w, g)
    <3>1. w.fade[g].clock = Span /\ (Live(w, u) => w.layer[u].gain = "full" \/ u \in Excused(w))
      BY <2>1 DEF FadeCore, DoneIn, DoneOf
    <3>2. u \in Voice
      BY <1>7, <2>1
    <3>3. CASE g = f
      BY <1>3, <1>14, <2>1, <3>1, <3>2, <3>3
    <3>4. CASE g # f
      <4>1. ~OwnerOf(w, f, u)
        BY <2>1, <3>4, OneDrives DEF OwnerOf
      <4> HIDE DEF u
      <4>2. x.layer[u].gain = w.layer[u].gain \/ u \in Excused(w)
        BY <1>5, <3>2, <4>1
      <4>3. Live(x, u) => Live(w, u)
        BY <1>3, <3>2
      <4> QED
        BY <3>1, <4>2, <4>3 DEF u
    <3> QED
      BY <3>3, <3>4
  <2> QED
    BY <1>2, <1>6, <2>1 DEF DoneIn, DoneOf
<1>16. DimIn(x)
  <2>1. \A v \in Voice : x.layer[v].opacity = w.layer[v].opacity \/ v \in w.past.faded
    BY <1>4, <1>5
  <2>2. \A v \in Voice : Live(w, v) /\ w.layer[v].shown /\ w.layer[v].opacity # "full" =>
          \/ v \in w.past.faded \cup w.past.dim \cup w.past.spent
          \/ w.layer[v].link.is /\ ~Mixes(w.layer[v].link)
          \/ \E u \in Voice : \E o \in w.layer[u].link.out : o.voice = v /\ o.apart
    BY DEF FadeCore, DimIn
  <2>3. \A v \in Voice : (\E u \in Voice : \E o \in w.layer[u].link.out : o.voice = v /\ o.apart)
                      => (\E u \in Voice : \E o \in x.layer[u].link.out : o.voice = v /\ o.apart)
    BY <1>3
  <2> QED
    BY <1>2, <1>3, <2>1, <2>2, <2>3 DEF DimIn
<1>17. SoundIn(x, Fades)
  <2> SUFFICES ASSUME NEW v \in Voice, Live(x, v), x.layer[v].gain # "full"
               PROVE  \/ \E g \in Fades : OwnerOf(x, g, v)
                      \/ v \in Excused(x)
                      \/ \E g \in Fades : AgainOf(x, g, v)
    BY DEF SoundIn
  <2>1. CASE OwnerOf(w, f, v)
    BY <1>6, <2>1
  <2>2. CASE ~OwnerOf(w, f, v)
    <3>1. v \in Excused(w) \/ (Live(w, v) /\ w.layer[v].gain # "full")
      BY <1>3, <1>5, <2>2
    <3>2. \/ \E g \in Fades : OwnerOf(w, g, v)
          \/ v \in Excused(w)
          \/ \E g \in Fades : AgainOf(w, g, v)
      BY <3>1 DEF SoundIn
    <3> QED
      BY <1>2, <1>6, <3>2
  <2> QED
    BY <2>1, <2>2
<1>18. HistIn(x)
  <2>1. OnlyFade(w, x, f) /\ x.fade[f].targets = w.fade[f].targets /\ x.fade[f].cross = w.fade[f].cross
    BY <1>2 DEF OnlyFade
  <2> QED
    BY <1>1, <1>2, <1>3, <2>1, HistSame
<1>19. FadeCore(x)
  BY <1>8, <1>9, <1>10, <1>11, <1>12, <1>13, <1>15, <1>16 DEF FadeCore
<1>20. Linked(x, f) /\ k = Span /\ Live(x, Incoming(x, f)) =>
              x.layer[Incoming(x, f)].gain = "full" \/ Incoming(x, f) \in Excused(x)
  BY <1>2, <1>3, <1>6, <1>7, <1>14
<1> QED
  BY <1>1, <1>2, <1>17, <1>18, <1>19, <1>20 DEF x

\* A Fade that is through says so.
LEMMA DoneKeeps ==
  ASSUME NEW w \in Worlds, NEW f \in Fades, FadeCore(w), HistIn(w), SoundIn(w, Fades),
         ~w.fade[f].awaiting, ~w.fade[f].waits, w.fade[f].clock = Span,
         Linked(w, f) /\ Live(w, Incoming(w, f)) =>
           w.layer[Incoming(w, f)].gain = "full" \/ Incoming(w, f) \in Excused(w)
  PROVE  LET x == [w EXCEPT !.fade[f].done = TRUE] IN
         x \in Worlds /\ FadeCore(x) /\ HistIn(x) /\ SoundIn(x, Fades)
<1> DEFINE r == w.fade[f]
           h == [r EXCEPT !.done = TRUE]
           x == [w EXCEPT !.fade[f].done = TRUE]
<1>0. x = WithFade(w, f, h)
  BY DEF WithFade
<1>1. /\ h \in FadeRecords /\ h.state = r.state /\ h.waits = r.waits /\ h.clock = r.clock /\ h.runs = r.runs
      /\ h.awaiting = r.awaiting /\ h.done /\ h.cross = r.cross /\ h.targets = r.targets
  <2>1. r \in FadeRecords
    BY FadeIs
  <2> QED
    BY <2>1, RecordIs DEF FadeRecords
<1> HIDE DEF h, x
<1>2. FadeAlone(w, x, f) /\ x.fade[f] = h
  BY <1>0, <1>1, FadeAloneIs
<1>3. /\ x \in Worlds /\ x.layer = w.layer /\ SameRest(w, x) /\ OnlyFade(w, x, f) /\ x.past = w.past
      /\ x.of = w.of /\ x.next = w.next /\ x.pic = w.pic
  BY <1>2 DEF FadeAlone, SameRest
<1>4. CrossOf(w, f) /\ AloneOf(w, f) /\ StepOf(w, f)
  BY DEF FadeCore, CrossIn, AloneIn, StepIn
<1>5. (Linked(x, f) <=> Linked(w, f)) /\ Incoming(x, f) = Incoming(w, f) /\ Excused(x) = Excused(w) /\ Grows(w, x)
  BY <1>1, <1>2, <1>3 DEF Linked, Incoming, Excused, Grows
<1>6. CrossOf(x, f)
  BY <1>1, <1>2, <1>3, <1>4 DEF CrossOf
<1>7. AloneOf(x, f)
  BY <1>1, <1>2, <1>3, <1>4, <1>5 DEF AloneOf
<1>8. StepOf(x, f)
  <2>1. \A l, b : Together(r, l, b) => Together(h, l, b)
    BY <1>1 DEF Together
  <2> HIDE DEF r
  <2>2. r = w.fade[f]
    BY DEF r
  <2> QED
    BY <1>1, <1>2, <1>3, <1>4, <1>5, <2>1, <2>2 DEF StepOf, Live
<1>9. DoneOf(x, f)
  BY <1>1, <1>2, <1>3, <1>5 DEF DoneOf, Live
<1>10. FadeCore(x)
  BY <1>3, <1>5, <1>6, <1>7, <1>8, <1>9, FadeOnlyCore DEF OneIn
<1>11. SoundIn(x, Fades)
  <2>1. \A u \in Voice : /\ Live(x, u) <=> Live(w, u)
                         /\ OwnerOf(w, f, u) => OwnerOf(x, f, u)
                         /\ AgainOf(w, f, u) => AgainOf(x, f, u)
    BY <1>1, <1>2, <1>3, <1>5 DEF Live, OwnerOf, AgainOf
  <2>2. \A u \in Voice : Live(x, u) /\ x.layer[u].gain # "full" =>
           \/ u \in Excused(x) \/ (\E g \in Fades : OwnerOf(x, g, u)) \/ (\E g \in Fades : AgainOf(x, g, u))
           \/ /\ Live(w, u) /\ w.layer[u].gain # "full"
              /\ ~OwnerOf(w, f, u) /\ (f \in Fades => ~AgainOf(w, f, u))
    BY <1>3, <2>1
  <2> QED
    BY <1>3, <1>5, <2>2, SoundOnlyFade
<1>12. HistIn(x)
  BY <1>1, <1>2, <1>3, HistSame
<1> QED
  BY <1>3, <1>10, <1>11, <1>12 DEF x

\* A Fade stops pictures.
LEMMA StopsIs ==
  ASSUME NEW w \in Worlds, NEW f \in Fades
  PROVE  StopsAtEnd(w, f) \in SUBSET Picture
<1>1. w.fade[f].cross.targets \in SUBSET Picture /\ Plan[f].targets \subseteq Picture
  BY FadeIs, Constants
<1> QED
  BY <1>1 DEF StopsAtEnd

\* What holds while the Fades are ticked: one that lost its link has yet to ask again.
FadesTicked(w) == w \in Worlds /\ FadeCore(w) /\ HistIn(w) /\ SoundIn(w, Fades)

\* The tick proper.
LEMMA FadeActionKeeps ==
  ASSUME OneFadeEach, NEW w, NEW f \in Fades, FadesTicked(w),
         w.fade[f].state = "running", ~w.fade[f].awaiting, ~w.fade[f].waits
  PROVE  FadesTicked(FadeAction(w, f).w) /\ FadeAction(w, f).stops \in SUBSET Picture
<1> DEFINE k == w.fade[f].clock
           w1 == IF k < Span THEN DropAbandoned(w, f) ELSE w
           w2 == SetLevels(w1, f, k)
           w3 == [w2 EXCEPT !.fade[f].done = TRUE]
           ends == k >= Span /\ ~w.fade[f].done
           idle == ~w.fade[f].runs \/ (w.fade[f].targets = {} /\ w.fade[f].cross.is # "linked")
<1>0. w \in Worlds /\ FadeCore(w) /\ HistIn(w) /\ SoundIn(w, Fades)
  BY DEF FadesTicked
<1>1. FadeAction(w, f) = IF idle THEN [w |-> w, stops |-> {}]
                         ELSE [w |-> IF ends THEN w3 ELSE w2,
                               stops |-> IF ends THEN StopsAtEnd(w1, f) ELSE {}]
  BY DEF FadeAction
<1>2. k \in 0..Span
  BY <1>0, FadeIs
<1>3. /\ w1 \in Worlds /\ FadeCore(w1) /\ HistIn(w1) /\ SoundIn(w1, Fades)
      /\ w1.fade[f].state = "running" /\ ~w1.fade[f].awaiting /\ ~w1.fade[f].waits /\ w1.fade[f].clock = k
  <2>1. CASE k < Span
    <3>1. w1 = DropAbandoned(w, f)
      BY <2>1
    <3> HIDE DEF w1
    <3> QED
      BY <1>0, <2>1, <3>1, DroppedKeeps
  <2>2. CASE ~(k < Span)
    <3>1. w1 = w
      BY <2>2
    <3> QED
      BY <1>0, <3>1
  <2> QED
    BY <2>1, <2>2
<1> HIDE DEF w1, k
<1>4. /\ w2 \in Worlds /\ FadeCore(w2) /\ HistIn(w2) /\ SoundIn(w2, Fades) /\ w2.fade = w1.fade
      /\ Linked(w2, f) /\ k = Span /\ Live(w2, Incoming(w2, f)) =>
           w2.layer[Incoming(w2, f)].gain = "full" \/ Incoming(w2, f) \in Excused(w2)
  BY <1>2, <1>3, LevelsKeep
<1> HIDE DEF w2
<1>5. ends => w3 \in Worlds /\ FadeCore(w3) /\ HistIn(w3) /\ SoundIn(w3, Fades)
  <2>1. ends => k = Span
    BY <1>2, Constants
  <2> SUFFICES ASSUME k = Span PROVE w3 \in Worlds /\ FadeCore(w3) /\ HistIn(w3) /\ SoundIn(w3, Fades)
    BY <2>1
  <2> QED
    BY <1>3, <1>4, DoneKeeps
<1>6. StopsAtEnd(w1, f) \in SUBSET Picture
  BY <1>3, StopsIs
<1> HIDE DEF w3, ends, idle
<1>7. FadesTicked(w2) /\ (ends => FadesTicked(w3))
  BY <1>4, <1>5 DEF FadesTicked
<1> QED
  BY <1>1, <1>6, <1>7

\* A tick, whatever the Fade is at.
LEMMA TickFadeKeeps ==
  ASSUME OneFadeEach, NEW w, NEW f \in Fades, FadesTicked(w)
  PROVE  FadesTicked(TickFade(w, f).w) /\ TickFade(w, f).stops \in SUBSET Picture
<1> DEFINE r == w.fade[f]
           v == Incoming(w, f)
           w1 == IF r.awaiting /\ r.cross.is = "linked" THEN PictureArrived(w, f) ELSE w
           wait == WithFade(w, f, Waited(r))
           nothing == {}
<1>0. w \in Worlds /\ FadeCore(w) /\ HistIn(w) /\ SoundIn(w, Fades)
  BY DEF FadesTicked
<1>1. TickFade(w, f) = IF r.state # "running" THEN [w |-> w, stops |-> nothing]
                       ELSE IF r.waits THEN [w |-> wait, stops |-> nothing]
                       ELSE IF w1.fade[f].awaiting THEN [w |-> w1, stops |-> nothing]
                       ELSE FadeAction(w1, f)
  BY DEF TickFade, WithFade
<1>2. r.waits => FadesTicked(wait)
  BY <1>0, WaitedKeeps DEF FadesTicked
<1>3. ASSUME r.state = "running", ~r.waits
      PROVE  /\ FadesTicked(w1)
             /\ ~w1.fade[f].awaiting => w1.fade[f].state = "running" /\ ~w1.fade[f].waits
  <2>1. CASE ~(r.awaiting /\ r.cross.is = "linked")
    <3>1. w1 = w
      BY <2>1
    <3> QED
      BY <1>3, <3>1
  <2>2. CASE r.awaiting /\ Linked(w, f)
    <3>0. w1 = PictureArrived(w, f)
      BY <2>2 DEF Linked
    <3> HIDE DEF w1
    <3>1. CrossOf(w, f) /\ AloneOf(w, f)
      BY <1>0 DEF FadeCore, CrossIn, AloneIn
    <3>2. v \in Voice /\ w.of[v] = Plan[f].into
      BY <1>0, <2>2, <3>1, IncomingIs
    <3>3. w.layer[v].link.is => OnSlot(w, v)
      BY <1>0, <3>2, Constants DEF FadeCore, LinksIn, Live, OnSlot
    <3>4. CASE Phase(w, v) = "started"
      <4>1. w.layer[v].link.is /\ w.layer[v].link.started
        BY <3>4 DEF Phase
      <4> DEFINE x == WithFade(w, f, Underway(r, w.layer[v].link.since))
      <4>2. w1 = x
        BY <3>0, <3>4 DEF PictureArrived, WithFade, Incoming
      <4>3. /\ x \in Worlds /\ FadeCore(x) /\ HistIn(x) /\ SoundIn(x, Fades)
            /\ ~x.fade[f].awaiting /\ x.fade[f].state = "running"
        BY <1>0, <1>3, <2>2, <4>1, UnderwayKeeps
      <4>4. x.fade[f].waits = r.waits
        <5>1. w.layer[v].link.since \in 0..Span
          BY <1>0, <3>2, LayerIs, LinkIs
        <5> DEFINE h == Underway(r, w.layer[v].link.since)
        <5>2. r \in FadeRecords
          BY <1>0, FadeIs
        <5>3. h \in FadeRecords /\ h.waits = r.waits
          BY <5>1, <5>2, UnderwayIs
        <5> HIDE DEF h
        <5>4. WithFade(w, f, h).fade[f] = h
          BY <1>0, <5>3, FadeAloneIs
        <5> QED
          BY <5>3, <5>4 DEF h
      <4> HIDE DEF x
      <4> QED
        BY <1>3, <4>2, <4>3, <4>4 DEF FadesTicked
    <3>5. CASE Phase(w, v) = "none"
      <4>1. w1 = Asked(w, f)
        BY <3>0, <3>5 DEF PictureArrived, Incoming
      <4>2. ~w.layer[v].link.is
        BY <3>3, <3>5 DEF Phase
      <4>3. \A u \in Voice : w.of[u] = Plan[f].into => ~w.layer[u].link.is
        BY <2>2, <3>1, <4>2 DEF AloneOf
      <4> DEFINE x == Asked(w, f)
      <4>4. /\ x.of = w.of /\ x.fade[f].cross.is = "pending" /\ x.fade[f].cross.started
            /\ x.fade[f].state = r.state /\ x.fade[f].waits = r.waits /\ x.fade[f].awaiting = r.awaiting
            /\ x.fade[f].targets = r.targets /\ x.past = w.past /\ x.layer = w.layer /\ OnlyFade(w, x, f)
            /\ x.fade[f].cross = Pending(TRUE)
        BY <1>0, AskedIs DEF FadeAlone, SameRest
      <4>5. \A u \in Voice : OwnerOf(w, f, u) => AgainOf(x, f, u)
        BY <1>3, <3>2, <4>4 DEF OwnerOf, AgainOf
      <4>6. \A u \in Voice : ~AgainOf(w, f, u)
        BY <2>2 DEF AgainOf, Linked
      <4>7. x \in Worlds /\ FadeCore(x) /\ SoundIn(x, Fades)
        <5>1. \A u \in Voice : Live(w, u) /\ w.layer[u].gain # "full"
                               /\ (OwnerOf(w, f, u) \/ (f \in Fades /\ AgainOf(w, f, u)))
                                 => u \in Excused(w) \/ (f \in Fades /\ AgainOf(Asked(w, f), f, u))
          BY <4>5, <4>6
        <5>2. w.fade[f].cross.is # "none" /\ w.fade[f].awaiting
          BY <2>2 DEF Linked
        <5> HIDE DEF x
        <5> QED
          BY <1>0, <4>3, <5>1, <5>2, AskedKeeps DEF x
      <4>8. HistIn(x)
        <5>1. x.fade[f].cross.sounds = {} /\ ~Linked(x, f)
          BY <4>4 DEF Pending, Plain, Linked
        <5> HIDE DEF x
        <5> QED
          BY <1>0, <4>4, <4>7, <5>1, HistSame
      <4> HIDE DEF x
      <4> QED
        BY <2>2, <4>1, <4>4, <4>7, <4>8 DEF FadesTicked, x
    <3>6. CASE Phase(w, v) # "started" /\ Phase(w, v) # "none"
      <4>1. w1 = w
        BY <3>0, <3>6 DEF PictureArrived, Incoming
      <4> QED
        BY <2>2, <4>1
    <3> QED
      BY <3>4, <3>5, <3>6
  <2> QED
    BY <2>1, <2>2 DEF Linked
<1> HIDE DEF w1, wait
<1>4. CASE r.state # "running"
  BY <1>1, <1>4
<1>5. CASE r.state = "running" /\ r.waits
  BY <1>1, <1>2, <1>5
<1>6. CASE r.state = "running" /\ ~r.waits
  <2>1. FadesTicked(w1) /\ (~w1.fade[f].awaiting => w1.fade[f].state = "running" /\ ~w1.fade[f].waits)
    BY <1>3, <1>6
  <2>2. CASE w1.fade[f].awaiting
    BY <1>1, <1>6, <2>1, <2>2
  <2>3. CASE ~w1.fade[f].awaiting
    <3>1. TickFade(w, f) = FadeAction(w1, f)
      BY <1>1, <1>6, <2>3
    <3> QED
      BY <2>1, <2>3, <3>1, FadeActionKeeps
  <2> QED
    BY <2>2, <2>3
<1> QED
  BY <1>4, <1>5, <1>6

---------------------------------------------------------------------------
(***************************************************************************)
(* A pass over the Fades, one after the other.                              *)
(***************************************************************************)
\* What is worked out in stages, each from the one before, exists.
LEMMA Stages ==
  ASSUME NEW N \in Nat, NEW D, NEW a \in D[0], NEW step, \A k \in 1..N : step[k] \in [D[k - 1] -> D[k]]
  PROVE  \E f : /\ f = [i \in 0..N |-> IF i = 0 THEN a ELSE step[i][f[i - 1]]]
                /\ \A k \in 0..N : f[k] \in D[k]
<1> DEFINE Works(n, f) == /\ f = [i \in 0..n |-> IF i = 0 THEN a ELSE step[i][f[i - 1]]]
                          /\ \A k \in 0..n : f[k] \in D[k]
           S == {n \in 0..N : \E f : Works(n, f)}
<1>1. 0 \in S
  <2> DEFINE f == [k \in 0..0 |-> a]
  <2>1. f[0] = a /\ 0..0 = {0} /\ 0 \in 0..N
    OBVIOUS
  <2>2. f = [i \in 0..0 |-> IF i = 0 THEN a ELSE step[i][f[i - 1]]]
    <3> HIDE DEF f
    <3>1. f = [i \in 0..0 |-> a]
      BY DEF f
    <3> QED
      BY <2>1, <3>1
  <2>3. Works(0, f)
    BY <2>1, <2>2
  <2> HIDE DEF Works, f
  <2> QED
    BY <2>1, <2>3
<1>2. ASSUME NEW k \in 1..N, k - 1 \in S PROVE k \in S
  <2>1. PICK f : Works(k - 1, f)
    BY <1>2
  <2>2. k - 1 \in 0..(k - 1) /\ f[k - 1] \in D[k - 1]
    BY <2>1
  <2> DEFINE v == step[k][f[k - 1]]
             g == [i \in 0..k |-> IF i = k THEN v ELSE f[i]]
  <2>3. v \in D[k]
    BY <2>2
  <2>4. (\A i \in 0..(k - 1) : g[i] = f[i]) /\ g[k] = v /\ DOMAIN g = 0..k
    <3> HIDE DEF v
    <3>1. \A i \in 0..(k - 1) : i \in 0..k /\ i # k
      OBVIOUS
    <3>2. k \in 0..k
      OBVIOUS
    <3> QED
      BY <3>1, <3>2
  <2>5. \A i \in 0..k : i = k \/ (i \in 0..(k - 1) /\ (i # 0 => i - 1 \in 0..(k - 1)))
    OBVIOUS
  <2>6. \A i \in 0..(k - 1) : f[i] = IF i = 0 THEN a ELSE step[i][f[i - 1]]
    BY <2>1
  <2>7. \A i \in 0..(k - 1) : f[i] \in D[i]
    BY <2>1
  <2>8. g = [i \in 0..k |-> g[i]] /\ k # 0
    OBVIOUS
  <2> HIDE DEF g, Works
  <2>9. \A i \in 0..k : g[i] = IF i = 0 THEN a ELSE step[i][g[i - 1]]
    <3> TAKE i \in 0..k
    <3>1. CASE i = k
      BY <2>2, <2>4, <2>8, <3>1
    <3>2. CASE i # k /\ i = 0
      BY <2>4, <2>5, <2>6, <3>2
    <3>3. CASE i # k /\ i # 0
      <4>1. i \in 0..(k - 1) /\ i - 1 \in 0..(k - 1)
        BY <2>5, <3>3
      <4> QED
        BY <2>4, <2>6, <3>3, <4>1
    <3> QED
      BY <3>1, <3>2, <3>3
  <2>10. g = [i \in 0..k |-> IF i = 0 THEN a ELSE step[i][g[i - 1]]]
    BY <2>8, <2>9
  <2>11. \A i \in 0..k : g[i] \in D[i]
    BY <2>3, <2>4, <2>5, <2>7
  <2>12. Works(k, g)
    BY <2>10, <2>11 DEF Works
  <2> QED
    BY <2>12, k \in 0..N
<1>3. 0..N \subseteq S
  <2> HIDE DEF S
  <2> QED
    BY <1>1, <1>2, UpTo
<1>4. \E f : Works(N, f)
  <2> HIDE DEF Works
  <2> QED
    BY <1>3, N \in 0..N
<1> QED
  BY <1>4

\* The Fades, in order.
LEMMA FadesAre == Len(Fade) \in Nat /\ \A k \in 1..Len(Fade) : Fade[k] \in Fades
BY CrossfadeAssumption DEF CrossfadeAssumption

\* The ticks of the Fades.
LEMMA TicksKeep ==
  ASSUME OneFadeEach, FadesTicked(World)
  PROVE  FadesTicked(Ticked[Len(Fade)].w) /\ Ticked[Len(Fade)].stops \in SUBSET Picture
<1> DEFINE N == Len(Fade)
           States == {a \in [w : Worlds, stops : SUBSET Picture] : FadesTicked(a.w)}
           First == [w |-> World, stops |-> {}]
           Onward(a, f) == [w |-> Kept(a.w, TickFade(a.w, f).w), stops |-> a.stops \cup TickFade(a.w, f).stops]
           D == [k \in 0..N |-> States]
           step == [k \in 1..N |-> [a \in States |-> Onward(a, Fade[k])]]
<1>0. N \in Nat /\ \A k \in 1..N : Fade[k] \in Fades
  BY FadesAre
<1>1. First \in States
  BY DEF FadesTicked
<1>2. ASSUME NEW a \in States, NEW f \in Fades PROVE Onward(a, f) \in States
  <2>1. FadesTicked(a.w) /\ a.w \in Worlds /\ a.stops \in SUBSET Picture
    OBVIOUS
  <2> DEFINE t == TickFade(a.w, f)
  <2>2. FadesTicked(t.w) /\ t.stops \in SUBSET Picture
    BY <2>1, TickFadeKeeps
  <2> HIDE DEF t
  <2>3. Kept(a.w, t.w) \in Worlds
    BY <2>1, <2>2, KeptIs DEF FadesTicked
  <2>4. FadeCore(Kept(a.w, t.w)) /\ HistIn(Kept(a.w, t.w)) /\ SoundIn(Kept(a.w, t.w), Fades)
    BY <2>1, <2>2, KeptKeeps DEF FadesTicked
  <2>5. FadesTicked(Kept(a.w, t.w))
    BY <2>3, <2>4 DEF FadesTicked
  <2>6. Onward(a, f) = [w |-> Kept(a.w, t.w), stops |-> a.stops \cup t.stops]
    BY DEF t
  <2> HIDE DEF Onward
  <2> QED
    BY <2>1, <2>2, <2>3, <2>5, <2>6
<1> HIDE DEF States, First, Onward, N
<1>3. \E f : /\ f = [i \in 0..N |-> IF i = 0 THEN First ELSE step[i][f[i - 1]]]
             /\ \A k \in 0..N : f[k] \in D[k]
  <2>1. First \in D[0]
    BY <1>0, <1>1
  <2>2. \A k \in 1..N : step[k] \in [D[k - 1] -> D[k]]
    <3> TAKE k \in 1..N
    <3>1. D[k - 1] = States /\ D[k] = States
      BY <1>0
    <3>2. step[k] \in [States -> States]
      BY <1>0, <1>2
    <3> QED
      BY <3>1, <3>2
  <2> HIDE DEF step, D
  <2>3. \A n \in Nat : \A d : \A a \in d[0] : \A s :
          (\A k \in 1..n : s[k] \in [d[k - 1] -> d[k]]) =>
            \E f : /\ f = [i \in 0..n |-> IF i = 0 THEN a ELSE s[i][f[i - 1]]]
                  /\ \A k \in 0..n : f[k] \in d[k]
    BY Stages, Zenon
  <2>4. \A a \in D[0] : \A s :
          (\A k \in 1..N : s[k] \in [D[k - 1] -> D[k]]) =>
            \E f : /\ f = [i \in 0..N |-> IF i = 0 THEN a ELSE s[i][f[i - 1]]]
                  /\ \A k \in 0..N : f[k] \in D[k]
    BY <1>0, <2>3, Zenon
  <2>5. (\A k \in 1..N : step[k] \in [D[k - 1] -> D[k]]) =>
            \E f : /\ f = [i \in 0..N |-> IF i = 0 THEN First ELSE step[i][f[i - 1]]]
                  /\ \A k \in 0..N : f[k] \in D[k]
    BY <2>1, <2>4, Zenon
  <2> QED
    BY <2>2, <2>5, Zenon
<1>4. PICK f : /\ f = [i \in 0..N |-> IF i = 0 THEN First ELSE step[i][f[i - 1]]]
               /\ \A k \in 0..N : f[k] \in D[k]
  BY <1>3
<1>5. f = [i \in 0..N |-> IF i = 0 THEN First ELSE Onward(f[i - 1], Fade[i])]
  <2>1. ASSUME NEW i \in 0..N, i # 0 PROVE step[i][f[i - 1]] = Onward(f[i - 1], Fade[i])
    <3>1. i \in 1..N /\ i - 1 \in 0..N
      BY <1>0, <2>1
    <3>2. f[i - 1] \in States
      BY <1>4, <3>1
    <3> QED
      BY <3>1, <3>2
  <2>2. \A i \in 0..N : (IF i = 0 THEN First ELSE step[i][f[i - 1]])
                        = (IF i = 0 THEN First ELSE Onward(f[i - 1], Fade[i]))
    BY <2>1
  <2> HIDE DEF step, D
  <2> QED
    BY <1>4, <2>2
<1>6. Ticked = [i \in 0..N |-> IF i = 0 THEN First ELSE Onward(Ticked[i - 1], Fade[i])]
  BY <1>5, Zenon DEF Ticked, First, Onward, N
<1> DEFINE S == {k \in 0..N : Ticked[k] \in States}
<1>7. 0 \in S
  BY <1>0, <1>1, <1>6
<1>8. ASSUME NEW k \in 1..N, k - 1 \in S PROVE k \in S
  <2>1. Ticked[k] = Onward(Ticked[k - 1], Fade[k]) /\ k \in 0..N
    BY <1>0, <1>6
  <2>2. Ticked[k - 1] \in States /\ Fade[k] \in Fades
    BY <1>0, <1>8
  <2> QED
    BY <1>2, <2>1, <2>2
<1>9. 0..N \subseteq S
  <2> HIDE DEF S
  <2> QED
    BY <1>0, <1>7, <1>8, UpTo
<1>10. Ticked[N] \in States
  BY <1>0, <1>9
<1> QED
  BY <1>10 DEF States, N

\* The pass over the crossfades that wait: a Fade whose link is gone asks for it again
\* before the pass is over.
Ahead(k) == {Fade[j] : j \in k + 1 .. Len(Fade)}
Reached(w, k) == w \in Worlds /\ FadeCore(w) /\ HistIn(w) /\ SoundIn(w, Ahead(k))

\* Whoever was pushed on has asked for what it lost.
LEMMA PushedKeeps ==
  ASSUME OneFadeEach, NEW w, NEW ok, NEW k \in 1..Len(Fade), Reached(w, k - 1)
  PROVE  Reached(Pushed(w, Fade[k], ok), k)
<1> DEFINE f == Fade[k]
           S == Ahead(k - 1)
           T == Ahead(k)
           x == Advance(w, f, ok)
<1>0. w \in Worlds /\ FadeCore(w) /\ HistIn(w) /\ SoundIn(w, S)
  BY DEF Reached
<1>1. f \in Fades /\ S \in SUBSET Fades
  BY FadesAre DEF Ahead
<1>2. \A g \in S : g = f \/ g \in T
  <2>1. \A j \in (k - 1) + 1 .. Len(Fade) : j = k \/ j \in k + 1 .. Len(Fade)
    BY FadesAre
  <2> QED
    BY <2>1 DEF Ahead
<1> HIDE DEF f, S, T
<1>3. CASE w.fade[f].state = "running"
  <2>1. x \in Worlds /\ FadeCore(x) /\ SoundIn(x, T)
    BY <1>0, <1>1, <1>2, <1>3, AdvanceKeeps
  <2> HIDE DEF x
  <2>2. Kept(w, x) \in Worlds
    BY <1>0, <2>1, KeptIs
  <2>3. FadeCore(Kept(w, x)) /\ HistIn(Kept(w, x)) /\ SoundIn(Kept(w, x), T)
    BY <1>0, <2>1, KeptKeeps
  <2>4. Pushed(w, f, ok) = Kept(w, x)
    BY <1>3 DEF Pushed, x
  <2> QED
    BY <2>2, <2>3, <2>4 DEF Reached, T, f
<1>4. CASE w.fade[f].state # "running"
  <2>1. \A v \in Voice : Live(w, v) => ~AgainOf(w, f, v)
    BY <1>4 DEF AgainOf
  <2>2. SoundIn(w, T)
    BY <1>0, <1>1, <1>2, <2>1, SoundLeft
  <2>3. Pushed(w, f, ok) = w
    BY <1>4 DEF Pushed
  <2> QED
    BY <1>0, <2>2, <2>3 DEF Reached, T, f
<1> QED
  BY <1>3, <1>4

\* After the pass over them no Fade has lost anything.
LEMMA PushedOnKeeps ==
  ASSUME OneFadeEach, NEW w, NEW ok, FadesTicked(w)
  PROVE  LET x == PushedOn(w, ok) IN x \in Worlds /\ FadeCore(x) /\ HistIn(x) /\ SoundIn(x, {})
<1> DEFINE N == Len(Fade)
           States(k) == {x \in Worlds : Reached(x, k)}
           D == [k \in 0..N |-> States(k)]
           step == [k \in 1..N |-> [x \in States(k - 1) |-> Pushed(x, Fade[k], ok)]]
           All(a) == [i \in 0..N |-> IF i = 0 THEN w ELSE Pushed(a[i - 1], Fade[i], ok)]
           a == CHOOSE g : g = All(g)
<1>0. N \in Nat /\ \A k \in 1..N : Fade[k] \in Fades
  BY FadesAre
<1>1. w \in States(0)
  <2>1. Fades = Ahead(0)
    <3>1. Fade \in Seq(Fades) /\ Fades = {Fade[j] : j \in DOMAIN Fade}
      BY CrossfadeAssumption DEF CrossfadeAssumption, Fades, Range
    <3>2. DOMAIN Fade = 0 + 1 .. N
      BY <3>1
    <3> HIDE DEF Fades
    <3> QED
      BY <3>1, <3>2 DEF Ahead
  <2> QED
    BY <2>1 DEF FadesTicked, Reached
<1>2. ASSUME NEW k \in 1..N, NEW x \in States(k - 1) PROVE Pushed(x, Fade[k], ok) \in States(k)
  <2>1. Reached(Pushed(x, Fade[k], ok), k)
    BY <1>2, PushedKeeps
  <2> QED
    BY <2>1 DEF Reached
<1> HIDE DEF States, N
<1>3. \E f : /\ f = [i \in 0..N |-> IF i = 0 THEN w ELSE step[i][f[i - 1]]]
             /\ \A k \in 0..N : f[k] \in D[k]
  <2>1. w \in D[0]
    BY <1>0, <1>1
  <2>2. \A k \in 1..N : step[k] \in [D[k - 1] -> D[k]]
    <3> TAKE k \in 1..N
    <3>1. D[k - 1] = States(k - 1) /\ D[k] = States(k)
      BY <1>0
    <3>2. step[k] \in [States(k - 1) -> States(k)]
      BY <1>0, <1>2
    <3> QED
      BY <3>1, <3>2
  <2> HIDE DEF step, D
  <2>3. \A n \in Nat : \A d : \A c \in d[0] : \A s :
          (\A k \in 1..n : s[k] \in [d[k - 1] -> d[k]]) =>
            \E f : /\ f = [i \in 0..n |-> IF i = 0 THEN c ELSE s[i][f[i - 1]]]
                  /\ \A k \in 0..n : f[k] \in d[k]
    BY Stages, Zenon
  <2>4. \A c \in D[0] : \A s :
          (\A k \in 1..N : s[k] \in [D[k - 1] -> D[k]]) =>
            \E f : /\ f = [i \in 0..N |-> IF i = 0 THEN c ELSE s[i][f[i - 1]]]
                  /\ \A k \in 0..N : f[k] \in D[k]
    BY <1>0, <2>3, Zenon
  <2>5. (\A k \in 1..N : step[k] \in [D[k - 1] -> D[k]]) =>
            \E f : /\ f = [i \in 0..N |-> IF i = 0 THEN w ELSE step[i][f[i - 1]]]
                  /\ \A k \in 0..N : f[k] \in D[k]
    BY <2>1, <2>4, Zenon
  <2> QED
    BY <2>2, <2>5, Zenon
<1>4. PICK f : /\ f = [i \in 0..N |-> IF i = 0 THEN w ELSE step[i][f[i - 1]]]
               /\ \A k \in 0..N : f[k] \in D[k]
  BY <1>3
<1>5. f = All(f)
  <2>1. ASSUME NEW i \in 0..N, i # 0 PROVE step[i][f[i - 1]] = Pushed(f[i - 1], Fade[i], ok)
    <3>1. i \in 1..N /\ i - 1 \in 0..N
      BY <1>0, <2>1
    <3>2. f[i - 1] \in States(i - 1)
      BY <1>4, <3>1
    <3> QED
      BY <3>1, <3>2
  <2>2. \A i \in 0..N : (IF i = 0 THEN w ELSE step[i][f[i - 1]])
                        = (IF i = 0 THEN w ELSE Pushed(f[i - 1], Fade[i], ok))
    BY <2>1
  <2> HIDE DEF step, D
  <2> QED
    BY <1>4, <2>2
<1>6. a = All(a)
  <2> HIDE DEF All
  <2> QED
    BY <1>5, Zenon
<1>7. PushedOn(w, ok) = a[N]
  BY Zenon DEF PushedOn, N
<1> HIDE DEF a
<1> DEFINE S == {k \in 0..N : a[k] \in States(k)}
<1>8. 0 \in S
  BY <1>0, <1>1, <1>6
<1>9. ASSUME NEW k \in 1..N, k - 1 \in S PROVE k \in S
  <2>1. a[k] = Pushed(a[k - 1], Fade[k], ok) /\ k \in 0..N
    BY <1>0, <1>6
  <2>2. a[k - 1] \in States(k - 1)
    BY <1>9
  <2> QED
    BY <1>2, <2>1, <2>2
<1>10. 0..N \subseteq S
  <2> HIDE DEF S
  <2> QED
    BY <1>0, <1>8, <1>9, UpTo
<1>11. a[N] \in States(N)
  BY <1>0, <1>10
<1>12. Ahead(N) = {}
  BY <1>0 DEF Ahead, N
<1> QED
  BY <1>7, <1>11, <1>12 DEF States, Reached

\* What holds between two steps.
FadesSafe(w) == w \in Worlds /\ FadeCore(w) /\ HistIn(w) /\ SoundIn(w, {})

\* A picture a Fade has queued for a stop.
LEMMA SilencedKeeps ==
  ASSUME NEW w, NEW p \in Picture, FadesSafe(w)
  PROVE  FadesSafe(Silenced(w, p))
<1>1. Silenced(w, p) = IF w.pic[p].state = "running" THEN Kept(w, StopPicture(w, p)) ELSE w
  BY DEF Silenced
<1>2. FadesSafe(Kept(w, StopPicture(w, p)))
  <2> DEFINE x == Kept(w, StopPicture(w, p))
  <2>1. x \in Worlds /\ FadeCore(x) /\ HistIn(x) /\ \A S : SoundIn(w, S) => SoundIn(x, S)
    BY StopPictureKeeps DEF FadesSafe
  <2> HIDE DEF x
  <2> QED
    BY <2>1 DEF FadesSafe, x
<1> QED
  BY <1>1, <1>2

\* What finished Fades queued is stopped, one after the other.
LEMMA StoppedKeeps ==
  ASSUME NEW w, NEW N \in Nat, NEW cues \in [1..N -> Picture], FadesSafe(w)
  PROVE  FadesSafe(Stopped(w, cues))
<1> DEFINE States == {x \in Worlds : FadesSafe(x)}
           D == [k \in 0..N |-> States]
           step == [k \in 1..N |-> [x \in States |-> Silenced(x, cues[k])]]
           All(a) == [i \in 0..N |-> IF i = 0 THEN w ELSE Silenced(a[i - 1], cues[i])]
           a == CHOOSE g : g = All(g)
<1>0. Len(cues) = N /\ \A k \in 1..N : cues[k] \in Picture
  OBVIOUS
<1>1. w \in States
  BY DEF FadesSafe
<1>2. ASSUME NEW p \in Picture, NEW x \in States PROVE Silenced(x, p) \in States
  <2>1. FadesSafe(Silenced(x, p))
    BY <1>2, SilencedKeeps
  <2> QED
    BY <2>1 DEF FadesSafe
<1> HIDE DEF States
<1>3. \E f : /\ f = [i \in 0..N |-> IF i = 0 THEN w ELSE step[i][f[i - 1]]]
             /\ \A k \in 0..N : f[k] \in D[k]
  <2>1. w \in D[0]
    BY <1>1
  <2>2. \A k \in 1..N : step[k] \in [D[k - 1] -> D[k]]
    <3> TAKE k \in 1..N
    <3>1. D[k - 1] = States /\ D[k] = States
      OBVIOUS
    <3>2. step[k] \in [States -> States]
      BY <1>0, <1>2
    <3> QED
      BY <3>1, <3>2
  <2> HIDE DEF step, D
  <2>3. \A n \in Nat : \A d : \A c \in d[0] : \A s :
          (\A k \in 1..n : s[k] \in [d[k - 1] -> d[k]]) =>
            \E f : /\ f = [i \in 0..n |-> IF i = 0 THEN c ELSE s[i][f[i - 1]]]
                  /\ \A k \in 0..n : f[k] \in d[k]
    BY Stages, Zenon
  <2>4. \A c \in D[0] : \A s :
          (\A k \in 1..N : s[k] \in [D[k - 1] -> D[k]]) =>
            \E f : /\ f = [i \in 0..N |-> IF i = 0 THEN c ELSE s[i][f[i - 1]]]
                  /\ \A k \in 0..N : f[k] \in D[k]
    BY <2>3, Zenon
  <2>5. (\A k \in 1..N : step[k] \in [D[k - 1] -> D[k]]) =>
            \E f : /\ f = [i \in 0..N |-> IF i = 0 THEN w ELSE step[i][f[i - 1]]]
                  /\ \A k \in 0..N : f[k] \in D[k]
    BY <2>1, <2>4, Zenon
  <2> QED
    BY <2>2, <2>5, Zenon
<1>4. PICK f : /\ f = [i \in 0..N |-> IF i = 0 THEN w ELSE step[i][f[i - 1]]]
               /\ \A k \in 0..N : f[k] \in D[k]
  BY <1>3
<1>5. f = All(f)
  <2>1. ASSUME NEW i \in 0..N, i # 0 PROVE step[i][f[i - 1]] = Silenced(f[i - 1], cues[i])
    <3>1. i \in 1..N /\ i - 1 \in 0..N
      BY <2>1
    <3>2. f[i - 1] \in States
      BY <1>4, <3>1
    <3> QED
      BY <3>1, <3>2
  <2>2. \A i \in 0..N : (IF i = 0 THEN w ELSE step[i][f[i - 1]])
                        = (IF i = 0 THEN w ELSE Silenced(f[i - 1], cues[i]))
    BY <2>1
  <2> HIDE DEF step, D
  <2> QED
    BY <1>4, <2>2
<1>6. a = All(a)
  <2> HIDE DEF All
  <2> QED
    BY <1>5, Zenon
<1>7. Stopped(w, cues) = a[N]
  BY <1>0, Zenon DEF Stopped
<1> HIDE DEF a
<1> DEFINE S == {k \in 0..N : a[k] \in States}
<1>8. 0 \in S
  BY <1>1, <1>6
<1>9. ASSUME NEW k \in 1..N, k - 1 \in S PROVE k \in S
  <2>1. a[k] = Silenced(a[k - 1], cues[k]) /\ k \in 0..N /\ cues[k] \in Picture
    BY <1>0, <1>6
  <2>2. a[k - 1] \in States
    BY <1>9
  <2> QED
    BY <1>2, <2>1, <2>2
<1>10. 0..N \subseteq S
  <2> HIDE DEF S
  <2> QED
    BY <1>8, <1>9, UpTo
<1>11. a[N] \in States
  BY <1>10
<1> QED
  BY <1>7, <1>11 DEF States

\* A whole pass of the loop.
LEMMA LoopKeeps ==
  ASSUME OneFadeEach, NEW ok, FadesSafe(World)
  PROVE  FadesSafe(Stopped(PushedOn(Ticked[Len(Fade)].w, ok), SetToSeq(Ticked[Len(Fade)].stops)))
<1> DEFINE ticked == Ticked[Len(Fade)]
           x == PushedOn(ticked.w, ok)
           cues == SetToSeq(ticked.stops)
<1>1. FadesTicked(World)
  BY DEF FadesSafe, FadesTicked, SoundIn
<1>2. FadesTicked(ticked.w) /\ ticked.stops \in SUBSET Picture
  BY <1>1, TicksKeep
<1> HIDE DEF ticked
<1>3. FadesSafe(x)
  <2>1. x \in Worlds /\ FadeCore(x) /\ HistIn(x) /\ SoundIn(x, {})
    BY <1>2, PushedOnKeeps
  <2> QED
    BY <2>1 DEF FadesSafe
<1> DEFINE N == Cardinality(ticked.stops)
<1>4. N \in Nat /\ cues \in [1..N -> ticked.stops]
  <2>1. IsFiniteSet(ticked.stops)
    BY <1>2, CrossfadeAssumption, FS_Subset DEF CrossfadeAssumption
  <2>2. N \in Nat /\ ExistsBijection(1..N, ticked.stops)
    BY <2>1, FS_CardinalityType
  <2>3. \E f \in [1..N -> ticked.stops] : IsInjective(f)
    BY <2>2 DEF ExistsBijection, Bijection, Injection
  <2> QED
    BY <2>2, <2>3 DEF SetToSeq
<1>5. cues \in [1..N -> Picture]
  BY <1>2, <1>4
<1> HIDE DEF x, cues, N
<1>6. FadesSafe(Stopped(x, cues))
  BY <1>3, <1>4, <1>5, StoppedKeeps
<1> QED
  BY <1>6 DEF x, cues, ticked

---------------------------------------------------------------------------
(***************************************************************************)
(* The output and time.                                                     *)
(***************************************************************************)
\* What a step of one slot leaves of the others, and of the sound.
OtherSlots(w, x, v) ==
  /\ x.fade = w.fade /\ x.pic = w.pic /\ x.next = w.next /\ x.of = w.of /\ x.past = w.past
  /\ \A u \in Voice : /\ x.layer[u].on = w.layer[u].on /\ x.layer[u].stopping = w.layer[u].stopping
                      /\ x.layer[u].gain = w.layer[u].gain
                      /\ u # v => x.layer[u].link = w.layer[u].link /\ x.layer[u].shown = w.layer[u].shown
                      /\ ~w.layer[u].on => x.layer[u] = w.layer[u]

\* A step of one slot keeps the invariant if its link keeps together with the Fade that drives it.
LEMMA SlotKeeps ==
  ASSUME NEW w \in Worlds, NEW x \in Worlds, NEW v \in Voice, FadeCore(w), HistIn(w), SoundIn(w, {}),
         OtherSlots(w, x, v),
         LET l == w.layer[v].link
             m == x.layer[v].link
         IN /\ ClockIn(m) /\ (m.is => l.is /\ (x.layer[v].shown => m.revealed)) /\ m.out \subseteq l.out
            /\ \A f \in Fades : Linked(w, f) /\ Incoming(w, f) = v /\ l.is
                                /\ w.fade[f].state # "standby"
                                /\ Together(w.fade[f], l, v \in w.past.late) =>
                 IF m.is THEN Together(w.fade[f], m, v \in w.past.late)
                 ELSE w.fade[f].awaiting \/ w.fade[f].clock = Span,
         DimIn(x)
  PROVE  FadesSafe(x)
<1>1. /\ x.fade = w.fade /\ x.pic = w.pic /\ x.next = w.next /\ x.of = w.of /\ x.past = w.past
      /\ Excused(x) = Excused(w)
  BY DEF OtherSlots, Excused
<1>2. \A u \in Voice : /\ Live(x, u) <=> Live(w, u)
                       /\ x.layer[u].gain = w.layer[u].gain /\ x.layer[u].on = w.layer[u].on
                       /\ ~w.layer[u].on => x.layer[u] = w.layer[u]
                       /\ u # v => x.layer[u].link = w.layer[u].link /\ x.layer[u].shown = w.layer[u].shown
  BY DEF OtherSlots, Live
<1>3. \A g \in Fades : /\ Linked(x, g) <=> Linked(w, g)
                       /\ Incoming(x, g) = Incoming(w, g)
                       /\ \A u : OwnerOf(x, g, u) <=> OwnerOf(w, g, u)
  BY <1>1 DEF Linked, Incoming, OwnerOf
<1>4. \A g \in Fades : Linked(w, g) => Incoming(w, g) \in Voice
  BY IncomingIs DEF FadeCore, CrossIn
<1> DEFINE l == w.layer[v].link
           m == x.layer[v].link
<1>5. /\ ClockIn(m) /\ (m.is => l.is /\ (x.layer[v].shown => m.revealed)) /\ m.out \subseteq l.out
      /\ \A f \in Fades : Linked(w, f) /\ Incoming(w, f) = v /\ l.is
                          /\ w.fade[f].state # "standby"
                          /\ Together(w.fade[f], l, v \in w.past.late) =>
           IF m.is THEN Together(w.fade[f], m, v \in w.past.late)
           ELSE w.fade[f].awaiting \/ w.fade[f].clock = Span
  OBVIOUS
<1>6. PicsIn(x)
  <2>1. \A p \in Picture : LET u == x.pic[p].voice IN
           u \in Voice /\ x.layer[u].on => w.layer[u].on /\ (Live(w, u) => Live(x, u))
    BY <1>2
  <2>2. \A p \in Picture : x.pic[p] = w.pic[p] \/ x.pic[p] = AtRest
    BY <1>1
  <2> QED
    BY <1>1, <2>1, <2>2, PicsSame DEF FadeCore
<1>7. VoicesIn(x)
  BY <1>1, <1>2 DEF FadeCore, VoicesIn
<1>8. LinksIn(x)
  <2>1. \A u \in Voice : u # v =>
          /\ ClockIn(x.layer[u].link)
          /\ x.layer[u].link.is => Live(x, u) /\ (x.layer[u].shown => x.layer[u].link.revealed)
          /\ \A o \in x.layer[u].link.out : o.voice # u
    BY <1>2 DEF FadeCore, LinksIn
  <2>2. /\ l.is => Live(x, v)
        /\ \A o \in l.out : o.voice # v
    BY <1>2 DEF FadeCore, LinksIn
  <2>3. ClockIn(m) /\ (m.is => Live(x, v) /\ (x.layer[v].shown => m.revealed)) /\ \A o \in m.out : o.voice # v
    BY <1>5, <2>2
  <2> QED
    BY <2>1, <2>3 DEF LinksIn
<1>9. CrossIn(x)
  BY <1>1 DEF FadeCore, CrossIn, CrossOf
<1>10. AloneIn(x)
  <2>1. \A u \in Voice : x.layer[u].link.is => w.layer[u].link.is
    BY <1>2, <1>5
  <2> QED
    BY <1>1, <1>3, <2>1 DEF FadeCore, AloneIn, AloneOf
<1>11. StepIn(x)
  <2>1. ASSUME NEW f \in Fades PROVE StepOf(x, f)
    <3>0. StepOf(w, f)
      BY DEF FadeCore, StepIn
    <3>1. CASE Linked(w, f) /\ Incoming(w, f) = v
      <4>1. w.fade[f].state # "standby" =>
              /\ l.is => Together(w.fade[f], l, v \in w.past.late)
              /\ Live(w, v) /\ ~l.is => w.fade[f].awaiting \/ w.fade[f].clock = Span
        BY <3>0, <3>1 DEF StepOf
      <4>2. Live(x, v) <=> Live(w, v)
        BY <1>2
      <4>3. w.fade[f].state # "standby" =>
              /\ m.is => Together(w.fade[f], m, v \in w.past.late)
              /\ Live(x, v) /\ ~m.is => w.fade[f].awaiting \/ w.fade[f].clock = Span
        BY <1>5, <3>1, <4>1, <4>2
      <4> HIDE DEF l
      <4> QED
        BY <1>1, <1>3, <3>1, <4>3 DEF StepOf
    <3>2. CASE ~(Linked(w, f) /\ Incoming(w, f) = v)
      <4>1. w.past.late \subseteq x.past.late /\ x.fade[f] = w.fade[f]
        BY <1>1
      <4>2. Linked(w, f) => /\ x.layer[Incoming(w, f)].link = w.layer[Incoming(w, f)].link
                            /\ Live(x, Incoming(w, f)) => Live(w, Incoming(w, f))
        BY <1>2, <1>4, <3>2
      <4> QED
        BY <3>0, <4>1, <4>2, StepSame
    <3> QED
      BY <3>1, <3>2
  <2> QED
    BY <2>1 DEF StepIn
<1>12. DoneIn(x)
  BY <1>1, <1>2, <1>3, <1>4 DEF FadeCore, DoneIn, DoneOf
<1>13. SoundIn(x, {})
  BY <1>1, <1>2, <1>3 DEF SoundIn
<1>14. HistIn(x)
  <2>1. \A u \in Voice : x.layer[u].link.out \subseteq w.layer[u].link.out
    BY <1>2, <1>5
  <2> QED
    BY <1>1, <2>1 DEF HistIn, Dulled, Incoming
<1> QED
  BY <1>6, <1>7, <1>8, <1>9, <1>10, <1>11, <1>12, <1>13, <1>14 DEF FadeCore, FadesSafe

\* The first frame.
Revealed(s) == [s EXCEPT !.shown = TRUE, !.link = IF s.link.is THEN ClockReveal(s.link) ELSE s.link,
                         !.opacity = IF s.link.is /\ ~Mixes(s.link) THEN "none" ELSE "full"]

\* The first frame starts the clock of the link, unless the Fade is paused.
LEMMA RevealKeeps ==
  ASSUME NEW w, NEW v \in Voice, FadesSafe(w), w.layer[v].on, ~w.layer[v].shown
  PROVE  FadesSafe([w EXCEPT !.layer[v] = Revealed(w.layer[v])])
<1> DEFINE s == w.layer[v]
           l == s.link
           m == IF l.is THEN ClockReveal(l) ELSE l
           o == IF l.is /\ ~Mixes(l) THEN "none" ELSE "full"
           t == Revealed(s)
           x == [w EXCEPT !.layer[v] = t]
<1>0. w \in Worlds /\ FadeCore(w) /\ HistIn(w) /\ SoundIn(w, {})
  BY DEF FadesSafe
<1>1. s \in Layers /\ l \in Links /\ ClockIn(l) /\ l.is \in BOOLEAN
  BY <1>0, LayerIs, LinkIs DEF FadeCore, LinksIn
<1>2. /\ m \in Links /\ ClockIn(m) /\ m.is = l.is /\ (m.is => m.revealed) /\ m.out = l.out /\ m.paused = l.paused
      /\ m.done = l.done /\ m.since = l.since
      /\ (l.started => m = l) /\ (m.started /\ ~l.started => ~l.paused /\ l.done = 0 /\ l.since = 0)
  <2>1. CASE l.is
    BY <1>1, <2>1, RevealIs
  <2>2. CASE ~l.is
    BY <1>1, <2>2
  <2> QED
    BY <2>1, <2>2
<1>3. o \in Level /\ (o # "full" => l.is /\ ~Mixes(l))
  BY DEF Level
<1>4. t = [s EXCEPT !.shown = TRUE, !.link = m, !.opacity = o]
  BY DEF Revealed
<1> HIDE DEF m, o, t
<1>5. /\ t \in Layers /\ t.on = s.on /\ t.stopping = s.stopping /\ t.gain = s.gain /\ t.shown
      /\ t.link = m /\ t.opacity = o
  BY <1>1, <1>2, <1>3, <1>4 DEF Layers
<1>6. /\ x \in Worlds /\ x.fade = w.fade /\ x.pic = w.pic /\ x.layer = [w.layer EXCEPT ![v] = t]
      /\ x.next = w.next /\ x.of = w.of /\ x.past = w.past
  BY <1>0, <1>5, PutLayer
<1> HIDE DEF x
<1>7. x.layer[v] = t /\ \A u \in Voice : u # v => x.layer[u] = w.layer[u]
  BY <1>0, <1>6, WorldIs
<1>8. OtherSlots(w, x, v)
  BY <1>5, <1>6, <1>7 DEF OtherSlots
<1>9. \A f \in Fades : Linked(w, f) /\ Incoming(w, f) = v /\ l.is
                       /\ w.fade[f].state # "standby"
                       /\ Together(w.fade[f], l, v \in w.past.late) =>
           IF m.is THEN Together(w.fade[f], m, v \in w.past.late)
           ELSE w.fade[f].awaiting \/ w.fade[f].clock = Span
  <2> SUFFICES ASSUME NEW f \in Fades, l.is, Together(w.fade[f], l, v \in w.past.late),
                      Linked(w, f), Incoming(w, f) = v, w.fade[f].state # "standby"
               PROVE  Together(w.fade[f], m, v \in w.past.late)
    BY <1>2
  <2> DEFINE r == w.fade[f]
             late == v \in w.past.late
  <2>1. CASE l.started
    BY <1>2, <2>1
  <2>2. CASE ~l.started
    <3> HIDE DEF l, late
    <3>1. r.awaiting /\ (l.paused <=> r.state = "paused")
      BY <2>2 DEF Together, late, l
    <3>2. m.started => ~l.paused /\ m.since = m.done
      BY <1>2, <2>2
    <3>3. m.paused = l.paused
      BY <1>2
    <3>4. m.started => r.state # "paused" /\ m.since = m.done
      BY <3>1, <3>2
    <3>5. r.state \in {"standby", "running", "paused"}
      BY <1>0, FadeIs
    <3> QED
      BY <3>1, <3>3, <3>4, <3>5 DEF Together, late
  <2> QED
    BY <2>1, <2>2
<1>10. DimIn(x)
  <2> HIDE DEF s
  <2>0. s = w.layer[v]
    BY DEF s
  <2>1. \A u \in Voice : x.layer[u].link.out = w.layer[u].link.out
    BY <1>2, <1>5, <1>7, <2>0
  <2>2. \A u \in Voice : u # v => x.layer[u] = w.layer[u] /\ (Live(x, u) <=> Live(w, u))
    BY <1>7 DEF Live
  <2>3. \A u \in Voice : (\E q \in Voice : \E e \in w.layer[q].link.out : e.voice = u /\ e.apart)
                      => (\E q \in Voice : \E e \in x.layer[q].link.out : e.voice = u /\ e.apart)
    BY <2>1
  <2>4. x.layer[v].opacity # "full" => x.layer[v].link.is /\ ~Mixes(x.layer[v].link)
    BY <1>2, <1>3, <1>5, <1>7 DEF Mixes
  <2>5. \A u \in Voice : u # v /\ Live(x, u) /\ x.layer[u].shown /\ x.layer[u].opacity # "full" =>
          \/ u \in x.past.faded \cup x.past.dim \cup x.past.spent
          \/ x.layer[u].link.is /\ ~Mixes(x.layer[u].link)
          \/ \E q \in Voice : \E e \in w.layer[q].link.out : e.voice = u /\ e.apart
    BY <1>0, <1>6, <2>2 DEF FadeCore, DimIn
  <2> QED
    BY <2>3, <2>4, <2>5 DEF DimIn
<1>11. FadesSafe(x)
  <2>1. x.layer[v].link = m
    BY <1>5, <1>7
  <2>2. ClockIn(m) /\ (m.is => l.is /\ (x.layer[v].shown => m.revealed)) /\ m.out \subseteq l.out
    BY <1>2
  <2> HIDE DEF l
  <2>3. l = w.layer[v].link
    BY DEF l
  <2> QED
    BY <1>0, <1>6, <1>8, <1>9, <1>10, <2>1, <2>2, <2>3, SlotKeeps
<1> QED
  BY <1>11 DEF x, t

\* A step of the dissolve.
Driven(w, v) ==
  LET l == w.layer[v].link
      away == { o \in l.out : w.layer[o.voice].on }
      from(u) == (CHOOSE o \in l.out : o.voice = u).from
  IN [u \in Voice |->
       IF u = v
       THEN [w.layer[v] EXCEPT !.opacity = IF Mixes(l) THEN @ ELSE Scaled("full", l.done),
                               !.link = IF Landed(l) /\ away = {} THEN NoLink ELSE @]
       ELSE IF \E o \in away : o.voice = u /\ o.apart
            THEN [w.layer[u] EXCEPT !.opacity = Scaled(from(u), Span - l.done)]
       ELSE w.layer[u]]

\* A link is dropped when it has landed: its Fade has seen it, or has the whole of it to see.
LEMMA DriveKeeps ==
  ASSUME NEW w, NEW v \in Voice, FadesSafe(w), w.layer[v].on, w.layer[v].link.is
  PROVE  FadesSafe([w EXCEPT !.layer = Driven(w, v)])
<1> DEFINE s == w.layer[v]
           l == s.link
           away == { o \in l.out : w.layer[o.voice].on }
           from(u) == (CHOOSE o \in l.out : o.voice = u).from
           faint(u) == Scaled(from(u), Span - l.done)
           dark == IF Mixes(l) THEN s.opacity ELSE Scaled("full", l.done)
           over == Landed(l) /\ away = {}
           m == IF over THEN NoLink ELSE l
           Drawn(u) == \E o \in away : o.voice = u /\ o.apart
           map == Driven(w, v)
           x == [w EXCEPT !.layer = map]
<1>0. w \in Worlds /\ FadeCore(w) /\ HistIn(w) /\ SoundIn(w, {})
  BY DEF FadesSafe
<1>1. s \in Layers /\ l \in Links /\ ClockIn(l) /\ l.is /\ l.out \subseteq Outs /\ l.done \in 0..Span
  BY <1>0, LayerIs, LinkIs DEF FadeCore, LinksIn
<1>2. \A u \in Voice : Drawn(u) => faint(u) \in Level /\ w.layer[u].on
  <2> TAKE u \in Voice
  <2> HAVE Drawn(u)
  <2>1. \E o \in l.out : o.voice = u
    OBVIOUS
  <2>2. (CHOOSE o \in l.out : o.voice = u) \in l.out
    BY <2>1
  <2>3. from(u) \in Level
    BY <1>1, <2>2 DEF Outs
  <2>4. Span - l.done \in Nat
    BY <1>1, Constants
  <2> QED
    BY <2>3, <2>4, ScaledIs
<1>3. dark \in Level
  <2>1. s.opacity \in Level
    BY <1>0, LayerIs
  <2>2. "full" \in Level /\ l.done \in Nat
    BY <1>1, Constants DEF Level
  <2>3. Scaled("full", l.done) \in Level
    BY <2>2, ScaledIs
  <2> QED
    BY <2>1, <2>3
<1>4. m \in Links /\ ClockIn(m) /\ (m.is => m = l) /\ m.out \subseteq l.out /\ (~m.is => over) /\ (over => m = NoLink)
      /\ (~over => m = l)
  BY <1>1, NoLinkIs
<1>5. map = [u \in Voice |-> IF u = v THEN [s EXCEPT !.opacity = dark, !.link = m]
                             ELSE IF Drawn(u) THEN [w.layer[u] EXCEPT !.opacity = faint(u)] ELSE w.layer[u]]
  BY DEF Driven
<1>6. ~Drawn(v)
  BY <1>0 DEF FadeCore, LinksIn
<1>7. over => (dark = s.opacity /\ Mixes(l)) \/ dark = "full"
  BY <1>1, Constants DEF Landed, Scaled
<1>8. \A u \in Voice : (\E e \in l.out : e.voice = u /\ e.apart) /\ w.layer[u].on => Drawn(u)
  OBVIOUS
<1>9. \A u \in Voice : Drawn(u) => ~over /\ \E e \in l.out : e.voice = u /\ e.apart
  OBVIOUS
<1>10. ~Mixes(l) \/ dark = s.opacity
  OBVIOUS
<1>11. over => l.done >= Span
  BY DEF Landed
<1> HIDE DEF map, m, dark, faint, over, Drawn, l, s
<1>s. s = w.layer[v] /\ l = s.link
  BY DEF s, l
<1> DEFINE t == [s EXCEPT !.opacity = dark, !.link = m]
<1>12. /\ t \in Layers /\ t.on = s.on /\ t.stopping = s.stopping /\ t.gain = s.gain /\ t.shown = s.shown
       /\ t.link = m /\ t.opacity = dark
  BY <1>1, <1>3, <1>4 DEF Layers
<1> HIDE DEF t
<1>13. map[v] = t /\ \A u \in Voice : u # v =>
         /\ map[u] \in Layers /\ map[u].on = w.layer[u].on /\ map[u].stopping = w.layer[u].stopping
         /\ map[u].gain = w.layer[u].gain /\ map[u].shown = w.layer[u].shown
         /\ map[u].link = w.layer[u].link
         /\ map[u] # w.layer[u] => Drawn(u)
  <2>1. map[v] = t
    BY <1>5 DEF t
  <2>2. ASSUME NEW u \in Voice, u # v, Drawn(u) PROVE
         /\ map[u] \in Layers /\ map[u].on = w.layer[u].on /\ map[u].stopping = w.layer[u].stopping
         /\ map[u].gain = w.layer[u].gain /\ map[u].shown = w.layer[u].shown
         /\ map[u].link = w.layer[u].link
    <3>1. w.layer[u] \in Layers /\ faint(u) \in Level
      BY <1>0, <1>2, <2>2, LayerIs
    <3>2. map[u] = [w.layer[u] EXCEPT !.opacity = faint(u)]
      BY <1>5, <2>2
    <3> QED
      BY <3>1, <3>2 DEF Layers
  <2>3. ASSUME NEW u \in Voice, u # v, ~Drawn(u) PROVE map[u] = w.layer[u] /\ w.layer[u] \in Layers
    BY <1>0, <1>5, <2>3, LayerIs
  <2> QED
    BY <2>1, <2>2, <2>3
<1>14. map \in [Voice -> Layers]
  <2>1. \A u \in Voice : map[u] \in Layers
    BY <1>12, <1>13
  <2>2. map = [u \in Voice |-> map[u]]
    BY <1>5
  <2> QED
    BY <2>1, <2>2
<1>15. /\ x \in Worlds /\ x.fade = w.fade /\ x.pic = w.pic /\ x.layer = map
       /\ x.next = w.next /\ x.of = w.of /\ x.past = w.past
  BY <1>0, <1>14, PutLayers
<1> HIDE DEF x
<1>16. OtherSlots(w, x, v)
  <2>1. w.layer[v].on
    OBVIOUS
  <2>2. \A u \in Voice : u # v /\ ~w.layer[u].on => map[u] = w.layer[u]
    BY <1>2, <1>13
  <2> QED
    BY <1>12, <1>13, <1>15, <1>s, <2>1, <2>2 DEF OtherSlots
<1>17. \A f \in Fades : Linked(w, f) /\ Incoming(w, f) = v /\ l.is
                        /\ w.fade[f].state # "standby"
                        /\ Together(w.fade[f], l, v \in w.past.late) =>
           IF m.is THEN Together(w.fade[f], m, v \in w.past.late)
           ELSE w.fade[f].awaiting \/ w.fade[f].clock = Span
  <2> SUFFICES ASSUME NEW f \in Fades, Together(w.fade[f], l, v \in w.past.late)
               PROVE  IF m.is THEN Together(w.fade[f], m, v \in w.past.late)
                      ELSE w.fade[f].awaiting \/ w.fade[f].clock = Span
    OBVIOUS
  <2>1. CASE m.is
    BY <1>4, <2>1
  <2>2. CASE ~m.is
    <3>1. l.done >= Span
      BY <1>4, <1>11, <2>2
    <3>2. w.fade[f].awaiting \/ l.done <= w.fade[f].clock
      BY DEF Together
    <3>3. w.fade[f].clock \in 0..Span /\ Span \in Nat
      BY <1>0, FadeIs, Constants
    <3>4. w.fade[f].awaiting \/ w.fade[f].clock = Span
      BY <1>1, <3>1, <3>2, <3>3
    <3> QED
      BY <2>2, <3>4
  <2> QED
    BY <2>1, <2>2
<1>18. DimIn(x)
  <2> SUFFICES ASSUME NEW u \in Voice, Live(x, u), x.layer[u].shown, x.layer[u].opacity # "full"
               PROVE  \/ u \in x.past.faded \cup x.past.dim \cup x.past.spent
                      \/ x.layer[u].link.is /\ ~Mixes(x.layer[u].link)
                      \/ \E q \in Voice : \E o \in x.layer[q].link.out : o.voice = u /\ o.apart
    BY DEF DimIn
  <2>1. Live(w, u) /\ w.layer[u].shown /\ w.layer[u].on
    BY <1>12, <1>13, <1>15, <1>s DEF Live
  <2>2. w.layer[u].opacity # "full" =>
          \/ u \in w.past.faded \cup w.past.dim \cup w.past.spent
          \/ w.layer[u].link.is /\ ~Mixes(w.layer[u].link)
          \/ \E q \in Voice : \E o \in w.layer[q].link.out : o.voice = u /\ o.apart
    BY <1>0, <2>1 DEF FadeCore, DimIn
  <2>3. \A q \in Voice : q # v => x.layer[q].link = w.layer[q].link
    BY <1>13, <1>15
  <2>4. x.layer[v] = t /\ x.layer[v].link = m /\ x.layer[v].opacity = dark
    BY <1>12, <1>13, <1>15
  <2>5. ~over => \A q \in Voice : x.layer[q].link = w.layer[q].link
    BY <1>4, <1>s, <2>3, <2>4
  <2>6. CASE u = v
    <3>1. CASE Mixes(l)
      <4>1. w.layer[u].opacity # "full"
        BY <1>7, <1>10, <1>s, <2>4, <2>6, <3>1
      <4>2. \A o \in w.layer[v].link.out : o.voice # v
        BY <1>0 DEF FadeCore, LinksIn
      <4>3. ~(w.layer[u].link.is /\ ~Mixes(w.layer[u].link))
        BY <1>s, <2>6, <3>1
      <4> QED
        BY <1>15, <2>2, <2>3, <2>6, <4>1, <4>2, <4>3
    <3>2. CASE ~Mixes(l)
      <4>1. ~over
        BY <1>7, <2>4, <2>6, <3>2
      <4> QED
        BY <1>1, <1>4, <2>4, <2>6, <3>2, <4>1
    <3> QED
      BY <3>1, <3>2
  <2>7. CASE u # v /\ Drawn(u)
    <3>1. ~over /\ \E e \in w.layer[v].link.out : e.voice = u /\ e.apart
      BY <1>9, <1>s, <2>7
    <3>2. x.layer[v].link = w.layer[v].link
      BY <2>5, <3>1
    <3> QED
      BY <3>1, <3>2
  <2>8. CASE u # v /\ ~Drawn(u)
    <3>1. x.layer[u] = w.layer[u]
      BY <1>13, <1>15, <2>8
    <3>2. ~\E e \in w.layer[v].link.out : e.voice = u /\ e.apart
      BY <1>8, <1>s, <2>1, <2>8
    <3> QED
      BY <1>15, <2>2, <2>3, <3>1, <3>2
  <2> QED
    BY <2>6, <2>7, <2>8
<1>19. FadesSafe(x)
  <2>1. x.layer[v].link = m /\ x.layer[v].shown = w.layer[v].shown /\ l = w.layer[v].link
    BY <1>12, <1>13, <1>15, <1>s
  <2>2. w.layer[v].shown => l.revealed
    BY <1>0, <1>1, <1>s DEF FadeCore, LinksIn
  <2>3. ClockIn(m) /\ (m.is => l.is /\ (x.layer[v].shown => m.revealed)) /\ m.out \subseteq l.out
    BY <1>1, <1>4, <2>1, <2>2
  <2> QED
    BY <1>0, <1>15, <1>16, <1>17, <1>18, <2>1, <2>3, SlotKeeps
<1> QED
  BY <1>19 DEF x, map

\* Time.
LEMMA CountedIs ==
  ASSUME NEW k \in 0..Span
  PROVE  /\ Counted(k) \in 0..Span /\ k <= Counted(k) /\ (k = Span => Counted(k) = Span)
         /\ \A j \in 0..Span : j <= k => j <= Counted(k) /\ Counted(j) <= Counted(k)
BY Constants DEF Counted

\* The clock of a link,
LEMMA LinkLaterIs ==
  ASSUME NEW l \in Links, ClockIn(l)
  PROVE  LET m == LinkLater(l) IN
         /\ m \in Links /\ ClockIn(m) /\ m.is = l.is /\ m.out = l.out /\ m.revealed = l.revealed
         /\ m.paused = l.paused /\ m.runs = l.runs /\ m.started = l.started
         /\ m.done = (IF l.runs THEN Counted(l.done) ELSE l.done)
         /\ m.since = (IF l.started THEN Counted(l.since) ELSE l.since)
         /\ (~l.is => m = NoLink)
<1> DEFINE d == IF l.runs THEN Counted(l.done) ELSE l.done
           c == IF l.started THEN Counted(l.since) ELSE l.since
           m == [l EXCEPT !.done = d, !.since = c]
<1>1. m = LinkLater(l)
  BY DEF LinkLater
<1>2. l.done \in 0..Span /\ l.since \in 0..Span /\ l.done <= l.since
  BY LinkIs DEF ClockIn
<1>3. d \in 0..Span /\ c \in 0..Span
  BY <1>2, CountedIs
<1>4. d <= c
  <2>1. l.runs => l.started
    BY DEF ClockIn
  <2>2. Counted(l.done) <= Counted(l.since) /\ l.done <= Counted(l.since)
    BY <1>2, CountedIs
  <2> QED
    BY <1>2, <2>1, <2>2
<1>5. ~l.started => d = 0 /\ c = 0
  BY DEF ClockIn
<1> HIDE DEF d, c
<1>6. /\ m \in Links /\ m.is = l.is /\ m.out = l.out /\ m.revealed = l.revealed
      /\ m.paused = l.paused /\ m.runs = l.runs /\ m.started = l.started /\ m.done = d /\ m.since = c
  BY <1>3 DEF Links
<1>7. ~l.is => m = NoLink
  <2> HAVE ~l.is
  <2>1. l = NoLink
    BY DEF ClockIn
  <2>2. d = 0 /\ c = 0
    BY <1>5, <2>1 DEF NoLink
  <2>3. m = [NoLink EXCEPT !.done = 0, !.since = 0]
    BY <2>1, <2>2
  <2> HIDE DEF m
  <2> QED
    BY <2>3 DEF NoLink
<1> HIDE DEF m
<1>8. ClockIn(m)
  BY <1>4, <1>5, <1>6, <1>7 DEF ClockIn
<1> QED
  BY <1>1, <1>6, <1>7, <1>8 DEF d, c

\* and that of a Fade.
LEMMA FadeLaterIs ==
  ASSUME NEW r \in FadeRecords
  PROVE  LET q == FadeLater(r) IN
         /\ q \in FadeRecords /\ q.state = r.state /\ q.waits = r.waits /\ q.runs = r.runs
         /\ q.awaiting = r.awaiting /\ q.done = r.done /\ q.cross = r.cross /\ q.targets = r.targets
         /\ q.clock = IF r.state = "running" /\ (r.runs \/ r.waits) THEN Counted(r.clock) ELSE r.clock
<1>1. r.clock \in 0..Span
  BY DEF FadeRecords
<1>2. Counted(r.clock) \in 0..Span
  BY <1>1, CountedIs
<1> QED
  BY <1>2 DEF FadeLater, FadeRecords

\* Both count, or neither.
LEMMA TogetherLater ==
  ASSUME NEW r \in FadeRecords, NEW l \in Links, ClockIn(l), NEW late, Together(r, l, late),
         ~r.waits, r.state # "standby", r.awaiting => ~r.runs
  PROVE  Together(FadeLater(r), LinkLater(l), late)
<1> DEFINE q == FadeLater(r)
           m == LinkLater(l)
<1>1. /\ q.state = r.state /\ q.runs = r.runs /\ q.awaiting = r.awaiting
      /\ q.clock = IF r.state = "running" /\ (r.runs \/ r.waits) THEN Counted(r.clock) ELSE r.clock
  BY FadeLaterIs
<1>2. /\ m.paused = l.paused /\ m.started = l.started
      /\ m.done = (IF l.runs THEN Counted(l.done) ELSE l.done)
      /\ m.since = (IF l.started THEN Counted(l.since) ELSE l.since)
  BY LinkLaterIs
<1> HIDE DEF q, m
<1>3. r.state \in {"running", "paused"} /\ r.clock \in 0..Span /\ l.done \in 0..Span
  BY LinkIs DEF FadeRecords
<1>4. l.started => (l.runs <=> r.state = "running")
  BY <1>3 DEF ClockIn, Together
<1>5. m.paused <=> q.state = "paused"
  BY <1>1, <1>2 DEF Together
<1>6. q.awaiting /\ m.started /\ ~late => q.state = "running" /\ m.since = m.done
  BY <1>1, <1>2, <1>4 DEF Together
<1>7. ASSUME ~q.awaiting
      PROVE  /\ m.started /\ (q.runs <=> q.state = "running")
             /\ m.done <= q.clock /\ (~late => q.clock = m.done)
  <2>1. /\ l.started /\ (r.runs <=> r.state = "running")
        /\ l.done <= r.clock /\ (~late => r.clock = l.done)
    BY <1>1, <1>7 DEF Together
  <2>2. Counted(l.done) <= Counted(r.clock)
    BY <1>3, <2>1, CountedIs
  <2>3. l.runs <=> r.state = "running"
    BY <1>4, <2>1
  <2>4. CASE r.state = "running"
    <3>1. m.done = Counted(l.done) /\ q.clock = Counted(r.clock)
      BY <1>1, <1>2, <2>1, <2>3, <2>4
    <3> QED
      BY <1>1, <1>2, <2>1, <2>2, <3>1
  <2>5. CASE r.state # "running"
    <3>1. m.done = l.done /\ q.clock = r.clock
      BY <1>1, <1>2, <2>1, <2>3, <2>5
    <3> QED
      BY <1>1, <1>2, <2>1, <3>1
  <2> QED
    BY <2>4, <2>5
<1> QED
  BY <1>5, <1>6, <1>7 DEF Together, q, m

\* Time passes.
LEMMA LaterKeeps ==
  ASSUME NEW w, NEW x, FadesSafe(w),
         x = [w EXCEPT !.fade = [f \in Fades |-> FadeLater(w.fade[f])],
                       !.layer = [v \in Voice |-> [w.layer[v] EXCEPT !.link = LinkLater(w.layer[v].link)]]]
  PROVE  FadesSafe(x)
<1>0. w \in Worlds /\ FadeCore(w) /\ HistIn(w) /\ SoundIn(w, {})
  BY DEF FadesSafe
<1>1. ASSUME NEW f \in Fades PROVE w.fade[f] \in FadeRecords /\ FadeLater(w.fade[f]) \in FadeRecords
  BY <1>0, FadeIs, FadeLaterIs
<1>2. ASSUME NEW v \in Voice
      PROVE  LET s == w.layer[v]
                 t == [s EXCEPT !.link = LinkLater(s.link)]
             IN /\ s \in Layers /\ s.link \in Links /\ ClockIn(s.link)
                /\ t \in Layers /\ t.on = s.on /\ t.shown = s.shown /\ t.stopping = s.stopping
                /\ t.opacity = s.opacity /\ t.gain = s.gain /\ t.link = LinkLater(s.link)
                /\ (s = Gone => t = Gone)
  <2> DEFINE s == w.layer[v]
             m == LinkLater(s.link)
             t == [s EXCEPT !.link = m]
  <2>1. s \in Layers /\ s.link \in Links /\ ClockIn(s.link)
    BY <1>0, LayerIs DEF FadeCore, LinksIn
  <2>2. m \in Links /\ (~s.link.is => m = NoLink)
    BY <2>1, LinkLaterIs
  <2> HIDE DEF m, s
  <2>3. s = Gone => t = Gone
    BY <2>2, GoneIs, NoLinkIs DEF Gone
  <2>4. /\ t \in Layers /\ t.on = s.on /\ t.shown = s.shown /\ t.stopping = s.stopping
        /\ t.opacity = s.opacity /\ t.gain = s.gain /\ t.link = m
    BY <2>1, <2>2 DEF Layers
  <2> QED
    BY <2>1, <2>3, <2>4 DEF s, m
<1> DEFINE fs == [f \in Fades |-> FadeLater(w.fade[f])]
           ls == [v \in Voice |-> [w.layer[v] EXCEPT !.link = LinkLater(w.layer[v].link)]]
<1>3. fs \in [Fades -> FadeRecords] /\ ls \in [Voice -> Layers]
  BY <1>1, <1>2
<1>4. /\ \A f \in Fades : fs[f] = FadeLater(w.fade[f])
      /\ \A v \in Voice : ls[v] = [w.layer[v] EXCEPT !.link = LinkLater(w.layer[v].link)]
  OBVIOUS
<1> HIDE DEF fs, ls
<1>5. x \in Worlds /\ x.fade = fs /\ x.layer = ls /\ x.pic = w.pic /\ x.next = w.next /\ x.of = w.of
      /\ x.past = w.past
  <2>1. x = [w EXCEPT !.fade = fs, !.layer = ls]
    BY DEF fs, ls
  <2> QED
    BY <1>0, <1>3, <2>1 DEF Worlds
<1>6. \A f \in Fades : LET r == w.fade[f]
                           q == x.fade[f] IN
         /\ q = FadeLater(r) /\ q.state = r.state /\ q.waits = r.waits /\ q.runs = r.runs
         /\ q.awaiting = r.awaiting /\ q.done = r.done /\ q.cross = r.cross /\ q.targets = r.targets
         /\ q.clock = IF r.state = "running" /\ (r.runs \/ r.waits) THEN Counted(r.clock) ELSE r.clock
  <2> TAKE f \in Fades
  <2>1. x.fade[f] = FadeLater(w.fade[f]) /\ w.fade[f] \in FadeRecords
    BY <1>1, <1>4, <1>5
  <2> QED
    BY <2>1, FadeLaterIs
<1>7. \A v \in Voice :
        /\ x.layer[v].on = w.layer[v].on /\ x.layer[v].shown = w.layer[v].shown
        /\ x.layer[v].stopping = w.layer[v].stopping /\ x.layer[v].opacity = w.layer[v].opacity
        /\ x.layer[v].gain = w.layer[v].gain /\ x.layer[v].link = LinkLater(w.layer[v].link)
        /\ (w.layer[v] = Gone => x.layer[v] = Gone)
  BY <1>2, <1>4, <1>5
<1>8. \A v \in Voice : LET l == w.layer[v].link
                           m == x.layer[v].link IN
        /\ l \in Links /\ ClockIn(l) /\ ClockIn(m) /\ m.is = l.is /\ m.out = l.out /\ m.revealed = l.revealed
  BY <1>2, <1>7, LinkLaterIs
<1>9. \A v \in Voice : Live(x, v) <=> Live(w, v)
  BY <1>7 DEF Live
<1>10. \A f \in Fades : (Linked(x, f) <=> Linked(w, f)) /\ Incoming(x, f) = Incoming(w, f)
  BY <1>6 DEF Linked, Incoming
<1>11. PicsIn(x)
  <2>1. \A p \in Picture : LET u == x.pic[p].voice IN
           u \in Voice /\ x.layer[u].on => w.layer[u].on /\ (Live(w, u) => Live(x, u))
    BY <1>7, <1>9
  <2> QED
    BY <1>0, <1>5, <2>1, PicsSame DEF FadeCore
<1>12. VoicesIn(x)
  BY <1>0, <1>5, <1>7, <1>9 DEF FadeCore, VoicesIn
<1>13. LinksIn(x)
  <2> SUFFICES ASSUME NEW v \in Voice
               PROVE  LET m == x.layer[v].link IN
                      /\ ClockIn(m)
                      /\ m.is => Live(x, v) /\ (x.layer[v].shown => m.revealed)
                      /\ \A o \in m.out : o.voice # v
    BY DEF LinksIn
  <2> DEFINE l == w.layer[v].link
             m == x.layer[v].link
  <2>1. ClockIn(m) /\ m.is = l.is /\ m.out = l.out /\ m.revealed = l.revealed
    BY <1>8
  <2>2. x.layer[v].shown = w.layer[v].shown /\ (Live(x, v) <=> Live(w, v))
    BY <1>7, <1>9
  <2>3. /\ l.is => Live(w, v) /\ (w.layer[v].shown => l.revealed)
        /\ \A o \in l.out : o.voice # v
    BY <1>0 DEF FadeCore, LinksIn
  <2> HIDE DEF l, m
  <2> QED
    BY <2>1, <2>2, <2>3 DEF m
<1>14. CrossIn(x)
  <2>1. ASSUME NEW f \in Fades PROVE CrossOf(x, f)
    <3>1. CrossOf(w, f)
      BY <1>0 DEF FadeCore, CrossIn
    <3>2. /\ x.fade[f].cross = w.fade[f].cross /\ x.fade[f].waits = w.fade[f].waits
          /\ x.fade[f].awaiting = w.fade[f].awaiting /\ x.fade[f].runs = w.fade[f].runs
          /\ x.fade[f].done = w.fade[f].done
          /\ x.fade[f].clock = w.fade[f].clock \/ w.fade[f].runs \/ w.fade[f].waits
      BY <1>6
    <3> QED
      BY <1>5, <3>1, <3>2 DEF CrossOf
  <2> QED
    BY <2>1 DEF CrossIn
<1>15. AloneIn(x)
  <2>1. \A v \in Voice : x.layer[v].link.is <=> w.layer[v].link.is
    BY <1>8
  <2>2. \A f \in Fades : x.fade[f].cross = w.fade[f].cross
    BY <1>6
  <2>3. \A f \in Fades : AloneOf(w, f)
    BY <1>0 DEF FadeCore, AloneIn
  <2>4. x.of = w.of
    BY <1>5
  <2> QED
    BY <1>10, <2>1, <2>2, <2>3, <2>4 DEF AloneIn, AloneOf
<1>16. \A f \in Fades : w.fade[f].clock = Span => x.fade[f].clock = Span
  <2> TAKE f \in Fades
  <2>1. w.fade[f].clock \in 0..Span
    BY <1>0, FadeIs
  <2> QED
    BY <1>6, <2>1, CountedIs
<1>17. StepIn(x)
  <2> SUFFICES ASSUME NEW f \in Fades, Linked(x, f), x.fade[f].state # "standby"
               PROVE LET v == Incoming(x, f) IN
                     /\ x.layer[v].link.is => Together(x.fade[f], x.layer[v].link, v \in x.past.late)
                     /\ Live(x, v) /\ ~x.layer[v].link.is => x.fade[f].awaiting \/ x.fade[f].clock = Span
    BY DEF StepIn, StepOf
  <2> DEFINE v == Incoming(w, f)
             r == w.fade[f]
  <2>1. Linked(w, f) /\ r.state # "standby" /\ Incoming(x, f) = v
    BY <1>6, <1>10
  <2>2. CrossOf(w, f) /\ StepOf(w, f)
    BY <1>0 DEF FadeCore, CrossIn, StepIn
  <2>3. v \in Voice /\ ~r.waits /\ (r.awaiting => ~r.runs)
    BY <1>0, <2>1, <2>2, IncomingIs DEF CrossOf, Linked
  <2>4. /\ w.layer[v].link.is => Together(r, w.layer[v].link, v \in w.past.late)
        /\ Live(w, v) /\ ~w.layer[v].link.is => r.awaiting \/ r.clock = Span
    BY <2>1, <2>2 DEF StepOf
  <2>5. r \in FadeRecords /\ w.layer[v].link \in Links /\ ClockIn(w.layer[v].link)
    BY <1>1, <1>8, <2>3
  <2> HIDE DEF v, r
  <2>6. Together(r, w.layer[v].link, v \in w.past.late)
         => Together(FadeLater(r), LinkLater(w.layer[v].link), v \in w.past.late)
    BY <2>1, <2>3, <2>5, TogetherLater
  <2>7. x.fade[f] = FadeLater(r) /\ x.fade[f].awaiting = r.awaiting /\ (r.clock = Span => x.fade[f].clock = Span)
    BY <1>6, <1>16 DEF r
  <2>8. x.layer[v].link = LinkLater(w.layer[v].link) /\ x.layer[v].link.is = w.layer[v].link.is
        /\ (Live(x, v) <=> Live(w, v))
    BY <1>7, <1>8, <1>9, <2>3
  <2> QED
    BY <1>5, <2>1, <2>4, <2>6, <2>7, <2>8
<1>18. Excused(x) = Excused(w)
  BY <1>5 DEF Excused
<1>19. DoneIn(x)
  <2> SUFFICES ASSUME NEW f \in Fades, Linked(x, f), x.fade[f].state # "standby", x.fade[f].done
               PROVE  /\ x.fade[f].clock = Span
                      /\ Live(x, Incoming(x, f)) => \/ x.layer[Incoming(x, f)].gain = "full"
                                                    \/ Incoming(x, f) \in Excused(x)
    BY DEF DoneIn, DoneOf
  <2>1. Linked(w, f) /\ w.fade[f].state # "standby" /\ w.fade[f].done /\ Incoming(x, f) = Incoming(w, f)
    BY <1>6, <1>10
  <2>2. DoneOf(w, f) /\ CrossOf(w, f)
    BY <1>0 DEF FadeCore, DoneIn, CrossIn
  <2>3. Incoming(w, f) \in Voice
    BY <1>0, <2>1, <2>2, IncomingIs
  <2> QED
    BY <1>7, <1>9, <1>16, <1>18, <2>1, <2>2, <2>3 DEF DoneOf
<1>20. DimIn(x)
  <2>1. \A v \in Voice : Mixes(x.layer[v].link) <=> Mixes(w.layer[v].link)
    BY <1>8 DEF Mixes
  <2>2. \A v \in Voice : x.layer[v].link.out = w.layer[v].link.out /\ x.layer[v].link.is = w.layer[v].link.is
    BY <1>8
  <2>3. \A v \in Voice : x.layer[v].opacity = w.layer[v].opacity /\ x.layer[v].shown = w.layer[v].shown
    BY <1>7
  <2>4. DimIn(w) /\ x.past = w.past
    BY <1>0, <1>5 DEF FadeCore
  <2> QED
    BY <1>9, <2>1, <2>2, <2>3, <2>4 DEF DimIn
<1>21. SoundIn(x, {})
  <2>1. \A f \in Fades : \A v : OwnerOf(w, f, v) => OwnerOf(x, f, v)
    BY <1>6, <1>10 DEF OwnerOf
  <2> QED
    BY <1>0, <1>7, <1>9, <1>18, <2>1 DEF SoundIn
<1>22. HistIn(x)
  <2>1. \A f \in Fades : f \in Dulled(x) => f \in Dulled(w)
    BY <1>6 DEF Dulled
  <2> QED
    BY <1>0, <1>5, <1>6, <1>8, <1>10, <2>1 DEF HistIn
<1> QED
  BY <1>5, <1>11, <1>12, <1>13, <1>14, <1>15, <1>17, <1>19, <1>20, <1>21, <1>22 DEF FadesSafe, FadeCore

\* What is over is reaped.
LEMMA RestIs ==
  /\ Rest \in FadeRecords /\ Rest.state = "standby" /\ Rest.cross = Plain /\ Rest.targets = {}
  /\ ~Rest.waits /\ ~Rest.awaiting /\ ~Rest.runs /\ ~Rest.done /\ Rest.clock = 0
  /\ Plain \in Crosses /\ Plain.is = "none" /\ Plain.sounds = {} /\ Plain.targets = {}
<1>1. Plain \in Crosses
  BY Constants DEF Plain, Crosses, Level
<1> QED
  BY <1>1, Constants DEF Rest, FadeRecords, Plain

\* A Fade that is over before its last tick has missed it, which history knows.
LEMMA ReapKeeps ==
  ASSUME NEW w, NEW x, FadesSafe(w), NEW over \in SUBSET Fades, NEW gone \in SUBSET Picture,
         NEW L \in SUBSET Voices,
         \A p \in gone : ~OnSlot(w, w.pic[p].voice),
         \A f \in over : w.fade[f].done \/ (Linked(w, f) => Incoming(w, f) \in L),
         x = [w EXCEPT !.fade = [f \in Fades |-> IF f \in over THEN Rest ELSE w.fade[f]],
                       !.pic = [p \in Picture |-> IF p \in gone THEN AtRest ELSE w.pic[p]],
                       !.past = [w.past EXCEPT !.missed = @ \cup L]]
  PROVE  FadesSafe(x)
<1> DEFINE fs == [f \in Fades |-> IF f \in over THEN Rest ELSE w.fade[f]]
           ps == [p \in Picture |-> IF p \in gone THEN AtRest ELSE w.pic[p]]
           h == [w.past EXCEPT !.missed = @ \cup L]
           y == [w EXCEPT !.fade = fs, !.past = h]
<1>0. w \in Worlds /\ FadeCore(w) /\ HistIn(w) /\ SoundIn(w, {})
  BY DEF FadesSafe
<1>1. fs \in [Fades -> FadeRecords]
  BY <1>0, FadeIs, RestIs
<1>2. AtRest \in PicRecords
  BY Constants DEF AtRest, PicRecords
<1>3. ps \in [Picture -> PicRecords]
  BY <1>0, <1>2, PicIs
<1>4. /\ h \in Pasts /\ h.late = w.past.late /\ h.missed = w.past.missed \cup L /\ h.left = w.past.left
      /\ h.faded = w.past.faded /\ h.taken = w.past.taken /\ h.dull = w.past.dull
      /\ h.dim = w.past.dim /\ h.spent = w.past.spent
  BY <1>0, WorldIs DEF Pasts
<1>5. /\ \A f \in Fades : fs[f] = IF f \in over THEN Rest ELSE w.fade[f]
      /\ \A p \in Picture : ps[p] = IF p \in gone THEN AtRest ELSE w.pic[p]
  OBVIOUS
<1>6. x = [w EXCEPT !.fade = fs, !.pic = ps, !.past = h]
  OBVIOUS
<1> HIDE DEF fs, ps, h
<1>7. /\ y \in Worlds /\ y.fade = fs /\ y.pic = w.pic /\ y.layer = w.layer /\ y.next = w.next
      /\ y.of = w.of /\ y.past = h
      /\ x \in Worlds /\ x.fade = fs /\ x.pic = ps /\ x.layer = w.layer /\ x.next = w.next
      /\ x.of = w.of /\ x.past = h
  BY <1>0, <1>1, <1>3, <1>4, <1>6 DEF Worlds
<1> HIDE DEF y
<1>8. Grows(w, y) /\ Excused(w) \subseteq Excused(y) /\ L \subseteq Excused(y)
  BY <1>4, <1>7 DEF Grows, Excused
<1>9. \A f \in Fades : y.fade[f] = Rest \/ y.fade[f] = w.fade[f]
  BY <1>5, <1>7
<1>10. PicsIn(y)
  BY <1>0, <1>7, PicsSame DEF FadeCore, Live
<1>11. VoicesIn(y) /\ LinksIn(y)
  BY <1>0, <1>7 DEF FadeCore, VoicesIn, LinksIn, Live
<1>12. ASSUME NEW f \in Fades PROVE CrossOf(y, f) /\ AloneOf(y, f) /\ StepOf(y, f) /\ DoneOf(y, f)
  <2>1. CASE y.fade[f] = Rest
    BY <2>1, RestIs DEF CrossOf, AloneOf, StepOf, DoneOf, Linked
  <2>2. CASE y.fade[f] = w.fade[f]
    <3>1. CrossOf(w, f) /\ AloneOf(w, f) /\ StepOf(w, f) /\ DoneOf(w, f)
      BY <1>0 DEF FadeCore, CrossIn, AloneIn, StepIn, DoneIn
    <3>2. CrossOf(y, f)
      BY <1>7, <2>2, <3>1 DEF CrossOf
    <3>3. AloneOf(y, f)
      BY <1>7, <2>2, <3>1 DEF AloneOf, Linked, Incoming
    <3>4. StepOf(y, f)
      <4>1. w.past.late \subseteq y.past.late
        BY <1>4, <1>7
      <4> QED
        BY <1>0, <1>7, <2>2, <3>1, <4>1, StepSame DEF Live
    <3>5. DoneOf(y, f)
      BY <1>7, <1>8, <2>2, <3>1 DEF DoneOf, Linked, Incoming, Live
    <3> QED
      BY <3>2, <3>3, <3>4, <3>5
  <2> QED
    BY <1>9, <2>1, <2>2
<1>13. DimIn(y)
  BY <1>0, <1>4, <1>7 DEF FadeCore, DimIn, Live
<1>14. FadeCore(y)
  BY <1>10, <1>11, <1>12, <1>13 DEF FadeCore, CrossIn, AloneIn, StepIn, DoneIn
<1>15. HistIn(y)
  <2>1. ASSUME NEW f \in Fades
        PROVE  /\ \A t \in y.fade[f].targets : t.voice \in y.past.faded
               /\ \A s \in y.fade[f].cross.sounds : s.voice \in y.past.taken
               /\ f \in Dulled(y) => Incoming(y, f) \in y.past.dull
    <3>1. CASE y.fade[f] = Rest
      BY <3>1, RestIs DEF Dulled
    <3>2. CASE y.fade[f] = w.fade[f]
      BY <1>0, <1>4, <1>7, <3>2 DEF HistIn, Dulled, Incoming
    <3> QED
      BY <1>9, <3>1, <3>2
  <2>2. \A v \in Voice : \A o \in y.layer[v].link.out : o.from # "full" => o.voice \in y.past.dim
    BY <1>0, <1>4, <1>7 DEF HistIn
  <2> QED
    BY <2>1, <2>2 DEF HistIn
<1>16. SoundIn(y, {})
  <2> SUFFICES ASSUME NEW v \in Voice, Live(y, v), y.layer[v].gain # "full",
                      v \notin Excused(y)
               PROVE  \E f \in Fades : OwnerOf(y, f, v)
    BY DEF SoundIn
  <2>1. Live(w, v) /\ w.layer[v].gain # "full" /\ v \notin Excused(w)
    BY <1>7, <1>8 DEF Live
  <2>2. PICK f \in Fades : OwnerOf(w, f, v)
    BY <1>0, <2>1 DEF SoundIn
  <2>3. CASE f \in over
    <3>1. Linked(w, f) /\ Incoming(w, f) = v /\ w.fade[f].state # "standby"
      BY <2>2 DEF OwnerOf
    <3>2. ~w.fade[f].done
      BY <1>0, <2>1, <3>1 DEF FadeCore, DoneIn, DoneOf
    <3>3. v \in L
      BY <2>3, <3>1, <3>2
    <3> QED
      BY <1>8, <3>3
  <2>4. CASE f \notin over
    BY <1>5, <1>7, <2>2, <2>4 DEF OwnerOf, Linked, Incoming
  <2> QED
    BY <2>3, <2>4
<1>17. Rested(y, x, NoVoice)
  BY <1>5, <1>7 DEF Rested, OnSlot
<1>18. FadeCore(x) /\ HistIn(x) /\ (SoundIn(y, {}) => SoundIn(x, {}))
  <2>1. FadeCore(x) /\ HistIn(x) /\ \A S : SoundIn(y, S) => SoundIn(x, S)
    BY <1>7, <1>14, <1>15, <1>17, RestKeeps
  <2> QED
    BY <2>1
<1> QED
  BY <1>7, <1>16, <1>18 DEF FadesSafe

---------------------------------------------------------------------------
(***************************************************************************)
(* The actions.                                                             *)
(***************************************************************************)
LEMMA BecomesIs ==
  ASSUME NEW x \in Worlds, Becomes(x)
  PROVE  World' = x
<1>1. World' = [fade |-> fade', pic |-> pic', layer |-> layer', next |-> next', of |-> of', past |-> past']
  BY DEF World
<1>2. x = [fade |-> x.fade, pic |-> x.pic, layer |-> x.layer, next |-> x.next, of |-> x.of, past |-> x.past]
  BY DEF Worlds
<1> QED
  BY <1>1, <1>2 DEF Becomes

\* Reap and Elapse change several parts at once.
LEMMA PutReaped ==
  ASSUME NEW w \in Worlds, NEW fs, NEW ps, NEW h
  PROVE  LET x == [w EXCEPT !.fade = fs, !.pic = ps, !.past = h] IN
         /\ x.fade = fs /\ x.pic = ps /\ x.layer = w.layer /\ x.next = w.next /\ x.of = w.of /\ x.past = h
BY DEF Worlds

\* Time changes the Fades and the slots.
LEMMA PutLater ==
  ASSUME NEW w \in Worlds, NEW fs, NEW ls
  PROVE  LET x == [w EXCEPT !.fade = fs, !.layer = ls] IN
         /\ x.fade = fs /\ x.pic = w.pic /\ x.layer = ls /\ x.next = w.next /\ x.of = w.of /\ x.past = w.past
BY DEF Worlds

\* A step that keeps history.
LEMMA DoesKeeps ==
  ASSUME FadesSafe(World), NEW w \in Worlds, FadeCore(w), SoundIn(w, {}), Does(w)
  PROVE  FadesSafe(World')
<1> DEFINE x == Kept(World, w)
<1>1. World \in Worlds
  BY DEF FadesSafe
<1>2. x \in Worlds
  BY <1>1, KeptIs
<1>3. FadeCore(x) /\ HistIn(x) /\ SoundIn(x, {})
  BY <1>1, KeptKeeps
<1>4. Becomes(x)
  BY DEF Does
<1> HIDE DEF x
<1>5. World' = x
  BY <1>2, <1>4, BecomesIs
<1> QED
  BY <1>2, <1>3, <1>5 DEF FadesSafe

\* The parts of the state.
LEMMA SafeIs ==
  ASSUME FadesSafe(World)
  PROVE  /\ World \in Worlds /\ FadeCore(World) /\ HistIn(World) /\ SoundIn(World, {})
         /\ World.fade = fade /\ World.pic = pic /\ World.layer = layer /\ World.next = next
         /\ World.of = of /\ World.past = past
BY DEF FadesSafe, World

\* The sound a Fade brings in.
LEMMA SoundsIs ==
  ASSUME FadesSafe(World), NEW f \in Fades
  PROVE  /\ Sounds(f) \in SUBSET Voices
         /\ Linked(World, f) => Incoming(World, f) \in Sounds(f) /\ Incoming(World, f) \in Voice
                                /\ LinkedVoice(World, f) = Incoming(World, f)
<1>1. World \in Worlds /\ FadeCore(World)
  BY SafeIs
<1>2. LinkedVoice(World, f) = (IF Linked(World, f) THEN Incoming(World, f) ELSE NoVoice)
      /\ LinkedVoice(World, f) \in Voices
  BY <1>1, CrossIs
<1>3. Linked(World, f) => Incoming(World, f) \in Voice
  BY <1>1, IncomingIs DEF FadeCore, CrossIn
<1>4. \A v \in Voice : v # NoVoice
  BY Constants
<1> QED
  BY <1>2, <1>3, <1>4 DEF Sounds

\* GO of a Fade.
LEMMA FireFadeKeeps ==
  ASSUME OneFadeEach, FadesSafe(World), NEW f \in Fades, NEW ok, FireFade(f, ok)
  PROVE  FadesSafe(World')
<1> DEFINE y == [World EXCEPT !.past.left = @ \cup Sounds(f)]
           x == GoFade(y, f, ok)
<1>1. World \in Worlds /\ FadeCore(World) /\ SoundIn(World, {}) /\ Sounds(f) \in SUBSET Voices
  BY SafeIs, SoundsIs
<1>2. /\ y \in Worlds /\ y.layer = World.layer /\ y.fade = World.fade /\ SameRest(World, y)
      /\ Grows(World, y) /\ Sounds(f) \subseteq y.past.left
  BY <1>1, PastPut
<1>3. Does(x)
  BY DEF FireFade
<1> HIDE DEF y
<1>4. FadeCore(y) /\ SoundIn(y, {})
  <2>1. FadeCore(y) /\ \A S : SoundIn(World, S) => SoundIn(y, S)
    BY <1>1, <1>2, GrownKeeps DEF SameRest, Grows
  <2> QED
    BY <1>1, <2>1
<1>5. \A v \in Voice : OwnerOf(y, f, v) => v \in Excused(y)
  BY <1>2, SoundsIs DEF OwnerOf, Linked, Incoming, Excused
<1>6. x \in Worlds /\ FadeCore(x) /\ SoundIn(x, {})
  BY <1>2, <1>4, <1>5, GoFadeKeeps
<1> HIDE DEF x
<1> QED
  BY <1>3, <1>6, DoesKeeps

\* Stop of a Fade.
LEMMA StopFadeKeeps ==
  ASSUME OneFadeEach, FadesSafe(World), NEW f \in Fades, Stop(f)
  PROVE  FadesSafe(World')
<1> DEFINE x == [StopFade(World, f) EXCEPT !.past.left = @ \cup Sounds(f)]
<1>1. World \in Worlds /\ FadeCore(World) /\ HistIn(World) /\ SoundIn(World, {})
  BY SafeIs
<1>2. Sounds(f) \in SUBSET Voices /\ (Linked(World, f) => Incoming(World, f) \in Sounds(f))
  BY SoundsIs
<1>3. Does(x)
  BY DEF Stop
<1>4. x \in Worlds /\ FadeCore(x) /\ SoundIn(x, {})
  BY <1>1, <1>2, StopKeeps
<1> HIDE DEF x
<1> QED
  BY <1>3, <1>4, DoesKeeps

\* Pause of a Fade.
LEMMA PauseFadeKeeps ==
  ASSUME OneFadeEach, FadesSafe(World), NEW f \in Fades, Pause(f)
  PROVE  FadesSafe(World')
<1> DEFINE x == [PauseFade(World, f) EXCEPT !.past.late = @ \cup Late(f)]
<1>1. World \in Worlds /\ FadeCore(World) /\ SoundIn(World, {}) /\ World.fade = fade
  BY SafeIs
<1>2. Late(f) \in SUBSET Voices
  BY SoundsIs DEF Late
<1>3. World.fade[f].awaiting /\ Linked(World, f) /\ Phase(World, Incoming(World, f)) = "started"
        => Incoming(World, f) \in Late(f)
  BY <1>1, SoundsIs DEF Late
<1>4. Does(x) /\ World.fade[f].state = "running"
  BY <1>1 DEF Pause
<1>5. x \in Worlds /\ FadeCore(x) /\ SoundIn(x, {})
  BY <1>1, <1>2, <1>3, <1>4, PauseKeeps
<1> HIDE DEF x
<1> QED
  BY <1>4, <1>5, DoesKeeps

\* Resume of a Fade.
LEMMA ResumeFadeKeeps ==
  ASSUME OneFadeEach, FadesSafe(World), NEW f \in Fades, Resume(f)
  PROVE  FadesSafe(World')
<1> DEFINE x == ResumeFade(World, f)
<1>1. World \in Worlds /\ FadeCore(World) /\ SoundIn(World, {}) /\ World.fade = fade
  BY SafeIs
<1>2. Does(x) /\ World.fade[f].state = "paused"
  BY <1>1 DEF Resume
<1>3. x \in Worlds /\ FadeCore(x) /\ SoundIn(x, {})
  BY <1>1, <1>2, ResumeKeeps
<1> HIDE DEF x
<1> QED
  BY <1>2, <1>3, DoesKeeps

\* The steps of a picture.
LEMMA PictureStepKeeps ==
  ASSUME OneFadeEach, FadesSafe(World), NEW p \in Picture, GoCue(p) \/ StopCue(p) \/ PictureStarts(p)
  PROVE  FadesSafe(World')
<1>0. /\ World \in Worlds /\ FadeCore(World) /\ HistIn(World) /\ SoundIn(World, {})
      /\ World.pic = pic /\ World.next = next
  BY SafeIs
<1>1. CASE GoCue(p)
  <2> DEFINE x == GoPicture(World, p, {p})
  <2>1. x \in Worlds /\ FadeCore(x) /\ \A S : SoundIn(World, S) => SoundIn(x, S)
    BY <1>0, GoPictureKeeps
  <2>2. Does(x)
    BY <1>1 DEF GoCue
  <2> HIDE DEF x
  <2> QED
    BY <1>0, <2>1, <2>2, DoesKeeps
<1>2. CASE StopCue(p)
  <2> DEFINE x == Kept(World, StopPicture(World, p))
  <2>1. x \in Worlds /\ FadeCore(x) /\ HistIn(x) /\ \A S : SoundIn(World, S) => SoundIn(x, S)
    BY <1>0, StopPictureKeeps
  <2>2. Becomes(x)
    BY <1>2 DEF StopCue, Does
  <2> HIDE DEF x
  <2>3. World' = x
    BY <2>1, <2>2, BecomesIs
  <2> QED
    BY <1>0, <2>1, <2>3 DEF FadesSafe
<1>3. CASE PictureStarts(p)
  <2>0. World.pic[p].voice = NoVoice /\ pic[p].waits
    BY <1>0, <1>3 DEF PictureStarts, FadeCore, PicsIn
  <2>1. CASE next <= LastVoice /\ Does(StartPicture(World, p))
    <3> DEFINE x == StartPicture(World, p)
    <3>1. x \in Worlds
      BY <1>0, <2>1, StartIs
    <3>2. FadeCore(x) /\ \A S : SoundIn(World, S) => SoundIn(x, S)
      BY <1>0, <2>0, <2>1, StartKeeps
    <3> HIDE DEF x
    <3>3. Does(x)
      BY <2>1 DEF x
    <3> QED
      BY <1>0, <3>1, <3>2, <3>3, DoesKeeps
  <2>2. CASE /\ pic' = [pic EXCEPT ![p] = [@ EXCEPT !.state = "standby", !.waits = FALSE]]
             /\ next' = IF next <= LastVoice THEN next + 1 ELSE next
             /\ UNCHANGED <<fade, layer, of, past>>
    <3> DEFINE r == [pic[p] EXCEPT !.state = "standby", !.waits = FALSE]
               y == [World EXCEPT !.pic[p] = r]
               n == IF next <= LastVoice THEN next + 1 ELSE next
               x == [y EXCEPT !.next = n]
    <3>1. r \in PicRecords /\ r.state = "standby" /\ ~r.waits /\ r.voice = NoVoice
      BY <1>0, <2>0, PicIs DEF PicRecords
    <3> HIDE DEF r
    <3>2. /\ y \in Worlds /\ y.fade = World.fade /\ y.pic = [World.pic EXCEPT ![p] = r]
          /\ y.layer = World.layer /\ y.next = World.next /\ y.of = World.of /\ y.past = World.past
      BY <1>0, <3>1, PutPic
    <3> HIDE DEF y
    <3>3. next \in 1..(LastVoice + 1) /\ n \in 1..(LastVoice + 1) /\ (n = next \/ n = next + 1)
      BY <1>0, WorldIs, Constants
    <3> HIDE DEF n
    <3>4. /\ x \in Worlds /\ x.fade = World.fade /\ x.pic = [World.pic EXCEPT ![p] = r]
          /\ x.layer = World.layer /\ x.next = n /\ x.of = World.of /\ x.past = World.past
      BY <3>2, <3>3 DEF Worlds
    <3> HIDE DEF x
    <3>5. x.pic[p] = r /\ \A q \in Picture : q # p => x.pic[q] = World.pic[q]
      BY <1>0, <3>4, WorldIs
    <3>6. \A q \in Picture : /\ x.pic[q].voice = World.pic[q].voice
                             /\ x.pic[q].state = "standby" \/ x.pic[q].waits => x.pic[q].voice = NoVoice
                             /\ x.pic[q].state = "standby" => ~x.pic[q].waits
      BY <1>0, <2>0, <3>1, <3>5 DEF FadeCore, PicsIn
    <3>7. FadeCore(x) /\ (HistIn(World) => HistIn(x)) /\ \A S : SoundIn(World, S) => SoundIn(x, S)
      BY <1>0, <3>3, <3>4, <3>6, PicPutKeeps
    <3>8. World' = x
      <4>1. Becomes(x)
        BY <1>0, <2>2, <3>4, SafeIs DEF Becomes, r, n
      <4> QED
        BY <3>4, <4>1, BecomesIs
    <3> QED
      BY <1>0, <3>4, <3>7, <3>8 DEF FadesSafe
  <2> QED
    BY <1>3, <2>1, <2>2 DEF PictureStarts
<1> QED
  BY <1>1, <1>2, <1>3

\* The steps of the output.
LEMMA OutputStepKeeps ==
  ASSUME FadesSafe(World), NEW v \in Voice, OutputStep(v)
  PROVE  FadesSafe(World')
<1>0. /\ World \in Worlds /\ FadeCore(World) /\ HistIn(World) /\ SoundIn(World, {})
      /\ World.fade = fade /\ World.pic = pic /\ World.layer = layer /\ World.next = next
      /\ World.of = of /\ World.past = past
  BY SafeIs
<1>1. CASE Reveal(v)
  <2> DEFINE t == Revealed(layer[v])
             x == [World EXCEPT !.layer[v] = t]
  <2>1. FadesSafe([World EXCEPT !.layer[v] = Revealed(World.layer[v])])
    BY <1>0, <1>1, RevealKeeps DEF Reveal
  <2>2. FadesSafe(x)
    BY <1>0, <2>1
  <2>3. World' = x
    <3>1. layer' = [layer EXCEPT ![v] = t]
      BY <1>1 DEF Reveal, Revealed
    <3>2. UNCHANGED <<fade, pic, next, of, past>>
      BY <1>1 DEF Reveal
    <3> HIDE DEF t
    <3> QED
      BY <3>1, <3>2 DEF World
  <2> QED
    BY <2>2, <2>3
<1>2. CASE ContentEnds(v) \/ Released(v)
  <2> DEFINE x == Kept(World, Leave(World, v))
  <2>1. x \in Worlds /\ FadeCore(x) /\ HistIn(x) /\ \A S : SoundIn(World, S) => SoundIn(x, S)
    BY <1>0, LeaveKeeps
  <2>2. Becomes(x)
    BY <1>2 DEF ContentEnds, Released, Does
  <2> HIDE DEF x
  <2>3. World' = x
    BY <2>1, <2>2, BecomesIs
  <2> QED
    BY <1>0, <2>1, <2>3 DEF FadesSafe
<1>3. CASE DriveCrossfade(v)
  <2> DEFINE m == Driven(World, v)
             x == [World EXCEPT !.layer = m]
  <2>1. FadesSafe(x)
    BY <1>0, <1>3, DriveKeeps DEF DriveCrossfade
  <2>2. layer' = m
    BY <1>0, <1>3 DEF DriveCrossfade, Driven
  <2>3. UNCHANGED <<fade, pic, next, of, past>>
    BY <1>3 DEF DriveCrossfade
  <2> HIDE DEF m
  <2>4. World' = x
    BY <2>2, <2>3 DEF World
  <2> QED
    BY <2>1, <2>4
<1> QED
  BY <1>1, <1>2, <1>3 DEF OutputStep

\* The steps of the loop.
LEMMA LoopStepKeeps ==
  ASSUME OneFadeEach, FadesSafe(World), Tick \/ Reap
  PROVE  FadesSafe(World')
<1>0. /\ World \in Worlds /\ FadeCore(World) /\ HistIn(World) /\ SoundIn(World, {})
      /\ World.fade = fade /\ World.pic = pic /\ World.layer = layer /\ World.next = next
      /\ World.of = of /\ World.past = past
  BY SafeIs
<1>1. ASSUME NEW ok, LoopTick(ok) PROVE FadesSafe(World')
  <2> DEFINE x == Stopped(PushedOn(Ticked[Len(Fade)].w, ok), SetToSeq(Ticked[Len(Fade)].stops))
  <2>1. FadesSafe(x)
    BY LoopKeeps
  <2>2. Becomes(x)
    BY <1>1 DEF LoopTick
  <2> HIDE DEF x
  <2>3. World' = x
    BY <2>1, <2>2, BecomesIs DEF FadesSafe
  <2> QED
    BY <2>1, <2>3
<1>2. CASE Reap
  <2> DEFINE over == {f \in Fades : FadeOver(f)}
             gone == {p \in Picture : PictureOver(p)}
             L == UNION { Sounds(f) \cup { s.voice : s \in fade[f].cross.sounds } :
                          f \in { g \in Fades : FadeOver(g) /\ ~fade[g].done } }
             fs == [f \in Fades |-> IF f \in over THEN Rest ELSE fade[f]]
             ps == [p \in Picture |-> IF p \in gone THEN AtRest ELSE pic[p]]
             h == [past EXCEPT !.missed = @ \cup L]
             x == [World EXCEPT !.fade = fs, !.pic = ps, !.past = h]
  <2>1. fade' = fs /\ pic' = ps /\ past' = h /\ UNCHANGED <<layer, next, of>>
    BY <1>2 DEF Reap, AtRest
  <2>2. L \in SUBSET Voices
    <3>1. ASSUME NEW f \in Fades PROVE Sounds(f) \cup { s.voice : s \in fade[f].cross.sounds } \subseteq Voices
      <4>1. Sounds(f) \subseteq Voices
        BY SoundsIs
      <4>2. fade[f].cross.sounds \in SUBSET [voice : Voice, gain : Level]
        BY <1>0, FadeIs
      <4>3. \A s \in fade[f].cross.sounds : s.voice \in Voices
        BY <4>2, Constants
      <4> QED
        BY <4>1, <4>3
    <3> QED
      BY <3>1
  <2>3. \A p \in gone : ~OnSlot(World, World.pic[p].voice)
    BY <1>0 DEF PictureOver, OnSlot
  <2>4. \A f \in over : World.fade[f].done \/ (Linked(World, f) => Incoming(World, f) \in L)
    <3> SUFFICES ASSUME NEW f \in Fades, FadeOver(f), ~fade[f].done, Linked(World, f)
                 PROVE  Incoming(World, f) \in L
      BY <1>0
    <3>1. Incoming(World, f) \in Sounds(f)
      BY SoundsIs
    <3> QED
      BY <3>1
  <2>5. over \in SUBSET Fades /\ gone \in SUBSET Picture
    OBVIOUS
  <2> HIDE DEF over, gone, L
  <2>6. x = [World EXCEPT !.fade = [f \in Fades |-> IF f \in over THEN Rest ELSE World.fade[f]],
                          !.pic = [p \in Picture |-> IF p \in gone THEN AtRest ELSE World.pic[p]],
                          !.past = [World.past EXCEPT !.missed = @ \cup L]]
    <3>1. /\ fs = [f \in Fades |-> IF f \in over THEN Rest ELSE World.fade[f]]
          /\ ps = [p \in Picture |-> IF p \in gone THEN AtRest ELSE World.pic[p]]
          /\ h = [World.past EXCEPT !.missed = @ \cup L]
      BY <1>0, Zenon
    <3> HIDE DEF fs, ps, h
    <3> QED
      BY <3>1, Zenon
  <2> HIDE DEF fs, ps, h
  <2>7. FadesSafe(x)
    <3> HIDE DEF x
    <3> QED
      BY <2>2, <2>3, <2>4, <2>5, <2>6, ReapKeeps
  <2>8. Becomes(x)
    <3>1. /\ x.fade = fs /\ x.pic = ps /\ x.layer = World.layer /\ x.next = World.next
          /\ x.of = World.of /\ x.past = h
      BY <1>0, PutReaped
    <3> HIDE DEF x
    <3> QED
      BY <1>0, <2>1, <3>1 DEF Becomes
  <2> HIDE DEF x
  <2>9. World' = x
    BY <2>7, <2>8, BecomesIs DEF FadesSafe
  <2> QED
    BY <2>7, <2>9
<1> QED
  BY <1>1, <1>2 DEF Tick

\* The step of time.
LEMMA ElapseKeeps ==
  ASSUME FadesSafe(World), Elapse
  PROVE  FadesSafe(World')
<1> DEFINE fs == [f \in Fades |-> FadeLater(fade[f])]
           ls == [v \in Voice |-> [layer[v] EXCEPT !.link = LinkLater(layer[v].link)]]
           x == [World EXCEPT !.fade = fs, !.layer = ls]
<1>0. World.fade = fade /\ World.layer = layer
  BY SafeIs
<1>1. fade' = fs /\ layer' = ls /\ UNCHANGED <<pic, next, of, past>>
  BY DEF Elapse
<1>2. x = [World EXCEPT !.fade = [f \in Fades |-> FadeLater(World.fade[f])],
                        !.layer = [v \in Voice |-> [World.layer[v] EXCEPT !.link = LinkLater(World.layer[v].link)]]]
  <2>1. /\ fs = [f \in Fades |-> FadeLater(World.fade[f])]
        /\ ls = [v \in Voice |-> [World.layer[v] EXCEPT !.link = LinkLater(World.layer[v].link)]]
    BY <1>0, Zenon
  <2> HIDE DEF fs, ls
  <2> QED
    BY <2>1, Zenon
<1> HIDE DEF fs, ls
<1>3. FadesSafe(x)
  <2> HIDE DEF x
  <2> QED
    BY <1>2, LaterKeeps
<1>4. Becomes(x)
  <2>1. /\ x.fade = fs /\ x.pic = World.pic /\ x.layer = ls /\ x.next = World.next
        /\ x.of = World.of /\ x.past = World.past
    BY SafeIs, PutLater
  <2> HIDE DEF x
  <2> QED
    BY <1>1, <2>1, SafeIs DEF Becomes
<1> HIDE DEF x
<1>5. World' = x
  BY <1>3, <1>4, BecomesIs DEF FadesSafe
<1> QED
  BY <1>3, <1>5

---------------------------------------------------------------------------
(***************************************************************************)
(* The invariant, and what it says of the state.                            *)
(***************************************************************************)
FadeInv == FadesSafe(World) /\ turn \in {"idle", "ticked"} /\ calls \in 0..MaxCalls

\* The invariant holds at first.
LEMMA InitKeeps ==
  ASSUME FadeInit
  PROVE  FadeInv
<1> DEFINE w == World
<1>1. /\ w.fade = [f \in Fades |-> Rest]
      /\ w.pic = [p \in Picture |-> AtRest]
      /\ w.layer = [v \in Voice |-> Gone] /\ w.next = 1 /\ w.of = [v \in Voice |-> Nobody]
      /\ w.past = [late |-> {}, missed |-> {}, left |-> {}, faded |-> {}, taken |-> {}, dull |-> {},
                   dim |-> {}, spent |-> {}]
  BY DEF FadeInit, World, AtRest
<1>2. w \in Worlds
  <2>1. w = [fade |-> fade, pic |-> pic, layer |-> layer, next |-> next, of |-> of, past |-> past]
    BY DEF World
  <2>2. /\ fade \in [Fades -> FadeRecords] /\ layer \in [Voice -> Layers]
        /\ of \in [Voice -> Picture \cup {Nobody}]
    BY RestIs, GoneIs DEF FadeInit
  <2>3. pic \in [Picture -> PicRecords]
    BY Constants DEF FadeInit, PicRecords
  <2>4. next \in 1..(LastVoice + 1)
    BY Constants DEF FadeInit
  <2>5. past \in Pasts
    BY DEF FadeInit, Pasts
  <2> HIDE DEF w
  <2> QED
    BY <2>1, <2>2, <2>3, <2>4, <2>5 DEF Worlds
<1> HIDE DEF w
<1>3. \A f \in Fades : ~Linked(w, f) /\ w.fade[f] = Rest
  BY <1>1, RestIs DEF Linked
<1>4. \A v \in Voice : w.layer[v] = Gone /\ ~w.layer[v].on /\ ~Live(w, v)
                       /\ w.layer[v].link = NoLink /\ ~w.layer[v].shown
  BY <1>1, GoneIs DEF Live
<1>5. \A p \in Picture : w.pic[p] = AtRest
  BY <1>1
<1>6. PicsIn(w)
  BY <1>5 DEF PicsIn, AtRest, OnSlot
<1>7. VoicesIn(w) /\ DimIn(w) /\ SoundIn(w, {})
  BY <1>4 DEF VoicesIn, DimIn, SoundIn
<1>8. LinksIn(w)
  BY <1>4, NoLinkIs DEF LinksIn
<1>9. CrossIn(w)
  BY <1>3, RestIs DEF CrossIn, CrossOf
<1>10. AloneIn(w) /\ StepIn(w) /\ DoneIn(w)
  BY <1>3, <1>4, NoLinkIs DEF AloneIn, AloneOf, StepIn, StepOf, DoneIn, DoneOf
<1>11. HistIn(w)
  BY <1>3, <1>4, RestIs, NoLinkIs DEF HistIn, Dulled
<1>12. FadesSafe(w)
  BY <1>2, <1>6, <1>7, <1>8, <1>9, <1>10, <1>11 DEF FadesSafe, FadeCore
<1>13. turn \in {"idle", "ticked"} /\ calls \in 0..MaxCalls
  BY CrossfadeAssumption DEF FadeInit, CrossfadeAssumption
<1> QED
  BY <1>12, <1>13 DEF FadeInv, w

\* Every step keeps it.
LEMMA StepKeeps ==
  ASSUME OneFadeEach, FadeInv, [FadeNext]_fadevars
  PROVE  FadeInv'
<1>0. FadesSafe(World) /\ turn \in {"idle", "ticked"} /\ calls \in 0..MaxCalls /\ MaxCalls \in Nat
  BY CrossfadeAssumption DEF FadeInv, CrossfadeAssumption
<1>1. ASSUME Command PROVE turn' \in {"idle", "ticked"} /\ calls' \in 0..MaxCalls
  BY <1>0, <1>1 DEF Command
<1>2. ASSUME NEW f \in Fades, FadeStep(f) PROVE FadeInv'
  <2>1. CASE \E ok \in SUBSET {Plan[f].into} : FireFade(f, ok)
    <3>1. PICK ok \in SUBSET {Plan[f].into} : FireFade(f, ok)
      BY <2>1
    <3>2. FadesSafe(World')
      BY <1>0, <3>1, FireFadeKeeps
    <3>3. Command
      BY <3>1 DEF FireFade
    <3> QED
      BY <1>1, <3>2, <3>3 DEF FadeInv
  <2>2. CASE Stop(f)
    <3>1. FadesSafe(World')
      BY <1>0, <2>2, StopFadeKeeps
    <3>2. Command
      BY <2>2 DEF Stop
    <3> QED
      BY <1>1, <3>1, <3>2 DEF FadeInv
  <2>3. CASE Pause(f)
    <3>1. FadesSafe(World')
      BY <1>0, <2>3, PauseFadeKeeps
    <3>2. Command
      BY <2>3 DEF Pause
    <3> QED
      BY <1>1, <3>1, <3>2 DEF FadeInv
  <2>4. CASE Resume(f)
    <3>1. FadesSafe(World')
      BY <1>0, <2>4, ResumeFadeKeeps
    <3>2. turn' = turn /\ calls' = calls
      BY <2>4 DEF Resume
    <3> QED
      BY <1>0, <3>1, <3>2 DEF FadeInv
  <2> QED
    BY <1>2, <2>1, <2>2, <2>3, <2>4 DEF FadeStep
<1>3. ASSUME NEW p \in Picture, GoCue(p) \/ StopCue(p) \/ PictureStarts(p) PROVE FadeInv'
  <2>1. FadesSafe(World')
    BY <1>0, <1>3, PictureStepKeeps
  <2>2. Command \/ (turn' = turn /\ calls' = calls)
    BY <1>3 DEF GoCue, StopCue, PictureStarts
  <2>3. turn' \in {"idle", "ticked"} /\ calls' \in 0..MaxCalls
    BY <1>0, <1>1, <2>2
  <2> QED
    BY <2>1, <2>3 DEF FadeInv
<1>4. ASSUME NEW v \in Voice, OutputStep(v) PROVE FadeInv'
  <2>1. FadesSafe(World')
    BY <1>0, <1>4, OutputStepKeeps
  <2>2. turn' = turn /\ (calls' = calls \/ (calls < MaxCalls /\ calls' = calls + 1))
    BY <1>4 DEF OutputStep, Reveal, ContentEnds, Released, DriveCrossfade
  <2>3. turn' \in {"idle", "ticked"} /\ calls' \in 0..MaxCalls
    BY <1>0, <2>2
  <2> QED
    BY <2>1, <2>3 DEF FadeInv
<1>5. CASE Tick \/ Reap
  <2>1. FadesSafe(World')
    BY <1>0, <1>5, LoopStepKeeps
  <2>2. turn' \in {"idle", "ticked"} /\ calls' = calls
    BY <1>5 DEF Tick, LoopTick, Reap
  <2> QED
    BY <1>0, <2>1, <2>2 DEF FadeInv
<1>6. CASE Elapse
  <2>1. FadesSafe(World')
    BY <1>0, <1>6, ElapseKeeps
  <2>2. turn' = turn /\ calls' = calls
    BY <1>6 DEF Elapse
  <2> QED
    BY <1>0, <2>1, <2>2 DEF FadeInv
<1>7. CASE UNCHANGED fadevars
  <2>1. World' = World /\ turn' = turn /\ calls' = calls
    BY <1>7 DEF fadevars, World
  <2> QED
    BY <1>0, <2>1 DEF FadeInv
<1> QED
  BY <1>2, <1>3, <1>4, <1>5, <1>6, <1>7 DEF FadeNext

\* It says what the properties ask for.
LEMMA InvIsSafe ==
  ASSUME FadeInv
  PROVE  FadeSafety /\ SoundComes
<1>0. /\ FadesSafe(World) /\ World \in Worlds /\ FadeCore(World) /\ HistIn(World) /\ SoundIn(World, {})
      /\ World.fade = fade /\ World.pic = pic /\ World.layer = layer /\ World.next = next
      /\ World.of = of /\ World.past = past
      /\ turn \in {"idle", "ticked"} /\ calls \in 0..MaxCalls
  BY SafeIs DEF FadeInv
<1>1. FadeTypes
  <2>1. /\ fade \in [Fades -> FadeRecords] /\ pic \in [Picture -> PicRecords]
        /\ next \in 1..(LastVoice + 1)
    BY <1>0, WorldIs
  <2>2. \A v \in Voice : layer[v].opacity \in Level /\ layer[v].gain \in Level /\ layer[v].link \in Links
    BY <1>0, LayerIs
  <2>3. \A v \in Voice : (layer[v].on \/ layer[v] = Gone) /\ \A o \in layer[v].link.out : o.voice # v
    BY <1>0 DEF FadeCore, VoicesIn, LinksIn
  <2>4. \A v \in Voice : /\ layer[v].link.done \in 0..Span /\ layer[v].link.since \in 0..Span
                         /\ \A o \in layer[v].link.out : o.voice \in Voice /\ o.from \in Level
    BY <2>2, LinkIs DEF Outs
  <2> QED
    BY <1>0, <2>1, <2>2, <2>3, <2>4 DEF FadeTypes, FadeRecords, PicRecords, Crosses, Voices
<1>2. InStep
  <2> SUFFICES ASSUME NEW f \in Fades, fade[f].state # "standby", LinkedVoice(World, f) # NoVoice,
                      ~fade[f].awaiting, Phase(World, LinkedVoice(World, f)) = "started"
               PROVE  fade[f].clock = layer[LinkedVoice(World, f)].link.done
                      \/ LinkedVoice(World, f) \in past.late
    BY DEF InStep
  <2> DEFINE v == LinkedVoice(World, f)
  <2>1. Linked(World, f) /\ Incoming(World, f) = v
    BY <1>0, CrossIs
  <2>2. v \in Voice
    BY <1>0, <2>1, SoundsIs
  <2>3. layer[v].link.is
    BY <1>0 DEF Phase
  <2>4. StepOf(World, f)
    BY <1>0 DEF FadeCore, StepIn
  <2> HIDE DEF v
  <2>5. Together(fade[f], layer[v].link, v \in past.late)
    BY <1>0, <2>1, <2>3, <2>4 DEF StepOf
  <2>6. v \notin past.late => fade[f].clock = layer[v].link.done
    BY <2>5 DEF Together
  <2> QED
    BY <2>6 DEF v
<1>3. NothingLeftDim
  <2> SUFFICES ASSUME NEW p \in Picture, pic[p].state = "running", pic[p].voice # NoVoice,
                      layer[pic[p].voice].shown, ~layer[pic[p].voice].stopping,
                      layer[pic[p].voice].opacity # "full"
               PROVE  LET v == pic[p].voice IN
                      \/ v \in past.faded \cup past.dim \cup past.spent
                      \/ layer[v].link.is \/ \E u \in Voice : \E o \in layer[u].link.out : o.voice = v
    BY DEF NothingLeftDim
  <2> DEFINE v == pic[p].voice
  <2>1. v \in Voice
    BY <1>0, PicIs, Constants
  <2> HIDE DEF v
  <2>2. layer[v].on \/ layer[v] = Gone
    BY <1>0, <2>1 DEF FadeCore, VoicesIn
  <2>3. layer[v].on
    BY <2>2, GoneIs DEF v
  <2>4. Live(World, v)
    BY <1>0, <2>3 DEF Live, v
  <2>5. \/ v \in past.faded \cup past.dim \cup past.spent
        \/ layer[v].link.is /\ ~Mixes(layer[v].link)
        \/ \E u \in Voice : \E o \in layer[u].link.out : o.voice = v /\ o.apart
    BY <1>0, <2>1, <2>4 DEF FadeCore, DimIn, v
  <2> QED
    BY <2>5 DEF v
<1>4. SoundComes
  <2> SUFFICES ASSUME NEW v \in Voice, layer[v].on, ~layer[v].stopping, layer[v].gain # "full"
               PROVE  \/ \E f \in Fades : /\ fade[f].state # "standby"
                                          /\ v \in Sounds(f)
                      \/ v \in past.left \cup past.missed \cup past.faded \cup past.taken \cup past.dull
    BY DEF SoundComes
  <2>1. Live(World, v)
    BY <1>0 DEF Live
  <2>2. (\E f \in Fades : OwnerOf(World, f, v)) \/ v \in Excused(World)
    BY <1>0, <2>1 DEF SoundIn
  <2>3. ASSUME NEW f \in Fades, OwnerOf(World, f, v) PROVE fade[f].state # "standby" /\ v \in Sounds(f)
    BY <1>0, <2>3, SoundsIs DEF OwnerOf
  <2> QED
    BY <1>0, <2>2, <2>3 DEF Excused
<1> QED
  BY <1>1, <1>2, <1>3, <1>4 DEF FadeSafety

\* Where no two Fades dissolve into the same picture, sound and picture of a crossfade
\* keep together, and no picture is left in the dark.
THEOREM FadesAreSafe == OneFadeEach => (FadeSpec => []FadeSafety)
<1> SUFFICES ASSUME OneFadeEach PROVE FadeSpec => []FadeSafety
  OBVIOUS
<1>1. FadeInit => FadeInv
  BY InitKeeps
<1>2. FadeInv /\ [FadeNext]_fadevars => FadeInv'
  BY StepKeeps
<1>3. FadeInv => FadeSafety
  BY InvIsSafe
<1> QED
  BY <1>1, <1>2, <1>3, PTL DEF FadeSpec

\* Nor does the sound of a picture that was dissolved in stay below its level.
THEOREM SoundsCome == OneFadeEach => (FadeSpec => []SoundComes)
<1> SUFFICES ASSUME OneFadeEach PROVE FadeSpec => []SoundComes
  OBVIOUS
<1>1. FadeInit => FadeInv
  BY InitKeeps
<1>2. FadeInv /\ [FadeNext]_fadevars => FadeInv'
  BY StepKeeps
<1>3. FadeInv => SoundComes
  BY InvIsSafe
<1> QED
  BY <1>1, <1>2, <1>3, PTL DEF FadeSpec
=============================================================================
