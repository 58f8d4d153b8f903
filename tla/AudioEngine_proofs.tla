------------------------- MODULE AudioEngine_proofs -------------------------
(***************************************************************************)
(* The safety of the audio engine, and its refinement of VoicePromise, for  *)
(* every set of voices, ring size and trial.                                *)
(***************************************************************************)
EXTENDS AudioEngine, FiniteSetTheorems, SequenceTheorems,
        WellFoundedInduction, TLAPS

---------------------------------------------------------------------------
(***************************************************************************)
(* Induction over the naturals, in the form the provers can use: for a set. *)
(***************************************************************************)
\* A set of naturals that has an element has a least one.
LEMMA LeastNumber ==
  ASSUME NEW N \in SUBSET Nat, N # {}
  PROVE  \E n \in N : \A m \in N : n <= m
<1> DEFINE T == {1..n : n \in N}
           R == StrictSubsetOrdering(Nat)
<1>1. T \subseteq FiniteSubsetsOf(Nat) /\ T # {}
  <2>1. \A n \in N : IsFiniteSet(1..n)
    <3> SUFFICES ASSUME NEW n \in N PROVE IsFiniteSet(1..n)
      OBVIOUS
    <3>1. n \in Int /\ 1 \in Int
      OBVIOUS
    <3> QED
      BY <3>1, FS_Interval
  <2>2. \A n \in N : 1..n \in SUBSET Nat
    OBVIOUS
  <2> QED
    BY <2>1, <2>2 DEF FiniteSubsetsOf
<1>2. IsWellFoundedOn(R, FiniteSubsetsOf(Nat))
  BY FS_StrictSubsetOrderingWellFounded
<1>3. PICK x \in T : \A y \in T : ~(<<y, x>> \in R)
  <2> HIDE DEF T, R
  <2> QED
    BY <1>1, <1>2, WFMin
<1>4. PICK n \in N : x = 1..n
  BY <1>3
<1>5. ASSUME NEW m \in N, m < n PROVE FALSE
  <2>1. 1..m \in T
    BY <1>5
  <2>2. 1..m \subseteq 1..n /\ 1..m # 1..n /\ 1..m \in SUBSET Nat /\ 1..n \in SUBSET Nat
    <3>1. n \in 1..n /\ n \notin 1..m
      BY <1>5
    <3> QED
      BY <3>1, <1>5
  <2>3. <<1..m, 1..n>> \in R
    BY <2>2 DEF StrictSubsetOrdering
  <2> QED
    BY <2>1, <2>3, <1>3, <1>4
<1> QED
  BY <1>4, <1>5

\* A set that holds 0, and with a natural its successor, holds every natural.
LEMMA Induction ==
  ASSUME NEW S \in SUBSET Nat, 0 \in S, \A n \in S : n + 1 \in S
  PROVE  S = Nat
<1> SUFFICES ASSUME S # Nat PROVE FALSE
  OBVIOUS
<1>1. PICK n \in Nat \ S : \A m \in Nat \ S : n <= m
  <2>1. Nat \ S \in SUBSET Nat /\ Nat \ S # {}
    OBVIOUS
  <2> QED
    BY <2>1, LeastNumber
<1>2. n - 1 \in Nat /\ n - 1 < n /\ n = (n - 1) + 1
  BY <1>1
<1> QED
  BY <1>1, <1>2

---------------------------------------------------------------------------
(***************************************************************************)
(* Commands, and the requests for a voice among those of a ring.            *)
(***************************************************************************)
\* A command that names the voice, other than a panic.
Own(c, v)      == c.op \in Operations /\ c.voice = v
Silences(c, v) == Names(c, v) /\ c.op \in {"stop", "fade", "stopall"}
Starts(c, v)   == c \in {Cmd("play", v), Cmd("resume", v)}
Ends(c, v)     == Own(c, v) /\ c.op \in {"stop", "fade"}

\* What tells the commands of a ring apart is their op, and whom they name.
LEMMA CommandOps ==
  ASSUME NEW c \in Commands, NEW v \in Voice
  PROVE  /\ c.op \in Operations \cup {"stopall", "gain"}
         /\ c = StopAll <=> c.op = "stopall"
         /\ Names(c, v) <=> c.op = "stopall" \/ Own(c, v)
         /\ Silences(c, v) <=> c.op = "stopall" \/ Ends(c, v)
         /\ Starts(c, v) <=> Own(c, v) /\ c.op \in {"play", "resume"}
         /\ Request(c, v) <=> \/ c.op = "stopall"
                              \/ Own(c, v) /\ c.op \in {"play", "stop", "fade", "pause", "resume"}
         /\ Request(c, v) => c.op \in Promise!Asked
<1>1. CASE c \in [op: Operations, voice: Voice]
  <2>1. c.op \in Operations /\ c.voice \in Voice /\ c = [op |-> c.op, voice |-> c.voice]
    BY <1>1
  <2>2. c # StopAll
    BY <2>1 DEF StopAll, Operations
  <2> QED
    BY <2>1, <2>2 DEF Operations, Names, Own, Silences, Ends, Starts, Cmd, Request,
                      Promise!Asked
<1>2. CASE c = StopAll
  <2>1. c.op = "stopall"
    BY <1>2 DEF StopAll
  <2> QED
    BY <2>1, <1>2 DEF Operations, Names, Own, Silences, Ends, Starts, Cmd, Request,
                      Promise!Asked
<1>3. CASE c = SetPatchGain
  <2>1. c.op = "gain" /\ StopAll.op = "stopall"
    BY <1>3 DEF SetPatchGain, StopAll
  <2> QED
    BY <2>1 DEF Operations, Names, Own, Silences, Ends, Starts, Cmd, Request,
                Promise!Asked
<1> QED
  BY <1>1, <1>2, <1>3 DEF Commands

\* The recursion that Requests is defined by.
Picks(f, q, v, n) ==
  \A i \in 0..n : f[i] = IF i = 0 THEN <<>>
                         ELSE IF Request(q[i], v) THEN Append(f[i - 1], q[i].op) ELSE f[i - 1]

\* The recursion has a solution.
LEMMA RequestsExist ==
  ASSUME NEW q \in Seq(Commands), NEW v \in Voice
  PROVE  \E f \in [0..Len(q) -> Seq(Promise!Asked)] : Picks(f, q, v, Len(q))
<1> DEFINE S == {n \in Nat : n <= Len(q) =>
                   \E f \in [0..n -> Seq(Promise!Asked)] : Picks(f, q, v, n)}
<1>1. 0 \in S
  <2> DEFINE f == [i \in 0..0 |-> <<>>]
  <2>1. f \in [0..0 -> Seq(Promise!Asked)]
    OBVIOUS
  <2>2. Picks(f, q, v, 0)
    BY DEF Picks
  <2> QED
    BY <2>1, <2>2
<1>2. ASSUME NEW n \in S PROVE n + 1 \in S
  <2> SUFFICES ASSUME n + 1 <= Len(q)
               PROVE  \E f \in [0..(n + 1) -> Seq(Promise!Asked)] : Picks(f, q, v, n + 1)
    OBVIOUS
  <2>1. PICK f \in [0..n -> Seq(Promise!Asked)] : Picks(f, q, v, n)
    BY <1>2
  <2> DEFINE more == IF Request(q[n + 1], v) THEN Append(f[n], q[n + 1].op) ELSE f[n]
             g == [i \in 0..(n + 1) |-> IF i = n + 1 THEN more ELSE f[i]]
  <2>2. q[n + 1] \in Commands
    OBVIOUS
  <2>3. more \in Seq(Promise!Asked)
    BY <2>2, CommandOps
  <2>4. g \in [0..(n + 1) -> Seq(Promise!Asked)]
    BY <2>3
  <2>5. Picks(g, q, v, n + 1)
    <3> SUFFICES ASSUME NEW i \in 0..(n + 1)
                 PROVE  g[i] = IF i = 0 THEN <<>>
                               ELSE IF Request(q[i], v) THEN Append(g[i - 1], q[i].op)
                               ELSE g[i - 1]
      BY DEF Picks
    <3>1. CASE i = n + 1
      <4>1. g[i] = more /\ i # 0 /\ i - 1 = n /\ g[n] = f[n]
        BY <3>1
      <4>2. more = IF Request(q[n + 1], v) THEN Append(f[n], q[n + 1].op) ELSE f[n]
        OBVIOUS
      <4> HIDE DEF g, more
      <4> QED
        BY <3>1, <4>1, <4>2
    <3>2. CASE i \in 0..n
      <4>1. g[i] = f[i] /\ (i # 0 => i - 1 \in 0..n /\ g[i - 1] = f[i - 1])
        BY <3>2
      <4> HIDE DEF g, more
      <4> QED
        BY <4>1, <3>2, <2>1 DEF Picks
    <3> QED
      BY <3>1, <3>2
  <2> QED
    BY <2>4, <2>5
<1>3. S = Nat
  <2> HIDE DEF S
  <2>1. S \in SUBSET Nat
    BY DEF S
  <2> QED
    BY <1>1, <1>2, <2>1, Induction
<1> QED
  BY <1>3

\* It has one solution, and a ring's beginning decides its beginning.
LEMMA PicksAgree ==
  ASSUME NEW q, NEW r, NEW v, NEW n \in Nat, \A i \in 1..n : q[i] = r[i],
         NEW f, NEW g, Picks(f, q, v, n), Picks(g, r, v, n)
  PROVE  \A i \in 0..n : f[i] = g[i]
<1> DEFINE S == {i \in Nat : i <= n => f[i] = g[i]}
<1>1. 0 \in S
  BY DEF Picks
<1>2. ASSUME NEW i \in S PROVE i + 1 \in S
  <2> SUFFICES ASSUME i + 1 <= n PROVE f[i + 1] = g[i + 1]
    OBVIOUS
  <2>1. i + 1 \in 0..n /\ i + 1 # 0 /\ i + 1 \in 1..n /\ (i + 1) - 1 = i /\ f[i] = g[i]
    BY <1>2
  <2> QED
    BY <2>1 DEF Picks
<1>3. S = Nat
  <2> HIDE DEF S
  <2>1. S \in SUBSET Nat
    BY DEF S
  <2> QED
    BY <1>1, <1>2, <2>1, Induction
<1> QED
  BY <1>3

\* Requests is what the recursion picks of the whole ring.
LEMMA RequestsDef ==
  ASSUME NEW q \in Seq(Commands), NEW v \in Voice
  PROVE  \E f \in [0..Len(q) -> Seq(Promise!Asked)] :
           Picks(f, q, v, Len(q)) /\ Requests(q, v) = f[Len(q)]
<1> DEFINE Solves(f) == f = [i \in 0..Len(q) |->
                               IF i = 0 THEN <<>>
                               ELSE IF Request(q[i], v) THEN Append(f[i - 1], q[i].op)
                               ELSE f[i - 1]]
           F == CHOOSE f : Solves(f)
<1>1. PICK f \in [0..Len(q) -> Seq(Promise!Asked)] : Picks(f, q, v, Len(q))
  BY RequestsExist
<1>2. Solves(f)
  BY <1>1 DEF Picks
<1>3. Solves(F)
  <2> HIDE DEF Solves
  <2> QED
    BY <1>2
<1>4. Requests(q, v) = F[Len(q)]
  BY DEF Requests
<1>5. Picks(F, q, v, Len(q))
  <2> HIDE DEF F
  <2> QED
    BY <1>3 DEF Picks
<1>6. \A i \in 0..Len(q) : F[i] = f[i]
  <2> HIDE DEF F
  <2> QED
    BY <1>1, <1>5, PicksAgree
<1>7. Requests(q, v) = f[Len(q)]
  <2>1. Len(q) \in 0..Len(q)
    OBVIOUS
  <2> HIDE DEF F
  <2> QED
    BY <1>4, <1>6, <2>1
<1> QED
  BY <1>1, <1>7

\* A ring that has no request.
LEMMA NoRequests ==
  ASSUME NEW v \in Voice
  PROVE  Requests(<<>>, v) = <<>>
<1>1. <<>> \in Seq(Commands) /\ Len(<<>>) = 0
  OBVIOUS
<1>2. PICK f : Picks(f, <<>>, v, 0) /\ Requests(<<>>, v) = f[0]
  BY <1>1, RequestsDef
<1> QED
  BY <1>2 DEF Picks

\* A command pushed is asked after those before it.
LEMMA RequestsOfAppend ==
  ASSUME NEW q \in Seq(Commands), NEW c \in Commands, NEW v \in Voice
  PROVE  Requests(Append(q, c), v) =
           IF Request(c, v) THEN Append(Requests(q, v), c.op) ELSE Requests(q, v)
<1> DEFINE n == Len(q)
           r == Append(q, c)
<1>1. r \in Seq(Commands) /\ Len(r) = n + 1 /\ r[n + 1] = c /\ \A i \in 1..n : q[i] = r[i]
  OBVIOUS
<1>2. PICK f : Picks(f, q, v, n) /\ Requests(q, v) = f[n]
  BY RequestsDef
<1>3. PICK g : Picks(g, r, v, n + 1) /\ Requests(r, v) = g[n + 1]
  <2> HIDE DEF r
  <2> QED
    BY <1>1, RequestsDef
<1>4. Picks(g, r, v, n) /\ Picks(f, q, v, n) /\ n \in Nat
  BY <1>2, <1>3 DEF Picks
<1>5. f[n] = g[n]
  <2>1. n \in Nat /\ n \in 0..n
    OBVIOUS
  <2> HIDE DEF n, r
  <2>2. \A i \in 0..n : f[i] = g[i]
    <3>1. \A i \in 1..n : q[i] = r[i]
      BY <1>1
    <3> QED
      BY ONLY <3>1, <1>4, PicksAgree
  <2> QED
    BY <2>1, <2>2
<1>6. g[n + 1] = IF Request(c, v) THEN Append(g[n], c.op) ELSE g[n]
  <2>1. n + 1 \in 0..(n + 1) /\ n + 1 # 0 /\ (n + 1) - 1 = n
    OBVIOUS
  <2> HIDE DEF n, r
  <2> QED
    BY <2>1, <1>1, <1>3 DEF Picks
<1> QED
  BY <1>2, <1>3, <1>5, <1>6

\* A command drained is the oldest request, if it is one.
LEMMA RequestsOfTail ==
  ASSUME NEW q \in Seq(Commands), q # <<>>, NEW v \in Voice
  PROVE  IF Request(Head(q), v)
         THEN /\ Requests(q, v) # <<>> /\ Head(Requests(q, v)) = Head(q).op
              /\ Requests(Tail(q), v) = Tail(Requests(q, v))
         ELSE Requests(Tail(q), v) = Requests(q, v)
<1> DEFINE n == Len(q)
           r == Tail(q)
           first == IF Request(Head(q), v) THEN <<Head(q).op>> ELSE <<>>
<1>1. /\ n \in Nat \ {0} /\ r \in Seq(Commands) /\ Len(r) = n - 1
      /\ \A i \in 1..(n - 1) : r[i] = q[i + 1]
      /\ Head(q) = q[1] /\ Head(q) \in Commands
  OBVIOUS
<1>2. PICK f : Picks(f, q, v, n) /\ Requests(q, v) = f[n]
  BY RequestsDef
<1>3. PICK g \in [0..(n - 1) -> Seq(Promise!Asked)] :
        Picks(g, r, v, n - 1) /\ Requests(r, v) = g[n - 1]
  <2> HIDE DEF r, n
  <2> QED
    BY <1>1, RequestsDef
<1>4. first \in Seq(Promise!Asked)
  BY <1>1, CommandOps
<1> DEFINE S == {i \in Nat : i <= n - 1 => f[i + 1] = first \o g[i]}
<1> HIDE DEF n, r
<1>5. 0 \in S
  <2>1. g[0] = <<>> /\ f[0] = <<>> /\ 0 \in 0..n /\ 1 \in 0..n /\ 1 - 1 = 0
    BY <1>1, <1>2, <1>3 DEF Picks
  <2>2. f[1] = IF Request(q[1], v) THEN Append(f[1 - 1], q[1].op) ELSE f[1 - 1]
    <3> HIDE DEF S
    <3> QED
      BY <2>1, <1>2 DEF Picks
  <2>3. f[1] = first
    <3>1. Append(<<>>, q[1].op) = <<q[1].op>>
      OBVIOUS
    <3> HIDE DEF S
    <3> QED
      BY <3>1, <2>1, <2>2, <1>1
  <2>4. first \o <<>> = first
    <3> HIDE DEF first
    <3> QED
      BY <1>4
  <2>5. f[0 + 1] = first \o g[0]
    BY <2>1, <2>3, <2>4
  <2> QED
    BY <2>5
<1>6. ASSUME NEW i \in S PROVE i + 1 \in S
  <2> SUFFICES ASSUME i + 1 <= n - 1 PROVE f[(i + 1) + 1] = first \o g[i + 1]
    <3> HIDE DEF first
    <3> QED
      OBVIOUS
  <2>1. /\ i \in 0..(n - 1) /\ i + 1 \in 0..(n - 1) /\ i + 1 # 0 /\ (i + 1) - 1 = i
        /\ i + 2 \in 0..n /\ i + 2 # 0 /\ (i + 2) - 1 = i + 1 /\ (i + 1) + 1 = i + 2
        /\ i + 1 \in 1..(n - 1)
    BY <1>1
  <2>2. g[i + 1] = IF Request(r[i + 1], v) THEN Append(g[i], r[i + 1].op) ELSE g[i]
    BY <2>1, <1>3 DEF Picks
  <2>3. f[i + 2] = IF Request(q[i + 2], v) THEN Append(f[i + 1], q[i + 2].op) ELSE f[i + 1]
    BY <2>1, <1>2 DEF Picks
  <2>4. r[i + 1] = q[i + 2] /\ r[i + 1] \in Commands
    BY <1>1, <2>1
  <2>5. f[i + 1] = first \o g[i] /\ g[i] \in Seq(Promise!Asked)
    BY <1>6, <2>1, <1>3
  <2>6. ASSUME Request(q[i + 2], v)
        PROVE  Append(first \o g[i], q[i + 2].op) = first \o Append(g[i], q[i + 2].op)
    <3>1. q[i + 2].op \in Promise!Asked
      BY <2>4, <2>6, CommandOps
    <3> DEFINE b == q[i + 2].op
               s == g[i]
    <3>2. b \in Promise!Asked /\ s \in Seq(Promise!Asked) /\ <<b>> \in Seq(Promise!Asked)
      BY <3>1, <2>5
    <3> HIDE DEF first, b, s
    <3>3. first \o s \in Seq(Promise!Asked)
      BY <3>2, <1>4, ConcatProperties
    <3>4. Append(first \o s, b) = (first \o s) \o <<b>>
      BY <3>2, <3>3, AppendIsConcat
    <3>5. Append(s, b) = s \o <<b>>
      BY <3>2, AppendIsConcat
    <3>6. (first \o s) \o <<b>> = first \o (s \o <<b>>)
      BY <3>2, <1>4, ConcatAssociative
    <3> QED
      BY <3>4, <3>5, <3>6 DEF b, s
  <2> QED
    BY <2>1, <2>2, <2>3, <2>4, <2>5, <2>6
<1>7. S = Nat
  <2> HIDE DEF S
  <2>1. S \in SUBSET Nat
    BY DEF S
  <2> QED
    BY <1>5, <1>6, <2>1, Induction
<1>8. f[n] = first \o g[n - 1] /\ g[n - 1] \in Seq(Promise!Asked)
  <2>1. n - 1 \in Nat /\ (n - 1) + 1 = n /\ n - 1 \in 0..(n - 1) /\ n - 1 <= n - 1
    BY <1>1
  <2>2. n - 1 \in S
    <3> HIDE DEF S
    <3> QED
      BY <2>1, <1>7
  <2> QED
    BY <2>1, <2>2, <1>3
<1>9. CASE Request(Head(q), v)
  <2>1. first = <<Head(q).op>>
    BY <1>9
  <2> DEFINE a == Head(q).op
             s == g[n - 1]
  <2>2. a \in Promise!Asked /\ s \in Seq(Promise!Asked)
    BY <1>9, <1>1, <1>8, CommandOps
  <2>3. <<a>> \o s # <<>> /\ Head(<<a>> \o s) = a /\ Tail(<<a>> \o s) = s
    <3> HIDE DEF a, s
    <3> QED
      BY <2>2
  <2> QED
    BY <1>2, <1>3, <1>8, <2>1, <2>3, <1>9 DEF r
<1>10. CASE ~Request(Head(q), v)
  <2>1. first = <<>>
    BY <1>10
  <2> DEFINE s == g[n - 1]
  <2>2. <<>> \o s = s
    <3>1. s \in Seq(Promise!Asked)
      BY <1>8
    <3> HIDE DEF s
    <3> QED
      BY <3>1
  <2> QED
    BY <1>2, <1>3, <1>8, <2>1, <2>2, <1>10 DEF r
<1> QED
  BY <1>9, <1>10

\* A command for the voice is in the ring; one that ends it, starts it, silences it.
Told(q, v)      == \E i \in DOMAIN q : Own(q[i], v)
Ended(q, v)     == \E i \in DOMAIN q : Ends(q[i], v)
Starting(q, v)  == \E i \in DOMAIN q : Starts(q[i], v)
Silencing(q, v) == \E i \in DOMAIN q : Silences(q[i], v)

\* Every start in the ring is followed by a command that silences.
Covered(q, v) == \A i \in DOMAIN q : Starts(q[i], v) =>
                   \E j \in DOMAIN q : i < j /\ Silences(q[j], v)

\* Nothing is said to a voice after the command that ends it.
LastWord(q, v) == \A i, j \in DOMAIN q : Ends(q[i], v) /\ Own(q[j], v) => j <= i

LEMMA ToldAbout ==
  ASSUME NEW q \in Seq(Commands), NEW v \in Voice
  PROVE  /\ (Ended(q, v) => Told(q, v)) /\ (Starting(q, v) => Told(q, v))
         /\ (~Starting(q, v) => Covered(q, v)) /\ (~Told(q, v) => LastWord(q, v))
<1>1. \A i \in DOMAIN q : q[i] \in Commands
  OBVIOUS
<1> QED
  BY <1>1, CommandOps DEF Ended, Starting, Told, Ends, Covered, LastWord

\* What an empty ring, a push and a pop make of these.
LEMMA EmptyRing ==
  ASSUME NEW v
  PROVE  /\ ~Told(<<>>, v) /\ ~Ended(<<>>, v) /\ ~Starting(<<>>, v) /\ ~Silencing(<<>>, v)
         /\ Covered(<<>>, v) /\ LastWord(<<>>, v)
  BY DEF Told, Ended, Starting, Silencing, Covered, LastWord

LEMMA PushedRing ==
  ASSUME NEW q \in Seq(Commands), NEW c \in Commands, NEW v \in Voice,
         NEW r, r = Append(q, c)
  PROVE  /\ Told(r, v) <=> Told(q, v) \/ Own(c, v)
         /\ Ended(r, v) <=> Ended(q, v) \/ Ends(c, v)
         /\ Starting(r, v) <=> Starting(q, v) \/ Starts(c, v)
         /\ Silencing(r, v) <=> Silencing(q, v) \/ Silences(c, v)
         /\ Covered(r, v) <=> Silences(c, v) \/ (Covered(q, v) /\ ~Starts(c, v))
         /\ LastWord(r, v) <=> LastWord(q, v) /\ (Ended(q, v) => ~Own(c, v))
<1> DEFINE n == Len(q)
<1>1. /\ n \in Nat /\ DOMAIN q = 1..n /\ DOMAIN r = 1..(n + 1)
      /\ r[n + 1] = c /\ \A i \in 1..n : r[i] = q[i]
  OBVIOUS
<1>2. Starts(c, v) => ~Silences(c, v)
  BY CommandOps DEF Ends
<1>3. \A k : k \in 1..(n + 1) <=> k \in 1..n \/ k = n + 1
  BY <1>1
<1>4. \A k \in 1..n : k < n + 1 /\ k <= n + 1 /\ ~(n + 1 <= k)
  BY <1>1
<1>5. ~(n + 1 < n + 1) /\ n + 1 <= n + 1 /\ \A k \in 1..n : ~(n + 1 < k)
  BY <1>1
<1> HIDE DEF n
<1>6. Ends(c, v) => Own(c, v)
  BY DEF Ends
<1>7. Told(r, v) <=> Told(q, v) \/ Own(c, v)
  BY <1>1, <1>3 DEF Told
<1>8. Ended(r, v) <=> Ended(q, v) \/ Ends(c, v)
  BY <1>1, <1>3 DEF Ended
<1>9. Starting(r, v) <=> Starting(q, v) \/ Starts(c, v)
  BY <1>1, <1>3 DEF Starting
<1>10. Silencing(r, v) <=> Silencing(q, v) \/ Silences(c, v)
  BY <1>1, <1>3 DEF Silencing
<1>11. Covered(r, v) <=> Silences(c, v) \/ (Covered(q, v) /\ ~Starts(c, v))
  BY <1>1, <1>2, <1>3, <1>4, <1>5 DEF Covered
<1>12. LastWord(r, v) <=> LastWord(q, v) /\ (Ended(q, v) => ~Own(c, v))
  BY <1>1, <1>3, <1>4, <1>5, <1>6 DEF LastWord, Ended
<1> QED
  BY <1>7, <1>8, <1>9, <1>10, <1>11, <1>12

LEMMA PoppedRing ==
  ASSUME NEW q \in Seq(Commands), q # <<>>, NEW v \in Voice,
         NEW c, c = Head(q), NEW r, r = Tail(q)
  PROVE  /\ Told(q, v) <=> Told(r, v) \/ Own(c, v)
         /\ Ended(q, v) <=> Ended(r, v) \/ Ends(c, v)
         /\ Starting(q, v) <=> Starting(r, v) \/ Starts(c, v)
         /\ Silencing(q, v) <=> Silencing(r, v) \/ Silences(c, v)
         /\ Covered(q, v) => Covered(r, v) /\ (Starts(c, v) => Silencing(r, v))
         /\ LastWord(q, v) => LastWord(r, v) /\ (Ends(c, v) => ~Told(r, v))
<1> DEFINE n == Len(q)
<1>1. /\ n \in Nat \ {0} /\ DOMAIN q = 1..n /\ DOMAIN r = 1..(n - 1)
      /\ q[1] = c /\ \A i \in 1..(n - 1) : r[i] = q[i + 1]
  OBVIOUS
<1>2. c \in Commands
  OBVIOUS
<1>3. 1 \in 1..n /\ \A k \in 1..(n - 1) : k + 1 \in 1..n /\ 1 < k + 1
  BY <1>1
<1>4. \A k \in 1..n : k = 1 \/ \E i \in 1..(n - 1) : k = i + 1
  <2> SUFFICES ASSUME NEW k \in 1..n, k # 1 PROVE k - 1 \in 1..(n - 1) /\ k = (k - 1) + 1
    OBVIOUS
  <2> QED
    BY <1>1
<1>5. \A i, j \in 1..(n - 1) : (i + 1 < j + 1 => i < j) /\ (j + 1 <= i + 1 => j <= i)
  BY <1>1
<1>6. \A i \in 1..(n - 1) : ~(i + 1 <= 1) /\ ~(i + 1 < 1)
  BY <1>1
<1>7. ~(1 < 1)
  OBVIOUS
<1>8. Starts(c, v) => ~Silences(c, v)
  BY <1>2, CommandOps DEF Ends
<1> HIDE DEF n
<1>9. Told(q, v) <=> Told(r, v) \/ Own(c, v)
  BY <1>1, <1>3, <1>4 DEF Told
<1>10. Ended(q, v) <=> Ended(r, v) \/ Ends(c, v)
  BY <1>1, <1>3, <1>4 DEF Ended
<1>11. Starting(q, v) <=> Starting(r, v) \/ Starts(c, v)
  BY <1>1, <1>3, <1>4 DEF Starting
<1>12. Silencing(q, v) <=> Silencing(r, v) \/ Silences(c, v)
  BY <1>1, <1>3, <1>4 DEF Silencing
<1>13. ASSUME Covered(q, v)
       PROVE  Covered(r, v) /\ (Starts(c, v) => Silencing(r, v))
  <2>1. ASSUME NEW i \in 1..(n - 1), Starts(r[i], v)
        PROVE  \E j \in 1..(n - 1) : i < j /\ Silences(r[j], v)
    <3>1. PICK k \in 1..n : i + 1 < k /\ Silences(q[k], v)
      BY <1>1, <1>3, <1>13, <2>1 DEF Covered
    <3>2. k # 1
      BY <3>1, <1>6
    <3>3. PICK j \in 1..(n - 1) : k = j + 1
      BY <3>2, <1>4
    <3> QED
      BY <3>1, <3>3, <1>1, <1>5
  <2>2. ASSUME Starts(c, v) PROVE Silencing(r, v)
    <3>1. PICK k \in 1..n : 1 < k /\ Silences(q[k], v)
      BY <1>1, <1>3, <1>13, <2>2 DEF Covered
    <3>2. PICK j \in 1..(n - 1) : k = j + 1
      BY <3>1, <1>4, <1>7
    <3> QED
      BY <3>1, <3>2, <1>1 DEF Silencing
  <2> QED
    BY <2>1, <2>2, <1>1 DEF Covered
<1>14. ASSUME LastWord(q, v)
       PROVE  LastWord(r, v) /\ (Ends(c, v) => ~Told(r, v))
  <2>1. ASSUME NEW i \in 1..(n - 1), NEW j \in 1..(n - 1), Ends(r[i], v), Own(r[j], v)
        PROVE  j <= i
    <3>1. j + 1 <= i + 1
      BY <2>1, <1>1, <1>3, <1>14 DEF LastWord
    <3> QED
      BY <3>1, <1>5
  <2>2. ASSUME Ends(c, v), NEW j \in 1..(n - 1), Own(r[j], v) PROVE FALSE
    <3>1. j + 1 <= 1
      BY <2>2, <1>1, <1>3, <1>14 DEF LastWord
    <3> QED
      BY <3>1, <1>6
  <2> QED
    BY <2>1, <2>2, <1>1 DEF LastWord, Told
<1> QED
  BY <1>9, <1>10, <1>11, <1>12, <1>13, <1>14

---------------------------------------------------------------------------
(***************************************************************************)
(* The inductive invariant.                                                 *)
(***************************************************************************)
\* The cue is between play_voice and the answer of its Play command.
Pending(v) == ctl.do = "play" /\ ctl.voice = v

Types ==
  /\ stream \in [Streams -> {"closed", "live", "dead"}]
  /\ ring \in [Streams -> Seq(Commands)]
  /\ report \in [Streams -> [done: SUBSET Voice, used: 0..StatusSize]]
  /\ pool \in [Streams -> SUBSET Voice] /\ snap \in [Streams -> SUBSET Voice]
  /\ at \in [Streams -> {"idle", "drain"}]
  /\ state \in [Voice -> VoiceStates] /\ over \subseteq Voice /\ own \subseteq Voice
  /\ ctl \in {Idle} \cup [do: {"play", "mic", "push"}, voice: Voice]
  /\ trial \in Trials

\* A voice is in the pool of one stream from its submission to its removal.
Pools ==
  /\ pool["main"] \cap pool["aux"] = {}
  /\ \A v \in Voice : v \in Pooled <=> state[v] \notin {"free", "gone"}
  /\ stream["aux"] = "closed" => pool["aux"] = {} /\ ring["aux"] = <<>>
  /\ \A s \in Streams : Len(ring[s]) <= trial.ring

\* The callback works on a snapshot; a voice published since is as it was submitted.
Snapshots == \A s \in Streams :
  /\ at[s] = "idle" => snap[s] = {}
  /\ \A v \in snap[s] : v \in pool[s] \/ state[v] = "gone"
  /\ at[s] = "drain" => \A v \in pool[s] \ snap[s] : state[v] \in {"playing", "paused"}

\* Completions in a ring are of voices of its stream.
Reports == \A s \in Streams : \A v \in report[s].done :
             state[v] # "free" /\ (v \in Pooled => v \in pool[s])

\* Who holds a voice, and who is submitting one.
Holders ==
  /\ \A v \in own : state[v] # "free"
  /\ ctl.do = "play" => /\ ctl.voice \in released \ own
                        /\ state[ctl.voice] # "free"
  /\ ctl.do \in {"mic", "push"} => state[ctl.voice] = "free"

\* What the commands in a ring say of the voice they name.
Sent == \A s \in Streams : \A v \in Voice :
  /\ Told(ring[s], v) => state[v] # "free" /\ ~Pending(v)
  /\ Ended(ring[s], v) => v \notin own
  /\ Starting(ring[s], v) => v \in released

\* A voice nobody holds has been, or will be, silenced, whatever is still to start it.
Accounted == \A s \in Streams : \A v \in pool[s] :
  v \notin own /\ ~Pending(v) /\ v \notin leaked
    => /\ Covered(ring[s], v)
       /\ state[v] = "playing" => Silencing(ring[s], v)

\* A voice that was submitted paused and never released.
Unreleased == \A s \in Streams : \A v \in pool[s] \ (released \cup unheard) :
  /\ state[v] \in {"paused", "stopped"}
  /\ LastWord(ring[s], v)
  /\ state[v] = "stopped" => v \notin own /\ ~Told(ring[s], v)

\* EndsAreReported, in the same terms.
Heard == \A s \in Streams : \A v \in own \cap pool[s] : state[v] = "stopped" =>
               v \in report[s].done \cup unheard \/ Starting(ring[s], v)

IInv == /\ Types /\ Pools /\ Snapshots /\ Reports /\ Holders /\ Sent
        /\ Accounted /\ Unreleased /\ Heard
---------------------------------------------------------------------------
(***************************************************************************)
(* What the actions do to rings and pools.                                  *)
(***************************************************************************)
LEMMA InOnePool ==
  ASSUME Types, Pools, NEW s \in Streams, NEW v \in pool[s]
  PROVE  v \in Voice /\ v \in Pooled /\ Home(v) = s /\ \A u \in Streams \ {s} : v \notin pool[u]
  BY DEF Types, Pools, Pooled, Home, Streams

LEMMA CallVoice ==
  ASSUME Types, ctl.do \in {"play", "mic", "push"}
  PROVE  ctl.voice \in Voice
  BY DEF Types, Idle

\* After a push: the ring took the command, or had no room for it.
Pushed(q, r, c, refused) == r = Append(q, c) \/ (r = q /\ refused)

LEMMA PushedFacts ==
  ASSUME NEW q \in Seq(Commands), NEW c \in Commands, NEW v \in Voice, NEW r,
         r \in {q, Append(q, c)}
  PROVE  /\ r \in Seq(Commands)
         /\ Told(q, v) => Told(r, v)
         /\ Told(r, v) => Told(q, v) \/ Own(c, v)
         /\ Ended(r, v) => Ended(q, v) \/ Ends(c, v)
         /\ Starting(q, v) => Starting(r, v)
         /\ Starting(r, v) => Starting(q, v) \/ Starts(c, v)
         /\ Starts(c, v) => r = q \/ Starting(r, v)
         /\ Silencing(q, v) => Silencing(r, v)
         /\ Silences(c, v) => r = q \/ (Silencing(r, v) /\ Covered(r, v))
         /\ Covered(q, v) /\ ~Starts(c, v) => Covered(r, v)
         /\ LastWord(q, v) /\ (Own(c, v) => ~Ended(q, v)) => LastWord(r, v)
<1>1. CASE r = Append(q, c)
  <2>1. r \in Seq(Commands)
    BY <1>1
  <2>2. Starts(c, v) => ~Silences(c, v)
    BY CommandOps DEF Ends
  <2> QED
    BY <1>1, <2>1, <2>2, PushedRing
<1>2. CASE r = q
  <2>1. Starts(c, v) => ~Silences(c, v)
    BY CommandOps DEF Ends
  <2> QED
    BY <1>2, <2>1
<1> QED
  BY <1>1, <1>2

LEMMA Pushes ==
  ASSUME Types, Pools, NEW s \in Streams, NEW c \in Commands
  PROVE  /\ Pushed(ring[s], Push(s, c), c, Full(s)) /\ Push(s, c) \in Seq(Commands)
         /\ Len(Push(s, c)) <= trial.ring /\ Full(s) \in BOOLEAN
<1>1. ring[s] \in Seq(Commands) /\ trial.ring \in Nat
  BY EngineAssumption DEF Types
<1>2. Len(Append(ring[s], c)) = Len(ring[s]) + 1 /\ Len(ring[s]) \in Nat
  BY <1>1
<1> QED
  BY <1>1, <1>2 DEF Pools, Push, Full, Pushed

LEMMA Broadcasts ==
  ASSUME Types, Pools, NEW c \in Commands, Broadcast(c)
  PROVE  /\ ring' \in [Streams -> Seq(Commands)]
         /\ stream["aux"] = "closed" => ring'["aux"] = <<>>
         /\ \A s \in Streams :
              /\ Len(ring'[s]) <= trial.ring
              /\ (pool[s] = {} \/ Full(s)) \in BOOLEAN
              /\ Pushed(ring[s], ring'[s], c, pool[s] = {} \/ Full(s))
  BY Pushes DEF Broadcast, Types, Pools, Pushed, Streams

LEMMA SendsMain ==
  ASSUME Types, Pools, NEW c \in Commands, SendMain(c)
  PROVE  /\ ring' \in [Streams -> Seq(Commands)]
         /\ ring'["aux"] = ring["aux"]
         /\ \A s \in Streams :
              /\ Len(ring'[s]) <= trial.ring
              /\ Pushed(ring[s], ring'[s], c, s = "aux" \/ Full(s))
  BY Pushes DEF SendMain, Types, Pools, Pushed, Streams

---------------------------------------------------------------------------
(***************************************************************************)
(* Every step preserves the invariant.                                      *)
(***************************************************************************)
LEMMA PauseVoiceKeeps ==
  ASSUME IInv, NEW v \in Voice, PauseVoice(v)
  PROVE  IInv'
<1> DEFINE c == Cmd("pause", v)
<1>1. c \in Commands /\ c.op = "pause" /\ \A u \in Voice : Own(c, u) => u = v
  BY DEF Commands, Cmd, Operations, Own
<1>2. \A u \in Voice : ~Silences(c, u) /\ ~Starts(c, u) /\ ~Ends(c, u)
  BY <1>1, CommandOps DEF Ends
<1> HIDE DEF c
<1>3. /\ ring' \in [Streams -> Seq(Commands)] /\ ring'["aux"] = ring["aux"]
      /\ \A s \in Streams : /\ Len(ring'[s]) <= trial.ring
                            /\ Pushed(ring[s], ring'[s], c, s = "aux" \/ Full(s))
  BY <1>1, SendsMain DEF IInv, PauseVoice, c
<1>4. \A s \in Streams, u \in Voice :
        /\ Told(ring'[s], u) => Told(ring[s], u) \/ u = v
        /\ Ended(ring'[s], u) => Ended(ring[s], u)
        /\ Starting(ring'[s], u) <=> Starting(ring[s], u)
        /\ Silencing(ring[s], u) => Silencing(ring'[s], u)
        /\ Covered(ring[s], u) => Covered(ring'[s], u)
        /\ LastWord(ring[s], u) /\ (u = v => ~Ended(ring[s], u)) => LastWord(ring'[s], u)
  BY <1>1, <1>2, <1>3, PushedFacts DEF IInv, Types, Pushed
<1>5. /\ UNCHANGED <<stream, report, at, snap, pool, state, over, own, ctl, trial, released, leaked, unheard>>
      /\ v \in own /\ ctl = Idle
  BY DEF PauseVoice, OwnerCall, Call, Quiet, voices, history, callback
<1>6. Types' /\ Pools'
  BY <1>3, <1>5 DEF IInv, Types, Pools, Pooled
<1>7. Snapshots' /\ Reports' /\ Holders'
  BY <1>5 DEF IInv, Snapshots, Reports, Holders, Pooled
<1>8. Sent'
  BY <1>4, <1>5 DEF IInv, Sent, Holders, Pending, Idle
<1>9. Accounted' /\ Unreleased' /\ Heard'
  BY <1>4, <1>5 DEF IInv, Types, Sent, Accounted, Unreleased, Heard, Pending
<1> QED
  BY <1>6, <1>7, <1>8, <1>9 DEF IInv

LEMMA TellKeeps ==
  ASSUME IInv, NEW v \in Voice, NEW op \in Operations, Tell(v, op)
  PROVE  IInv'
<1> DEFINE c == Cmd(op, v)
<1>1. c \in Commands /\ c.op = op /\ \A u \in Voice : Own(c, u) => u = v
  BY DEF Commands, Cmd, Operations, Own
<1>2. op \notin {"stop", "fade", "stopall", "play"}
  BY DEF Tell
<1>3. \A u \in Voice : ~Silences(c, u) /\ ~Ends(c, u) /\ (Starts(c, u) => u = v /\ op = "resume")
  BY <1>1, <1>2, CommandOps DEF Ends
<1> HIDE DEF c
<1>4. /\ ring' \in [Streams -> Seq(Commands)] /\ (stream["aux"] = "closed" => ring'["aux"] = <<>>)
      /\ \A s \in Streams : /\ Len(ring'[s]) <= trial.ring
                            /\ (pool[s] = {} \/ Full(s)) \in BOOLEAN
                            /\ Pushed(ring[s], ring'[s], c, pool[s] = {} \/ Full(s))
  BY <1>1, Broadcasts DEF IInv, Tell, c
<1>5. \A s \in Streams, u \in Voice :
        /\ Told(ring'[s], u) => Told(ring[s], u) \/ u = v
        /\ Ended(ring'[s], u) => Ended(ring[s], u)
        /\ Starting(ring'[s], u) => Starting(ring[s], u) \/ (u = v /\ op = "resume")
        /\ Starting(ring[s], u) => Starting(ring'[s], u)
        /\ Silencing(ring[s], u) => Silencing(ring'[s], u)
        /\ Covered(ring[s], u) /\ u # v => Covered(ring'[s], u)
        /\ LastWord(ring[s], u) /\ (u = v => ~Ended(ring[s], u)) => LastWord(ring'[s], u)
  BY <1>1, <1>3, <1>4, PushedFacts DEF IInv, Types, Pushed
<1>6. /\ UNCHANGED <<stream, report, at, snap, pool, state, over, own, ctl, trial, leaked, unheard>>
      /\ v \in own /\ ctl = Idle
      /\ released' = IF op = "resume" THEN released \cup {v} ELSE released
  BY DEF Tell, OwnerCall, Call, Quiet, voices, history, callback
<1>7. Types' /\ Pools'
  BY <1>4, <1>6 DEF IInv, Types, Pools, Pooled
<1>8. Snapshots' /\ Reports' /\ Holders'
  BY <1>6 DEF IInv, Snapshots, Reports, Holders, Pooled
<1>9. Sent'
  BY <1>5, <1>6 DEF IInv, Sent, Holders, Pending, Idle
<1>10. Accounted' /\ Unreleased' /\ Heard'
  BY <1>5, <1>6 DEF IInv, Types, Sent, Accounted, Unreleased, Heard, Pending
<1> QED
  BY <1>7, <1>8, <1>9, <1>10 DEF IInv

LEMMA StopVoiceKeeps ==
  ASSUME IInv, NEW v \in Voice, NEW op \in Operations, StopVoice(v, op)
  PROVE  IInv'
<1> DEFINE c == Cmd(op, v)
<1>1. c \in Commands /\ c.op = op /\ \A u \in Voice : Own(c, u) <=> u = v
  BY DEF Commands, Cmd, Operations, Own
<1>2. op \in {"stop", "fade"}
  BY DEF StopVoice
<1>3. \A u \in Voice : ~Starts(c, u) /\ (Ends(c, u) <=> u = v) /\ (Silences(c, u) <=> u = v)
  BY <1>1, <1>2, CommandOps DEF Ends
<1> HIDE DEF c
<1>4. /\ ring' \in [Streams -> Seq(Commands)] /\ (stream["aux"] = "closed" => ring'["aux"] = <<>>)
      /\ \A s \in Streams : /\ Len(ring'[s]) <= trial.ring
                            /\ (pool[s] = {} \/ Full(s)) \in BOOLEAN
                            /\ Pushed(ring[s], ring'[s], c, pool[s] = {} \/ Full(s))
  BY <1>1, Broadcasts DEF IInv, StopVoice, c
<1>5. \A s \in Streams, u \in Voice :
        /\ Told(ring'[s], u) => Told(ring[s], u) \/ u = v
        /\ Ended(ring'[s], u) => Ended(ring[s], u) \/ u = v
        /\ Starting(ring'[s], u) <=> Starting(ring[s], u)
        /\ Silencing(ring[s], u) => Silencing(ring'[s], u)
        /\ Covered(ring[s], u) => Covered(ring'[s], u)
        /\ u = v => pool[s] = {} \/ Full(s) \/ (Silencing(ring'[s], u) /\ Covered(ring'[s], u))
        /\ LastWord(ring[s], u) /\ (u = v => ~Ended(ring[s], u)) => LastWord(ring'[s], u)
  BY <1>1, <1>3, <1>4, PushedFacts DEF IInv, Types, Pushed
<1>6. /\ UNCHANGED <<stream, report, at, snap, pool, state, over, ctl, trial, released, unheard>>
      /\ v \in own /\ ctl = Idle /\ own' = own \ {v}
      /\ leaked' = IF v \in Pooled /\ Full(Home(v)) THEN leaked \cup {v} ELSE leaked
  BY DEF StopVoice, OwnerCall, Call, Quiet, voices, history, callback
<1>7. Types' /\ Pools'
  BY <1>4, <1>6 DEF IInv, Types, Pools, Pooled
<1>8. Snapshots' /\ Reports' /\ Holders'
  BY <1>6 DEF IInv, Snapshots, Reports, Holders, Pooled, Idle
<1>9. Sent'
  BY <1>5, <1>6 DEF IInv, Sent, Holders, Pending, Idle
<1>10. Accounted'
  BY <1>5, <1>6, InOnePool DEF IInv, Types, Accounted, Pending
<1>11. Unreleased' /\ Heard'
  BY <1>5, <1>6 DEF IInv, Types, Sent, Unreleased, Heard, Pending
<1> QED
  BY <1>7, <1>8, <1>9, <1>10, <1>11 DEF IInv

LEMMA PanicKeeps ==
  ASSUME IInv, PanicStopAll
  PROVE  IInv'
<1>1. StopAll \in Commands /\ StopAll.op = "stopall" /\ \A u \in Voice : ~Own(StopAll, u)
  BY DEF Commands, StopAll, Operations, Own
<1>2. \A u \in Voice : ~Starts(StopAll, u) /\ ~Ends(StopAll, u) /\ Silences(StopAll, u)
  BY <1>1, CommandOps DEF Ends
<1>3. /\ ring' \in [Streams -> Seq(Commands)] /\ (stream["aux"] = "closed" => ring'["aux"] = <<>>)
      /\ \A s \in Streams : /\ Len(ring'[s]) <= trial.ring
                            /\ (pool[s] = {} \/ Full(s)) \in BOOLEAN
                            /\ Pushed(ring[s], ring'[s], StopAll, pool[s] = {} \/ Full(s))
  BY <1>1, Broadcasts DEF IInv, PanicStopAll
<1>4. \A s \in Streams, u \in Voice :
        /\ Told(ring'[s], u) => Told(ring[s], u)
        /\ Ended(ring'[s], u) => Ended(ring[s], u)
        /\ Starting(ring'[s], u) <=> Starting(ring[s], u)
        /\ pool[s] = {} \/ Full(s) \/ (Silencing(ring'[s], u) /\ Covered(ring'[s], u))
        /\ LastWord(ring[s], u) => LastWord(ring'[s], u)
  BY <1>1, <1>2, <1>3, PushedFacts DEF IInv, Types, Pushed
<1>5. /\ UNCHANGED <<stream, report, at, snap, pool, state, over, ctl, trial, released, unheard>>
      /\ ctl = Idle /\ own' = {}
      /\ leaked' = leaked \cup {v \in Pooled : Full(Home(v))}
  BY DEF PanicStopAll, Call, Quiet, voices, history, callback
<1>6. Types' /\ Pools'
  BY <1>3, <1>5 DEF IInv, Types, Pools, Pooled
<1>7. Snapshots' /\ Reports' /\ Holders'
  BY <1>5 DEF IInv, Snapshots, Reports, Holders, Pooled, Idle
<1>8. Sent'
  BY <1>4, <1>5 DEF IInv, Sent, Holders, Pending, Idle
<1>9. Accounted'
  BY <1>4, <1>5, InOnePool DEF IInv, Types, Accounted, Pending
<1>10. Unreleased' /\ Heard'
  BY <1>4, <1>5 DEF IInv, Types, Sent, Unreleased, Heard, Pending
<1> QED
  BY <1>6, <1>7, <1>8, <1>9, <1>10 DEF IInv

LEMMA MoveFaderKeeps ==
  ASSUME IInv, MoveFader
  PROVE  IInv'
<1>1. SetPatchGain \in Commands /\ SetPatchGain.op = "gain"
      /\ \A u \in Voice : ~Own(SetPatchGain, u)
  BY DEF Commands, SetPatchGain, Operations, Own
<1>2. \A u \in Voice : ~Starts(SetPatchGain, u) /\ ~Ends(SetPatchGain, u)
  BY <1>1, CommandOps DEF Ends
<1>3. /\ ring' \in [Streams -> Seq(Commands)] /\ (stream["aux"] = "closed" => ring'["aux"] = <<>>)
      /\ \A s \in Streams : /\ Len(ring'[s]) <= trial.ring
                            /\ (pool[s] = {} \/ Full(s)) \in BOOLEAN
                            /\ Pushed(ring[s], ring'[s], SetPatchGain, pool[s] = {} \/ Full(s))
  BY <1>1, Broadcasts DEF IInv, MoveFader
<1>4. \A s \in Streams, u \in Voice :
        /\ Told(ring'[s], u) => Told(ring[s], u)
        /\ Ended(ring'[s], u) => Ended(ring[s], u)
        /\ Starting(ring'[s], u) <=> Starting(ring[s], u)
        /\ Silencing(ring[s], u) => Silencing(ring'[s], u)
        /\ Covered(ring[s], u) => Covered(ring'[s], u)
        /\ LastWord(ring[s], u) => LastWord(ring'[s], u)
  BY <1>1, <1>2, <1>3, PushedFacts DEF IInv, Types, Pushed
<1>5. UNCHANGED <<stream, report, at, snap, pool, state, over, own, ctl, trial, released, leaked,
                  unheard>>
  BY DEF MoveFader, Call, Quiet, voices, history, callback
<1>6. Types' /\ Pools'
  BY <1>3, <1>5 DEF IInv, Types, Pools, Pooled
<1>7. Snapshots' /\ Reports' /\ Holders'
  BY <1>5 DEF IInv, Snapshots, Reports, Holders, Pooled
<1>8. Sent' /\ Accounted' /\ Unreleased' /\ Heard'
  BY <1>4, <1>5 DEF IInv, Types, Sent, Accounted, Unreleased, Heard, Pending
<1> QED
  BY <1>6, <1>7, <1>8 DEF IInv

LEMMA SendPlayKeeps ==
  ASSUME IInv, SendPlay
  PROVE  IInv'
<1> DEFINE v == ctl.voice
           to == IF v \in pool["aux"] THEN "aux" ELSE "main"
           c  == Cmd("play", v)
           refused == to = "main" /\ Full("main")
<1>1. v \in Voice /\ to \in Streams /\ ctl.do = "play"
  BY DEF SendPlay, IInv, Types, Idle, Streams
<1>2. c \in Commands /\ c.op = "play" /\ \A u \in Voice : Own(c, u) <=> u = v
  BY <1>1 DEF Commands, Cmd, Operations, Own
<1>3. \A u \in Voice : ~Silences(c, u) /\ ~Ends(c, u) /\ (Starts(c, u) <=> u = v)
  BY <1>2, CommandOps DEF Ends
<1>4. /\ ring' = [ring EXCEPT ![to] = Push(to, c)] /\ ctl' = Idle
      /\ own' = IF refused THEN own ELSE own \cup {v}
      /\ leaked' = IF refused THEN leaked \cup {v} ELSE leaked
      /\ unheard' = IF Full(to) THEN unheard \cup {v} ELSE unheard
      /\ UNCHANGED <<stream, report, at, snap, pool, state, over, trial, released>>
  BY DEF SendPlay, Quiet, voices, bounds, callback
<1>5. v \in released /\ v \notin own /\ state[v] # "free" /\ Pending(v)
  BY <1>1 DEF IInv, Holders, Pending
<1>6. \A s \in Streams : \A u \in pool[s] : u = v => s = to
  BY DEF IInv, Pools, Streams
<1> HIDE DEF c, to, v
<1>7. /\ Push(to, c) \in Seq(Commands) /\ Len(Push(to, c)) <= trial.ring /\ Full(to) \in BOOLEAN
      /\ Pushed(ring[to], Push(to, c), c, Full(to))
  BY <1>1, <1>2, Pushes DEF IInv
<1>8. ring' \in [Streams -> Seq(Commands)] /\ ring'[to] = Push(to, c)
      /\ \A s \in Streams \ {to} : ring'[s] = ring[s]
  BY <1>1, <1>4, <1>7 DEF IInv, Types
<1>9. \A s \in Streams, u \in Voice :
        /\ Told(ring'[s], u) => Told(ring[s], u) \/ u = v
        /\ Ended(ring'[s], u) => Ended(ring[s], u)
        /\ Starting(ring'[s], u) => Starting(ring[s], u) \/ u = v
        /\ Starting(ring[s], u) => Starting(ring'[s], u)
        /\ u = v /\ s = to => Full(to) \/ Starting(ring'[s], u)
        /\ Silencing(ring[s], u) => Silencing(ring'[s], u)
        /\ Covered(ring[s], u) /\ u # v => Covered(ring'[s], u)
        /\ LastWord(ring[s], u) /\ u # v => LastWord(ring'[s], u)
  <2> SUFFICES ASSUME NEW s \in Streams, NEW u \in Voice
               PROVE
        /\ Told(ring'[s], u) => Told(ring[s], u) \/ u = v
        /\ Ended(ring'[s], u) => Ended(ring[s], u)
        /\ Starting(ring'[s], u) => Starting(ring[s], u) \/ u = v
        /\ Starting(ring[s], u) => Starting(ring'[s], u)
        /\ u = v /\ s = to => Full(to) \/ Starting(ring'[s], u)
        /\ Silencing(ring[s], u) => Silencing(ring'[s], u)
        /\ Covered(ring[s], u) /\ u # v => Covered(ring'[s], u)
        /\ LastWord(ring[s], u) /\ u # v => LastWord(ring'[s], u)
    OBVIOUS
  <2>2. CASE s = to
    <3>1. ring[s] \in Seq(Commands) /\ ring'[s] \in {ring[s], Append(ring[s], c)}
      BY <1>1, <1>7, <1>8, <2>2 DEF IInv, Types, Pushed
    <3>2. ring'[s] = ring[s] => Full(to)
      BY <1>1, <1>7, <1>8, <2>2 DEF IInv, Types, Pushed
    <3> QED
      BY <1>1, <1>2, <1>3, <3>1, <3>2, <2>2, PushedFacts
  <2>3. CASE s # to
    BY <1>8, <2>3
  <2> QED
    BY <2>2, <2>3
<1>10. \A s \in Streams : ~Told(ring[s], v) /\ ~Ended(ring[s], v)
  BY <1>1, <1>5, ToldAbout DEF IInv, Types, Sent
<1>11. Types' /\ Pools'
  <2>1. Types'
    BY <1>1, <1>4, <1>8 DEF IInv, Types
  <2>2. stream["aux"] = "closed" => to = "main"
    BY DEF IInv, Pools, to
  <2>3. \A s \in Streams : Len(ring'[s]) <= trial.ring
    BY <1>7, <1>8 DEF IInv, Pools
  <2>4. "aux" \in Streams /\ "main" # "aux"
    BY DEF Streams
  <2> QED
    BY <1>4, <1>8, <2>1, <2>2, <2>3, <2>4 DEF IInv, Pools, Pooled
<1>12. Snapshots' /\ Reports' /\ Holders'
  BY <1>4, <1>5 DEF IInv, Snapshots, Reports, Holders, Pooled, Idle
<1>13. Sent'
  BY <1>4, <1>5, <1>9, <1>10 DEF IInv, Sent, Pending, Idle
<1>14. \A u \in Voice : Pending(u) => u = v
  BY DEF Pending, v
<1>15. Accounted'
  BY <1>4, <1>9, <1>14 DEF IInv, Types, Accounted, Pending, Idle
<1>16. Unreleased'
  BY <1>4, <1>5, <1>9 DEF IInv, Types, Unreleased
<1>17. Heard'
  BY <1>4, <1>6, <1>9 DEF IInv, Types, Heard
<1> QED
  BY <1>11, <1>12, <1>13, <1>15, <1>16, <1>17 DEF IInv

\* What neither voices, pools, rings nor callbacks notice.
LEMMA UnmovedKeeps ==
  ASSUME IInv, stream' \in [Streams -> {"closed", "live", "dead"}],
         stream'["aux"] = "closed" => stream["aux"] = "closed",
         UNCHANGED <<ring, report, pool, at, snap, state, over, own, ctl, trial, released, leaked,
                     unheard>>
  PROVE  IInv'
BY DEF IInv, Types, Pools, Pooled, Snapshots, Reports, Holders, Sent, Accounted, Unreleased, Heard,
       Pending

LEMMA DeviceKeeps ==
  ASSUME IInv, WatchdogReads \/ Environment \/ UNCHANGED vars
  PROVE  IInv'
<1>1. /\ stream' \in [Streams -> {"closed", "live", "dead"}]
      /\ stream'["aux"] = "closed" => stream["aux"] = "closed"
  BY DEF IInv, Types, WatchdogReads, Environment, AuxLost, DeviceLost, DeviceBack, vars, Streams
<1>2. UNCHANGED <<ring, report, pool, at, snap, state, over, own, ctl, trial, released, leaked,
                  unheard>>
  BY DEF WatchdogReads, Environment, AuxLost, DeviceLost, DeviceBack, vars, voices, history,
         callback, bounds
<1> QED
  BY <1>1, <1>2, UnmovedKeeps

LEMMA MicKeeps ==
  ASSUME IInv, FindFeed \/ \E v \in Voice : EnsureInputFeed(v)
  PROVE  IInv'
<1>1. UNCHANGED <<stream, ring, report, pool, at, snap, state, over, own, trial, released, leaked,
                  unheard>>
  BY DEF FindFeed, EnsureInputFeed, Quiet, voices, history, callback, bounds
<1>2. ~(ctl.do = "play") /\ ~(ctl'.do = "play")
  BY DEF FindFeed, EnsureInputFeed, Idle, IInv, Types
<1>3. /\ ctl' \in {Idle} \cup [do: {"play", "mic", "push"}, voice: Voice]
      /\ ctl'.do \in {"mic", "push"} => state[ctl'.voice] = "free"
  <2>1. ASSUME FindFeed
        PROVE  /\ ctl' \in {Idle} \cup [do: {"play", "mic", "push"}, voice: Voice]
               /\ ctl'.do \in {"mic", "push"} => state[ctl'.voice] = "free"
    <3>1. ctl \in [do: {"play", "mic", "push"}, voice: Voice] /\ ctl.do = "mic"
      BY <2>1 DEF FindFeed, Idle, IInv, Types
    <3>2. CASE ctl' = Idle
      BY <3>2 DEF Idle
    <3>3. CASE ctl' = [ctl EXCEPT !.do = "push"]
      <4>1. ctl' = [do |-> "push", voice |-> ctl.voice] /\ ctl.voice \in Voice
        BY <3>1, <3>3
      <4> QED
        BY <3>1, <4>1 DEF IInv, Holders
    <3> QED
      BY <2>1, <3>2, <3>3 DEF FindFeed
  <2>2. ASSUME NEW v \in Voice, EnsureInputFeed(v)
        PROVE  /\ ctl' \in {Idle} \cup [do: {"play", "mic", "push"}, voice: Voice]
               /\ ctl'.do \in {"mic", "push"} => state[ctl'.voice] = "free"
    BY <2>2 DEF EnsureInputFeed
  <2> QED
    BY <2>1, <2>2
<1> QED
  BY <1>1, <1>2, <1>3 DEF IInv, Types, Pools, Pooled, Snapshots, Reports, Holders, Sent, Accounted,
                          Unreleased, Heard, Pending

LEMMA CallbackBeginsKeeps ==
  ASSUME IInv, NEW s \in Streams, CallbackBegins(s)
  PROVE  IInv'
<1>1. /\ UNCHANGED <<stream, ring, report, pool, state, over, own, ctl, trial, released, leaked,
                     unheard>>
      /\ at' = [at EXCEPT ![s] = "drain"] /\ snap' = [snap EXCEPT ![s] = pool[s]]
  BY DEF CallbackBegins, voices, bounds
<1>2. Types' /\ Snapshots'
  BY <1>1 DEF IInv, Types, Snapshots
<1> QED
  BY <1>1, <1>2 DEF IInv, Pools, Pooled, Reports, Holders, Sent, Accounted, Unreleased, Heard, Pending

\* What a submission does: its stream, and the voices a stale stream takes with it.
LEMMA Submits ==
  ASSUME IInv, NEW v \in Voice, NEW st \in {"playing", "paused"}, NEW openable \in BOOLEAN,
         Submit(v, st, openable)
  PROVE  \E to \in Streams, stale \in BOOLEAN :
           /\ state[v] = "free"
           /\ stale \/ to = "aux" => at["aux"] = "idle"
           /\ stream' \in [Streams -> {"closed", "live", "dead"}]
           /\ stream'["aux"] = "closed" => to = "main" /\ (stale \/ stream["aux"] = "closed")
           /\ ring' = [s \in Streams |-> IF stale /\ s = "aux" THEN <<>> ELSE ring[s]]
           /\ report' = [s \in Streams |-> IF stale /\ s = "aux" THEN NoReport ELSE report[s]]
           /\ pool' = [s \in Streams |-> (IF stale /\ s = "aux" THEN {} ELSE pool[s])
                                           \cup (IF s = to THEN {v} ELSE {})]
           /\ state' = [w \in Voice |-> IF w = v THEN st
                                         ELSE IF stale /\ w \in pool["aux"] THEN "gone" ELSE state[w]]
           /\ unheard' = unheard \cup (IF stale THEN pool["aux"] ELSE {})
           /\ UNCHANGED <<at, snap, over>>
<1> DEFINE s     == IF v \in trial.patched THEN "aux" ELSE "main"
           stale == s = "aux" /\ stream["aux"] = "dead"
           to    == IF s = "aux" /\ stream["aux"] # "live" /\ ~openable THEN "main" ELSE s
<1>1. to \in Streams /\ stale \in BOOLEAN
  BY DEF Streams
<1>2. state[v] = "free" /\ (stale \/ to = "aux" => at["aux"] = "idle")
  BY DEF Submit
<1>3. stream' \in [Streams -> {"closed", "live", "dead"}]
  BY DEF Submit, IInv, Types, Streams
<1>4. stream'["aux"] = "closed" => to = "main" /\ (stale \/ stream["aux"] = "closed")
  BY DEF Submit, IInv, Types, Streams
<1>5. /\ ring' = [u \in Streams |-> IF stale /\ u = "aux" THEN <<>> ELSE ring[u]]
      /\ report' = [u \in Streams |-> IF stale /\ u = "aux" THEN NoReport ELSE report[u]]
  BY DEF Submit, IInv, Types, Streams
<1>6. pool' = [u \in Streams |-> (IF stale /\ u = "aux" THEN {} ELSE pool[u])
                                   \cup (IF u = to THEN {v} ELSE {})]
  BY DEF Submit, IInv, Types, Streams
<1>7. state' = [w \in Voice |-> IF w = v THEN st
                               ELSE IF stale /\ w \in pool["aux"] THEN "gone" ELSE state[w]]
  <2>1. v \notin pool["aux"]
    BY <1>2 DEF IInv, Pools, Pooled
  <2> DEFINE lost == IF stale THEN pool["aux"] ELSE {}
  <2>2. v \notin lost /\ \A w : w \in lost <=> stale /\ w \in pool["aux"]
    BY <2>1
  <2>3. state' = [w \in Voice |-> CASE w = v -> st [] w \in lost -> "gone" [] OTHER -> state[w]]
    BY DEF Submit
  <2> HIDE DEF lost, stale
  <2> QED
    BY <2>2, <2>3
<1>8. unheard' = unheard \cup (IF stale THEN pool["aux"] ELSE {})
  BY DEF Submit
<1>9. UNCHANGED <<at, snap, over>>
  BY DEF Submit, callback
<1> QED
  BY <1>1, <1>2, <1>3, <1>4, <1>5, <1>6, <1>7, <1>8, <1>9

LEMMA PlayKeeps ==
  ASSUME IInv, NEW v \in Voice, NEW openable \in BOOLEAN,
         PlayVoice(v, openable) \/ PlayVoicePaused(v, openable)
  PROVE  IInv'
<1>1. PICK st \in {"playing", "paused"} :
        /\ Submit(v, st, openable) /\ ctl = Idle
        /\ UNCHANGED <<trial, leaked>>
        /\ \/ st = "playing" /\ ctl' = [do |-> "play", voice |-> v]
              /\ released' = released \cup {v} /\ own' = own
           \/ st = "paused" /\ ctl' = ctl /\ released' = released /\ own' = own \cup {v}
  BY DEF PlayVoice, PlayVoicePaused, bounds
<1>2. PICK to \in Streams, stale \in BOOLEAN :
           /\ state[v] = "free"
           /\ stale \/ to = "aux" => at["aux"] = "idle"
           /\ stream' \in [Streams -> {"closed", "live", "dead"}]
           /\ stream'["aux"] = "closed" => to = "main" /\ (stale \/ stream["aux"] = "closed")
           /\ ring' = [s \in Streams |-> IF stale /\ s = "aux" THEN <<>> ELSE ring[s]]
           /\ report' = [s \in Streams |-> IF stale /\ s = "aux" THEN NoReport ELSE report[s]]
           /\ pool' = [s \in Streams |-> (IF stale /\ s = "aux" THEN {} ELSE pool[s])
                                           \cup (IF s = to THEN {v} ELSE {})]
           /\ state' = [w \in Voice |-> IF w = v THEN st
                                         ELSE IF stale /\ w \in pool["aux"] THEN "gone" ELSE state[w]]
           /\ unheard' = unheard \cup (IF stale THEN pool["aux"] ELSE {})
           /\ UNCHANGED <<at, snap, over>>
  BY <1>1, Submits
<1>3. /\ \A s \in Streams : v \notin pool[s] /\ v \notin snap[s] /\ v \notin report[s].done
      /\ \A s \in Streams : ~Told(ring[s], v)
      /\ v \notin own /\ \A w : ~Pending(w)
  BY <1>1, <1>2 DEF IInv, Types, Pools, Pooled, Snapshots, Reports, Sent, Holders, Pending, Idle, Streams
<1>4. \A s \in Streams :
        /\ ring'[s] \in Seq(Commands)
        /\ ~Told(ring'[s], v) /\ LastWord(ring'[s], v)
        /\ ring'[s] = ring[s] \/ (ring'[s] = <<>> /\ s = "aux" /\ stale)
  BY <1>2, <1>3, EmptyRing, ToldAbout DEF IInv, Types
<1>5. Types'
  <2>1. report' \in [Streams -> [done: SUBSET Voice, used: 0..StatusSize]]
    BY <1>2, EngineAssumption DEF IInv, Types, NoReport
  <2>2. state' \in [Voice -> VoiceStates]
    BY <1>1, <1>2 DEF IInv, Types, VoiceStates
  <2>3. pool' \in [Streams -> SUBSET Voice]
    BY <1>2 DEF IInv, Types
  <2>4. ring' \in [Streams -> Seq(Commands)]
    BY <1>2 DEF IInv, Types
  <2> QED
    BY <1>1, <1>2, <2>1, <2>2, <2>3, <2>4 DEF IInv, Types
<1>6. Pools'
  <2>1. pool'["main"] \cap pool'["aux"] = {}
    BY <1>2, <1>3 DEF IInv, Pools, Streams
  <2>2. \A w \in Voice : w \in Pooled' <=> state'[w] \notin {"free", "gone"}
    BY <1>1, <1>2, <1>3 DEF IInv, Pools, Pooled, Streams
  <2>3. stream'["aux"] = "closed" => pool'["aux"] = {} /\ ring'["aux"] = <<>>
    BY <1>2 DEF IInv, Pools, Streams
  <2>4. \A s \in Streams : Len(ring'[s]) <= trial.ring
    <3>1. trial.ring \in Nat /\ Len(<<>>) = 0
      BY EngineAssumption DEF IInv, Types
    <3> QED
      BY <1>4, <3>1 DEF IInv, Pools
  <2> QED
    BY <1>1, <2>1, <2>2, <2>3, <2>4 DEF Pools
<1>7. Snapshots'
  BY <1>1, <1>2, <1>3 DEF IInv, Types, Snapshots, Pools, Pooled, Streams
<1>8. Reports'
  BY <1>1, <1>2, <1>3 DEF IInv, Types, Reports, Pools, Pooled, Streams, NoReport
<1>9. Holders'
  BY <1>1, <1>2, <1>3 DEF IInv, Types, Holders, Idle
<1>10. Sent'
  <2>1. \A w \in Voice : w # v => (w \in own' <=> w \in own) /\ (w \in released' <=> w \in released)
                                  /\ ~Pending(w)'
    BY <1>1, <1>3 DEF Pending, Idle
  <2>2. \A w \in Voice : state[w] # "free" => state'[w] # "free"
    BY <1>1, <1>2
  <2>3. \A s \in Streams, w \in Voice : ~Told(ring'[s], w) => ~Ended(ring'[s], w) /\ ~Starting(ring'[s], w)
    BY <1>4, ToldAbout
  <2>4. \A s \in Streams, w \in Voice : w # v /\ Told(ring'[s], w) => ring'[s] = ring[s]
    <3> SUFFICES ASSUME NEW s \in Streams, NEW w \in Voice, Told(ring'[s], w), ring'[s] # ring[s]
                 PROVE  FALSE
      OBVIOUS
    <3>1. ring'[s] = <<>>
      BY <1>4
    <3>2. ~Told(<<>>, w)
      BY EmptyRing
    <3> QED
      BY <3>1, <3>2, Zenon
  <2> SUFFICES ASSUME NEW s \in Streams, NEW w \in Voice
               PROVE  /\ Told(ring'[s], w) => state'[w] # "free" /\ ~Pending(w)'
                      /\ Ended(ring'[s], w) => w \notin own'
                      /\ Starting(ring'[s], w) => w \in released'
    BY DEF Sent
  <2>5. CASE w = v
    <3>1. ~Told(ring'[s], v)
      BY <1>4
    <3>2. ~Told(ring'[s], w)
      BY <3>1, <2>5, Zenon
    <3> QED
      BY <3>2, <2>3
  <2>6. CASE w # v
    <3>1. CASE Told(ring'[s], w)
      <4>1. ring'[s] = ring[s]
        BY <2>4, <2>6, <3>1
      <4>2. Told(ring[s], w) /\ (Ended(ring'[s], w) => Ended(ring[s], w))
            /\ (Starting(ring'[s], w) => Starting(ring[s], w))
        BY <4>1, <3>1, Zenon
      <4> QED
        BY <4>2, <2>1, <2>2, <2>6 DEF IInv, Sent
    <3>2. CASE ~Told(ring'[s], w)
      BY <3>2, <2>3
    <3> QED
      BY <3>1, <3>2
  <2> QED
    BY <2>5, <2>6
<1>11. \A s \in Streams : \A w \in pool'[s] : w # v =>
         w \in pool[s] /\ ring'[s] = ring[s] /\ state'[w] = state[w] /\ report'[s] = report[s]
  BY <1>2 DEF IInv, Types, Pools, Streams
<1>12. Accounted'
  BY <1>1, <1>3, <1>11 DEF IInv, Accounted, Pending
<1>13. Unreleased'
  <2> SUFFICES ASSUME NEW s \in Streams, NEW w \in pool'[s], w \notin released' \cup unheard'
               PROVE  /\ state'[w] \in {"paused", "stopped"} /\ LastWord(ring'[s], w)
                      /\ state'[w] = "stopped" => w \notin own' /\ ~Told(ring'[s], w)
    BY DEF Unreleased
  <2>1. CASE w = v
    <3>1. state'[v] = "paused"
      BY <1>1, <1>2, <2>1
    <3>2. LastWord(ring'[s], v)
      BY <1>4
    <3>3. state'[w] = "paused" /\ LastWord(ring'[s], w)
      BY <3>1, <3>2, <2>1, Zenon
    <3> QED
      BY <3>3
  <2>2. CASE w # v
    <3>1. w \in pool[s] \ (released \cup unheard) /\ (w \in own' <=> w \in own)
      BY <1>1, <1>2, <1>11, <2>2
    <3> QED
      BY <3>1, <1>11, <2>2 DEF IInv, Unreleased
  <2> QED
    BY <2>1, <2>2
<1>14. Heard'
  BY <1>1, <1>2, <1>11 DEF IInv, Heard
<1> QED
  BY <1>5, <1>6, <1>7, <1>8, <1>9, <1>10, <1>12, <1>13, <1>14 DEF IInv

LEMMA PushMicVoiceKeeps ==
  ASSUME IInv, PushMicVoice
  PROVE  IInv'
<1> DEFINE v == ctl.voice
<1>1. /\ v \in Voice /\ ctl.do = "push" /\ ctl \in [do: {"play", "mic", "push"}, voice: Voice]
      /\ state[v] = "free"
  BY DEF PushMicVoice, IInv, Types, Idle, Holders
<1>2. /\ ctl' = [ctl EXCEPT !.do = "play"] /\ released' = released \cup {v}
      /\ pool' = [pool EXCEPT !["main"] = @ \cup {v}]
      /\ state' = [state EXCEPT ![v] = "playing"]
      /\ UNCHANGED <<stream, ring, report, at, snap, over, own, trial, leaked, unheard>>
  BY DEF PushMicVoice, Quiet, callback, bounds
<1>3. /\ \A s \in Streams : v \notin pool[s] /\ v \notin snap[s] /\ v \notin report[s].done
      /\ \A s \in Streams : ~Told(ring[s], v)
      /\ v \notin own /\ \A w : ~Pending(w)
  BY <1>1 DEF IInv, Types, Pools, Pooled, Snapshots, Reports, Sent, Holders, Pending, Idle, Streams
<1>4. ctl'.do = "play" /\ ctl'.voice = v /\ ctl' \in [do: {"play", "mic", "push"}, voice: Voice]
  BY <1>1, <1>2
<1> HIDE DEF v
<1>5. Types'
  BY <1>1, <1>2, <1>4 DEF IInv, Types, Streams, VoiceStates
<1>6. Pools'
  BY <1>1, <1>2, <1>3 DEF IInv, Types, Pools, Pooled, Streams
<1>7. Snapshots'
  BY <1>1, <1>2, <1>3 DEF IInv, Types, Snapshots, Streams
<1>8. Reports'
  BY <1>1, <1>2, <1>3 DEF IInv, Types, Reports, Pooled, Streams
<1>9. Holders'
  BY <1>1, <1>2, <1>3, <1>4 DEF IInv, Types, Holders
<1>10. Sent'
  BY <1>1, <1>2, <1>3, <1>4 DEF IInv, Types, Sent, Pending
<1>11. Accounted' /\ Unreleased' /\ Heard'
  BY <1>1, <1>2, <1>3, <1>4 DEF IInv, Types, Accounted, Unreleased, Heard, Pending, Streams
<1> QED
  BY <1>5, <1>6, <1>7, <1>8, <1>9, <1>10, <1>11 DEF IInv

LEMMA CallbackCommandKeeps ==
  ASSUME IInv, NEW s \in Streams, CallbackCommand(s)
  PROVE  IInv'
<1> DEFINE c == Head(ring[s])
           r == Tail(ring[s])
           reached == {u \in snap[s] : Names(c, u)}
           missed  == {u \in pool[s] \ snap[s] : Names(c, u)}
<1>1. /\ ring[s] \in Seq(Commands) /\ ring[s] # <<>> /\ c \in Commands /\ r \in Seq(Commands)
      /\ Len(r) <= Len(ring[s]) /\ at[s] = "drain" /\ stream[s] = "live" /\ Len(r) \in Nat
  <2>1. ring[s] \in Seq(Commands) /\ ring[s] # <<>>
    BY DEF CallbackCommand, IInv, Types
  <2> QED
    BY <2>1 DEF CallbackCommand
<1>2. /\ state' = [u \in Voice |-> IF u \in reached /\ state[u] # "gone" THEN Applied(c.op, state[u])
                                   ELSE state[u]]
      /\ over' = IF c.op = "seek" THEN over \ reached ELSE over
      /\ leaked' = IF c.op \in {"stop", "fade", "stopall"} THEN leaked \cup missed ELSE leaked
      /\ unheard' = IF c = StopAll THEN unheard \cup reached ELSE unheard
      /\ ring' = [ring EXCEPT ![s] = r]
      /\ UNCHANGED <<stream, report, pool, at, snap, own, ctl, trial, released>>
  BY DEF CallbackCommand, callback, bounds
<1>3. \A u \in Voice :
        /\ Told(ring[s], u) <=> Told(r, u) \/ Own(c, u)
        /\ Ended(ring[s], u) <=> Ended(r, u) \/ Ends(c, u)
        /\ Starting(ring[s], u) <=> Starting(r, u) \/ Starts(c, u)
        /\ Silencing(ring[s], u) <=> Silencing(r, u) \/ Silences(c, u)
        /\ Covered(ring[s], u) => Covered(r, u) /\ (Starts(c, u) => Silencing(r, u))
        /\ LastWord(ring[s], u) => LastWord(r, u) /\ (Ends(c, u) => ~Told(r, u))
  BY <1>1, PoppedRing
<1>4. \A u \in Voice :
        /\ c.op \in Operations \cup {"stopall", "gain"}
        /\ c = StopAll <=> c.op = "stopall"
        /\ Names(c, u) <=> c.op = "stopall" \/ Own(c, u)
        /\ Silences(c, u) <=> c.op = "stopall" \/ Ends(c, u)
        /\ Starts(c, u) <=> Own(c, u) /\ c.op \in {"play", "resume"}
        /\ Ends(c, u) <=> Own(c, u) /\ c.op \in {"stop", "fade"}
  BY <1>1, CommandOps DEF Ends
<1>5. reached \subseteq Voice
      /\ \A u \in reached : state[u] # "gone" => u \in pool[s]
  BY DEF IInv, Types, Snapshots
<1>6. \A u \in pool[s] : u \notin reached /\ Names(c, u) => u \in missed /\ state[u] \in {"playing", "paused"}
  BY <1>1 DEF IInv, Snapshots
<1> HIDE DEF c, r, reached, missed
<1>7. \A u \in Voice : Told(r, u) => Told(ring[s], u)
  BY <1>3
<1>8. ring' \in [Streams -> Seq(Commands)] /\ ring'[s] = r /\ \A x \in Streams \ {s} : ring'[x] = ring[x]
  BY <1>1, <1>2 DEF IInv, Types
<1>9. \A u \in Voice :
        /\ state'[u] = IF u \in reached /\ state[u] # "gone" THEN Applied(c.op, state[u]) ELSE state[u]
        /\ state'[u] = "free" <=> state[u] = "free"
        /\ state'[u] = "gone" <=> state[u] = "gone"
        /\ state'[u] \in VoiceStates
  <2>1. \A u \in pool[s] : state[u] \notin {"free", "gone"}
    BY DEF IInv, Types, Pools, Pooled, Streams
  <2> QED
    BY <1>2, <1>5, <2>1 DEF IInv, Types, Applied, VoiceStates
<1>10. \A x \in Streams \ {s} : \A u \in pool[x] : state'[u] = state[u]
  BY <1>5, <1>9, InOnePool DEF IInv
<1>11. Types'
  BY <1>2, <1>8, <1>9 DEF IInv, Types
<1>12. Pools'
  <2>1. \A x \in Streams : Len(ring'[x]) <= trial.ring
    <3>1. Len(r) <= trial.ring
      <4>1. Len(ring[s]) <= trial.ring /\ Len(ring[s]) \in Nat /\ trial.ring \in Nat
        BY <1>1, EngineAssumption DEF IInv, Pools, Types
      <4> QED
        BY <4>1, <1>1
    <3> QED
      BY <1>8, <3>1 DEF IInv, Pools
  <2>2. stream["aux"] = "closed" => ring'["aux"] = <<>>
    BY <1>1, <1>8 DEF IInv, Pools, Streams
  <2> QED
    BY <1>2, <1>9, <2>1, <2>2 DEF IInv, Pools, Pooled
<1>13. Snapshots'
  <2>1. \A x \in Streams : at[x] = "drain" => \A u \in pool[x] \ snap[x] : state'[u] = state[u]
    BY <1>9, <1>10 DEF IInv, Types, reached
  <2> QED
    BY <1>2, <1>9, <2>1 DEF IInv, Types, Snapshots
<1>14. Reports' /\ Holders'
  <2>1. Reports'
    BY <1>2, <1>9 DEF IInv, Types, Reports, Pooled
  <2>2. Holders'
    BY <1>2, <1>9, CallVoice DEF IInv, Types, Holders
  <2> QED
    BY <2>1, <2>2
<1>15. Sent'
  BY <1>2, <1>3, <1>8, <1>9 DEF IInv, Sent, Pending
<1>16. Accounted'
  <2> SUFFICES ASSUME NEW x \in Streams, NEW u \in pool[x], u \notin own, ~Pending(u), u \notin leaked'
               PROVE  Covered(ring'[x], u) /\ (state'[u] = "playing" => Silencing(ring'[x], u))
    BY <1>2 DEF Accounted, Pending
  <2>1. u \in Voice /\ u \notin leaked
    BY <1>2 DEF IInv, Types
  <2>2. Covered(ring[x], u) /\ (state[u] = "playing" => Silencing(ring[x], u))
    BY <2>1 DEF IInv, Accounted
  <2>3. CASE x # s
    BY <2>2, <2>3, <1>8, <1>10
  <2>4. CASE x = s
    <3>1. Covered(r, u) /\ (Starts(c, u) => Silencing(r, u))
      BY <2>1, <2>2, <2>4, <1>3
    <3>2. ASSUME state'[u] = "playing" PROVE Silencing(r, u)
      <4>1. CASE Starts(c, u)
        BY <3>1, <4>1
      <4>2. CASE ~Starts(c, u) /\ ~Silences(c, u)
        <5>1. state[u] = "playing"
          BY <1>4, <1>9, <3>2, <4>2, <2>1 DEF Applied, reached
        <5> QED
          BY <5>1, <2>1, <2>2, <2>4, <4>2, <1>3
      <4>3. CASE ~Starts(c, u) /\ Silences(c, u)
        <5>1. c.op \in {"stop", "fade", "stopall"} /\ Names(c, u)
          BY <1>4, <2>1, <4>3
        <5>2. u \notin missed
          BY <1>2, <5>1
        <5>3. u \in reached
          BY <1>6, <2>4, <5>1, <5>2
        <5>4. state[u] # "gone"
          BY <2>1 DEF IInv, Pools, Pooled, Streams
        <5> QED
          BY <1>9, <2>1, <3>2, <5>1, <5>3, <5>4 DEF Applied
      <4> QED
        BY <4>1, <4>2, <4>3
    <3> QED
      BY <3>1, <3>2, <2>4, <1>8
  <2> QED
    BY <2>3, <2>4
<1>17. Unreleased'
  <2> SUFFICES ASSUME NEW x \in Streams, NEW u \in pool[x] \ (released \cup unheard')
               PROVE  /\ state'[u] \in {"paused", "stopped"} /\ LastWord(ring'[x], u)
                      /\ state'[u] = "stopped" => u \notin own /\ ~Told(ring'[x], u)
    BY <1>2 DEF Unreleased
  <2>1. u \in Voice /\ u \in pool[x] \ (released \cup unheard)
    BY <1>2 DEF IInv, Types
  <2>2. /\ state[u] \in {"paused", "stopped"} /\ LastWord(ring[x], u)
        /\ state[u] = "stopped" => u \notin own /\ ~Told(ring[x], u)
    BY <2>1 DEF IInv, Unreleased
  <2>3. CASE x # s
    BY <2>2, <2>3, <1>8, <1>10
  <2>4. CASE x = s
    <3>1. LastWord(r, u) /\ (Ends(c, u) => ~Told(r, u))
      BY <2>1, <2>2, <2>4, <1>3
    <3>2. ~Starts(c, u) /\ (Ends(c, u) => u \notin own)
      BY <1>3, <2>1, <2>4 DEF IInv, Sent
    <3>3. CASE u \in reached
      <4>1. c # StopAll /\ Own(c, u)
        BY <1>2, <1>4, <2>1, <3>3 DEF reached
      <4>2. state[u] = "paused"
        BY <1>3, <2>1, <2>2, <2>4, <4>1
      <4>3. \/ state'[u] = "paused"
            \/ state'[u] = "stopped" /\ Ends(c, u)
        BY <1>4, <1>9, <2>1, <3>2, <3>3, <4>1, <4>2 DEF Applied
      <4> QED
        BY <4>3, <3>1, <3>2, <2>4, <1>8
    <3>4. CASE u \notin reached
      <4>1. state'[u] = state[u]
        BY <1>9, <2>1, <3>4
      <4> QED
        BY <4>1, <2>1, <2>2, <2>4, <3>1, <1>3, <1>8
    <3> QED
      BY <3>3, <3>4
  <2> QED
    BY <2>3, <2>4
<1>18. Heard'
  <2> SUFFICES ASSUME NEW x \in Streams, NEW u \in own \cap pool[x], state'[u] = "stopped"
               PROVE  u \in report[x].done \cup unheard' \/ Starting(ring'[x], u)
    BY <1>2 DEF Heard
  <2>1. u \in Voice
    BY DEF IInv, Types
  <2>2. state[u] = "stopped" => u \in report[x].done \cup unheard \/ Starting(ring[x], u)
    BY DEF IInv, Heard
  <2>3. CASE x # s
    BY <2>2, <2>3, <1>2, <1>8, <1>10
  <2>4. CASE x = s
    <3>1. ~Ends(c, u)
      BY <1>3, <2>1, <2>4 DEF IInv, Sent
    <3>2. CASE u \in reached /\ c = StopAll
      BY <1>2, <3>2
    <3>3. CASE u \in reached /\ c # StopAll
      <4>1. Own(c, u) /\ state[u] # "gone"
        BY <1>4, <1>9, <2>1, <3>3 DEF reached
      <4>2. state[u] = "stopped" /\ ~Starts(c, u)
        BY <1>4, <1>9, <2>1, <3>1, <3>3, <4>1 DEF Applied
      <4> QED
        BY <4>2, <2>1, <2>2, <2>4, <1>2, <1>3, <1>8
    <3>4. CASE u \notin reached
      <4>1. state[u] = "stopped"
        BY <1>9, <2>1, <3>4
      <4>2. ~Starts(c, u)
        BY <1>4, <1>6, <2>1, <2>4, <3>4, <4>1
      <4> QED
        BY <4>1, <4>2, <2>1, <2>2, <2>4, <1>2, <1>3, <1>8
    <3> QED
      BY <3>2, <3>3, <3>4
  <2> QED
    BY <2>3, <2>4
<1> QED
  BY <1>11, <1>12, <1>13, <1>14, <1>15, <1>16, <1>17, <1>18 DEF IInv

\* The completions that find room in the ring, and those that do not.
LEMMA Completions ==
  ASSUME Types, NEW s \in Streams, NEW ended \in SUBSET snap[s], NEW r \in Reported(s, ended)
  PROVE  /\ r \in [done: SUBSET Voice, used: 0..StatusSize]
         /\ report[s].done \subseteq r.done /\ r.done \subseteq report[s].done \cup ended
         /\ Cardinality(ended) <= StatusSize - report[s].used => ended \subseteq r.done
<1> DEFINE room == StatusSize - report[s].used
           kept == IF Cardinality(ended) <= room THEN {ended}
                   ELSE {k \in SUBSET ended : Cardinality(k) = room}
<1>1. PICK k \in kept : r = [done |-> report[s].done \cup k,
         used |-> IF report[s].used + Cardinality(k) < StatusSize
                  THEN report[s].used + Cardinality(k) + 1 ELSE StatusSize]
  BY DEF Reported
<1>2. k \subseteq ended /\ (Cardinality(ended) <= room => k = ended)
  OBVIOUS
<1>3. Cardinality(k) \in Nat
  <2>1. k \subseteq Voice
    BY <1>2 DEF Types
  <2> QED
    BY <2>1, FS_Subset, FS_CardinalityType, EngineAssumption
<1>4. StatusSize \in Nat /\ report[s].used \in 0..StatusSize /\ report[s].done \subseteq Voice
  BY EngineAssumption DEF Types
<1>5. ended \subseteq Voice
  BY DEF Types
<1>6. (IF report[s].used + Cardinality(k) < StatusSize
       THEN report[s].used + Cardinality(k) + 1 ELSE StatusSize) \in 0..StatusSize
  BY <1>3, <1>4
<1> QED
  BY <1>1, <1>2, <1>4, <1>5, <1>6

LEMMA MixKeeps ==
  ASSUME IInv, NEW s \in Streams, Mix(s)
  PROVE  IInv'
<1>1. PICK ended \in SUBSET snap[s], freed \in SUBSET snap[s] : MixEnding(s, ended, freed)
  BY DEF Mix
<1>2. PICK r \in Reported(s, ended) : report' = [report EXCEPT ![s] = r]
  BY <1>1 DEF MixEnding
<1>3. /\ \A u \in ended : Sounding(u)
      /\ state' = [u \in Voice |-> IF u \in ended THEN "stopped" ELSE state[u]]
      /\ over' = over \cup ended
      /\ unheard' = unheard \cup (IF Cardinality(ended) > StatusSize - report[s].used
                                  THEN ended \ report'[s].done ELSE {})
      /\ at' = [at EXCEPT ![s] = "idle"] /\ snap' = [snap EXCEPT ![s] = {}]
      /\ UNCHANGED <<stream, ring, pool, own, ctl, trial, released, leaked>>
  BY <1>1 DEF MixEnding, Mixed, bounds
<1>4. /\ r \in [done: SUBSET Voice, used: 0..StatusSize]
      /\ report[s].done \subseteq r.done /\ r.done \subseteq report[s].done \cup ended
      /\ Cardinality(ended) <= StatusSize - report[s].used => ended \subseteq r.done
  BY <1>2, Completions DEF IInv
<1>5. report'[s] = r /\ \A x \in Streams \ {s} : report'[x] = report[x]
  BY <1>2 DEF IInv, Types
<1>6. ended \subseteq r.done \cup unheard'
  <2>1. Cardinality(ended) \in Nat
    BY FS_Subset, FS_CardinalityType, EngineAssumption DEF IInv, Types
  <2>2. StatusSize - report[s].used \in Int
    BY EngineAssumption DEF IInv, Types
  <2>3. Cardinality(ended) <= StatusSize - report[s].used \/ Cardinality(ended) > StatusSize - report[s].used
    BY <2>1, <2>2
  <2> QED
    BY <2>3, <1>3, <1>4, <1>5
<1>7. ended \subseteq pool[s] /\ ended \subseteq Voice /\ \A u \in ended : state[u] \in {"playing", "fading"}
  BY <1>3 DEF IInv, Types, Snapshots, Sounding
<1>8. \A x \in Streams \ {s} : ended \cap pool[x] = {}
  BY <1>7, InOnePool DEF IInv
<1>9. Types'
  BY <1>2, <1>3, <1>4, <1>7 DEF IInv, Types, VoiceStates
<1>10. Pools'
  BY <1>3, <1>7 DEF IInv, Types, Pools, Pooled
<1>11. Snapshots'
  <2>1. \A x \in Streams \ {s} : at'[x] = at[x] /\ snap'[x] = snap[x]
                               /\ \A u \in pool[x] : state'[u] = state[u]
    BY <1>3, <1>8 DEF IInv, Types
  <2>2. at'[s] = "idle" /\ snap'[s] = {}
    BY <1>3 DEF IInv, Types
  <2>3. \A u \in Voice : state[u] = "gone" => state'[u] = "gone"
    BY <1>3, <1>7
  <2> SUFFICES ASSUME NEW x \in Streams
               PROVE  /\ at'[x] = "idle" => snap'[x] = {}
                      /\ \A u \in snap'[x] : u \in pool[x] \/ state'[u] = "gone"
                      /\ at'[x] = "drain" => \A u \in pool[x] \ snap'[x] : state'[u] \in {"playing", "paused"}
    BY <1>3 DEF Snapshots
  <2>4. CASE x = s
    BY <2>2, <2>4
  <2>5. CASE x # s
    <3>1. snap[x] \subseteq Voice
      BY DEF IInv, Types
    <3> QED
      BY <2>1, <2>3, <2>5, <3>1 DEF IInv, Snapshots
  <2> QED
    BY <2>4, <2>5
<1>12. Reports'
  BY <1>3, <1>4, <1>5, <1>7 DEF IInv, Types, Reports, Pooled
<1>13. Holders' /\ Sent'
  <2>1. \A u \in Voice : state'[u] = "free" <=> state[u] = "free"
    BY <1>3, <1>7
  <2> QED
    BY <1>3, <2>1, CallVoice DEF IInv, Types, Holders, Sent, Pending
<1>14. Accounted' /\ Unreleased'
  BY <1>3, <1>7 DEF IInv, Types, Accounted, Unreleased, Pending
<1>15. Heard'
  BY <1>3, <1>4, <1>5, <1>6, <1>7, <1>8 DEF IInv, Types, Heard
<1> QED
  BY <1>9, <1>10, <1>11, <1>12, <1>13, <1>14, <1>15 DEF IInv

LEMMA DrainStatusKeeps ==
  ASSUME IInv, DrainStatus
  PROVE  IInv'
<1>1. /\ own' = own \ (report["main"].done \cup report["aux"].done)
      /\ report' = [s \in Streams |-> NoReport]
      /\ leaked' = leaked \cup {v \in Pooled : /\ v \in report[Home(v)].done
                                             /\ (state[v] = "playing" \/ v \in Started(Home(v)))}
      /\ UNCHANGED <<stream, ring, pool, at, snap, state, over, ctl, trial, released, unheard>>
  BY DEF DrainStatus, voices, callback, bounds
<1>2. Types'
  BY <1>1, EngineAssumption DEF IInv, Types, NoReport
<1>3. Pools' /\ Snapshots' /\ Reports' /\ Holders' /\ Sent'
  BY <1>1 DEF IInv, Pools, Pooled, Snapshots, Reports, Holders, Sent, Pending, NoReport
<1>4. Accounted'
  <2> SUFFICES ASSUME NEW s \in Streams, NEW v \in pool[s], v \notin own', ~Pending(v), v \notin leaked'
               PROVE  Covered(ring[s], v) /\ (state[v] = "playing" => Silencing(ring[s], v))
    BY <1>1 DEF Accounted, Pending
  <2>1. v \in Voice /\ v \in Pooled /\ Home(v) = s
    BY InOnePool DEF IInv
  <2>2. CASE v \notin own
    BY <1>1, <2>2 DEF IInv, Accounted
  <2>3. CASE v \in own
    <3>1. v \in report[s].done
      BY <1>1, <2>1, <2>3, InOnePool DEF IInv, Reports, Streams
    <3>2. state[v] # "playing" /\ v \notin Started(s)
      BY <1>1, <2>1, <3>1
    <3>3. ~Starting(ring[s], v)
      BY <3>2 DEF Started, Starting, Starts
    <3>4. ring[s] \in Seq(Commands)
      BY DEF IInv, Types
    <3> QED
      BY <2>1, <3>2, <3>3, <3>4, ToldAbout
  <2> QED
    BY <2>2, <2>3
<1>5. Unreleased'
  BY <1>1 DEF IInv, Unreleased
<1>6. Heard'
  <2> SUFFICES ASSUME NEW s \in Streams, NEW v \in own' \cap pool[s], state[v] = "stopped"
               PROVE  v \in unheard \/ Starting(ring[s], v)
    BY <1>1 DEF Heard
  <2>1. v \in own /\ v \notin report[s].done
    BY <1>1 DEF Streams
  <2> QED
    BY <2>1 DEF IInv, Heard
<1> QED
  BY <1>2, <1>3, <1>4, <1>5, <1>6 DEF IInv

LEMMA GcSweepKeeps ==
  ASSUME IInv, GcSweep
  PROVE  IInv'
<1>1. /\ pool' = [pool EXCEPT !["main"] = @ \ Finished("main")]
      /\ state' = [v \in Voice |-> IF v \in Finished("main") THEN "gone" ELSE state[v]]
      /\ UNCHANGED <<stream, ring, report, at, snap, over, own, ctl, trial, released, leaked, unheard>>
  BY DEF GcSweep, callback, bounds, history
<1>2. \A v : v \in Finished("main") <=> v \in pool["main"] /\ state[v] = "stopped"
  BY DEF Finished
<1>3. \A v \in Voice : state'[v] = IF v \in Finished("main") THEN "gone" ELSE state[v]
  BY <1>1
<1>4. /\ pool'["main"] = pool["main"] \ Finished("main") /\ pool'["aux"] = pool["aux"]
      /\ pool' \in [Streams -> SUBSET Voice]
  BY <1>1 DEF IInv, Types, Streams
<1> HIDE DEF Finished
<1>5. Types'
  BY <1>1, <1>4 DEF IInv, Types, VoiceStates
<1>6. Pools'
  BY <1>1, <1>2, <1>3, <1>4 DEF IInv, Types, Pools, Pooled, Streams
<1>7. \A s \in Streams : \A v \in pool'[s] : v \in Voice /\ v \in pool[s] /\ state'[v] = state[v]
  BY <1>2, <1>3, <1>4 DEF IInv, Types, Pools, Streams
<1>8. Snapshots'
  BY <1>1, <1>2, <1>3, <1>4, <1>7 DEF IInv, Types, Snapshots, Streams
<1>9. Reports'
  <2> SUFFICES ASSUME NEW s \in Streams, NEW v \in report[s].done
               PROVE  state'[v] # "free" /\ (v \in Pooled' => v \in pool'[s])
    BY <1>1 DEF Reports
  <2>1. v \in Voice /\ state[v] # "free" /\ (v \in Pooled => v \in pool[s])
    BY DEF IInv, Types, Reports
  <2>2. v \in Pooled' => v \in pool'[s]
    BY <2>1, <1>4, InOnePool DEF IInv, Pools, Pooled, Streams
  <2> QED
    BY <2>1, <2>2, <1>3
<1>10. Holders' /\ Sent'
  <2>1. \A v \in Voice : state'[v] = "free" <=> state[v] = "free"
    BY <1>2, <1>3
  <2> QED
    BY <1>1, <2>1, CallVoice DEF IInv, Types, Holders, Sent, Pending
<1>11. Accounted' /\ Unreleased' /\ Heard'
  BY <1>1, <1>7 DEF IInv, Accounted, Unreleased, Heard, Pending
<1> QED
  BY <1>5, <1>6, <1>8, <1>9, <1>10, <1>11 DEF IInv

LEMMA GcFeedsKeeps ==
  ASSUME IInv, GcFeeds
  PROVE  IInv'
<1> DEFINE left == pool["aux"] \ Finished("aux")
           shut == stream["aux"] = "dead" /\ left = {}
<1>1. /\ pool' = [pool EXCEPT !["aux"] = left]
      /\ state' = [v \in Voice |-> IF v \in Finished("aux") THEN "gone" ELSE state[v]]
      /\ stream' = IF shut THEN [stream EXCEPT !["aux"] = "closed"] ELSE stream
      /\ ring' = IF shut THEN [ring EXCEPT !["aux"] = <<>>] ELSE ring
      /\ report' = IF shut THEN [report EXCEPT !["aux"] = NoReport] ELSE report
      /\ unheard' = IF shut THEN unheard \cup report["aux"].done ELSE unheard
      /\ UNCHANGED <<at, snap, over, own, ctl, trial, released, leaked>>
  BY DEF GcFeeds, callback, bounds
<1>2. \A v : v \in Finished("aux") <=> v \in pool["aux"] /\ state[v] = "stopped"
  BY DEF Finished
<1>3. \A v \in Voice : state'[v] = IF v \in Finished("aux") THEN "gone" ELSE state[v]
  BY <1>1
<1>4. /\ pool'["aux"] = pool["aux"] \ Finished("aux") /\ pool'["main"] = pool["main"]
      /\ pool' \in [Streams -> SUBSET Voice]
  BY <1>1 DEF IInv, Types, Streams
<1>5. shut => pool'["aux"] = {}
  BY <1>4
<1>6. \A s \in Streams :
        /\ ring'[s] = ring[s] \/ (shut /\ s = "aux" /\ ring'[s] = <<>>)
        /\ report'[s] = report[s] \/ (shut /\ s = "aux" /\ report'[s] = NoReport)
  BY <1>1 DEF IInv, Types, Streams
<1>7. Types'
  <2>1. NoReport \in [done: SUBSET Voice, used: 0..StatusSize]
    BY EngineAssumption DEF NoReport
  <2>2. report' \in [Streams -> [done: SUBSET Voice, used: 0..StatusSize]]
    BY <1>1, <2>1 DEF IInv, Types
  <2>3. ring' \in [Streams -> Seq(Commands)]
    <3>1. <<>> \in Seq(Commands) /\ ring \in [Streams -> Seq(Commands)]
      BY DEF IInv, Types
    <3> HIDE DEF shut
    <3> QED
      BY <1>1, <3>1
  <2>4. stream' \in [Streams -> {"closed", "live", "dead"}]
    BY <1>1 DEF IInv, Types
  <2>5. state' \in [Voice -> VoiceStates]
    BY <1>1 DEF IInv, Types, VoiceStates
  <2> QED
    BY <1>1, <1>4, <2>2, <2>3, <2>4, <2>5 DEF IInv, Types
<1>8. stream'["aux"] = "closed" =>
        (shut /\ ring'["aux"] = <<>>) \/ (stream["aux"] = "closed" /\ ring' = ring)
  BY <1>1 DEF IInv, Types, Streams
<1> HIDE DEF shut, left
<1>9. Pools'
  <2>1. \A s \in Streams : Len(ring'[s]) <= trial.ring
    <3>1. trial.ring \in Nat /\ Len(<<>>) = 0
      BY EngineAssumption DEF IInv, Types
    <3> QED
      BY <1>6, <3>1 DEF IInv, Pools
  <2>2. stream'["aux"] = "closed" => pool'["aux"] = {} /\ ring'["aux"] = <<>>
    BY <1>4, <1>5, <1>8 DEF IInv, Pools
  <2>3. \A v \in Voice : v \in Pooled' <=> state'[v] \notin {"free", "gone"}
    BY <1>2, <1>3, <1>4 DEF IInv, Pools, Pooled
  <2> QED
    BY <1>1, <1>4, <2>1, <2>2, <2>3 DEF IInv, Pools
<1>10. \A s \in Streams : \A v \in pool'[s] :
         /\ v \in Voice /\ v \in pool[s] /\ state'[v] = state[v]
         /\ ring'[s] = ring[s] /\ report'[s] = report[s]
  BY <1>2, <1>3, <1>4, <1>5, <1>6 DEF IInv, Types, Pools, Streams
<1>11. Snapshots'
  BY <1>1, <1>2, <1>3, <1>4, <1>10 DEF IInv, Types, Snapshots, Streams
<1>12. Reports'
  <2> SUFFICES ASSUME NEW s \in Streams, NEW v \in report'[s].done
               PROVE  state'[v] # "free" /\ (v \in Pooled' => v \in pool'[s])
    BY DEF Reports
  <2>1. v \in report[s].done
    BY <1>6 DEF NoReport
  <2>2. v \in Voice /\ state[v] # "free" /\ (v \in Pooled => v \in pool[s])
    BY <2>1 DEF IInv, Types, Reports
  <2>3. v \in Pooled' => v \in pool'[s]
    BY <2>2, <1>4, InOnePool DEF IInv, Pools, Pooled, Streams
  <2> QED
    BY <2>2, <2>3, <1>3
<1>13. Holders'
  BY <1>1, <1>2, <1>3, CallVoice DEF IInv, Types, Holders
<1>14. Sent'
  <2> SUFFICES ASSUME NEW s \in Streams, NEW v \in Voice
               PROVE  /\ Told(ring'[s], v) => state'[v] # "free" /\ ~Pending(v)
                      /\ Ended(ring'[s], v) => v \notin own
                      /\ Starting(ring'[s], v) => v \in released
    BY <1>1 DEF Sent, Pending
  <2>1. CASE ring'[s] = ring[s]
    BY <2>1, <1>3 DEF IInv, Sent
  <2>2. CASE ring'[s] = <<>>
    BY <2>2, EmptyRing
  <2> QED
    BY <2>1, <2>2, <1>6
<1>15. Accounted' /\ Unreleased' /\ Heard'
  <2>1. unheard \subseteq unheard'
    BY <1>1
  <2> QED
    BY <1>1, <1>10, <2>1 DEF IInv, Accounted, Unreleased, Heard, Pending
<1> QED
  BY <1>7, <1>9, <1>11, <1>12, <1>13, <1>14, <1>15 DEF IInv

\* The auxiliary stream is closed with its voices; the main ring may be a new one, if
\* what was in the old one is accounted for.
LEMMA ClosingKeeps ==
  ASSUME IInv, AuxShut, UNCHANGED trial,
         stream' \in [Streams -> {"closed", "live", "dead"}],
         ring' \in [Streams -> {ring["main"], <<>>}], ring'["aux"] = <<>>,
         report' \in [Streams -> {report["main"], NoReport}], report'["aux"] = NoReport,
         leaked \subseteq leaked', unheard \subseteq unheard',
         ring'["main"] # ring["main"] => Silenced("main") \subseteq leaked' /\ Started("main") \subseteq unheard',
         report'["main"] # report["main"] => report["main"].done \subseteq unheard'
  PROVE  IInv'
<1>1. /\ state' = [v \in Voice |-> IF v \in pool["aux"] THEN "gone" ELSE state[v]]
      /\ pool' = [pool EXCEPT !["aux"] = {}] /\ at["aux"] = "idle"
      /\ UNCHANGED <<at, snap, over, own, ctl, trial, released>>
  BY DEF AuxShut, callback
<1>2. \A v \in Voice : state'[v] = IF v \in pool["aux"] THEN "gone" ELSE state[v]
  BY <1>1
<1>3. /\ pool'["aux"] = {} /\ pool'["main"] = pool["main"]
      /\ pool' \in [Streams -> SUBSET Voice]
  BY <1>1 DEF IInv, Types, Streams
<1>4. Types'
  <2>1. NoReport \in [done: SUBSET Voice, used: 0..StatusSize]
    BY EngineAssumption DEF NoReport
  <2>2. report' \in [Streams -> [done: SUBSET Voice, used: 0..StatusSize]]
    BY <2>1 DEF IInv, Types, Streams
  <2>3. ring' \in [Streams -> Seq(Commands)]
    <3>1. <<>> \in Seq(Commands) /\ ring["main"] \in Seq(Commands)
      BY DEF IInv, Types, Streams
    <3> QED
      BY <3>1
  <2>4. state' \in [Voice -> VoiceStates]
    BY <1>1 DEF IInv, Types, VoiceStates
  <2> QED
    BY <1>1, <1>3, <2>2, <2>3, <2>4 DEF IInv, Types
<1>5. Pools'
  <2>1. \A s \in Streams : Len(ring'[s]) <= trial.ring
    <3>1. trial.ring \in Nat /\ Len(<<>>) = 0 /\ Len(ring["main"]) <= trial.ring
      BY EngineAssumption DEF IInv, Types, Pools, Streams
    <3> QED
      BY <3>1
  <2>2. \A v \in Voice : v \in Pooled' <=> state'[v] \notin {"free", "gone"}
    BY <1>2, <1>3 DEF IInv, Pools, Pooled
  <2> QED
    BY <1>1, <1>3, <2>1, <2>2 DEF IInv, Pools
<1>6. \A v \in pool["main"] : v \in Voice /\ state'[v] = state[v]
  BY <1>2 DEF IInv, Types, Pools, Streams
<1>7. Snapshots'
  BY <1>1, <1>2, <1>3, <1>6 DEF IInv, Types, Snapshots, Streams
<1>8. Reports'
  <2> SUFFICES ASSUME NEW s \in Streams, NEW v \in report'[s].done
               PROVE  state'[v] # "free" /\ (v \in Pooled' => v \in pool'[s])
    BY DEF Reports
  <2>1. s = "main" /\ v \in report["main"].done
    BY DEF NoReport, Streams
  <2>2. v \in Voice /\ state[v] # "free"
    BY <2>1 DEF IInv, Types, Reports, Streams
  <2> QED
    BY <2>1, <2>2, <1>2, <1>3 DEF Pooled
<1>9. Holders'
  <2>1. \A v \in Voice : state'[v] = "free" <=> state[v] = "free"
    BY <1>2 DEF IInv, Pools, Pooled
  <2> QED
    BY <1>1, <2>1, CallVoice DEF IInv, Types, Holders
<1>10. Sent'
  <2> SUFFICES ASSUME NEW s \in Streams, NEW v \in Voice
               PROVE  /\ Told(ring'[s], v) => state'[v] # "free" /\ ~Pending(v)
                      /\ Ended(ring'[s], v) => v \notin own
                      /\ Starting(ring'[s], v) => v \in released
    BY <1>1 DEF Sent, Pending
  <2>1. CASE s = "main" /\ ring'[s] = ring["main"]
    BY <2>1, <1>2 DEF IInv, Sent
  <2>2. CASE ring'[s] = <<>>
    BY <2>2, EmptyRing
  <2> QED
    BY <2>1, <2>2 DEF Streams
<1>11. ASSUME NEW s \in Streams, NEW v \in pool'[s]
       PROVE  s = "main" /\ v \in pool["main"] /\ v \in Voice
  BY <1>3, <1>6, <1>11 DEF Streams
<1>13. "main" \in Streams /\ (ring'["main"] = ring["main"] \/ ring'["main"] = <<>>)
  BY DEF Streams
<1>14. Accounted'
  <2> SUFFICES ASSUME NEW v \in pool["main"], v \notin own, ~Pending(v), v \notin leaked'
               PROVE  /\ Covered(ring'["main"], v)
                      /\ state[v] = "playing" => Silencing(ring'["main"], v)
    BY <1>1, <1>6, <1>11 DEF Accounted, Pending
  <2>1. Covered(ring["main"], v) /\ (state[v] = "playing" => Silencing(ring["main"], v))
    BY <1>13 DEF IInv, Accounted
  <2>2. CASE ring'["main"] = ring["main"]
    BY <2>1, <2>2
  <2>3. CASE ring'["main"] # ring["main"]
    <3>1. ring'["main"] = <<>> /\ Covered(<<>>, v)
      BY <2>3, <1>13, EmptyRing
    <3>2. Covered(ring'["main"], v)
      BY <3>1, Zenon
    <3>3. v \notin Silenced("main")
      BY <2>3
    <3>4. ~Silencing(ring["main"], v)
      BY <3>3 DEF Silenced, Silencing, Silences
    <3> QED
      BY <2>1, <3>2, <3>4
  <2> QED
    BY <2>2, <2>3
<1>15. Unreleased'
  <2> SUFFICES ASSUME NEW v \in pool["main"], v \notin released \cup unheard'
               PROVE  /\ state[v] \in {"paused", "stopped"} /\ LastWord(ring'["main"], v)
                      /\ state[v] = "stopped" => v \notin own /\ ~Told(ring'["main"], v)
    BY <1>1, <1>6, <1>11 DEF Unreleased
  <2>1. /\ state[v] \in {"paused", "stopped"} /\ LastWord(ring["main"], v)
        /\ state[v] = "stopped" => v \notin own /\ ~Told(ring["main"], v)
    BY <1>13 DEF IInv, Unreleased
  <2>2. CASE ring'["main"] = ring["main"]
    BY <2>1, <2>2
  <2>3. CASE ring'["main"] = <<>>
    BY <2>1, <2>3, EmptyRing
  <2> QED
    BY <2>2, <2>3, <1>13
<1>16. Heard'
  <2> SUFFICES ASSUME NEW v \in own \cap pool["main"], state[v] = "stopped"
               PROVE  v \in report'["main"].done \cup unheard' \/ Starting(ring'["main"], v)
    BY <1>1, <1>6, <1>11 DEF Heard
  <2>1. v \in report["main"].done \cup unheard \/ Starting(ring["main"], v)
    BY <1>13 DEF IInv, Heard
  <2>2. CASE v \in report["main"].done \cup unheard
    BY <2>2
  <2>3. CASE Starting(ring["main"], v) /\ ring'["main"] # ring["main"]
    <3>1. v \in Started("main")
      BY <2>3 DEF Started, Starting, Starts
    <3> QED
      BY <2>3, <3>1
  <2>4. CASE Starting(ring["main"], v) /\ ring'["main"] = ring["main"]
    BY <2>4, Zenon
  <2> QED
    BY <2>1, <2>2, <2>3, <2>4
<1> QED
  BY <1>4, <1>5, <1>7, <1>8, <1>9, <1>10, <1>14, <1>15, <1>16 DEF IInv

LEMMA RestartKeeps ==
  ASSUME IInv, NEW c, Restart(c), UNCHANGED trial
  PROVE  IInv'
<1> DEFINE hw == Opens(c, dev.present)
<1>1. /\ AuxShut
      /\ stream' = [main |-> IF hw = {} THEN "closed" ELSE "live", aux |-> "closed"]
      /\ ring' = [main |-> IF hw = {} THEN ring["main"] ELSE <<>>, aux |-> <<>>]
      /\ report' = [main |-> IF hw = {} THEN report["main"] ELSE NoReport, aux |-> NoReport]
      /\ leaked' = IF hw = {} THEN leaked ELSE leaked \cup Silenced("main")
      /\ unheard' = unheard \cup pool["aux"] \cup report["aux"].done
                    \cup (IF hw = {} THEN {} ELSE report["main"].done \cup Started("main"))
  BY DEF Restart
<1> HIDE DEF hw
<1>2. /\ stream' \in [Streams -> {"closed", "live", "dead"}]
      /\ ring' \in [Streams -> {ring["main"], <<>>}] /\ ring'["aux"] = <<>>
      /\ report' \in [Streams -> {report["main"], NoReport}] /\ report'["aux"] = NoReport
      /\ ring'["main"] = (IF hw = {} THEN ring["main"] ELSE <<>>)
      /\ report'["main"] = (IF hw = {} THEN report["main"] ELSE NoReport)
  BY <1>1 DEF Streams
<1> QED
  BY <1>1, <1>2, ClosingKeeps

LEMMA CloseAllAuxKeeps ==
  ASSUME IInv, CloseAllAux
  PROVE  IInv'
<1>1. /\ AuxShut /\ UNCHANGED <<trial, leaked>>
      /\ stream' = [stream EXCEPT !["aux"] = "closed"]
      /\ ring' = [ring EXCEPT !["aux"] = <<>>] /\ report' = [report EXCEPT !["aux"] = NoReport]
      /\ unheard' = unheard \cup pool["aux"] \cup report["aux"].done
  BY DEF CloseAllAux, Call
<1>2. /\ stream' \in [Streams -> {"closed", "live", "dead"}]
      /\ ring' \in [Streams -> {ring["main"], <<>>}] /\ ring'["aux"] = <<>> /\ ring'["main"] = ring["main"]
      /\ report' \in [Streams -> {report["main"], NoReport}] /\ report'["aux"] = NoReport
      /\ report'["main"] = report["main"]
  BY <1>1 DEF Streams, IInv, Types
<1> QED
  BY <1>1, <1>2, ClosingKeeps

LEMMA RestartsKeep ==
  ASSUME IInv, RestoreDesired \/ WatchdogActs \/ \E c \in Configs : ApplyUserConfig(c)
  PROVE  IInv'
<1>1. CASE RestoreDesired
  BY <1>1, RestartKeeps DEF RestoreDesired, bounds
<1>2. ASSUME NEW c \in Configs, ApplyUserConfig(c) PROVE IInv'
  BY <1>2, RestartKeeps DEF ApplyUserConfig, Call
<1>3. CASE WatchdogActs /\ Attempt
  BY <1>3, RestartKeeps DEF WatchdogActs, bounds
<1>4. CASE WatchdogActs /\ ~Attempt
  <2>1. UNCHANGED <<stream, ring, report, pool, at, snap, state, over, own, ctl, trial, released, leaked,
                    unheard>>
    BY <1>4 DEF WatchdogActs, bounds, voices, callback, history
  <2> QED
    BY <2>1, UnmovedKeeps DEF IInv, Types
<1> QED
  BY <1>1, <1>2, <1>3, <1>4

---------------------------------------------------------------------------
(***************************************************************************)
(* The safety of the engine.                                                *)
(***************************************************************************)
LEMMA InitIInv == Init => IInv
<1> SUFFICES ASSUME Init PROVE IInv
  OBVIOUS
<1>1. Types
  BY EngineAssumption DEF Init, Types, NoReport, Streams, VoiceStates
<1>2. Pools
  <2>1. trial.ring \in Nat /\ Len(<<>>) = 0
    BY EngineAssumption DEF Init
  <2> QED
    BY <2>1 DEF Init, Pools, Pooled, Streams
<1>3. Snapshots /\ Reports /\ Holders
  BY DEF Init, Snapshots, Reports, Holders, NoReport, Idle
<1>4. Sent
  BY EmptyRing DEF Init, Sent
<1>5. Accounted /\ Unreleased /\ Heard
  BY DEF Init, Accounted, Unreleased, Heard
<1> QED
  BY <1>1, <1>2, <1>3, <1>4, <1>5 DEF IInv

LEMMA NextIInv == IInv /\ [Next]_vars => IInv'
<1> SUFFICES ASSUME IInv, [Next]_vars PROVE IInv'
  OBVIOUS
<1>1. ASSUME NEW v \in Voice, Plays(v) PROVE IInv'
  BY <1>1, PlayKeeps, MicKeeps DEF Plays
<1>2. CASE PlayContinues
  BY <1>2, SendPlayKeeps, MicKeeps, PushMicVoiceKeeps DEF PlayContinues
<1>3. CASE Calls
  <2>1. trial.calling \subseteq Operations
    BY EngineAssumption DEF IInv, Types
  <2> QED
    BY <1>3, <2>1, StopVoiceKeeps, TellKeeps, PauseVoiceKeeps, PanicKeeps, MoveFaderKeeps,
       CloseAllAuxKeeps, RestartsKeep DEF Calls
<1>4. CASE EventLoop
  BY <1>4, DrainStatusKeeps, GcSweepKeeps, GcFeedsKeeps DEF EventLoop
<1>5. CASE Watchdog
  BY <1>5, DeviceKeeps, RestartsKeep DEF Watchdog
<1>6. CASE Environment \/ UNCHANGED vars
  BY <1>6, DeviceKeeps
<1>7. ASSUME NEW s \in Streams, Callback(s) PROVE IInv'
  BY <1>7, CallbackBeginsKeeps, CallbackCommandKeeps, MixKeeps DEF Callback
<1> QED
  BY <1>1, <1>2, <1>3, <1>4, <1>5, <1>6, <1>7 DEF Next

\* The engine's safety follows from the invariant.
LEMMA IInvImpliesSafety == IInv => EngineSafety
<1> SUFFICES ASSUME IInv PROVE EngineSafety
  OBVIOUS
<1>1. TypeOK
  BY DEF IInv, Types, Pools, TypeOK
<1>2. NoOrphans
  <2> SUFFICES ASSUME NEW s \in Streams, NEW v \in pool[s], state[v] = "playing", v \notin own,
                      ctl = Idle, v \notin leaked
               PROVE  v \in Silenced(s)
    BY DEF NoOrphans
  <2>1. ~Pending(v)
    BY DEF Pending, Idle
  <2>2. Silencing(ring[s], v)
    BY <2>1 DEF IInv, Accounted
  <2> QED
    BY <2>2 DEF Silencing, Silences, Silenced
<1>3. EndsAreReported
  BY DEF IInv, Heard, EndsAreReported, Started, Starting, Starts
<1>4. PausedIsSilent
  <2> SUFFICES ASSUME NEW v \in Pooled, v \notin released \cup unheard PROVE ~Sounding(v)
    BY DEF PausedIsSilent
  <2>1. PICK s \in Streams : v \in pool[s]
    BY DEF Pooled, Streams
  <2> QED
    BY <2>1 DEF IInv, Unreleased, Sounding
<1> QED
  BY <1>1, <1>2, <1>3, <1>4 DEF EngineSafety

\* What a cue, or nobody, may find of a voice, for any number of voices: nothing plays
\* that nobody holds and nothing will silence, a cue finds the end of its voice, and a
\* voice submitted paused is not heard (audio_engine.rs: play_voice, stop_voice,
\* panic_stop_all, restart, drain_status, gc_voices and the callback).
THEOREM EngineIsSafe == Spec => []EngineSafety
<1>1. Spec => []IInv
  BY InitIInv, NextIInv, PTL DEF Spec
<1> QED
  BY <1>1, IInvImpliesSafety, PTL

---------------------------------------------------------------------------
(***************************************************************************)
(* The engine implements VoicePromise.                                      *)
(***************************************************************************)
\* A ring that names the voice in no command of its own asks it only to panic.
LEMMA RequestsUntold ==
  ASSUME NEW q \in Seq(Commands), NEW v \in Voice, ~Told(q, v)
  PROVE  \A i \in DOMAIN Requests(q, v) : Requests(q, v)[i] = "stopall"
<1>1. PICK f \in [0..Len(q) -> Seq(Promise!Asked)] :
        Picks(f, q, v, Len(q)) /\ Requests(q, v) = f[Len(q)]
  BY RequestsDef
<1> DEFINE S == {n \in Nat : n <= Len(q) => \A i \in DOMAIN f[n] : f[n][i] = "stopall"}
<1>2. 0 \in S
  <2>1. f[0] = <<>>
    BY <1>1 DEF Picks
  <2> QED
    BY <2>1
<1>3. ASSUME NEW n \in S PROVE n + 1 \in S
  <2> SUFFICES ASSUME n + 1 <= Len(q), NEW i \in DOMAIN f[n + 1]
               PROVE  f[n + 1][i] = "stopall"
    OBVIOUS
  <2>1. /\ n + 1 \in 0..Len(q) /\ n + 1 # 0 /\ (n + 1) - 1 = n /\ n \in 0..Len(q)
        /\ n + 1 \in DOMAIN q /\ q[n + 1] \in Commands
    OBVIOUS
  <2>2. f[n + 1] = IF Request(q[n + 1], v) THEN Append(f[n], q[n + 1].op) ELSE f[n]
    BY <2>1, <1>1 DEF Picks
  <2>3. f[n] \in Seq(Promise!Asked) /\ \A j \in DOMAIN f[n] : f[n][j] = "stopall"
    BY <2>1, <1>3
  <2>4. Request(q[n + 1], v) => q[n + 1].op = "stopall"
    BY <2>1, CommandOps DEF Told
  <2> HIDE DEF S
  <2>5. CASE Request(q[n + 1], v)
    <3> DEFINE s == f[n]
    <3>1. f[n + 1] = Append(s, "stopall") /\ s \in Seq(Promise!Asked)
          /\ \A j \in DOMAIN s : s[j] = "stopall"
      BY <2>2, <2>3, <2>4, <2>5
    <3> HIDE DEF s
    <3> QED
      BY <3>1
  <2>6. CASE ~Request(q[n + 1], v)
    BY <2>2, <2>3, <2>6
  <2> QED
    BY <2>5, <2>6
<1>4. S = Nat
  <2> HIDE DEF S
  <2>1. S \in SUBSET Nat
    BY DEF S
  <2> QED
    BY <1>2, <1>3, <2>1, Induction
<1> QED
  BY <1>1, <1>4

Route(s) == IF s = "main" THEN "main" ELSE "other"

\* A voice and what was asked of it, before a step and after it.
LEMMA PromisedIs ==
  ASSUME IInv, NEW s \in Streams, NEW v \in pool[s]
  PROVE  Promised(v) = [sound |-> state[v], asked |-> Requests(ring[s], v), route |-> Route(s)]
  BY InOnePool DEF IInv, Promised, Route

LEMMA PromisedWillBe ==
  ASSUME IInv', NEW s \in Streams, NEW v \in pool'[s]
  PROVE  Promised(v)' = [sound |-> state'[v], asked |-> Requests(ring'[s], v), route |-> Route(s)]
<1>1. v \in Pooled' /\ Home(v)' = s
  BY DEF IInv, Types, Pools, Pooled, Home, Streams
<1> QED
  BY <1>1 DEF Promised, Route

\* The voice is moved as it is promised, if at all.
Kept(v) == Promised(v)' = Promised(v) \/ Promise!Step(Promised(v), Promised(v)')

LEMMA StillKept ==
  ASSUME IInv, IInv', NEW v \in Voice, state'[v] = state[v],
         \A s \in Streams : /\ v \in pool'[s] <=> v \in pool[s]
                            /\ v \in pool[s] => ring'[s] = ring[s]
  PROVE  Kept(v)
<1>1. CASE v \in Pooled
  <2>1. PICK s \in Streams : v \in pool[s] /\ v \in pool'[s] /\ ring'[s] = ring[s]
    BY <1>1 DEF Pooled, Streams
  <2> QED
    BY <2>1, PromisedIs, PromisedWillBe DEF Kept
<1>2. CASE v \notin Pooled
  <2>1. v \notin Pooled'
    BY <1>2 DEF Pooled, Streams
  <2> QED
    BY <1>2, <2>1 DEF Promised, Kept
<1> QED
  BY <1>1, <1>2

LEMMA AskedKept ==
  ASSUME IInv, IInv', UNCHANGED <<pool, state>>, NEW c \in Commands,
         \A s \in Streams : ring'[s] \in {ring[s], Append(ring[s], c)},
         NEW v \in Voice
  PROVE  Kept(v)
<1>1. CASE \E s \in Streams : v \in pool[s] /\ ring'[s] = Append(ring[s], c) /\ Request(c, v)
  <2>1. PICK s \in Streams : v \in pool[s] /\ ring'[s] = Append(ring[s], c) /\ Request(c, v)
    BY <1>1
  <2>2. ring[s] \in Seq(Commands)
    BY DEF IInv, Types
  <2>3. Requests(ring'[s], v) = Append(Requests(ring[s], v), c.op) /\ c.op \in Promise!Asked
    BY <2>1, <2>2, RequestsOfAppend, CommandOps
  <2>4. Promised(v) = [sound |-> state[v], asked |-> Requests(ring[s], v), route |-> Route(s)]
    BY <2>1, PromisedIs
  <2>5. Promised(v)' = [sound |-> state[v], asked |-> Append(Requests(ring[s], v), c.op), route |-> Route(s)]
    BY <2>1, <2>3, PromisedWillBe
  <2>6. state[v] \notin {"free", "gone"}
    BY <2>1 DEF IInv, Pools, Pooled, Streams
  <2>7. Promised(v)' = Promise!Turned(Promised(v), Promised(v).sound, Append(Promised(v).asked, c.op))
    BY <2>4, <2>5 DEF Promise!Turned
  <2>8. Promised(v).sound = state[v]
    BY <2>4
  <2> QED
    BY <2>3, <2>6, <2>7, <2>8 DEF Kept, Promise!Step, Promise!Ask, Promise!Pooled
<1>2. CASE ~\E s \in Streams : v \in pool[s] /\ ring'[s] = Append(ring[s], c) /\ Request(c, v)
  <2>1. ASSUME NEW s \in Streams, v \in pool[s]
        PROVE  Requests(ring'[s], v) = Requests(ring[s], v)
    <3>1. CASE ring'[s] = ring[s]
      BY <3>1
    <3>2. CASE ring'[s] = Append(ring[s], c)
      <4>1. ring[s] \in Seq(Commands) /\ ~Request(c, v)
        BY <1>2, <2>1, <3>2 DEF IInv, Types
      <4>2. Requests(Append(ring[s], c), v) = Requests(ring[s], v)
        BY <4>1, RequestsOfAppend
      <4> QED
        BY <3>2, <4>2
    <3> QED
      BY <3>1, <3>2
  <2>2. CASE v \in Pooled
    <3>1. PICK s \in Streams : v \in pool[s]
      BY <2>2 DEF Pooled, Streams
    <3> QED
      BY <2>1, <3>1, PromisedIs, PromisedWillBe DEF Kept
  <2>3. CASE v \notin Pooled
    <3>1. v \notin Pooled'
      BY <2>3 DEF Pooled
    <3> QED
      BY <2>3, <3>1 DEF Promised, Kept
  <2> QED
    BY <2>2, <2>3
<1> QED
  BY <1>1, <1>2

LEMMA PushesKept ==
  ASSUME IInv, IInv', NEW v \in Voice,
         \/ SendPlay \/ PanicStopAll \/ MoveFader
         \/ \E u \in Voice, op \in Operations : StopVoice(u, op) \/ Tell(u, op)
         \/ \E u \in Voice : PauseVoice(u)
  PROVE  Kept(v)
<1>1. \A s \in Streams, c \in Commands : Push(s, c) \in {ring[s], Append(ring[s], c)}
  BY DEF Push
<1>2. \A c \in Commands : Broadcast(c) \/ SendMain(c) =>
        \A s \in Streams : ring'[s] \in {ring[s], Append(ring[s], c)}
  BY <1>1 DEF Broadcast, SendMain, IInv, Types, Streams
<1>3. \A op \in Operations, u \in Voice : Cmd(op, u) \in Commands
  BY DEF Cmd, Commands
<1>4. "pause" \in Operations /\ "play" \in Operations /\ StopAll \in Commands /\ SetPatchGain \in Commands
  BY DEF Operations, Commands
<1>5. CASE SendPlay
  <2> DEFINE c == Cmd("play", ctl.voice)
             to == IF ctl.voice \in pool["aux"] THEN "aux" ELSE "main"
  <2>1. c \in Commands /\ to \in Streams
    <3>1. ctl.do \in {"play", "mic", "push"}
      BY <1>5 DEF SendPlay
    <3> QED
      BY <3>1, <1>3, <1>4, CallVoice DEF IInv, Streams
  <2>2. ring' = [ring EXCEPT ![to] = Push(to, c)] /\ UNCHANGED <<pool, state>>
    BY <1>5 DEF SendPlay, voices
  <2> HIDE DEF c, to
  <2>3. \A s \in Streams : ring'[s] \in {ring[s], Append(ring[s], c)}
    BY <2>1, <2>2, <1>1 DEF IInv, Types
  <2> QED
    BY <2>1, <2>2, <2>3, AskedKept
<1>6. CASE PanicStopAll \/ MoveFader
  BY <1>2, <1>4, <1>6, AskedKept DEF PanicStopAll, MoveFader, voices
<1>7. ASSUME NEW u \in Voice, NEW op \in Operations, StopVoice(u, op) \/ Tell(u, op)
      PROVE  Kept(v)
  BY <1>2, <1>3, <1>7, AskedKept DEF StopVoice, Tell, voices
<1>8. ASSUME NEW u \in Voice, PauseVoice(u) PROVE Kept(v)
  BY <1>2, <1>3, <1>4, <1>8, AskedKept DEF PauseVoice, voices
<1> QED
  BY <1>5, <1>6, <1>7, <1>8

LEMMA CommandKept ==
  ASSUME IInv, IInv', NEW v \in Voice, NEW s \in Streams, CallbackCommand(s)
  PROVE  Kept(v)
<1> DEFINE c == Head(ring[s])
           q == ring[s]
<1>1. q \in Seq(Commands) /\ q # <<>> /\ c \in Commands
  <2>1. ring[s] \in Seq(Commands) /\ ring[s] # <<>>
    BY DEF CallbackCommand, IInv, Types
  <2> QED
    BY <2>1
<1>2. /\ state'[v] = IF v \in snap[s] /\ Names(c, v) /\ state[v] # "gone"
                     THEN Applied(c.op, state[v]) ELSE state[v]
      /\ ring' = [ring EXCEPT ![s] = Tail(q)] /\ pool' = pool
  BY DEF CallbackCommand
<1>3. ring'[s] = Tail(q) /\ \A x \in Streams \ {s} : ring'[x] = ring[x]
  BY <1>2 DEF IInv, Types
<1>4. CASE v \in pool[s]
  <2>1. Promised(v) = [sound |-> state[v], asked |-> Requests(q, v), route |-> Route(s)]
    BY <1>4, PromisedIs
  <2>2. Promised(v)' = [sound |-> state'[v], asked |-> Requests(Tail(q), v), route |-> Route(s)]
    BY <1>2, <1>3, <1>4, PromisedWillBe
  <2>3. state[v] \notin {"free", "gone"}
    BY <1>4 DEF IInv, Pools, Pooled, Streams
  <2>4. Names(c, v) <=> Request(c, v) \/ (Own(c, v) /\ c.op \in {"devamp", "devampstop", "seek"})
    BY <1>1, CommandOps DEF Request, Own
  <2>a. c = Head(q)
    OBVIOUS
  <2>b. IF Request(c, v)
        THEN /\ Requests(q, v) # <<>> /\ Head(Requests(q, v)) = c.op
             /\ Requests(Tail(q), v) = Tail(Requests(q, v))
        ELSE Requests(Tail(q), v) = Requests(q, v)
    BY <1>1, <2>a, RequestsOfTail
  <2> DEFINE r == Requests(q, v)
  <2> HIDE DEF c, q
  <2>5. CASE Request(c, v)
    <3>1. r # <<>> /\ Head(r) = c.op /\ Requests(Tail(q), v) = Tail(r)
      BY <2>5, <2>b
    <3>a. Promised(v) = [sound |-> state[v], asked |-> r, route |-> Route(s)]
      BY <2>1
    <3>b. Promised(v)' = [sound |-> state'[v], asked |-> Tail(r), route |-> Route(s)]
      BY <2>2, <3>1
    <3> DEFINE p == Promised(v)
               p2 == Promised(v)'
    <3>c. p.sound = state[v] /\ p.asked = r /\ p.route = Route(s)
      BY <3>a
    <3>d. p2 = [sound |-> state'[v], asked |-> Tail(p.asked), route |-> p.route]
      BY <3>b, <3>c
    <3> HIDE DEF r, p, p2
    <3>2. c.op \in Promise!Asked
      BY <1>1, <2>5, CommandOps
    <3>3. CASE v \in snap[s]
      <4>1. state'[v] = Promise!Served(c.op, state[v])
        BY <1>2, <2>3, <2>4, <2>5, <3>2, <3>3 DEF Applied, Promise!Served, Promise!Asked
      <4>2. p2 = [sound |-> Promise!Served(Head(p.asked), p.sound), asked |-> Tail(p.asked),
                  route |-> p.route]
        BY <3>1, <3>c, <3>d, <4>1
      <4>4. Promise!Serve(p, p2)
        BY <2>3, <3>1, <3>c, <4>2 DEF Promise!Serve, Promise!Turned, Promise!Pooled
      <4> QED
        BY <4>4 DEF Kept, Promise!Step, p, p2
    <3>4. CASE v \notin snap[s]
      <4>1. state'[v] = state[v]
        BY <1>2, <3>4
      <4>2. p2 = Promise!Turned(p, p.sound, Tail(p.asked))
        BY <3>c, <3>d, <4>1 DEF Promise!Turned
      <4>3. Promise!Forget(p, p2)
        BY <2>3, <3>1, <3>c, <4>2 DEF Promise!Forget, Promise!Pooled
      <4> QED
        BY <4>3 DEF Kept, Promise!Step, p, p2
    <3> QED
      BY <3>3, <3>4
  <2>6. CASE ~Request(c, v)
    <3>1. Requests(Tail(q), v) = Requests(q, v)
      BY <2>6, <2>b
    <3>2. state'[v] = state[v]
      BY <1>2, <2>4, <2>6 DEF Applied
    <3> QED
      BY <2>1, <2>2, <3>1, <3>2 DEF Kept
  <2> QED
    BY <2>5, <2>6
<1>5. CASE v \notin pool[s]
  <2>1. state'[v] = state[v]
    BY <1>2, <1>5 DEF IInv, Snapshots
  <2>2. \A x \in Streams : v \in pool[x] => ring'[x] = ring[x]
    BY <1>3, <1>5
  <2> QED
    BY <1>2, <2>1, <2>2, StillKept
<1> QED
  BY <1>4, <1>5

LEMMA MixKept ==
  ASSUME IInv, IInv', NEW v \in Voice, NEW s \in Streams, Mix(s)
  PROVE  Kept(v)
<1>1. PICK ended \in SUBSET snap[s], freed \in SUBSET snap[s] : MixEnding(s, ended, freed)
  BY DEF Mix
<1>2. /\ \A u \in ended : Sounding(u)
      /\ state'[v] = IF v \in ended THEN "stopped" ELSE state[v]
      /\ UNCHANGED <<ring, pool>>
  BY <1>1 DEF MixEnding, Mixed
<1>3. CASE v \in ended
  <2>1. state[v] \in {"playing", "fading"} /\ v \in pool[s]
    BY <1>2, <1>3 DEF Sounding, IInv, Snapshots
  <2>2. Promised(v) = [sound |-> state[v], asked |-> Requests(ring[s], v), route |-> Route(s)]
    BY <2>1, PromisedIs
  <2>3. Promised(v)' = [sound |-> "stopped", asked |-> Requests(ring[s], v), route |-> Route(s)]
    BY <1>2, <1>3, <2>1, PromisedWillBe
  <2>4. /\ Promised(v)' = Promise!Turned(Promised(v), "stopped", Promised(v).asked)
        /\ Promised(v).sound = state[v]
    BY <2>2, <2>3 DEF Promise!Turned
  <2> QED
    BY <2>1, <2>4 DEF Kept, Promise!Step, Promise!End
<1>4. CASE v \notin ended
  BY <1>2, <1>4, StillKept
<1> QED
  BY <1>3, <1>4
\* A voice that leaves its pool had stopped, or was on another device than the main one.
LEMMA GoneKept ==
  ASSUME IInv, IInv', NEW s \in Streams, NEW v \in pool[s], state'[v] = "gone",
         state[v] = "stopped" \/ s = "aux"
  PROVE  Kept(v)
<1>1. Promised(v) = [sound |-> state[v], asked |-> Requests(ring[s], v), route |-> Route(s)]
  BY PromisedIs
<1>2. Promised(v)' = Promise!Gone
  <2>1. v \in Voice
    BY DEF IInv, Types
  <2>2. v \notin Pooled'
    BY <2>1 DEF IInv, Pools
  <2> QED
    BY <2>2 DEF Promised, Promise!Gone
<1>3. Promised(v).sound = state[v] /\ Promised(v).route = Route(s)
  BY <1>1
<1> QED
  BY <1>2, <1>3 DEF Kept, Promise!Step, Promise!Collect, Promise!Close, Route

LEMMA GcKept ==
  ASSUME IInv, IInv', NEW v \in Voice, GcSweep \/ GcFeeds
  PROVE  Kept(v)
<1>1. PICK s \in Streams :
        /\ pool' = [pool EXCEPT ![s] = @ \ Finished(s)]
        /\ state' = [u \in Voice |-> IF u \in Finished(s) THEN "gone" ELSE state[u]]
        /\ \A u \in Streams : ring'[u] = ring[u] \/ pool'[u] = {}
  <2>1. CASE GcSweep
    BY <2>1 DEF GcSweep, Streams
  <2>2. CASE GcFeeds
    <3> DEFINE left == pool["aux"] \ Finished("aux")
               shut == stream["aux"] = "dead" /\ left = {}
    <3>1. /\ pool' = [pool EXCEPT !["aux"] = left]
          /\ state' = [u \in Voice |-> IF u \in Finished("aux") THEN "gone" ELSE state[u]]
          /\ ring' = IF shut THEN [ring EXCEPT !["aux"] = <<>>] ELSE ring
      BY <2>2 DEF GcFeeds
    <3>2. \A u \in Streams : ring'[u] = ring[u] \/ pool'[u] = {}
      BY <3>1 DEF IInv, Types, Streams
    <3> QED
      BY <3>1, <3>2 DEF Streams
  <2> QED
    BY <2>1, <2>2
<1>2. CASE v \in Finished(s)
  BY <1>1, <1>2, GoneKept DEF Finished
<1>3. CASE v \notin Finished(s)
  <2>1. state'[v] = state[v] /\ \A u \in Streams : v \in pool'[u] <=> v \in pool[u]
    BY <1>1, <1>3 DEF IInv, Types
  <2>2. \A u \in Streams : v \in pool[u] => ring'[u] = ring[u]
    BY <1>1, <2>1
  <2> QED
    BY <2>1, <2>2, StillKept
<1> QED
  BY <1>2, <1>3

LEMMA ClosingKept ==
  ASSUME IInv, IInv', NEW v \in Voice, AuxShut, ring'["main"] \in {ring["main"], <<>>}
  PROVE  Kept(v)
<1>1. /\ state'[v] = IF v \in pool["aux"] THEN "gone" ELSE state[v]
      /\ pool'["main"] = pool["main"] /\ pool'["aux"] = {}
  BY DEF AuxShut, IInv, Types, Streams
<1>2. CASE v \in pool["aux"]
  BY <1>1, <1>2, GoneKept DEF Streams
<1>3. CASE v \in pool["main"] /\ v \notin pool["aux"]
  <2>1. "main" \in Streams /\ v \in pool'["main"] /\ state'[v] = state[v]
    BY <1>1, <1>3 DEF Streams
  <2>2. Promised(v) = [sound |-> state[v], asked |-> Requests(ring["main"], v), route |-> Route("main")]
    BY <1>3, <2>1, PromisedIs
  <2>3. Promised(v)' = [sound |-> state[v], asked |-> Requests(ring'["main"], v), route |-> Route("main")]
    BY <2>1, PromisedWillBe
  <2>4. CASE ring'["main"] = ring["main"] \/ Requests(ring["main"], v) = <<>>
    <3>1. Requests(ring'["main"], v) = Requests(ring["main"], v)
      <4>1. CASE ring'["main"] = ring["main"]
        BY <4>1
      <4>2. CASE ring'["main"] # ring["main"]
        <5>1. ring'["main"] = <<>>
          BY <4>2
        <5> QED
          BY <2>4, <4>2, <5>1, NoRequests
      <4> QED
        BY <4>1, <4>2
    <3> QED
      BY <2>2, <2>3, <3>1 DEF Kept
  <2>5. CASE ring'["main"] # ring["main"] /\ Requests(ring["main"], v) # <<>>
    <3>1. ring'["main"] = <<>>
      BY <2>5
    <3>2. Requests(ring'["main"], v) = <<>>
      BY <3>1, NoRequests
    <3>3. state[v] \notin {"free", "gone"}
      BY <1>3 DEF IInv, Pools, Pooled
    <3> DEFINE p == Promised(v)
               p2 == Promised(v)'
    <3>4. p.sound = state[v] /\ p.asked # <<>> /\ p.route = Route("main")
      BY <2>2, <2>5
    <3>5. p2 = [sound |-> state[v], asked |-> <<>>, route |-> Route("main")]
      BY <2>3, <3>2
    <3> HIDE DEF p, p2
    <3>6. Promise!Forget(p, p2)
      BY <3>3, <3>4, <3>5 DEF Promise!Forget, Promise!Turned, Promise!Pooled
    <3> QED
      BY <3>6 DEF Kept, Promise!Step, p, p2
  <2> QED
    BY <2>4, <2>5
<1>4. CASE v \notin pool["main"] /\ v \notin pool["aux"]
  <2>1. state'[v] = state[v] /\ \A s \in Streams : v \notin pool[s] /\ v \notin pool'[s]
    BY <1>1, <1>4 DEF Streams
  <2> QED
    BY <2>1, StillKept
<1> QED
  BY <1>2, <1>3, <1>4

LEMMA RestartKept ==
  ASSUME IInv, IInv', NEW v \in Voice,
         CloseAllAux \/ RestoreDesired \/ WatchdogActs \/ \E c \in Configs : ApplyUserConfig(c)
  PROVE  Kept(v)
<1>1. ASSUME NEW c, Restart(c) PROVE Kept(v)
  <2>1. AuxShut /\ ring'["main"] \in {ring["main"], <<>>}
    BY <1>1 DEF Restart
  <2> QED
    BY <2>1, ClosingKept
<1>2. CASE CloseAllAux
  <2>1. AuxShut /\ ring'["main"] = ring["main"]
    BY <1>2 DEF CloseAllAux, IInv, Types, Streams
  <2> QED
    BY <2>1, ClosingKept
<1>3. CASE RestoreDesired
  BY <1>1, <1>3 DEF RestoreDesired
<1>4. ASSUME NEW c \in Configs, ApplyUserConfig(c) PROVE Kept(v)
  BY <1>1, <1>4 DEF ApplyUserConfig
<1>5. CASE WatchdogActs
  <2>1. CASE Attempt
    BY <1>1, <1>5, <2>1 DEF WatchdogActs
  <2>2. CASE ~Attempt
    BY <1>5, <2>2, StillKept DEF WatchdogActs, voices
  <2> QED
    BY <2>1, <2>2
<1> QED
  BY <1>2, <1>3, <1>4, <1>5

\* A voice that is submitted: at most a panic older than it is in its ring.
LEMMA NewVoiceKept ==
  ASSUME IInv, IInv', NEW s \in Streams, NEW v \in pool'[s], v \in Voice, state[v] = "free",
         state'[v] \in {"playing", "paused"}, ring'[s] \in {ring[s], <<>>}
  PROVE  Kept(v)
<1>1. Promised(v)' = [sound |-> state'[v], asked |-> Requests(ring'[s], v), route |-> Route(s)]
  BY PromisedWillBe
<1>2. Promised(v) = [sound |-> "free", asked |-> <<>>, route |-> "none"]
  <2>1. v \notin Pooled
    BY DEF IInv, Pools
  <2> QED
    BY <2>1 DEF Promised
<1>3. ring'[s] \in Seq(Commands) /\ ~Told(ring'[s], v)
  <2>1. ring[s] \in Seq(Commands) /\ ~Told(ring[s], v)
    BY DEF IInv, Types, Sent
  <2>2. <<>> \in Seq(Commands) /\ ~Told(<<>>, v)
    BY EmptyRing
  <2>3. CASE ring'[s] = ring[s]
    BY <2>1, <2>3
  <2>4. CASE ring'[s] = <<>>
    BY <2>2, <2>4
  <2> QED
    BY <2>3, <2>4
<1>4. \A i \in DOMAIN Requests(ring'[s], v) : Requests(ring'[s], v)[i] = "stopall"
  BY <1>3, RequestsUntold
<1> DEFINE p == Promised(v)
           p2 == Promised(v)'
           r == Requests(ring'[s], v)
<1>5. p.sound = "free" /\ p2.sound = state'[v] /\ p2.asked = r /\ p2.route # "none"
  BY <1>1, <1>2 DEF Route
<1>6. \A i \in DOMAIN r : r[i] = "stopall"
  BY <1>4
<1> HIDE DEF p, p2, r
<1>7. Promise!Submit(p, p2)
  BY <1>5, <1>6 DEF Promise!Submit
<1> QED
  BY <1>7 DEF Kept, Promise!Step, p, p2

LEMMA SubmitKept ==
  ASSUME IInv, IInv', NEW v \in Voice, NEW st \in {"playing", "paused"}, NEW openable \in BOOLEAN,
         Submit(v, st, openable), NEW u \in Voice
  PROVE  Kept(u)
<1>1. PICK to \in Streams, stale \in BOOLEAN :
        /\ state[v] = "free"
        /\ ring' = [s \in Streams |-> IF stale /\ s = "aux" THEN <<>> ELSE ring[s]]
        /\ pool' = [s \in Streams |-> (IF stale /\ s = "aux" THEN {} ELSE pool[s])
                                        \cup (IF s = to THEN {v} ELSE {})]
        /\ state' = [w \in Voice |-> IF w = v THEN st
                                      ELSE IF stale /\ w \in pool["aux"] THEN "gone" ELSE state[w]]
  BY Submits
<1>2. CASE u = v
  <2>1. u \in pool'[to] /\ state[u] = "free" /\ state'[u] = st /\ ring'[to] \in {ring[to], <<>>}
    BY <1>1, <1>2
  <2> QED
    BY <2>1, NewVoiceKept
<1>3. CASE u # v /\ stale /\ u \in pool["aux"]
  <2>1. state'[u] = "gone"
    BY <1>1, <1>3
  <2> QED
    BY <1>3, <2>1, GoneKept DEF Streams
<1>4. CASE u # v /\ ~(stale /\ u \in pool["aux"])
  <2>1. state'[u] = state[u]
    BY <1>1, <1>4
  <2>2. ASSUME NEW s \in Streams
        PROVE  /\ u \in pool'[s] <=> u \in pool[s]
               /\ u \in pool[s] => ring'[s] = ring[s]
    BY <1>1, <1>4
  <2> QED
    BY <2>1, <2>2, StillKept
<1> QED
  BY <1>2, <1>3, <1>4

LEMMA PushMicVoiceKept ==
  ASSUME IInv, IInv', PushMicVoice, NEW u \in Voice
  PROVE  Kept(u)
<1> DEFINE v == ctl.voice
<1>1. v \in Voice /\ state[v] = "free"
  BY CallVoice DEF PushMicVoice, IInv, Holders
<1>2. /\ pool' = [pool EXCEPT !["main"] = @ \cup {v}] /\ state' = [state EXCEPT ![v] = "playing"]
      /\ ring' = ring
  BY DEF PushMicVoice
<1> HIDE DEF v
<1>3. CASE u = v
  <2>1. "main" \in Streams /\ v \in pool'["main"] /\ state'[v] = "playing"
    BY <1>1, <1>2 DEF IInv, Types, Streams
  <2> QED
    BY <1>1, <1>2, <1>3, <2>1, NewVoiceKept
<1>4. CASE u # v
  <2>1. state'[u] = state[u] /\ \A s \in Streams : u \in pool'[s] <=> u \in pool[s]
    BY <1>1, <1>2, <1>4 DEF IInv, Types, Streams
  <2> QED
    BY <1>2, <2>1, StillKept
<1> QED
  BY <1>3, <1>4

LEMMA NextKept ==
  ASSUME IInv, IInv', [Next]_vars, NEW v \in Voice
  PROVE  Kept(v)
<1>1. CASE UNCHANGED <<state, pool, ring>>
  BY <1>1, StillKept
<1>2. ASSUME NEW u \in Voice, Plays(u) PROVE Kept(v)
  <2>1. ASSUME NEW openable \in BOOLEAN, PlayVoice(u, openable) \/ PlayVoicePaused(u, openable)
        PROVE  Kept(v)
    BY <2>1, SubmitKept DEF PlayVoice, PlayVoicePaused
  <2>2. CASE EnsureInputFeed(u)
    BY <1>1, <2>2 DEF EnsureInputFeed, voices
  <2> QED
    BY <1>2, <2>1, <2>2 DEF Plays
<1>3. CASE PlayContinues
  <2>1. CASE FindFeed
    BY <1>1, <2>1 DEF FindFeed, voices
  <2> QED
    BY <1>3, <2>1, PushesKept, PushMicVoiceKept DEF PlayContinues
<1>4. CASE Calls
  <2>1. trial.calling \subseteq Operations
    BY EngineAssumption DEF IInv, Types
  <2> QED
    BY <1>4, <2>1, PushesKept, RestartKept DEF Calls
<1>5. CASE EventLoop
  <2>1. CASE DrainStatus
    BY <1>1, <2>1 DEF DrainStatus, voices
  <2> QED
    BY <1>5, <2>1, GcKept DEF EventLoop
<1>6. CASE Watchdog
  <2>1. CASE WatchdogReads
    BY <1>1, <2>1 DEF WatchdogReads, voices
  <2> QED
    BY <1>6, <2>1, RestartKept DEF Watchdog
<1>7. CASE Environment
  BY <1>1, <1>7 DEF Environment, AuxLost, DeviceLost, DeviceBack, voices
<1>8. ASSUME NEW s \in Streams, Callback(s) PROVE Kept(v)
  <2>1. CASE CallbackBegins(s)
    BY <1>1, <2>1 DEF CallbackBegins, voices
  <2> QED
    BY <1>8, <2>1, CommandKept, MixKept DEF Callback
<1>9. CASE UNCHANGED vars
  BY <1>1, <1>9 DEF vars, voices
<1> QED
  BY <1>2, <1>3, <1>4, <1>5, <1>6, <1>7, <1>8, <1>9 DEF Next

\* A voice is heard, silenced and removed only as it was asked, in the order it was
\* asked, and on the main output outlives every restart: the engine, with its rings,
\* snapshots and streams, does to each voice what VoicePromise says (audio_engine.rs:
\* play_voice, apply_command, fill_buffer, restart, close_all_aux, gc_voices).
THEOREM EngineKeepsPromise == Spec => PromiseKept
<1>1. Init => Promise!Init
  <2> SUFFICES ASSUME Init PROVE Promise!Init
    OBVIOUS
  <2>1. \A v \in Voice : Promised(v) = [sound |-> "free", asked |-> <<>>, route |-> "none"]
    BY DEF Init, Promised, Pooled, Streams
  <2> QED
    BY <2>1 DEF Promise!Init
<1>2. IInv /\ IInv' /\ [Next]_vars => Promise!Next
  <2> SUFFICES ASSUME IInv, IInv', [Next]_vars PROVE Promise!Next
    OBVIOUS
  <2>1. \A v \in Voice : Promised(v)' = Promised(v) \/ Promise!Step(Promised(v), Promised(v)')
    BY NextKept DEF Kept
  <2> QED
    BY <2>1 DEF Promise!Next
<1>3. Spec => []IInv
  BY InitIInv, NextIInv, PTL DEF Spec
<1> QED
  BY <1>1, <1>2, <1>3, PTL DEF Spec, PromiseKept, Promise!Spec
============================================================================
