-------------------------- MODULE CaptureCallsProofs --------------------------
(***************************************************************************)
(* What CaptureCalls promises of the record and of the run trace, for any  *)
(* callers, calls, results, cap, kills and failed writes.                  *)
(*                                                                         *)
(* Exact.  ExactIsComplete says nothing of the calls that are under way.   *)
(* While the trace calls itself whole no file has replaced another         *)
(* (NeverCut), so a call that opened it appends to the file that is there, *)
(* and a call past its append has its line in it (LineIsThere).  A call    *)
(* about to replace the file read more lines than the cap, so it drops at  *)
(* least one (CutsSomething).                                              *)
(*                                                                         *)
(* Repeats.  Every put extends a list: what is there keeps its place and   *)
(* its key, and nothing comes under a key that is there (Extends).  Run    *)
(* the publishes of a call to some place, then all of them again: the      *)
(* second run has, place by place, what the first had at that point or had *)
(* in the end (Behind), every put keeps that, and where the first run was  *)
(* cut short the two lists are the same, and so is what follows.           *)
(*                                                                         *)
(* OkLanded.  A publish behind a writing call was declined, or it landed   *)
(* with a value that one of the publishes so far carried, the call has had *)
(* the turn since, and its command has its result (Done, PastIsDone).  The *)
(* result of a command therefore goes only into publishes still to come,   *)
(* no other caller writes in between (OthersWait), a later put of the same *)
(* key brings a value this call was asked for (PutHolds), and a publish    *)
(* that fails without spoiling the outcome is the plan check, which comes  *)
(* after all others (PlanComesLast).                                       *)
(***************************************************************************)
EXTENDS CaptureCalls, SequenceTheorems, FiniteSetTheorems, NaturalsInduction, WellFoundedInduction, TLAPS

\* A set of natural numbers has a least one.
LEMMA LeastElement ==
  ASSUME NEW T, T \subseteq Nat, T # {}
  PROVE  \E n \in T : \A m \in T : n <= m
<1> DEFINE R == OpToRel(<, Nat)
<1>1. IsWellFoundedOn(R, Nat)
  BY NatLessThanWellFounded
<1>2. \A m, n \in Nat : m < n => <<m, n>> \in R
  BY DEF OpToRel
<1> HIDE DEF R
<1>3. PICK x \in T : \A y \in T : ~ (<<y, x>> \in R)
  BY <1>1, WFMin
<1>4. ASSUME NEW y \in T PROVE x <= y
  <2>1. x \in Nat /\ y \in Nat /\ ~ (y < x)
    BY <1>2, <1>3
  <2> QED
    BY <2>1
<1> QED
  BY <1>4

\* A set that contains 0 and with a number below n the next one goes up to n.
LEMMA UpTo ==
  ASSUME NEW n \in Nat, NEW T, 0 \in T, \A i \in 0 .. n - 1 : i \in T => i + 1 \in T
  PROVE  0 .. n \subseteq T
<1> DEFINE missing == (0 .. n) \ T
<1>1. SUFFICES ASSUME missing # {} PROVE FALSE
  OBVIOUS
<1>2. missing \subseteq Nat
  OBVIOUS
<1> HIDE DEF missing
<1>3. PICK i \in missing : \A j \in missing : i <= j
  BY <1>1, <1>2, LeastElement
<1>4. i \in 0 .. n /\ i \notin T /\ i # 0 /\ i - 1 \in 0 .. n - 1
  BY <1>3 DEF missing
<1>5. i - 1 \notin missing
  BY <1>3, <1>4, <1>2
<1>6. i - 1 \in T /\ (i - 1) + 1 = i
  BY <1>4, <1>5 DEF missing
<1> QED
  BY <1>4, <1>6

\* What a sequence is.
LEMMA SeqFields ==
  ASSUME NEW S, NEW s \in Seq(S)
  PROVE  /\ Len(s) \in Nat /\ DOMAIN s = 1 .. Len(s) /\ \A i \in 1 .. Len(s) : s[i] \in S
         /\ ToSet(s) = {s[i] : i \in 1 .. Len(s)} /\ ToSet(s) \subseteq S
BY DEF ToSet

\* The element of a set of one.
LEMMA TheOne == \A x : The({x}) = x
BY DEF The

\* last is what comes of seq, one Op after the other, from base.
Replays(Op(_, _), base, seq, last) ==
  \E f : f[0] = base /\ f[Len(seq)] = last /\ \A i \in 0 .. Len(seq) - 1 : f[i + 1] = Op(f[i], seq[i + 1])

\* A replay unfolds step by step.
LEMMA ReplayUnfolds ==
  ASSUME NEW Op(_, _), NEW base, NEW seq, Len(seq) \in Nat
  PROVE  Replays(Op, base, seq, Replay(Op, base, seq))
<1> DEFINE n == Len(seq)
           Def(v, i) == The({Op(r, seq[i]) : r \in {v}})
           f == CHOOSE g : g = [i \in 0 .. n |-> IF i = 0 THEN base
                                ELSE The({Op(r, seq[i]) : r \in {g[i - 1]}})]
<1>1. n \in Nat /\ 0 \in Nat
  OBVIOUS
<1>2. Replay(Op, base, seq) = f[n]
  BY DEF Replay
<1>3. FiniteNatInductiveDefHypothesis(f, base, Def, 0, n)
  BY DEF FiniteNatInductiveDefHypothesis
<1>4. \A v, i : Def(v, i) = Op(v, seq[i])
  <2> SUFFICES ASSUME NEW v, NEW i PROVE Def(v, i) = Op(v, seq[i])
    OBVIOUS
  <2>1. {Op(r, seq[i]) : r \in {v}} = {Op(v, seq[i])}
    OBVIOUS
  <2> QED
    BY <2>1 DEF The
<1> HIDE DEF Def, f, n
<1>5. FiniteNatInductiveDefConclusion(f, base, Def, 0, n)
  BY <1>1, <1>3, FiniteNatInductiveDef
<1>6. f = [i \in 0 .. n |-> IF i = 0 THEN base ELSE Def(f[i - 1], i)]
  BY <1>5 DEF FiniteNatInductiveDefConclusion
<1>7. f[0] = base
  BY <1>1, <1>6
<1>8. ASSUME NEW i \in 0 .. n - 1 PROVE f[i + 1] = Op(f[i], seq[i + 1])
  <2>1. i + 1 \in 0 .. n /\ i + 1 # 0 /\ (i + 1) - 1 = i
    BY <1>1
  <2>2. f[i + 1] = Def(f[i], i + 1)
    BY <1>6, <2>1
  <2> QED
    BY <1>4, <2>2
<1> QED
  BY <1>2, <1>7, <1>8 DEF Replays, n

\* A function from 1 .. n is a sequence.
LEMMA FunctionIsSeq ==
  ASSUME NEW S, NEW n \in Nat, NEW f \in [1 .. n -> S]
  PROVE  f \in Seq(S) /\ Len(f) = n /\ DOMAIN f = 1 .. n
OBVIOUS

\* Two sequences joined.
LEMMA Joins ==
  ASSUME NEW S, NEW x \in Seq(S), NEW a \in Seq(S), NEW b \in Seq(S)
  PROVE  a \o b \in Seq(S) /\ (x \o a) \o b = x \o (a \o b)
<1>1. a \o b \in Seq(S)
  OBVIOUS
<1>2. (x \o a) \o b = x \o (a \o b)
  OBVIOUS
<1> QED
  BY <1>1, <1>2

\* The recursive function FlattenSeq is made of.
Flatten(seqs, f) ==
  f = [i \in 1 .. Len(seqs) |-> IF i = 1 THEN seqs[i] ELSE f[i - 1] \o seqs[i]]

\* Each of its values adds one sequence to the value before.
LEMMA FlattenUnfolds ==
  ASSUME NEW seqs, Len(seqs) \in Nat \ {0}, NEW f, Flatten(seqs, f)
  PROVE  f[1] = seqs[1] /\ \A i \in 1 .. Len(seqs) - 1 : f[i + 1] = f[i] \o seqs[i + 1]
<1>1. \A j \in 1 .. Len(seqs) : f[j] = IF j = 1 THEN seqs[j] ELSE f[j - 1] \o seqs[j]
  BY DEF Flatten
<1>2. f[1] = seqs[1]
  BY <1>1
<1>3. ASSUME NEW i \in 1 .. Len(seqs) - 1 PROVE f[i + 1] = f[i] \o seqs[i + 1]
  <2>1. i + 1 \in 1 .. Len(seqs) /\ i + 1 # 1 /\ (i + 1) - 1 = i
    OBVIOUS
  <2> QED
    BY <1>1, <2>1
<1> QED
  BY <1>2, <1>3

\* The function exists, takes sequences as values, and its last value is FlattenSeq.
LEMMA FlattenRecursion ==
  ASSUME NEW S, NEW seqs \in Seq(Seq(S)), Len(seqs) # 0
  PROVE  \E f \in [1 .. Len(seqs) -> Seq(S)] : Flatten(seqs, f) /\ FlattenSeq(seqs) = f[Len(seqs)]
<1> DEFINE n == Len(seqs)
           Def(v, i) == v \o seqs[i]
           f == CHOOSE g : g = [i \in 1 .. n |-> IF i = 1 THEN seqs[i] ELSE g[i - 1] \o seqs[i]]
           h == CHOOSE g : g = [i \in 1 .. n |-> IF i = 1 THEN seqs[1] ELSE g[i - 1] \o seqs[i]]
<1>1. n \in Nat /\ 1 \in Nat /\ seqs[1] \in Seq(S)
  OBVIOUS
<1>2. \A g : [i \in 1 .. n |-> IF i = 1 THEN seqs[i] ELSE g[i - 1] \o seqs[i]]
              = [i \in 1 .. n |-> IF i = 1 THEN seqs[1] ELSE g[i - 1] \o seqs[i]]
  OBVIOUS
<1>3. f = h
  BY <1>2
<1>4. FlattenSeq(seqs) = f[n]
  BY DEF FlattenSeq
<1>5. FiniteNatInductiveDefHypothesis(h, seqs[1], Def, 1, n)
  BY DEF FiniteNatInductiveDefHypothesis
<1>6. \A v \in Seq(S), i \in 2 .. n : Def(v, i) \in Seq(S)
  OBVIOUS
<1> HIDE DEF Def, f, h, n
<1>7. FiniteNatInductiveDefConclusion(h, seqs[1], Def, 1, n)
  BY <1>1, <1>5, FiniteNatInductiveDef
<1>8. h = [i \in 1 .. n |-> IF i = 1 THEN seqs[1] ELSE h[i - 1] \o seqs[i]]
  BY <1>7 DEF FiniteNatInductiveDefConclusion, Def
<1>9. h \in [1 .. n -> Seq(S)]
  <2> DEFINE T == {i \in 1 .. n : h[i] \in Seq(S)}
  <2>1. Flatten(seqs, h)
    BY <1>2, <1>8 DEF Flatten, n
  <2>2. h[1] = seqs[1] /\ \A i \in 1 .. n - 1 : h[i + 1] = h[i] \o seqs[i + 1]
    BY <2>1, <1>1, FlattenUnfolds DEF n
  <2>3. 1 \in T
    BY <1>1, <2>2 DEF n
  <2>4. ASSUME NEW i \in 1 .. n - 1, i \in T PROVE i + 1 \in T
    <3>1. i + 1 \in 1 .. n /\ seqs[i + 1] \in Seq(S)
      BY <1>1 DEF n
    <3>2. h[i] \in Seq(S) /\ h[i + 1] = h[i] \o seqs[i + 1]
      BY <2>2, <2>4
    <3>3. h[i] \o seqs[i + 1] \in Seq(S)
      BY <3>1, <3>2, Joins
    <3> QED
      BY <3>1, <3>2, <3>3
  <2>5. 1 .. n \subseteq T
    <3> HIDE DEF T
    <3>1. 0 \in {0} \cup T
      OBVIOUS
    <3>2. ASSUME NEW i \in 0 .. n - 1, i \in {0} \cup T PROVE i + 1 \in {0} \cup T
      <4>1. i = 0 \/ (i \in 1 .. n - 1 /\ i \in T)
        BY <1>1, <3>2
      <4> QED
        BY <2>3, <2>4, <4>1
    <3>3. 0 .. n \subseteq {0} \cup T
      <4> DEFINE U == {0} \cup T
      <4> HIDE DEF U
      <4> QED
        BY <1>1, <3>1, <3>2, UpTo DEF U
    <3> QED
      BY <1>1, <3>3
  <2> QED
    BY <1>8, <2>5
<1> QED
  BY <1>2, <1>3, <1>4, <1>8, <1>9 DEF Flatten, n

\* No sequences, no elements.
LEMMA FlattenNothing == FlattenSeq(<<>>) = <<>>
BY DEF FlattenSeq

-----------------------------------------------------------------------------
(* Lists of whatever elements                                               *)

IsList(s) == s \in Seq(ToSet(s))

\* What a list is.
LEMMA ListFields ==
  ASSUME NEW s, IsList(s)
  PROVE  /\ Len(s) \in Nat /\ DOMAIN s = 1 .. Len(s) /\ s = [i \in 1 .. Len(s) |-> s[i]]
         /\ ToSet(s) = {s[i] : i \in 1 .. Len(s)}
<1>1. s \in Seq(ToSet(s))
  BY DEF IsList
<1> QED
  BY <1>1, SeqFields

\* A sequence is a list.
LEMMA SeqIsList ==
  ASSUME NEW S, NEW s \in Seq(S)
  PROVE  IsList(s)
<1>1. /\ Len(s) \in Nat /\ DOMAIN s = 1 .. Len(s) /\ ToSet(s) = {s[i] : i \in 1 .. Len(s)}
      /\ s = [i \in 1 .. Len(s) |-> s[i]]
  BY SeqFields
<1>2. s \in [1 .. Len(s) -> ToSet(s)]
  BY <1>1
<1> QED
  BY <1>1, <1>2, FunctionIsSeq DEF IsList

\* A function from 1 .. n is a list.
LEMMA ListOf ==
  ASSUME NEW n \in Nat, NEW f, f = [i \in 1 .. n |-> f[i]]
  PROVE  IsList(f) /\ Len(f) = n /\ DOMAIN f = 1 .. n /\ ToSet(f) = {f[i] : i \in 1 .. n}
<1> DEFINE S == {f[i] : i \in 1 .. n}
<1>1. f \in [1 .. n -> S]
  OBVIOUS
<1> HIDE DEF S
<1>2. f \in Seq(S) /\ Len(f) = n /\ DOMAIN f = 1 .. n
  BY <1>1, FunctionIsSeq
<1>3. IsList(f)
  BY <1>2, SeqIsList
<1> QED
  BY <1>2, <1>3, ListFields

\* The elements of a list satisfy what they satisfy at each place.
LEMMA EmptyList == IsList(<<>>) /\ Len(<<>>) = 0 /\ ToSet(<<>>) = {} /\ DOMAIN <<>> = {}
<1>1. <<>> \in Seq({}) /\ Len(<<>>) = 0 /\ DOMAIN <<>> = {}
  OBVIOUS
<1>2. ToSet(<<>>) = {}
  BY <1>1 DEF ToSet
<1> QED
  BY <1>1, <1>2, SeqIsList

\* Lists with the same elements at the same places are equal.
LEMMA ListsEqual ==
  ASSUME NEW a, IsList(a), NEW b, IsList(b), Len(a) = Len(b), \A i \in 1 .. Len(a) : a[i] = b[i]
  PROVE  a = b
<1>1. a = [i \in 1 .. Len(a) |-> a[i]] /\ b = [i \in 1 .. Len(b) |-> b[i]]
  BY ListFields
<1> QED
  BY <1>1

\* One more element at the end.
LEMMA AppendList ==
  ASSUME NEW s, IsList(s), NEW x
  PROVE  /\ IsList(Append(s, x)) /\ Len(Append(s, x)) = Len(s) + 1
         /\ \A i \in 1 .. Len(s) : Append(s, x)[i] = s[i]
         /\ Append(s, x)[Len(s) + 1] = x
<1> DEFINE S == ToSet(s) \cup {x}
<1>1. s \in Seq(ToSet(s))
  BY DEF IsList
<1>2. s \in Seq(S) /\ x \in S
  BY <1>1
<1> HIDE DEF S
<1>3. /\ Append(s, x) \in Seq(S) /\ Len(Append(s, x)) = Len(s) + 1
      /\ \A i \in 1 .. Len(s) : Append(s, x)[i] = s[i]
      /\ Append(s, x)[Len(s) + 1] = x
  BY <1>2, AppendProperties
<1> QED
  BY <1>3, SeqIsList

\* One list behind the other.
LEMMA JoinList ==
  ASSUME NEW a, IsList(a), NEW b, IsList(b)
  PROVE  /\ IsList(a \o b) /\ Len(a \o b) = Len(a) + Len(b)
         /\ \A i \in 1 .. Len(a) : (a \o b)[i] = a[i]
         /\ \A i \in Len(a) + 1 .. Len(a) + Len(b) : (a \o b)[i] = b[i - Len(a)]
         /\ ToSet(a \o b) = ToSet(a) \cup ToSet(b)
<1> DEFINE S == ToSet(a) \cup ToSet(b)
<1>1. a \in Seq(ToSet(a)) /\ b \in Seq(ToSet(b))
  BY DEF IsList
<1>2. a \in Seq(S) /\ b \in Seq(S)
  BY <1>1
<1>3. Len(a) \in Nat /\ Len(b) \in Nat
  BY ListFields
<1>4. ToSet(a) = {a[i] : i \in 1 .. Len(a)}
  BY ListFields
<1>5. ToSet(b) = {b[i] : i \in 1 .. Len(b)}
  BY ListFields
<1> HIDE DEF S
<1>6. /\ a \o b \in Seq(S) /\ Len(a \o b) = Len(a) + Len(b)
      /\ \A i \in 1 .. Len(a) : (a \o b)[i] = a[i]
      /\ \A i \in Len(a) + 1 .. Len(a) + Len(b) : (a \o b)[i] = b[i - Len(a)]
  <2>1. a \o b \in Seq(S) /\ Len(a \o b) = Len(a) + Len(b)
    BY <1>2
  <2>2. \A i \in 1 .. Len(a) : (a \o b)[i] = a[i]
    BY <1>2
  <2>3. \A i \in Len(a) + 1 .. Len(a) + Len(b) : (a \o b)[i] = b[i - Len(a)]
    BY <1>2, <1>3
  <2> QED
    BY <2>1, <2>2, <2>3
<1>7. ToSet(a \o b) = {(a \o b)[i] : i \in 1 .. Len(a) + Len(b)}
  BY <1>6, SeqFields
<1>8. ToSet(a) \cup ToSet(b) \subseteq ToSet(a \o b)
  <2>1. ASSUME NEW i \in 1 .. Len(a) PROVE a[i] \in ToSet(a \o b)
    <3>1. i \in 1 .. Len(a) + Len(b)
      BY <1>3
    <3> QED
      BY <1>6, <1>7, <3>1
  <2>2. ASSUME NEW i \in 1 .. Len(b) PROVE b[i] \in ToSet(a \o b)
    <3>1. Len(a) + i \in Len(a) + 1 .. Len(a) + Len(b) /\ Len(a) + i \in 1 .. Len(a) + Len(b)
          /\ (Len(a) + i) - Len(a) = i
      BY <1>3
    <3>2. (a \o b)[Len(a) + i] = b[i]
      BY <1>6, <3>1
    <3> QED
      BY <1>7, <3>1, <3>2
  <2> QED
    BY <1>4, <1>5, <2>1, <2>2
<1>9. ToSet(a \o b) \subseteq ToSet(a) \cup ToSet(b)
  <2> SUFFICES ASSUME NEW i \in 1 .. Len(a) + Len(b) PROVE (a \o b)[i] \in ToSet(a) \cup ToSet(b)
    BY <1>7
  <2>1. CASE i \in 1 .. Len(a)
    BY <1>4, <1>6, <2>1
  <2>2. CASE i \in Len(a) + 1 .. Len(a) + Len(b)
    <3>1. i - Len(a) \in 1 .. Len(b)
      BY <1>3, <2>2
    <3> QED
      BY <1>5, <1>6, <2>2, <3>1
  <2> QED
    BY <1>3, <2>1, <2>2
<1>10. IsList(a \o b)
  BY <1>6, SeqIsList
<1> QED
  BY <1>6, <1>8, <1>9, <1>10

\* Flattening a list of lists leaves a list of their elements.
LEMMA FlattenList ==
  ASSUME NEW seqs, IsList(seqs), \A i \in 1 .. Len(seqs) : IsList(seqs[i])
  PROVE  /\ IsList(FlattenSeq(seqs))
         /\ ToSet(FlattenSeq(seqs)) = UNION {ToSet(seqs[i]) : i \in 1 .. Len(seqs)}
<1> DEFINE S == UNION {ToSet(seqs[i]) : i \in 1 .. Len(seqs)}
           n == Len(seqs)
<1>1. n \in Nat /\ seqs = [i \in 1 .. n |-> seqs[i]]
  BY ListFields
<1>2. CASE n = 0
  <2>1. seqs = <<>>
    BY <1>1, <1>2, EmptyList, ListsEqual
  <2>2. S = {}
    BY <1>2
  <2> HIDE DEF S
  <2>3. IsList(<<>>) /\ ToSet(<<>>) = {}
    BY EmptyList
  <2> QED
    BY <2>1, <2>2, <2>3, FlattenNothing DEF S
<1>3. CASE n # 0
  <2>1. \A i \in 1 .. n : seqs[i] \in Seq(S)
    <3> SUFFICES ASSUME NEW i \in 1 .. n PROVE seqs[i] \in Seq(S)
      OBVIOUS
    <3>1. seqs[i] \in Seq(ToSet(seqs[i])) /\ ToSet(seqs[i]) \subseteq S
      BY DEF IsList
    <3> QED
      BY <3>1
  <2> HIDE DEF S
  <2>2. seqs \in Seq(Seq(S))
    <3>1. seqs \in [1 .. n -> Seq(S)]
      BY <1>1, <2>1
    <3> HIDE DEF n
    <3> QED
      BY <1>1, <3>1, FunctionIsSeq
  <2>3. PICK f \in [1 .. n -> Seq(S)] : Flatten(seqs, f) /\ FlattenSeq(seqs) = f[n]
    BY <1>3, <2>2, FlattenRecursion
  <2>4. f[1] = seqs[1] /\ \A i \in 1 .. n - 1 : f[i + 1] = f[i] \o seqs[i + 1]
    BY <1>1, <1>3, <2>3, FlattenUnfolds
  <2> DEFINE Upto(k) == UNION {ToSet(seqs[i]) : i \in 1 .. k}
             T == {k \in 0 .. n : k # 0 => ToSet(f[k]) = Upto(k)}
  <2>5. 0 \in T
    BY <1>1
  <2>6. ASSUME NEW k \in 0 .. n - 1, k \in T PROVE k + 1 \in T
    <3>1. k + 1 \in 0 .. n /\ k + 1 \in 1 .. n
      BY <1>1
    <3>2. CASE k = 0
      <4>1. Upto(1) = ToSet(seqs[1])
        <5>1. 1 .. 1 = {1}
          OBVIOUS
        <5> QED
          BY <5>1
      <4> HIDE DEF Upto
      <4> QED
        BY <2>4, <3>1, <3>2, <4>1
    <3>3. CASE k # 0
      <4>1. k \in 1 .. n - 1 /\ k \in 1 .. n
        BY <1>1, <3>3
      <4>2. ToSet(f[k]) = Upto(k)
        BY <2>6, <3>3
      <4>3. Upto(k + 1) = Upto(k) \cup ToSet(seqs[k + 1])
        <5>1. 1 .. k + 1 = (1 .. k) \cup {k + 1}
          BY <4>1, <1>1
        <5> QED
          BY <5>1
      <4> HIDE DEF Upto
      <4>4. f[k + 1] = f[k] \o seqs[k + 1]
        BY <2>4, <4>1
      <4>5. f[k] \in Seq(S) /\ seqs[k + 1] \in Seq(S)
        BY <2>1, <2>3, <3>1, <4>1
      <4>6. IsList(f[k]) /\ IsList(seqs[k + 1])
        BY <4>5, SeqIsList
      <4>7. ToSet(f[k] \o seqs[k + 1]) = ToSet(f[k]) \cup ToSet(seqs[k + 1])
        BY <4>6, JoinList
      <4>8. ToSet(f[k + 1]) = Upto(k + 1)
        BY <4>2, <4>3, <4>4, <4>7
      <4> QED
        BY <3>1, <4>8
    <3> QED
      BY <3>2, <3>3
  <2>7. 0 .. n \subseteq T
    <3> HIDE DEF T, n
    <3> QED
      BY <1>1, <2>5, <2>6, UpTo
  <2>8. ToSet(f[n]) = Upto(n)
    <3> HIDE DEF Upto
    <3>1. n \in T
      BY <1>1, <2>7
    <3> QED
      BY <1>3, <3>1
  <2>9. f[n] \in Seq(S)
    BY <1>1, <1>3, <2>3
  <2>10. IsList(f[n])
    BY <2>9, SeqIsList
  <2> QED
    BY <2>3, <2>8, <2>10
<1> QED
  BY <1>2, <1>3

\* Only keeps the elements of a set.
LEMMA OnlyDoes ==
  ASSUME NEW seq, IsList(seq), NEW keep
  PROVE  IsList(Only(seq, keep)) /\ ToSet(Only(seq, keep)) = ToSet(seq) \cap keep
<1> DEFINE op(r, x) == IF x \in keep THEN Append(r, x) ELSE r
           all == {Replay(LAMBDA r, x : IF x \in k THEN Append(r, x) ELSE r, <<>>, seq) : k \in {keep}}
           n == Len(seq)
<1>1. all = {Replay(op, <<>>, seq)}
  BY DEF Replay
<1>2. Only(seq, keep) = The(all)
  BY DEF Only
<1>3. Only(seq, keep) = Replay(op, <<>>, seq)
  <2> HIDE DEF all, op
  <2> QED
    BY <1>1, <1>2, TheOne
<1> HIDE DEF all
<1>4. n \in Nat /\ ToSet(seq) = {seq[i] : i \in 1 .. n}
  BY ListFields
<1>5. Replays(op, <<>>, seq, Replay(op, <<>>, seq))
  <2> HIDE DEF op
  <2> QED
    BY <1>4, ReplayUnfolds
<1>6. PICK f : /\ f[0] = <<>> /\ f[n] = Only(seq, keep)
               /\ \A i \in 0 .. n - 1 : f[i + 1] = op(f[i], seq[i + 1])
  <2> HIDE DEF op
  <2> QED
    BY <1>3, <1>5 DEF Replays
<1> DEFINE First(k) == {seq[i] : i \in 1 .. k}
           T == {k \in 0 .. n : IsList(f[k]) /\ ToSet(f[k]) = First(k) \cap keep}
<1>7. 0 \in T
  <2>1. First(0) = {}
    OBVIOUS
  <2> HIDE DEF First
  <2> QED
    BY <1>4, <1>6, <2>1, EmptyList
<1>8. ASSUME NEW k \in 0 .. n - 1, k \in T PROVE k + 1 \in T
  <2>1. k + 1 \in 0 .. n /\ k \in 0 .. n
    BY <1>4
  <2>2. First(k + 1) = First(k) \cup {seq[k + 1]}
    <3>1. 1 .. k + 1 = (1 .. k) \cup {k + 1}
      BY <1>4
    <3> QED
      BY <3>1
  <2> HIDE DEF First
  <2>3. IsList(f[k]) /\ ToSet(f[k]) = First(k) \cap keep
    BY <1>8
  <2>4. CASE seq[k + 1] \in keep
    <3>1. f[k + 1] = Append(f[k], seq[k + 1])
      BY <1>6, <2>4
    <3>2. /\ IsList(f[k + 1]) /\ Len(f[k + 1]) = Len(f[k]) + 1 /\ f[k + 1][Len(f[k]) + 1] = seq[k + 1]
          /\ \A i \in 1 .. Len(f[k]) : f[k + 1][i] = f[k][i]
      BY <2>3, <3>1, AppendList
    <3>3. Len(f[k]) \in Nat /\ ToSet(f[k]) = {f[k][i] : i \in 1 .. Len(f[k])}
      BY <2>3, ListFields
    <3>4. ToSet(f[k + 1]) = {f[k + 1][i] : i \in 1 .. Len(f[k]) + 1}
      BY <3>2, ListFields
    <3>5. 1 .. Len(f[k]) + 1 = (1 .. Len(f[k])) \cup {Len(f[k]) + 1}
      BY <3>3
    <3>6. ToSet(f[k + 1]) = ToSet(f[k]) \cup {seq[k + 1]}
      <4> DEFINE m == Len(f[k])
                 old == f[k]
                 new == f[k + 1]
      <4>1. new[m + 1] = seq[k + 1] /\ \A i \in 1 .. m : new[i] = old[i]
        BY <3>2
      <4>2. ToSet(old) = {old[i] : i \in 1 .. m} /\ ToSet(new) = {new[i] : i \in 1 .. m + 1}
        BY <3>3, <3>4
      <4>3. 1 .. m + 1 = (1 .. m) \cup {m + 1}
        BY <3>5
      <4> HIDE DEF m, old, new
      <4>4. ToSet(new) = ToSet(old) \cup {seq[k + 1]}
        BY <4>1, <4>2, <4>3
      <4> QED
        BY <4>4 DEF old, new
    <3> QED
      BY <2>1, <2>2, <2>3, <2>4, <3>2, <3>6
  <2>5. CASE seq[k + 1] \notin keep
    BY <1>6, <2>1, <2>2, <2>3, <2>5
  <2> QED
    BY <2>4, <2>5
<1>9. 0 .. n \subseteq T
  <2> HIDE DEF T, n
  <2> QED
    BY <1>4, <1>7, <1>8, UpTo
<1>10. First(n) = ToSet(seq)
  BY <1>4
<1> HIDE DEF First, op
<1>11. n \in T
  BY <1>4, <1>9
<1> QED
  BY <1>6, <1>10, <1>11

-----------------------------------------------------------------------------
(* One entry put into a list, and the same entries put into it again        *)

\* What a writer of a flag does with an entry.
Put(flag, list, item) == IF flag \in Appended THEN AppendOnce(list, item) ELSE Upsert(list, item)

\* What it makes of an entry that is there.
Placed(flag, old, item) == IF flag \notin Appended /\ old.key = item.key THEN item ELSE old

\* A list that others' entries were added to: what was there keeps its key and
\* its place, and nothing comes under a key that was there.
Extends(a, b) ==
  /\ IsList(a) /\ IsList(b) /\ Len(a) <= Len(b)
  /\ \A i \in 1 .. Len(a) : b[i].key = a[i].key
  /\ \A i \in 1 .. Len(a) : \A j \in Len(a) + 1 .. Len(b) : b[j].key # a[i].key

\* A list extends itself.
LEMMA ExtendsItself ==
  ASSUME NEW a, IsList(a)
  PROVE  Extends(a, a)
<1>1. Len(a) \in Nat
  BY ListFields
<1> QED
  BY <1>1 DEF Extends

\* What extends an extension extends the list.
LEMMA ExtendsOn ==
  ASSUME NEW a, NEW b, NEW c, Extends(a, b), Extends(b, c)
  PROVE  Extends(a, c)
<1>1. Len(a) \in Nat /\ Len(b) \in Nat /\ Len(c) \in Nat /\ Len(a) <= Len(b) /\ Len(b) <= Len(c)
  <2>1. IsList(a) /\ IsList(b) /\ IsList(c)
    BY DEF Extends
  <2> QED
    BY <2>1, ListFields DEF Extends
<1>2. \A i \in 1 .. Len(a) : c[i].key = a[i].key /\ b[i].key = a[i].key
  BY <1>1 DEF Extends
<1>3. ASSUME NEW i \in 1 .. Len(a), NEW j \in Len(a) + 1 .. Len(c)
      PROVE  c[j].key # a[i].key
  <2>1. CASE j \in Len(a) + 1 .. Len(b)
    <3>1. c[j].key = b[j].key /\ b[j].key # a[i].key
      BY <1>1, <2>1 DEF Extends
    <3> QED
      BY <3>1
  <2>2. CASE j \in Len(b) + 1 .. Len(c)
    <3>1. i \in 1 .. Len(b) /\ c[j].key # b[i].key
      BY <1>1, <2>2 DEF Extends
    <3> QED
      BY <1>2, <3>1
  <2> QED
    BY <1>1, <2>1, <2>2
<1> QED
  BY <1>1, <1>2, <1>3 DEF Extends

\* What a put leaves where the key is there, place by place.
LEMMA PutThere ==
  ASSUME NEW flag, NEW list, IsList(list), NEW item, HasKey(list, item.key),
         NEW new, new = Put(flag, list, item)
  PROVE  /\ IsList(new) /\ Len(new) = Len(list)
         /\ \A i \in 1 .. Len(list) :
              new[i] = Placed(flag, list[i], item)
<1>1. /\ Len(list) \in Nat /\ DOMAIN list = 1 .. Len(list)
  BY ListFields
<1>2. CASE flag \in Appended
  <2>1. new = list
    BY <1>2 DEF Put, AppendOnce
  <2>2. \A i \in 1 .. Len(list) : Placed(flag, list[i], item) = list[i]
    BY <1>2 DEF Placed
  <2> QED
    BY <2>1, <2>2
<1>3. CASE flag \notin Appended
  <2>1. new = [i \in 1 .. Len(list) |-> IF list[i].key = item.key THEN item ELSE list[i]]
    BY <1>1, <1>3 DEF Put, Upsert
  <2>2. new = [i \in 1 .. Len(list) |-> new[i]]
    BY <2>1
  <2>3. IsList(new) /\ Len(new) = Len(list)
    BY <1>1, <2>2, ListOf
  <2>4. \A i \in 1 .. Len(list) : new[i] = Placed(flag, list[i], item)
    BY <1>3, <2>1 DEF Placed
  <2> QED
    BY <2>3, <2>4
<1> QED
  BY <1>2, <1>3

\* And where it is not.
LEMMA PutNew ==
  ASSUME NEW flag, NEW list, IsList(list), NEW item, ~ HasKey(list, item.key),
         NEW new, new = Put(flag, list, item)
  PROVE  /\ IsList(new) /\ Len(new) = Len(list) + 1 /\ new[Len(list) + 1] = item
         /\ \A i \in 1 .. Len(list) : new[i] = list[i]
<1>1. new = Append(list, item)
  BY DEF Put, AppendOnce, Upsert
<1> QED
  BY <1>1, AppendList

\* A put extends the list.
LEMMA PutExtends ==
  ASSUME NEW flag, NEW list, IsList(list), NEW item
  PROVE  Extends(list, Put(flag, list, item)) /\ HasKey(Put(flag, list, item), item.key)
<1>1. Len(list) \in Nat /\ DOMAIN list = 1 .. Len(list)
  BY ListFields
<1>2. PICK new : new = Put(flag, list, item)
  OBVIOUS
<1>3. IsList(new) /\ Len(new) \in Nat /\ DOMAIN new = 1 .. Len(new)
  <2>1. IsList(new)
    BY <1>2, PutThere, PutNew
  <2> QED
    BY <2>1, ListFields
<1>4. CASE HasKey(list, item.key)
  <2>1. /\ Len(new) = Len(list)
        /\ \A i \in 1 .. Len(list) : new[i].key = list[i].key
    <3>1. /\ Len(new) = Len(list)
          /\ \A i \in 1 .. Len(list) :
               new[i] = Placed(flag, list[i], item)
      BY <1>2, <1>4, PutThere
    <3> QED
      BY <3>1 DEF Placed
  <2>2. HasKey(new, item.key)
    BY <1>1, <1>3, <1>4, <2>1 DEF HasKey
  <2> QED
    BY <1>1, <1>2, <1>3, <2>1, <2>2 DEF Extends
<1>5. CASE ~ HasKey(list, item.key)
  <2>1. /\ Len(new) = Len(list) + 1 /\ new[Len(list) + 1] = item
        /\ \A i \in 1 .. Len(list) : new[i] = list[i]
    BY <1>2, <1>5, PutNew
  <2>2. \A i \in 1 .. Len(list) : list[i].key # item.key
    BY <1>1, <1>5 DEF HasKey
  <2>3. HasKey(new, item.key)
    BY <1>1, <1>3, <2>1 DEF HasKey
  <2> QED
    BY <1>1, <1>2, <1>3, <2>1, <2>2, <2>3 DEF Extends
<1> QED
  BY <1>4, <1>5

\* A key that is in a list is in what extends it.
LEMMA KeysStay ==
  ASSUME NEW a, NEW b, Extends(a, b), NEW key, HasKey(a, key)
  PROVE  HasKey(b, key)
<1>1. IsList(a) /\ IsList(b)
  BY DEF Extends
<1>2. Len(a) \in Nat /\ Len(b) \in Nat /\ DOMAIN a = 1 .. Len(a) /\ DOMAIN b = 1 .. Len(b)
  BY <1>1, ListFields
<1> QED
  BY <1>2 DEF Extends, HasKey

\* The list of a first run, that of its repetition, and that the first run came
\* to in the end: the repetition has the keys of the end, and at each place what
\* the first run had there or what it had there in the end.
Behind(now, again, end) ==
  /\ Extends(now, end) /\ IsList(again) /\ Len(again) = Len(end)
  /\ \A i \in 1 .. Len(end) : again[i].key = end[i].key
  /\ \A i \in 1 .. Len(now) : again[i] \in {now[i], end[i]}
  /\ \A i \in Len(now) + 1 .. Len(end) : again[i] = end[i]

\* The repetition begins behind the first run.
LEMMA BehindAtFirst ==
  ASSUME NEW now, NEW end, Extends(now, end)
  PROVE  Behind(now, end, end)
BY DEF Behind, Extends

\* Where the first run ends the repetition has its list.
LEMMA BehindAtLast ==
  ASSUME NEW again, NEW end, Behind(end, again, end)
  PROVE  again = end
<1>1. IsList(again) /\ IsList(end) /\ Len(again) = Len(end)
  BY DEF Behind, Extends
<1>2. \A i \in 1 .. Len(again) : again[i] = end[i]
  BY <1>1 DEF Behind
<1> QED
  BY <1>1, <1>2, ListsEqual

\* It stays behind when both put the same entry.
LEMMA PutStaysBehind ==
  ASSUME NEW now, NEW again, NEW end, Behind(now, again, end), NEW flag, NEW item,
         Extends(Put(flag, now, item), end)
  PROVE  Behind(Put(flag, now, item), Put(flag, again, item), end)
<1>1. PICK now1 : now1 = Put(flag, now, item)
  OBVIOUS
<1>2. PICK again1 : again1 = Put(flag, again, item)
  OBVIOUS
<1>3. IsList(now) /\ IsList(again) /\ IsList(end) /\ Extends(now1, end) /\ IsList(now1)
  BY <1>1 DEF Behind, Extends
<1>4. /\ Len(now) \in Nat /\ Len(now1) \in Nat /\ Len(end) \in Nat /\ Len(again) = Len(end)
      /\ DOMAIN now = 1 .. Len(now) /\ DOMAIN now1 = 1 .. Len(now1) /\ DOMAIN end = 1 .. Len(end)
      /\ DOMAIN again = 1 .. Len(end) /\ Len(now) <= Len(end) /\ Len(now1) <= Len(end)
  BY <1>3, ListFields DEF Behind, Extends
<1>5. HasKey(now1, item.key)
  BY <1>1, <1>3, PutExtends
<1>6. HasKey(end, item.key)
  BY <1>3, <1>5, KeysStay
<1>7. HasKey(again, item.key)
  BY <1>4, <1>6 DEF HasKey, Behind
<1>8. /\ IsList(again1) /\ Len(again1) = Len(end)
      /\ \A i \in 1 .. Len(end) :
           again1[i] = Placed(flag, again[i], item)
  BY <1>2, <1>3, <1>4, <1>7, PutThere
<1>9. \A i \in 1 .. Len(end) : again1[i].key = end[i].key
  BY <1>8 DEF Behind, Placed
<1>10. \A i \in 1 .. Len(now) : again[i].key = now[i].key /\ end[i].key = now[i].key
  BY <1>4 DEF Behind, Extends
<1>11. CASE HasKey(now, item.key)
  <2>1. /\ Len(now1) = Len(now)
        /\ \A i \in 1 .. Len(now) :
             now1[i] = Placed(flag, now[i], item)
    BY <1>1, <1>3, <1>11, PutThere
  <2>2. \A i \in 1 .. Len(now1) : again1[i] \in {now1[i], end[i]}
    <3> SUFFICES ASSUME NEW i \in 1 .. Len(now) PROVE again1[i] \in {now1[i], end[i]}
      BY <2>1
    <3>1. again[i] \in {now[i], end[i]} /\ i \in 1 .. Len(end) /\ again[i].key = now[i].key
      BY <1>4, <1>10 DEF Behind
    <3>2. CASE flag \notin Appended /\ now[i].key = item.key
      BY <1>8, <2>1, <3>1, <3>2 DEF Placed
    <3>3. CASE ~ (flag \notin Appended /\ now[i].key = item.key)
      BY <1>8, <2>1, <3>1, <3>3 DEF Placed
    <3> QED
      BY <3>2, <3>3
  <2>3. \A i \in Len(now1) + 1 .. Len(end) : again1[i] = end[i]
    <3> SUFFICES ASSUME NEW i \in Len(now) + 1 .. Len(end) PROVE again1[i] = end[i]
      BY <2>1
    <3>1. PICK k \in 1 .. Len(now) : now[k].key = item.key
      BY <1>4, <1>11 DEF HasKey
    <3>2. end[i].key # item.key /\ again[i] = end[i] /\ i \in 1 .. Len(end)
      BY <1>4, <3>1 DEF Behind, Extends
    <3> QED
      BY <1>8, <3>2 DEF Placed
  <2> QED
    BY <1>1, <1>2, <1>3, <1>8, <1>9, <2>2, <2>3 DEF Behind
<1>12. CASE ~ HasKey(now, item.key)
  <2>1. /\ Len(now1) = Len(now) + 1 /\ now1[Len(now) + 1] = item
        /\ \A i \in 1 .. Len(now) : now1[i] = now[i]
    BY <1>1, <1>3, <1>12, PutNew
  <2>2. \A i \in 1 .. Len(now) : now[i].key # item.key
    BY <1>4, <1>12 DEF HasKey
  <2>3. ASSUME NEW i \in 1 .. Len(now1) PROVE again1[i] \in {now1[i], end[i]}
    <3>1. CASE i \in 1 .. Len(now)
      <4>1. again[i] \in {now[i], end[i]} /\ again[i].key # item.key /\ i \in 1 .. Len(end)
        BY <1>4, <1>10, <2>2, <3>1 DEF Behind
      <4> QED
        BY <1>8, <2>1, <3>1, <4>1 DEF Placed
    <3>2. CASE i = Len(now) + 1
      <4>1. i \in Len(now) + 1 .. Len(end) /\ i \in 1 .. Len(end)
        BY <1>4, <3>2
      <4>2. again[i] = end[i]
        BY <4>1 DEF Behind
      <4>3. again1[i] \in {item, again[i]}
        BY <1>8, <4>1 DEF Placed
      <4> QED
        BY <2>1, <3>2, <4>2, <4>3
    <3> QED
      BY <1>4, <2>1, <3>1, <3>2
  <2>4. ASSUME NEW i \in Len(now1) + 1 .. Len(end) PROVE again1[i] = end[i]
    <3>1. i \in Len(now) + 1 .. Len(end) /\ i \in 1 .. Len(end) /\ Len(now) + 1 \in 1 .. Len(now1)
      BY <1>4, <2>1
    <3>2. end[i].key # now1[Len(now) + 1].key
      BY <1>3, <3>1 DEF Extends
    <3>3. again[i] = end[i]
      BY <3>1 DEF Behind
    <3> QED
      BY <1>8, <2>1, <3>1, <3>2, <3>3 DEF Placed
  <2> QED
    BY <1>1, <1>2, <1>3, <1>8, <1>9, <2>3, <2>4 DEF Behind
<1> QED
  BY <1>11, <1>12

-----------------------------------------------------------------------------
(* One write, and the same write again                                      *)

\* A write's entries put into a list.
PutAll(flag, list, items) == Replay(LAMBDA l, i : Put(flag, l, i), list, items)

PutRun(flag, items, f) == \A i \in 0 .. Len(items) - 1 : f[i + 1] = Put(flag, f[i], items[i + 1])

\* They are put one after the other.
LEMMA PutAllUnfolds ==
  ASSUME NEW flag, NEW list, NEW items, IsList(items)
  PROVE  \E f : PutRun(flag, items, f) /\ f[0] = list /\ f[Len(items)] = PutAll(flag, list, items)
<1> DEFINE op(l, i) == Put(flag, l, i)
<1>1. PutAll(flag, list, items) = Replay(op, list, items)
  BY DEF PutAll
<1>2. Len(items) \in Nat
  BY ListFields
<1>3. Replays(op, list, items, Replay(op, list, items))
  <2> HIDE DEF op
  <2> QED
    BY <1>2, ReplayUnfolds
<1>4. PICK f : /\ f[0] = list /\ f[Len(items)] = PutAll(flag, list, items)
               /\ \A i \in 0 .. Len(items) - 1 : f[i + 1] = op(f[i], items[i + 1])
  <2> HIDE DEF op
  <2> QED
    BY <1>1, <1>3 DEF Replays
<1> QED
  BY <1>4 DEF PutRun

\* Each list of a run extends the first.
LEMMA PutRunGrows ==
  ASSUME NEW flag, NEW items, IsList(items), NEW f, PutRun(flag, items, f), IsList(f[0])
  PROVE  \A i \in 0 .. Len(items) : IsList(f[i]) /\ Extends(f[0], f[i])
<1> DEFINE n == Len(items)
           T == {i \in 0 .. n : IsList(f[i]) /\ Extends(f[0], f[i])}
<1>1. n \in Nat
  BY ListFields
<1>2. 0 \in T
  BY <1>1, ExtendsItself
<1>3. ASSUME NEW i \in 0 .. n - 1, i \in T PROVE i + 1 \in T
  <2>1. f[i + 1] = Put(flag, f[i], items[i + 1])
    BY DEF PutRun
  <2>2. Extends(f[i], f[i + 1])
    BY <1>3, <2>1, PutExtends
  <2>3. Extends(f[0], f[i])
    BY <1>3
  <2>4. Extends(f[0], f[i + 1])
    BY <2>2, <2>3, ExtendsOn
  <2>5. IsList(f[i + 1])
    BY <2>2 DEF Extends
  <2> QED
    BY <1>1, <2>4, <2>5
<1>4. 0 .. n \subseteq T
  <2> HIDE DEF T, n
  <2> QED
    BY <1>1, <1>2, <1>3, UpTo
<1> QED
  BY <1>4

\* And the last extends each, which has the keys put so far.
LEMMA PutRunEnds ==
  ASSUME NEW flag, NEW items, IsList(items), NEW f, PutRun(flag, items, f), IsList(f[0])
  PROVE  /\ \A i \in 0 .. Len(items) : Extends(f[i], f[Len(items)])
         /\ \A i \in 1 .. Len(items) : HasKey(f[Len(items)], items[i].key)
<1> DEFINE n == Len(items)
           T == {k \in 0 .. n : Extends(f[n - k], f[n])}
<1>1. n \in Nat
  BY ListFields
<1>2. \A i \in 0 .. n : IsList(f[i])
  BY PutRunGrows
<1>3. \A i \in 0 .. n - 1 : Extends(f[i], f[i + 1]) /\ HasKey(f[i + 1], items[i + 1].key)
  <2> SUFFICES ASSUME NEW i \in 0 .. n - 1
               PROVE  Extends(f[i], f[i + 1]) /\ HasKey(f[i + 1], items[i + 1].key)
    OBVIOUS
  <2>1. f[i + 1] = Put(flag, f[i], items[i + 1])
    BY DEF PutRun
  <2>2. IsList(f[i])
    BY <1>1, <1>2
  <2> QED
    BY <2>1, <2>2, PutExtends
<1>4. 0 \in T
  <2>1. n - 0 = n /\ n \in 0 .. n
    BY <1>1
  <2> QED
    BY <1>1, <1>2, <2>1, ExtendsItself
<1>5. ASSUME NEW k \in 0 .. n - 1, k \in T PROVE k + 1 \in T
  <2>1. n - (k + 1) \in 0 .. n - 1 /\ (n - (k + 1)) + 1 = n - k /\ k + 1 \in 0 .. n
    BY <1>1
  <2>2. Extends(f[n - (k + 1)], f[n - k])
    BY <1>3, <2>1
  <2>3. Extends(f[n - k], f[n])
    BY <1>5
  <2> HIDE DEF n
  <2> QED
    BY <2>1, <2>2, <2>3, ExtendsOn
<1>6. 0 .. n \subseteq T
  <2> HIDE DEF T, n
  <2> QED
    BY <1>1, <1>4, <1>5, UpTo
<1>7. ASSUME NEW i \in 0 .. n PROVE Extends(f[i], f[n])
  <2>1. n - i \in 0 .. n /\ n - (n - i) = i
    BY <1>1
  <2>2. n - i \in T
    BY <1>6, <2>1
  <2> HIDE DEF n
  <2> QED
    BY <2>1, <2>2
<1>8. ASSUME NEW i \in 1 .. n PROVE HasKey(f[n], items[i].key)
  <2>1. i - 1 \in 0 .. n - 1 /\ (i - 1) + 1 = i /\ i \in 0 .. n
    BY <1>1
  <2>2. HasKey(f[i], items[i].key)
    BY <1>3, <2>1
  <2>3. Extends(f[i], f[n])
    BY <1>7, <2>1
  <2> HIDE DEF n
  <2> QED
    BY <2>2, <2>3, KeysStay
<1> QED
  BY <1>7, <1>8

\* A write extends a list and leaves its keys there.
LEMMA PutAllExtends ==
  ASSUME NEW flag, NEW list, IsList(list), NEW items, IsList(items)
  PROVE  /\ Extends(list, PutAll(flag, list, items)) /\ IsList(PutAll(flag, list, items))
         /\ \A i \in 1 .. Len(items) : HasKey(PutAll(flag, list, items), items[i].key)
<1>1. PICK f : PutRun(flag, items, f) /\ f[0] = list /\ f[Len(items)] = PutAll(flag, list, items)
  BY PutAllUnfolds
<1>2. Len(items) \in 0 .. Len(items)
  <2>1. Len(items) \in Nat
    BY ListFields
  <2> QED
    BY <2>1
<1> QED
  BY <1>1, <1>2, PutRunGrows, PutRunEnds

\* The same write in the repetition stays behind.
LEMMA PutAllStaysBehind ==
  ASSUME NEW now, NEW again, NEW end, Behind(now, again, end), NEW flag, NEW items, IsList(items),
         Extends(PutAll(flag, now, items), end)
  PROVE  Behind(PutAll(flag, now, items), PutAll(flag, again, items), end)
<1> DEFINE n == Len(items)
<1>1. PICK f : PutRun(flag, items, f) /\ f[0] = now /\ f[n] = PutAll(flag, now, items)
  BY PutAllUnfolds
<1>2. PICK g : PutRun(flag, items, g) /\ g[0] = again /\ g[n] = PutAll(flag, again, items)
  BY PutAllUnfolds
<1>3. n \in Nat
  BY ListFields
<1> DEFINE T == {i \in 0 .. n : Behind(f[i], g[i], end)}
<1>4. 0 \in T
  BY <1>1, <1>2, <1>3
<1>5. ASSUME NEW i \in 0 .. n - 1, i \in T PROVE i + 1 \in T
  <2>1. f[i + 1] = Put(flag, f[i], items[i + 1]) /\ g[i + 1] = Put(flag, g[i], items[i + 1])
    BY <1>1, <1>2 DEF PutRun
  <2>2. i + 1 \in 0 .. n /\ IsList(f[0])
    BY <1>1, <1>3 DEF Behind, Extends
  <2>3. Extends(f[i + 1], f[n])
    BY <1>1, <2>2, PutRunEnds
  <2>4. Extends(f[i + 1], end)
    <3> HIDE DEF n
    <3> QED
      BY <1>1, <2>3, ExtendsOn
  <2>5. Behind(f[i + 1], g[i + 1], end)
    BY <1>5, <2>1, <2>4, PutStaysBehind
  <2> QED
    BY <2>2, <2>5
<1>6. 0 .. n \subseteq T
  <2> HIDE DEF T, n
  <2> QED
    BY <1>3, <1>4, <1>5, UpTo
<1>7. n \in T
  BY <1>3, <1>6
<1> QED
  BY <1>1, <1>2, <1>7

-----------------------------------------------------------------------------
(* The record, and a call made again                                        *)

IsRecord(r) == r = [f \in Fields |-> r[f]] /\ \A f \in Fields : IsList(r[f])

\* What the writers are asked to write.
Writable(w) == Field(w.flag) \in Fields /\ IsList(w.items)

\* A write changes its field.
LEMMA WrittenIs ==
  ASSUME NEW r, IsRecord(r), NEW w, Writable(w)
  PROVE  /\ IsRecord(Written(r, w))
         /\ Written(r, w)[Field(w.flag)] = PutAll(w.flag, r[Field(w.flag)], w.items)
         /\ \A f \in Fields : f # Field(w.flag) => Written(r, w)[f] = r[f]
<1> DEFINE F   == Field(w.flag)
           new == PutAll(w.flag, r[F], w.items)
<1>1. Written(r, w) = [r EXCEPT ![F] = new]
  BY DEF Written, PutAll, Put
<1>2. r = [f \in Fields |-> r[f]] /\ F \in Fields
  BY DEF IsRecord, Writable
<1>3. IsList(new)
  <2>1. IsList(r[F]) /\ IsList(w.items)
    BY <1>2 DEF IsRecord, Writable
  <2> QED
    BY <2>1, PutAllExtends
<1> HIDE DEF F, new
<1>4. PICK now : now = Written(r, w)
  OBVIOUS
<1>5. now = [f \in Fields |-> now[f]] /\ now[F] = new /\ \A f \in Fields : f # F => now[f] = r[f]
  BY <1>1, <1>2, <1>4
<1>6. \A f \in Fields : IsList(now[f])
  BY <1>3, <1>5 DEF IsRecord
<1> QED
  BY <1>4, <1>5, <1>6 DEF IsRecord, F, new

RecordExtends(a, b) == \A f \in Fields : Extends(a[f], b[f])

RecordBehind(now, again, end) ==
  IsRecord(again) /\ IsRecord(end) /\ \A f \in Fields : Behind(now[f], again[f], end[f])

\* A write extends the record.
LEMMA WrittenExtends ==
  ASSUME NEW r, IsRecord(r), NEW w, Writable(w)
  PROVE  RecordExtends(r, Written(r, w))
<1> SUFFICES ASSUME NEW f \in Fields PROVE Extends(r[f], Written(r, w)[f])
  BY DEF RecordExtends
<1>1. IsList(r[f]) /\ IsList(w.items)
  BY DEF IsRecord, Writable
<1>2. CASE f = Field(w.flag)
  <2>1. Written(r, w)[f] = PutAll(w.flag, r[f], w.items)
    BY <1>2, WrittenIs
  <2> QED
    BY <1>1, <2>1, PutAllExtends
<1>3. CASE f # Field(w.flag)
  <2>1. Written(r, w)[f] = r[f]
    BY <1>3, WrittenIs
  <2> QED
    BY <1>1, <2>1, ExtendsItself
<1> QED
  BY <1>2, <1>3

\* The repetition's write stays behind.
LEMMA WrittenStaysBehind ==
  ASSUME NEW now, IsRecord(now), NEW again, NEW end, RecordBehind(now, again, end), NEW w, Writable(w),
         RecordExtends(Written(now, w), end)
  PROVE  RecordBehind(Written(now, w), Written(again, w), end)
<1>1. IsRecord(again) /\ IsRecord(end) /\ IsRecord(Written(again, w))
  BY WrittenIs DEF RecordBehind
<1>2. ASSUME NEW f \in Fields PROVE Behind(Written(now, w)[f], Written(again, w)[f], end[f])
  <2>1. Behind(now[f], again[f], end[f]) /\ Extends(Written(now, w)[f], end[f]) /\ IsList(w.items)
    BY DEF RecordBehind, RecordExtends, Writable
  <2>2. CASE f = Field(w.flag)
    <3>1. /\ Written(now, w)[f] = PutAll(w.flag, now[f], w.items)
          /\ Written(again, w)[f] = PutAll(w.flag, again[f], w.items)
      BY <1>1, <2>2, WrittenIs
    <3> QED
      BY <2>1, <3>1, PutAllStaysBehind
  <2>3. CASE f # Field(w.flag)
    <3>1. Written(now, w)[f] = now[f] /\ Written(again, w)[f] = again[f]
      BY <1>1, <2>3, WrittenIs
    <3> QED
      BY <2>1, <3>1
  <2> QED
    BY <2>2, <2>3
<1> QED
  BY <1>1, <1>2 DEF RecordBehind

WriteRun(steps, f) == \A i \in 0 .. Len(steps) - 1 : f[i + 1] = Written(f[i], steps[i + 1])

AreWritable(steps) == IsList(steps) /\ \A i \in 1 .. Len(steps) : Writable(steps[i])

\* The steps of a call are applied one after the other.
LEMMA AppliedUnfolds ==
  ASSUME NEW r, NEW steps, IsList(steps)
  PROVE  \E f : WriteRun(steps, f) /\ f[0] = r /\ f[Len(steps)] = Applied(r, steps)
<1>1. Applied(r, steps) = Replay(Written, r, steps) /\ Len(steps) \in Nat
  BY ListFields DEF Applied
<1>2. Replays(Written, r, steps, Replay(Written, r, steps))
  BY <1>1, ReplayUnfolds
<1> QED
  BY <1>1, <1>2 DEF Replays, WriteRun

\* Each record of a run is one.
LEMMA WriteRunRecords ==
  ASSUME NEW steps, AreWritable(steps), NEW f, WriteRun(steps, f), IsRecord(f[0])
  PROVE  \A i \in 0 .. Len(steps) : IsRecord(f[i])
<1> DEFINE n == Len(steps)
           T == {i \in 0 .. n : IsRecord(f[i])}
<1>1. n \in Nat
  BY ListFields DEF AreWritable
<1>2. 0 \in T
  BY <1>1
<1>3. ASSUME NEW i \in 0 .. n - 1, i \in T PROVE i + 1 \in T
  <2>1. i + 1 \in 1 .. n /\ i + 1 \in 0 .. n
    BY <1>1
  <2>2. f[i + 1] = Written(f[i], steps[i + 1]) /\ Writable(steps[i + 1])
    BY <2>1 DEF WriteRun, AreWritable
  <2> QED
    BY <1>3, <2>1, <2>2, WrittenIs
<1>4. 0 .. n \subseteq T
  <2> HIDE DEF T, n
  <2> QED
    BY <1>1, <1>2, <1>3, UpTo
<1> QED
  BY <1>4

\* And each is extended by the later ones.
LEMMA WriteRunExtends ==
  ASSUME NEW steps, AreWritable(steps), NEW f, WriteRun(steps, f), IsRecord(f[0]),
         NEW k \in 0 .. Len(steps)
  PROVE  \A i \in 0 .. k : RecordExtends(f[i], f[k])
<1> DEFINE n == Len(steps)
           T == {m \in 0 .. k : RecordExtends(f[k - m], f[k])}
<1>1. n \in Nat /\ k \in Nat
  BY ListFields DEF AreWritable
<1>2. \A i \in 0 .. n : IsRecord(f[i])
  BY WriteRunRecords
<1>3. \A i \in 0 .. n - 1 : RecordExtends(f[i], f[i + 1])
  <2> SUFFICES ASSUME NEW i \in 0 .. n - 1 PROVE RecordExtends(f[i], f[i + 1])
    OBVIOUS
  <2>1. i \in 0 .. n /\ i + 1 \in 1 .. n
    BY <1>1
  <2>2. f[i + 1] = Written(f[i], steps[i + 1]) /\ Writable(steps[i + 1]) /\ IsRecord(f[i])
    BY <1>2, <2>1 DEF WriteRun, AreWritable
  <2> QED
    BY <2>2, WrittenExtends
<1>4. 0 \in T
  <2>1. k - 0 = k /\ k \in 0 .. n
    BY <1>1
  <2>2. \A x \in Fields : Extends(f[k][x], f[k][x])
    BY <1>2, <2>1, ExtendsItself DEF IsRecord
  <2> QED
    BY <1>1, <2>1, <2>2 DEF RecordExtends
<1>5. ASSUME NEW m \in 0 .. k - 1, m \in T PROVE m + 1 \in T
  <2>1. k - (m + 1) \in 0 .. n - 1 /\ (k - (m + 1)) + 1 = k - m /\ m + 1 \in 0 .. k
    BY <1>1
  <2>2. RecordExtends(f[k - (m + 1)], f[k - m]) /\ RecordExtends(f[k - m], f[k])
    <3>1. RecordExtends(f[k - (m + 1)], f[(k - (m + 1)) + 1])
      BY <1>3, <2>1
    <3> QED
      BY <1>5, <2>1, <3>1
  <2>3. RecordExtends(f[k - (m + 1)], f[k])
    <3> SUFFICES ASSUME NEW x \in Fields PROVE Extends(f[k - (m + 1)][x], f[k][x])
      BY DEF RecordExtends
    <3>1. Extends(f[k - (m + 1)][x], f[k - m][x]) /\ Extends(f[k - m][x], f[k][x])
      BY <2>2 DEF RecordExtends
    <3> QED
      BY <3>1, ExtendsOn
  <2> QED
    BY <2>1, <2>3
<1>6. 0 .. k \subseteq T
  <2> HIDE DEF T, n
  <2> QED
    BY <1>1, <1>4, <1>5, UpTo
<1>7. ASSUME NEW i \in 0 .. k PROVE RecordExtends(f[i], f[k])
  <2>1. k - i \in 0 .. k /\ k - (k - i) = i
    BY <1>1
  <2>2. k - i \in T
    BY <1>6, <2>1
  <2> QED
    BY <2>1, <2>2
<1> QED
  BY <1>7

\* The first steps of a call are the run's first records.
LEMMA AppliedPrefix ==
  ASSUME NEW steps, IsList(steps), NEW f, WriteRun(steps, f), NEW k \in 0 .. Len(steps)
  PROVE  Applied(f[0], SubSeq(steps, 1, k)) = f[k]
<1> DEFINE first == SubSeq(steps, 1, k)
<1>1. Len(steps) \in Nat /\ k \in Nat /\ steps \in Seq(ToSet(steps))
  BY ListFields DEF IsList
<1>2. first \in Seq(ToSet(steps)) /\ Len(first) = k /\ \A i \in 1 .. k : first[i] = steps[i]
  <2>1. 1 \in 1 .. Len(steps) + 1 /\ k \in 0 .. Len(steps)
    BY <1>1
  <2>2. /\ first \in Seq(ToSet(steps)) /\ Len(first) = IF 1 <= k THEN k - 1 + 1 ELSE 0
        /\ \A i \in 1 .. k - 1 + 1 : first[i] = steps[1 + i - 1]
    BY <1>1, <2>1, SubSeqProperties
  <2>3. k - 1 + 1 = k /\ \A i \in 1 .. k : 1 + i - 1 = i
    BY <1>1
  <2> HIDE DEF first
  <2>4. Len(first) = k
    BY <1>1, <2>2, <2>3
  <2>5. \A i \in 1 .. k : first[i] = steps[i]
    BY <2>2, <2>3
  <2> QED
    BY <2>2, <2>4, <2>5
<1> HIDE DEF first
<1>3. IsList(first)
  BY <1>2, SeqIsList
<1>4. PICK h : WriteRun(first, h) /\ h[0] = f[0] /\ h[k] = Applied(f[0], first)
  BY <1>2, <1>3, AppliedUnfolds
<1> DEFINE T == {i \in 0 .. k : h[i] = f[i]}
<1>5. 0 \in T
  BY <1>1, <1>4
<1>6. ASSUME NEW i \in 0 .. k - 1, i \in T PROVE i + 1 \in T
  <2>1. i + 1 \in 1 .. k /\ i \in 0 .. Len(steps) - 1 /\ i + 1 \in 0 .. k
    BY <1>1
  <2>2. h[i + 1] = Written(h[i], first[i + 1]) /\ f[i + 1] = Written(f[i], steps[i + 1])
    BY <1>2, <1>4, <2>1 DEF WriteRun
  <2> QED
    BY <1>2, <1>6, <2>1, <2>2
<1>7. 0 .. k \subseteq T
  <2> HIDE DEF T
  <2> QED
    BY <1>1, <1>5, <1>6, UpTo
<1>8. h[k] = f[k]
  BY <1>1, <1>7
<1> QED
  BY <1>4, <1>8 DEF first

\* Whatever a call has written before it was cut short, made again it leaves
\* the record an undisturbed one leaves.
LEMMA RepeatLeavesTheSame ==
  ASSUME NEW r, IsRecord(r), NEW steps, AreWritable(steps), NEW k \in 0 .. Len(steps)
  PROVE  Applied(Applied(r, SubSeq(steps, 1, k)), steps) = Applied(r, steps)
<1> DEFINE n == Len(steps)
<1>1. IsList(steps) /\ n \in Nat /\ k \in Nat /\ k \in 0 .. n
  BY ListFields DEF AreWritable
<1>2. PICK f : WriteRun(steps, f) /\ f[0] = r /\ f[n] = Applied(r, steps)
  BY <1>1, AppliedUnfolds
<1>3. Applied(r, SubSeq(steps, 1, k)) = f[k]
  BY <1>1, <1>2, AppliedPrefix
<1>4. PICK g : WriteRun(steps, g) /\ g[0] = f[k] /\ g[n] = Applied(f[k], steps)
  BY <1>1, AppliedUnfolds
<1>5. \A i \in 0 .. n : IsRecord(f[i])
  BY <1>2, WriteRunRecords
<1>6. \A i \in 0 .. k : RecordExtends(f[i], f[k])
  BY <1>2, WriteRunExtends
<1> DEFINE T == {i \in 0 .. k : RecordBehind(f[i], g[i], f[k])}
<1>7. 0 \in T
  <2>1. RecordExtends(f[0], f[k]) /\ IsRecord(f[k])
    BY <1>1, <1>5, <1>6
  <2>2. \A x \in Fields : Behind(f[0][x], f[k][x], f[k][x])
    BY <2>1, BehindAtFirst DEF RecordExtends
  <2> QED
    BY <1>1, <1>4, <2>1, <2>2 DEF RecordBehind
<1>8. ASSUME NEW i \in 0 .. k - 1, i \in T PROVE i + 1 \in T
  <2>1. i + 1 \in 1 .. n /\ i \in 0 .. n - 1 /\ i \in 0 .. n /\ i + 1 \in 0 .. k
    BY <1>1
  <2>2. /\ f[i + 1] = Written(f[i], steps[i + 1]) /\ g[i + 1] = Written(g[i], steps[i + 1])
        /\ Writable(steps[i + 1])
    BY <1>2, <1>4, <2>1 DEF WriteRun, AreWritable
  <2>3. RecordExtends(f[i + 1], f[k]) /\ IsRecord(f[i]) /\ RecordBehind(f[i], g[i], f[k])
    BY <1>5, <1>6, <1>8, <2>1
  <2>4. RecordBehind(f[i + 1], g[i + 1], f[k])
    BY <2>2, <2>3, WrittenStaysBehind
  <2> QED
    BY <2>1, <2>4
<1>9. 0 .. k \subseteq T
  <2> HIDE DEF T, n
  <2> QED
    BY <1>1, <1>7, <1>8, UpTo
<1>10. g[k] = f[k]
  <2>1. RecordBehind(f[k], g[k], f[k])
    BY <1>1, <1>9
  <2>2. \A x \in Fields : g[k][x] = f[k][x]
    BY <2>1, BehindAtLast DEF RecordBehind
  <2>3. g[k] = [x \in Fields |-> g[k][x]] /\ f[k] = [x \in Fields |-> f[k][x]]
    BY <2>1 DEF RecordBehind, IsRecord
  <2> QED
    BY <2>2, <2>3
<1> DEFINE U == {m \in 0 .. n - k : g[k + m] = f[k + m]}
<1>11. 0 \in U
  BY <1>1, <1>10
<1>12. ASSUME NEW m \in 0 .. (n - k) - 1, m \in U PROVE m + 1 \in U
  <2>1. k + m \in 0 .. n - 1 /\ (k + m) + 1 = k + (m + 1) /\ m + 1 \in 0 .. n - k
    BY <1>1
  <2>2. f[(k + m) + 1] = Written(f[k + m], steps[(k + m) + 1])
    BY <1>2, <2>1 DEF WriteRun
  <2>3. g[(k + m) + 1] = Written(g[k + m], steps[(k + m) + 1])
    BY <1>4, <2>1 DEF WriteRun
  <2>4. g[k + (m + 1)] = f[k + (m + 1)]
    BY <1>12, <2>1, <2>2, <2>3
  <2> QED
    BY <2>1, <2>4
<1>13. 0 .. n - k \subseteq U
  <2>1. n - k \in Nat
    BY <1>1
  <2> HIDE DEF U, n
  <2> QED
    BY <2>1, <1>11, <1>12, UpTo
<1>14. g[n] = f[n]
  <2>1. n - k \in 0 .. n - k /\ k + (n - k) = n
    BY <1>1
  <2>2. n - k \in U
    BY <1>13, <2>1
  <2> HIDE DEF n
  <2> QED
    BY <2>1, <2>2
<1> QED
  BY <1>2, <1>3, <1>4, <1>14

-----------------------------------------------------------------------------
(* The publishes of a call                                                  *)

CaptureFlags == {"classification", "set", "decisions", "verified", "verify_runs", "concerns",
                 "expectations", "context", "coverage", "step_summary", "living_specs",
                 "living_spec_skips", "last_action"}
PlanFlags == {"plan_check", "plan_blocks"}

IsWrite(w) ==
  /\ w = [flag |-> w.flag, batched |-> w.batched, items |-> w.items]
  /\ w.flag \in CaptureFlags \cup PlanFlags \cup {"finish"} /\ w.batched \in BOOLEAN
  /\ IsList(w.items)

AreWrites(ws) == IsList(ws) /\ \A w \in ToSet(ws) : IsWrite(w)

\* Each flag writes a field of the record.
LEMMA WriteFits ==
  ASSUME NEW w, IsWrite(w)
  PROVE  Writable(w)
BY DEF IsWrite, CaptureFlags, PlanFlags, Writable, Field, Fields

\* The flags of a call and of a batch, in their orders.
LEMMA FlagLists ==
  /\ IsList(Flags) /\ ToSet(Flags) \subseteq CaptureFlags \cup {"batch"} /\ "coverage" \in ToSet(Flags)
  /\ IsList(BatchKeys) /\ ToSet(BatchKeys) \subseteq CaptureFlags
<1>1. Flags \in Seq(CaptureFlags \cup {"batch"}) /\ Flags[10] = "coverage" /\ Len(Flags) = 13
  BY DEF Flags, CaptureFlags
<1>2. BatchKeys \in Seq(CaptureFlags)
  BY DEF BatchKeys, CaptureFlags
<1>3. 10 \in DOMAIN Flags
  BY <1>1
<1>4. "coverage" \in ToSet(Flags)
  BY <1>1, <1>3 DEF ToSet
<1> QED
  BY <1>1, <1>2, <1>4, SeqIsList, SeqFields

\* The publishes of a flag: one for each that was asked for.
LEMMA WritesAre ==
  ASSUME NEW flag \in CaptureFlags \cup {"finish"}, NEW publishes, ArePublishes(publishes),
         NEW batched \in BOOLEAN, NEW ws, ws = Writes(flag, publishes, batched)
  PROVE  /\ AreWrites(ws) /\ \A w \in ToSet(ws) : w.flag = flag /\ w.batched = batched
         /\ flag # "set" /\ <<>> \in ToSet(publishes) => \E w \in ToSet(ws) : w.items = <<>>
<1> DEFINE n == Len(publishes)
           carried(i) == IF flag = "set" THEN SetItems(publishes[i]) ELSE publishes[i]
<1>1. IsList(publishes) /\ \A i \in DOMAIN publishes : IsList(publishes[i])
  BY DEF ArePublishes, IsList
<1>2. n \in Nat /\ DOMAIN publishes = 1 .. n /\ ToSet(publishes) = {publishes[i] : i \in 1 .. n}
  BY <1>1, ListFields
<1>3. \A i \in 1 .. n : IsList(carried(i))
  <2> SUFFICES ASSUME NEW i \in 1 .. n PROVE IsList(carried(i))
    OBVIOUS
  <2>1. IsList(publishes[i])
    BY <1>1, <1>2
  <2>2. IsList(SetItems(publishes[i]))
    BY <2>1, OnlyDoes DEF SetItems
  <2> QED
    BY <2>1, <2>2
<1>4. ws = [i \in 1 .. n |-> [flag |-> flag, batched |-> batched, items |-> carried(i)]]
  BY <1>2 DEF Writes
<1>5. flag # "set" => \A i \in 1 .. n : carried(i) = publishes[i]
  OBVIOUS
<1> HIDE DEF carried, n
<1>6. ws = [i \in 1 .. n |-> ws[i]]
  BY <1>4
<1>7. IsList(ws) /\ ToSet(ws) = {ws[i] : i \in 1 .. n}
  BY <1>2, <1>6, ListOf
<1>8. ASSUME NEW i \in 1 .. n
      PROVE  IsWrite(ws[i]) /\ ws[i].flag = flag /\ ws[i].batched = batched /\ ws[i].items = carried(i)
  <2>1. ws[i] = [flag |-> flag, batched |-> batched, items |-> carried(i)]
    BY <1>4
  <2> QED
    BY <1>3, <2>1 DEF IsWrite
<1>9. flag # "set" /\ <<>> \in ToSet(publishes) => \E w \in ToSet(ws) : w.items = <<>>
  BY <1>2, <1>5, <1>7, <1>8
<1> QED
  BY <1>7, <1>8, <1>9 DEF AreWrites

\* The keys of a batch or the flags of a call that are given.
LEMMA GivenAre ==
  ASSUME NEW order, IsList(order), NEW call, NEW given, given = Given(order, call)
  PROVE  /\ IsList(given) /\ Len(given) \in Nat /\ DOMAIN given = 1 .. Len(given)
         /\ ToSet(given) = ToSet(order) \cap DOMAIN call
         /\ ToSet(given) = {given[i] : i \in 1 .. Len(given)}
<1>1. IsList(given) /\ ToSet(given) = ToSet(order) \cap DOMAIN call
  BY OnlyDoes DEF Given
<1> QED
  BY <1>1, ListFields

\* The publishes of flags that each have some, in their order.
LEMMA FlattenedWrites ==
  ASSUME NEW n \in Nat, NEW parts, parts = [i \in 1 .. n |-> parts[i]], \A i \in 1 .. n : AreWrites(parts[i])
  PROVE  /\ AreWrites(FlattenSeq(parts))
         /\ ToSet(FlattenSeq(parts)) = UNION {ToSet(parts[i]) : i \in 1 .. n}
<1>1. IsList(parts) /\ Len(parts) = n
  BY ListOf
<1>2. \A i \in 1 .. Len(parts) : IsList(parts[i])
  BY <1>1 DEF AreWrites
<1>3. IsList(FlattenSeq(parts)) /\ ToSet(FlattenSeq(parts)) = UNION {ToSet(parts[i]) : i \in 1 .. n}
  BY <1>1, <1>2, FlattenList
<1> QED
  BY <1>3 DEF AreWrites

\* The publishes of a batch.
LEMMA BatchWritesAre ==
  ASSUME NEW batch, \A key \in DOMAIN batch : ArePublishes(batch[key]),
         NEW ws, ws = BatchWrites(batch)
  PROVE  AreWrites(ws) /\ \A w \in ToSet(ws) : w.flag \in CaptureFlags
<1>1. PICK keys : keys = Given(BatchKeys, batch)
  OBVIOUS
<1> DEFINE n == Len(keys)
           parts == [i \in 1 .. n |-> Writes(keys[i], batch[keys[i]], TRUE)]
<1>2. /\ n \in Nat /\ DOMAIN keys = 1 .. n
      /\ \A i \in 1 .. n : keys[i] \in CaptureFlags /\ keys[i] \in DOMAIN batch
  BY <1>1, FlagLists, GivenAre
<1>3. ws = FlattenSeq(parts)
  BY <1>1, <1>2 DEF BatchWrites
<1>4. ASSUME NEW i \in 1 .. n
      PROVE  AreWrites(parts[i]) /\ \A w \in ToSet(parts[i]) : w.flag \in CaptureFlags
  <2>1. keys[i] \in CaptureFlags /\ ArePublishes(batch[keys[i]])
    BY <1>2
  <2>2. PICK b \in BOOLEAN : parts[i] = Writes(keys[i], batch[keys[i]], b)
    OBVIOUS
  <2> HIDE DEF parts
  <2>3. AreWrites(parts[i]) /\ \A w \in ToSet(parts[i]) : w.flag = keys[i]
    BY <2>1, <2>2, WritesAre
  <2> QED
    BY <2>1, <2>3
<1>5. parts = [i \in 1 .. n |-> parts[i]]
  OBVIOUS
<1> HIDE DEF parts, n
<1>6. AreWrites(ws) /\ ToSet(ws) = UNION {ToSet(parts[i]) : i \in 1 .. n}
  BY <1>2, <1>3, <1>4, <1>5, FlattenedWrites
<1> QED
  BY <1>4, <1>6

\* The publishes of the capture flags; a coverage without slots is one that
\* carries nothing.
LEMMA CaptureWritesAre ==
  ASSUME NEW call, IsCall(call), ~ Invalid(call), NEW ws, ws = CaptureWrites(call)
  PROVE  /\ AreWrites(ws) /\ \A w \in ToSet(ws) : w.flag \in CaptureFlags
         /\ "coverage" \in DOMAIN call /\ <<>> \in ToSet(call["coverage"]) =>
              \E w \in ToSet(ws) : w.flag = "coverage" /\ w.batched = FALSE /\ w.items = <<>>
<1>1. PICK flags : flags = Given(Flags, call)
  OBVIOUS
<1> DEFINE n == Len(flags)
           parts == [i \in 1 .. n |-> IF flags[i] = "batch" THEN BatchWrites(call.batch)
                                      ELSE Writes(flags[i], call[flags[i]], FALSE)]
<1>2. /\ n \in Nat /\ DOMAIN flags = 1 .. n /\ ToSet(flags) = {flags[i] : i \in 1 .. n}
      /\ ToSet(flags) = ToSet(Flags) \cap DOMAIN call
  BY <1>1, FlagLists, GivenAre
<1>3. \A i \in 1 .. n : flags[i] \in CaptureFlags \cup {"batch"} /\ flags[i] \in DOMAIN call
  BY <1>2, FlagLists
<1>4. ws = FlattenSeq(parts)
  BY <1>1, <1>2 DEF CaptureWrites
<1>5. ASSUME NEW i \in 1 .. n, flags[i] # "batch"
      PROVE  /\ AreWrites(parts[i])
             /\ \A w \in ToSet(parts[i]) : w.flag = flags[i] /\ w.flag \in CaptureFlags /\ w.batched = FALSE
             /\ flags[i] = "coverage" /\ <<>> \in ToSet(call["coverage"]) =>
                  \E w \in ToSet(parts[i]) : w.items = <<>>
  <2>1. flags[i] \in CaptureFlags /\ flags[i] \in DOMAIN call
    BY <1>3, <1>5
  <2>2. flags[i] # "plan_check"
    BY <2>1 DEF CaptureFlags
  <2>3. ArePublishes(call[flags[i]])
    <3>1. CASE flags[i] = "classification"
      BY <2>1, <3>1 DEF IsCall, Invalid
    <3>2. CASE flags[i] # "classification"
      BY <1>5, <2>1, <2>2, <3>2 DEF IsCall
    <3> QED
      BY <3>1, <3>2
  <2>4. PICK b \in BOOLEAN : b = FALSE /\ parts[i] = Writes(flags[i], call[flags[i]], b)
    BY <1>5
  <2> HIDE DEF parts
  <2>5. AreWrites(parts[i]) /\ \A w \in ToSet(parts[i]) : w.flag = flags[i] /\ w.batched = b
    BY <2>1, <2>3, <2>4, WritesAre
  <2>6. flags[i] # "set" /\ <<>> \in ToSet(call[flags[i]]) => \E w \in ToSet(parts[i]) : w.items = <<>>
    BY <2>1, <2>3, <2>4, WritesAre
  <2> QED
    BY <2>1, <2>4, <2>5, <2>6
<1>6. ASSUME NEW i \in 1 .. n, flags[i] = "batch"
      PROVE  AreWrites(parts[i]) /\ \A w \in ToSet(parts[i]) : w.flag \in CaptureFlags
  <2>1. "batch" \in DOMAIN call /\ call.batch # Malformed
    BY <1>3, <1>6 DEF Invalid
  <2>2. \A key \in DOMAIN call.batch : ArePublishes(call.batch[key])
    BY <2>1 DEF IsCall
  <2>3. parts[i] = BatchWrites(call.batch)
    BY <1>6
  <2> HIDE DEF parts
  <2> QED
    BY <2>2, <2>3, BatchWritesAre
<1>7. parts = [i \in 1 .. n |-> parts[i]]
  OBVIOUS
<1> HIDE DEF parts, n
<1>8. AreWrites(ws) /\ ToSet(ws) = UNION {ToSet(parts[i]) : i \in 1 .. n}
  BY <1>2, <1>4, <1>5, <1>6, <1>7, FlattenedWrites
<1>9. \A w \in ToSet(ws) : w.flag \in CaptureFlags
  BY <1>5, <1>6, <1>8
<1>10. ASSUME "coverage" \in DOMAIN call, <<>> \in ToSet(call["coverage"])
       PROVE  \E w \in ToSet(ws) : w.flag = "coverage" /\ w.batched = FALSE /\ w.items = <<>>
  <2>1. PICK i \in 1 .. n : flags[i] = "coverage"
    BY <1>2, <1>10, FlagLists
  <2>2. PICK w \in ToSet(parts[i]) : w.items = <<>>
    BY <1>5, <1>10, <2>1
  <2>3. w.flag = "coverage" /\ w.batched = FALSE
    BY <1>5, <2>1
  <2> QED
    BY <1>8, <2>2, <2>3
<1> QED
  BY <1>8, <1>9, <1>10

\* The publishes of the plan check.
LEMMA PlanCheckWritesAre ==
  ASSUME NEW plan, NEW ws, ws = PlanCheckWrites(plan)
  PROVE  AreWrites(ws) /\ \A w \in ToSet(ws) : w.flag \in PlanFlags
<1>1. PICK x, y : /\ x = [flag |-> "plan_check", batched |-> FALSE,
                         items |-> <<[key |-> "plan blocks check out", value |-> plan.held]>>]
                  /\ y = [flag |-> "plan_blocks", batched |-> FALSE,
                         items |-> <<[key |-> "planBlocks", value |-> plan.held]>>]
  OBVIOUS
<1>2. \A e : IsList(<<e>>)
  <2> SUFFICES ASSUME NEW e PROVE IsList(<<e>>)
    OBVIOUS
  <2>1. <<e>> \in Seq({e})
    OBVIOUS
  <2> QED
    BY <2>1, SeqIsList
<1>3. ws = <<x, y>> \/ ws = <<y>> \/ ws = <<>>
  BY <1>1 DEF PlanCheckWrites
<1>4. IsWrite(x) /\ x.flag \in PlanFlags
  BY <1>1, <1>2 DEF IsWrite, PlanFlags
<1>5. IsWrite(y) /\ y.flag \in PlanFlags
  BY <1>1, <1>2 DEF IsWrite, PlanFlags
<1>6. ws \in Seq({x, y})
  <2>1. <<x, y>> \in Seq({x, y})
    OBVIOUS
  <2>2. <<y>> \in Seq({x, y})
    OBVIOUS
  <2>3. <<>> \in Seq({x, y})
    OBVIOUS
  <2> QED
    BY <1>3, <2>1, <2>2, <2>3
<1>7. IsList(ws) /\ ToSet(ws) \subseteq {x, y}
  BY <1>6, SeqIsList, SeqFields
<1> QED
  BY <1>4, <1>5, <1>7 DEF AreWrites

\* The publishes of a call before the plan check, and those of the plan check,
\* which only a call makes that applies its lifecycle flag.
LEMMA AskedAre ==
  ASSUME NEW call, IsCall(call), ~ Invalid(call),
         NEW asked, asked = CaptureWrites(call) \o LifecycleWrites(call)
  PROVE  /\ AreWrites(asked)
         /\ \E k \in 0 .. Len(asked) : \A i \in 1 .. Len(asked) : asked[i].flag \in PlanFlags <=> i > k
         /\ \A w \in ToSet(asked) : w.flag \in PlanFlags => AppliesLifecycle(call)
         /\ "coverage" \in DOMAIN call /\ <<>> \in ToSet(call["coverage"]) =>
              \E w \in ToSet(asked) : w.flag = "coverage" /\ w.batched = FALSE /\ w.items = <<>>
<1>1. PICK c : c = CaptureWrites(call)
  OBVIOUS
<1>2. PICK l : l = LifecycleWrites(call)
  OBVIOUS
<1>3. AreWrites(c) /\ \A w \in ToSet(c) : w.flag \in CaptureFlags
  BY <1>1, CaptureWritesAre
<1>4. "coverage" \in DOMAIN call /\ <<>> \in ToSet(call["coverage"]) =>
        \E w \in ToSet(c) : w.flag = "coverage" /\ w.batched = FALSE /\ w.items = <<>>
  BY <1>1, CaptureWritesAre
<1>5. \E a, b : /\ l = a \o b /\ AreWrites(a) /\ AreWrites(b)
                /\ \A w \in ToSet(a) : w.flag = "finish"
                /\ \A w \in ToSet(b) : w.flag \in PlanFlags
                /\ ToSet(b) # {} => AppliesLifecycle(call)
  <2>1. AreWrites(<<>>) /\ ToSet(<<>>) = {}
    BY EmptyList DEF AreWrites
  <2>2. CASE ~ AppliesLifecycle(call)
    <3>1. l = <<>> \o <<>>
      BY <1>2, <2>2 DEF LifecycleWrites
    <3> QED
      BY <2>1, <3>1
  <2>3. CASE AppliesLifecycle(call)
    <3>1. PICK flag \in CaptureFlags \cup {"finish"}, no \in BOOLEAN : flag = "finish" /\ no = FALSE
      OBVIOUS
    <3>2. PICK a : a = Writes(flag, call["finish"], no)
      OBVIOUS
    <3>3. PICK b : b = IF "plan_check" \in DOMAIN call THEN PlanCheckWrites(call.plan_check) ELSE <<>>
      OBVIOUS
    <3>4. l = a \o b
      BY <1>2, <2>3, <3>1, <3>3, <3>2 DEF LifecycleWrites
    <3>5. ArePublishes(call["finish"])
      BY <2>3 DEF AppliesLifecycle, IsCall
    <3>6. AreWrites(a) /\ \A w \in ToSet(a) : w.flag = "finish"
      BY <3>1, <3>5, <3>2, WritesAre
    <3>7. AreWrites(b) /\ \A w \in ToSet(b) : w.flag \in PlanFlags
      BY <2>1, <3>3, PlanCheckWritesAre
    <3> QED
      BY <2>3, <3>4, <3>6, <3>7
  <2> QED
    BY <2>2, <2>3
<1>6. PICK a, b : /\ l = a \o b /\ AreWrites(a) /\ AreWrites(b)
                  /\ \A w \in ToSet(a) : w.flag = "finish"
                  /\ \A w \in ToSet(b) : w.flag \in PlanFlags
                  /\ ToSet(b) # {} => AppliesLifecycle(call)
  BY <1>5
<1>7. IsList(c) /\ IsList(a) /\ IsList(b)
  BY <1>3, <1>6 DEF AreWrites
<1>8. IsList(l) /\ ToSet(l) = ToSet(a) \cup ToSet(b)
  BY <1>6, <1>7, JoinList
<1>9. asked = c \o l /\ IsList(asked) /\ ToSet(asked) = ToSet(c) \cup ToSet(l) /\ Len(asked) = Len(c) + Len(l)
  BY <1>1, <1>2, <1>7, <1>8, JoinList
<1>10. "finish" \notin PlanFlags /\ CaptureFlags \cap PlanFlags = {} /\ "coverage" \notin PlanFlags
  BY DEF PlanFlags, CaptureFlags
<1>11. AreWrites(asked) /\ \A w \in ToSet(asked) : w.flag \in PlanFlags => AppliesLifecycle(call)
  BY <1>3, <1>6, <1>8, <1>9, <1>10 DEF AreWrites
<1>12. \E k \in 0 .. Len(asked) : \A i \in 1 .. Len(asked) : asked[i].flag \in PlanFlags <=> i > k
  <2>1. Len(c) \in Nat /\ Len(a) \in Nat /\ Len(b) \in Nat
    BY <1>7, ListFields
  <2>2. Len(l) = Len(a) + Len(b)
    BY <1>6, <1>7, JoinList
  <2> DEFINE k == Len(c) + Len(a)
  <2>3. k \in 0 .. Len(asked) /\ Len(asked) = k + Len(b)
    BY <1>9, <2>1, <2>2
  <2>4. ASSUME NEW i \in 1 .. Len(asked) PROVE asked[i].flag \in PlanFlags <=> i > k
    <3>1. CASE i \in 1 .. Len(c)
      <4>1. asked[i] = c[i] /\ c[i] \in ToSet(c) /\ ~ (i > k)
        <5>1. asked[i] = c[i]
          BY <1>7, <1>8, <1>9, <3>1, JoinList
        <5>2. c[i] \in ToSet(c)
          BY <1>7, <3>1, ListFields
        <5> QED
          BY <2>1, <3>1, <5>1, <5>2
      <4> QED
        BY <1>3, <1>10, <4>1
    <3>2. CASE i \in Len(c) + 1 .. Len(c) + Len(l)
      <4>1. asked[i] = l[i - Len(c)]
        BY <1>7, <1>8, <1>9, <3>2, JoinList
      <4>2. CASE i - Len(c) \in 1 .. Len(a)
        <5>1. l[i - Len(c)] = a[i - Len(c)]
          BY <1>6, <1>7, <4>2, JoinList
        <5>2. a[i - Len(c)] \in ToSet(a)
          BY <1>7, <4>2, ListFields
        <5>3. ~ (i > k)
          BY <2>1, <4>2
        <5> QED
          BY <1>6, <1>10, <4>1, <5>1, <5>2, <5>3
      <4>3. CASE i - Len(c) \in Len(a) + 1 .. Len(a) + Len(b)
        <5>1. l[i - Len(c)] = b[i - Len(c) - Len(a)]
          BY <1>6, <1>7, <4>3, JoinList
        <5>2. i - Len(c) - Len(a) \in 1 .. Len(b)
          BY <2>1, <4>3
        <5>3. b[i - Len(c) - Len(a)] \in ToSet(b)
          BY <1>7, <5>2, ListFields
        <5>4. i > k
          BY <2>1, <4>3
        <5> QED
          BY <1>6, <4>1, <5>1, <5>3, <5>4
      <4> QED
        BY <2>1, <2>2, <3>2, <4>2, <4>3
    <3> QED
      BY <1>9, <2>1, <2>2, <3>1, <3>2
  <2> HIDE DEF k
  <2> QED
    BY <2>3, <2>4
<1>13. "coverage" \in DOMAIN call /\ <<>> \in ToSet(call["coverage"]) =>
         \E w \in ToSet(asked) : w.flag = "coverage" /\ w.batched = FALSE /\ w.items = <<>>
  BY <1>4, <1>9
<1> QED
  BY <1>11, <1>12, <1>13

\* A write with its result in it.
LEMMA ResolvedIs ==
  ASSUME NEW w, IsWrite(w), NEW result, NEW r, r = Resolved(w, result)
  PROVE  /\ IsWrite(r) /\ r.flag = w.flag /\ r.batched = w.batched
         /\ r.items = <<>> <=> w.items = <<>>
         /\ w.flag # "verify_runs" \/ w.items = <<>> => r = w
<1>1. CASE w.flag # "verify_runs"
  BY <1>1 DEF Resolved
<1>2. CASE w.flag = "verify_runs"
  <2> DEFINE n == Len(w.items)
             new == [i \in 1 .. n |-> [w.items[i] EXCEPT !.value = result]]
  <2>1. n \in Nat /\ DOMAIN w.items = 1 .. n /\ IsList(w.items)
    BY ListFields DEF IsWrite
  <2>2. r = [w EXCEPT !.items = new]
    BY <1>2, <2>1 DEF Resolved
  <2>3. new = [i \in 1 .. n |-> new[i]]
    OBVIOUS
  <2> HIDE DEF new
  <2>4. IsList(new) /\ Len(new) = n
    BY <2>1, <2>3, ListOf
  <2>5. r = [flag |-> w.flag, batched |-> w.batched, items |-> new]
    BY <2>2 DEF IsWrite
  <2>6. r.flag = w.flag /\ r.batched = w.batched /\ r.items = new
    BY <2>5
  <2>7. new = <<>> <=> w.items = <<>>
    BY <2>1, <2>4, EmptyList, ListsEqual
  <2>8. IsWrite(r)
    BY <2>4, <2>5, <2>6 DEF IsWrite
  <2>9. w.items = <<>> => r = w
    BY <2>5, <2>7 DEF IsWrite
  <2> QED
    BY <1>2, <2>6, <2>7, <2>8, <2>9
<1> QED
  BY <1>1, <1>2

\* The publishes of a call, whatever its command comes out as.
LEMMA StepsAre ==
  ASSUME NEW call, IsCall(call), ~ Invalid(call), NEW result, NEW steps, steps = Steps(call, result)
  PROVE  /\ IsList(steps) /\ Len(steps) \in Nat /\ DOMAIN steps = 1 .. Len(steps)
         /\ \A n \in 1 .. Len(steps) : IsWrite(steps[n]) /\ Writable(steps[n])
         /\ \E k \in 0 .. Len(steps) : \A n \in 1 .. Len(steps) : steps[n].flag \in PlanFlags <=> n > k
         /\ \A n \in 1 .. Len(steps) : steps[n].flag \in PlanFlags => AppliesLifecycle(call)
         /\ "coverage" \in DOMAIN call /\ <<>> \in ToSet(call["coverage"]) =>
              \E n \in 1 .. Len(steps) :
                steps[n].flag = "coverage" /\ steps[n].batched = FALSE /\ steps[n].items = <<>>
<1>1. PICK asked : asked = CaptureWrites(call) \o LifecycleWrites(call)
  OBVIOUS
<1> DEFINE n == Len(asked)
<1>2. AreWrites(asked) /\ IsList(asked)
  BY <1>1, AskedAre DEF AreWrites
<1>3. n \in Nat /\ DOMAIN asked = 1 .. n /\ ToSet(asked) = {asked[i] : i \in 1 .. n}
  BY <1>2, ListFields
<1>4. steps = [i \in 1 .. n |-> Resolved(asked[i], result)]
  BY <1>1, <1>3 DEF Steps
<1>5. steps = [i \in 1 .. n |-> steps[i]]
  BY <1>4
<1>6. IsList(steps) /\ Len(steps) = n /\ DOMAIN steps = 1 .. n
  BY <1>3, <1>5, ListOf
<1>7. ASSUME NEW i \in 1 .. n
      PROVE  /\ IsWrite(steps[i]) /\ steps[i].flag = asked[i].flag
             /\ steps[i].batched = asked[i].batched /\ steps[i].items = <<>> <=> asked[i].items = <<>>
  <2>1. steps[i] = Resolved(asked[i], result) /\ IsWrite(asked[i])
    BY <1>2, <1>3, <1>4 DEF AreWrites
  <2> QED
    BY <2>1, ResolvedIs
<1>8. \E k \in 0 .. n : \A i \in 1 .. n : asked[i].flag \in PlanFlags <=> i > k
  BY <1>1, AskedAre
<1>9. \A w \in ToSet(asked) : w.flag \in PlanFlags => AppliesLifecycle(call)
  BY <1>1, AskedAre
<1>10. "coverage" \in DOMAIN call /\ <<>> \in ToSet(call["coverage"]) =>
         \E w \in ToSet(asked) : w.flag = "coverage" /\ w.batched = FALSE /\ w.items = <<>>
  BY <1>1, AskedAre
<1> HIDE DEF n
<1>11. \E k \in 0 .. n : \A i \in 1 .. n : steps[i].flag \in PlanFlags <=> i > k
  <2>1. PICK k \in 0 .. n : \A i \in 1 .. n : asked[i].flag \in PlanFlags <=> i > k
    BY <1>8
  <2> QED
    BY <1>7, <2>1
<1>12. \A i \in 1 .. n : steps[i].flag \in PlanFlags => AppliesLifecycle(call)
  BY <1>3, <1>7, <1>9
<1>13. "coverage" \in DOMAIN call /\ <<>> \in ToSet(call["coverage"]) =>
         \E i \in 1 .. n : steps[i].flag = "coverage" /\ steps[i].batched = FALSE /\ steps[i].items = <<>>
  BY <1>3, <1>7, <1>10
<1>14. \A i \in 1 .. n : Writable(steps[i])
  BY <1>7, WriteFits
<1> QED
  BY <1>3, <1>6, <1>7, <1>11, <1>12, <1>13, <1>14

\* Its result changes only the verification that carries it.
LEMMA ResultAside ==
  ASSUME NEW call, IsCall(call), ~ Invalid(call), NEW r, NEW q,
         NEW s, s = Steps(call, r), NEW t, t = Steps(call, q)
  PROVE  /\ Len(s) = Len(t)
         /\ \A n \in 1 .. Len(s) : s[n].flag # "verify_runs" \/ s[n].items = <<>> => t[n] = s[n]
<1>1. PICK asked : asked = CaptureWrites(call) \o LifecycleWrites(call)
  OBVIOUS
<1> DEFINE n == Len(asked)
<1>2. AreWrites(asked) /\ IsList(asked)
  BY <1>1, AskedAre DEF AreWrites
<1>3. n \in Nat /\ DOMAIN asked = 1 .. n /\ ToSet(asked) = {asked[i] : i \in 1 .. n}
  BY <1>2, ListFields
<1>4. s = [i \in 1 .. n |-> Resolved(asked[i], r)] /\ t = [i \in 1 .. n |-> Resolved(asked[i], q)]
  BY <1>1, <1>3 DEF Steps
<1>5. s = [i \in 1 .. n |-> s[i]] /\ t = [i \in 1 .. n |-> t[i]]
  BY <1>4
<1>6. Len(s) = n /\ Len(t) = n
  BY <1>3, <1>5, ListOf
<1>7. ASSUME NEW i \in 1 .. n, s[i].flag # "verify_runs" \/ s[i].items = <<>> PROVE t[i] = s[i]
  <2>1. s[i] = Resolved(asked[i], r) /\ t[i] = Resolved(asked[i], q) /\ IsWrite(asked[i])
    BY <1>2, <1>3, <1>4 DEF AreWrites
  <2>2. asked[i].flag # "verify_runs" \/ asked[i].items = <<>>
    <3>1. s[i].flag = asked[i].flag /\ (s[i].items = <<>> <=> asked[i].items = <<>>)
      BY <2>1, ResolvedIs
    <3> QED
      BY <1>7, <3>1
  <2>3. s[i] = asked[i]
    BY <2>1, <2>2, ResolvedIs
  <2>4. t[i] = asked[i]
    BY <2>1, <2>2, ResolvedIs
  <2> QED
    BY <2>3, <2>4
<1> QED
  BY <1>6, <1>7

-----------------------------------------------------------------------------
(* The run trace                                                            *)

\* A step of one caller.
Act(p) ==
  \/ Begin(p) \/ RunCommand(p) \/ Publish(p) \/ FailPublish(p) \/ EndWrites(p)
  \/ OpenTrace(p) \/ AppendLine(p) \/ FailTrace(p) \/ CheckCap(p) \/ ReplaceTrace(p)
  \/ Kill(p)

Phases == {"idle", "write", "trace", "append", "cap", "replace"}
Traces == [inode : Nat, truncated : Nat, lines : Seq(Lines)]

Jobs == [at : Phases, call : (UNION {Calls[p] : p \in Callers}) \cup {<<>>}, step : Nat, made : Nat,
         ok : BOOLEAN, result : Results \cup {None}, opened : Nat \cup {None},
         read : Traces \cup {None}]

TraceTypes ==
  /\ trace \in Traces
  /\ job \in [Callers -> Jobs]
  /\ \A p \in Callers :
       /\ job[p].at = "append" => job[p].opened \in 0 .. trace.inode
       /\ job[p].at = "replace" => job[p].read \in Traces

NeverCut == trace.truncated = 0 => trace.inode = 0

LineIsThere ==
  \A p \in Callers :
    trace.truncated = 0 /\ job[p].at \in {"cap", "replace"} => Line(p) \in ToSet(trace.lines)

CutsSomething ==
  \A p \in Callers : job[p].at = "replace" => Len(job[p].read.lines) > CapLines

TraceInv == TraceTypes /\ NeverCut /\ LineIsThere /\ CutsSomething /\ ExactIsComplete

-----------------------------------------------------------------------------

\* A call's line is one of the trace's.
LEMMA LineTyped ==
  ASSUME TraceTypes, NEW p \in Callers
  PROVE  Line(p) \in Lines
BY DEF TraceTypes, Jobs, Line, Lines

\* The idle job is one.
LEMMA IdleTyped == Idle \in Jobs
BY DEF Idle, Jobs, Phases

\* An appended line is in the trace, with those that were.
LEMMA AppendKeeps ==
  ASSUME NEW s \in Seq(Lines), NEW x \in Lines
  PROVE  /\ Append(s, x) \in Seq(Lines)
         /\ x \in ToSet(Append(s, x))
         /\ ToSet(s) \subseteq ToSet(Append(s, x))
<1>1. /\ Append(s, x) \in Seq(Lines) /\ Len(Append(s, x)) = Len(s) + 1
      /\ \A i \in 1 .. Len(s) : Append(s, x)[i] = s[i]
      /\ Append(s, x)[Len(s) + 1] = x
  BY AppendProperties
<1>2. Len(s) \in Nat /\ DOMAIN s = 1 .. Len(s) /\ DOMAIN Append(s, x) = 1 .. (Len(s) + 1)
  BY <1>1, LenProperties
<1> QED
  BY <1>1, <1>2 DEF ToSet

\* What the cut leaves is a trace that counts what was dropped.
LEMMA HalvedCounts ==
  ASSUME NEW file \in Traces, Len(file.lines) > CapLines
  PROVE  /\ Halved(file) \in Traces
         /\ Halved(file).truncated > 0
<1>1. file.lines \in Seq(Lines) /\ file.truncated \in Nat /\ file.inode \in Nat
  BY DEF Traces
<1>2. PICK n \in Nat : n = Len(file.lines)
  BY <1>1, LenProperties
<1>3. PICK half \in Nat : half = CapLines \div 2 /\ half <= CapLines
  BY CapLinesAssumption
<1>4. n > half /\ n - half + 1 \in 1 .. n + 1
  <2>1. n > CapLines /\ CapLines \in Nat
    BY <1>2, CapLinesAssumption
  <2> QED
    BY <1>3, <2>1
<1>5. SubSeq(file.lines, n - half + 1, n) \in Seq(Lines)
  BY <1>1, <1>2, <1>4, SubSeqProperties
<1> QED
  BY <1>1, <1>2, <1>3, <1>4, <1>5 DEF Halved, Traces

-----------------------------------------------------------------------------

\* The invariant holds before the first call.
LEMMA TraceInitially == Init => TraceInv
BY EarlierAssumption, IdleTyped
   DEF Init, TraceInv, TraceTypes, NeverCut, LineIsThere, CutsSomething, ExactIsComplete,
       Traces, Idle

\* A step of one call that leaves the trace as it is and the call short of an
\* append or past its end: an end it notes has its line in the trace, or a loss
\* is noted.
LEMMA AsideStep ==
  ASSUME TraceInv, NEW p \in Callers, NEW j \in Jobs, job' = [job EXCEPT ![p] = j],
         j.at \in {"idle", "write", "trace"}, trace' = trace,
         \/ lost' = lost /\ returned' = returned
         \/ lost' # {}
         \/ /\ lost' = lost /\ returned' = returned \cup {Line(p)}
            /\ job[p].at \in {"cap", "replace"}
  PROVE  TraceInv'
<1>1. job \in [Callers -> Jobs] /\ job' \in [Callers -> Jobs]
  BY DEF TraceInv, TraceTypes
<1>2. job'[p] = j /\ \A q \in Callers \ {p} : job'[q] = job[q]
  BY <1>1
<1>3. TraceTypes'
  BY <1>1, <1>2 DEF TraceInv, TraceTypes
<1>4. NeverCut'
  BY DEF TraceInv, NeverCut
<1>5. LineIsThere'
  BY <1>2 DEF TraceInv, LineIsThere, Line
<1>6. CutsSomething'
  BY <1>2 DEF TraceInv, CutsSomething
<1>7. ExactIsComplete'
  BY DEF TraceInv, ExactIsComplete, LineIsThere
<1> QED
  BY <1>3, <1>4, <1>5, <1>6, <1>7 DEF TraceInv

\* What Exit leaves of a call's job is a job, and an idle one.
LEMMA ExitTyped ==
  ASSUME TraceTypes, NEW p \in Callers
  PROVE  LET j == [Idle EXCEPT !.made = job[p].made] IN j \in Jobs /\ j.at = "idle"
BY DEF TraceTypes, Jobs, Idle, Phases

\* A job that goes on to another phase, its outcome known, is a job.
LEMMA JobEnds ==
  ASSUME NEW r \in Jobs, NEW x \in Phases, NEW b \in BOOLEAN
  PROVE  [r EXCEPT !.at = x, !.ok = b] \in Jobs /\ [r EXCEPT !.at = x, !.ok = b].at = x
BY DEF Jobs

\* So is one that goes on to its next publish.
LEMMA JobGoesOn ==
  ASSUME NEW r \in Jobs
  PROVE  [r EXCEPT !.step = @ + 1] \in Jobs /\ [r EXCEPT !.step = @ + 1].at = r.at
BY DEF Jobs

\* So is one that gets its command's result.
LEMMA JobGetsResult ==
  ASSUME NEW r \in Jobs, NEW v \in Results
  PROVE  [r EXCEPT !.result = v] \in Jobs /\ [r EXCEPT !.result = v].at = r.at
BY DEF Jobs

\* And one that begins a call.
LEMMA JobBegins ==
  ASSUME NEW r \in Jobs, NEW x \in Phases, NEW c \in UNION {Calls[p] : p \in Callers}
  PROVE  LET j == [r EXCEPT !.at = x, !.call = c, !.step = 1, !.made = @ + 1,
                            !.ok = FALSE, !.result = None]
         IN  j \in Jobs /\ j.at = x
<1> DEFINE j == [r EXCEPT !.at = x, !.call = c, !.step = 1, !.made = @ + 1,
                          !.ok = FALSE, !.result = None]
<1>1. DOMAIN j = {"at", "call", "step", "made", "ok", "result", "opened", "read"}
  BY DEF Jobs
<1>2. j = [f \in DOMAIN j |-> j[f]]
  OBVIOUS
<1>3. j.at = x /\ j.call = c /\ j.step = 1
  BY DEF Jobs
<1>4. /\ j.made = r.made + 1 /\ j.ok = FALSE /\ j.result = None
      /\ j.opened = r.opened /\ j.read = r.read
  BY DEF Jobs
<1>5. r.made + 1 \in Nat /\ r.opened \in Nat \cup {None} /\ r.read \in Traces \cup {None}
  BY DEF Jobs
<1> HIDE DEF j
<1>6. /\ j.at \in Phases /\ j.step \in Nat /\ j.result \in Results \cup {None}
      /\ j.call \in (UNION {Calls[p] : p \in Callers}) \cup {<<>>}
  BY <1>3, <1>4
<1> QED
  BY <1>1, <1>2, <1>3, <1>4, <1>5, <1>6 DEF Jobs

\* The writers, whatever they publish, stay clear of the trace.
LEMMA WriterStep ==
  ASSUME TraceInv, NEW p \in Callers,
         Begin(p) \/ RunCommand(p) \/ Publish(p) \/ FailPublish(p) \/ EndWrites(p)
  PROVE  TraceInv'
<1>1. job[p] \in Jobs /\ "trace" \in Phases
  BY DEF TraceInv, TraceTypes, Phases
<1>2. CASE Begin(p)
  <2>1. PICK c \in Calls[p] :
          job' = [job EXCEPT ![p] = [job[p] EXCEPT !.at = IF Invalid(c) THEN "trace" ELSE "write",
                                                   !.call = c, !.step = 1, !.made = @ + 1,
                                                   !.ok = FALSE, !.result = None]]
    BY <1>2 DEF Begin
  <2> DEFINE x == IF Invalid(c) THEN "trace" ELSE "write"
             j == [job[p] EXCEPT !.at = x, !.call = c, !.step = 1, !.made = @ + 1,
                                 !.ok = FALSE, !.result = None]
  <2>2. job' = [job EXCEPT ![p] = j]
    BY <2>1
  <2>3. x \in Phases /\ x \in {"idle", "write", "trace"}
    BY DEF Phases
  <2>4. c \in UNION {Calls[q] : q \in Callers}
    OBVIOUS
  <2> HIDE DEF x
  <2>5. j \in Jobs /\ j.at = x
    BY <1>1, <2>3, <2>4, JobBegins
  <2> HIDE DEF j
  <2> QED
    BY <1>2, <2>2, <2>3, <2>5, AsideStep DEF Begin
<1>3. CASE RunCommand(p)
  <2>1. PICK r \in Results : job' = [job EXCEPT ![p].result = r]
    BY <1>3 DEF RunCommand
  <2> DEFINE j == [job[p] EXCEPT !.result = r]
  <2>2. job' = [job EXCEPT ![p] = j]
    BY <2>1
  <2>3. j \in Jobs /\ j.at = "write"
    BY <1>1, <1>3, JobGetsResult DEF RunCommand, Running
  <2> HIDE DEF j
  <2> QED
    BY <1>3, <2>2, <2>3, AsideStep DEF RunCommand
<1>4. CASE Publish(p)
  <2> DEFINE j == [job[p] EXCEPT !.step = @ + 1]
  <2>1. job' = [job EXCEPT ![p] = j]
    BY <1>4 DEF Publish
  <2>2. j \in Jobs /\ j.at = "write"
    BY <1>1, <1>4, JobGoesOn DEF Publish, Running
  <2> HIDE DEF j
  <2> QED
    BY <1>4, <2>1, <2>2, AsideStep DEF Publish
<1>5. CASE FailPublish(p) \/ EndWrites(p)
  <2>1. PICK b \in BOOLEAN : job' = [job EXCEPT ![p] = [@ EXCEPT !.at = "trace", !.ok = b]]
    <3>1. CASE FailPublish(p)
      <4> DEFINE ok == Now(p).flag \in {"plan_check", "plan_blocks"}
      <4>1. job' = [job EXCEPT ![p] = [@ EXCEPT !.at = "trace", !.ok = ok]]
        BY <3>1 DEF FailPublish
      <4>2. ok \in BOOLEAN
        OBVIOUS
      <4> HIDE DEF ok
      <4> QED
        BY <4>1, <4>2
    <3>2. CASE EndWrites(p)
      <4> DEFINE ok == job[p].call = <<>> \/ Outcome(job[p].call, Work(p))
      <4>1. job' = [job EXCEPT ![p] = [@ EXCEPT !.at = "trace", !.ok = ok]]
        BY <3>2 DEF EndWrites
      <4>2. ok \in BOOLEAN
        OBVIOUS
      <4> HIDE DEF ok
      <4> QED
        BY <4>1, <4>2
    <3> QED
      BY <1>5, <3>1, <3>2
  <2> DEFINE j == [job[p] EXCEPT !.at = "trace", !.ok = b]
  <2>2. job' = [job EXCEPT ![p] = j]
    BY <2>1
  <2>3. j \in Jobs /\ j.at = "trace"
    BY <1>1, JobEnds
  <2> HIDE DEF j
  <2>4. trace' = trace /\ lost' = lost /\ returned' = returned
    BY <1>5 DEF FailPublish, EndWrites
  <2> QED
    BY <2>2, <2>3, <2>4, AsideStep
<1> QED
  BY <1>2, <1>3, <1>4, <1>5

\* A call opens the file that is there.
LEMMA OpenStep ==
  ASSUME TraceInv, NEW p \in Callers, OpenTrace(p)
  PROVE  TraceInv'
<1>1. job \in [Callers -> Jobs] /\ trace \in Traces /\ trace.inode \in Nat
  BY DEF TraceInv, TraceTypes, Traces
<1> DEFINE j == [job[p] EXCEPT !.at = "append", !.opened = trace.inode]
<1>2. j \in Jobs /\ j.at = "append" /\ j.opened = trace.inode
  BY <1>1 DEF Jobs, Phases
<1>3. job' = [job EXCEPT ![p] = j] /\ trace' = trace /\ lost' = lost /\ returned' = returned
  BY DEF OpenTrace
<1> HIDE DEF j
<1>4. job' \in [Callers -> Jobs] /\ job'[p] = j /\ \A q \in Callers \ {p} : job'[q] = job[q]
  BY <1>1, <1>2, <1>3
<1>5. TraceTypes'
  BY <1>1, <1>2, <1>3, <1>4 DEF TraceInv, TraceTypes
<1>6. NeverCut' /\ ExactIsComplete'
  BY <1>3 DEF TraceInv, NeverCut, ExactIsComplete
<1>7. LineIsThere' /\ CutsSomething'
  BY <1>2, <1>3, <1>4 DEF TraceInv, LineIsThere, CutsSomething, Line
<1> QED
  BY <1>5, <1>6, <1>7 DEF TraceInv

\* A line is appended to the file that was opened, which is the one that is
\* there as long as no file was replaced.
LEMMA AppendStep ==
  ASSUME TraceInv, NEW p \in Callers, AppendLine(p)
  PROVE  TraceInv'
<1>1. job \in [Callers -> Jobs] /\ trace \in Traces /\ Line(p) \in Lines
  BY LineTyped DEF TraceInv, TraceTypes
<1> DEFINE j == [job[p] EXCEPT !.at = "cap"]
<1>2. j \in Jobs /\ j.at = "cap" /\ j.made = job[p].made /\ j.ok = job[p].ok
  BY <1>1 DEF Jobs, Phases
<1>3. job' = [job EXCEPT ![p] = j] /\ lost' = lost /\ returned' = returned
  BY DEF AppendLine
<1> HIDE DEF j
<1>4. job' \in [Callers -> Jobs] /\ job'[p] = j /\ \A q \in Callers \ {p} : job'[q] = job[q]
  BY <1>1, <1>2, <1>3
<1>5. Line(p)' = Line(p) /\ \A q \in Callers \ {p} : Line(q)' = Line(q)
  BY <1>2, <1>4 DEF Line
<1>6. /\ trace' \in Traces /\ trace'.inode = trace.inode /\ trace'.truncated = trace.truncated
      /\ ToSet(trace.lines) \subseteq ToSet(trace'.lines)
      /\ job[p].opened = trace.inode => Line(p) \in ToSet(trace'.lines)
  <2>1. trace.lines \in Seq(Lines)
    BY <1>1 DEF Traces
  <2>2. CASE job[p].opened = trace.inode
    <3>1. trace' = [trace EXCEPT !.lines = Append(@, Line(p))]
      BY <2>2 DEF AppendLine
    <3>2. /\ trace'.lines = Append(trace.lines, Line(p)) /\ trace'.inode = trace.inode
          /\ trace'.truncated = trace.truncated
      BY <1>1, <3>1 DEF Traces
    <3>3. Append(trace.lines, Line(p)) \in Seq(Lines)
      BY <1>1, <2>1, AppendKeeps
    <3>4. trace' \in Traces
      BY <1>1, <3>1, <3>3 DEF Traces
    <3> QED
      BY <1>1, <2>1, <3>2, <3>4, AppendKeeps
  <2>3. CASE job[p].opened # trace.inode
    BY <1>1, <2>3 DEF AppendLine
  <2> QED
    BY <2>2, <2>3
<1>7. trace.truncated = 0 => job[p].opened = trace.inode
  BY DEF TraceInv, TraceTypes, NeverCut, AppendLine
<1>8. TraceTypes'
  BY <1>1, <1>2, <1>4, <1>6 DEF TraceInv, TraceTypes
<1>9. NeverCut' /\ ExactIsComplete'
  BY <1>3, <1>6 DEF TraceInv, NeverCut, ExactIsComplete
<1>10. LineIsThere' /\ CutsSomething'
  BY <1>2, <1>4, <1>5, <1>6, <1>7 DEF TraceInv, LineIsThere, CutsSomething
<1> QED
  BY <1>8, <1>9, <1>10 DEF TraceInv

\* A call that ends without cutting the file: its line is in it, its failure
\* is noted, or it was killed and ended nowhere.
LEMMA EndStep ==
  ASSUME TraceInv, NEW p \in Callers,
         \/ FailTrace(p) \/ Kill(p)
         \/ CheckCap(p) /\ Len(trace.lines) <= CapLines
         \/ ReplaceTrace(p) /\ trace' = trace
  PROVE  TraceInv'
<1> DEFINE j == [Idle EXCEPT !.made = job[p].made]
<1>1. j \in Jobs /\ j.at = "idle"
  BY ExitTyped DEF TraceInv
<1>2. Len(trace.lines) \in Nat /\ CapLines \in Nat
  BY LenProperties, CapLinesAssumption DEF TraceInv, TraceTypes, Traces
<1>3. job' = [job EXCEPT ![p] = j] /\ trace' = trace
  BY <1>2 DEF FailTrace, Kill, CheckCap, ReplaceTrace, Exit
<1>4. \/ lost' = lost /\ returned' = returned
      \/ lost' # {}
      \/ /\ lost' = lost /\ returned' = returned \cup {Line(p)}
         /\ job[p].at \in {"cap", "replace"}
  BY <1>2 DEF FailTrace, Kill, CheckCap, ReplaceTrace
<1> HIDE DEF j
<1> QED
  BY <1>1, <1>3, <1>4, AsideStep

\* A call reads a file that is too long, which it is about to replace.
LEMMA ReadStep ==
  ASSUME TraceInv, NEW p \in Callers, CheckCap(p), Len(trace.lines) > CapLines
  PROVE  TraceInv'
<1>1. job \in [Callers -> Jobs] /\ trace \in Traces
  BY DEF TraceInv, TraceTypes
<1> DEFINE j == [job[p] EXCEPT !.at = "replace", !.read = trace]
<1>2. j \in Jobs /\ j.at = "replace" /\ j.read = trace /\ j.made = job[p].made /\ j.ok = job[p].ok
  BY <1>1 DEF Jobs, Phases
<1>3. Len(trace.lines) \in Nat /\ CapLines \in Nat
  BY <1>1, LenProperties, CapLinesAssumption DEF Traces
<1>4. job' = [job EXCEPT ![p] = j] /\ trace' = trace /\ lost' = lost /\ returned' = returned
  BY <1>3 DEF CheckCap
<1> HIDE DEF j
<1>5. job' \in [Callers -> Jobs] /\ job'[p] = j /\ \A q \in Callers \ {p} : job'[q] = job[q]
  BY <1>1, <1>2, <1>4
<1>6. Line(p)' = Line(p) /\ \A q \in Callers \ {p} : Line(q)' = Line(q)
  BY <1>2, <1>5 DEF Line
<1>7. TraceTypes'
  BY <1>1, <1>2, <1>4, <1>5 DEF TraceInv, TraceTypes
<1>8. NeverCut' /\ ExactIsComplete'
  BY <1>4 DEF TraceInv, NeverCut, ExactIsComplete
<1>9. LineIsThere' /\ CutsSomething'
  BY <1>2, <1>4, <1>5, <1>6 DEF TraceInv, LineIsThere, CutsSomething, CheckCap
<1> QED
  BY <1>7, <1>8, <1>9 DEF TraceInv

\* The file that takes the place of another says that lines are gone.
LEMMA ReplaceStep ==
  ASSUME TraceInv, NEW p \in Callers, ReplaceTrace(p), trace' # trace
  PROVE  TraceInv'
<1>1. job \in [Callers -> Jobs] /\ trace \in Traces /\ trace.inode \in Nat
  BY DEF TraceInv, TraceTypes, Traces
<1> DEFINE cut == Halved(job[p].read)
           j   == [Idle EXCEPT !.made = job[p].made]
<1>2. cut \in Traces /\ cut.truncated > 0
  BY HalvedCounts DEF TraceInv, TraceTypes, CutsSomething, ReplaceTrace
<1>3. j \in Jobs /\ j.at = "idle"
  BY ExitTyped DEF TraceInv
<1>4. trace' = [cut EXCEPT !.inode = trace.inode + 1] /\ job' = [job EXCEPT ![p] = j]
  BY DEF ReplaceTrace, Exit
<1> HIDE DEF cut, j
<1>5. trace' \in Traces /\ trace'.inode = trace.inode + 1 /\ trace'.truncated # 0
  BY <1>1, <1>2, <1>4 DEF Traces
<1>6. job' \in [Callers -> Jobs] /\ job'[p] = j /\ \A q \in Callers \ {p} : job'[q] = job[q]
  BY <1>1, <1>3, <1>4
<1>7. TraceTypes'
  BY <1>1, <1>3, <1>5, <1>6 DEF TraceInv, TraceTypes
<1>8. CutsSomething'
  BY <1>3, <1>6 DEF TraceInv, CutsSomething
<1> QED
  BY <1>5, <1>7, <1>8 DEF TraceInv, NeverCut, LineIsThere, ExactIsComplete

\* The trace stays as the invariant says.
LEMMA TraceStays == TraceInv /\ [Next]_vars => TraceInv'
<1> SUFFICES ASSUME TraceInv, [Next]_vars
             PROVE  TraceInv'
  OBVIOUS
<1>1. CASE UNCHANGED vars
  BY <1>1 DEF vars, TraceInv, TraceTypes, NeverCut, LineIsThere, CutsSomething,
              ExactIsComplete, Line
<1>2. CASE Next
  <2>1. PICK p \in Callers : Act(p)
    BY <1>2 DEF Next, Act
  <2>2. CASE CheckCap(p)
    <3>1. Len(trace.lines) <= CapLines \/ Len(trace.lines) > CapLines
      BY <2>2 DEF CheckCap
    <3> QED
      BY <2>2, <3>1, EndStep, ReadStep
  <2>3. CASE ReplaceTrace(p)
    BY <2>3, EndStep, ReplaceStep
  <2> QED
    BY <2>1, <2>2, <2>3, WriterStep, OpenStep, AppendStep, EndStep DEF Act
<1> QED
  BY <1>1, <1>2

\* However many calls append, fail, are killed or cut the file under each
\* other, the trace calls itself exact (nothing rolled off, no loss noted) only
\* when it has the outcome of every call that came to its end.
THEOREM Exact == Spec => []ExactIsComplete
<1>1. TraceInv => ExactIsComplete
  BY DEF TraceInv
<1> QED
  BY TraceInitially, TraceStays, <1>1, PTL DEF Spec

-----------------------------------------------------------------------------
(* The jobs, and the record                                                 *)

AllCalls == UNION {Calls[p] : p \in Callers}

\* A step of one caller is no other's.
LEMMA OthersStay ==
  ASSUME TraceTypes, NEW p \in Callers, Act(p)
  PROVE  \A q \in Callers \ {p} : job'[q] = job[q]
BY DEF TraceTypes, Act, Begin, RunCommand, Publish, FailPublish, EndWrites, OpenTrace, AppendLine,
       FailTrace, CheckCap, ReplaceTrace, Kill, Exit

\* A call that begins.
LEMMA Begins ==
  ASSUME TraceTypes, NEW p \in Callers, Begin(p), NEW j, j = job'[p]
  PROVE  /\ j.call \in AllCalls /\ j.step = 1 /\ j.ok = FALSE /\ j.at \in {"write", "trace"}
         /\ j.at = "write" => ~ Invalid(j.call)
<1>1. job \in [Callers -> Jobs]
  BY DEF TraceTypes
<1>2. PICK c \in Calls[p] :
        job' = [job EXCEPT ![p] = [job[p] EXCEPT !.at = IF Invalid(c) THEN "trace" ELSE "write",
                                                 !.call = c, !.step = 1, !.made = @ + 1,
                                                 !.ok = FALSE, !.result = None]]
  BY DEF Begin
<1> DEFINE x == IF Invalid(c) THEN "trace" ELSE "write"
<1>3. x \in {"write", "trace"} /\ (x = "write" => ~ Invalid(c))
  OBVIOUS
<1>4. j = [job[p] EXCEPT !.at = x, !.call = c, !.step = 1, !.made = @ + 1, !.ok = FALSE, !.result = None]
  BY <1>1, <1>2
<1> HIDE DEF x
<1>5. j.at = x /\ j.call = c /\ j.step = 1 /\ j.ok = FALSE
  BY <1>1, <1>4 DEF Jobs
<1> QED
  BY <1>3, <1>5 DEF AllCalls

\* A command that ends changes nothing but the result.
LEMMA CommandEnds ==
  ASSUME TraceTypes, NEW p \in Callers, RunCommand(p)
  PROVE  /\ job'[p].call = job[p].call /\ job'[p].step = job[p].step
         /\ job'[p].at = "write" /\ job[p].at = "write" /\ job[p].result = None
BY DEF TraceTypes, Jobs, RunCommand, Running

\* A publish changes nothing but the step.
LEMMA PublishEnds ==
  ASSUME TraceTypes, NEW p \in Callers, Publish(p)
  PROVE  /\ job'[p].call = job[p].call /\ job'[p].step = job[p].step + 1
         /\ job'[p].result = job[p].result /\ job'[p].at = "write" /\ job[p].at = "write"
BY DEF TraceTypes, Jobs, Publish, Running

\* The writers are done.
LEMMA WritersEnd ==
  ASSUME TraceTypes, NEW p \in Callers, FailPublish(p) \/ EndWrites(p)
  PROVE  /\ job'[p].call = job[p].call /\ job'[p].result = job[p].result
         /\ job'[p].at = "trace" /\ job[p].at = "write"
<1>1. CASE FailPublish(p)
  BY <1>1 DEF TraceTypes, Jobs, FailPublish, Running
<1>2. CASE EndWrites(p)
  BY <1>2 DEF TraceTypes, Jobs, EndWrites
<1> QED
  BY <1>1, <1>2

\* The call goes on to its trace, or comes to its end.
LEMMA TraceGoesOn ==
  ASSUME TraceTypes, NEW p \in Callers,
         OpenTrace(p) \/ AppendLine(p) \/ FailTrace(p) \/ CheckCap(p) \/ ReplaceTrace(p) \/ Kill(p)
  PROVE  \/ job'[p].at = "idle"
         \/ /\ job'[p].at \notin {"idle", "write"} /\ job[p].at \notin {"idle", "write"}
            /\ job'[p].call = job[p].call /\ job'[p].ok = job[p].ok /\ job'[p].result = job[p].result
            /\ turn' = turn
<1>1. job \in [Callers -> Jobs]
  BY DEF TraceTypes
<1>2. ASSUME Exit(p) PROVE job'[p].at = "idle"
  BY <1>1, <1>2 DEF Exit, Idle
<1>3. CASE OpenTrace(p)
  BY <1>1, <1>3 DEF OpenTrace, Jobs
<1>4. CASE AppendLine(p)
  BY <1>1, <1>4 DEF AppendLine, Jobs
<1>5. CASE CheckCap(p)
  BY <1>1, <1>2, <1>5 DEF CheckCap, Jobs
<1>6. CASE FailTrace(p) \/ ReplaceTrace(p) \/ Kill(p)
  BY <1>2, <1>6 DEF FailTrace, ReplaceTrace, Kill
<1> QED
  BY <1>3, <1>4, <1>5, <1>6

\* A call that writes is one that was asked for, and is at one of its steps.
Writing == \A p \in Callers : job[p].at = "write" => /\ job[p].call \in AllCalls /\ ~ Invalid(job[p].call)
                                                     /\ job[p].step \in Nat \ {0}

RecordInv == TraceInv /\ Writing /\ IsRecord(ctx)

\* Calls go on to write what they were asked for.
LEMMA WritingStays ==
  ASSUME TraceTypes, Writing, NEW p \in Callers, Act(p)
  PROVE  Writing'
<1> SUFFICES ASSUME NEW q \in Callers, job'[q].at = "write"
             PROVE  job'[q].call \in AllCalls /\ ~ Invalid(job'[q].call) /\ job'[q].step \in Nat \ {0}
  BY DEF Writing
<1>1. CASE q # p
  BY <1>1, OthersStay DEF Writing
<1>2. CASE q = p
  <2>1. CASE Begin(p)
    <3>1. PICK j : j = job'[p]
      OBVIOUS
    <3>2. j.call \in AllCalls /\ j.step = 1 /\ (j.at = "write" => ~ Invalid(j.call))
      BY <2>1, <3>1, Begins
    <3> QED
      BY <1>2, <3>1, <3>2
  <2>2. CASE RunCommand(p)
    BY <1>2, <2>2, CommandEnds DEF Writing
  <2>3. CASE Publish(p)
    BY <1>2, <2>3, PublishEnds DEF Writing
  <2>4. CASE FailPublish(p) \/ EndWrites(p)
    BY <1>2, <2>4, WritersEnd
  <2>5. CASE OpenTrace(p) \/ AppendLine(p) \/ FailTrace(p) \/ CheckCap(p) \/ ReplaceTrace(p) \/ Kill(p)
    BY <1>2, <2>5, TraceGoesOn
  <2> QED
    BY <2>1, <2>2, <2>3, <2>4, <2>5 DEF Act
<1> QED
  BY <1>1, <1>2

\* The publishes of a call that is asked for.
LEMMA AskedStepsAre ==
  ASSUME NEW call \in AllCalls, ~ Invalid(call), NEW result, NEW steps, steps = Steps(call, result)
  PROVE  /\ IsCall(call) /\ AreWritable(steps)
         /\ IsList(steps) /\ Len(steps) \in Nat /\ DOMAIN steps = 1 .. Len(steps)
<1>1. IsCall(call)
  BY CallsAssumption DEF AllCalls
<1>2. IsList(steps) /\ Len(steps) \in Nat /\ DOMAIN steps = 1 .. Len(steps)
  BY <1>1, StepsAre
<1>3. \A n \in 1 .. Len(steps) : Writable(steps[n])
  BY <1>1, StepsAre
<1> QED
  BY <1>1, <1>2, <1>3 DEF AreWritable

\* Where a call is among its publishes.
LEMMA RunningAt ==
  ASSUME Writing, NEW p \in Callers, Running(p), NEW steps, steps = Work(p)
  PROVE  /\ job[p].step \in 1 .. Len(steps) /\ Now(p) = steps[job[p].step] /\ Writable(Now(p))
         /\ AreWritable(steps)
<1>1. job[p].call \in AllCalls /\ ~ Invalid(job[p].call) /\ job[p].step \in Nat \ {0}
  BY DEF Writing, Running
<1>2. steps = Steps(job[p].call, job[p].result)
  BY DEF Work
<1>3. AreWritable(steps) /\ Len(steps) \in Nat
  BY <1>1, <1>2, AskedStepsAre
<1>4. job[p].step \in 1 .. Len(steps) /\ Now(p) = steps[job[p].step]
  BY <1>1, <1>3 DEF Running, Now
<1> QED
  BY <1>3, <1>4 DEF AreWritable

\* The record stays one.
LEMMA RecordStays ==
  ASSUME RecordInv, NEW p \in Callers, Act(p)
  PROVE  IsRecord(ctx')
<1>1. CASE Publish(p)
  <2>1. Running(p) /\ (ctx' = ctx \/ ctx' = Written(ctx, Now(p)))
    BY <1>1 DEF Publish
  <2>2. Writable(Now(p)) /\ IsRecord(ctx)
    BY <2>1, RunningAt DEF RecordInv
  <2> QED
    BY <2>1, <2>2, WrittenIs
<1>2. CASE ~ Publish(p)
  <2>1. ctx' = ctx
    BY <1>2 DEF Act, Begin, RunCommand, FailPublish, EndWrites, OpenTrace, AppendLine, FailTrace, CheckCap,
                ReplaceTrace, Kill
  <2> QED
    BY <2>1 DEF RecordInv
<1> QED
  BY <1>1, <1>2

\* The record's invariant holds at the start.
LEMMA RecordInitially == Init => RecordInv
<1> SUFFICES ASSUME Init PROVE RecordInv
  OBVIOUS
<1>1. Writing
  BY DEF Init, Writing, Idle
<1>2. ctx = [f \in Fields |-> <<>>]
  BY DEF Init
<1>3. IsRecord(ctx)
  BY <1>2, EmptyList DEF IsRecord
<1> QED
  BY <1>1, <1>3, TraceInitially DEF RecordInv

\* And every step keeps it.
LEMMA RecordInvStays == RecordInv /\ [Next]_vars => RecordInv'
<1> SUFFICES ASSUME RecordInv, [Next]_vars PROVE RecordInv'
  OBVIOUS
<1>1. TraceInv' /\ TraceTypes
  BY TraceStays DEF RecordInv, TraceInv
<1>2. CASE UNCHANGED vars
  <2>1. Writing' /\ IsRecord(ctx')
    BY <1>2 DEF vars, RecordInv, Writing
  <2> QED
    BY <1>1, <2>1 DEF RecordInv, IsRecord
<1>3. CASE Next
  <2>1. PICK p \in Callers : Act(p)
    BY <1>3 DEF Next, Act
  <2>2. Writing' /\ IsRecord(ctx')
    BY <1>1, <2>1, WritingStays, RecordStays DEF RecordInv
  <2> QED
    BY <1>1, <2>2 DEF RecordInv, IsRecord
<1> QED
  BY <1>2, <1>3

\* Whatever the calls before it, their order, their kills and their failures
\* left in the record, a call that was cut short after some of its publishes and
\* is made again leaves what one undisturbed call leaves.
THEOREM Repeats == Spec => []RepeatCompletes
<1>1. RecordInv => RepeatCompletes
  <2> SUFFICES ASSUME RecordInv, NEW call \in AllCalls, ~ Invalid(call), NEW r \in Results,
                      NEW steps \in {Steps(call, r)}, NEW k \in 0 .. Len(steps)
               PROVE  Applied(Applied(ctx, SubSeq(steps, 1, k)), steps) = Applied(ctx, steps)
    BY DEF RepeatCompletes, AllCalls
  <2>1. AreWritable(steps)
    BY AskedStepsAre
  <2> QED
    BY <2>1, RepeatLeavesTheSame DEF RecordInv
<1> QED
  BY RecordInitially, RecordInvStays, <1>1, PTL DEF Spec

-----------------------------------------------------------------------------
(* What a write carries is in the record, and stays there                   *)

\* A flag's entry is in a list: its key, and where the flag does not append, a
\* value that was asked for.
Holds(flag, list, key, values) ==
  \E e \in ToSet(list) : e.key = key /\ (flag \notin Appended => e.value \in values)

\* An entry put stays, unless another of its key takes its place, with a value
\* that was asked for as well.
LEMMA PutHolds ==
  ASSUME NEW list, IsList(list), NEW flag, NEW key, NEW values, Holds(flag, list, key, values),
         NEW by, NEW item, item.key = key => item.value \in values, NEW new, new = Put(by, list, item)
  PROVE  Holds(flag, new, key, values)
<1>1. PICK i \in 1 .. Len(list) : list[i].key = key /\ (flag \notin Appended => list[i].value \in values)
  BY ListFields DEF Holds
<1>2. Len(list) \in Nat
  BY ListFields
<1>3. CASE HasKey(list, item.key)
  <2>1. IsList(new) /\ Len(new) = Len(list) /\ new[i] = Placed(by, list[i], item)
    BY <1>3, PutThere
  <2>2. new[i].key = key /\ (flag \notin Appended => new[i].value \in values)
    BY <1>1, <2>1 DEF Placed
  <2>3. new[i] \in ToSet(new)
    BY <2>1, ListFields
  <2> QED
    BY <2>2, <2>3 DEF Holds
<1>4. CASE ~ HasKey(list, item.key)
  <2>1. IsList(new) /\ Len(new) = Len(list) + 1 /\ new[i] = list[i]
    BY <1>4, PutNew
  <2>2. i \in 1 .. Len(new)
    BY <1>2, <2>1
  <2>3. new[i] \in ToSet(new)
    BY <2>1, <2>2, ListFields
  <2> QED
    BY <1>1, <2>1, <2>3 DEF Holds
<1> QED
  BY <1>3, <1>4

\* And it is there once it is put.
LEMMA PutLands ==
  ASSUME NEW list, IsList(list), NEW flag, NEW item, NEW values, item.value \in values,
         NEW new, new = Put(flag, list, item)
  PROVE  Holds(flag, new, item.key, values)
<1>1. Len(list) \in Nat /\ DOMAIN list = 1 .. Len(list)
  BY ListFields
<1>2. CASE HasKey(list, item.key)
  <2>1. PICK i \in 1 .. Len(list) : list[i].key = item.key
    BY <1>1, <1>2 DEF HasKey
  <2>2. IsList(new) /\ Len(new) = Len(list) /\ new[i] = Placed(flag, list[i], item)
    BY <1>2, PutThere
  <2>3. new[i].key = item.key /\ (flag \notin Appended => new[i].value \in values)
    BY <2>1, <2>2 DEF Placed
  <2>4. new[i] \in ToSet(new)
    BY <2>2, ListFields
  <2> QED
    BY <2>3, <2>4 DEF Holds
<1>3. CASE ~ HasKey(list, item.key)
  <2>1. IsList(new) /\ Len(new) = Len(list) + 1 /\ new[Len(list) + 1] = item
    BY <1>3, PutNew
  <2>2. Len(list) + 1 \in 1 .. Len(new)
    BY <1>1, <2>1
  <2>3. item \in ToSet(new)
    BY <2>1, <2>2, ListFields
  <2> QED
    BY <2>3 DEF Holds
<1> QED
  BY <1>2, <1>3

\* The entries of a write, all with values that were asked for at their key,
\* leave what is there.
LEMMA PutRunHolds ==
  ASSUME NEW by, NEW items, IsList(items), NEW f, PutRun(by, items, f), IsList(f[0]),
         NEW flag, NEW key, NEW values,
         \A i \in 1 .. Len(items) : items[i].key = key => items[i].value \in values,
         NEW k \in 0 .. Len(items), Holds(flag, f[k], key, values)
  PROVE  Holds(flag, f[Len(items)], key, values)
<1> DEFINE n == Len(items)
           T == {m \in 0 .. n - k : Holds(flag, f[k + m], key, values)}
<1>1. n \in Nat /\ k \in Nat /\ k \in 0 .. n /\ n - k \in Nat /\ k + 0 = k /\ k + (n - k) = n
  BY ListFields
<1>2. \A i \in 0 .. n : IsList(f[i])
  BY PutRunGrows
<1>3. 0 \in T
  BY <1>1
<1>4. ASSUME NEW m \in 0 .. (n - k) - 1, m \in T PROVE m + 1 \in T
  <2> HIDE DEF n
  <2>1. k + m \in 0 .. n - 1 /\ k + m \in 0 .. n /\ (k + m) + 1 \in 1 .. n /\ k + (m + 1) = (k + m) + 1
        /\ m + 1 \in 0 .. n - k
    BY <1>1
  <2> USE DEF n
  <2>2. PICK j : j = k + m
    OBVIOUS
  <2>3. f[j + 1] = Put(by, f[j], items[j + 1]) /\ IsList(f[j]) /\ Holds(flag, f[j], key, values)
    BY <1>2, <1>4, <2>1, <2>2 DEF PutRun
  <2>4. items[j + 1].key = key => items[j + 1].value \in values
    BY <2>1, <2>2
  <2>5. Holds(flag, f[j + 1], key, values)
    BY <2>3, <2>4, PutHolds
  <2> QED
    BY <2>1, <2>2, <2>5
<1>5. 0 .. n - k \subseteq T
  <2> HIDE DEF T, n
  <2> QED
    BY <1>1, <1>3, <1>4, UpTo
<1>6. n - k \in T
  <2>1. n - k \in 0 .. n - k
    BY <1>1
  <2> HIDE DEF T, n
  <2> QED
    BY <1>5, <2>1
<1> QED
  BY <1>1, <1>6

\* A write leaves what is there.
LEMMA PutAllHolds ==
  ASSUME NEW by, NEW list, IsList(list), NEW items, IsList(items), NEW flag, NEW key, NEW values,
         \A i \in 1 .. Len(items) : items[i].key = key => items[i].value \in values,
         Holds(flag, list, key, values)
  PROVE  Holds(flag, PutAll(by, list, items), key, values)
<1>1. PICK f : PutRun(by, items, f) /\ f[0] = list /\ f[Len(items)] = PutAll(by, list, items)
  BY PutAllUnfolds
<1>2. 0 \in 0 .. Len(items)
  BY ListFields
<1> QED
  BY <1>1, <1>2, PutRunHolds

\* And each of its entries is there when it ends.
LEMMA PutAllLands ==
  ASSUME NEW flag, NEW list, IsList(list), NEW items, IsList(items), NEW k \in 1 .. Len(items), NEW values,
         \A i \in 1 .. Len(items) : items[i].key = items[k].key => items[i].value \in values
  PROVE  Holds(flag, PutAll(flag, list, items), items[k].key, values)
<1>1. PICK f : PutRun(flag, items, f) /\ f[0] = list /\ f[Len(items)] = PutAll(flag, list, items)
  BY PutAllUnfolds
<1>2. PICK j : j = k - 1
  OBVIOUS
<1>3. j \in 0 .. Len(items) - 1 /\ j \in 0 .. Len(items) /\ j + 1 = k /\ k \in 0 .. Len(items)
  BY <1>2, ListFields
<1>4. f[k] = Put(flag, f[j], items[k]) /\ IsList(f[j])
  <2>1. f[j + 1] = Put(flag, f[j], items[j + 1])
    BY <1>1, <1>3 DEF PutRun
  <2>2. IsList(f[j])
    BY <1>1, <1>3, PutRunGrows
  <2> QED
    BY <1>3, <2>1, <2>2
<1>5. Holds(flag, f[k], items[k].key, values)
  BY <1>4, PutLands
<1> QED
  BY <1>1, <1>3, <1>5, PutRunHolds

\* The first n publishes of a call.
Before(steps, n) == [m \in 1 .. n |-> steps[m]]

\* What one of them carries was asked for.
LEMMA AskedOwn ==
  ASSUME NEW steps, NEW n, NEW m \in 1 .. n, NEW i \in DOMAIN steps[m].items,
         NEW item, item = steps[m].items[i]
  PROVE  item.value \in Asked(Before(steps, n), Field(steps[m].flag), item.key)
<1> DEFINE b == Before(steps, n)
<1>1. DOMAIN b = 1 .. n /\ b[m] = steps[m]
  BY DEF Before
<1> HIDE DEF b
<1>2. item \in ToSet(b[m].items)
  BY <1>1 DEF ToSet
<1> QED
  BY <1>1, <1>2 DEF Asked, b

\* What was asked for by then still was later.
LEMMA AskedGrows ==
  ASSUME NEW steps, NEW n \in Nat, NEW k \in Nat, n <= k, NEW field, NEW key
  PROVE  Asked(Before(steps, n), field, key) \subseteq Asked(Before(steps, k), field, key)
<1>1. 1 .. n \subseteq 1 .. k
  OBVIOUS
<1> DEFINE a == Before(steps, n)
           b == Before(steps, k)
<1>2. DOMAIN a = 1 .. n /\ DOMAIN b = 1 .. k /\ \A m \in 1 .. n : a[m] = b[m]
  BY <1>1 DEF Before
<1> HIDE DEF a, b
<1> QED
  BY <1>1, <1>2 DEF Asked, a, b

\* All of the publishes are the call's.
LEMMA BeforeAll ==
  ASSUME NEW steps, IsList(steps)
  PROVE  Before(steps, Len(steps)) = steps
BY ListFields DEF Before

\* A publish has landed in a record, with values one of the first n publishes
\* carried.
Landed(r, write, steps, n) ==
  \A i \in DOMAIN write.items :
    Holds(write.flag, r[Field(write.flag)], write.items[i].key,
          Asked(Before(steps, n), Field(write.flag), write.items[i].key))

\* It is as well landed with the values of more of them.
LEMMA LandedGrows ==
  ASSUME NEW r, NEW w, NEW steps, NEW n \in Nat, NEW k \in Nat, n <= k, Landed(r, w, steps, n)
  PROVE  Landed(r, w, steps, k)
<1> SUFFICES ASSUME NEW i \in DOMAIN w.items
             PROVE  Holds(w.flag, r[Field(w.flag)], w.items[i].key,
                          Asked(Before(steps, k), Field(w.flag), w.items[i].key))
  BY DEF Landed
<1>1. PICK a : a = Asked(Before(steps, n), Field(w.flag), w.items[i].key)
  OBVIOUS
<1>2. PICK b : b = Asked(Before(steps, k), Field(w.flag), w.items[i].key)
  OBVIOUS
<1>3. a \subseteq b /\ Holds(w.flag, r[Field(w.flag)], w.items[i].key, a)
  BY <1>1, <1>2, AskedGrows DEF Landed
<1> QED
  BY <1>2, <1>3 DEF Holds

\* The next publish leaves there what has landed.
LEMMA WrittenKeeps ==
  ASSUME NEW r, IsRecord(r), NEW steps, NEW n \in Nat \ {0}, NEW x, x = steps[n], Writable(x),
         NEW w, Writable(w), Landed(r, w, steps, n)
  PROVE  Landed(Written(r, x), w, steps, n)
<1> SUFFICES ASSUME NEW i \in DOMAIN w.items
             PROVE  Holds(w.flag, Written(r, x)[Field(w.flag)], w.items[i].key,
                          Asked(Before(steps, n), Field(w.flag), w.items[i].key))
  BY DEF Landed
<1>1. PICK f, key, values :
        f = Field(w.flag) /\ key = w.items[i].key /\ values = Asked(Before(steps, n), f, key)
  OBVIOUS
<1>2. f \in Fields /\ IsList(r[f]) /\ Holds(w.flag, r[f], key, values)
  BY <1>1 DEF Writable, IsRecord, Landed
<1>3. CASE f = Field(x.flag)
  <2>1. Written(r, x)[f] = PutAll(x.flag, r[f], x.items)
    BY <1>3, WrittenIs
  <2>2. IsList(x.items) /\ DOMAIN x.items = 1 .. Len(x.items)
    BY ListFields DEF Writable
  <2>3. \A k \in 1 .. Len(x.items) : x.items[k].key = key => x.items[k].value \in values
    <3> SUFFICES ASSUME NEW k \in 1 .. Len(x.items), x.items[k].key = key
                 PROVE  x.items[k].value \in values
      OBVIOUS
    <3>1. n \in 1 .. n /\ k \in DOMAIN steps[n].items
      BY <2>2
    <3>2. PICK item : item = steps[n].items[k]
      OBVIOUS
    <3>3. item.value \in Asked(Before(steps, n), Field(steps[n].flag), item.key)
      BY <3>1, <3>2, AskedOwn
    <3> QED
      BY <1>1, <1>3, <3>2, <3>3
  <2>4. Holds(w.flag, PutAll(x.flag, r[f], x.items), key, values)
    BY <1>2, <2>2, <2>3, PutAllHolds
  <2> QED
    BY <1>1, <2>1, <2>4
<1>4. CASE f # Field(x.flag)
  <2>1. Written(r, x)[f] = r[f]
    BY <1>2, <1>4, WrittenIs
  <2> QED
    BY <1>1, <1>2, <2>1
<1> QED
  BY <1>3, <1>4

\* And lands itself.
LEMMA WrittenLands ==
  ASSUME NEW r, IsRecord(r), NEW steps, NEW n \in Nat \ {0}, NEW x, x = steps[n], Writable(x)
  PROVE  Landed(Written(r, x), x, steps, n)
<1> DEFINE f == Field(x.flag)
<1>1. f \in Fields /\ IsList(r[f]) /\ IsList(x.items) /\ DOMAIN x.items = 1 .. Len(x.items)
  BY ListFields DEF Writable, IsRecord
<1>2. Written(r, x)[f] = PutAll(x.flag, r[f], x.items)
  BY WrittenIs
<1> SUFFICES ASSUME NEW i \in 1 .. Len(x.items)
             PROVE  Holds(x.flag, PutAll(x.flag, r[f], x.items), x.items[i].key,
                          Asked(Before(steps, n), f, x.items[i].key))
  BY <1>1, <1>2 DEF Landed
<1>3. PICK values : values = Asked(Before(steps, n), f, x.items[i].key)
  OBVIOUS
<1>4. \A k \in 1 .. Len(x.items) : x.items[k].key = x.items[i].key => x.items[k].value \in values
  <2> SUFFICES ASSUME NEW k \in 1 .. Len(x.items), x.items[k].key = x.items[i].key
               PROVE  x.items[k].value \in values
    OBVIOUS
  <2>1. n \in 1 .. n /\ k \in DOMAIN steps[n].items
    BY <1>1
  <2>2. PICK item : item = steps[n].items[k]
    OBVIOUS
  <2>3. item.value \in Asked(Before(steps, n), Field(steps[n].flag), item.key)
    BY <2>1, <2>2, AskedOwn
  <2> QED
    BY <1>3, <2>2, <2>3
<1> HIDE DEF f
<1> QED
  BY <1>1, <1>3, <1>4, PutAllLands

-----------------------------------------------------------------------------
(* What an ok call asked for landed                                         *)

\* A publish that a call made: it declined, or it landed and the call has held
\* the lock since, with its command's result in it.
Done(p, n) ==
  LET w == Work(p)[n]
  IN  \/ Declines(w)
      \/ /\ turn = p /\ Landed(ctx, w, Work(p), job[p].step - 1)
         /\ w.flag = "verify_runs" => job[p].result # None

\* The publishes a call is past are done.
PastIsDone ==
  \A p \in Callers : job[p].at = "write" =>
    /\ job[p].step <= Len(Work(p)) + 1
    /\ \A n \in 1 .. Len(Work(p)) : n < job[p].step => Done(p, n)

\* What a write carries is in a record.
Within(r, write, steps) ==
  \A i \in DOMAIN write.items :
    Holds(write.flag, r[Field(write.flag)], write.items[i].key,
          Asked(steps, Field(write.flag), write.items[i].key))

\* What OkMeansLanded says of a call that recorded ok.
AllLanded(r, call, steps) ==
  /\ \A n \in 1 .. Len(steps) : steps[n].flag \notin PlanFlags => Within(r, steps[n], steps)
  /\ ~ AppliesLifecycle(call) => ~ RefusesAKey(call)
  /\ "coverage" \in DOMAIN call => <<>> \notin ToSet(call.coverage)

OkLands ==
  \A p \in Callers :
    turn = p /\ job[p].at \notin {"idle", "write"} /\ job[p].ok =>
      job[p].call \in AllCalls /\ ~ Invalid(job[p].call) /\ AllLanded(ctx, job[p].call, Work(p))

LandInv == RecordInv /\ PastIsDone /\ OkLands

\* Nothing is missing of a publish that landed.
LEMMA LandedIsIn ==
  ASSUME NEW r, NEW steps, IsList(steps), NEW w, NEW n \in 0 .. Len(steps), Landed(r, w, steps, n)
  PROVE  Within(r, w, steps)
<1>1. Len(steps) \in Nat /\ n \in Nat /\ n <= Len(steps)
  BY ListFields
<1>2. Landed(r, w, steps, Len(steps))
  BY <1>1, LandedGrows
<1>3. Before(steps, Len(steps)) = steps
  BY BeforeAll
<1> QED
  BY <1>2, <1>3 DEF Landed, Within

\* Nor of one that was declined.
LEMMA DeclinedIsIn ==
  ASSUME NEW r, NEW steps, NEW w, Declines(w)
  PROVE  Within(r, w, steps)
BY EmptyList DEF Declines, Within

\* While a call has the turn no other changes the record or takes the turn, and
\* no other call's step gives it the turn.
LEMMA OthersWait ==
  ASSUME NEW p \in Callers, NEW q \in Callers, q # p, Act(q)
  PROVE  /\ turn = p => turn' = p /\ ctx' = ctx
         /\ turn' = p => turn = p
<1>1. p # None /\ q # None
  BY NoneAssumption
<1>2. CASE Publish(q) \/ FailPublish(q)
  BY <1>1, <1>2 DEF Publish, FailPublish
<1>3. CASE ~ (Publish(q) \/ FailPublish(q))
  BY <1>1, <1>3 DEF Act, Begin, RunCommand, EndWrites, OpenTrace, AppendLine, FailTrace, CheckCap,
                    ReplaceTrace, Kill, Exit
<1> QED
  BY <1>2, <1>3

\* What a call has done stays done while others act.
LEMMA OthersLeaveIt ==
  ASSUME LandInv, NEW p \in Callers, NEW q \in Callers, q # p, Act(q)
  PROVE  /\ job'[p].at = "write" => /\ job'[p].step <= Len(Work(p)') + 1
                                    /\ \A n \in 1 .. Len(Work(p)') : n < job'[p].step => Done(p, n)'
         /\ turn' = p /\ job'[p].at \notin {"idle", "write"} /\ job'[p].ok =>
              job'[p].call \in AllCalls /\ ~ Invalid(job'[p].call) /\ AllLanded(ctx', job'[p].call, Work(p)')
<1>1. job'[p] = job[p]
  BY OthersStay DEF LandInv, RecordInv, TraceInv
<1>2. Work(p)' = Work(p)
  BY <1>1 DEF Work
<1>3. ASSUME NEW n, Done(p, n) PROVE Done(p, n)'
  BY <1>1, <1>2, <1>3, OthersWait DEF Done
<1>4. job[p].at = "write" => /\ job[p].step <= Len(Work(p)) + 1
                             /\ \A n \in 1 .. Len(Work(p)) : n < job[p].step => Done(p, n)
  BY DEF LandInv, PastIsDone
<1>5. ASSUME turn' = p, job'[p].at \notin {"idle", "write"}, job'[p].ok
      PROVE  job'[p].call \in AllCalls /\ ~ Invalid(job'[p].call) /\ AllLanded(ctx', job'[p].call, Work(p)')
  <2>1. turn = p /\ ctx' = ctx
    BY <1>5, OthersWait
  <2>2. job[p].call \in AllCalls /\ ~ Invalid(job[p].call) /\ AllLanded(ctx, job[p].call, Work(p))
    BY <1>1, <1>5, <2>1 DEF LandInv, OkLands
  <2> QED
    BY <1>1, <1>2, <2>1, <2>2
<1> QED
  BY <1>1, <1>2, <1>3, <1>4, <1>5

\* The result of a command goes into a publish that is still to come.
LEMMA CommandLeavesIt ==
  ASSUME LandInv, NEW p \in Callers, RunCommand(p)
  PROVE  /\ job'[p].step <= Len(Work(p)') + 1
         /\ \A n \in 1 .. Len(Work(p)') : n < job'[p].step => Done(p, n)'
<1>1. /\ job'[p].call = job[p].call /\ job'[p].step = job[p].step
      /\ job[p].at = "write" /\ job[p].result = None /\ turn' = turn /\ ctx' = ctx
  BY CommandEnds DEF LandInv, RecordInv, TraceInv, RunCommand
<1>2. job[p].call \in AllCalls /\ ~ Invalid(job[p].call) /\ job[p].step \in Nat \ {0}
  BY <1>1 DEF LandInv, RecordInv, Writing
<1>3. PICK s : s = Work(p)
  OBVIOUS
<1>4. PICK t : t = Work(p)'
  OBVIOUS
<1>5. s = Steps(job[p].call, job[p].result) /\ t = Steps(job[p].call, job'[p].result) /\ IsCall(job[p].call)
  BY <1>1, <1>2, <1>3, <1>4, CallsAssumption DEF Work, AllCalls
<1>6. Len(s) = Len(t) /\ \A n \in 1 .. Len(s) : s[n].flag # "verify_runs" \/ s[n].items = <<>> => t[n] = s[n]
  BY <1>2, <1>5, ResultAside
<1>7. Len(s) \in Nat
  BY <1>2, <1>5, AskedStepsAre
<1>8. job[p].step <= Len(s)
  <2>1. Running(p) /\ Writing
    BY DEF RunCommand, LandInv, RecordInv
  <2>2. job[p].step \in 1 .. Len(s)
    BY <1>3, <2>1, RunningAt
  <2> QED
    BY <1>7, <2>2
<1> SUFFICES ASSUME NEW n \in 1 .. Len(t), n < job[p].step
             PROVE  Done(p, n)'
  BY <1>1, <1>2, <1>4, <1>6, <1>7, <1>8
<1>9. \A m \in 1 .. Len(s) : m < job[p].step => t[m] = s[m]
  <2> SUFFICES ASSUME NEW m \in 1 .. Len(s), m < job[p].step PROVE t[m] = s[m]
    OBVIOUS
  <2>1. Done(p, m)
    BY <1>1, <1>3 DEF LandInv, PastIsDone
  <2>2. s[m].items = <<>> \/ s[m].flag # "verify_runs"
    BY <1>1, <1>3, <2>1 DEF Done, Declines
  <2> QED
    BY <1>6, <2>2
<1>10. Before(t, job[p].step - 1) = Before(s, job[p].step - 1)
  <2>1. \A m \in 1 .. job[p].step - 1 : m \in 1 .. Len(s) /\ m < job[p].step
    BY <1>2, <1>7, <1>8
  <2> QED
    BY <1>9, <2>1 DEF Before
<1>11. Done(p, n) /\ t[n] = s[n] /\ n \in 1 .. Len(s)
  BY <1>1, <1>3, <1>6, <1>9 DEF LandInv, PastIsDone
<1>12. CASE Declines(s[n])
  BY <1>4, <1>11, <1>12 DEF Done, Declines
<1>13. CASE ~ Declines(s[n])
  <2>1. turn = p /\ Landed(ctx, s[n], s, job[p].step - 1) /\ s[n].flag # "verify_runs"
    BY <1>1, <1>3, <1>11, <1>13 DEF Done
  <2>2. Landed(ctx, t[n], t, job[p].step - 1)
    BY <1>10, <1>11, <2>1 DEF Landed
  <2> QED
    BY <1>1, <1>4, <1>11, <2>1, <2>2 DEF Done
<1> QED
  BY <1>12, <1>13

\* A publish that is made is done, and leaves done those before it.
LEMMA PublishLeavesIt ==
  ASSUME LandInv, NEW p \in Callers, Publish(p)
  PROVE  /\ job'[p].step <= Len(Work(p)') + 1
         /\ \A n \in 1 .. Len(Work(p)') : n < job'[p].step => Done(p, n)'
<1>1. /\ job'[p].call = job[p].call /\ job'[p].step = job[p].step + 1
      /\ job'[p].result = job[p].result /\ job[p].at = "write" /\ Running(p) /\ Writing /\ HasResult(p)
      /\ IsRecord(ctx)
  BY PublishEnds DEF LandInv, RecordInv, TraceInv, Publish
<1>2. PICK s : s = Work(p)
  OBVIOUS
<1>3. Work(p)' = s
  BY <1>1, <1>2 DEF Work
<1>4. PICK k : k = job[p].step
  OBVIOUS
<1>5. k \in 1 .. Len(s) /\ Now(p) = s[k] /\ Writable(s[k]) /\ AreWritable(s)
  BY <1>1, <1>2, <1>4, RunningAt
<1>6. k \in Nat \ {0} /\ (k + 1) - 1 = k /\ k - 1 \in Nat /\ k - 1 <= k /\ Len(s) \in Nat
  BY <1>5, ListFields DEF AreWritable
<1> SUFFICES ASSUME NEW n \in 1 .. Len(s), n < k + 1
             PROVE  Done(p, n)'
  BY <1>1, <1>3, <1>4, <1>5, <1>6
<1>7. n < k => Done(p, n)
  BY <1>1, <1>2, <1>4 DEF LandInv, PastIsDone
<1>8. Done(p, n)' <=> \/ Declines(s[n])
                      \/ /\ turn' = p /\ Landed(ctx', s[n], s, k)
                         /\ s[n].flag = "verify_runs" => job[p].result # None
  BY <1>1, <1>3, <1>4, <1>6 DEF Done, Declines
<1>9. n < k => \/ Declines(s[n])
               \/ /\ turn = p /\ Landed(ctx, s[n], s, k)
                  /\ s[n].flag = "verify_runs" => job[p].result # None
  BY <1>2, <1>4, <1>6, <1>7, LandedGrows DEF Done
<1>10. n < k \/ n = k
  BY <1>6
<1>11. CASE Declines(s[k])
  <2>1. ctx' = ctx /\ turn' = turn
    BY <1>5, <1>11 DEF Publish
  <2> QED
    BY <1>8, <1>9, <1>10, <1>11, <2>1
<1>12. CASE ~ Declines(s[k])
  <2>1. turn' = p /\ ctx' = Written(ctx, s[k])
    BY <1>5, <1>12 DEF Publish
  <2>2. CASE n = k
    <3>1. Landed(ctx', s[n], s, k)
      BY <1>1, <1>5, <1>6, <2>1, <2>2, WrittenLands
    <3>2. s[n].flag = "verify_runs" => job[p].result # None
      BY <1>1, <1>5, <1>12, <2>2 DEF HasResult
    <3> QED
      BY <1>8, <2>1, <3>1, <3>2
  <2>3. CASE n < k /\ ~ Declines(s[n])
    <3>1. Landed(ctx, s[n], s, k) /\ Writable(s[n])
      BY <1>5, <1>9, <2>3 DEF AreWritable
    <3>2. Landed(ctx', s[n], s, k)
      BY <1>1, <1>5, <1>6, <2>1, <3>1, WrittenKeeps
    <3> QED
      BY <1>8, <1>9, <2>1, <2>3, <3>2
  <2> QED
    BY <1>8, <1>10, <2>2, <2>3
<1> QED
  BY <1>11, <1>12

\* The plan check comes last, and only with a lifecycle flag that applies.
LEMMA PlanComesLast ==
  ASSUME NEW call, IsCall(call), ~ Invalid(call), NEW result, NEW steps, steps = Steps(call, result),
         NEW k \in 1 .. Len(steps), steps[k].flag \in PlanFlags
  PROVE  AppliesLifecycle(call) /\ \A n \in 1 .. Len(steps) : steps[n].flag \notin PlanFlags => n < k
<1>1. Len(steps) \in Nat
  BY StepsAre
<1>2. \A n \in 1 .. Len(steps) : steps[n].flag \in PlanFlags => AppliesLifecycle(call)
  BY StepsAre
<1>3. PICK m \in 0 .. Len(steps) : \A n \in 1 .. Len(steps) : steps[n].flag \in PlanFlags <=> n > m
  BY StepsAre
<1>4. \A n \in 1 .. Len(steps) : steps[n].flag \notin PlanFlags => n < k
  BY <1>1, <1>3
<1> QED
  BY <1>2, <1>4

\* A call that records ok, all of its publishes made or the plan check failing
\* at the end of them, has all of them in the record.
LEMMA EndsLanded ==
  ASSUME LandInv, NEW p \in Callers, FailPublish(p) \/ EndWrites(p), turn' = p, job'[p].ok
  PROVE  job'[p].call \in AllCalls /\ ~ Invalid(job'[p].call) /\ AllLanded(ctx', job'[p].call, Work(p)')
<1>1. /\ job'[p].call = job[p].call /\ job'[p].result = job[p].result /\ job[p].at = "write"
      /\ job \in [Callers -> Jobs] /\ Writing /\ ctx' = ctx
  BY WritersEnd DEF LandInv, RecordInv, TraceInv, TraceTypes, FailPublish, EndWrites
<1>2. PICK call : call = job[p].call
  OBVIOUS
<1>3. PICK s : s = Work(p)
  OBVIOUS
<1>4. PICK result : result = job[p].result
  OBVIOUS
<1>5. Work(p)' = s /\ job'[p].call = call /\ s = Steps(call, result)
  BY <1>1, <1>2, <1>3, <1>4 DEF Work
<1>6. PICK k : k = job[p].step
  OBVIOUS
<1>7. call \in AllCalls /\ ~ Invalid(call) /\ k \in Nat \ {0}
  BY <1>1, <1>2, <1>6 DEF Writing
<1>8. IsCall(call) /\ IsList(s) /\ Len(s) \in Nat
  BY <1>5, <1>7, AskedStepsAre
<1>9. \A n \in 1 .. Len(s) : n < k => Within(ctx, s[n], s)
  <2> SUFFICES ASSUME NEW n \in 1 .. Len(s), n < k PROVE Within(ctx, s[n], s)
    OBVIOUS
  <2>1. Done(p, n)
    BY <1>1, <1>3, <1>6 DEF LandInv, PastIsDone
  <2>2. CASE Declines(s[n])
    BY <2>2, DeclinedIsIn
  <2>3. CASE Landed(ctx, s[n], s, k - 1)
    <3>1. k - 1 \in 0 .. Len(s)
      BY <1>1, <1>3, <1>6, <1>7, <1>8 DEF LandInv, PastIsDone
    <3> QED
      BY <1>8, <2>3, <3>1, LandedIsIn
  <2> QED
    BY <1>3, <1>6, <2>1, <2>2, <2>3 DEF Done
<1>10. AppliesLifecycle(call) => "coverage" \notin DOMAIN call
  BY DEF AppliesLifecycle, LifecycleFlags
<1>11. CASE FailPublish(p)
  <2>1. job'[p].ok = (Now(p).flag \in PlanFlags) /\ Running(p)
    BY <1>1, <1>11 DEF FailPublish, PlanFlags, Jobs
  <2>2. k \in 1 .. Len(s) /\ Now(p) = s[k]
    BY <1>1, <1>3, <1>6, <2>1, RunningAt
  <2>3. s[k].flag \in PlanFlags
    BY <2>1, <2>2
  <2>4. AppliesLifecycle(call) /\ \A n \in 1 .. Len(s) : s[n].flag \notin PlanFlags => n < k
    BY <1>5, <1>7, <1>8, <2>2, <2>3, PlanComesLast
  <2>5. \A n \in 1 .. Len(s) : s[n].flag \notin PlanFlags => Within(ctx, s[n], s)
    BY <1>9, <2>4
  <2> QED
    BY <1>1, <1>5, <1>7, <1>10, <2>4, <2>5 DEF AllLanded
<1>12. CASE EndWrites(p)
  <2>1. k > Len(s) /\ job'[p].ok = (call = <<>> \/ Outcome(call, s))
    BY <1>1, <1>2, <1>3, <1>6, <1>12 DEF EndWrites, Jobs
  <2>2. \A n \in 1 .. Len(s) : Within(ctx, s[n], s)
    BY <1>7, <1>8, <1>9, <2>1
  <2>3. call = <<>> \/ Outcome(call, s)
    BY <2>1
  <2>4. call = <<>> => DOMAIN call = {}
    BY EmptyList
  <2>5. ~ AppliesLifecycle(call) => ~ RefusesAKey(call)
    BY <2>3, <2>4 DEF Outcome, RefusesAKey
  <2>6. "coverage" \in DOMAIN call => <<>> \notin ToSet(call.coverage)
    <3> SUFFICES ASSUME "coverage" \in DOMAIN call, <<>> \in ToSet(call.coverage) PROVE FALSE
      OBVIOUS
    <3>1. PICK n \in 1 .. Len(s) : s[n].flag = "coverage" /\ s[n].batched = FALSE /\ s[n].items = <<>>
      BY <1>5, <1>7, <1>8, StepsAre
    <3>2. DOMAIN s = 1 .. Len(s)
      BY <1>5, <1>7, AskedStepsAre
    <3>3. Declines(s[n])
      BY <3>1 DEF Declines
    <3>4. Outcome(call, s) /\ ~ AppliesLifecycle(call)
      BY <1>10, <2>3, <2>4
    <3> QED
      BY <3>1, <3>2, <3>3, <3>4 DEF Outcome
  <2> QED
    BY <1>1, <1>5, <1>7, <2>2, <2>5, <2>6 DEF AllLanded
<1> QED
  BY <1>11, <1>12

\* The invariant holds at the start.
LEMMA LandInitially == Init => LandInv
<1> SUFFICES ASSUME Init PROVE LandInv
  OBVIOUS
<1>1. \A p \in Callers : job[p].at = "idle"
  BY DEF Init, Idle
<1> QED
  BY <1>1, RecordInitially DEF LandInv, PastIsDone, OkLands

\* A step leaves done what is done and landed what has landed.
LEMMA LandActs ==
  ASSUME LandInv, NEW p \in Callers, Act(p)
  PROVE  PastIsDone' /\ OkLands'
<1>1. TraceTypes /\ TraceInv
  BY DEF LandInv, RecordInv, TraceInv
<1>2. ASSUME NEW q \in Callers
      PROVE  /\ job'[q].at = "write" => /\ job'[q].step <= Len(Work(q)') + 1
                                        /\ \A n \in 1 .. Len(Work(q)') : n < job'[q].step => Done(q, n)'
             /\ turn' = q /\ job'[q].at \notin {"idle", "write"} /\ job'[q].ok =>
                  /\ job'[q].call \in AllCalls /\ ~ Invalid(job'[q].call)
                  /\ AllLanded(ctx', job'[q].call, Work(q)')
  <2>1. CASE q # p
    BY <2>1, OthersLeaveIt
  <2>2. CASE q = p
    <3>1. CASE Begin(p)
      <4>1. PICK j : j = job'[p]
        OBVIOUS
      <4>2. j.step = 1 /\ j.ok = FALSE /\ j.call \in AllCalls /\ (j.at = "write" => ~ Invalid(j.call))
        BY <1>1, <3>1, <4>1, Begins
      <4>3. PICK s : s = Work(p)'
        OBVIOUS
      <4>4. j.at = "write" => Len(s) \in Nat
        BY <4>1, <4>2, <4>3, AskedStepsAre DEF Work
      <4>5. j.at = "write" => j.step <= Len(s) + 1 /\ \A n \in 1 .. Len(s) : ~ (n < j.step)
        BY <4>2, <4>4
      <4> QED
        BY <2>2, <4>1, <4>2, <4>3, <4>5
    <3>2. CASE RunCommand(p)
      BY <1>1, <2>2, <3>2, CommandEnds, CommandLeavesIt
    <3>3. CASE Publish(p)
      BY <1>1, <2>2, <3>3, PublishEnds, PublishLeavesIt
    <3>4. CASE FailPublish(p) \/ EndWrites(p)
      BY <1>1, <2>2, <3>4, WritersEnd, EndsLanded
    <3>5. CASE OpenTrace(p) \/ AppendLine(p) \/ FailTrace(p) \/ CheckCap(p) \/ ReplaceTrace(p) \/ Kill(p)
      <4>1. CASE job'[p].at = "idle"
        BY <2>2, <4>1
      <4>2. CASE job'[p].at # "idle"
        <5>1. /\ job'[p].at \notin {"idle", "write"} /\ job[p].at \notin {"idle", "write"}
              /\ job'[p].call = job[p].call /\ job'[p].ok = job[p].ok /\ job'[p].result = job[p].result
              /\ turn' = turn
          BY <1>1, <3>5, <4>2, TraceGoesOn
        <5>2. ctx' = ctx
          BY <3>5 DEF OpenTrace, AppendLine, FailTrace, CheckCap, ReplaceTrace, Kill
        <5>3. Work(p)' = Work(p)
          BY <5>1 DEF Work
        <5>4. turn = p /\ job[p].ok =>
                job[p].call \in AllCalls /\ ~ Invalid(job[p].call) /\ AllLanded(ctx, job[p].call, Work(p))
          BY <5>1 DEF LandInv, OkLands
        <5> QED
          BY <2>2, <5>1, <5>2, <5>3, <5>4
      <4> QED
        BY <4>1, <4>2
    <3> QED
      BY <3>1, <3>2, <3>3, <3>4, <3>5 DEF Act
  <2> QED
    BY <2>1, <2>2
<1> QED
  BY <1>2 DEF PastIsDone, OkLands

\* Every step keeps it.
LEMMA LandStays == LandInv /\ [Next]_vars => LandInv'
<1> SUFFICES ASSUME LandInv, [Next]_vars PROVE LandInv'
  OBVIOUS
<1>1. RecordInv'
  BY RecordInvStays DEF LandInv
<1>2. CASE UNCHANGED vars
  <2>1. job' = job /\ turn' = turn /\ ctx' = ctx
    BY <1>2 DEF vars
  <2>2. PastIsDone'
    BY <2>1 DEF LandInv, PastIsDone, Done, Work
  <2>3. OkLands'
    BY <2>1 DEF LandInv, OkLands, Work
  <2> QED
    BY <1>1, <2>2, <2>3 DEF LandInv
<1>3. CASE Next
  BY <1>1, <1>3, LandActs DEF Next, Act, LandInv
<1> QED
  BY <1>2, <1>3

\* A call that recorded ok has in the record, from then on until it lets go of
\* the lock, everything its writers were given and did not decline, whatever
\* calls, kills and failed publishes came before and whoever else waits.
THEOREM OkLanded == Spec => []OkMeansLanded
<1>1. LandInv => OkMeansLanded
  <2> SUFFICES ASSUME LandInv, NEW p \in Callers, turn = p, job[p].at \notin {"idle", "write"}, job[p].ok
               PROVE  /\ \A n \in DOMAIN Work(p) :
                           Work(p)[n].flag \notin {"plan_check", "plan_blocks"} => IsIn(Work(p)[n], Work(p))
                      /\ ~ AppliesLifecycle(job[p].call) => ~ RefusesAKey(job[p].call)
                      /\ "coverage" \in DOMAIN job[p].call => <<>> \notin ToSet(job[p].call.coverage)
    BY DEF OkMeansLanded
  <2>1. job[p].call \in AllCalls /\ ~ Invalid(job[p].call) /\ AllLanded(ctx, job[p].call, Work(p))
    BY DEF LandInv, OkLands
  <2>2. PICK s : s = Work(p)
    OBVIOUS
  <2>3. DOMAIN s = 1 .. Len(s)
    BY <2>1, <2>2, AskedStepsAre DEF Work
  <2> QED
    BY <2>1, <2>2, <2>3 DEF AllLanded, PlanFlags, Within, Holds, IsIn
<1> QED
  BY LandInitially, LandStays, <1>1, PTL DEF Spec

=============================================================================
