-------------------------- MODULE LivingSpecFoldProofs --------------------------
(***************************************************************************)
(* Safety of the fold of LivingSpecFold, for any capabilities, any living  *)
(* specs that start without a heading twice and any delta documents.       *)
(* FoldInv is the inductive invariant: no living spec has a heading twice. *)
(* On it rest what each edit of a spec does (RenameTo, RemoveHead,         *)
(* ReplaceBody, AddRequirement), what each stage of apply_deltas leaves    *)
(* (Renamed, Removed, Replaced, Extended, Promoted), and Landed, which     *)
(* says of a spec that a delta set is in it: a fold ends there, and a fold *)
(* of what has landed changes nothing.                                     *)
(***************************************************************************)
EXTENDS LivingSpecFold, SequenceTheorems, FiniteSetTheorems, NaturalsInduction, WellFoundedInduction, TLAPS

-----------------------------------------------------------------------------
(* Numbers, sequences and replays                                           *)

\* A set of natural numbers has a least one.
LEMMA LeastElement ==
  ASSUME NEW T, T \subseteq Nat, T # {}
  PROVE  \E n \in T : \A m \in T : n <= m
<1> DEFINE R == OpToRel(<, Nat)
<1>1. IsWellFoundedOn(R, Nat)
  BY NatLessThanWellFounded
<1>2. \A m, n \in Nat : m < n => <<m, n>> \in R
  BY DEF OpToRel
<1> HIDE DEF R
<1>3. PICK x \in T : \A y \in T : ~ (<<y, x>> \in R)
  BY <1>1, WFMin
<1>4. ASSUME NEW y \in T PROVE x <= y
  <2>1. x \in Nat /\ y \in Nat /\ ~ (y < x)
    BY <1>2, <1>3
  <2> QED
    BY <2>1
<1> QED
  BY <1>4

\* Min is an element.
LEMMA MinIsIn ==
  ASSUME NEW T, T \subseteq Nat, T # {}
  PROVE  Min(T) \in T
BY LeastElement DEF Min

\* Max is an element.
LEMMA MaxIsIn ==
  ASSUME NEW n \in Nat, NEW T, T \subseteq 1 .. n, T # {}
  PROVE  Max(T) \in T
<1> DEFINE rest == {k \in Nat : \E i \in T : k = n - i}
<1>1. PICK x \in T : x \in 1 .. n
  OBVIOUS
<1>2. n - x \in rest
  BY <1>1
<1>3. PICK k \in rest : \A m \in rest : k <= m
  BY <1>2, LeastElement
<1>4. PICK i \in T : i \in 1 .. n /\ k = n - i
  OBVIOUS
<1>5. ASSUME NEW j \in T PROVE i >= j
  <2>1. j \in 1 .. n /\ n - j \in rest
    OBVIOUS
  <2>2. k <= n - j
    BY <1>3, <2>1
  <2> HIDE DEF rest
  <2> QED
    BY <1>4, <2>1, <2>2
<1> QED
  BY <1>4, <1>5 DEF Max

\* A set that contains 0 and with a number below n the next one goes up to n.
LEMMA UpTo ==
  ASSUME NEW n \in Nat, NEW T, 0 \in T, \A i \in 0 .. n - 1 : i \in T => i + 1 \in T
  PROVE  0 .. n \subseteq T
<1> DEFINE missing == (0 .. n) \ T
<1>1. SUFFICES ASSUME missing # {} PROVE FALSE
  OBVIOUS
<1>2. missing \subseteq Nat
  OBVIOUS
<1> HIDE DEF missing
<1>3. PICK i \in missing : \A j \in missing : i <= j
  BY <1>1, <1>2, LeastElement
<1>4. i \in 0 .. n /\ i \notin T /\ i # 0 /\ i - 1 \in 0 .. n - 1
  BY <1>3 DEF missing
<1>5. i - 1 \notin missing
  BY <1>3, <1>4, <1>2
<1>6. i - 1 \in T /\ (i - 1) + 1 = i
  BY <1>4, <1>5 DEF missing
<1> QED
  BY <1>4, <1>6

\* What a sequence is.
LEMMA SeqFields ==
  ASSUME NEW S, NEW s \in Seq(S)
  PROVE  /\ Len(s) \in Nat /\ DOMAIN s = 1 .. Len(s) /\ \A i \in 1 .. Len(s) : s[i] \in S
         /\ ToSet(s) = {s[i] : i \in 1 .. Len(s)} /\ ToSet(s) \subseteq S
BY DEF ToSet

\* The element of a set of one.
LEMMA TheOne == \A x : The({x}) = x
BY DEF The

\* last is what comes of seq, one Op after the other, from base.
Replays(Op(_, _), base, seq, last) ==
  \E f : f[0] = base /\ f[Len(seq)] = last /\ \A i \in 0 .. Len(seq) - 1 : f[i + 1] = Op(f[i], seq[i + 1])

\* A replay unfolds step by step.
LEMMA ReplayUnfolds ==
  ASSUME NEW Op(_, _), NEW base, NEW seq, Len(seq) \in Nat
  PROVE  Replays(Op, base, seq, Replay(Op, base, seq))
<1> DEFINE n == Len(seq)
           Def(v, i) == The({Op(r, seq[i]) : r \in {v}})
           f == CHOOSE g : g = [i \in 0 .. n |-> IF i = 0 THEN base
                                ELSE The({Op(r, seq[i]) : r \in {g[i - 1]}})]
<1>1. n \in Nat /\ 0 \in Nat
  OBVIOUS
<1>2. Replay(Op, base, seq) = f[n]
  BY DEF Replay
<1>3. FiniteNatInductiveDefHypothesis(f, base, Def, 0, n)
  BY DEF FiniteNatInductiveDefHypothesis
<1>4. \A v, i : Def(v, i) = Op(v, seq[i])
  <2> SUFFICES ASSUME NEW v, NEW i PROVE Def(v, i) = Op(v, seq[i])
    OBVIOUS
  <2>1. {Op(r, seq[i]) : r \in {v}} = {Op(v, seq[i])}
    OBVIOUS
  <2> QED
    BY <2>1 DEF The
<1> HIDE DEF Def, f, n
<1>5. FiniteNatInductiveDefConclusion(f, base, Def, 0, n)
  BY <1>1, <1>3, FiniteNatInductiveDef
<1>6. f = [i \in 0 .. n |-> IF i = 0 THEN base ELSE Def(f[i - 1], i)]
  BY <1>5 DEF FiniteNatInductiveDefConclusion
<1>7. f[0] = base
  BY <1>1, <1>6
<1>8. ASSUME NEW i \in 0 .. n - 1 PROVE f[i + 1] = Op(f[i], seq[i + 1])
  <2>1. i + 1 \in 0 .. n /\ i + 1 # 0 /\ (i + 1) - 1 = i
    BY <1>1
  <2>2. f[i + 1] = Def(f[i], i + 1)
    BY <1>6, <2>1
  <2> QED
    BY <1>4, <2>2
<1> QED
  BY <1>2, <1>7, <1>8 DEF Replays, n

\* Each edit of seq stays within a set.
StaysIn(Op(_, _), seq, T) == \A v \in T, x \in ToSet(seq) : Op(v, x) \in T

\* Each edit of seq does its own part, and no other undoes it.
DoesEach(Op(_, _), seq, T, G) ==
  \A v \in T, x \in ToSet(seq) :
    Op(v, x) \in G[x] /\ \A y \in ToSet(seq) : v \in G[y] => Op(v, x) \in G[y]

\* A replay stays within a set that each of its steps stays within.
LEMMA ReplayStays ==
  ASSUME NEW Op(_, _), NEW base, NEW S, NEW seq \in Seq(S), NEW T, base \in T, StaysIn(Op, seq, T)
  PROVE  Replay(Op, base, seq) \in T
<1>0. Replays(Op, base, seq, Replay(Op, base, seq)) /\ Len(seq) \in Nat
  <2>1. Len(seq) \in Nat
    OBVIOUS
  <2> QED
    BY <2>1, ReplayUnfolds
<1>1. PICK f : /\ f[0] = base /\ f[Len(seq)] = Replay(Op, base, seq)
               /\ \A i \in 0 .. Len(seq) - 1 : f[i + 1] = Op(f[i], seq[i + 1])
  BY <1>0 DEF Replays
<1> DEFINE n == Len(seq)
           U == {i \in 0 .. n : f[i] \in T}
<1>2. 0 \in U
  BY <1>0, <1>1
<1>3. ASSUME NEW i \in 0 .. n - 1, i \in U PROVE i + 1 \in U
  <2>1. f[i] \in T /\ i + 1 \in DOMAIN seq /\ i + 1 \in 0 .. n
    BY <1>3
  <2>2. Op(f[i], seq[i + 1]) \in T
    BY <2>1 DEF StaysIn, ToSet
  <2> QED
    BY <1>1, <2>1, <2>2
<1>4. 0 .. n \subseteq U
  <2> HIDE DEF U
  <2> QED
    BY <1>0, <1>2, <1>3, UpTo
<1> QED
  BY <1>0, <1>1, <1>4

\* A replay does what each of its steps does and no other step undoes.
LEMMA ReplayEach ==
  ASSUME NEW Op(_, _), NEW base, NEW S, NEW seq \in Seq(S), NEW T, base \in T, NEW G,
         StaysIn(Op, seq, T), DoesEach(Op, seq, T, G)
  PROVE  \A x \in ToSet(seq) : Replay(Op, base, seq) \in G[x]
<1>0. Replays(Op, base, seq, Replay(Op, base, seq)) /\ Len(seq) \in Nat
  <2>1. Len(seq) \in Nat
    OBVIOUS
  <2> QED
    BY <2>1, ReplayUnfolds
<1>1. PICK f : /\ f[0] = base /\ f[Len(seq)] = Replay(Op, base, seq)
               /\ \A i \in 0 .. Len(seq) - 1 : f[i + 1] = Op(f[i], seq[i + 1])
  BY <1>0 DEF Replays
<1> DEFINE n == Len(seq)
           U == {i \in 0 .. n : f[i] \in T /\ \A j \in 1 .. i : f[i] \in G[seq[j]]}
<1>2. 0 \in U
  BY <1>0, <1>1
<1>3. ASSUME NEW i \in 0 .. n - 1, i \in U PROVE i + 1 \in U
  <2>1. f[i] \in T /\ i + 1 \in DOMAIN seq /\ i + 1 \in 0 .. n
    BY <1>3
  <2>2. f[i + 1] = Op(f[i], seq[i + 1]) /\ seq[i + 1] \in ToSet(seq)
    BY <1>1, <2>1 DEF ToSet
  <2>3. f[i + 1] \in T /\ f[i + 1] \in G[seq[i + 1]]
    BY <2>1, <2>2 DEF StaysIn, DoesEach
  <2>4. ASSUME NEW j \in 1 .. i PROVE f[i + 1] \in G[seq[j]]
    <3>1. f[i] \in G[seq[j]] /\ j \in DOMAIN seq
      BY <1>3
    <3>2. seq[j] \in ToSet(seq)
      BY <3>1 DEF ToSet
    <3> QED
      BY <2>1, <2>2, <3>1, <3>2 DEF DoesEach
  <2>5. \A j \in 1 .. i + 1 : f[i + 1] \in G[seq[j]]
    BY <2>3, <2>4
  <2> QED
    BY <2>1, <2>3, <2>5
<1>4. 0 .. n \subseteq U
  <2> HIDE DEF U
  <2> QED
    BY <1>0, <1>2, <1>3, UpTo
<1>5. \A j \in 1 .. n : f[n] \in G[seq[j]]
  BY <1>0, <1>4
<1>6. ToSet(seq) = {seq[j] : j \in 1 .. n}
  BY <1>0 DEF ToSet
<1> QED
  BY <1>1, <1>5, <1>6

\* Only keeps elements of the set.
LEMMA OnlyKeeps ==
  ASSUME NEW S, NEW seq \in Seq(S), NEW keep
  PROVE  Only(seq, keep) \in Seq(S \cap keep)
<1> DEFINE op(r, x) == IF x \in keep THEN Append(r, x) ELSE r
           all == {Replay(LAMBDA r, x : IF x \in k THEN Append(r, x) ELSE r, <<>>, seq) : k \in {keep}}
<1>1. all = {Replay(op, <<>>, seq)}
  BY DEF Replay
<1>2. Only(seq, keep) = The(all)
  BY DEF Only
<1>3. Only(seq, keep) = Replay(op, <<>>, seq)
  <2> HIDE DEF all, op
  <2> QED
    BY <1>1, <1>2, TheOne
<1>4. \A r \in Seq(S \cap keep), x \in ToSet(seq) : op(r, x) \in Seq(S \cap keep)
  <2> TAKE r \in Seq(S \cap keep), x \in ToSet(seq)
  <2>1. x \in S
    BY SeqFields
  <2>2. x \in keep => x \in S \cap keep
    BY <2>1
  <2> QED
    BY <2>2
<1>5. <<>> \in Seq(S \cap keep) /\ Len(seq) \in Nat
  OBVIOUS
<1>6. Replay(op, <<>>, seq) \in Seq(S \cap keep)
  <2> DEFINE T == Seq(S \cap keep)
  <2>1. <<>> \in T /\ StaysIn(op, seq, T)
    BY <1>4, <1>5 DEF StaysIn
  <2> HIDE DEF T, op
  <2>2. Replay(op, <<>>, seq) \in T
    BY <1>5, <2>1, ReplayStays
  <2> QED
    BY <2>2 DEF T
<1> QED
  BY <1>3, <1>6

\* Two sequences joined.
LEMMA Joins ==
  ASSUME NEW S, NEW x \in Seq(S), NEW a \in Seq(S), NEW b \in Seq(S)
  PROVE  a \o b \in Seq(S) /\ (x \o a) \o b = x \o (a \o b)
<1>1. a \o b \in Seq(S)
  OBVIOUS
<1>2. (x \o a) \o b = x \o (a \o b)
  OBVIOUS
<1> QED
  BY <1>1, <1>2

\* The recursive function FlattenSeq is made of.
Flatten(seqs, f) ==
  f = [i \in 1 .. Len(seqs) |-> IF i = 1 THEN seqs[i] ELSE f[i - 1] \o seqs[i]]

\* Each of its values adds one sequence to the value before.
LEMMA FlattenUnfolds ==
  ASSUME NEW seqs, Len(seqs) \in Nat \ {0}, NEW f, Flatten(seqs, f)
  PROVE  f[1] = seqs[1] /\ \A i \in 1 .. Len(seqs) - 1 : f[i + 1] = f[i] \o seqs[i + 1]
<1>1. \A j \in 1 .. Len(seqs) : f[j] = IF j = 1 THEN seqs[j] ELSE f[j - 1] \o seqs[j]
  BY DEF Flatten
<1>2. f[1] = seqs[1]
  BY <1>1
<1>3. ASSUME NEW i \in 1 .. Len(seqs) - 1 PROVE f[i + 1] = f[i] \o seqs[i + 1]
  <2>1. i + 1 \in 1 .. Len(seqs) /\ i + 1 # 1 /\ (i + 1) - 1 = i
    OBVIOUS
  <2> QED
    BY <1>1, <2>1
<1> QED
  BY <1>2, <1>3

\* The function exists, takes sequences as values, and its last value is FlattenSeq.
LEMMA FlattenRecursion ==
  ASSUME NEW S, NEW seqs \in Seq(Seq(S)), Len(seqs) # 0
  PROVE  \E f \in [1 .. Len(seqs) -> Seq(S)] : Flatten(seqs, f) /\ FlattenSeq(seqs) = f[Len(seqs)]
<1> DEFINE n == Len(seqs)
           Def(v, i) == v \o seqs[i]
           f == CHOOSE g : g = [i \in 1 .. n |-> IF i = 1 THEN seqs[i] ELSE g[i - 1] \o seqs[i]]
           h == CHOOSE g : g = [i \in 1 .. n |-> IF i = 1 THEN seqs[1] ELSE g[i - 1] \o seqs[i]]
<1>1. n \in Nat /\ 1 \in Nat /\ seqs[1] \in Seq(S)
  OBVIOUS
<1>2. \A g : [i \in 1 .. n |-> IF i = 1 THEN seqs[i] ELSE g[i - 1] \o seqs[i]]
              = [i \in 1 .. n |-> IF i = 1 THEN seqs[1] ELSE g[i - 1] \o seqs[i]]
  OBVIOUS
<1>3. f = h
  BY <1>2
<1>4. FlattenSeq(seqs) = f[n]
  BY DEF FlattenSeq
<1>5. FiniteNatInductiveDefHypothesis(h, seqs[1], Def, 1, n)
  BY DEF FiniteNatInductiveDefHypothesis
<1>6. \A v \in Seq(S), i \in 2 .. n : Def(v, i) \in Seq(S)
  OBVIOUS
<1> HIDE DEF Def, f, h, n
<1>7. FiniteNatInductiveDefConclusion(h, seqs[1], Def, 1, n)
  BY <1>1, <1>5, FiniteNatInductiveDef
<1>8. h = [i \in 1 .. n |-> IF i = 1 THEN seqs[1] ELSE h[i - 1] \o seqs[i]]
  BY <1>7 DEF FiniteNatInductiveDefConclusion, Def
<1>9. h \in [1 .. n -> Seq(S)]
  <2> DEFINE T == {i \in 1 .. n : h[i] \in Seq(S)}
  <2>1. Flatten(seqs, h)
    BY <1>2, <1>8 DEF Flatten, n
  <2>2. h[1] = seqs[1] /\ \A i \in 1 .. n - 1 : h[i + 1] = h[i] \o seqs[i + 1]
    BY <2>1, <1>1, FlattenUnfolds DEF n
  <2>3. 1 \in T
    BY <1>1, <2>2 DEF n
  <2>4. ASSUME NEW i \in 1 .. n - 1, i \in T PROVE i + 1 \in T
    <3>1. i + 1 \in 1 .. n /\ seqs[i + 1] \in Seq(S)
      BY <1>1 DEF n
    <3>2. h[i] \in Seq(S) /\ h[i + 1] = h[i] \o seqs[i + 1]
      BY <2>2, <2>4
    <3>3. h[i] \o seqs[i + 1] \in Seq(S)
      BY <3>1, <3>2, Joins
    <3> QED
      BY <3>1, <3>2, <3>3
  <2>5. 1 .. n \subseteq T
    <3> HIDE DEF T
    <3>1. 0 \in {0} \cup T
      OBVIOUS
    <3>2. ASSUME NEW i \in 0 .. n - 1, i \in {0} \cup T PROVE i + 1 \in {0} \cup T
      <4>1. i = 0 \/ (i \in 1 .. n - 1 /\ i \in T)
        BY <1>1, <3>2
      <4> QED
        BY <2>3, <2>4, <4>1
    <3>3. 0 .. n \subseteq {0} \cup T
      <4> DEFINE U == {0} \cup T
      <4> HIDE DEF U
      <4> QED
        BY <1>1, <3>1, <3>2, UpTo DEF U
    <3> QED
      BY <1>1, <3>3
  <2> QED
    BY <1>8, <2>5
<1> QED
  BY <1>2, <1>3, <1>4, <1>8, <1>9 DEF Flatten, n

\* No sequences, no elements.
LEMMA FlattenNothing == FlattenSeq(<<>>) = <<>>
BY DEF FlattenSeq

\* Flattening is a sequence of the elements.
LEMMA FlattenType ==
  ASSUME NEW S, NEW seqs \in Seq(Seq(S))
  PROVE  FlattenSeq(seqs) \in Seq(S)
<1>1. CASE Len(seqs) = 0
  <2>1. seqs = <<>> /\ <<>> \in Seq(S)
    BY <1>1
  <2> QED
    BY <2>1, FlattenNothing
<1>2. CASE Len(seqs) # 0
  <2>1. PICK f \in [1 .. Len(seqs) -> Seq(S)] : FlattenSeq(seqs) = f[Len(seqs)]
    BY <1>2, FlattenRecursion
  <2>2. Len(seqs) \in 1 .. Len(seqs)
    BY <1>2
  <2> QED
    BY <2>1, <2>2
<1> QED
  BY <1>1, <1>2

-----------------------------------------------------------------------------
(* What each edit does to a living spec without a heading twice             *)

Unique(spec) == \A i, j \in DOMAIN spec : spec[i].head = spec[j].head => i = j

UniqueSpecs == {spec \in Seq(Requirements) : Unique(spec)}

\* A function from 1 .. n is a sequence.
LEMMA FunctionIsSeq ==
  ASSUME NEW S, NEW n \in Nat, NEW f \in [1 .. n -> S]
  PROVE  f \in Seq(S) /\ Len(f) = n /\ DOMAIN f = 1 .. n
OBVIOUS

\* The first requirement of a heading is there when any is.
LEMMA SpanIs ==
  ASSUME NEW s \in Seq(Requirements), NEW head \in Heads(s)
  PROVE  Span(s, head) \in 1 .. Len(s) /\ s[Span(s, head)].head = head
<1> DEFINE at == {i \in 1 .. Len(s) : s[i].head = head}
<1>1. Len(s) \in Nat /\ DOMAIN s = 1 .. Len(s)
  OBVIOUS
<1>2. at # {} /\ at \subseteq Nat
  BY <1>1 DEF Heads, ToSet
<1>3. PICK i \in at : \A j \in at : i <= j
  <2> HIDE DEF at
  <2> QED
    BY <1>2, LeastElement
<1>4. ASSUME NEW j \in 1 .. i - 1 PROVE s[j].head # head
  <2>1. j \in 1 .. Len(s) /\ ~ (i <= j)
    BY <1>1, <1>3
  <2> QED
    BY <1>3, <2>1
<1>5. \E k \in DOMAIN s : s[k].head = head /\ \A j \in 1 .. k - 1 : s[j].head # head
  BY <1>1, <1>3, <1>4
<1> QED
  BY <1>1, <1>5 DEF Span

\* The requirements of a spec, its headings, and the one of each.
LEMMA SpecFields ==
  ASSUME NEW s \in UniqueSpecs
  PROVE  /\ s \in Seq(Requirements) /\ Len(s) \in Nat /\ DOMAIN s = 1 .. Len(s)
         /\ \A i \in 1 .. Len(s) : s[i] \in Requirements /\ s[i] \in ToSet(s)
         /\ ToSet(s) \subseteq Requirements /\ Heads(s) \subseteq Headings
         /\ \A q \in ToSet(s) : q.head \in Heads(s) /\ \E i \in 1 .. Len(s) : q = s[i]
         /\ \A h \in Heads(s) : \E q \in ToSet(s) : q.head = h
<1>1. s \in Seq(Requirements) /\ Len(s) \in Nat /\ DOMAIN s = 1 .. Len(s)
  BY DEF UniqueSpecs
<1>2. \A i \in 1 .. Len(s) : s[i] \in Requirements
  BY <1>1
<1>3. ToSet(s) = {s[i] : i \in 1 .. Len(s)}
  BY <1>1 DEF ToSet
<1>4. ToSet(s) \subseteq Requirements
  BY <1>2, <1>3
<1>5. \A q \in Requirements : q.head \in Headings
  BY DEF Requirements
<1> QED
  BY <1>1, <1>2, <1>3, <1>4, <1>5 DEF Heads

\* Two requirements of one spec have two headings.
LEMMA OneOfEach ==
  ASSUME NEW s \in UniqueSpecs, NEW p \in ToSet(s), NEW q \in ToSet(s), p.head = q.head
  PROVE  p = q
<1>1. PICK i \in 1 .. Len(s), j \in 1 .. Len(s) : p = s[i] /\ q = s[j]
  BY SpecFields
<1>2. i \in DOMAIN s /\ j \in DOMAIN s
  BY SpecFields
<1> QED
  BY <1>1, <1>2 DEF UniqueSpecs, Unique

\* A requirement under another heading.
LEMMA HeadingOf ==
  ASSUME NEW q \in Requirements, NEW new \in Headings
  PROVE  LET p == [q EXCEPT !.head = new]
         IN  /\ p \in Requirements /\ p.head = new /\ p.body = q.body
             /\ p.touches = q.touches /\ p.direct = q.direct
             /\ p.aligns = q.aligns /\ p.adopted = q.adopted
BY DEF Requirements

\* RenameTo changes one heading, or nothing.
LEMMA RenameToDoes ==
  ASSUME NEW s \in UniqueSpecs, NEW old \in Headings, NEW new \in Headings
  PROVE  LET t == RenameTo(s, old, new)
         IN  /\ t \in UniqueSpecs
             /\ (old \in Heads(s) /\ new \notin Heads(s)) =>
                  /\ Heads(t) = (Heads(s) \ {old}) \cup {new}
                  /\ ToSet(t) = {IF q.head = old THEN [q EXCEPT !.head = new] ELSE q : q \in ToSet(s)}
             /\ ~ (old \in Heads(s) /\ new \notin Heads(s)) => t = s
<1> DEFINE t == RenameTo(s, old, new)
           To(q) == IF q.head = old THEN [q EXCEPT !.head = new] ELSE q
<1>1. CASE ~ (old \in Heads(s) /\ new \notin Heads(s))
  BY <1>1 DEF RenameTo
<1>2. CASE old \in Heads(s) /\ new \notin Heads(s)
  <2>1. /\ s \in Seq(Requirements) /\ Len(s) \in Nat /\ DOMAIN s = 1 .. Len(s)
        /\ \A i \in 1 .. Len(s) : s[i] \in Requirements /\ s[i] \in ToSet(s)
        /\ ToSet(s) = {s[i] : i \in 1 .. Len(s)}
    BY SpecFields, SeqFields
  <2>2. PICK k : k = Span(s, old)
    OBVIOUS
  <2>3. k \in 1 .. Len(s) /\ s[k].head = old
    BY <1>2, <2>1, <2>2, SpanIs
  <2>4. t = [s EXCEPT ![k] = [s[k] EXCEPT !.head = new]]
    BY <1>2, <2>2 DEF RenameTo
  <2>5. \A i \in 1 .. Len(s) : s[i].head = old => i = k
    BY <2>1, <2>3 DEF UniqueSpecs, Unique
  <2>6. \A q \in Requirements : To(q) \in Requirements /\ To(q).head = IF q.head = old THEN new ELSE q.head
    BY HeadingOf
  <2>7. \A i \in 1 .. Len(s) : t[i] = To(s[i])
    BY <2>1, <2>3, <2>4, <2>5
  <2>8. Len(t) = Len(s) /\ DOMAIN t = 1 .. Len(s)
    BY <2>1, <2>3, <2>4
  <2>9. t \in [1 .. Len(s) -> Requirements]
    <3>1. s \in [1 .. Len(s) -> Requirements] /\ [s[k] EXCEPT !.head = new] \in Requirements
      BY <2>1, <2>3, HeadingOf
    <3> QED
      BY <2>3, <2>4, <3>1
  <2> HIDE DEF t, To
  <2>10. t \in Seq(Requirements)
    BY <2>1, <2>9, FunctionIsSeq
  <2>11. ToSet(t) = {To(q) : q \in ToSet(s)}
    <3>1. ToSet(t) = {t[i] : i \in 1 .. Len(s)}
      BY <2>8 DEF ToSet
    <3> QED
      BY <2>1, <2>7, <3>1
  <2>12. ASSUME NEW i \in DOMAIN t, NEW j \in DOMAIN t, t[i].head = t[j].head PROVE i = j
    <3>1. /\ i \in 1 .. Len(s) /\ j \in 1 .. Len(s)
          /\ s[i].head # new /\ s[j].head # new
      BY <1>2, <2>1, <2>8 DEF Heads
    <3>2. /\ t[i].head = IF s[i].head = old THEN new ELSE s[i].head
          /\ t[j].head = IF s[j].head = old THEN new ELSE s[j].head
      BY <2>1, <2>6, <2>7, <3>1
    <3>3. s[i].head = s[j].head
      BY <2>12, <3>1, <3>2
    <3> QED
      BY <2>1, <3>1, <3>3 DEF UniqueSpecs, Unique
  <2>13. t \in UniqueSpecs
    BY <2>10, <2>12 DEF UniqueSpecs, Unique
  <2>14. Heads(t) = (Heads(s) \ {old}) \cup {new}
    <3>1. Heads(t) = {To(q).head : q \in ToSet(s)}
      BY <2>11 DEF Heads
    <3>2. \A q \in ToSet(s) : To(q).head = IF q.head = old THEN new ELSE q.head
      BY <2>1, <2>6
    <3>3. \E q \in ToSet(s) : q.head = old
      BY <2>1, <2>3
    <3> QED
      BY <3>1, <3>2, <3>3 DEF Heads
  <2> QED
    BY <1>2, <2>11, <2>13, <2>14 DEF t, To
<1> QED
  BY <1>1, <1>2

\* RemoveHead takes the requirement of a heading out.
LEMMA RemoveHeadDoes ==
  ASSUME NEW s \in UniqueSpecs, NEW head
  PROVE  LET t == RemoveHead(s, head)
         IN  /\ t \in UniqueSpecs
             /\ ToSet(t) = {q \in ToSet(s) : q.head # head}
             /\ head \notin Heads(s) => t = s
<1> DEFINE t == RemoveHead(s, head)
<1>1. /\ s \in Seq(Requirements) /\ Len(s) \in Nat /\ DOMAIN s = 1 .. Len(s)
      /\ \A i \in 1 .. Len(s) : s[i] \in Requirements /\ s[i] \in ToSet(s)
      /\ ToSet(s) = {s[i] : i \in 1 .. Len(s)}
  BY SpecFields, SeqFields
<1>2. CASE head \notin Heads(s)
  <2>1. t = s
    BY <1>2 DEF RemoveHead
  <2>2. {q \in ToSet(s) : q.head # head} = ToSet(s)
    BY <1>2 DEF Heads
  <2> QED
    BY <1>2, <2>1, <2>2
<1>3. CASE head \in Heads(s)
  <2>1. PICK k : k = Span(s, head)
    OBVIOUS
  <2>2. k \in 1 .. Len(s) /\ s[k].head = head
    BY <1>1, <1>3, <2>1, SpanIs
  <2>3. t = SubSeq(s, 1, k - 1) \o SubSeq(s, k + 1, Len(s))
    BY <1>3, <2>1 DEF RemoveHead, RemoveAt
  <2>4. /\ SubSeq(s, 1, k - 1) \in Seq(Requirements) /\ Len(SubSeq(s, 1, k - 1)) = k - 1
        /\ \A i \in 1 .. k - 1 : SubSeq(s, 1, k - 1)[i] = s[i]
    BY <1>1, <2>2
  <2>5. /\ SubSeq(s, k + 1, Len(s)) \in Seq(Requirements) /\ Len(SubSeq(s, k + 1, Len(s))) = Len(s) - k
        /\ \A i \in 1 .. Len(s) - k : SubSeq(s, k + 1, Len(s))[i] = s[k + i]
    <3>1. k + 1 \in 1 .. Len(s) + 1 /\ Len(s) \in k .. Len(s)
      BY <1>1, <2>2
    <3>2. SubSeq(s, k + 1, Len(s)) \in Seq(Requirements)
      BY <1>1, <3>1
    <3>3. Len(SubSeq(s, k + 1, Len(s))) = Len(s) - k
      <4>1. k + 1 \in Int /\ Len(s) \in Int /\ \A i \in k + 1 .. Len(s) : s[i] \in Requirements
        BY <1>1, <2>2
      <4>2. Len(SubSeq(s, k + 1, Len(s))) = IF k + 1 <= Len(s) THEN Len(s) - (k + 1) + 1 ELSE 0
        BY <4>1, SubSeqProperties
      <4>3. k \in Nat /\ Len(s) \in Nat /\ k <= Len(s)
        BY <1>1, <2>2
      <4> HIDE DEF t
      <4>4. CASE k + 1 <= Len(s)
        BY <4>2, <4>3, <4>4
      <4>5. CASE k = Len(s)
        BY <4>2, <4>3, <4>5
      <4> QED
        BY <4>3, <4>4, <4>5
    <3>4. ASSUME NEW i \in 1 .. Len(s) - k PROVE SubSeq(s, k + 1, Len(s))[i] = s[k + i]
      BY <1>1, <2>2, <3>1
    <3> QED
      BY <3>2, <3>3, <3>4
  <2>6. \A a, b \in Seq(Requirements) :
          /\ a \o b \in Seq(Requirements) /\ Len(a \o b) = Len(a) + Len(b)
          /\ \A i \in 1 .. Len(a) + Len(b) : (a \o b)[i] = IF i <= Len(a) THEN a[i] ELSE b[i - Len(a)]
    OBVIOUS
  <2>7. t \in Seq(Requirements) /\ Len(t) = (k - 1) + (Len(s) - k)
    BY <2>3, <2>4, <2>5, <2>6
  <2>8. Len(t) = Len(s) - 1 /\ DOMAIN t = 1 .. Len(s) - 1
    BY <1>1, <2>2, <2>7
  <2> DEFINE at(i) == IF i < k THEN i ELSE i + 1
  <2>9. \A i \in 1 .. Len(s) - 1 : t[i] = s[at(i)] /\ at(i) \in 1 .. Len(s) /\ at(i) # k
    <3> TAKE i \in 1 .. Len(s) - 1
    <3>0. PICK size : size = Len(s)
      OBVIOUS
    <3>1. size \in Nat /\ k \in Nat /\ i \in Nat /\ 1 <= k /\ k <= size /\ 1 <= i /\ i <= size - 1
      BY <1>1, <2>2, <3>0
    <3> HIDE DEF t
    <3>2. PICK a, b : /\ t = a \o b
                      /\ a \in Seq(Requirements) /\ Len(a) = k - 1 /\ (\A j \in 1 .. k - 1 : a[j] = s[j])
                      /\ b \in Seq(Requirements) /\ Len(b) = size - k
                      /\ (\A j \in 1 .. size - k : b[j] = s[k + j])
      <4>1. PICK a, b : a = SubSeq(s, 1, k - 1) /\ b = SubSeq(s, k + 1, Len(s))
        OBVIOUS
      <4>2. t = a \o b
        BY <2>3, <4>1
      <4>3. a \in Seq(Requirements) /\ Len(a) = k - 1 /\ (\A j \in 1 .. k - 1 : a[j] = s[j])
        BY <2>4, <4>1
      <4>4. b \in Seq(Requirements) /\ Len(b) = size - k /\ (\A j \in 1 .. size - k : b[j] = s[k + j])
        BY <2>5, <3>0, <4>1
      <4> QED
        BY <4>2, <4>3, <4>4
    <3>3. i \in 1 .. (k - 1) + (size - k)
      BY <3>1
    <3>4. t[i] = IF i <= k - 1 THEN a[i] ELSE b[i - (k - 1)]
      <4>1. a \in Seq(Requirements) /\ b \in Seq(Requirements)
        BY <3>2
      <4>2. \A j \in 1 .. Len(a) + Len(b) : (a \o b)[j] = IF j <= Len(a) THEN a[j] ELSE b[j - Len(a)]
        BY <2>6, <4>1
      <4>3. t = a \o b /\ Len(a) = k - 1 /\ Len(b) = size - k
        BY <3>2
      <4>4. i \in 1 .. Len(a) + Len(b)
        BY <3>3, <4>3
      <4> QED
        BY <4>2, <4>3, <4>4
    <3>5. CASE i < k
      <4>1. i \in 1 .. k - 1 /\ i <= k - 1 /\ i \in 1 .. size /\ i # k
        BY <3>1, <3>5
      <4>2. t[i] = s[i]
        BY <3>2, <3>4, <4>1
      <4> QED
        BY <3>0, <3>5, <4>1, <4>2
    <3>6. CASE ~ (i < k)
      <4>1. i - (k - 1) \in 1 .. size - k /\ k + (i - (k - 1)) = i + 1 /\ ~ (i <= k - 1)
            /\ i + 1 \in 1 .. size /\ i + 1 # k
        BY <3>1, <3>6
      <4>2. t[i] = b[i - (k - 1)]
        BY <3>4, <4>1
      <4>3. t[i] = s[i + 1]
        BY <3>2, <4>1, <4>2
      <4> QED
        BY <3>0, <3>6, <4>1, <4>3
    <3> QED
      BY <3>5, <3>6
  <2>10. \A i, j \in 1 .. Len(s) - 1 : at(i) = at(j) => i = j
    <3> TAKE i, j \in 1 .. Len(s) - 1
    <3>1. i \in Nat /\ j \in Nat /\ k \in Nat
      BY <1>1, <2>2
    <3> QED
      BY <3>1
  <2>11. \A j \in 1 .. Len(s) : j # k => \E i \in 1 .. Len(s) - 1 : at(i) = j
    <3> TAKE j \in 1 .. Len(s)
    <3>1. CASE j < k
      <4>1. j \in 1 .. Len(s) - 1 /\ at(j) = j
        BY <1>1, <2>2, <3>1
      <4> QED
        BY <4>1
    <3>2. CASE j > k
      <4>1. j - 1 \in 1 .. Len(s) - 1 /\ at(j - 1) = j
        BY <1>1, <2>2, <3>2
      <4> QED
        BY <4>1
    <3>3. j < k \/ j = k \/ j > k
      BY <1>1, <2>2
    <3> HIDE DEF at
    <3> QED
      BY <3>1, <3>2, <3>3
  <2> HIDE DEF at, t
  <2>12. ASSUME NEW i \in DOMAIN t, NEW j \in DOMAIN t, t[i].head = t[j].head PROVE i = j
    <3>1. /\ i \in 1 .. Len(s) - 1 /\ j \in 1 .. Len(s) - 1
          /\ at(i) \in DOMAIN s /\ at(j) \in DOMAIN s /\ s[at(i)].head = s[at(j)].head
      BY <1>1, <2>8, <2>9, <2>12
    <3>2. at(i) = at(j)
      BY <3>1 DEF UniqueSpecs, Unique
    <3> QED
      BY <2>10, <3>1, <3>2
  <2>13. t \in UniqueSpecs
    BY <2>7, <2>12 DEF UniqueSpecs, Unique
  <2>14. \A j \in 1 .. Len(s) : s[j].head = head => j = k
    BY <1>1, <2>2 DEF UniqueSpecs, Unique
  <2>15. ToSet(t) = {t[i] : i \in 1 .. Len(s) - 1}
    BY <2>8 DEF ToSet
  <2>16. ASSUME NEW q \in ToSet(t) PROVE q \in ToSet(s) /\ q.head # head
    BY <1>1, <2>9, <2>14, <2>15
  <2>17. ASSUME NEW q \in ToSet(s), q.head # head PROVE q \in ToSet(t)
    <3>1. PICK j \in 1 .. Len(s) : q = s[j]
      BY <1>1
    <3>2. PICK i \in 1 .. Len(s) - 1 : at(i) = j
      BY <2>2, <2>11, <2>17, <3>1
    <3> QED
      BY <2>9, <2>15, <3>1, <3>2
  <2>18. ToSet(t) = {q \in ToSet(s) : q.head # head}
    BY <2>16, <2>17
  <2> QED
    BY <1>3, <2>13, <2>18 DEF t
<1> QED
  BY <1>2, <1>3

\* A delta that adds or changes.
Edits == [head : Headings, body : Bodies, touches : SUBSET Files, direct : BOOLEAN]

\* KeepMarker gives a requirement of the delta's heading and text, with the files the fold
\* reads of the old marker, and a second time the same one.
LEMMA KeepMarkerIs ==
  ASSUME NEW q \in Requirements, NEW u \in Edits
  PROVE  LET p == KeepMarker(q, u)
         IN  /\ p \in Requirements /\ p.head = u.head /\ p.body = u.body
             /\ TouchesGlobs(q) \subseteq TouchesGlobs(p) /\ p.aligns = q.aligns /\ p.adopted = FALSE
             /\ KeepMarker(p, u) = p
<1> DEFINE p == KeepMarker(q, u)
           globs == TouchesGlobs(q) \cup TouchesGlobs(u)
<1>1. /\ q.touches \in SUBSET Files /\ u.touches \in SUBSET Files
      /\ u.direct \in BOOLEAN /\ q.direct \in BOOLEAN
      /\ globs \in SUBSET Files
  BY DEF Requirements, Edits, TouchesGlobs
<1>2. /\ p = [head |-> u.head, body |-> u.body, touches |-> p.touches, direct |-> p.direct,
              aligns |-> q.aligns, adopted |-> FALSE]
      /\ p.head = u.head /\ p.body = u.body /\ p.aligns = q.aligns /\ p.adopted = FALSE
      /\ p.touches = (IF globs = {} THEN u.touches ELSE globs) /\ p.direct = (globs # {} \/ u.direct)
  BY DEF KeepMarker
<1>3. u.head \in Headings /\ u.body \in Bodies /\ q.aligns \in SUBSET Cap /\ p.direct \in BOOLEAN
      /\ p.touches \in SUBSET Files
  <2>1. u.head \in Headings /\ u.body \in Bodies /\ q.aligns \in SUBSET Cap
    BY DEF Requirements, Edits
  <2> QED
    BY <1>1, <1>2, <2>1
<1> HIDE DEF p, globs
<1>4. p \in Requirements
  BY <1>2, <1>3 DEF Requirements
<1>5. TouchesGlobs(p) = globs
  <2>1. CASE globs = {}
    BY <1>1, <1>2, <2>1 DEF globs, TouchesGlobs
  <2>2. CASE globs # {}
    BY <1>2, <2>2 DEF TouchesGlobs
  <2> QED
    BY <2>1, <2>2
<1>6. TouchesGlobs(p) \cup TouchesGlobs(u) = globs
  BY <1>5 DEF globs
<1>7. KeepMarker(p, u) = p
  <2>1. KeepMarker(p, u)
          = [head |-> u.head, body |-> u.body, touches |-> IF globs = {} THEN u.touches ELSE globs,
             direct |-> globs # {} \/ u.direct, aligns |-> p.aligns, adopted |-> FALSE]
    BY <1>6 DEF KeepMarker
  <2> QED
    BY <1>2, <2>1
<1>8. TouchesGlobs(q) \subseteq TouchesGlobs(p)
  BY <1>5 DEF globs
<1> QED
  BY <1>2, <1>4, <1>7, <1>8 DEF p

\* ReplaceBody changes the requirement of one heading, which keeps it.
LEMMA ReplaceBodyDoes ==
  ASSUME NEW s \in UniqueSpecs, NEW u \in Edits
  PROVE  LET t == ReplaceBody(s, u)
         IN  /\ t \in UniqueSpecs
             /\ ToSet(t) = {IF q.head = u.head THEN KeepMarker(q, u) ELSE q : q \in ToSet(s)}
             /\ Heads(t) = Heads(s)
             /\ (\A q \in ToSet(s) : q.head = u.head => KeepMarker(q, u) = q) => t = s
<1> DEFINE t == ReplaceBody(s, u)
           To(q) == IF q.head = u.head THEN KeepMarker(q, u) ELSE q
<1>1. /\ s \in Seq(Requirements) /\ Len(s) \in Nat /\ DOMAIN s = 1 .. Len(s)
      /\ \A i \in 1 .. Len(s) : s[i] \in Requirements /\ s[i] \in ToSet(s)
      /\ ToSet(s) = {s[i] : i \in 1 .. Len(s)}
  BY SpecFields, SeqFields
<1>2. \A q \in Requirements : To(q) \in Requirements /\ To(q).head = q.head
  BY KeepMarkerIs
<1>3. t \in [1 .. Len(s) -> Requirements] /\ \A i \in 1 .. Len(s) : t[i] = To(s[i])
  <2>1. CASE u.head \notin Heads(s)
    <3>1. t = s /\ s \in [1 .. Len(s) -> Requirements]
      BY <1>1, <2>1 DEF ReplaceBody
    <3>2. \A i \in 1 .. Len(s) : s[i].head # u.head
      BY <1>1, <2>1 DEF Heads
    <3> QED
      BY <3>1, <3>2
  <2>2. CASE u.head \in Heads(s)
    <3>1. PICK k : k = Span(s, u.head)
      OBVIOUS
    <3>2. k \in 1 .. Len(s) /\ s[k].head = u.head
      BY <1>1, <2>2, <3>1, SpanIs
    <3>3. t = [s EXCEPT ![k] = KeepMarker(s[k], u)]
      BY <2>2, <3>1 DEF ReplaceBody
    <3>4. \A i \in 1 .. Len(s) : s[i].head = u.head => i = k
      BY <1>1, <3>2 DEF UniqueSpecs, Unique
    <3>5. s \in [1 .. Len(s) -> Requirements]
      BY <1>1
    <3>6. KeepMarker(s[k], u) \in Requirements
      BY <1>1, <3>2, KeepMarkerIs
    <3>7. \A i \in 1 .. Len(s) : t[i] = To(s[i])
      BY <1>1, <3>2, <3>3, <3>4
    <3> QED
      BY <3>2, <3>3, <3>5, <3>6, <3>7
  <2> QED
    BY <2>1, <2>2
<1> HIDE DEF t, To
<1>4. t \in Seq(Requirements) /\ DOMAIN t = 1 .. Len(s)
  BY <1>1, <1>3, FunctionIsSeq
<1>5. ToSet(t) = {To(q) : q \in ToSet(s)}
  <2>1. ToSet(t) = {t[i] : i \in 1 .. Len(s)}
    BY <1>4 DEF ToSet
  <2> QED
    BY <1>1, <1>3, <2>1
<1>6. \A i, j \in DOMAIN t : t[i].head = t[j].head => i = j
  BY <1>1, <1>2, <1>3, <1>4 DEF UniqueSpecs, Unique
<1>7. t \in UniqueSpecs
  BY <1>4, <1>6 DEF UniqueSpecs, Unique
<1>8. Heads(t) = Heads(s)
  <2>1. Heads(t) = {To(q).head : q \in ToSet(s)}
    BY <1>5 DEF Heads
  <2>2. \A q \in ToSet(s) : To(q).head = q.head
    BY <1>2, SpecFields
  <2> QED
    BY <2>1, <2>2 DEF Heads
<1>9. ASSUME \A q \in ToSet(s) : q.head = u.head => KeepMarker(q, u) = q PROVE t = s
  <2>1. \A i \in 1 .. Len(s) : To(s[i]) = s[i]
    BY <1>1, <1>9 DEF To
  <2>2. s \in [1 .. Len(s) -> Requirements]
    BY <1>1
  <2> QED
    BY <1>3, <2>1, <2>2
<1> QED
  BY <1>5, <1>7, <1>8, <1>9 DEF t, To

\* What is added comes under its heading, with no edges and confirmed.
Fresh(head, unit) ==
  [head |-> head, body |-> unit.body, touches |-> unit.touches, direct |-> unit.direct, aligns |-> {},
   adopted |-> FALSE]

\* The delta that is added would leave it as it is.
LEMMA FreshIs ==
  ASSUME NEW head \in Headings, NEW u \in Edits
  PROVE  LET r == Fresh(head, u)
         IN  /\ r \in Requirements /\ r.head = head /\ r.body = u.body
             /\ \A w \in Edits : w.head = head /\ w.body = u.body /\ w.touches = u.touches
                                 /\ w.direct = u.direct => KeepMarker(r, w) = r
<1>1. PICK r : r = Fresh(head, u)
  OBVIOUS
<1>2. u.body \in Bodies /\ u.touches \in SUBSET Files /\ u.direct \in BOOLEAN
  BY DEF Edits
<1>3. /\ r = [head |-> head, body |-> u.body, touches |-> u.touches, direct |-> u.direct,
              aligns |-> {}, adopted |-> FALSE]
      /\ r.head = head /\ r.body = u.body /\ r.touches = u.touches /\ r.direct = u.direct
      /\ r.aligns = {} /\ r.adopted = FALSE
  BY <1>1 DEF Fresh
<1>4. r \in Requirements
  BY <1>2, <1>3 DEF Requirements
<1>5. ASSUME NEW w \in Edits, w.head = head, w.body = u.body, w.touches = u.touches, w.direct = u.direct
      PROVE  KeepMarker(r, w) = r
  <2>1. TouchesGlobs(r) \cup TouchesGlobs(w) = TouchesGlobs(u)
    BY <1>3, <1>5 DEF TouchesGlobs
  <2>2. KeepMarker(r, w)
          = [head |-> head, body |-> u.body,
             touches |-> IF TouchesGlobs(u) = {} THEN u.touches ELSE TouchesGlobs(u),
             direct |-> TouchesGlobs(u) # {} \/ u.direct, aligns |-> {}, adopted |-> FALSE]
    BY <1>3, <1>5, <2>1 DEF KeepMarker
  <2>3. /\ (IF TouchesGlobs(u) = {} THEN u.touches ELSE TouchesGlobs(u)) = u.touches
        /\ (TouchesGlobs(u) # {} \/ u.direct) = u.direct
    BY <1>2 DEF TouchesGlobs
  <2> QED
    BY <1>3, <2>2, <2>3
<1> QED
  BY <1>1, <1>3, <1>4, <1>5

\* AddRequirement puts a requirement at the end, unless its heading is taken.
LEMMA AddRequirementDoes ==
  ASSUME NEW s \in UniqueSpecs, NEW head \in Headings, NEW u \in Edits
  PROVE  LET t == AddRequirement(s, head, u)
         IN  /\ t \in UniqueSpecs
             /\ ToSet(t) = ToSet(s) \cup IF head \in Heads(s) THEN {} ELSE {Fresh(head, u)}
             /\ Heads(t) = Heads(s) \cup {head}
             /\ head \in Heads(s) => t = s
<1> DEFINE t == AddRequirement(s, head, u)
<1>1. CASE head \in Heads(s)
  BY <1>1 DEF AddRequirement
<1>2. CASE head \notin Heads(s)
  <2>1. /\ s \in Seq(Requirements) /\ Len(s) \in Nat /\ DOMAIN s = 1 .. Len(s)
        /\ \A i \in 1 .. Len(s) : s[i] \in Requirements /\ s[i] \in ToSet(s)
        /\ ToSet(s) = {s[i] : i \in 1 .. Len(s)}
    BY SpecFields, SeqFields
  <2>2. PICK r : r = Fresh(head, u)
    OBVIOUS
  <2>3. r \in Requirements /\ r.head = head
    BY <2>2, FreshIs
  <2>4. t = Append(s, r)
    BY <1>2, <2>2 DEF AddRequirement, Fresh
  <2>5. /\ t \in Seq(Requirements) /\ DOMAIN t = 1 .. Len(s) + 1
        /\ \A i \in 1 .. Len(s) : t[i] = s[i]
        /\ t[Len(s) + 1] = r
    BY <2>1, <2>3, <2>4
  <2>6. \A i \in 1 .. Len(s) : s[i].head # head
    BY <1>2, <2>1 DEF Heads
  <2>7. \A i \in 1 .. Len(s) + 1 : i \in 1 .. Len(s) \/ i = Len(s) + 1
    BY <2>1
  <2> HIDE DEF t
  <2>8. ASSUME NEW i \in DOMAIN t, NEW j \in DOMAIN t, t[i].head = t[j].head PROVE i = j
    BY <2>1, <2>3, <2>5, <2>6, <2>7, <2>8 DEF UniqueSpecs, Unique
  <2>9. t \in UniqueSpecs
    BY <2>5, <2>8 DEF UniqueSpecs, Unique
  <2>10. ToSet(t) = ToSet(s) \cup {r}
    <3>1. ToSet(t) = {t[i] : i \in 1 .. Len(s) + 1}
      BY <2>5 DEF ToSet
    <3>2. Len(s) + 1 \in 1 .. Len(s) + 1 /\ \A i \in 1 .. Len(s) : i \in 1 .. Len(s) + 1
      BY <2>1
    <3> QED
      BY <2>1, <2>5, <2>7, <3>1, <3>2
  <2>11. Heads(t) = Heads(s) \cup {head}
    BY <2>3, <2>10 DEF Heads
  <2> QED
    BY <1>2, <2>2, <2>9, <2>10, <2>11 DEF t
<1>3. head \in Heads(s) => Heads(s) = Heads(s) \cup {head}
  OBVIOUS
<1> QED
  BY <1>1, <1>2, <1>3

-----------------------------------------------------------------------------
(* Delta blocks and where their renames lead                                *)

\* What _deltas_for picks of a document.
Selected(d, c, default) == Only(d, {b \in ToSet(d) : b.cap = c \/ (b.cap = None /\ c = default)})

AreBlocks(blocks) == blocks \in Seq(ToSet(blocks)) /\ \A b \in ToSet(blocks) : IsBlock(b)

\* Each unit of the blocks of one verb.
UnitsIn(verb, blocks) == UNION {ToSet(b.units) : b \in {d \in ToSet(blocks) : d.verb = verb}}

Verbs == {"added", "modified", "removed", "renamed"}

\* What is picked of a document of blocks is one, of the capability's blocks alone.
LEMMA SelectedAre ==
  ASSUME NEW d, AreBlocks(d), NEW c, NEW default
  PROVE  /\ AreBlocks(Selected(d, c, default))
         /\ ToSet(Selected(d, c, default)) \subseteq
              {b \in ToSet(d) : b.cap = c \/ (b.cap = None /\ c = default)}
<1> DEFINE mine == {b \in ToSet(d) : b.cap = c \/ (b.cap = None /\ c = default)}
           s == Selected(d, c, default)
<1>1. s \in Seq(ToSet(d) \cap mine)
  BY OnlyKeeps DEF Selected, AreBlocks
<1> HIDE DEF mine, s
<1>2. ToSet(s) \subseteq ToSet(d) \cap mine
  BY <1>1, SeqFields
<1>3. s \in Seq(ToSet(s))
  <2>1. Len(s) \in Nat /\ DOMAIN s = 1 .. Len(s) /\ s \in [1 .. Len(s) -> ToSet(s)]
    BY <1>1 DEF ToSet
  <2> QED
    BY <2>1, FunctionIsSeq
<1> QED
  BY <1>2, <1>3 DEF AreBlocks, mine, s

\* The units of the blocks of one verb, in their order.
LEMMA UnitsAre ==
  ASSUME NEW blocks, AreBlocks(blocks), NEW verb \in Verbs
  PROVE  /\ Units(verb, blocks) \in Seq(UnitsOf(verb))
         /\ ToSet(Units(verb, blocks)) \subseteq UnitsIn(verb, blocks) \cap UnitsOf(verb)
<1> DEFINE seqs == [i \in DOMAIN blocks |-> IF blocks[i].verb = verb THEN blocks[i].units ELSE <<>>]
           U == UnitsIn(verb, blocks) \cap UnitsOf(verb)
<1>1. Len(blocks) \in Nat /\ DOMAIN blocks = 1 .. Len(blocks)
      /\ \A i \in 1 .. Len(blocks) : blocks[i] \in ToSet(blocks)
  BY DEF AreBlocks
<1>2. ASSUME NEW i \in 1 .. Len(blocks) PROVE seqs[i] \in Seq(U)
  <2>1. CASE blocks[i].verb # verb
    <3>1. seqs[i] = <<>> /\ <<>> \in Seq(U)
      BY <1>1, <2>1
    <3> QED
      BY <3>1
  <2>2. CASE blocks[i].verb = verb
    <3>1. PICK u : u = blocks[i].units
      OBVIOUS
    <3>2. u \in Seq(UnitsOf(verb))
      BY <1>1, <2>2, <3>1 DEF AreBlocks, IsBlock
    <3>3. ToSet(u) \subseteq UnitsOf(verb) /\ ToSet(u) \subseteq UnitsIn(verb, blocks)
      <4>1. ToSet(u) \subseteq UnitsOf(verb)
        BY <3>2, SeqFields
      <4> QED
        BY <1>1, <2>2, <3>1, <4>1 DEF UnitsIn
    <3>4. Len(u) \in Nat /\ DOMAIN u = 1 .. Len(u) /\ \A j \in 1 .. Len(u) : u[j] \in ToSet(u)
      BY <3>2 DEF ToSet
    <3>5. u \in [1 .. Len(u) -> U]
      <4>1. u = [j \in 1 .. Len(u) |-> u[j]]
        BY <3>2
      <4>2. \A j \in 1 .. Len(u) : u[j] \in U
        BY <3>3, <3>4
      <4> QED
        BY <4>1, <4>2
    <3>6. u \in Seq(U)
      BY <3>4, <3>5, FunctionIsSeq
    <3> QED
      BY <1>1, <2>2, <3>1, <3>6
  <2> QED
    BY <2>1, <2>2
<1>3. seqs \in Seq(Seq(U))
  <2>1. seqs \in [1 .. Len(blocks) -> Seq(U)]
    BY <1>1, <1>2
  <2> HIDE DEF seqs, U
  <2> QED
    BY <1>1, <2>1, FunctionIsSeq
<1>4. Units(verb, blocks) \in Seq(U)
  <2>1. Units(verb, blocks) = FlattenSeq(seqs)
    BY DEF Units
  <2> HIDE DEF seqs, U
  <2> QED
    BY <1>3, <2>1, FlattenType
<1>5. ToSet(Units(verb, blocks)) \subseteq U
  BY <1>4, SeqFields
<1>6. Units(verb, blocks) \in Seq(UnitsOf(verb))
  BY <1>4
<1> QED
  BY <1>5, <1>6

\* The fields of what the blocks of each verb list.
LEMMA UnitFields ==
  ASSUME NEW blocks, AreBlocks(blocks)
  PROVE  /\ \A verb \in Verbs : Units(verb, blocks) \in Seq(UnitsOf(verb))
         /\ \A u \in ToSet(Units("added", blocks)) : u \in Edits
         /\ \A u \in ToSet(Units("modified", blocks)) : u \in Edits
         /\ \A u \in ToSet(Units("removed", blocks)) : u.head \in Headings
         /\ \A p \in ToSet(Units("renamed", blocks)) : p.old \in Headings /\ p.new \in Headings
<1>1. \A verb \in Verbs : /\ Units(verb, blocks) \in Seq(UnitsOf(verb))
                          /\ ToSet(Units(verb, blocks)) \subseteq UnitsOf(verb)
  BY UnitsAre
<1>2. UnitsOf("added") = Edits /\ UnitsOf("modified") = Edits
  BY DEF UnitsOf, Edits
<1>3. ASSUME NEW u \in UnitsOf("removed") PROVE u.head \in Headings
  <2>1. u \in [head : Headings]
    BY DEF UnitsOf
  <2> QED
    BY <2>1
<1>4. ASSUME NEW p \in UnitsOf("renamed") PROVE p.old \in Headings /\ p.new \in Headings
  <2>1. p \in [old : Headings, new : Headings]
    BY DEF UnitsOf
  <2> QED
    BY <2>1
<1>5. "added" \in Verbs /\ "modified" \in Verbs /\ "removed" \in Verbs /\ "renamed" \in Verbs
  BY DEF Verbs
<1>6. ToSet(Units("added", blocks)) \subseteq Edits /\ ToSet(Units("modified", blocks)) \subseteq Edits
  BY <1>1, <1>2, <1>5
<1>7. /\ ToSet(Units("removed", blocks)) \subseteq UnitsOf("removed")
      /\ ToSet(Units("renamed", blocks)) \subseteq UnitsOf("renamed")
  BY <1>1, <1>5
<1> QED
  BY <1>1, <1>3, <1>4, <1>6, <1>7

\* A rename map takes headings straight to where they stay.
MapFits(m) ==
  DOMAIN m \subseteq Headings /\ \A h \in DOMAIN m : m[h] \in Headings /\ m[h] \notin DOMAIN m

\* Following renames leads from heading to heading.
LEMMA FollowIs ==
  ASSUME NEW m, DOMAIN m \subseteq Headings, \A h \in DOMAIN m : m[h] \in Headings,
         NEW head \in Headings, NEW n \in Nat
  PROVE  Follow(m, head, n) \in Headings
<1> DEFINE op(h, i) == IF h \in DOMAIN m THEN m[h] ELSE h
           steps == [i \in 1 .. n |-> i]
<1>1. Follow(m, head, n) = Replay(op, head, steps)
  BY DEF Follow
<1>2. StaysIn(op, steps, Headings)
  BY DEF StaysIn
<1>3. steps \in Seq(Nat)
  BY FunctionIsSeq
<1> HIDE DEF op, steps
<1>4. Replay(op, head, steps) \in Headings
  BY <1>2, <1>3, ReplayStays
<1> QED
  BY <1>1, <1>4

\* The rename map of the blocks, one level out of its set of one.
MapOf(pairs) ==
  LET n     == Len(pairs)
      first == [h \in {p.old : p \in ToSet(pairs)} |-> FirstRename(pairs, h).new]
      end   == [h \in DOMAIN first |-> Follow(first, h, n)]
  IN  [h \in {o \in DOMAIN first : end[o] \notin DOMAIN first} |-> end[h]]

\* The rename map fits, and has renamed headings alone.
LEMMA RenameMapIs ==
  ASSUME NEW blocks, AreBlocks(blocks)
  PROVE  /\ MapFits(RenameMap(blocks))
         /\ \A h \in DOMAIN RenameMap(blocks) : \E p \in ToSet(Units("renamed", blocks)) : p.old = h
<1>1. PICK pairs : pairs = Units("renamed", blocks)
  OBVIOUS
<1>2. RenameMap(blocks) = MapOf(pairs)
  <2>1. RenameMap(blocks) = The({MapOf(q) : q \in {Units("renamed", blocks)}})
    BY DEF RenameMap, MapOf
  <2>2. {MapOf(q) : q \in {Units("renamed", blocks)}} = {MapOf(pairs)}
    BY <1>1
  <2> QED
    BY <2>1, <2>2, TheOne
<1> DEFINE n == Len(pairs)
           olds == {p.old : p \in ToSet(pairs)}
           first == [h \in olds |-> FirstRename(pairs, h).new]
           end == [h \in DOMAIN first |-> Follow(first, h, n)]
<1>3. /\ pairs \in Seq(UnitsOf("renamed")) /\ n \in Nat /\ DOMAIN pairs = 1 .. n
      /\ \A i \in 1 .. n : pairs[i] \in ToSet(pairs)
      /\ \A p \in ToSet(pairs) : p.old \in Headings /\ p.new \in Headings
  <2>1. pairs \in Seq(UnitsOf("renamed"))
    BY <1>1, UnitFields DEF Verbs
  <2>2. n \in Nat /\ DOMAIN pairs = 1 .. n /\ \A i \in 1 .. n : pairs[i] \in ToSet(pairs)
    BY <2>1 DEF ToSet
  <2> QED
    BY <1>1, <2>1, <2>2, UnitFields
<1>4. ASSUME NEW h \in olds PROVE FirstRename(pairs, h).new \in Headings
  <2> DEFINE at == {i \in DOMAIN pairs : pairs[i].old = h}
  <2>1. PICK p \in ToSet(pairs) : p.old = h
    OBVIOUS
  <2>2. at # {} /\ at \subseteq Nat
    BY <1>3, <2>1 DEF ToSet
  <2>3. PICK i : i = Min(at)
    OBVIOUS
  <2>4. i \in at
    <3> HIDE DEF at
    <3> QED
      BY <2>2, <2>3, MinIsIn
  <2>5. FirstRename(pairs, h) = pairs[i]
    BY <2>3 DEF FirstRename
  <2> QED
    BY <1>3, <2>4, <2>5
<1>5. DOMAIN first = olds /\ olds \subseteq Headings
  BY <1>3
<1>6. \A h \in DOMAIN first : first[h] \in Headings
  BY <1>4
<1>7. \A h \in olds : Follow(first, h, n) \in Headings
  <2> TAKE h \in olds
  <2> HIDE DEF first, olds, n
  <2> QED
    BY <1>3, <1>5, <1>6, FollowIs
<1> DEFINE dom == {o \in DOMAIN first : end[o] \notin DOMAIN first}
<1>8. MapOf(pairs) = [h \in dom |-> end[h]]
  BY DEF MapOf
<1>9. \A h \in dom : h \in olds /\ end[h] = Follow(first, h, n) /\ end[h] \notin olds
  BY <1>5
<1> HIDE DEF olds, first, end, dom
<1>10. PICK m : m = MapOf(pairs)
  OBVIOUS
<1>11. DOMAIN m = dom /\ \A h \in dom : m[h] = end[h]
  BY <1>8, <1>10
<1>12. MapFits(m)
  BY <1>5, <1>7, <1>9, <1>11 DEF MapFits
<1>13. \A h \in DOMAIN m : \E p \in ToSet(pairs) : p.old = h
  BY <1>9, <1>11 DEF olds
<1> QED
  BY <1>1, <1>2, <1>10, <1>12, <1>13

\* A heading's final name stays, and is nothing that is renamed.
LEMMA FinalIs ==
  ASSUME NEW m, MapFits(m), NEW h \in Headings
  PROVE  /\ ResolveRename(m, h) \in Headings /\ ResolveRename(m, h) \notin DOMAIN m
         /\ ResolveRename(m, ResolveRename(m, h)) = ResolveRename(m, h)
         /\ h \in DOMAIN m => ResolveRename(m, h) = m[h] /\ m[h] \in Range(m)
         /\ h \notin DOMAIN m => ResolveRename(m, h) = h
BY DEF MapFits, ResolveRename, Range

-----------------------------------------------------------------------------
(* The stages of apply_deltas                                               *)

Kept(m, blocks) == {ResolveRename(m, u.head) : u \in ToSet(Units("added", blocks))} \cup Range(m)

Edited(m, blocks, u) ==
  IF ResolveRename(m, u.head) \in Heads(Units("modified", blocks))
  THEN LastText(Units("modified", blocks), ResolveRename(m, u.head))
  ELSE IF u.head \in Heads(Units("modified", blocks)) THEN LastText(Units("modified", blocks), u.head) ELSE u

Renamed(m, blocks, spec) ==
  Replay(LAMBDA s, p : IF p.old \in DOMAIN m THEN RenameTo(s, p.old, ResolveRename(m, p.old)) ELSE s,
         spec, Units("renamed", blocks))

Removed(m, blocks, spec) ==
  Replay(LAMBDA s, u : IF ResolveRename(m, u.head) \in Kept(m, blocks) THEN s ELSE RemoveHead(s, u.head),
         spec, Units("removed", blocks))

Replaced(blocks, spec) == Replay(ReplaceBody, spec, Units("modified", blocks))

Extended(m, blocks, spec) ==
  Replay(LAMBDA s, u : AddRequirement(s, ResolveRename(m, u.head), Edited(m, blocks, u)),
         spec, Units("added", blocks))

Promoted(m, blocks, present, spec) ==
  Replay(LAMBDA s, u : IF u.head \in present THEN s
                       ELSE AddRequirement(s, ResolveRename(m, u.head), u),
         spec, Units("modified", blocks))

\* What the stages leave of a spec once those before the last two are done.
Finished(m, blocks, spec) ==
  Promoted(m, blocks, Heads(spec), Extended(m, blocks, Replaced(blocks, spec)))

\* apply_deltas is its stages, one after the other.
LEMMA Stages ==
  ASSUME NEW spec, NEW blocks
  PROVE  ApplyDeltas(spec, blocks)
           = Finished(RenameMap(blocks), blocks,
                      Removed(RenameMap(blocks), blocks, Renamed(RenameMap(blocks), blocks, spec)))
<1> DEFINE m == The({RenameMap(blocks)})
<1>1. ApplyDeltas(spec, blocks) = Finished(m, blocks, Removed(m, blocks, Renamed(m, blocks, spec)))
  BY DEF ApplyDeltas, Finished, Promoted, Extended, Replaced, Removed, Renamed, Kept, Edited
<1>2. m = RenameMap(blocks)
  BY TheOne
<1> QED
  BY <1>1, <1>2

\* The renames leave a spec within a set that each of them leaves it within.
LEMMA RenamedStays ==
  ASSUME NEW m, NEW blocks, AreBlocks(blocks), NEW T, NEW spec \in T,
         \A s \in T, p \in ToSet(Units("renamed", blocks)) :
           p.old \in DOMAIN m => RenameTo(s, p.old, ResolveRename(m, p.old)) \in T
  PROVE  Renamed(m, blocks, spec) \in T
<1> DEFINE op(s, p) == IF p.old \in DOMAIN m THEN RenameTo(s, p.old, ResolveRename(m, p.old)) ELSE s
           seq == Units("renamed", blocks)
<1>1. Renamed(m, blocks, spec) = Replay(op, spec, seq)
  BY DEF Renamed
<1>2. StaysIn(op, seq, T)
  BY DEF StaysIn
<1>3. seq \in Seq(UnitsOf("renamed"))
  BY UnitFields DEF Verbs
<1> HIDE DEF op, seq
<1>4. Replay(op, spec, seq) \in T
  BY <1>2, <1>3, ReplayStays
<1> QED
  BY <1>1, <1>4

\* Each rename does what it alone would, and no other undoes it.
LEMMA RenamedEach ==
  ASSUME NEW m, NEW blocks, AreBlocks(blocks), NEW T, NEW spec \in T, NEW G,
         \A s \in T, p \in ToSet(Units("renamed", blocks)) :
           p.old \in DOMAIN m => RenameTo(s, p.old, ResolveRename(m, p.old)) \in T,
         \A s \in T, p \in ToSet(Units("renamed", blocks)) :
           /\ p.old \in DOMAIN m => RenameTo(s, p.old, ResolveRename(m, p.old)) \in G[p]
           /\ p.old \notin DOMAIN m => s \in G[p]
           /\ p.old \in DOMAIN m => \A q \in ToSet(Units("renamed", blocks)) :
                s \in G[q] => RenameTo(s, p.old, ResolveRename(m, p.old)) \in G[q]
  PROVE  \A p \in ToSet(Units("renamed", blocks)) : Renamed(m, blocks, spec) \in G[p]
<1> DEFINE op(s, p) == IF p.old \in DOMAIN m THEN RenameTo(s, p.old, ResolveRename(m, p.old)) ELSE s
           seq == Units("renamed", blocks)
<1>1. Renamed(m, blocks, spec) = Replay(op, spec, seq)
  BY DEF Renamed
<1>2. StaysIn(op, seq, T) /\ DoesEach(op, seq, T, G)
  BY DEF StaysIn, DoesEach
<1>3. seq \in Seq(UnitsOf("renamed"))
  BY UnitFields DEF Verbs
<1> HIDE DEF op
<1>4. \A p \in ToSet(seq) : Replay(op, spec, seq) \in G[p]
  <2> HIDE DEF seq
  <2> QED
    BY <1>2, <1>3, ReplayEach
<1> QED
  BY <1>1, <1>4

\* The removals leave a spec within a set that each of them leaves it within.
LEMMA RemovedStays ==
  ASSUME NEW m, NEW blocks, AreBlocks(blocks), NEW T, NEW spec \in T,
         \A s \in T, u \in ToSet(Units("removed", blocks)) :
           ResolveRename(m, u.head) \notin Kept(m, blocks) => RemoveHead(s, u.head) \in T
  PROVE  Removed(m, blocks, spec) \in T
<1> DEFINE op(s, u) == IF ResolveRename(m, u.head) \in Kept(m, blocks) THEN s ELSE RemoveHead(s, u.head)
           seq == Units("removed", blocks)
<1>1. Removed(m, blocks, spec) = Replay(op, spec, seq)
  BY DEF Removed
<1>2. StaysIn(op, seq, T)
  BY DEF StaysIn
<1>3. seq \in Seq(UnitsOf("removed"))
  BY UnitFields DEF Verbs
<1> HIDE DEF op, seq
<1>4. Replay(op, spec, seq) \in T
  BY <1>2, <1>3, ReplayStays
<1> QED
  BY <1>1, <1>4

\* Each removal does what it alone would, and no other undoes it.
LEMMA RemovedEach ==
  ASSUME NEW m, NEW blocks, AreBlocks(blocks), NEW T, NEW spec \in T, NEW G,
         \A s \in T, u \in ToSet(Units("removed", blocks)) :
           ResolveRename(m, u.head) \notin Kept(m, blocks) => RemoveHead(s, u.head) \in T,
         \A s \in T, u \in ToSet(Units("removed", blocks)) :
           /\ ResolveRename(m, u.head) \notin Kept(m, blocks) => RemoveHead(s, u.head) \in G[u]
           /\ ResolveRename(m, u.head) \in Kept(m, blocks) => s \in G[u]
           /\ ResolveRename(m, u.head) \notin Kept(m, blocks) => \A w \in ToSet(Units("removed", blocks)) :
                s \in G[w] => RemoveHead(s, u.head) \in G[w]
  PROVE  \A u \in ToSet(Units("removed", blocks)) : Removed(m, blocks, spec) \in G[u]
<1> DEFINE op(s, u) == IF ResolveRename(m, u.head) \in Kept(m, blocks) THEN s ELSE RemoveHead(s, u.head)
           seq == Units("removed", blocks)
<1>1. Removed(m, blocks, spec) = Replay(op, spec, seq)
  BY DEF Removed
<1>2. StaysIn(op, seq, T) /\ DoesEach(op, seq, T, G)
  BY DEF StaysIn, DoesEach
<1>3. seq \in Seq(UnitsOf("removed"))
  BY UnitFields DEF Verbs
<1> HIDE DEF op
<1>4. \A u \in ToSet(seq) : Replay(op, spec, seq) \in G[u]
  <2> HIDE DEF seq
  <2> QED
    BY <1>2, <1>3, ReplayEach
<1> QED
  BY <1>1, <1>4

\* The modifications leave a spec within a set that each of them leaves it within.
LEMMA ReplacedStays ==
  ASSUME NEW blocks, AreBlocks(blocks), NEW T, NEW spec \in T,
         \A s \in T, u \in ToSet(Units("modified", blocks)) : ReplaceBody(s, u) \in T
  PROVE  Replaced(blocks, spec) \in T
<1> DEFINE seq == Units("modified", blocks)
<1>1. Replaced(blocks, spec) = Replay(ReplaceBody, spec, seq)
  BY DEF Replaced
<1>2. StaysIn(ReplaceBody, seq, T)
  BY DEF StaysIn
<1>3. seq \in Seq(UnitsOf("modified"))
  BY UnitFields DEF Verbs
<1> HIDE DEF seq
<1>4. Replay(ReplaceBody, spec, seq) \in T
  BY <1>2, <1>3, ReplayStays
<1> QED
  BY <1>1, <1>4

\* Each modification does what it alone would, and no other undoes it.
LEMMA ReplacedEach ==
  ASSUME NEW blocks, AreBlocks(blocks), NEW T, NEW spec \in T, NEW G,
         \A s \in T, u \in ToSet(Units("modified", blocks)) : ReplaceBody(s, u) \in T,
         \A s \in T, u \in ToSet(Units("modified", blocks)) :
           /\ ReplaceBody(s, u) \in G[u]
           /\ \A w \in ToSet(Units("modified", blocks)) : s \in G[w] => ReplaceBody(s, u) \in G[w]
  PROVE  \A u \in ToSet(Units("modified", blocks)) : Replaced(blocks, spec) \in G[u]
<1> DEFINE seq == Units("modified", blocks)
<1>1. Replaced(blocks, spec) = Replay(ReplaceBody, spec, seq)
  BY DEF Replaced
<1>2. StaysIn(ReplaceBody, seq, T) /\ DoesEach(ReplaceBody, seq, T, G)
  BY DEF StaysIn, DoesEach
<1>3. seq \in Seq(UnitsOf("modified"))
  BY UnitFields DEF Verbs
<1>4. \A u \in ToSet(seq) : Replay(ReplaceBody, spec, seq) \in G[u]
  <2> HIDE DEF seq
  <2> QED
    BY <1>2, <1>3, ReplayEach
<1> QED
  BY <1>1, <1>4

\* The additions leave a spec within a set that each of them leaves it within, and
\* each does what it alone would when no other undoes it.
LEMMA ExtendedEach ==
  ASSUME NEW m, NEW blocks, AreBlocks(blocks), NEW T, NEW spec \in T, NEW G,
         \A s \in T, u \in ToSet(Units("added", blocks)) :
           LET t == AddRequirement(s, ResolveRename(m, u.head), Edited(m, blocks, u))
           IN  t \in T /\ t \in G[u] /\ \A w \in ToSet(Units("added", blocks)) : s \in G[w] => t \in G[w]
  PROVE  /\ Extended(m, blocks, spec) \in T
         /\ \A u \in ToSet(Units("added", blocks)) : Extended(m, blocks, spec) \in G[u]
<1> DEFINE op(s, u) == AddRequirement(s, ResolveRename(m, u.head), Edited(m, blocks, u))
           seq == Units("added", blocks)
<1>1. Extended(m, blocks, spec) = Replay(op, spec, seq)
  BY DEF Extended
<1>2. StaysIn(op, seq, T) /\ DoesEach(op, seq, T, G)
  BY DEF StaysIn, DoesEach
<1>3. seq \in Seq(UnitsOf("added"))
  BY UnitFields DEF Verbs
<1> HIDE DEF op
<1>4. \A u \in ToSet(seq) : Replay(op, spec, seq) \in G[u]
  <2> HIDE DEF seq
  <2> QED
    BY <1>2, <1>3, ReplayEach
<1>5. Replay(op, spec, seq) \in T
  <2> HIDE DEF seq
  <2> QED
    BY <1>2, <1>3, ReplayStays
<1> QED
  BY <1>1, <1>4, <1>5

\* The same of the modifications of headings that are not there.
LEMMA PromotedEach ==
  ASSUME NEW m, NEW blocks, AreBlocks(blocks), NEW present, NEW T, NEW spec \in T, NEW G,
         \A s \in T, u \in ToSet(Units("modified", blocks)) :
           LET t == IF u.head \in present THEN s
                    ELSE AddRequirement(s, ResolveRename(m, u.head), u)
           IN  t \in T /\ t \in G[u] /\ \A w \in ToSet(Units("modified", blocks)) : s \in G[w] => t \in G[w]
  PROVE  /\ Promoted(m, blocks, present, spec) \in T
         /\ \A u \in ToSet(Units("modified", blocks)) : Promoted(m, blocks, present, spec) \in G[u]
<1> DEFINE op(s, u) == IF u.head \in present THEN s
                       ELSE AddRequirement(s, ResolveRename(m, u.head), u)
           seq == Units("modified", blocks)
<1>1. Promoted(m, blocks, present, spec) = Replay(op, spec, seq)
  BY DEF Promoted
<1>2. StaysIn(op, seq, T) /\ DoesEach(op, seq, T, G)
  BY DEF StaysIn, DoesEach
<1>3. seq \in Seq(UnitsOf("modified"))
  BY UnitFields DEF Verbs
<1> HIDE DEF op
<1>4. \A u \in ToSet(seq) : Replay(op, spec, seq) \in G[u]
  <2> HIDE DEF seq
  <2> QED
    BY <1>2, <1>3, ReplayEach
<1>5. Replay(op, spec, seq) \in T
  <2> HIDE DEF seq
  <2> QED
    BY <1>2, <1>3, ReplayStays
<1> QED
  BY <1>1, <1>4, <1>5

\* The last modification of a heading is one, of that heading.
LEMMA LastTextIs ==
  ASSUME NEW S, NEW modified \in Seq(S), NEW head \in Heads(modified)
  PROVE  LastText(modified, head) \in ToSet(modified) /\ LastText(modified, head).head = head
<1> DEFINE at == {i \in DOMAIN modified : modified[i].head = head}
<1>1. Len(modified) \in Nat /\ DOMAIN modified = 1 .. Len(modified)
  OBVIOUS
<1>2. at # {} /\ at \subseteq 1 .. Len(modified)
  BY <1>1 DEF Heads, ToSet
<1>3. PICK i : i = Max(at)
  OBVIOUS
<1>4. i \in at
  <2> HIDE DEF at
  <2> QED
    BY <1>1, <1>2, <1>3, MaxIsIn
<1>5. LastText(modified, head) = modified[i]
  BY <1>3 DEF LastText
<1> QED
  BY <1>4, <1>5 DEF ToSet

\* An addition takes its text from a delta: its own, or that of a modification of its heading.
LEMMA EditedIs ==
  ASSUME NEW blocks, AreBlocks(blocks), NEW m, NEW u \in ToSet(Units("added", blocks))
  PROVE  /\ Edited(m, blocks, u) \in ToSet(Units("added", blocks)) \cup ToSet(Units("modified", blocks))
         /\ Edited(m, blocks, u) \in Edits
         /\ ResolveRename(m, u.head) \in Heads(Units("modified", blocks)) =>
              /\ Edited(m, blocks, u) \in ToSet(Units("modified", blocks))
              /\ Edited(m, blocks, u).head = ResolveRename(m, u.head)
<1>1. Units("modified", blocks) \in Seq(UnitsOf("modified"))
  BY UnitFields DEF Verbs
<1>2. \A h \in Heads(Units("modified", blocks)) :
        /\ LastText(Units("modified", blocks), h) \in ToSet(Units("modified", blocks))
        /\ LastText(Units("modified", blocks), h).head = h
  BY <1>1, LastTextIs
<1>3. Edited(m, blocks, u) \in ToSet(Units("added", blocks)) \cup ToSet(Units("modified", blocks))
  BY <1>2 DEF Edited
<1> QED
  BY <1>2, <1>3, UnitFields DEF Edited

\* The additions, and the modifications of headings that are not there, leave a spec
\* within a set that no addition leads out of.
LEMMA AddedStays ==
  ASSUME NEW blocks, AreBlocks(blocks), NEW m, MapFits(m), NEW T, NEW spec \in T,
         \A s \in T, h \in Headings,
         u \in ToSet(Units("added", blocks)) \cup ToSet(Units("modified", blocks)) :
           AddRequirement(s, h, u) \in T
  PROVE  /\ Extended(m, blocks, spec) \in T
         /\ \A present : Promoted(m, blocks, present, spec) \in T
<1>1. \A u \in ToSet(Units("added", blocks)) \cup ToSet(Units("modified", blocks)) :
        u.head \in Headings /\ ResolveRename(m, u.head) \in Headings
  BY UnitFields, FinalIs DEF Edits
<1>2. Extended(m, blocks, spec) \in T
  <2>1. PICK G : G = [u \in ToSet(Units("added", blocks)) |-> T]
    OBVIOUS
  <2>2. ASSUME NEW s \in T, NEW u \in ToSet(Units("added", blocks))
        PROVE  LET t == AddRequirement(s, ResolveRename(m, u.head), Edited(m, blocks, u))
               IN  t \in T /\ t \in G[u] /\ \A w \in ToSet(Units("added", blocks)) : s \in G[w] => t \in G[w]
    <3>1. PICK e : e = Edited(m, blocks, u)
      OBVIOUS
    <3>2. e \in ToSet(Units("added", blocks)) \cup ToSet(Units("modified", blocks))
      BY <3>1, EditedIs
    <3>3. AddRequirement(s, ResolveRename(m, u.head), e) \in T
      BY <1>1, <3>2
    <3> QED
      BY <2>1, <3>1, <3>3
  <2> QED
    BY <2>2, ExtendedEach
<1>3. ASSUME NEW present PROVE Promoted(m, blocks, present, spec) \in T
  <2>1. PICK G : G = [u \in ToSet(Units("modified", blocks)) |-> T]
    OBVIOUS
  <2>2. ASSUME NEW s \in T, NEW u \in ToSet(Units("modified", blocks))
        PROVE  LET t == IF u.head \in present THEN s
                        ELSE AddRequirement(s, ResolveRename(m, u.head), u)
               IN  t \in T /\ t \in G[u]
               /\ \A w \in ToSet(Units("modified", blocks)) : s \in G[w] => t \in G[w]
    <3>1. AddRequirement(s, ResolveRename(m, u.head), u) \in T
      BY <1>1
    <3> QED
      BY <2>1, <3>1
  <2> QED
    BY <2>2, PromotedEach
<1> QED
  BY <1>2, <1>3

\* A set of specs that no edit of the deltas leads out of.
Closed(T, m, blocks) ==
  /\ T \subseteq UniqueSpecs
  /\ \A s \in T, p \in ToSet(Units("renamed", blocks)) :
       p.old \in DOMAIN m => RenameTo(s, p.old, ResolveRename(m, p.old)) \in T
  /\ \A s \in T, u \in ToSet(Units("removed", blocks)) :
       ResolveRename(m, u.head) \notin Kept(m, blocks) => RemoveHead(s, u.head) \in T
  /\ \A s \in T, u \in ToSet(Units("modified", blocks)) : ReplaceBody(s, u) \in T
  /\ \A s \in T, h \in Headings, u \in ToSet(Units("added", blocks)) \cup ToSet(Units("modified", blocks)) :
       AddRequirement(s, h, u) \in T

\* Each stage of a fold stays within such a set.
LEMMA ClosedStages ==
  ASSUME NEW blocks, AreBlocks(blocks), NEW m, MapFits(m), NEW T, Closed(T, m, blocks), NEW spec \in T
  PROVE  /\ Renamed(m, blocks, spec) \in T /\ Removed(m, blocks, spec) \in T
         /\ Replaced(blocks, spec) \in T /\ Extended(m, blocks, spec) \in T
         /\ \A present : Promoted(m, blocks, present, spec) \in T
<1>1. Renamed(m, blocks, spec) \in T
  BY RenamedStays DEF Closed
<1>2. Removed(m, blocks, spec) \in T
  BY RemovedStays DEF Closed
<1>3. Replaced(blocks, spec) \in T
  BY ReplacedStays DEF Closed
<1>4. Extended(m, blocks, spec) \in T /\ \A present : Promoted(m, blocks, present, spec) \in T
  BY AddedStays DEF Closed
<1> QED
  BY <1>1, <1>2, <1>3, <1>4

\* So does the fold.
LEMMA ClosedFold ==
  ASSUME NEW blocks, AreBlocks(blocks), NEW T, Closed(T, RenameMap(blocks), blocks), NEW spec \in T
  PROVE  ApplyDeltas(spec, blocks) \in T
<1>1. PICK m : m = RenameMap(blocks)
  OBVIOUS
<1>2. MapFits(m) /\ Closed(T, m, blocks)
  BY <1>1, RenameMapIs
<1>3. PICK D : D = Removed(m, blocks, Renamed(m, blocks, spec))
  OBVIOUS
<1>4. D \in T
  <2>1. Renamed(m, blocks, spec) \in T
    BY <1>2, ClosedStages
  <2> QED
    BY <1>2, <1>3, <2>1, ClosedStages
<1>5. Finished(m, blocks, D) \in T
  <2>1. Replaced(blocks, D) \in T
    BY <1>2, <1>4, ClosedStages
  <2>2. Extended(m, blocks, Replaced(blocks, D)) \in T
    BY <1>2, <2>1, ClosedStages
  <2> QED
    BY <1>2, <2>2, ClosedStages DEF Finished
<1> QED
  BY <1>1, <1>3, <1>5, Stages

\* No edit gives a spec a heading twice.
LEMMA UniqueClosed ==
  ASSUME NEW blocks, AreBlocks(blocks)
  PROVE  Closed(UniqueSpecs, RenameMap(blocks), blocks)
<1>1. PICK m : m = RenameMap(blocks)
  OBVIOUS
<1>2. MapFits(m)
  BY <1>1, RenameMapIs
<1>3. ASSUME NEW s \in UniqueSpecs, NEW p \in ToSet(Units("renamed", blocks))
      PROVE  RenameTo(s, p.old, ResolveRename(m, p.old)) \in UniqueSpecs
  <2>1. p.old \in Headings /\ ResolveRename(m, p.old) \in Headings
    BY <1>2, UnitFields, FinalIs
  <2> QED
    BY <2>1, RenameToDoes
<1>4. \A s \in UniqueSpecs, u \in ToSet(Units("removed", blocks)) : RemoveHead(s, u.head) \in UniqueSpecs
  BY RemoveHeadDoes
<1>5. \A s \in UniqueSpecs, u \in ToSet(Units("modified", blocks)) : ReplaceBody(s, u) \in UniqueSpecs
  BY UnitFields, ReplaceBodyDoes
<1>6. ASSUME NEW s \in UniqueSpecs, NEW h \in Headings,
             NEW u \in ToSet(Units("added", blocks)) \cup ToSet(Units("modified", blocks))
      PROVE  AddRequirement(s, h, u) \in UniqueSpecs
  BY UnitFields, AddRequirementDoes
<1> QED
  BY <1>1, <1>3, <1>4, <1>5, <1>6 DEF Closed

-----------------------------------------------------------------------------
(* No heading twice, and no text from another capability's blocks           *)

\* The living specs start without a heading twice.
InitialUnique == \A specs0 \in Initial, c \in Cap : Unique(specs0[c])

FoldInv ==
  /\ specs \in [Cap -> UniqueSpecs]
  /\ doc \in Drafts \cup {<<>>}

\* A document is a sequence of blocks.
LEMMA DocBlocks ==
  ASSUME NEW d \in Drafts \cup {<<>>}
  PROVE  AreBlocks(d)
<1>1. CASE d \in Drafts
  BY <1>1, DraftsAssumption DEF AreBlocks
<1>2. CASE d = <<>>
  BY <1>2 DEF AreBlocks, ToSet
<1> QED
  BY <1>1, <1>2

\* A fold leaves a capability's living spec alone, or as apply_deltas has it.
LEMMA FoldedIs ==
  ASSUME NEW c \in Cap, NEW default
  PROVE  \/ Folded(c, default) = specs[c]
         \/ /\ Folded(c, default) = ApplyDeltas(specs[c], Selected(doc, c, default))
            /\ Folded(c, default) = <<>> => c \in retiring
<1>1. DeltasFor(c, default) = Selected(doc, c, default)
  BY DEF DeltasFor, Selected
<1>2. PICK after : after = ApplyDeltas(specs[c], Selected(doc, c, default))
  OBVIOUS
<1>3. The({ApplyDeltas(specs[c], blocks) : blocks \in {DeltasFor(c, default)}}) = after
  <2>1. {ApplyDeltas(specs[c], blocks) : blocks \in {DeltasFor(c, default)}} = {after}
    BY <1>1, <1>2
  <2> QED
    BY <2>1, TheOne
<1>4. Folded(c, default)
        = IF Refused(c, default) \/ (after = <<>> /\ ~c \in retiring) THEN specs[c] ELSE after
  BY <1>3 DEF Folded
<1> QED
  BY <1>2, <1>4

\* A fold of its targets that writes some of them.
Writes(changed, after, written) ==
  /\ after = [d \in Targets(changed) |-> Folded(d, MostSpecific(changed))]
  /\ specs' = [d \in Cap |-> IF d \in written THEN after[d] ELSE specs[d]]
  /\ written \subseteq Targets(changed)

\* What a fold writes is of its targets.
LEMMA FoldWrites ==
  ASSUME NEW changed, NEW killed, Fold(changed, killed, FALSE)
  PROVE  \E after, written : Writes(changed, after, written)
<1>1. PICK after \in {[d \in Targets(changed) |-> Folded(d, MostSpecific(changed))]} :
        \E written \in SUBSET {d \in DOMAIN after : after[d] # specs[d]} :
          specs' = [d \in Cap |-> IF d \in written THEN after[d] ELSE specs[d]]
  BY DEF Fold
<1>2. PICK written \in SUBSET {d \in DOMAIN after : after[d] # specs[d]} :
        specs' = [d \in Cap |-> IF d \in written THEN after[d] ELSE specs[d]]
  BY <1>1
<1>3. after = [d \in Targets(changed) |-> Folded(d, MostSpecific(changed))]
  BY <1>1
<1>4. written \subseteq Targets(changed)
  BY <1>2, <1>3
<1> QED
  BY <1>2, <1>3, <1>4 DEF Writes

\* A step changes a living spec only as a fold of its own deltas.
LEMMA ChangesFold ==
  ASSUME FoldInv, [Next]_vars, NEW c \in Cap, specs'[c] # specs[c]
  PROVE  \E changed \in {Change, {}} :
           /\ specs'[c] = ApplyDeltas(specs[c], Selected(doc, c, MostSpecific(changed)))
           /\ specs'[c] = <<>> => c \in retiring
<1>1. CASE \E changed \in {Change, {}}, killed \in BOOLEAN : Fold(changed, killed, FALSE)
  <2>1. PICK changed \in {Change, {}}, killed \in BOOLEAN : Fold(changed, killed, FALSE)
    BY <1>1
  <2>2. PICK default : default = MostSpecific(changed)
    OBVIOUS
  <2>3. PICK after, written : Writes(changed, after, written)
    BY <2>1, FoldWrites
  <2>4. specs'[c] = Folded(c, default)
    BY <2>1, <2>2, <2>3 DEF Writes
  <2> QED
    BY <2>1, <2>2, <2>4, FoldedIs
<1>2. CASE UNCHANGED specs
  BY <1>2
<1>3. UNCHANGED specs \/ \E changed \in {Change, {}}, killed \in BOOLEAN : Fold(changed, killed, FALSE)
  BY DEF Next, RecordLoaded, RecordSkipped, RegisterCapability, WriteDeltas, vars
<1> QED
  BY <1>1, <1>2, <1>3

\* The document is the author's, and the specs are those of the capabilities.
LEMMA StepKeeps ==
  ASSUME FoldInv, [Next]_vars
  PROVE  /\ doc' \in Drafts \cup {<<>>}
         /\ DOMAIN specs' = Cap /\ specs' = [c \in Cap |-> specs'[c]]
<1>1. doc' = doc \/ doc' \in Drafts
  BY DEF Next, Fold, RecordLoaded, RecordSkipped, RegisterCapability, WriteDeltas, vars
<1>2. specs' = specs \/ \E f : specs' = [c \in Cap |-> f[c]]
  <2>1. ASSUME NEW changed, NEW killed, Fold(changed, killed, FALSE)
        PROVE  \E f : specs' = [c \in Cap |-> f[c]]
    <3>1. PICK after, written : Writes(changed, after, written)
      BY <2>1, FoldWrites
    <3>2. specs' = [c \in Cap |-> specs'[c]]
      BY <3>1 DEF Writes
    <3> QED
      BY <3>2
  <2> QED
    BY <2>1 DEF Next, RecordLoaded, RecordSkipped, RegisterCapability, WriteDeltas, vars
<1>3. specs = [c \in Cap |-> specs[c]]
  BY DEF FoldInv
<1>4. specs' = [c \in Cap |-> specs'[c]]
  BY <1>2, <1>3
<1>5. DOMAIN specs' = Cap
  BY <1>4
<1> QED
  BY <1>1, <1>4, <1>5 DEF FoldInv

\* The living specs start as Initial has them.
LEMMA FoldInit ==
  ASSUME InitialUnique, Init
  PROVE  FoldInv
<1>1. specs \in [Cap -> Seq(Requirements)]
  BY InitialAssumption DEF Init
<1>2. \A c \in Cap : specs[c] \in UniqueSpecs
  BY <1>1 DEF InitialUnique, Init, UniqueSpecs
<1>3. specs \in [Cap -> UniqueSpecs]
  BY <1>1, <1>2
<1> QED
  BY <1>3 DEF Init, FoldInv

\* No step gives a living spec a heading twice.
LEMMA FoldNext ==
  ASSUME FoldInv, [Next]_vars
  PROVE  FoldInv'
<1>1. ASSUME NEW c \in Cap PROVE specs'[c] \in UniqueSpecs
  <2>1. specs[c] \in UniqueSpecs
    BY DEF FoldInv
  <2>2. CASE specs'[c] # specs[c]
    <3>1. PICK changed \in {Change, {}} :
            specs'[c] = ApplyDeltas(specs[c], Selected(doc, c, MostSpecific(changed)))
      BY <2>2, ChangesFold
    <3>2. PICK blocks : blocks = Selected(doc, c, MostSpecific(changed))
      OBVIOUS
    <3>3. AreBlocks(blocks)
      BY <3>2, DocBlocks, SelectedAre DEF FoldInv
    <3>4. ApplyDeltas(specs[c], blocks) \in UniqueSpecs
      BY <2>1, <3>3, UniqueClosed, ClosedFold
    <3> QED
      BY <3>1, <3>2, <3>4
  <2> QED
    BY <2>1, <2>2
<1>2. specs' \in [Cap -> UniqueSpecs]
  BY <1>1, StepKeeps
<1> QED
  BY <1>2, StepKeeps DEF FoldInv

\* A spec without a heading twice has as many headings as requirements.
LEMMA UniqueCounts ==
  ASSUME NEW s \in UniqueSpecs
  PROVE  Cardinality(Heads(s)) = Len(s)
<1>1. Len(s) \in Nat /\ DOMAIN s = 1 .. Len(s) /\ ToSet(s) = {s[i] : i \in 1 .. Len(s)}
  BY SpecFields, SeqFields
<1>2. PICK n \in Nat : n = Len(s)
  BY <1>1
<1> DEFINE f == [i \in 1 .. n |-> s[i].head]
<1>3. f \in [1 .. n -> Heads(s)]
  BY <1>1, <1>2 DEF Heads
<1>4. IsInjective(f)
  BY <1>1, <1>2 DEF IsInjective, UniqueSpecs, Unique
<1>5. \A h \in Heads(s) : \E i \in 1 .. n : f[i] = h
  BY <1>1, <1>2 DEF Heads
<1>6. ExistsBijection(1 .. n, Heads(s))
  BY <1>3, <1>4, <1>5 DEF ExistsBijection, Bijection, Injection, Surjection
<1> QED
  BY <1>2, <1>6, FS_CountingElements

\* No delta document leaves a heading twice in a living spec, if none starts with one
\* (apply_deltas: a rename onto a taken name and an addition that is there are skipped).
THEOREM NoHeadingTwice == InitialUnique /\ Spec => []NoDuplicateHeadings
<1>1. InitialUnique /\ Init => FoldInv
  BY FoldInit
<1>2. FoldInv /\ [Next]_vars => FoldInv'
  BY FoldNext
<1>3. FoldInv => NoDuplicateHeadings
  BY UniqueCounts DEF FoldInv, NoDuplicateHeadings
<1> QED
  BY <1>1, <1>2, <1>3, PTL DEF Spec

\* The texts a spec has, and those its deltas bring.
TextsOf(spec, blocks) ==
  {q.body : q \in ToSet(spec)}
    \cup {u.body : u \in ToSet(Units("added", blocks)) \cup ToSet(Units("modified", blocks))}

\* A fold takes its texts from the spec it folds into and from the deltas.
LEMMA TextsStay ==
  ASSUME NEW blocks, AreBlocks(blocks), NEW spec \in UniqueSpecs
  PROVE  \A r \in ToSet(ApplyDeltas(spec, blocks)) : r.body \in TextsOf(spec, blocks)
<1> DEFINE T == {s \in UniqueSpecs : \A r \in ToSet(s) : r.body \in TextsOf(spec, blocks)}
<1>1. spec \in T
  BY DEF TextsOf
<1>2. PICK m : m = RenameMap(blocks)
  OBVIOUS
<1>3. MapFits(m)
  BY <1>2, RenameMapIs
<1>4. Closed(UniqueSpecs, m, blocks)
  BY <1>2, UniqueClosed
<1>5. ASSUME NEW s \in T, NEW p \in ToSet(Units("renamed", blocks)), p.old \in DOMAIN m
      PROVE  RenameTo(s, p.old, ResolveRename(m, p.old)) \in T
  <2>1. PICK t : t = RenameTo(s, p.old, ResolveRename(m, p.old))
    OBVIOUS
  <2>2. p.old \in Headings /\ ResolveRename(m, p.old) \in Headings
    BY <1>3, UnitFields, FinalIs
  <2>3. t = s \/ ToSet(t) = {IF q.head = p.old THEN [q EXCEPT !.head = ResolveRename(m, p.old)] ELSE q
                             : q \in ToSet(s)}
    BY <2>1, <2>2, RenameToDoes
  <2>4. \A q \in ToSet(s) : [q EXCEPT !.head = ResolveRename(m, p.old)].body = q.body
    BY <2>2, SpecFields, HeadingOf
  <2>5. ASSUME NEW r \in ToSet(t) PROVE \E q \in ToSet(s) : r.body = q.body
    <3> HIDE DEF T
    <3>1. CASE t = s
      BY <3>1
    <3>2. CASE t # s
      <4>1. PICK q \in ToSet(s) :
              r = IF q.head = p.old THEN [q EXCEPT !.head = ResolveRename(m, p.old)] ELSE q
        BY <2>3, <3>2
      <4> QED
        BY <2>4, <4>1
    <3> QED
      BY <3>1, <3>2
  <2> QED
    BY <1>4, <1>5, <2>1, <2>5 DEF Closed
<1>6. ASSUME NEW s \in T, NEW u \in ToSet(Units("removed", blocks))
      PROVE  RemoveHead(s, u.head) \in T
  BY RemoveHeadDoes
<1>7. ASSUME NEW s \in T, NEW u \in ToSet(Units("modified", blocks))
      PROVE  ReplaceBody(s, u) \in T
  <2>1. PICK t : t = ReplaceBody(s, u)
    OBVIOUS
  <2>2. u \in Edits /\ u.body \in TextsOf(spec, blocks)
    BY UnitFields DEF TextsOf
  <2>3. t \in UniqueSpecs /\ ToSet(t) = {IF q.head = u.head THEN KeepMarker(q, u) ELSE q : q \in ToSet(s)}
    BY <2>1, <2>2, ReplaceBodyDoes
  <2>4. \A q \in ToSet(s) : KeepMarker(q, u).body = u.body
    BY DEF KeepMarker
  <2>5. \A r \in ToSet(t) : r.body \in TextsOf(spec, blocks)
    BY <2>2, <2>3, <2>4
  <2> QED
    BY <2>1, <2>3, <2>5
<1>8. ASSUME NEW s \in T, NEW h \in Headings,
             NEW u \in ToSet(Units("added", blocks)) \cup ToSet(Units("modified", blocks))
      PROVE  AddRequirement(s, h, u) \in T
  <2>1. PICK t : t = AddRequirement(s, h, u)
    OBVIOUS
  <2>2. u \in Edits /\ u.body \in TextsOf(spec, blocks)
    BY UnitFields DEF TextsOf
  <2>3. /\ t \in UniqueSpecs
        /\ ToSet(t) = ToSet(s) \cup IF h \in Heads(s) THEN {} ELSE {Fresh(h, u)}
    BY <2>1, <2>2, AddRequirementDoes
  <2>4. Fresh(h, u).body = u.body
    BY DEF Fresh
  <2>5. \A r \in ToSet(t) : r.body \in TextsOf(spec, blocks)
    BY <2>2, <2>3, <2>4
  <2> QED
    BY <2>1, <2>3, <2>5
<1>9. Closed(T, m, blocks)
  BY <1>5, <1>6, <1>7, <1>8 DEF Closed
<1> HIDE DEF T
<1>10. ApplyDeltas(spec, blocks) \in T
  BY <1>1, <1>2, <1>9, ClosedFold
<1> QED
  BY <1>10 DEF T

\* A glob that is to reach no file reaches none.
LEMMA NoFilesNoHead == MostSpecific({}) = None
<1>1. \A c : ReachingGlobs(c, {}) = {}
  BY DEF ReachingGlobs
<1>2. MatchChanged({}) = {}
  BY <1>1 DEF MatchChanged
<1> QED
  BY <1>2 DEF MostSpecific

\* A living spec takes texts from its own and from its capability's blocks alone, and only
\* one that declares its retirement is emptied (_deltas_for, _would_empty).
THEOREM NothingBleedsAnywhere == InitialUnique /\ Spec => NothingBleeds
<1>1. ASSUME FoldInv, [Next]_vars, NEW c \in Cap, specs'[c] # specs[c]
      PROVE  /\ \A r \in ToSet(specs'[c]) :
                  \/ \E s \in ToSet(specs[c]) : s.body = r.body
                  \/ \E b \in ToSet(doc) :
                       /\ b.cap = c \/ (b.cap = None /\ c = MostSpecific(Change))
                       /\ \E u \in ToSet(b.units) : b.verb \in {"added", "modified"} /\ u.body = r.body
             /\ specs'[c] = <<>> => c \in retiring
  <2>1. PICK changed \in {Change, {}} :
          /\ specs'[c] = ApplyDeltas(specs[c], Selected(doc, c, MostSpecific(changed)))
          /\ specs'[c] = <<>> => c \in retiring
    BY <1>1, ChangesFold
  <2>2. PICK blocks : blocks = Selected(doc, c, MostSpecific(changed))
    OBVIOUS
  <2>3. /\ AreBlocks(blocks)
        /\ ToSet(blocks) \subseteq
             {b \in ToSet(doc) : b.cap = c \/ (b.cap = None /\ c = MostSpecific(changed))}
    BY <1>1, <2>2, DocBlocks, SelectedAre DEF FoldInv
  <2>4. c = MostSpecific(changed) => c = MostSpecific(Change)
    BY CapsAssumption, NoFilesNoHead
  <2>5. ASSUME NEW r \in ToSet(specs'[c]), ~ \E s \in ToSet(specs[c]) : s.body = r.body
        PROVE  \E b \in ToSet(doc) :
                 /\ b.cap = c \/ (b.cap = None /\ c = MostSpecific(Change))
                 /\ \E u \in ToSet(b.units) : b.verb \in {"added", "modified"} /\ u.body = r.body
    <3>1. r.body \in TextsOf(specs[c], blocks)
      BY <1>1, <2>1, <2>2, <2>3, TextsStay DEF FoldInv
    <3>2. PICK verb \in {"added", "modified"} : \E u \in ToSet(Units(verb, blocks)) : u.body = r.body
      BY <2>5, <3>1 DEF TextsOf
    <3>3. PICK u \in UnitsIn(verb, blocks) : u.body = r.body
      BY <2>3, <3>2, UnitsAre DEF Verbs
    <3>4. PICK b \in ToSet(blocks) : b.verb = verb /\ u \in ToSet(b.units)
      BY <3>3 DEF UnitsIn
    <3> QED
      BY <2>3, <2>4, <3>3, <3>4
  <2> QED
    BY <2>1, <2>5
<1>2. FoldInv /\ [Next]_vars => (\A c \in Cap : specs'[c] # specs[c] =>
       /\ \A r \in ToSet(specs'[c]) :
            \/ \E s \in ToSet(specs[c]) : s.body = r.body
            \/ \E b \in ToSet(doc) :
                 /\ b.cap = c \/ (b.cap = None /\ c = MostSpecific(Change))
                 /\ \E u \in ToSet(b.units) : b.verb \in {"added", "modified"} /\ u.body = r.body
       /\ specs'[c] = <<>> => c \in retiring)
  BY <1>1
<1>3. InitialUnique /\ Init => FoldInv
  BY FoldInit
<1>4. FoldInv /\ [Next]_vars => FoldInv'
  BY FoldNext
<1> QED
  BY <1>2, <1>3, <1>4, PTL DEF Spec, NothingBleeds

-----------------------------------------------------------------------------
(* What a fold leaves is what the deltas ask for                            *)

\* The deltas ask one thing of a heading they modify: no second text, no new name and
\* no removal.
Coherent(blocks) ==
  \A u \in ToSet(Units("modified", blocks)) :
    /\ \A w \in ToSet(Units("modified", blocks)) : w.head = u.head => w = u
    /\ u.head \notin DOMAIN RenameMap(blocks)
    /\ \A w \in ToSet(Units("removed", blocks)) : w.head # u.head

\* A renamed heading that is still there has its new name beside it.
MovedOn(s, m) == \A h \in DOMAIN m : h \in Heads(s) => m[h] \in Heads(s)

\* A requirement has the heading and the text of a modification, which would leave it as it is.
Shaped(q, u) == q.head = u.head /\ q.body = u.body /\ KeepMarker(q, u) = q

ShapedIn(s, u) == \E q \in ToSet(s) : Shaped(q, u)

\* Every verb of the deltas is done in a spec.
Landed(s, m, blocks) ==
  /\ \A u \in ToSet(Units("added", blocks)) : ResolveRename(m, u.head) \in Heads(s)
  /\ \A u \in ToSet(Units("modified", blocks)) : ShapedIn(s, u)
  /\ \A u \in ToSet(Units("removed", blocks)) :
       ResolveRename(m, u.head) \notin Kept(m, blocks) => u.head \notin Heads(s)
  /\ MovedOn(s, m)

\* After the renames every heading has moved on.
LEMMA RenamesLand ==
  ASSUME NEW blocks, AreBlocks(blocks), NEW m, MapFits(m), NEW spec \in UniqueSpecs,
         \A h \in DOMAIN m : \E p \in ToSet(Units("renamed", blocks)) : p.old = h
  PROVE  Renamed(m, blocks, spec) \in UniqueSpecs /\ MovedOn(Renamed(m, blocks, spec), m)
<1> DEFINE pairs == ToSet(Units("renamed", blocks))
           G == [p \in pairs |-> {s \in UniqueSpecs : p.old \in DOMAIN m /\ p.old \in Heads(s)
                                                        => m[p.old] \in Heads(s)}]
<1>1. ASSUME NEW s \in UniqueSpecs, NEW p \in pairs, p.old \in DOMAIN m
      PROVE  LET t == RenameTo(s, p.old, ResolveRename(m, p.old))
             IN  /\ t \in UniqueSpecs /\ (p.old \in Heads(t) => m[p.old] \in Heads(t))
                 /\ \A h \in DOMAIN m :
                      (h \in Heads(s) => m[h] \in Heads(s)) => (h \in Heads(t) => m[h] \in Heads(t))
  <2>1. PICK t : t = RenameTo(s, p.old, ResolveRename(m, p.old))
    OBVIOUS
  <2>2. /\ p.old \in Headings /\ m[p.old] \in Headings /\ ResolveRename(m, p.old) = m[p.old]
        /\ \A h \in DOMAIN m : m[h] # p.old /\ h # m[p.old]
    BY <1>1, UnitFields, FinalIs DEF MapFits
  <2>3. /\ t \in UniqueSpecs
        /\ \/ t = s /\ ~ (p.old \in Heads(s) /\ m[p.old] \notin Heads(s))
           \/ Heads(t) = (Heads(s) \ {p.old}) \cup {m[p.old]}
    BY <2>1, <2>2, RenameToDoes
  <2>4. p.old \in Heads(t) => m[p.old] \in Heads(t)
    BY <1>1, <2>2, <2>3
  <2>5. ASSUME NEW h \in DOMAIN m, h \in Heads(s) => m[h] \in Heads(s), h \in Heads(t)
        PROVE  m[h] \in Heads(t)
    BY <2>2, <2>3, <2>5
  <2> QED
    BY <2>1, <2>3, <2>4, <2>5
<1>2. \A s \in UniqueSpecs, p \in pairs :
        p.old \in DOMAIN m => RenameTo(s, p.old, ResolveRename(m, p.old)) \in UniqueSpecs
  BY <1>1
<1>3. \A s \in UniqueSpecs, p \in pairs :
        /\ p.old \in DOMAIN m => RenameTo(s, p.old, ResolveRename(m, p.old)) \in G[p]
        /\ p.old \notin DOMAIN m => s \in G[p]
        /\ p.old \in DOMAIN m => \A q \in pairs :
             s \in G[q] => RenameTo(s, p.old, ResolveRename(m, p.old)) \in G[q]
  BY <1>1
<1>4. Renamed(m, blocks, spec) \in UniqueSpecs
  BY <1>2, RenamedStays
<1>5. \A p \in pairs : Renamed(m, blocks, spec) \in G[p]
  <2> HIDE DEF G
  <2> QED
    BY <1>2, <1>3, RenamedEach
<1> QED
  BY <1>4, <1>5 DEF MovedOn

\* After the removals nothing removed is left, unless the deltas put it back, and every
\* heading has moved on still.
LEMMA RemovalsLand ==
  ASSUME NEW blocks, AreBlocks(blocks), NEW m, MapFits(m), NEW spec \in UniqueSpecs, MovedOn(spec, m)
  PROVE  LET after == Removed(m, blocks, spec)
         IN  /\ after \in UniqueSpecs /\ MovedOn(after, m)
             /\ \A u \in ToSet(Units("removed", blocks)) :
                  ResolveRename(m, u.head) \notin Kept(m, blocks) => u.head \notin Heads(after)
<1> DEFINE units == ToSet(Units("removed", blocks))
           T == {s \in UniqueSpecs : MovedOn(s, m)}
           G == [u \in units |-> {s \in T : ResolveRename(m, u.head) \notin Kept(m, blocks)
                                              => u.head \notin Heads(s)}]
<1>1. ASSUME NEW s \in T, NEW u \in units, ResolveRename(m, u.head) \notin Kept(m, blocks)
      PROVE  LET t == RemoveHead(s, u.head)
             IN  t \in T /\ u.head \notin Heads(t) /\ Heads(t) \subseteq Heads(s)
  <2>1. PICK t : t = RemoveHead(s, u.head)
    OBVIOUS
  <2>2. t \in UniqueSpecs /\ ToSet(t) = {q \in ToSet(s) : q.head # u.head}
    BY <2>1, RemoveHeadDoes
  <2>3. Heads(t) = Heads(s) \ {u.head}
    BY <2>2 DEF Heads
  <2>4. ASSUME NEW h \in DOMAIN m, h \in Heads(t) PROVE m[h] \in Heads(t)
    <3>1. m[h] \in Headings /\ m[h] \in Range(m) /\ m[h] \notin DOMAIN m /\ h \in Headings
      BY FinalIs DEF MapFits
    <3>2. ResolveRename(m, m[h]) = m[h] /\ m[h] \in Kept(m, blocks)
      BY <3>1, FinalIs DEF Kept
    <3>3. m[h] # u.head
      BY <1>1, <3>2
    <3> QED
      BY <2>3, <2>4, <3>3 DEF MovedOn
  <2> QED
    BY <2>1, <2>2, <2>3, <2>4 DEF MovedOn
<1>2. spec \in T
  OBVIOUS
<1>3. \A s \in T, u \in units : ResolveRename(m, u.head) \notin Kept(m, blocks) => RemoveHead(s, u.head) \in T
  BY <1>1
<1>4. \A s \in T, u \in units :
        /\ ResolveRename(m, u.head) \notin Kept(m, blocks) => RemoveHead(s, u.head) \in G[u]
        /\ ResolveRename(m, u.head) \in Kept(m, blocks) => s \in G[u]
        /\ ResolveRename(m, u.head) \notin Kept(m, blocks) => \A w \in units :
             s \in G[w] => RemoveHead(s, u.head) \in G[w]
  <2> HIDE DEF T, units
  <2> QED
    BY <1>1
<1> HIDE DEF T
<1>5. Removed(m, blocks, spec) \in T
  BY <1>2, <1>3, RemovedStays
<1>6. \A u \in units : Removed(m, blocks, spec) \in G[u]
  <2> HIDE DEF G
  <2> QED
    BY <1>2, <1>3, <1>4, RemovedEach
<1> QED
  BY <1>5, <1>6 DEF T

\* After the modifications every heading that was there has the text of its own.
LEMMA ReplacementsLand ==
  ASSUME NEW blocks, AreBlocks(blocks), Coherent(blocks), NEW spec \in UniqueSpecs
  PROVE  LET after == Replaced(blocks, spec)
         IN  /\ after \in UniqueSpecs /\ Heads(after) = Heads(spec)
             /\ \A u \in ToSet(Units("modified", blocks)) : u.head \in Heads(spec) => ShapedIn(after, u)
<1> DEFINE units == ToSet(Units("modified", blocks))
           T == {s \in UniqueSpecs : Heads(s) = Heads(spec)}
           G == [u \in units |-> {s \in T : u.head \in Heads(s) => ShapedIn(s, u)}]
<1>1. ASSUME NEW s \in T, NEW u \in units
      PROVE  LET t == ReplaceBody(s, u)
             IN  /\ t \in T /\ (u.head \in Heads(t) => ShapedIn(t, u))
                 /\ \A w \in units : ShapedIn(s, w) => ShapedIn(t, w)
  <2>1. PICK t : t = ReplaceBody(s, u)
    OBVIOUS
  <2>2. u \in Edits /\ s \in UniqueSpecs /\ Heads(s) = Heads(spec)
    BY UnitFields
  <2>3. /\ t \in UniqueSpecs /\ Heads(t) = Heads(s)
        /\ ToSet(t) = {IF q.head = u.head THEN KeepMarker(q, u) ELSE q : q \in ToSet(s)}
    BY <2>1, <2>2, ReplaceBodyDoes
  <2>4. ASSUME NEW q \in ToSet(s) PROVE Shaped(KeepMarker(q, u), u)
    <3>1. q \in Requirements
      BY <2>2, SpecFields
    <3> QED
      BY <2>2, <3>1, KeepMarkerIs DEF Shaped
  <2>5. u.head \in Heads(t) => ShapedIn(t, u)
    BY <2>3, <2>4 DEF Heads, ShapedIn
  <2>6. ASSUME NEW w \in units, ShapedIn(s, w) PROVE ShapedIn(t, w)
    <3>1. PICK q \in ToSet(s) : Shaped(q, w)
      BY <2>6 DEF ShapedIn
    <3>2. CASE q.head = u.head
      <4>1. w = u
        BY <3>1, <3>2 DEF Shaped, Coherent
      <4> QED
        BY <2>3, <2>4, <3>2, <4>1 DEF ShapedIn
    <3>3. CASE q.head # u.head
      BY <2>3, <3>1, <3>3 DEF ShapedIn
    <3> QED
      BY <3>2, <3>3
  <2> QED
    BY <2>1, <2>2, <2>3, <2>5, <2>6
<1>2. spec \in T
  OBVIOUS
<1>3. \A s \in T : Heads(s) = Heads(spec)
  OBVIOUS
<1>4. \A s \in T, u \in units : ReplaceBody(s, u) \in T
  BY <1>1
<1>5. \A s \in T, u \in units :
        ReplaceBody(s, u) \in G[u] /\ \A w \in units : s \in G[w] => ReplaceBody(s, u) \in G[w]
  <2> HIDE DEF T, units
  <2> QED
    BY <1>1, <1>3
<1> HIDE DEF T
<1>6. Replaced(blocks, spec) \in T
  BY <1>2, <1>4, ReplacedStays
<1>7. \A u \in units : Replaced(blocks, spec) \in G[u]
  <2> HIDE DEF G
  <2> QED
    BY <1>2, <1>4, <1>5, ReplacedEach
<1> QED
  BY <1>3, <1>6, <1>7 DEF T

\* What the last two stages keep: the requirements of base, headings of base or of names,
\* and modifications that have their text wherever their heading is.
Grown(base, names, blocks) ==
  {s \in UniqueSpecs :
     /\ ToSet(base) \subseteq ToSet(s)
     /\ Heads(s) \subseteq Heads(base) \cup names
     /\ \A u \in ToSet(Units("modified", blocks)) : u.head \in Heads(s) => ShapedIn(s, u)}

\* A requirement more, of a heading whose modification, if there is one, it is.
LEMMA GrowsBy ==
  ASSUME NEW blocks, AreBlocks(blocks), NEW base, NEW names, NEW s \in Grown(base, names, blocks),
         NEW head \in names \cap Headings, NEW e \in Edits,
         \A u \in ToSet(Units("modified", blocks)) :
           u.head = head => e.body = u.body /\ e.touches = u.touches /\ e.direct = u.direct
  PROVE  LET t == AddRequirement(s, head, e)
         IN  t \in Grown(base, names, blocks) /\ Heads(t) = Heads(s) \cup {head}
<1>1. PICK t : t = AddRequirement(s, head, e)
  OBVIOUS
<1>2. s \in UniqueSpecs
  BY DEF Grown
<1>3. PICK r : r = Fresh(head, e)
  OBVIOUS
<1>4. /\ t \in UniqueSpecs /\ Heads(t) = Heads(s) \cup {head}
      /\ ToSet(t) = ToSet(s) \cup IF head \in Heads(s) THEN {} ELSE {r}
  BY <1>1, <1>2, <1>3, AddRequirementDoes
<1>5. \A u \in ToSet(Units("modified", blocks)) : u.head = head => Shaped(r, u)
  BY <1>3, FreshIs, UnitFields DEF Shaped
<1>6. ASSUME NEW u \in ToSet(Units("modified", blocks)), u.head \in Heads(t) PROVE ShapedIn(t, u)
  <2>1. CASE u.head \in Heads(s)
    BY <1>4, <2>1 DEF Grown, ShapedIn
  <2>2. CASE u.head \notin Heads(s)
    <3>1. u.head = head /\ r \in ToSet(t)
      BY <1>4, <1>6, <2>2
    <3>2. Shaped(r, u)
      BY <1>5, <3>1
    <3> QED
      BY <3>1, <3>2 DEF ShapedIn
  <2> QED
    BY <2>1, <2>2
<1>7. ToSet(base) \subseteq ToSet(t) /\ Heads(t) \subseteq Heads(base) \cup names
  BY <1>4 DEF Grown
<1> QED
  BY <1>1, <1>4, <1>6, <1>7 DEF Grown

\* After the additions each is there under its final heading, with the text of a
\* modification of that heading.
LEMMA AdditionsLand ==
  ASSUME NEW blocks, AreBlocks(blocks), Coherent(blocks), NEW m, MapFits(m), NEW spec,
         NEW names, names = {ResolveRename(m, u.head) : u \in ToSet(Units("added", blocks))},
         spec \in Grown(spec, names, blocks)
  PROVE  LET after == Extended(m, blocks, spec)
         IN  after \in Grown(spec, names, blocks) /\ names \subseteq Heads(after)
<1> DEFINE units == ToSet(Units("added", blocks))
           T == Grown(spec, names, blocks)
           G == [u \in units |-> {s \in T : ResolveRename(m, u.head) \in Heads(s)}]
           By(s, u) == AddRequirement(s, ResolveRename(m, u.head), Edited(m, blocks, u))
<1>1. ASSUME NEW s \in T, NEW u \in units
      PROVE  By(s, u) \in T /\ Heads(By(s, u)) = Heads(s) \cup {ResolveRename(m, u.head)}
  <2>1. PICK e : e = Edited(m, blocks, u)
    OBVIOUS
  <2>2. PICK head : head = ResolveRename(m, u.head)
    OBVIOUS
  <2>3. u \in Edits /\ head \in Headings /\ head \in names
    BY <2>2, UnitFields, FinalIs DEF Edits
  <2>4. e \in Edits
    BY <2>1, EditedIs
  <2>5. ASSUME NEW w \in ToSet(Units("modified", blocks)), w.head = head
        PROVE  e.body = w.body /\ e.touches = w.touches /\ e.direct = w.direct
    <3>1. head \in Heads(Units("modified", blocks))
      BY <2>5 DEF Heads
    <3>2. e \in ToSet(Units("modified", blocks)) /\ e.head = head
      BY <2>1, <2>2, <3>1, EditedIs
    <3>3. e = w
      BY <2>5, <3>2 DEF Coherent
    <3> QED
      BY <3>3
  <2> HIDE DEF T
  <2>6. /\ AddRequirement(s, head, e) \in T
        /\ Heads(AddRequirement(s, head, e)) = Heads(s) \cup {head}
    BY <2>3, <2>4, <2>5, GrowsBy DEF T
  <2> QED
    BY <2>1, <2>2, <2>6
<1>2. spec \in T
  OBVIOUS
<1>3. \A s \in T, u \in units :
        By(s, u) \in T /\ By(s, u) \in G[u] /\ \A w \in units : s \in G[w] => By(s, u) \in G[w]
  <2> HIDE DEF T, units, By
  <2> QED
    BY <1>1
<1> HIDE DEF T
<1>4. /\ Extended(m, blocks, spec) \in T
      /\ \A u \in units : Extended(m, blocks, spec) \in G[u]
  <2> HIDE DEF G
  <2> QED
    BY <1>2, <1>3, ExtendedEach
<1> QED
  BY <1>4 DEF T

\* After the modifications of headings that were not there each of them is.
LEMMA PromotionsLand ==
  ASSUME NEW blocks, AreBlocks(blocks), Coherent(blocks), NEW m, m = RenameMap(blocks), NEW spec, NEW present,
         present \subseteq Heads(spec), spec \in Grown(spec, Heads(Units("modified", blocks)), blocks)
  PROVE  LET after == Promoted(m, blocks, present, spec)
         IN  /\ after \in Grown(spec, Heads(Units("modified", blocks)), blocks)
             /\ Heads(Units("modified", blocks)) \subseteq Heads(after)
<1> DEFINE units == ToSet(Units("modified", blocks))
           names == Heads(Units("modified", blocks))
           T == Grown(spec, names, blocks)
           G == [u \in units |-> {s \in T : u.head \in Heads(s)}]
           By(s, u) == IF u.head \in present THEN s
                       ELSE AddRequirement(s, ResolveRename(m, u.head), u)
<1>1. ASSUME NEW s \in T, NEW u \in units
      PROVE  By(s, u) \in T /\ Heads(By(s, u)) = Heads(s) \cup {u.head}
  <2>1. u \in Edits /\ u.head \in Headings /\ u.head \in names /\ ResolveRename(m, u.head) = u.head
    <3>1. u \in Edits /\ u.head \notin DOMAIN m
      BY UnitFields DEF Coherent
    <3>2. u.head \in names
      BY DEF Heads
    <3> QED
      BY <3>1, <3>2 DEF Edits, ResolveRename
  <2>2. \A w \in ToSet(Units("modified", blocks)) : w.head = u.head => u.body = w.body
        /\ u.touches = w.touches /\ u.direct = w.direct
    BY DEF Coherent
  <2> HIDE DEF names
  <2>3. /\ AddRequirement(s, u.head, u) \in T
        /\ Heads(AddRequirement(s, u.head, u)) = Heads(s) \cup {u.head}
    BY <2>1, <2>2, GrowsBy DEF T
  <2>4. u.head \in present => Heads(s) = Heads(s) \cup {u.head}
    BY DEF T, Grown, Heads
  <2> QED
    BY <2>1, <2>3, <2>4
<1>2. spec \in T
  OBVIOUS
<1>3. \A s \in T, u \in units :
        By(s, u) \in T /\ By(s, u) \in G[u] /\ \A w \in units : s \in G[w] => By(s, u) \in G[w]
  <2> HIDE DEF T, units, By
  <2> QED
    BY <1>1
<1> HIDE DEF T
<1>4. /\ Promoted(m, blocks, present, spec) \in T
      /\ \A u \in units : Promoted(m, blocks, present, spec) \in G[u]
  <2> HIDE DEF G
  <2> QED
    BY <1>2, <1>3, PromotedEach
<1>5. names \subseteq Heads(Promoted(m, blocks, present, spec))
  <2>1. \A u \in units : u.head \in Heads(Promoted(m, blocks, present, spec))
    BY <1>4
  <2> QED
    BY <2>1 DEF Heads
<1> QED
  BY <1>4, <1>5 DEF T

\* A fold ends where its deltas have landed.
LEMMA FoldLands ==
  ASSUME NEW blocks, AreBlocks(blocks), Coherent(blocks), NEW spec \in UniqueSpecs
  PROVE  /\ ApplyDeltas(spec, blocks) \in UniqueSpecs
         /\ Landed(ApplyDeltas(spec, blocks), RenameMap(blocks), blocks)
<1> DEFINE modified == ToSet(Units("modified", blocks))
           added == ToSet(Units("added", blocks))
           edited == Heads(Units("modified", blocks))
<1>1. PICK m : m = RenameMap(blocks)
  OBVIOUS
<1>2. MapFits(m) /\ \A h \in DOMAIN m : \E p \in ToSet(Units("renamed", blocks)) : p.old = h
  BY <1>1, RenameMapIs
<1>3. PICK names : names = {ResolveRename(m, u.head) : u \in added}
  OBVIOUS
<1>4. PICK R : R = Renamed(m, blocks, spec)
  OBVIOUS
<1>5. R \in UniqueSpecs /\ MovedOn(R, m)
  BY <1>2, <1>4, RenamesLand
<1>6. PICK D : D = Removed(m, blocks, R)
  OBVIOUS
<1>7. /\ D \in UniqueSpecs /\ MovedOn(D, m)
      /\ \A u \in ToSet(Units("removed", blocks)) :
           ResolveRename(m, u.head) \notin Kept(m, blocks) => u.head \notin Heads(D)
  BY <1>2, <1>5, <1>6, RemovalsLand
<1>8. PICK P : P = Replaced(blocks, D)
  OBVIOUS
<1>9. P \in UniqueSpecs /\ Heads(P) = Heads(D) /\ \A u \in modified : u.head \in Heads(D) => ShapedIn(P, u)
  BY <1>7, <1>8, ReplacementsLand
<1>10. PICK E : E = Extended(m, blocks, P)
  OBVIOUS
<1>11. E \in Grown(P, names, blocks) /\ names \subseteq Heads(E)
  <2>1. P \in Grown(P, names, blocks)
    BY <1>9 DEF Grown
  <2> QED
    BY <1>2, <1>3, <1>10, <2>1, AdditionsLand
<1>12. PICK F : F = Promoted(m, blocks, Heads(D), E)
  OBVIOUS
<1>13. F \in Grown(E, edited, blocks) /\ edited \subseteq Heads(F)
  <2>1. E \in Grown(E, edited, blocks)
    BY <1>11 DEF Grown
  <2>2. Heads(D) \subseteq Heads(E)
    BY <1>9, <1>11 DEF Grown, Heads
  <2> QED
    BY <1>1, <1>12, <2>1, <2>2, PromotionsLand
<1>14. F = ApplyDeltas(spec, blocks)
  BY <1>1, <1>4, <1>6, <1>8, <1>10, <1>12, Stages DEF Finished
<1>15. /\ F \in UniqueSpecs /\ Heads(E) \subseteq Heads(F) /\ Heads(F) \subseteq Heads(E) \cup edited
       /\ Heads(D) \subseteq Heads(E) /\ Heads(E) \subseteq Heads(D) \cup names
       /\ \A u \in modified : u.head \in Heads(F) => ShapedIn(F, u)
  BY <1>9, <1>11, <1>13 DEF Grown, Heads
<1>16. \A u \in added : ResolveRename(m, u.head) \in Heads(F)
  BY <1>3, <1>11, <1>15
<1>17. \A u \in modified : ShapedIn(F, u)
  BY <1>13, <1>15 DEF Heads
<1>18. \A h \in names \cup edited : h \in Headings /\ h \notin DOMAIN m /\ ResolveRename(m, h) = h
  <2>1. \A h \in names : h \in Headings /\ h \notin DOMAIN m /\ ResolveRename(m, h) = h
    BY <1>2, <1>3, UnitFields, FinalIs DEF Edits
  <2>2. \A h \in edited : h \in Headings /\ h \notin DOMAIN m
    BY <1>1, UnitFields DEF Coherent, Heads, Edits
  <2> QED
    BY <2>1, <2>2 DEF ResolveRename
<1>19. ASSUME NEW u \in ToSet(Units("removed", blocks)), ResolveRename(m, u.head) \notin Kept(m, blocks)
       PROVE  u.head \notin Heads(F)
  <2>1. u.head \notin Heads(D)
    BY <1>7, <1>19
  <2>2. u.head \notin edited
    BY DEF Coherent, Heads
  <2>3. u.head \notin names
    <3>1. names \subseteq Kept(m, blocks)
      BY <1>3 DEF Kept
    <3> QED
      BY <1>18, <1>19, <3>1
  <2> QED
    BY <1>15, <2>1, <2>2, <2>3
<1>20. MovedOn(F, m)
  BY <1>7, <1>15, <1>18 DEF MovedOn
<1> QED
  BY <1>1, <1>14, <1>15, <1>16, <1>17, <1>19, <1>20 DEF Landed

\* A fold of what has landed changes nothing.
LEMMA LandedStays ==
  ASSUME NEW blocks, AreBlocks(blocks), NEW spec \in UniqueSpecs, Landed(spec, RenameMap(blocks), blocks)
  PROVE  ApplyDeltas(spec, blocks) = spec
<1>1. PICK m : m = RenameMap(blocks)
  OBVIOUS
<1>2. MapFits(m) /\ Landed(spec, m, blocks)
  BY <1>1, RenameMapIs
<1>3. Renamed(m, blocks, spec) = spec
  <2>1. ASSUME NEW p \in ToSet(Units("renamed", blocks)), p.old \in DOMAIN m
        PROVE  RenameTo(spec, p.old, ResolveRename(m, p.old)) = spec
    <3>1. p.old \in Heads(spec) => ResolveRename(m, p.old) \in Heads(spec)
      BY <1>2, <2>1 DEF Landed, MovedOn, ResolveRename
    <3> QED
      BY <3>1 DEF RenameTo
  <2>2. PICK T : T = {spec}
    OBVIOUS
  <2>3. \A s \in T, p \in ToSet(Units("renamed", blocks)) :
          p.old \in DOMAIN m => RenameTo(s, p.old, ResolveRename(m, p.old)) \in T
    BY <2>1, <2>2
  <2>4. spec \in T
    BY <2>2
  <2>5. Renamed(m, blocks, spec) \in T
    BY <2>3, <2>4, RenamedStays
  <2> QED
    BY <2>2, <2>5
<1>4. Removed(m, blocks, spec) = spec
  <2>1. ASSUME NEW u \in ToSet(Units("removed", blocks)), ResolveRename(m, u.head) \notin Kept(m, blocks)
        PROVE  RemoveHead(spec, u.head) = spec
    BY <1>2, <2>1 DEF Landed, RemoveHead
  <2>2. \A s \in {spec}, u \in ToSet(Units("removed", blocks)) :
          ResolveRename(m, u.head) \notin Kept(m, blocks) => RemoveHead(s, u.head) \in {spec}
    BY <2>1
  <2>3. Removed(m, blocks, spec) \in {spec}
    BY <2>2, RemovedStays
  <2> QED
    BY <2>3
<1>5. Replaced(blocks, spec) = spec
  <2>1. ASSUME NEW u \in ToSet(Units("modified", blocks)) PROVE ReplaceBody(spec, u) = spec
    <3>1. PICK r \in ToSet(spec) : Shaped(r, u)
      BY <1>2 DEF Landed, ShapedIn
    <3>3. KeepMarker(r, u) = r
      BY <3>1 DEF Shaped
    <3>4. \A q \in ToSet(spec) : q.head = u.head => q = r
      BY <3>1, OneOfEach DEF Shaped
    <3> QED
      BY <3>3, <3>4, UnitFields, ReplaceBodyDoes
  <2>2. Replaced(blocks, spec) \in {spec}
    BY <2>1, ReplacedStays
  <2> QED
    BY <2>2
<1>6. Extended(m, blocks, spec) = spec
  <2> DEFINE G == [u \in ToSet(Units("added", blocks)) |-> {spec}]
  <2>1. ASSUME NEW u \in ToSet(Units("added", blocks))
        PROVE  AddRequirement(spec, ResolveRename(m, u.head), Edited(m, blocks, u))
                 = spec
    BY <1>2 DEF Landed, AddRequirement
  <2>2. Extended(m, blocks, spec) \in {spec}
    <3>1. \A u \in ToSet(Units("added", blocks)) : G[u] = {spec}
      OBVIOUS
    <3>2. ASSUME NEW s \in {spec}, NEW u \in ToSet(Units("added", blocks))
          PROVE  LET t == AddRequirement(s, ResolveRename(m, u.head), Edited(m, blocks, u))
                 IN  /\ t \in {spec} /\ t \in G[u]
                     /\ \A w \in ToSet(Units("added", blocks)) : s \in G[w] => t \in G[w]
      BY <2>1, <3>1
    <3> HIDE DEF G
    <3> QED
      BY <3>2, ExtendedEach
  <2> QED
    BY <2>2
<1>7. Promoted(m, blocks, Heads(spec), spec) = spec
  <2> DEFINE G == [u \in ToSet(Units("modified", blocks)) |-> {spec}]
  <2>1. ASSUME NEW u \in ToSet(Units("modified", blocks)) PROVE u.head \in Heads(spec)
    BY <1>2 DEF Landed, ShapedIn, Shaped, Heads
  <2>2. Promoted(m, blocks, Heads(spec), spec) \in {spec}
    <3>1. \A u \in ToSet(Units("modified", blocks)) : G[u] = {spec}
      OBVIOUS
    <3> HIDE DEF G
    <3> QED
      BY <2>1, <3>1, PromotedEach
  <2> QED
    BY <2>2
<1> QED
  BY <1>1, <1>3, <1>4, <1>5, <1>6, <1>7, Stages DEF Finished

\* What was landed is what the author asked for.
LEMMA LandedHolds ==
  ASSUME NEW blocks, AreBlocks(blocks), Coherent(blocks), NEW spec, Landed(spec, RenameMap(blocks), blocks)
  PROVE  Holds(spec, blocks)
<1>1. PICK m : m = RenameMap(blocks)
  OBVIOUS
<1>2. The({RenameMap(blocks)}) = m
  BY <1>1, TheOne
<1>3. PICK back : back = {ResolveRename(m, u.head) :
                             u \in ToSet(Units("added", blocks) \o Units("modified", blocks))}
                           \cup Range(m)
  OBVIOUS
<1>4. Kept(m, blocks) \subseteq back
  <2>1. Units("added", blocks) \in Seq(UnitsOf("added"))
        /\ Units("modified", blocks) \in Seq(UnitsOf("modified"))
    BY UnitFields DEF Verbs
  <2>2. UnitsOf("added") = Edits /\ UnitsOf("modified") = Edits
    BY DEF UnitsOf, Edits
  <2>3. ASSUME NEW a \in Seq(Edits), NEW b \in Seq(Edits) PROVE ToSet(a) \subseteq ToSet(a \o b)
    <3>1. /\ Len(a) \in Nat /\ Len(b) \in Nat /\ DOMAIN a = 1 .. Len(a)
          /\ DOMAIN (a \o b) = 1 .. Len(a) + Len(b)
          /\ \A i \in 1 .. Len(a) : (a \o b)[i] = a[i]
      OBVIOUS
    <3>2. \A i \in DOMAIN a : i \in DOMAIN (a \o b) /\ (a \o b)[i] = a[i]
      BY <3>1
    <3> QED
      BY <3>2 DEF ToSet
  <2>4. ToSet(Units("added", blocks)) \subseteq ToSet(Units("added", blocks) \o Units("modified", blocks))
    BY <2>1, <2>2, <2>3
  <2> QED
    BY <1>3, <2>4 DEF Kept
<1>5. \A u \in ToSet(Units("added", blocks)) : ResolveRename(m, u.head) \in Heads(spec)
  BY <1>1 DEF Landed
<1>6. ASSUME NEW u \in ToSet(Units("modified", blocks))
      PROVE  \E r \in ToSet(spec) : r.head = ResolveRename(m, u.head) /\ r.body = u.body
  BY <1>1 DEF Landed, ShapedIn, Shaped, Coherent, ResolveRename
<1>7. \A u \in ToSet(Units("removed", blocks)) : u.head \in Heads(spec) => ResolveRename(m, u.head) \in back
  BY <1>1, <1>4 DEF Landed
<1>8. \A h \in DOMAIN m : h \in Heads(spec) => ResolveRename(m, h) \in Heads(spec)
  BY <1>1 DEF Landed, MovedOn, ResolveRename
<1> QED
  BY <1>2, <1>3, <1>5, <1>6, <1>7, <1>8 DEF Holds

\* Deltas among blocks that ask one thing of a heading they modify ask one thing.
LEMMA OneThingAsked ==
  ASSUME NEW B, AsksOneThing(B), NEW blocks, AreBlocks(blocks), ToSet(blocks) \subseteq B
  PROVE  Coherent(blocks)
<1>1. /\ ToSet(Units("modified", blocks)) \subseteq UnitsIn("modified", blocks)
      /\ ToSet(Units("removed", blocks)) \subseteq UnitsIn("removed", blocks)
      /\ ToSet(Units("renamed", blocks)) \subseteq UnitsIn("renamed", blocks)
  BY UnitsAre DEF Verbs
<1>2. ASSUME NEW u \in ToSet(Units("modified", blocks))
      PROVE  /\ \A w \in ToSet(Units("modified", blocks)) : w.head = u.head => w = u
             /\ \A w \in ToSet(Units("removed", blocks)) : w.head # u.head
             /\ \A p \in ToSet(Units("renamed", blocks)) : p.old # u.head
  <2>1. PICK b \in B : b.verb = "modified" /\ u \in ToSet(b.units)
    BY <1>1 DEF UnitsIn
  <2>2. ASSUME NEW verb, NEW w \in UnitsIn(verb, blocks)
        PROVE  \E d \in B : d.verb = verb /\ w \in ToSet(d.units)
    BY <2>2 DEF UnitsIn
  <2> QED
    BY <1>1, <2>1, <2>2 DEF AsksOneThing
<1> QED
  BY <1>2, RenameMapIs DEF Coherent

\* Whatever the verbs and their order, after a fold the deltas hold, when they ask one thing
\* of each heading they modify: every addition is there, every modification is there with its
\* text, nothing removed is left and every rename went to the end of its chain (apply_deltas).
THEOREM EveryDeltaLands == InitialUnique /\ Spec => []DeltasLand
<1> SUFFICES ASSUME InitialUnique PROVE Spec => []DeltasLand
  OBVIOUS
<1>1. ASSUME FoldInv PROVE DeltasLand
  <2>1. ASSUME NEW c \in Cap, NEW default, AsksOneThing(ToSet(Selected(doc, c, default)))
        PROVE  Holds(ApplyDeltas(specs[c], Selected(doc, c, default)), Selected(doc, c, default))
    <3>1. PICK blocks : blocks = Selected(doc, c, default)
      OBVIOUS
    <3>2. AreBlocks(blocks) /\ Coherent(blocks) /\ specs[c] \in UniqueSpecs
      BY <1>1, <2>1, <3>1, DocBlocks, SelectedAre, OneThingAsked DEF FoldInv
    <3>3. Landed(ApplyDeltas(specs[c], blocks), RenameMap(blocks), blocks)
      BY <3>2, FoldLands
    <3> QED
      BY <3>1, <3>2, <3>3, LandedHolds
  <2>2. \A c, default : DeltasFor(c, default) = Selected(doc, c, default)
    BY DEF DeltasFor, Selected
  <2> QED
    BY <2>1, <2>2 DEF DeltasLand
<1>2. Init => FoldInv
  BY FoldInit
<1>3. FoldInv /\ [Next]_vars => FoldInv'
  BY FoldNext
<1>4. FoldInv => DeltasLand
  BY <1>1
<1> QED
  BY <1>2, <1>3, <1>4, PTL DEF Spec

\* A fold applied to its own result changes nothing, when the deltas ask one thing of each
\* heading they modify (apply_deltas, "Re-applying a delta set to its own output is a no-op").
THEOREM RefoldsChangeNothing == InitialUnique /\ Spec => []RefoldIsNoOp
<1> SUFFICES ASSUME InitialUnique PROVE Spec => []RefoldIsNoOp
  OBVIOUS
<1>1. ASSUME FoldInv PROVE RefoldIsNoOp
  <2>1. ASSUME NEW c \in Cap, NEW default, AsksOneThing(ToSet(Selected(doc, c, default)))
        PROVE  ApplyDeltas(ApplyDeltas(specs[c], Selected(doc, c, default)), Selected(doc, c, default))
                 = ApplyDeltas(specs[c], Selected(doc, c, default))
    <3>1. PICK blocks : blocks = Selected(doc, c, default)
      OBVIOUS
    <3>2. AreBlocks(blocks) /\ Coherent(blocks) /\ specs[c] \in UniqueSpecs
      BY <1>1, <2>1, <3>1, DocBlocks, SelectedAre, OneThingAsked DEF FoldInv
    <3>3. PICK once : once = ApplyDeltas(specs[c], blocks)
      OBVIOUS
    <3>4. once \in UniqueSpecs /\ Landed(once, RenameMap(blocks), blocks)
      BY <3>2, <3>3, FoldLands
    <3>5. ApplyDeltas(once, blocks) = once
      BY <3>2, <3>4, LandedStays
    <3> QED
      BY <3>1, <3>3, <3>5
  <2>2. \A c, default : DeltasFor(c, default) = Selected(doc, c, default)
    BY DEF DeltasFor, Selected
  <2> QED
    BY <2>1, <2>2 DEF RefoldIsNoOp, Refolds
<1>2. Init => FoldInv
  BY FoldInit
<1>3. FoldInv /\ [Next]_vars => FoldInv'
  BY FoldNext
<1>4. FoldInv => RefoldIsNoOp
  BY <1>1
<1> QED
  BY <1>2, <1>3, <1>4, PTL DEF Spec

-----------------------------------------------------------------------------
(* What a requirement was read for it is still read for                     *)

\* The specs in which r is there, under its own heading or its final one, with at least
\* its files and its edges.
Keeping(r, m) ==
  {s \in UniqueSpecs : \E q \in ToSet(s) :
     q.head \in {r.head, ResolveRename(m, r.head)} /\ TouchesGlobs(r) \subseteq TouchesGlobs(q)
     /\ r.aligns \subseteq q.aligns}

\* The renames keep it.
LEMMA RenamesKeep ==
  ASSUME NEW blocks, AreBlocks(blocks), NEW m, MapFits(m), NEW r \in Requirements, NEW spec \in Keeping(r, m)
  PROVE  Renamed(m, blocks, spec) \in Keeping(r, m)
<1>1. ASSUME NEW s \in Keeping(r, m), NEW p \in ToSet(Units("renamed", blocks)), p.old \in DOMAIN m
      PROVE  RenameTo(s, p.old, ResolveRename(m, p.old)) \in Keeping(r, m)
  <2>1. PICK new : new = ResolveRename(m, p.old)
    OBVIOUS
  <2>2. PICK t : t = RenameTo(s, p.old, new)
    OBVIOUS
  <2>3. p.old \in Headings /\ new \in Headings /\ s \in UniqueSpecs
    BY <2>1, UnitFields, FinalIs DEF Keeping
  <2>4. /\ t \in UniqueSpecs
        /\ t = s \/ ToSet(t) = {IF q.head = p.old THEN [q EXCEPT !.head = new] ELSE q : q \in ToSet(s)}
    BY <2>2, <2>3, RenameToDoes
  <2>5. PICK q \in ToSet(s) : /\ q.head \in {r.head, ResolveRename(m, r.head)}
                              /\ TouchesGlobs(r) \subseteq TouchesGlobs(q) /\ r.aligns \subseteq q.aligns
    BY DEF Keeping
  <2>6. PICK w : w = IF q.head = p.old THEN [q EXCEPT !.head = new] ELSE q
    OBVIOUS
  <2>7. /\ w.head \in {r.head, ResolveRename(m, r.head)}
        /\ TouchesGlobs(w) = TouchesGlobs(q) /\ w.aligns = q.aligns
    <3>1. q \in Requirements /\ r.head \in Headings
      BY <2>3, SpecFields DEF Requirements
    <3>2. CASE q.head # p.old
      BY <2>5, <2>6, <3>2
    <3>3. CASE q.head = p.old
      <4>1. q.head # ResolveRename(m, r.head) \/ q.head = r.head
        BY <1>1, <3>1, <3>3, FinalIs
      <4>2. q.head = r.head /\ new = ResolveRename(m, r.head)
        BY <1>1, <2>1, <2>5, <3>1, <3>3, <4>1, FinalIs
      <4>3. w.head = new /\ TouchesGlobs(w) = TouchesGlobs(q) /\ w.aligns = q.aligns
        BY <2>3, <2>6, <3>1, <3>3, HeadingOf DEF TouchesGlobs
      <4> QED
        BY <4>2, <4>3
    <3> QED
      BY <3>2, <3>3
  <2>8. CASE t = s
    BY <2>1, <2>2, <2>8
  <2>9. CASE t # s
    <3>1. w \in ToSet(t)
      BY <2>4, <2>6, <2>9
    <3> QED
      BY <2>1, <2>2, <2>4, <2>5, <2>7, <3>1 DEF Keeping
  <2> QED
    BY <2>8, <2>9
<1> QED
  BY <1>1, RenamedStays

\* The removals keep it when they are not of its headings.
LEMMA RemovalsKeep ==
  ASSUME NEW blocks, AreBlocks(blocks), NEW m, MapFits(m), NEW r \in Requirements, NEW spec \in Keeping(r, m),
         \A u \in ToSet(Units("removed", blocks)) : ResolveRename(m, u.head) \notin Kept(m, blocks) =>
           u.head \notin {r.head, ResolveRename(m, r.head)}
  PROVE  Removed(m, blocks, spec) \in Keeping(r, m)
<1>1. ASSUME NEW s \in Keeping(r, m), NEW u \in ToSet(Units("removed", blocks)),
             ResolveRename(m, u.head) \notin Kept(m, blocks)
      PROVE  RemoveHead(s, u.head) \in Keeping(r, m)
  <2>1. PICK t : t = RemoveHead(s, u.head)
    OBVIOUS
  <2>2. t \in UniqueSpecs /\ ToSet(t) = {q \in ToSet(s) : q.head # u.head}
    BY <2>1, RemoveHeadDoes DEF Keeping
  <2>3. PICK q \in ToSet(s) : /\ q.head \in {r.head, ResolveRename(m, r.head)}
                              /\ TouchesGlobs(r) \subseteq TouchesGlobs(q) /\ r.aligns \subseteq q.aligns
    BY DEF Keeping
  <2>4. q \in ToSet(t)
    BY <1>1, <2>2, <2>3
  <2> QED
    BY <2>1, <2>2, <2>3, <2>4 DEF Keeping
<1> QED
  BY <1>1, RemovedStays

\* The rest of the fold keeps it.
LEMMA EditsKeep ==
  ASSUME NEW blocks, AreBlocks(blocks), NEW m, MapFits(m), NEW r \in Requirements, NEW spec \in Keeping(r, m)
  PROVE  Finished(m, blocks, spec) \in Keeping(r, m)
<1>1. ASSUME NEW s \in Keeping(r, m), NEW u \in ToSet(Units("modified", blocks))
      PROVE  ReplaceBody(s, u) \in Keeping(r, m)
  <2>1. PICK t : t = ReplaceBody(s, u)
    OBVIOUS
  <2>2. u \in Edits /\ s \in UniqueSpecs
    BY UnitFields DEF Keeping
  <2>3. t \in UniqueSpecs /\ ToSet(t) = {IF q.head = u.head THEN KeepMarker(q, u) ELSE q : q \in ToSet(s)}
    BY <2>1, <2>2, ReplaceBodyDoes
  <2>4. PICK q \in ToSet(s) : /\ q.head \in {r.head, ResolveRename(m, r.head)}
                              /\ TouchesGlobs(r) \subseteq TouchesGlobs(q) /\ r.aligns \subseteq q.aligns
    BY DEF Keeping
  <2>5. PICK w : w = IF q.head = u.head THEN KeepMarker(q, u) ELSE q
    OBVIOUS
  <2>6. w.head = q.head /\ TouchesGlobs(q) \subseteq TouchesGlobs(w) /\ w.aligns = q.aligns
    <3>1. q \in Requirements
      BY <2>2, SpecFields
    <3>2. CASE q.head = u.head
      BY <2>2, <2>5, <3>1, <3>2, KeepMarkerIs
    <3>3. CASE q.head # u.head
      BY <2>5, <3>3
    <3> QED
      BY <3>2, <3>3
  <2>7. w \in ToSet(t)
    BY <2>3, <2>5
  <2>8. w.head \in {r.head, ResolveRename(m, r.head)} /\ TouchesGlobs(r) \subseteq TouchesGlobs(w)
        /\ r.aligns \subseteq w.aligns
    BY <2>4, <2>6
  <2> QED
    BY <2>1, <2>3, <2>7, <2>8 DEF Keeping
<1>2. ASSUME NEW s \in Keeping(r, m), NEW h \in Headings,
             NEW u \in ToSet(Units("added", blocks)) \cup ToSet(Units("modified", blocks))
      PROVE  AddRequirement(s, h, u) \in Keeping(r, m)
  <2>1. PICK t : t = AddRequirement(s, h, u)
    OBVIOUS
  <2>2. u \in Edits /\ s \in UniqueSpecs
    BY UnitFields DEF Keeping
  <2>3. t \in UniqueSpecs /\ ToSet(s) \subseteq ToSet(t)
    BY <2>1, <2>2, AddRequirementDoes
  <2> QED
    BY <2>1, <2>3 DEF Keeping
<1>3. Replaced(blocks, spec) \in Keeping(r, m)
  BY <1>1, ReplacedStays
<1>4. Extended(m, blocks, Replaced(blocks, spec)) \in Keeping(r, m)
  BY <1>2, <1>3, AddedStays
<1>5. \A present : Promoted(m, blocks, present, Extended(m, blocks, Replaced(blocks, spec))) \in Keeping(r, m)
  BY <1>2, <1>4, AddedStays
<1> QED
  BY <1>5 DEF Finished

\* A requirement that a fold leaves anything of it leaves with its files and edges.
LEMMA FoldKeeps ==
  ASSUME NEW blocks, AreBlocks(blocks), Coherent(blocks), NEW spec \in UniqueSpecs, NEW r \in ToSet(spec),
         NEW m, m = RenameMap(blocks), NEW after, after = ApplyDeltas(spec, blocks),
         NEW q \in ToSet(after), q.head \in {r.head, ResolveRename(m, r.head)}
  PROVE  after \in Keeping(r, m)
<1>1. MapFits(m) /\ r \in Requirements /\ r.head \in Headings /\ spec \in Keeping(r, m)
  BY RenameMapIs, SpecFields DEF Requirements, Keeping
<1>2. Landed(after, m, blocks)
  BY FoldLands
<1>3. ASSUME NEW u \in ToSet(Units("removed", blocks)), ResolveRename(m, u.head) \notin Kept(m, blocks)
      PROVE  u.head \notin {r.head, ResolveRename(m, r.head)}
  <2>1. SUFFICES ASSUME u.head \in {r.head, ResolveRename(m, r.head)} PROVE FALSE
    OBVIOUS
  <2>2. ResolveRename(m, u.head) = ResolveRename(m, r.head)
    BY <1>1, <2>1, FinalIs
  <2>3. r.head \notin DOMAIN m
    BY <1>1, <1>3, <2>2, FinalIs DEF Kept
  <2>4. q.head = u.head
    BY <1>1, <2>1, <2>3, FinalIs
  <2> QED
    BY <1>2, <1>3, <2>4 DEF Landed, Heads
<1>4. PICK D : D = Removed(m, blocks, Renamed(m, blocks, spec))
  OBVIOUS
<1>5. D \in Keeping(r, m)
  <2>1. Renamed(m, blocks, spec) \in Keeping(r, m)
    BY <1>1, RenamesKeep
  <2> QED
    BY <1>1, <1>3, <1>4, <2>1, RemovalsKeep
<1>6. Finished(m, blocks, D) \in Keeping(r, m)
  BY <1>1, <1>5, EditsKeep
<1> QED
  BY <1>4, <1>6, Stages

\* When the deltas ask one thing of each heading they modify, a requirement whose marker stands
\* under its heading is still read for every file it was read for before a fold, and any keeps
\* its aligns edges, under its old or its new heading (_keep_marker).
THEOREM MarkersNeverNarrow == InitialUnique /\ Spec => MarkersOnlyWiden
<1> SUFFICES ASSUME InitialUnique PROVE Spec => MarkersOnlyWiden
  OBVIOUS
<1> DEFINE Widens ==
      \A c \in Cap : specs'[c] # specs[c] /\ AsksOneThing(MayFold(c)) =>
        \E default \in {MostSpecific(Change), MostSpecific({})} :
        \E mapping \in {RenameMap(DeltasFor(c, default))} : \A r \in ToSet(specs[c]) :
          Successors(r, specs'[c], mapping) # {} =>
            \E s \in Successors(r, specs'[c], mapping) :
              TouchesGlobs(r) \subseteq TouchesGlobs(s) /\ r.aligns \subseteq s.aligns
<1>1. ASSUME FoldInv, [Next]_vars PROVE Widens
  <2>1. SUFFICES ASSUME NEW c \in Cap, specs'[c] # specs[c], AsksOneThing(MayFold(c))
        PROVE  \E default \in {MostSpecific(Change), MostSpecific({})} :
               \E mapping \in {RenameMap(DeltasFor(c, default))} : \A r \in ToSet(specs[c]) :
                 Successors(r, specs'[c], mapping) # {} =>
                   \E s \in Successors(r, specs'[c], mapping) :
                     TouchesGlobs(r) \subseteq TouchesGlobs(s) /\ r.aligns \subseteq s.aligns
    OBVIOUS
  <2>2. PICK changed \in {Change, {}} :
          specs'[c] = ApplyDeltas(specs[c], Selected(doc, c, MostSpecific(changed)))
    BY <1>1, <2>1, ChangesFold
  <2>3. PICK default : default = MostSpecific(changed)
    OBVIOUS
  <2>4. PICK blocks : blocks = Selected(doc, c, default)
    OBVIOUS
  <2>5. AreBlocks(blocks) /\ Coherent(blocks) /\ specs[c] \in UniqueSpecs
    <3>1. AreBlocks(blocks) /\ ToSet(blocks) \subseteq MayFold(c)
      BY <1>1, <2>4, DocBlocks, SelectedAre DEF FoldInv, MayFold
    <3> QED
      BY <1>1, <2>1, <3>1, OneThingAsked DEF FoldInv
  <2>6. PICK m : m = RenameMap(blocks)
    OBVIOUS
  <2>7. PICK after : after = specs'[c]
    OBVIOUS
  <2>8. ASSUME NEW r \in ToSet(specs[c]), NEW q \in Successors(r, after, m)
        PROVE  \E s \in Successors(r, after, m) :
                 TouchesGlobs(r) \subseteq TouchesGlobs(s) /\ r.aligns \subseteq s.aligns
    <3>1. after \in Keeping(r, m)
      BY <2>2, <2>3, <2>4, <2>5, <2>6, <2>7, FoldKeeps DEF Successors
    <3> QED
      BY <3>1 DEF Keeping, Successors
  <2>9. /\ default \in {MostSpecific(Change), MostSpecific({})}
        /\ RenameMap(DeltasFor(c, default)) = m
    BY <2>3, <2>4, <2>6 DEF DeltasFor, Selected
  <2> QED
    BY <2>7, <2>8, <2>9
<1>2. Init => FoldInv
  BY FoldInit
<1>3. FoldInv /\ [Next]_vars => FoldInv'
  BY FoldNext
<1>4. FoldInv /\ [Next]_vars => Widens
  BY <1>1
<1> QED
  BY <1>2, <1>3, <1>4, PTL DEF Spec, MarkersOnlyWiden

=============================================================================
