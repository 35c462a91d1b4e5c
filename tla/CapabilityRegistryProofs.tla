----------------------- MODULE CapabilityRegistryProofs -----------------------
(***************************************************************************)
(* Safety of the capability registry of CapabilityRegistry, for any names, *)
(* configs and files, while one command is at work at a time.              *)
(***************************************************************************)
EXTENDS CapabilityRegistry, SequenceTheorems, NaturalsInduction, WellFoundedInduction, TLAPS

-----------------------------------------------------------------------------
(* Numbers and sequences                                                    *)

\* A set of natural numbers has a least one.
LEMMA LeastElement ==
  ASSUME NEW T, T \subseteq Nat, T # {}
  PROVE  \E n \in T : \A m \in T : n <= m
<1> DEFINE R == OpToRel(<, Nat)
<1>1. IsWellFoundedOn(R, Nat)
  BY NatLessThanWellFounded
<1>2. \A m, n \in Nat : m < n => <<m, n>> \in R
  BY DEF OpToRel
<1> HIDE DEF R
<1>3. PICK x \in T : \A y \in T : ~ (<<y, x>> \in R)
  BY <1>1, WFMin
<1>4. ASSUME NEW y \in T PROVE x <= y
  <2>1. x \in Nat /\ y \in Nat /\ ~ (y < x)
    BY <1>2, <1>3
  <2> QED
    BY <2>1
<1> QED
  BY <1>4

\* Min is an element.
LEMMA MinIsIn ==
  ASSUME NEW T, T \subseteq Nat, T # {}
  PROVE  Min(T) \in T
BY LeastElement DEF Min

\* A set that contains 0 and with a number below n the next one goes up to n.
LEMMA UpTo ==
  ASSUME NEW n \in Nat, NEW T, 0 \in T, \A i \in 0 .. n - 1 : i \in T => i + 1 \in T
  PROVE  0 .. n \subseteq T
<1> DEFINE missing == (0 .. n) \ T
<1>1. SUFFICES ASSUME missing # {} PROVE FALSE
  OBVIOUS
<1>2. missing \subseteq Nat
  OBVIOUS
<1> HIDE DEF missing
<1>3. PICK i \in missing : \A j \in missing : i <= j
  BY <1>1, <1>2, LeastElement
<1>4. i \in 0 .. n /\ i \notin T /\ i # 0 /\ i - 1 \in 0 .. n - 1
  BY <1>3 DEF missing
<1>5. i - 1 \notin missing
  BY <1>3, <1>4, <1>2
<1>6. i - 1 \in T /\ (i - 1) + 1 = i
  BY <1>4, <1>5 DEF missing
<1> QED
  BY <1>4, <1>6

\* What a sequence is.
LEMMA SeqFields ==
  ASSUME NEW S, NEW s \in Seq(S)
  PROVE  /\ Len(s) \in Nat /\ DOMAIN s = 1 .. Len(s) /\ \A i \in 1 .. Len(s) : s[i] \in S
         /\ ToSet(s) = {s[i] : i \in 1 .. Len(s)} /\ ToSet(s) \subseteq S
BY DEF ToSet

\* The element of a set of one.
LEMMA TheOne == \A x : The({x}) = x
BY DEF The

\* An element more at the end.
LEMMA AppendSet ==
  ASSUME NEW S, NEW s \in Seq(S), NEW x \in S
  PROVE  /\ Append(s, x) \in Seq(S) /\ ToSet(Append(s, x)) = ToSet(s) \cup {x}
         /\ Len(Append(s, x)) = Len(s) + 1
         /\ IsInjective(s) /\ x \notin ToSet(s) => IsInjective(Append(s, x))
<1>1. /\ Append(s, x) \in Seq(S) /\ Len(s) \in Nat /\ DOMAIN s = 1 .. Len(s)
      /\ Len(Append(s, x)) = Len(s) + 1 /\ DOMAIN Append(s, x) = 1 .. Len(s) + 1
      /\ \A i \in 1 .. Len(s) : Append(s, x)[i] = s[i] /\ s[i] \in S
      /\ Append(s, x)[Len(s) + 1] = x
  OBVIOUS
<1>2. \A i \in 1 .. Len(s) + 1 : i \in 1 .. Len(s) \/ i = Len(s) + 1
  BY <1>1
<1>3. ToSet(Append(s, x)) = ToSet(s) \cup {x}
  BY <1>1, <1>2 DEF ToSet
<1>4. IsInjective(s) /\ x \notin ToSet(s) => IsInjective(Append(s, x))
  BY <1>1, <1>2 DEF IsInjective, ToSet
<1> QED
  BY <1>1, <1>3, <1>4

\* The first element taken off.
LEMMA HeadTailSet ==
  ASSUME NEW S, NEW s \in Seq(S), s # <<>>
  PROVE  /\ Head(s) \in S /\ Tail(s) \in Seq(S) /\ ToSet(s) = ToSet(Tail(s)) \cup {Head(s)}
         /\ IsInjective(s) => IsInjective(Tail(s)) /\ Head(s) \notin ToSet(Tail(s))
<1>1. /\ Tail(s) \in Seq(S) /\ Len(s) \in Nat \ {0} /\ DOMAIN s = 1 .. Len(s) /\ Head(s) = s[1]
      /\ Len(Tail(s)) = Len(s) - 1 /\ DOMAIN Tail(s) = 1 .. Len(s) - 1 /\ s[1] \in S
      /\ \A i \in 1 .. Len(s) - 1 : Tail(s)[i] = s[i + 1]
  OBVIOUS
<1>2. \A i \in 1 .. Len(s) : i = 1 \/ (i - 1 \in 1 .. Len(s) - 1 /\ (i - 1) + 1 = i)
  BY <1>1
<1>3. \A i \in 1 .. Len(s) - 1 : i + 1 \in 1 .. Len(s) /\ i + 1 # 1
  BY <1>1
<1>4. ToSet(s) = ToSet(Tail(s)) \cup {Head(s)}
  <2>1. ToSet(s) = {s[i] : i \in 1 .. Len(s)} /\ ToSet(Tail(s)) = {Tail(s)[i] : i \in 1 .. Len(s) - 1}
    BY <1>1 DEF ToSet
  <2>2. ASSUME NEW i \in 1 .. Len(s) PROVE s[i] \in ToSet(Tail(s)) \cup {Head(s)}
    BY <1>1, <1>2, <2>1
  <2>3. ASSUME NEW i \in 1 .. Len(s) - 1 PROVE Tail(s)[i] \in ToSet(s)
    BY <1>1, <1>3, <2>1
  <2>4. Head(s) \in ToSet(s)
    BY <1>1, <2>1
  <2> QED
    BY <2>1, <2>2, <2>3, <2>4
<1>5. ASSUME IsInjective(s) PROVE IsInjective(Tail(s)) /\ Head(s) \notin ToSet(Tail(s))
  BY <1>1, <1>3, <1>5 DEF IsInjective, ToSet
<1> QED
  BY <1>1, <1>4, <1>5

\* The last element taken off.
LEMMA FrontLastSet ==
  ASSUME NEW S, NEW s \in Seq(S), s # <<>>
  PROVE  /\ Last(s) \in S /\ Front(s) \in Seq(S) /\ ToSet(s) = ToSet(Front(s)) \cup {Last(s)}
         /\ IsInjective(s) => IsInjective(Front(s)) /\ Last(s) \notin ToSet(Front(s))
<1> DEFINE n == Len(s)
<1>1. n \in Nat \ {0} /\ DOMAIN s = 1 .. n /\ Last(s) = s[n] /\ \A i \in 1 .. n : s[i] \in S
  BY DEF Last
<1>2. Front(s) = SubSeq(s, 1, n - 1)
  BY DEF Front
<1> HIDE DEF n
<1>3. \A i \in 1 .. n - 1 : s[i] \in S /\ i \in 1 .. n /\ i # n
  BY <1>1
<1>4. /\ SubSeq(s, 1, n - 1) \in Seq(S)
      /\ Len(SubSeq(s, 1, n - 1)) = IF 1 <= n - 1 THEN (n - 1) - 1 + 1 ELSE 0
      /\ \A i \in 1 .. (n - 1) - 1 + 1 : SubSeq(s, 1, n - 1)[i] = s[1 + i - 1]
  BY <1>1, <1>3, SubSeqProperties
<1>5. (n - 1) - 1 + 1 = n - 1 /\ \A i \in 1 .. n - 1 : 1 + i - 1 = i
  BY <1>1
<1>6. /\ Front(s) \in Seq(S) /\ DOMAIN Front(s) = 1 .. n - 1
      /\ \A i \in 1 .. n - 1 : Front(s)[i] = s[i]
  <2>1. Len(Front(s)) = n - 1
    BY <1>1, <1>2, <1>4, <1>5
  <2> QED
    BY <1>2, <1>4, <1>5, <2>1
<1>7. \A i \in 1 .. n : i = n \/ i \in 1 .. n - 1
  BY <1>1
<1>8. ToSet(s) = {s[i] : i \in 1 .. n} /\ ToSet(Front(s)) = {Front(s)[i] : i \in 1 .. n - 1}
  BY <1>1, <1>6 DEF ToSet
<1>9. ToSet(s) = ToSet(Front(s)) \cup {Last(s)}
  <2>1. ASSUME NEW i \in 1 .. n PROVE s[i] \in ToSet(Front(s)) \cup {Last(s)}
    BY <1>1, <1>6, <1>7, <1>8
  <2>2. ASSUME NEW i \in 1 .. n - 1 PROVE Front(s)[i] \in ToSet(s)
    BY <1>3, <1>6, <1>8
  <2>3. n \in 1 .. n
    BY <1>1
  <2> QED
    BY <1>1, <1>8, <2>1, <2>2, <2>3
<1>10. ASSUME IsInjective(s) PROVE IsInjective(Front(s)) /\ Last(s) \notin ToSet(Front(s))
  <2>1. \A i, j \in 1 .. n : s[i] = s[j] => i = j
    BY <1>1, <1>10 DEF IsInjective
  <2>2. IsInjective(Front(s))
    BY <1>3, <1>6, <2>1 DEF IsInjective
  <2>3. n \in 1 .. n
    BY <1>1
  <2>4. \A i \in 1 .. n - 1 : Front(s)[i] # Last(s)
    BY <1>1, <1>3, <1>6, <2>1, <2>3
  <2> QED
    BY <1>8, <2>2, <2>4
<1> QED
  BY <1>1, <1>6, <1>9, <1>10

\* f[i] is what is left of the first i elements.
Sifting(seq, keep, f) ==
  /\ f[0] = <<>>
  /\ \A i \in 0 .. Len(seq) - 1 :
       f[i + 1] = IF seq[i + 1] \in keep THEN Append(f[i], seq[i + 1]) ELSE f[i]

\* Only takes one element after the other.
LEMMA OnlyUnfold ==
  ASSUME NEW S, NEW seq \in Seq(S), NEW keep
  PROVE  \E f : Sifting(seq, keep, f) /\ Only(seq, keep) = f[Len(seq)]
<1> DEFINE n == Len(seq)
           Op(r, x) == IF x \in keep THEN Append(r, x) ELSE r
           Def(v, i) == The({Op(r, seq[i]) : r \in {v}})
           f == CHOOSE g : g = [i \in 0 .. n |-> IF i = 0 THEN <<>>
                                ELSE The({Op(r, seq[i]) : r \in {g[i - 1]}})]
           all == {Replay(LAMBDA r, x : IF x \in k THEN Append(r, x) ELSE r, <<>>, seq) : k \in {keep}}
<1>1. n \in Nat /\ 0 \in Nat
  OBVIOUS
<1>2. Only(seq, keep) = f[n]
  <2>1. all = {f[n]}
    BY DEF Replay
  <2>2. Only(seq, keep) = The(all)
    BY DEF Only
  <2> HIDE DEF all, f, n
  <2> QED
    BY <2>1, <2>2, TheOne
<1> HIDE DEF all
<1>3. FiniteNatInductiveDefHypothesis(f, <<>>, Def, 0, n)
  BY DEF FiniteNatInductiveDefHypothesis
<1>4. \A v, i : Def(v, i) = IF seq[i] \in keep THEN Append(v, seq[i]) ELSE v
  <2> SUFFICES ASSUME NEW v, NEW i PROVE Def(v, i) = Op(v, seq[i])
    OBVIOUS
  <2> HIDE DEF Op
  <2>1. {Op(r, seq[i]) : r \in {v}} = {Op(v, seq[i])}
    OBVIOUS
  <2> QED
    BY <2>1 DEF The
<1> HIDE DEF Def, f, n
<1>5. FiniteNatInductiveDefConclusion(f, <<>>, Def, 0, n)
  BY <1>1, <1>3, FiniteNatInductiveDef
<1>6. f = [i \in 0 .. n |-> IF i = 0 THEN <<>> ELSE Def(f[i - 1], i)]
  BY <1>5 DEF FiniteNatInductiveDefConclusion
<1>7. f[0] = <<>>
  BY <1>1, <1>6
<1>8. ASSUME NEW i \in 0 .. n - 1
      PROVE  f[i + 1] = IF seq[i + 1] \in keep THEN Append(f[i], seq[i + 1]) ELSE f[i]
  <2>1. i + 1 \in 0 .. n /\ i + 1 # 0 /\ (i + 1) - 1 = i
    BY <1>1
  <2>2. f[i + 1] = Def(f[i], i + 1)
    BY <1>6, <2>1
  <2> QED
    BY <1>4, <2>2
<1> QED
  BY <1>2, <1>7, <1>8 DEF Sifting, n

\* Only keeps the elements of the set, and each at most as often as it was there.
LEMMA OnlyDoes ==
  ASSUME NEW S, NEW seq \in Seq(S), NEW keep
  PROVE  /\ Only(seq, keep) \in Seq(S) /\ ToSet(Only(seq, keep)) = ToSet(seq) \cap keep
         /\ IsInjective(seq) => IsInjective(Only(seq, keep))
<1>1. PICK f : Sifting(seq, keep, f) /\ Only(seq, keep) = f[Len(seq)]
  BY OnlyUnfold
<1> DEFINE n == Len(seq)
           First(k) == {seq[j] : j \in 1 .. k}
           T == {k \in 0 .. n : /\ f[k] \in Seq(S) /\ ToSet(f[k]) = First(k) \cap keep
                                /\ IsInjective(seq) => IsInjective(f[k])}
<1>2. n \in Nat /\ DOMAIN seq = 1 .. n
  OBVIOUS
<1>3. 0 \in T
  <2>1. First(0) = {} /\ f[0] = <<>>
    BY <1>1 DEF Sifting
  <2>2. <<>> \in Seq(S) /\ ToSet(<<>>) = {} /\ IsInjective(<<>>)
    BY DEF ToSet, IsInjective
  <2>3. f[0] \in Seq(S) /\ ToSet(f[0]) = {} /\ IsInjective(f[0])
    BY <2>1, <2>2
  <2>4. 0 \in 0 .. n
    BY <1>2
  <2> HIDE DEF First
  <2> QED
    BY <2>1, <2>3, <2>4
<1>4. ASSUME NEW i \in 0 .. n - 1, i \in T PROVE i + 1 \in T
  <2>1. i + 1 \in 1 .. n /\ seq[i + 1] \in S
    BY <1>2
  <2>2. First(i + 1) = First(i) \cup {seq[i + 1]}
    BY <1>2
  <2>3. IsInjective(seq) => seq[i + 1] \notin First(i)
    BY <1>2, <2>1 DEF IsInjective
  <2> HIDE DEF First
  <2>4. f[i + 1] = IF seq[i + 1] \in keep THEN Append(f[i], seq[i + 1]) ELSE f[i]
    BY <1>1 DEF Sifting
  <2>5. CASE seq[i + 1] \in keep
    <3>1. /\ Append(f[i], seq[i + 1]) \in Seq(S)
          /\ ToSet(Append(f[i], seq[i + 1])) = ToSet(f[i]) \cup {seq[i + 1]}
          /\ IsInjective(f[i]) /\ seq[i + 1] \notin ToSet(f[i]) => IsInjective(Append(f[i], seq[i + 1]))
      BY <1>4, <2>1, AppendSet
    <3>2. f[i] \in Seq(S) /\ ToSet(f[i]) = First(i) \cap keep /\ (IsInjective(seq) => IsInjective(f[i]))
      BY <1>4
    <3>3. f[i + 1] = Append(f[i], seq[i + 1])
      BY <2>4, <2>5
    <3>4. f[i + 1] \in Seq(S) /\ ToSet(f[i + 1]) = First(i + 1) \cap keep
      BY <2>2, <2>5, <3>1, <3>2, <3>3
    <3>5. IsInjective(seq) => IsInjective(f[i + 1])
      BY <2>3, <3>1, <3>2, <3>3
    <3>6. i + 1 \in 0 .. n
      BY <2>1
    <3> QED
      BY <3>4, <3>5, <3>6
  <2>6. CASE seq[i + 1] \notin keep
    BY <1>4, <2>1, <2>2, <2>4, <2>6
  <2> QED
    BY <2>5, <2>6
<1>5. 0 .. n \subseteq T
  <2> HIDE DEF T, n
  <2> QED
    BY <1>2, <1>3, <1>4, UpTo
<1>6. First(n) = ToSet(seq)
  BY <1>2 DEF ToSet
<1> HIDE DEF First
<1> QED
  BY <1>1, <1>2, <1>5, <1>6

-----------------------------------------------------------------------------
(* Configs and what the reader makes of them                                *)

\* The capabilities the reader finds.
BlockCaps(reg, old) == IF reg # {} THEN The(reg).caps ELSE IF old # {} THEN The(old).caps ELSE <<>>

\* A config that is there is one document.
LEMMA ConfigIsOne ==
  ASSUME NEW c, IsConfig(c), c # {}
  PROVE  c = {The(c)} /\ The(c) \in Docs /\ The(c).enabled \in BOOLEAN /\ The(c).caps \in Seq(Caps)
<1>1. PICK d \in c : TRUE
  OBVIOUS
<1>2. c = {d} /\ d \in Docs
  BY <1>1 DEF IsConfig
<1>3. The(c) = d
  BY <1>2, TheOne
<1> QED
  BY <1>2, <1>3 DEF Docs

\* What is in an entry, and an entry with another path.
LEMMA CapFields ==
  ASSUME NEW e \in Caps, NEW s \in {None, Empty} \cup Paths(e.name)
  PROVE  /\ e.name \in Names /\ e.spec \in {None, Empty} \cup Paths(e.name)
         /\ [e EXCEPT !.spec = s] \in Caps
         /\ [e EXCEPT !.spec = s].name = e.name /\ [e EXCEPT !.spec = s].match = e.match
         /\ [e EXCEPT !.spec = s].spec = s
         /\ [e EXCEPT !.spec = s, !.retire = FALSE] \in Caps
         /\ [e EXCEPT !.spec = s, !.retire = FALSE].name = e.name
         /\ [e EXCEPT !.spec = s, !.retire = FALSE].match = e.match
         /\ [e EXCEPT !.spec = s, !.retire = FALSE].spec = s
<1> DEFINE all == [name : Names, match : {"globs"}, spec : Specs, retire : BOOLEAN]
           a == [e EXCEPT !.spec = s]
           b == [e EXCEPT !.spec = s, !.retire = FALSE]
<1>1. e \in all /\ e.spec \in {None, Empty} \cup Paths(e.name)
  BY DEF Caps
<1>2. s \in Specs
  BY <1>1 DEF Specs
<1>3. a \in all /\ a.name = e.name /\ a.match = e.match /\ a.spec = s
  BY <1>1, <1>2
<1>4. b \in all /\ b.name = e.name /\ b.match = e.match /\ b.spec = s
  BY <1>1, <1>2
<1>5. a \in Caps
  <2> HIDE DEF a, all
  <2>1. a.spec \in {None, Empty} \cup Paths(a.name)
    BY <1>3
  <2> QED
    BY <1>3, <2>1 DEF Caps, all
<1>6. b \in Caps
  <2> HIDE DEF b, all
  <2>1. b.spec \in {None, Empty} \cup Paths(b.name)
    BY <1>4
  <2> QED
    BY <1>4, <2>1 DEF Caps, all
<1> QED
  BY <1>1, <1>3, <1>4, <1>5, <1>6

\* The paths of a capability bear its name, and their files do.
LEMMA PathsNamed ==
  ASSUME NEW n, NEW path \in Paths(n), NEW t
  PROVE  path.name = n /\ File(path, t).name = n /\ path # Empty
<1>1. path.name = n
  BY DEF Paths, Central, OldCentral, InArea, Chosen
<1>2. path # Empty
  <2>1. DOMAIN path = {"place", "name"} /\ DOMAIN Empty = {"place"}
    BY DEF Paths, Central, OldCentral, InArea, Chosen, Empty
  <2>2. {"place", "name"} # {"place"}
    OBVIOUS
  <2> QED
    BY <2>1, <2>2
<1> QED
  BY <1>1, <1>2 DEF File

\* The settled path of an entry is one of its own or the explicit empty one.
LEMMA SettledIs ==
  ASSUME NEW e \in Caps
  PROVE  Settled(e) \in {Empty} \cup Paths(e.name)
BY DEF Settled, Caps, Paths

\* The capabilities of the block.
LEMMA BlockIs ==
  ASSUME IsConfig(registry), IsConfig(legacy)
  PROVE  Block.caps = BlockCaps(registry, legacy) /\ Block.caps \in Seq(Caps) /\ Block.enabled \in BOOLEAN
<1>1. CASE registry # {}
  BY <1>1, ConfigIsOne DEF Block, Origin, BlockCaps
<1>2. CASE registry = {} /\ legacy # {}
  BY <1>2, ConfigIsOne DEF Block, Origin, BlockCaps
<1>3. CASE registry = {} /\ legacy = {}
  <2>1. Block = [enabled |-> FALSE, caps |-> <<>>]
    BY <1>3 DEF Block, Origin
  <2>2. BlockCaps(registry, legacy) = <<>> /\ <<>> \in Seq(Caps)
    BY <1>3 DEF BlockCaps
  <2> QED
    BY <2>1, <2>2
<1> QED
  BY <1>1, <1>2, <1>3

\* The reader keeps the entries, in their order, and gives each a path.
LEMMA LivingDoes ==
  ASSUME IsConfig(registry), IsConfig(legacy)
  PROVE  /\ Living \in Seq(Caps) /\ Len(Living) = Len(Block.caps)
         /\ \A i \in 1 .. Len(Living) :
              /\ Block.caps[i] \in Caps
              /\ Living[i].name = Block.caps[i].name /\ Living[i].match = Block.caps[i].match
              /\ Living[i].spec = Settled(Block.caps[i])
<1> DEFINE caps == Block.caps
           n == Len(caps)
<1>1. caps \in Seq(Caps)
  BY BlockIs
<1>2. n \in Nat /\ DOMAIN caps = 1 .. n /\ \A i \in 1 .. n : caps[i] \in Caps
  BY <1>1, SeqFields
<1>3. Living = [i \in 1 .. n |-> [caps[i] EXCEPT !.spec = Settled(caps[i])]]
  BY <1>2 DEF Living
<1> HIDE DEF caps, n
<1>4. ASSUME NEW i \in 1 .. n
      PROVE  /\ [caps[i] EXCEPT !.spec = Settled(caps[i])] \in Caps
             /\ [caps[i] EXCEPT !.spec = Settled(caps[i])].name = caps[i].name
             /\ [caps[i] EXCEPT !.spec = Settled(caps[i])].match = caps[i].match
             /\ [caps[i] EXCEPT !.spec = Settled(caps[i])].spec = Settled(caps[i])
  <2>1. Settled(caps[i]) \in {None, Empty} \cup Paths(caps[i].name)
    BY <1>2, SettledIs
  <2>2. PICK e, s : e = caps[i] /\ s = Settled(caps[i])
    OBVIOUS
  <2>3. e \in Caps /\ s \in {None, Empty} \cup Paths(e.name)
    BY <1>2, <2>1, <2>2
  <2>4. /\ [e EXCEPT !.spec = s] \in Caps /\ [e EXCEPT !.spec = s].name = e.name
        /\ [e EXCEPT !.spec = s].match = e.match /\ [e EXCEPT !.spec = s].spec = s
    BY <2>3, CapFields
  <2> QED
    BY <2>2, <2>4
<1>5. Living \in [1 .. n -> Caps]
  BY <1>3, <1>4
<1>6. Living \in Seq(Caps) /\ Len(Living) = n
  BY <1>2, <1>5
<1>7. ASSUME NEW i \in 1 .. n
      PROVE  /\ Living[i].name = caps[i].name /\ Living[i].match = caps[i].match
             /\ Living[i].spec = Settled(caps[i])
  BY <1>3, <1>4
<1> QED
  BY <1>2, <1>6, <1>7 DEF caps, n

\* So it finds the names of the block.
LEMMA LivingNames ==
  ASSUME IsConfig(registry), IsConfig(legacy)
  PROVE  NamesOf(Living) = NamesOf(BlockCaps(registry, legacy)) /\ NamesOf(Living) \subseteq Names
<1> DEFINE caps == BlockCaps(registry, legacy)
           n == Len(caps)
<1>1. caps = Block.caps /\ caps \in Seq(Caps)
  BY BlockIs
<1>2. /\ Living \in Seq(Caps) /\ Len(Living) = n
      /\ \A i \in 1 .. n : caps[i] \in Caps /\ Living[i].name = caps[i].name
  BY <1>1, LivingDoes
<1> HIDE DEF caps
<1>3. ToSet(Living) = {Living[i] : i \in 1 .. n} /\ ToSet(caps) = {caps[i] : i \in 1 .. n}
  BY <1>1, <1>2, SeqFields
<1>4. \A i \in 1 .. n : caps[i].name \in Names
  BY <1>2 DEF Caps
<1> HIDE DEF n
<1> QED
  BY <1>2, <1>3, <1>4 DEF NamesOf, caps

\* A rewrite keeps the entries, in their order; it drops the paths that are the old default.
LEMMA NormalizedDoes ==
  ASSUME NEW caps \in Seq(Caps)
  PROVE  /\ Normalized(caps) \in Seq(Caps) /\ Len(Normalized(caps)) = Len(caps)
         /\ NamesOf(Normalized(caps)) = NamesOf(caps)
         /\ \A i \in 1 .. Len(caps) :
              /\ Normalized(caps)[i].name = caps[i].name /\ Normalized(caps)[i].match = caps[i].match
              /\ Normalized(caps)[i].spec = IF caps[i].spec \in {Empty, OldCentral(caps[i].name)} THEN None
                                            ELSE caps[i].spec
         /\ \A i, j \in 1 .. Len(caps) : caps[i] = caps[j] => Normalized(caps)[i] = Normalized(caps)[j]
<1> DEFINE n == Len(caps)
           kept(e) == IF e.spec \in {Empty, OldCentral(e.name)} THEN None ELSE e.spec
           new(e) == [e EXCEPT !.spec = kept(e), !.retire = FALSE]
<1>1. n \in Nat /\ DOMAIN caps = 1 .. n /\ \A i \in 1 .. n : caps[i] \in Caps
  BY SeqFields
<1>2. \A e \in Caps : [e EXCEPT !.spec = IF @ \in {Empty, OldCentral(e.name)} THEN None ELSE @,
                               !.retire = FALSE] = new(e)
  OBVIOUS
<1>3. Normalized(caps) = [i \in 1 .. n |-> new(caps[i])]
  BY <1>1, <1>2 DEF Normalized
<1>4. ASSUME NEW e \in Caps
      PROVE  new(e) \in Caps /\ new(e).name = e.name /\ new(e).match = e.match /\ new(e).spec = kept(e)
  <2>1. kept(e) \in {None, Empty} \cup Paths(e.name)
    BY DEF Caps
  <2> HIDE DEF kept
  <2> QED
    BY <2>1, CapFields
<1> HIDE DEF n, new
<1>5. Normalized(caps) \in [1 .. n -> Caps]
  BY <1>1, <1>3, <1>4
<1>6. Normalized(caps) \in Seq(Caps) /\ Len(Normalized(caps)) = n
  BY <1>1, <1>5
<1>7. \A i \in 1 .. n : /\ Normalized(caps)[i].name = caps[i].name
                        /\ Normalized(caps)[i].match = caps[i].match
                        /\ Normalized(caps)[i].spec = kept(caps[i])
  BY <1>1, <1>3, <1>4
<1>8. ToSet(Normalized(caps)) = {Normalized(caps)[i] : i \in 1 .. n} /\ ToSet(caps) = {caps[i] : i \in 1 .. n}
  BY <1>6, SeqFields DEF n
<1> HIDE DEF kept
<1>9. NamesOf(Normalized(caps)) = NamesOf(caps)
  BY <1>7, <1>8 DEF NamesOf
<1>10. \A i, j \in 1 .. n : caps[i] = caps[j] => Normalized(caps)[i] = Normalized(caps)[j]
  BY <1>3
<1> QED
  BY <1>6, <1>7, <1>9, <1>10 DEF n, kept

\* What --replaces takes out, and nothing else.
LEMMA WithoutDoes ==
  ASSUME NEW caps \in Seq(Caps), NEW names
  PROVE  /\ Without(caps, names) \in Seq(Caps) /\ NamesOf(Without(caps, names)) = NamesOf(caps) \ names
         /\ ToSet(Without(caps, names)) = {e \in ToSet(caps) : e.name \notin names}
         /\ IsInjective(caps) => IsInjective(Without(caps, names))
<1> DEFINE keep == {e \in ToSet(caps) : e.name \notin names}
<1>1. Without(caps, names) = Only(caps, keep)
  BY DEF Without
<1>2. keep \subseteq ToSet(caps) /\ \A e \in ToSet(caps) : e \in keep <=> e.name \notin names
  OBVIOUS
<1> HIDE DEF keep
<1>3. /\ Only(caps, keep) \in Seq(Caps) /\ ToSet(Only(caps, keep)) = ToSet(caps) \cap keep
      /\ IsInjective(caps) => IsInjective(Only(caps, keep))
  BY OnlyDoes
<1>4. ToSet(Without(caps, names)) = keep
  BY <1>1, <1>2, <1>3
<1>5. NamesOf(Without(caps, names)) = NamesOf(caps) \ names
  BY <1>2, <1>4 DEF NamesOf
<1> QED
  BY <1>1, <1>3, <1>4, <1>5 DEF keep

-----------------------------------------------------------------------------
(* Types                                                                    *)

\* The names of every entry a relocation may take, with the path its caller chose.
Command(n, to, override) == <<n, to, override>>
CommandFits(n, to, override) == to \in {"central", "colocated"} /\ override \in {None, Chosen(n)}

\* What a program at work carries.
IsJob(J) ==
  /\ J = [at |-> J.at, kind |-> J.kind, names |-> J.names, replaces |-> J.replaces, caps |-> J.caps,
          origin |-> J.origin, enabled |-> J.enabled, todo |-> J.todo, done |-> J.done,
          original |-> J.original, before |-> J.before, command |-> J.command]
  /\ J.at \in {"move", "write", "drop", "dropped", "end", "undo"} /\ J.kind \in {"register", "relocate"}
  /\ J.names \subseteq Names /\ J.replaces \subseteq Names /\ J.caps \in Seq(Caps)
  /\ J.enabled \in BOOLEAN /\ IsConfig(J.original)
  /\ J.kind = "relocate" => \A n \in J.names : CommandFits(n, J.command[1], J.command[2])

\* The other state: configs are configs, files are where capabilities have theirs.
TypesInv ==
  /\ IsConfig(registry) /\ IsConfig(legacy)
  /\ job = [w \in Writers |-> job[w]]
  /\ \A w \in Writers : Idle(w) \/ (job[w] = {Job(w)} /\ IsJob(Job(w)))
  /\ \A k \in killed : \E n \in Names : \E to, o : k = Command(n, to, o) /\ CommandFits(n, to, o)

\* A job that goes on, with other moves to do and done.
JobWith(J, at, todo, done) ==
  [at |-> at, kind |-> J.kind, names |-> J.names, replaces |-> J.replaces, caps |-> J.caps,
   origin |-> J.origin, enabled |-> J.enabled, todo |-> todo, done |-> done,
   original |-> J.original, before |-> J.before, command |-> J.command]

\* The steps change nothing else of a job.
LEMMA JobAt ==
  ASSUME NEW J, IsJob(J), NEW a
  PROVE  [J EXCEPT !.at = a] = JobWith(J, a, J.todo, J.done)
<1> DEFINE R == [at |-> J.at, kind |-> J.kind, names |-> J.names, replaces |-> J.replaces,
                 caps |-> J.caps, origin |-> J.origin, enabled |-> J.enabled, todo |-> J.todo,
                 done |-> J.done, original |-> J.original, before |-> J.before, command |-> J.command]
<1>1. J = R
  BY DEF IsJob
<1>2. [R EXCEPT !.at = a] = JobWith(J, a, J.todo, J.done)
  BY DEF JobWith
<1> HIDE DEF R
<1> QED
  BY <1>1, <1>2

\* Only what is done.
LEMMA JobDone ==
  ASSUME NEW J, IsJob(J), NEW d
  PROVE  [J EXCEPT !.done = d] = JobWith(J, J.at, J.todo, d)
<1> DEFINE R == [at |-> J.at, kind |-> J.kind, names |-> J.names, replaces |-> J.replaces,
                 caps |-> J.caps, origin |-> J.origin, enabled |-> J.enabled, todo |-> J.todo,
                 done |-> J.done, original |-> J.original, before |-> J.before, command |-> J.command]
<1>1. J = R
  BY DEF IsJob
<1>2. [R EXCEPT !.done = d] = JobWith(J, J.at, J.todo, d)
  BY DEF JobWith
<1> HIDE DEF R
<1> QED
  BY <1>1, <1>2

\* Only what is to do.
LEMMA JobTodo ==
  ASSUME NEW J, IsJob(J), NEW t
  PROVE  [J EXCEPT !.todo = t] = JobWith(J, J.at, t, J.done)
<1> DEFINE R == [at |-> J.at, kind |-> J.kind, names |-> J.names, replaces |-> J.replaces,
                 caps |-> J.caps, origin |-> J.origin, enabled |-> J.enabled, todo |-> J.todo,
                 done |-> J.done, original |-> J.original, before |-> J.before, command |-> J.command]
<1>1. J = R
  BY DEF IsJob
<1>2. [R EXCEPT !.todo = t] = JobWith(J, J.at, t, J.done)
  BY DEF JobWith
<1> HIDE DEF R
<1> QED
  BY <1>1, <1>2

\* A job that goes on is a job.
LEMMA JobGoesOn ==
  ASSUME NEW J, IsJob(J), NEW a \in {"move", "write", "drop", "dropped", "end", "undo"}, NEW t, NEW d
  PROVE  IsJob(JobWith(J, a, t, d))
BY DEF IsJob, JobWith

\* A move that is tried.
Tried(J, todo, done) == [J EXCEPT !.todo = todo, !.done = done]

\* It changes nothing else.
LEMMA JobMoves ==
  ASSUME NEW J, IsJob(J), NEW t, NEW d
  PROVE  Tried(J, t, d) = JobWith(J, J.at, t, d)
<1>1. [JobWith(J, J.at, t, J.done) EXCEPT !.done = d] = JobWith(J, J.at, t, d)
  BY DEF JobWith
<1>2. Tried(J, t, d) = [[J EXCEPT !.todo = t] EXCEPT !.done = d]
  BY Zenon DEF Tried
<1>3. [J EXCEPT !.todo = t] = JobWith(J, J.at, t, J.done)
  BY JobTodo
<1> QED
  BY <1>1, <1>2, <1>3

\* One that fails.
LEMMA JobFails ==
  ASSUME NEW J, IsJob(J), NEW a, NEW d
  PROVE  [J EXCEPT !.at = a, !.done = d] = JobWith(J, a, J.todo, d)
<1>1. [JobWith(J, a, J.todo, J.done) EXCEPT !.done = d] = JobWith(J, a, J.todo, d)
  BY DEF JobWith
<1>2. [J EXCEPT !.at = a, !.done = d] = [[J EXCEPT !.at = a] EXCEPT !.done = d]
  BY Zenon
<1>3. [J EXCEPT !.at = a] = JobWith(J, a, J.todo, J.done)
  BY JobAt
<1> QED
  BY <1>1, <1>2, <1>3

\* The job of a program at work, and the others' when one goes on.
LEMMA GoDoes ==
  ASSUME TypesInv, NEW w \in Writers, NEW next, Go(w, next)
  PROVE  /\ job' = [v \in Writers |-> IF v = w THEN next ELSE job[v]]
         /\ job'[w] = next /\ \A v \in Writers \ {w} : job'[v] = job[v]
<1>1. job = [v \in Writers |-> job[v]]
  BY DEF TypesInv
<1>2. job' = [job EXCEPT ![w] = next]
  BY DEF Go
<1>3. job' = [v \in Writers |-> IF v = w THEN next ELSE job[v]]
  BY <1>1, <1>2
<1> QED
  BY <1>3

\* The types of the jobs after one went on.
LEMMA JobsAfter ==
  ASSUME TypesInv, NEW w \in Writers, NEW next, Go(w, next), NEW J, next \in {{}, {J}}, next = {J} => IsJob(J)
  PROVE  /\ job' = [v \in Writers |-> job'[v]]
         /\ \A v \in Writers : Idle(v)' \/ (job'[v] = {Job(v)'} /\ IsJob(Job(v)'))
         /\ Idle(w)' <=> next = {}
         /\ next = {J} => Job(w)' = J
         /\ \A v \in Writers \ {w} : Idle(v)' = Idle(v) /\ Job(v)' = Job(v)
<1>1. /\ job' = [v \in Writers |-> IF v = w THEN next ELSE job[v]]
      /\ job'[w] = next /\ \A v \in Writers \ {w} : job'[v] = job[v]
  BY GoDoes
<1>2. \A v \in Writers \ {w} : Idle(v)' = Idle(v) /\ Job(v)' = Job(v)
  BY <1>1 DEF Idle, Job
<1>3. (Idle(w)' <=> next = {}) /\ Job(w)' = The(next)
  BY <1>1 DEF Idle, Job
<1>4. next = {J} => Job(w)' = J
  BY <1>3, TheOne
<1>5. ASSUME NEW v \in Writers PROVE Idle(v)' \/ (job'[v] = {Job(v)'} /\ IsJob(Job(v)'))
  <2>1. CASE v # w
    BY <1>1, <1>2, <2>1 DEF TypesInv
  <2>2. CASE v = w /\ next = {J}
    BY <1>1, <1>4, <2>2
  <2>3. CASE v = w /\ next = {}
    BY <1>3, <2>3
  <2> QED
    BY <2>1, <2>2, <2>3
<1> QED
  BY <1>1, <1>2, <1>3, <1>4, <1>5

\* The job of a registration that starts.
RegisterJob(J, n, replaces) ==
  /\ J.at = "write" /\ J.kind = "register" /\ J.names = {n} /\ J.replaces = replaces
  /\ J.original = registry /\ J.before = Project /\ J.todo = <<>> /\ J.done = <<>>
  /\ n \notin NamesOf(Without(Normalized(Living), replaces))
  /\ \E new \in Caps : /\ new.name = n /\ new.spec \notin {Empty, OldCentral(n)}
                       /\ J.caps = Append(Without(Normalized(Living), replaces), new)
  /\ NamesOf(J.caps) = (NamesOf(Living) \ replaces) \cup {n}

\* register reads the whole set, takes out what is replaced and adds its own.
LEMMA StartRegisterDoes ==
  ASSUME TypesInv, NEW w \in Writers, NEW n \in Names, NEW spec \in {None} \cup Paths(n),
         NEW replaces \in SUBSET Names, StartRegister(w, n, "globs", spec, replaces)
  PROVE  \E J : Go(w, {J}) /\ IsJob(J) /\ RegisterJob(J, n, replaces)
<1> DEFINE kept == Without(Normalized(Living), replaces)
           new == [name |-> n, match |-> "globs", retire |-> FALSE,
                   spec |-> IF spec = OldCentral(n) THEN None ELSE spec]
           J == [at |-> "write", kind |-> "register", names |-> {n}, replaces |-> replaces,
                 caps |-> Append(kept, new), origin |-> Origin,
                 enabled |-> IF Origin = "none" THEN TRUE ELSE Block.enabled,
                 todo |-> <<>>, done |-> <<>>, original |-> registry, before |-> Project,
                 command |-> <<"register", None>>]
<1>1. n \notin NamesOf(kept) /\ Go(w, {J})
  BY DEF StartRegister
<1>2. IsConfig(registry) /\ IsConfig(legacy) /\ Block.enabled \in BOOLEAN
  BY BlockIs DEF TypesInv
<1>3. Living \in Seq(Caps)
  BY <1>2, LivingDoes
<1>4. Normalized(Living) \in Seq(Caps) /\ NamesOf(Normalized(Living)) = NamesOf(Living)
  BY <1>3, NormalizedDoes
<1>5. kept \in Seq(Caps) /\ NamesOf(kept) = NamesOf(Living) \ replaces
  BY <1>4, WithoutDoes
<1>6. new \in Caps /\ new.name = n /\ new.spec \notin {Empty, OldCentral(n)}
  <2>1. (IF spec = OldCentral(n) THEN None ELSE spec) \in {None, Empty} \cup Paths(n)
    OBVIOUS
  <2>2. (IF spec = OldCentral(n) THEN None ELSE spec) \in Specs
    BY <2>1 DEF Specs
  <2>3. new \in Caps /\ new.name = n
    BY <2>1, <2>2 DEF Caps
  <2>4. None # Empty /\ None # OldCentral(n) /\ \A path \in Paths(n) : path # Empty
    BY NoneAssumption, PathsNamed DEF Paths
  <2>5. new.spec \notin {Empty, OldCentral(n)}
    BY <2>4
  <2> QED
    BY <2>3, <2>5
<1> HIDE DEF kept, new
<1>7. Append(kept, new) \in Seq(Caps) /\ ToSet(Append(kept, new)) = ToSet(kept) \cup {new}
  BY <1>5, <1>6, AppendSet
<1>8. NamesOf(Append(kept, new)) = (NamesOf(Living) \ replaces) \cup {n}
  BY <1>5, <1>6, <1>7 DEF NamesOf
<1>9. /\ J.at = "write" /\ J.kind = "register" /\ J.names = {n} /\ J.replaces = replaces
      /\ J.original = registry /\ J.before = Project /\ J.caps = Append(kept, new)
      /\ J.enabled \in BOOLEAN /\ J.todo = <<>> /\ J.done = <<>>
  BY <1>2
<1>10. IsJob(J)
  <2>1. J = [at |-> J.at, kind |-> J.kind, names |-> J.names, replaces |-> J.replaces,
             caps |-> J.caps, origin |-> J.origin, enabled |-> J.enabled, todo |-> J.todo,
             done |-> J.done, original |-> J.original, before |-> J.before, command |-> J.command]
    OBVIOUS
  <2> HIDE DEF J
  <2> QED
    BY <1>2, <1>7, <1>9, <2>1 DEF IsJob
<1> HIDE DEF J
<1>11. RegisterJob(J, n, replaces)
  BY <1>1, <1>6, <1>8, <1>9 DEF RegisterJob, kept
<1> QED
  BY <1>1, <1>10, <1>11

\* The entries a relocation moves.
MovingOf(targets, to, override) ==
  Only(Living, {e \in ToSet(Living) : /\ e.name \in targets
                                      /\ ~Refused(e, to, override)
                                      /\ ~AlreadyThere(e, to, override)})

\* A target is a path of the capability.
LEMMA TargetIs ==
  ASSUME NEW e, NEW to, NEW override \in {None, Chosen(e.name)}
  PROVE  Target(e, to, override) \in Paths(e.name) /\ Target(e, to, override) # OldCentral(e.name)
<1>1. OldCentral(e.name) # Chosen(e.name) /\ OldCentral(e.name) # Central(e.name)
      /\ OldCentral(e.name) # InArea(e.name)
  BY DEF OldCentral, Chosen, Central, InArea
<1> QED
  BY <1>1 DEF Target, Paths

\* The job of a relocation that starts.
RelocateJob(J, targets, to, override) ==
  /\ J.at = "move" /\ J.kind = "relocate" /\ J.replaces = {} /\ J.names \subseteq targets
  /\ J.original = registry /\ J.before = Project /\ J.command = <<to, override>>
  /\ J.names = NamesOf(MovingOf(targets, to, override)) /\ J.done = <<>>
  /\ J.todo = FlattenSeq([i \in DOMAIN MovingOf(targets, to, override) |->
                MovesOf(MovingOf(targets, to, override)[i],
                        Target(MovingOf(targets, to, override)[i], to, override))])
  /\ Len(J.caps) = Len(Living) /\ NamesOf(J.caps) = NamesOf(Living)
  /\ \A i \in 1 .. Len(Living) :
       /\ J.caps[i].name = Living[i].name /\ J.caps[i].match = Living[i].match
       /\ Living[i].name \notin J.names => J.caps[i].spec = Normalized(Living)[i].spec
       /\ Living[i].name \in J.names => J.caps[i].spec = Target(Living[i], to, override)
  /\ \A i, j \in 1 .. Len(Living) : Living[i] = Living[j] => J.caps[i] = J.caps[j]

\* relocate reads the whole set and gives the entries it moves their new path.
LEMMA StartRelocateDoes ==
  ASSUME TypesInv, NEW w \in Writers, NEW targets \in SUBSET Names, NEW to \in {"central", "colocated"},
         NEW override,
         \A n \in targets : override \in {None, Chosen(n)}, StartRelocate(w, targets, to, override)
  PROVE  \E J : Go(w, {J}) /\ IsJob(J) /\ RelocateJob(J, targets, to, override)
<1> DEFINE moving == MovingOf(targets, to, override)
           old == Normalized(Living)
           n == Len(Living)
           new(e) == IF Target(e, to, override) = OldCentral(e.name) THEN None ELSE Target(e, to, override)
           rewrite(e) == IF e.name \in NamesOf(moving) THEN [e EXCEPT !.spec = new(e)] ELSE e
           caps == [i \in DOMAIN Living |-> rewrite(old[i])]
           moves == FlattenSeq([i \in DOMAIN moving |-> MovesOf(moving[i], Target(moving[i], to, override))])
           J == [at |-> "move", kind |-> "relocate", names |-> NamesOf(moving), replaces |-> {},
                 caps |-> caps, origin |-> Origin, enabled |-> Block.enabled, todo |-> moves, done |-> <<>>,
                 original |-> registry, before |-> Project, command |-> <<to, override>>]
<1>1. Go(w, {J})
  BY DEF StartRelocate, MovingOf
<1>2. IsConfig(registry) /\ IsConfig(legacy) /\ Block.enabled \in BOOLEAN
  BY BlockIs DEF TypesInv
<1>3. Living \in Seq(Caps) /\ n \in Nat /\ DOMAIN Living = 1 .. n
  BY <1>2, LivingDoes
<1>4. /\ Len(old) = n
      /\ \A i \in 1 .. n : old[i] \in Caps /\ old[i].name = Living[i].name /\ old[i].match = Living[i].match
  <2>1. old \in Seq(Caps) /\ Len(old) = n
    BY <1>3, NormalizedDoes
  <2> QED
    BY <1>3, <2>1, NormalizedDoes, SeqFields
<1>5. NamesOf(moving) \subseteq targets /\ NamesOf(moving) \subseteq Names
  <2> DEFINE keep == {e \in ToSet(Living) : /\ e.name \in targets
                                            /\ ~Refused(e, to, override)
                                            /\ ~AlreadyThere(e, to, override)}
  <2>1. ToSet(moving) = ToSet(Living) \cap keep
    BY <1>3, OnlyDoes DEF MovingOf
  <2>2. \A e \in keep : e.name \in targets
    OBVIOUS
  <2> HIDE DEF keep, moving
  <2> QED
    BY <2>1, <2>2 DEF NamesOf
<1> HIDE DEF moving, old, n
<1>6. ASSUME NEW i \in 1 .. n
      PROVE  /\ rewrite(old[i]) \in Caps
             /\ rewrite(old[i]).name = Living[i].name /\ rewrite(old[i]).match = Living[i].match
             /\ Living[i].name \notin NamesOf(moving) => rewrite(old[i]).spec = old[i].spec
             /\ Living[i].name \in NamesOf(moving) => rewrite(old[i]).spec = Target(Living[i], to, override)
  <2>1. old[i] \in Caps /\ old[i].name = Living[i].name /\ old[i].match = Living[i].match
    BY <1>4
  <2>2. CASE Living[i].name \notin NamesOf(moving)
    BY <2>1, <2>2
  <2>3. CASE Living[i].name \in NamesOf(moving)
    <3>1. override \in {None, Chosen(old[i].name)}
      BY <1>5, <2>1, <2>3
    <3>2. Target(old[i], to, override) \in Paths(old[i].name) /\ new(old[i]) = Target(old[i], to, override)
      BY <3>1, TargetIs
    <3>3. Target(old[i], to, override) = Target(Living[i], to, override)
      BY <2>1 DEF Target
    <3> HIDE DEF new
    <3>4. PICK e, s : e = old[i] /\ s = new(old[i])
      OBVIOUS
    <3>5. e \in Caps /\ s \in {None, Empty} \cup Paths(e.name)
      BY <2>1, <3>2, <3>4
    <3>6. PICK r : r = [e EXCEPT !.spec = s]
      OBVIOUS
    <3>7. r \in Caps /\ r.name = e.name /\ r.match = e.match /\ r.spec = s
      BY <3>5, <3>6, CapFields
    <3>8. rewrite(old[i]) = r
      BY <2>1, <2>3, <3>4, <3>6
    <3> HIDE DEF rewrite
    <3> QED
      BY <2>1, <2>3, <3>2, <3>3, <3>4, <3>7, <3>8
  <2> QED
    BY <2>2, <2>3
<1>7. caps \in Seq(Caps) /\ Len(caps) = n /\ \A i \in 1 .. n : caps[i] = rewrite(old[i])
  <2> HIDE DEF rewrite
  <2>1. caps \in [1 .. n -> Caps]
    BY <1>3, <1>6
  <2>2. \A i \in 1 .. n : caps[i] = rewrite(old[i])
    BY <1>3
  <2> HIDE DEF caps
  <2>3. caps \in Seq(Caps) /\ Len(caps) = n
    BY <1>3, <2>1
  <2> QED
    BY <2>2, <2>3
<1> HIDE DEF rewrite, caps, moves
<1>8. NamesOf(caps) = NamesOf(Living)
  <2>1. ToSet(caps) = {caps[i] : i \in 1 .. n} /\ ToSet(Living) = {Living[i] : i \in 1 .. n}
    BY <1>3, <1>7, SeqFields DEF n
  <2>2. \A i \in 1 .. n : caps[i].name = Living[i].name
    BY <1>6, <1>7
  <2> QED
    BY <2>1, <2>2 DEF NamesOf
<1>9. /\ J.at = "move" /\ J.kind = "relocate" /\ J.names = NamesOf(moving) /\ J.replaces = {}
      /\ J.caps = caps /\ J.enabled = Block.enabled /\ J.todo = moves /\ J.done = <<>>
      /\ J.original = registry /\ J.before = Project /\ J.command = <<to, override>>
  OBVIOUS
<1>10. IsJob(J)
  <2>1. J = [at |-> J.at, kind |-> J.kind, names |-> J.names, replaces |-> J.replaces,
             caps |-> J.caps, origin |-> J.origin, enabled |-> J.enabled, todo |-> J.todo,
             done |-> J.done, original |-> J.original, before |-> J.before, command |-> J.command]
    OBVIOUS
  <2> HIDE DEF J
  <2>2. J.command[1] = to /\ J.command[2] = override
    BY <1>9
  <2>3. \A m \in J.names : CommandFits(m, J.command[1], J.command[2])
    BY <1>5, <1>9, <2>2 DEF CommandFits
  <2> QED
    BY <1>2, <1>5, <1>7, <1>9, <2>1, <2>3 DEF IsJob
<1>11. \A i \in 1 .. n :
         /\ caps[i].name = Living[i].name /\ caps[i].match = Living[i].match
         /\ Living[i].name \notin NamesOf(moving) => caps[i].spec = old[i].spec
         /\ Living[i].name \in NamesOf(moving) => caps[i].spec = Target(Living[i], to, override)
  BY <1>6, <1>7
<1> HIDE DEF J
<1>12. J.todo = FlattenSeq([i \in DOMAIN MovingOf(targets, to, override) |->
                  MovesOf(MovingOf(targets, to, override)[i],
                          Target(MovingOf(targets, to, override)[i], to, override))])
  BY <1>9 DEF moves, moving
<1>13. J.names \subseteq targets /\ J.names = NamesOf(MovingOf(targets, to, override))
  BY <1>5, <1>9 DEF moving
<1>14. Len(J.caps) = Len(Living) /\ NamesOf(J.caps) = NamesOf(Living)
  BY <1>7, <1>8, <1>9 DEF n
<1>15. \A i \in 1 .. Len(Living) :
         /\ J.caps[i].name = Living[i].name /\ J.caps[i].match = Living[i].match
         /\ Living[i].name \notin J.names => J.caps[i].spec = Normalized(Living)[i].spec
         /\ Living[i].name \in J.names => J.caps[i].spec = Target(Living[i], to, override)
  BY <1>9, <1>11 DEF n, old
<1>16. \A i, j \in 1 .. Len(Living) : Living[i] = Living[j] => J.caps[i] = J.caps[j]
  <2>1. \A i, j \in 1 .. n : Living[i] = Living[j] => old[i] = old[j]
    BY <1>3, NormalizedDoes DEF old, n
  <2>2. \A i, j \in 1 .. n : Living[i] = Living[j] => caps[i] = caps[j]
    BY <1>7, <2>1
  <2> QED
    BY <1>9, <2>2 DEF n
<1>17. RelocateJob(J, targets, to, override)
  BY <1>9, <1>12, <1>13, <1>14, <1>15, <1>16 DEF RelocateJob
<1> QED
  BY <1>1, <1>10, <1>17

\* What a relocation hands over when it ends or is killed.
LEMMA CommandsFit ==
  ASSUME TypesInv, NEW w \in Writers, ~Idle(w), NEW k \in Commands(w)
  PROVE  \E n \in Names : \E to, o : k = Command(n, to, o) /\ CommandFits(n, to, o)
<1>1. IsJob(Job(w))
  BY DEF TypesInv
<1>2. Job(w).kind = "relocate" /\ \E n \in Job(w).names : k = <<n, Job(w).command[1], Job(w).command[2]>>
  BY DEF Commands
<1>3. PICK n \in Job(w).names : k = <<n, Job(w).command[1], Job(w).command[2]>>
  BY <1>2
<1>4. n \in Names /\ CommandFits(n, Job(w).command[1], Job(w).command[2])
  BY <1>1, <1>2, <1>3 DEF IsJob
<1>5. k = Command(n, Job(w).command[1], Job(w).command[2])
  BY <1>3 DEF Command
<1> QED
  BY <1>4, <1>5

\* A program's next job keeps the types.
LEMMA TypesAfter ==
  ASSUME TypesInv, NEW w \in Writers, NEW next, Go(w, next), NEW J, next \in {{}, {J}},
         next = {J} => IsJob(J),
         IsConfig(registry'), IsConfig(legacy'), killed' \subseteq killed \cup Commands(w),
         Idle(w) => killed' \subseteq killed
  PROVE  TypesInv'
<1>1. /\ job' = [v \in Writers |-> job'[v]]
      /\ \A v \in Writers : Idle(v)' \/ (job'[v] = {Job(v)'} /\ IsJob(Job(v)'))
  BY JobsAfter
<1>2. \A k \in killed' : \E n \in Names : \E to, o : k = Command(n, to, o) /\ CommandFits(n, to, o)
  <2> TAKE k \in killed'
  <2>1. CASE k \in killed
    BY <2>1 DEF TypesInv
  <2>2. CASE k \notin killed
    <3>1. ~Idle(w) /\ k \in Commands(w)
      BY <2>2
    <3> QED
      BY <3>1, CommandsFit
  <2> QED
    BY <2>1, <2>2
<1> QED
  BY <1>1, <1>2 DEF TypesInv, IsJob, CommandFits, Command

\* At the start nobody is at work on the configs there are.
LEMMA TypesInit ==
  Init => TypesInv
<1> SUFFICES ASSUME Init PROVE TypesInv
  OBVIOUS
<1>1. IsConfig(registry) /\ IsConfig(legacy)
  BY OriginsAssumption DEF Init
<1>2. job = [w \in Writers |-> {}] /\ killed = {}
  BY DEF Init
<1> QED
  BY <1>1, <1>2 DEF TypesInv, Idle

\* The relocations a step may start.
LEMMA RelocationsFit ==
  ASSUME TypesInv, NEW w \in Writers,
         \/ Relocate(w)
         \/ \E k \in killed : StartRelocate(w, {k[1]}, k[2], k[3])
  PROVE  \E targets, to, override :
           /\ targets \in SUBSET Names /\ to \in {"central", "colocated"}
           /\ (\A n \in targets : override \in {None, Chosen(n)}) /\ StartRelocate(w, targets, to, override)
<1>1. CASE Relocate(w)
  <2>1. PICK to \in {"central", "colocated"} :
          \/ StartRelocate(w, Names, to, None)
          \/ \E n \in Names : \E override \in {None, Chosen(n)} : StartRelocate(w, {n}, to, override)
    BY <1>1 DEF Relocate
  <2>2. CASE StartRelocate(w, Names, to, None)
    <3>1. Names \in SUBSET Names /\ \A n \in Names : None \in {None, Chosen(n)}
      OBVIOUS
    <3> QED
      BY <2>2, <3>1
  <2>3. ASSUME NEW n \in Names, NEW override \in {None, Chosen(n)}, StartRelocate(w, {n}, to, override)
        PROVE  \E targets, t, o :
                 /\ targets \in SUBSET Names /\ t \in {"central", "colocated"}
                 /\ (\A m \in targets : o \in {None, Chosen(m)}) /\ StartRelocate(w, targets, t, o)
    <3>1. {n} \in SUBSET Names /\ \A m \in {n} : override \in {None, Chosen(m)}
      OBVIOUS
    <3> QED
      BY <2>3, <3>1
  <2> QED
    BY <2>1, <2>2, <2>3
<1>2. ASSUME NEW k \in killed, StartRelocate(w, {k[1]}, k[2], k[3])
      PROVE  \E targets, to, override :
               /\ targets \in SUBSET Names /\ to \in {"central", "colocated"}
               /\ (\A n \in targets : override \in {None, Chosen(n)})
               /\ StartRelocate(w, targets, to, override)
  <2>1. PICK n \in Names : \E to, o : k = Command(n, to, o) /\ CommandFits(n, to, o)
    BY DEF TypesInv
  <2>2. PICK to, o : k = Command(n, to, o) /\ CommandFits(n, to, o)
    BY <2>1
  <2>3. k[1] = n /\ k[2] = to /\ k[3] = o
    BY <2>2 DEF Command
  <2>4. {n} \in SUBSET Names /\ to \in {"central", "colocated"} /\ \A m \in {n} : o \in {None, Chosen(m)}
    BY <2>2 DEF CommandFits
  <2>5. StartRelocate(w, {n}, to, o)
    BY <1>2, <2>3
  <2> QED
    BY <2>4, <2>5
<1> QED
  BY <1>1, <1>2

\* The registrations a step may start.
LEMMA RegistrationsFit ==
  ASSUME NEW w \in Writers, Register(w)
  PROVE  \E n, spec, replaces :
           /\ n \in Names /\ replaces \in SUBSET Names
           /\ spec \in {None} \cup Paths(n) /\ StartRegister(w, n, "globs", spec, replaces)
<1>1. PICK n \in Names, replaces \in {{}} \cup {{m} : m \in Names} :
        \/ \E path \in Paths(n) : OnDisk(path) /\ StartRegister(w, n, "globs", path, replaces)
        \/ (\A f \in files : f.name # n) /\ StartRegister(w, n, "globs", None, replaces)
  BY DEF Register
<1>2. replaces \in SUBSET Names
  OBVIOUS
<1>3. PICK spec \in {None} \cup Paths(n) : StartRegister(w, n, "globs", spec, replaces)
  BY <1>1
<1>4. spec \in {None} \cup Paths(n) /\ StartRegister(w, n, "globs", spec, replaces)
  BY <1>3
<1>5. n \in Names /\ replaces \in SUBSET Names
  BY <1>2
<1> QED
  BY <1>4, <1>5, Zenon

\* A rollback that ends without having put everything back.
LeftUndone(w) == FailRestore(w) \/ CutShort(w)

\* A program that goes on, fails or undoes has a job.
LEMMA HasJob ==
  ASSUME TypesInv, NEW w \in Writers,
         \/ Move(w) \/ FailMove(w) \/ WriteRegistry(w) \/ DropLegacy(w) \/ Fail(w)
         \/ Undo(w) \/ FailUndo(w) \/ Restore(w) \/ LeftUndone(w)
  PROVE  ~Idle(w) /\ IsJob(Job(w))
<1>1. ~Idle(w)
  BY DEF Move, FailMove, WriteRegistry, DropLegacy, Fail, Undo, FailUndo, Restore, LeftUndone,
         FailRestore, CutShort, Working
<1> QED
  BY <1>1 DEF TypesInv

\* A running program's step, as a step from one job to the next.
LEMMA RunDoes ==
  ASSUME TypesInv, NEW w \in Writers
  PROVE  /\ Move(w) =>
              /\ Job(w).at = "move" /\ UNCHANGED <<registry, legacy, owed, killed, astray>>
              /\ \/ /\ Job(w).todo = <<>> /\ UNCHANGED files
                    /\ Go(w, {JobWith(Job(w), "write", Job(w).todo, Job(w).done)})
                 \/ /\ Job(w).todo # <<>>
                    /\ files' = Moved(files, Head(Job(w).todo).from, Head(Job(w).todo).to)
                    /\ Go(w, {JobWith(Job(w), "move", Tail(Job(w).todo),
                                      Append(Job(w).done, Head(Job(w).todo)))})
         /\ FailMove(w) =>
              /\ Job(w).at = "move" /\ Job(w).todo # <<>>
              /\ Go(w, {JobWith(Job(w), "undo", Job(w).todo, Append(Job(w).done, Head(Job(w).todo)))})
         /\ WriteRegistry(w) =>
              \/ Go(w, {})
              \/ Job(w).kind = "relocate" /\ Go(w, {JobWith(Job(w), "end", Job(w).todo, Job(w).done)})
              \/ Job(w).origin = "legacy" /\ Go(w, {JobWith(Job(w), "drop", Job(w).todo, Job(w).done)})
         /\ DropLegacy(w) =>
              \/ Go(w, {})
              \/ Job(w).kind = "relocate" /\ Go(w, {JobWith(Job(w), "dropped", Job(w).todo, Job(w).done)})
         /\ Fail(w) =>
              \/ Go(w, {})
              \/ Job(w).kind = "relocate" /\ Go(w, {JobWith(Job(w), "undo", Job(w).todo, Job(w).done)})
         /\ Undo(w) \/ FailUndo(w) =>
              /\ Job(w).at = "undo" /\ Job(w).done # <<>>
              /\ Go(w, {JobWith(Job(w), "undo", Job(w).todo, Front(Job(w).done))})
         /\ Restore(w) \/ LeftUndone(w) => Job(w).at = "undo" /\ Go(w, {})
<1> DEFINE J == Job(w)
           todo == J.todo
           done == J.done
<1>3. ASSUME IsJob(J), NEW a PROVE [J EXCEPT !.at = a] = JobWith(J, a, todo, done)
  <2> HIDE DEF J
  <2> QED
    BY <1>3, JobAt
<1>4. ASSUME Move(w)
      PROVE  /\ J.at = "move" /\ UNCHANGED <<registry, legacy, owed, killed, astray>>
             /\ \/ todo = <<>> /\ UNCHANGED files /\ Go(w, {JobWith(J, "write", todo, done)})
                \/ /\ todo # <<>> /\ files' = Moved(files, Head(todo).from, Head(todo).to)
                   /\ Go(w, {JobWith(J, "move", Tail(todo), Append(done, Head(todo)))})
  <2>0. IsJob(J)
    BY <1>4, HasJob
  <2>1. J.at = "move" /\ UNCHANGED <<registry, legacy, owed, killed, astray>>
    BY <1>4 DEF Move, Working, Job
  <2>2. CASE todo = <<>>
    <3>1. UNCHANGED files /\ Go(w, {[J EXCEPT !.at = "write"]})
      BY <1>4, <2>2 DEF Move
    <3> HIDE DEF J
    <3> QED
      BY <1>3, <2>0, <2>1, <2>2, <3>1
  <2>3. CASE todo # <<>>
    <3>1. /\ files' = Moved(files, Head(todo).from, Head(todo).to)
          /\ Go(w, {Tried(J, Tail(todo), Append(done, Head(todo)))})
      BY <1>4, <2>3 DEF Move, Tried
    <3> HIDE DEF J
    <3>2. Tried(J, Tail(todo), Append(done, Head(todo)))
            = JobWith(J, "move", Tail(todo), Append(done, Head(todo)))
      BY <2>0, <2>1, JobMoves
    <3> QED
      BY <2>1, <2>3, <3>1, <3>2
  <2> QED
    BY <2>2, <2>3
<1>5. ASSUME FailMove(w)
      PROVE  J.at = "move" /\ todo # <<>> /\ Go(w, {JobWith(J, "undo", todo, Append(done, Head(todo)))})
  <2>0. IsJob(J)
    BY <1>5, HasJob
  <2>1. J.at = "move" /\ todo # <<>> /\ Go(w, {[J EXCEPT !.at = "undo", !.done = Append(done, Head(todo))]})
    BY <1>5 DEF FailMove, Working, Job
  <2> DEFINE d == Append(done, Head(todo))
  <2> HIDE DEF J, d
  <2>2. [J EXCEPT !.at = "undo", !.done = d] = JobWith(J, "undo", todo, d)
    BY <2>0, JobFails
  <2> USE DEF d
  <2> QED
    BY <2>1, <2>2
<1>6. ASSUME WriteRegistry(w)
      PROVE  \/ Go(w, {})
             \/ J.kind = "relocate" /\ Go(w, {JobWith(J, "end", todo, done)})
             \/ J.origin = "legacy" /\ Go(w, {JobWith(J, "drop", todo, done)})
  <2>0. IsJob(J)
    BY <1>6, HasJob
  <2>1. Go(w, IF J.origin = "legacy" THEN {[J EXCEPT !.at = "drop"]}
              ELSE IF J.kind = "relocate" THEN {[J EXCEPT !.at = "end"]} ELSE {})
    BY <1>6 DEF WriteRegistry
  <2> HIDE DEF J
  <2> QED
    BY <1>3, <2>0, <2>1
<1>7. ASSUME DropLegacy(w)
      PROVE  Go(w, {}) \/ (J.kind = "relocate" /\ Go(w, {JobWith(J, "dropped", todo, done)}))
  <2>0. IsJob(J)
    BY <1>7, HasJob
  <2>1. Go(w, IF J.kind = "relocate" THEN {[J EXCEPT !.at = "dropped"]} ELSE {})
    BY <1>7 DEF DropLegacy
  <2> HIDE DEF J
  <2> QED
    BY <1>3, <2>0, <2>1
<1>8. ASSUME Fail(w)
      PROVE  Go(w, {}) \/ (J.kind = "relocate" /\ Go(w, {JobWith(J, "undo", todo, done)}))
  <2>0. IsJob(J)
    BY <1>8, HasJob
  <2>1. Go(w, IF J.kind = "relocate" THEN {[J EXCEPT !.at = "undo"]} ELSE {})
    BY <1>8 DEF Fail
  <2> HIDE DEF J
  <2> QED
    BY <1>3, <2>0, <2>1
<1>9. ASSUME Undo(w) \/ FailUndo(w)
      PROVE  J.at = "undo" /\ done # <<>> /\ Go(w, {JobWith(J, "undo", todo, Front(done))})
  <2>0. IsJob(J)
    BY <1>9, HasJob
  <2>1. Go(w, {[J EXCEPT !.done = Front(done)]}) /\ J.at = "undo" /\ done # <<>>
    BY <1>9 DEF Undo, FailUndo, Working, Job
  <2> DEFINE d == Front(done)
  <2> HIDE DEF J, d
  <2>2. [J EXCEPT !.done = d] = JobWith(J, "undo", todo, d)
    BY <2>0, <2>1, JobDone
  <2> USE DEF d
  <2> QED
    BY <2>1, <2>2
<1>10. Restore(w) \/ LeftUndone(w) => J.at = "undo" /\ Go(w, {})
  BY DEF Restore, LeftUndone, FailRestore, CutShort, Working, Job
<1> QED
  BY <1>4, <1>5, <1>6, <1>7, <1>8, <1>9, <1>10

\* What a running program goes on with is a job.
LEMMA RunTypes ==
  ASSUME TypesInv, NEW w \in Writers,
         \/ Move(w) \/ FailMove(w) \/ WriteRegistry(w) \/ DropLegacy(w) \/ Fail(w)
         \/ Undo(w) \/ FailUndo(w) \/ LeftUndone(w)
  PROVE  \E next, J : Go(w, next) /\ IsJob(J) /\ next \in {{}, {J}}
<1> DEFINE J == Job(w)
           fits(next) == \E K : IsJob(K) /\ next \in {{}, {K}}
<1>1. IsJob(J)
  BY HasJob
<1> HIDE DEF J
<1>2. \A a \in {"move", "write", "drop", "dropped", "end", "undo"} : \A t, d : fits({JobWith(J, a, t, d)})
  BY <1>1, JobGoesOn
<1>3. fits({})
  BY <1>1
<1> HIDE DEF fits
<1>4. \E next : Go(w, next) /\ fits(next)
  BY <1>2, <1>3, RunDoes DEF J
<1> QED
  BY <1>4 DEF fits

\* Every step keeps the types.
LEMMA TypesNext ==
  TypesInv /\ [Next]_vars => TypesInv'
<1> SUFFICES ASSUME TypesInv, [Next]_vars PROVE TypesInv'
  OBVIOUS
<1> DEFINE Ats == {"move", "write", "drop", "dropped", "end", "undo"}
<1>1. IsConfig(registry) /\ IsConfig(legacy)
  BY DEF TypesInv
<1>2. ASSUME NEW w \in Writers, ~Idle(w) PROVE IsJob(Job(w))
  BY <1>2 DEF TypesInv
<1>3. ASSUME NEW w \in Writers, Move(w) \/ FailMove(w) \/ Fail(w) \/ Undo(w) \/ FailUndo(w) \/ LeftUndone(w)
      PROVE  TypesInv'
  <2>1. UNCHANGED <<registry, legacy, killed>>
    BY <1>3 DEF Move, FailMove, Fail, Undo, FailUndo, LeftUndone, FailRestore, CutShort
  <2>2. PICK next, J : Go(w, next) /\ IsJob(J) /\ next \in {{}, {J}}
    BY <1>3, RunTypes
  <2> QED
    BY <1>1, <2>1, <2>2, TypesAfter
<1>4. ASSUME NEW w \in Writers, WriteRegistry(w) PROVE TypesInv'
  <2>1. IsJob(Job(w)) /\ UNCHANGED <<legacy, killed>>
    BY <1>2, <1>4 DEF WriteRegistry, Working
  <2>2. registry' = {[enabled |-> Job(w).enabled, caps |-> Job(w).caps]}
    BY <1>4 DEF WriteRegistry
  <2>3. IsConfig(registry')
    BY <2>1, <2>2 DEF IsConfig, Docs, IsJob
  <2> QED
    BY <1>1, <1>4, <2>1, <2>3, RunTypes, TypesAfter
<1>5. ASSUME NEW w \in Writers, DropLegacy(w) PROVE TypesInv'
  <2>1. UNCHANGED <<registry, killed>> /\ legacy' = {}
    BY <1>5 DEF DropLegacy
  <2>2. IsConfig(legacy')
    BY <2>1 DEF IsConfig
  <2> QED
    BY <1>1, <1>5, <2>1, <2>2, RunTypes, TypesAfter
<1>6. ASSUME NEW w \in Writers, Finish(w) \/ Kill(w) PROVE TypesInv'
  <2>1. /\ ~Idle(w) /\ UNCHANGED <<registry, legacy>> /\ Go(w, {})
        /\ killed' \subseteq killed \cup Commands(w)
    BY <1>6 DEF Finish, Kill, Working
  <2> QED
    BY <1>1, <2>1, TypesAfter
<1>7. ASSUME NEW w \in Writers, Restore(w) PROVE TypesInv'
  <2>1. IsJob(Job(w)) /\ UNCHANGED <<legacy, killed>> /\ registry' = Job(w).original /\ Go(w, {})
    BY <1>2, <1>7 DEF Restore, Working
  <2>2. IsConfig(registry')
    BY <2>1 DEF IsJob
  <2> QED
    BY <1>1, <2>1, <2>2, TypesAfter
<1>8. ASSUME NEW w \in Writers, Register(w) PROVE TypesInv'
  <2>1. PICK n, spec, replaces :
          /\ n \in Names /\ replaces \in SUBSET Names
          /\ spec \in {None} \cup Paths(n) /\ StartRegister(w, n, "globs", spec, replaces)
    BY <1>8, RegistrationsFit
  <2>2. \E J : Go(w, {J}) /\ IsJob(J)
    BY <2>1, StartRegisterDoes
  <2>3. UNCHANGED <<registry, legacy, killed>>
    BY <2>1 DEF StartRegister
  <2> QED
    BY <1>1, <2>2, <2>3, TypesAfter
<1>9. ASSUME NEW w \in Writers, Relocate(w) \/ \E k \in killed : StartRelocate(w, {k[1]}, k[2], k[3])
       PROVE  TypesInv'
  <2>1. PICK targets, to, override :
          /\ targets \in SUBSET Names /\ to \in {"central", "colocated"}
          /\ (\A n \in targets : override \in {None, Chosen(n)}) /\ StartRelocate(w, targets, to, override)
    BY <1>9, RelocationsFit
  <2>2. \E J : Go(w, {J}) /\ IsJob(J) /\ RelocateJob(J, targets, to, override)
    <3>1. targets \in SUBSET Names /\ to \in {"central", "colocated"}
      BY <2>1
    <3>2. \A n \in targets : override \in {None, Chosen(n)}
      BY <2>1
    <3>3. StartRelocate(w, targets, to, override)
      BY <2>1
    <3> QED
      BY <3>1, <3>2, <3>3, StartRelocateDoes, Zenon
  <2>3. UNCHANGED <<registry, legacy, killed>>
    BY <2>1 DEF StartRelocate
  <2> QED
    BY <1>1, <2>2, <2>3, TypesAfter
<1>10. ASSUME UNCHANGED <<registry, legacy, job>>, killed' \subseteq killed PROVE TypesInv'
  <2>1. \A w \in Writers : Idle(w)' = Idle(w) /\ Job(w)' = Job(w)
    BY <1>10 DEF Idle, Job
  <2> QED
    BY <1>10, <2>1 DEF TypesInv
<1>11. CASE Next
  BY <1>3, <1>4, <1>5, <1>6, <1>7, <1>8, <1>9, <1>10, <1>11
     DEF Next, Step, LeftUndone, Rerun, CreateSpec, DraftSpec
<1>12. CASE UNCHANGED vars
  BY <1>10, <1>12 DEF vars
<1> QED
  BY <1>11, <1>12

-----------------------------------------------------------------------------
(* What was registered stays registered                                     *)

\* One command is at work at a time, and none is interrupted between dropping
\* the old block and the end of its guarded part.
Alone == \A v, w \in Writers : v = w
GuardHolds == "dropped" \notin Interruptible

\* The names a job has, will have or gives back.
KeepsOwed(J) ==
  /\ J.at \in {"move", "write"} =>
       (owed \ J.replaces) \cup (IF J.kind = "register" THEN J.names ELSE {}) \subseteq NamesOf(J.caps)
  /\ J.kind = "relocate" =>
       J.replaces = {} /\ (J.at # "dropped" => owed \subseteq NamesOf(BlockCaps(J.original, legacy)))
  /\ J.kind = "register" => J.at \in {"write", "drop"}
  /\ J.at \in {"drop", "dropped", "end"} => registry # {}

\* What is owed is read now, and will be whatever the program at work does next.
KeptInv ==
  /\ owed \subseteq NamesOf(BlockCaps(registry, legacy))
  /\ \A w \in Writers : Idle(w) \/ KeepsOwed(Job(w))

\* At the start everything the reader finds is owed.
LEMMA KeptInit ==
  Init => KeptInv
<1> SUFFICES ASSUME Init PROVE KeptInv
  OBVIOUS
<1>1. TypesInv /\ \A w \in Writers : Idle(w)
  BY TypesInit DEF Init, Idle
<1>2. owed = {e.name : e \in UNION {ToSet(d.caps) : d \in IF registry # {} THEN registry ELSE legacy}}
  BY DEF Init
<1>3. ASSUME NEW c, IsConfig(c), c # {}
      PROVE  {e.name : e \in UNION {ToSet(d.caps) : d \in c}} = NamesOf(The(c).caps)
  <2>1. c = {The(c)}
    BY <1>3, ConfigIsOne
  <2>2. \A d \in c : d = The(c)
    BY <2>1
  <2>3. UNION {ToSet(d.caps) : d \in c} = ToSet(The(c).caps)
    BY <1>3, <2>2
  <2> QED
    BY <2>3 DEF NamesOf
<1>4. CASE registry # {}
  BY <1>1, <1>2, <1>3, <1>4 DEF TypesInv, BlockCaps, KeptInv
<1>5. CASE registry = {} /\ legacy # {}
  BY <1>1, <1>2, <1>3, <1>5 DEF TypesInv, BlockCaps, KeptInv
<1>6. CASE registry = {} /\ legacy = {}
  BY <1>1, <1>2, <1>6 DEF KeptInv
<1> QED
  BY <1>4, <1>5, <1>6

\* The program at work goes on; alone, there is no other to be disturbed.
LEMMA KeptAfter ==
  ASSUME TypesInv, Alone, NEW w \in Writers, NEW next, Go(w, next), NEW J, next \in {{}, {J}},
         next = {J} => IsJob(J) /\ KeepsOwed(J)',
         (owed \subseteq NamesOf(BlockCaps(registry, legacy)))'
  PROVE  KeptInv'
<1>1. /\ Idle(w)' <=> next = {}
      /\ next = {J} => Job(w)' = J
  BY JobsAfter
<1>2. ASSUME NEW v \in Writers, ~Idle(v)' PROVE KeepsOwed(Job(v))'
  <2>1. v = w
    BY DEF Alone
  <2>2. next = {J} /\ Job(v)' = J
    BY <1>1, <1>2, <2>1
  <2> QED
    BY <2>2 DEF KeepsOwed
<1> QED
  BY <1>2 DEF KeptInv

\* A relocation that goes on without a write keeps what it kept.
LEMMA KeepsOn ==
  ASSUME NEW J, KeepsOwed(J), NEW a, NEW t, NEW d, UNCHANGED <<registry, legacy, owed>>,
         J.kind = "relocate", J.at = "move" \/ (a = "undo" /\ J.at # "dropped"),
         a \in {"move", "write", "undo"}
  PROVE  KeepsOwed(JobWith(J, a, t, d))'
<1> DEFINE K == JobWith(J, a, t, d)
<1>1. /\ K.at = a /\ K.kind = J.kind /\ K.names = J.names /\ K.replaces = J.replaces
      /\ K.caps = J.caps /\ K.original = J.original
  BY DEF JobWith
<1> HIDE DEF K
<1>2. K.at \in {"move", "write"} => (owed \ K.replaces) \cup {} \subseteq NamesOf(K.caps)
  BY <1>1 DEF KeepsOwed
<1>3. K.replaces = {} /\ owed \subseteq NamesOf(BlockCaps(K.original, legacy))
  BY <1>1 DEF KeepsOwed
<1>4. KeepsOwed(K)'
  BY <1>1, <1>2, <1>3 DEF KeepsOwed, NamesOf, BlockCaps, The
<1> QED
  BY <1>4 DEF K

\* Every step keeps what is owed.
LEMMA KeptNext ==
  ASSUME Alone, GuardHolds
  PROVE  TypesInv /\ KeptInv /\ [Next]_vars => KeptInv'
<1> SUFFICES ASSUME TypesInv, KeptInv, [Next]_vars PROVE KeptInv'
  OBVIOUS
<1> DEFINE read == owed \subseteq NamesOf(BlockCaps(registry, legacy))
<1>1. read /\ \A w \in Writers : ~Idle(w) => KeepsOwed(Job(w)) /\ IsJob(Job(w))
  BY DEF KeptInv, TypesInv
<1>2. UNCHANGED <<registry, legacy, owed>> => read'
  BY <1>1 DEF BlockCaps, NamesOf, The
<1> HIDE DEF read
<1>3. ASSUME NEW w \in Writers, Move(w) \/ FailMove(w) \/ Fail(w) \/ Undo(w) \/ FailUndo(w) PROVE KeptInv'
  <2>1. UNCHANGED <<registry, legacy, owed>>
    BY <1>3 DEF Move, FailMove, Fail, Undo, FailUndo
  <2>2. PICK J : J = Job(w)
    OBVIOUS
  <2>3. IsJob(J) /\ KeepsOwed(J) /\ (J.kind = "register" => J.at \in {"write", "drop"})
    BY <1>1, <1>3, <2>2, HasJob DEF KeepsOwed
  <2>4. Undo(w) \/ FailUndo(w) => J.at = "undo"
    BY <2>2, RunDoes
  <2>5. Fail(w) => J.at # "dropped"
    BY <2>2 DEF Fail, Working, Job, GuardHolds
  <2>6. \E next, K : Go(w, next) /\ next \in {{}, {K}} /\ (next = {K} => IsJob(K) /\ KeepsOwed(K)')
    <3>1. CASE Move(w)
      <4>1. J.at = "move" /\ J.kind = "relocate"
        BY <2>2, <2>3, <3>1, RunDoes DEF IsJob
      <4>2. PICK a \in {"write", "move"}, t \in {J.todo, Tail(J.todo)},
                 d \in {J.done, Append(J.done, Head(J.todo))} : Go(w, {JobWith(J, a, t, d)})
        BY <2>2, <3>1, RunDoes
      <4>3. IsJob(JobWith(J, a, t, d)) /\ KeepsOwed(JobWith(J, a, t, d))'
        BY <2>1, <2>3, <4>1, KeepsOn, JobGoesOn
      <4> QED
        BY <4>2, <4>3
    <3>2. CASE FailMove(w)
      <4>1. J.at = "move" /\ J.kind = "relocate"
        BY <2>2, <2>3, <3>2, RunDoes DEF IsJob
      <4>2. PICK d : Go(w, {JobWith(J, "undo", J.todo, d)})
        BY <2>2, <3>2, RunDoes
      <4>3. IsJob(JobWith(J, "undo", J.todo, d)) /\ KeepsOwed(JobWith(J, "undo", J.todo, d))'
        BY <2>1, <2>3, <4>1, KeepsOn, JobGoesOn
      <4> QED
        BY <4>2, <4>3
    <3>3. CASE Fail(w)
      <4>1. CASE Go(w, {})
        BY <2>3, <4>1
      <4>2. CASE J.kind = "relocate" /\ Go(w, {JobWith(J, "undo", J.todo, J.done)})
        <5>1. /\ IsJob(JobWith(J, "undo", J.todo, J.done))
              /\ KeepsOwed(JobWith(J, "undo", J.todo, J.done))'
          BY <2>1, <2>3, <2>5, <3>3, <4>2, KeepsOn, JobGoesOn
        <5> QED
          BY <4>2, <5>1
      <4> QED
        BY <2>2, <3>3, <4>1, <4>2, RunDoes
    <3>4. CASE Undo(w) \/ FailUndo(w)
      <4>1. J.at = "undo" /\ J.kind = "relocate"
        BY <2>3, <2>4, <3>4 DEF IsJob
      <4>2. PICK d : Go(w, {JobWith(J, "undo", J.todo, d)})
        BY <2>2, <3>4, RunDoes
      <4>3. IsJob(JobWith(J, "undo", J.todo, d)) /\ KeepsOwed(JobWith(J, "undo", J.todo, d))'
        BY <2>1, <2>3, <4>1, KeepsOn, JobGoesOn
      <4> QED
        BY <4>2, <4>3
    <3> QED
      BY <1>3, <3>1, <3>2, <3>3, <3>4
  <2> QED
    BY <1>2, <2>1, <2>6, KeptAfter DEF read
<1>4. ASSUME NEW w \in Writers, WriteRegistry(w) PROVE KeptInv'
  <2>1. PICK J : J = Job(w)
    OBVIOUS
  <2>2. /\ J.at = "write" /\ registry' = {[enabled |-> J.enabled, caps |-> J.caps]} /\ legacy' = legacy
        /\ owed' = (owed \ J.replaces) \cup (IF J.kind = "register" THEN J.names ELSE {})
    BY <1>4, <2>1 DEF WriteRegistry, Working, Job
  <2>3. IsJob(J) /\ KeepsOwed(J)
    BY <1>1, <1>4, <2>1, HasJob
  <2>4. owed' \subseteq NamesOf(J.caps)
    BY <2>2, <2>3 DEF KeepsOwed
  <2>5. registry' # {} /\ BlockCaps(registry', legacy') = J.caps
    <3>1. The(registry') = [enabled |-> J.enabled, caps |-> J.caps]
      BY <2>2, TheOne
    <3> QED
      BY <2>2, <3>1 DEF BlockCaps
  <2>6. NamesOf(BlockCaps(registry, legacy))' = NamesOf(J.caps)
    BY <2>5 DEF NamesOf, BlockCaps, The
  <2>7. \A a, t, d : JobWith(J, a, t, d).at = a /\ JobWith(J, a, t, d).kind = J.kind
                     /\ JobWith(J, a, t, d).replaces = J.replaces
                     /\ JobWith(J, a, t, d).original = J.original
    BY DEF JobWith
  <2>8. ASSUME NEW a \in {"drop", "end"}, a = "end" => J.kind = "relocate"
        PROVE  KeepsOwed(JobWith(J, a, J.todo, J.done))' /\ IsJob(JobWith(J, a, J.todo, J.done))
    <3>1. PICK K : K = JobWith(J, a, J.todo, J.done)
      OBVIOUS
    <3>2. K.at = a /\ K.kind = J.kind /\ K.replaces = J.replaces /\ K.original = J.original
      BY <2>7, <3>1
    <3>3. J.kind = "relocate" => J.replaces = {} /\ owed' \subseteq NamesOf(BlockCaps(J.original, legacy))
      BY <2>2, <2>3 DEF KeepsOwed
    <3>4. NamesOf(BlockCaps(K.original, legacy))' = NamesOf(BlockCaps(J.original, legacy))
      BY <2>2, <3>2 DEF NamesOf, BlockCaps, The
    <3>5. KeepsOwed(K)'
      BY <2>3, <2>5, <2>8, <3>2, <3>3, <3>4 DEF KeepsOwed, IsJob
    <3>6. IsJob(JobWith(J, a, J.todo, J.done))
      BY <2>3, JobGoesOn
    <3> QED
      BY <3>1, <3>5, <3>6
  <2>9. \E next, K : Go(w, next) /\ next \in {{}, {K}} /\ (next = {K} => IsJob(K) /\ KeepsOwed(K)')
    <3>1. CASE Go(w, {})
      BY <2>3, <3>1
    <3>2. CASE J.kind = "relocate" /\ Go(w, {JobWith(J, "end", J.todo, J.done)})
      BY <2>8, <3>2
    <3>3. CASE Go(w, {JobWith(J, "drop", J.todo, J.done)})
      BY <2>8, <3>3
    <3> QED
      BY <1>4, <2>1, <3>1, <3>2, <3>3, RunDoes
  <2> QED
    BY <2>4, <2>6, <2>9, KeptAfter
<1>5. ASSUME NEW w \in Writers, DropLegacy(w) PROVE KeptInv'
  <2>1. PICK J : J = Job(w)
    OBVIOUS
  <2>2. IsJob(J) /\ KeepsOwed(J) /\ J.at = "drop" /\ UNCHANGED <<registry, owed>>
    BY <1>1, <1>5, <2>1, HasJob DEF DropLegacy, Working, Job
  <2>3. registry # {}
    BY <2>2 DEF KeepsOwed
  <2>4. NamesOf(BlockCaps(registry, legacy))' = NamesOf(BlockCaps(registry, legacy))
    BY <2>2, <2>3 DEF NamesOf, BlockCaps, The
  <2>5. read'
    BY <1>1, <2>2, <2>4 DEF read
  <2>6. ASSUME J.kind = "relocate"
        PROVE  IsJob(JobWith(J, "dropped", J.todo, J.done))
               /\ KeepsOwed(JobWith(J, "dropped", J.todo, J.done))'
    <3>1. PICK K : K = JobWith(J, "dropped", J.todo, J.done)
      OBVIOUS
    <3>2. IsJob(K) /\ K.at = "dropped" /\ K.kind = J.kind /\ K.replaces = J.replaces
      BY <2>2, <3>1, JobGoesOn DEF JobWith
    <3>3. KeepsOwed(K)'
      BY <2>2, <2>3, <2>6, <3>2 DEF KeepsOwed
    <3> QED
      BY <3>1, <3>2, <3>3
  <2>7. \E next, K : Go(w, next) /\ next \in {{}, {K}} /\ (next = {K} => IsJob(K) /\ KeepsOwed(K)')
    BY <1>5, <2>1, <2>2, <2>6, RunDoes
  <2> QED
    BY <2>5, <2>7, KeptAfter DEF read
<1>6. ASSUME NEW w \in Writers, Finish(w) \/ Kill(w) \/ LeftUndone(w) PROVE KeptInv'
  <2>1. UNCHANGED <<registry, legacy, owed>> /\ Go(w, {})
    BY <1>6 DEF Finish, Kill, LeftUndone, FailRestore, CutShort
  <2> QED
    BY <1>2, <2>1, KeptAfter DEF read
<1>7. ASSUME NEW w \in Writers, Restore(w) PROVE KeptInv'
  <2>1. PICK J : J = Job(w)
    OBVIOUS
  <2>2. IsJob(J) /\ KeepsOwed(J) /\ J.at = "undo"
    BY <1>1, <1>7, <2>1, RunDoes DEF Restore, Working, Job
  <2>3. registry' = J.original /\ UNCHANGED <<legacy, owed>> /\ Go(w, {})
    BY <1>7, <2>1 DEF Restore
  <2>4. J.kind = "relocate" /\ owed \subseteq NamesOf(BlockCaps(J.original, legacy))
    BY <2>2 DEF KeepsOwed, IsJob
  <2>5. NamesOf(BlockCaps(registry, legacy))' = NamesOf(BlockCaps(J.original, legacy))
    BY <2>3 DEF NamesOf, BlockCaps, The
  <2> QED
    BY <2>3, <2>4, <2>5, KeptAfter
<1>8. ASSUME NEW w \in Writers, Register(w) PROVE KeptInv'
  <2>1. PICK n, spec, replaces :
          /\ n \in Names /\ replaces \in SUBSET Names
          /\ spec \in {None} \cup Paths(n) /\ StartRegister(w, n, "globs", spec, replaces)
    BY <1>8, RegistrationsFit
  <2>2. UNCHANGED <<registry, legacy, owed>>
    BY <2>1 DEF StartRegister
  <2>3. PICK J : Go(w, {J}) /\ IsJob(J) /\ RegisterJob(J, n, replaces)
    BY <2>1, StartRegisterDoes
  <2>4. NamesOf(Living) = NamesOf(BlockCaps(registry, legacy))
    BY LivingNames DEF TypesInv
  <2>5. (owed \ J.replaces) \cup J.names \subseteq NamesOf(J.caps)
    BY <1>1, <2>3, <2>4 DEF RegisterJob, read
  <2>6. KeepsOwed(J)'
    BY <2>2, <2>3, <2>5 DEF KeepsOwed, RegisterJob, NamesOf
  <2> QED
    BY <1>2, <2>2, <2>3, <2>6, KeptAfter DEF read
<1>9. ASSUME NEW w \in Writers, Relocate(w) \/ \E k \in killed : StartRelocate(w, {k[1]}, k[2], k[3])
      PROVE  KeptInv'
  <2>1. PICK targets, to, override :
          /\ targets \in SUBSET Names /\ to \in {"central", "colocated"}
          /\ (\A n \in targets : override \in {None, Chosen(n)}) /\ StartRelocate(w, targets, to, override)
    BY <1>9, RelocationsFit
  <2>2. UNCHANGED <<registry, legacy, owed>>
    BY <2>1 DEF StartRelocate
  <2>3. \E J : Go(w, {J}) /\ IsJob(J) /\ RelocateJob(J, targets, to, override)
    <3>1. targets \in SUBSET Names /\ to \in {"central", "colocated"}
      BY <2>1
    <3>2. \A n \in targets : override \in {None, Chosen(n)}
      BY <2>1
    <3>3. StartRelocate(w, targets, to, override)
      BY <2>1
    <3> QED
      BY <3>1, <3>2, <3>3, StartRelocateDoes, Zenon
  <2>4. PICK J : Go(w, {J}) /\ IsJob(J) /\ RelocateJob(J, targets, to, override)
    BY <2>3
  <2>5. NamesOf(Living) = NamesOf(BlockCaps(registry, legacy))
    BY LivingNames DEF TypesInv
  <2>6. /\ J.at = "move" /\ J.kind = "relocate" /\ J.replaces = {} /\ J.original = registry
        /\ NamesOf(J.caps) = NamesOf(Living)
    BY <2>4 DEF RelocateJob
  <2>7. owed \subseteq NamesOf(J.caps) /\ owed \subseteq NamesOf(BlockCaps(J.original, legacy))
    BY <1>1, <2>5, <2>6 DEF read
  <2>8. KeepsOwed(J)'
    BY <2>2, <2>6, <2>7 DEF KeepsOwed, NamesOf, BlockCaps, The
  <2> QED
    BY <1>2, <2>2, <2>4, <2>8, KeptAfter DEF read
<1>10. ASSUME UNCHANGED <<registry, legacy, job, owed>> PROVE KeptInv'
  <2>1. \A w \in Writers : Idle(w)' = Idle(w) /\ Job(w)' = Job(w)
    BY <1>10 DEF Idle, Job
  <2>2. read'
    BY <1>2, <1>10
  <2>3. ASSUME NEW w \in Writers, ~Idle(w)' PROVE KeepsOwed(Job(w))'
    <3>1. PICK J : J = Job(w)
      OBVIOUS
    <3>2. KeepsOwed(J)
      BY <1>1, <2>1, <2>3, <3>1
    <3>3. KeepsOwed(J)'
      BY <1>10, <3>2 DEF KeepsOwed, NamesOf, BlockCaps, The
    <3> QED
      BY <2>1, <3>1, <3>3
  <2> QED
    BY <2>2, <2>3 DEF KeptInv, read
<1>11. CASE Next
  BY <1>3, <1>4, <1>5, <1>6, <1>7, <1>8, <1>9, <1>10, <1>11
     DEF Next, Step, LeftUndone, Rerun, CreateSpec, DraftSpec
<1>12. CASE UNCHANGED vars
  BY <1>10, <1>12 DEF vars
<1> QED
  BY <1>11, <1>12

\* A capability that was registered stays registered, at every instant, through
\* migration, other registrations, relocations, their failures, the failures of
\* their rollbacks and kills (register-capability.py, "every existing capability
\* ... is preserved"), while commands do not overlap and none is interrupted after
\* the old block is gone.
THEOREM NothingDropped ==
  ASSUME Alone, GuardHolds
  PROVE  Spec => []NothingIsDropped
<1>1. Init => TypesInv /\ KeptInv
  BY TypesInit, KeptInit
<1>2. TypesInv /\ KeptInv /\ [Next]_vars => TypesInv' /\ KeptInv'
  BY TypesNext, KeptNext
<1>3. TypesInv /\ KeptInv => NothingIsDropped
  BY LivingNames DEF TypesInv, KeptInv, NothingIsDropped
<1> QED
  BY <1>1, <1>2, <1>3, PTL DEF Spec

-----------------------------------------------------------------------------
(* The moves of a relocation                                                *)

\* Joining sequences.
LEMMA Joins ==
  ASSUME NEW S, NEW x \in Seq(S), NEW a \in Seq(S), NEW b \in Seq(S)
  PROVE  a \o b \in Seq(S) /\ (x \o a) \o b = x \o (a \o b)
<1>1. a \o b \in Seq(S)
  OBVIOUS
<1>2. (x \o a) \o b = x \o (a \o b)
  OBVIOUS
<1> QED
  BY <1>1, <1>2

\* The recursive function FlattenSeq is made of.
Flatten(seqs, f) ==
  f = [i \in 1 .. Len(seqs) |-> IF i = 1 THEN seqs[i] ELSE f[i - 1] \o seqs[i]]

\* Each of its values adds one sequence to the value before.
LEMMA FlattenUnfolds ==
  ASSUME NEW seqs, Len(seqs) \in Nat \ {0}, NEW f, Flatten(seqs, f)
  PROVE  f[1] = seqs[1] /\ \A i \in 1 .. Len(seqs) - 1 : f[i + 1] = f[i] \o seqs[i + 1]
<1>1. \A j \in 1 .. Len(seqs) : f[j] = IF j = 1 THEN seqs[j] ELSE f[j - 1] \o seqs[j]
  BY DEF Flatten
<1>2. f[1] = seqs[1]
  BY <1>1
<1>3. ASSUME NEW i \in 1 .. Len(seqs) - 1 PROVE f[i + 1] = f[i] \o seqs[i + 1]
  <2>1. i + 1 \in 1 .. Len(seqs) /\ i + 1 # 1 /\ (i + 1) - 1 = i
    OBVIOUS
  <2> QED
    BY <1>1, <2>1
<1> QED
  BY <1>2, <1>3

\* The function exists, takes sequences as values, and its last value is FlattenSeq.
LEMMA FlattenRecursion ==
  ASSUME NEW S, NEW seqs \in Seq(Seq(S)), Len(seqs) # 0
  PROVE  \E f \in [1 .. Len(seqs) -> Seq(S)] : Flatten(seqs, f) /\ FlattenSeq(seqs) = f[Len(seqs)]
<1> DEFINE n == Len(seqs)
           Def(v, i) == v \o seqs[i]
           f == CHOOSE g : g = [i \in 1 .. n |-> IF i = 1 THEN seqs[i] ELSE g[i - 1] \o seqs[i]]
           h == CHOOSE g : g = [i \in 1 .. n |-> IF i = 1 THEN seqs[1] ELSE g[i - 1] \o seqs[i]]
<1>1. n \in Nat /\ 1 \in Nat /\ seqs[1] \in Seq(S)
  OBVIOUS
<1>2. \A g : [i \in 1 .. n |-> IF i = 1 THEN seqs[i] ELSE g[i - 1] \o seqs[i]]
              = [i \in 1 .. n |-> IF i = 1 THEN seqs[1] ELSE g[i - 1] \o seqs[i]]
  OBVIOUS
<1>3. f = h
  BY <1>2
<1>4. FlattenSeq(seqs) = f[n]
  BY DEF FlattenSeq
<1>5. FiniteNatInductiveDefHypothesis(h, seqs[1], Def, 1, n)
  BY DEF FiniteNatInductiveDefHypothesis
<1>6. \A v \in Seq(S), i \in 2 .. n : Def(v, i) \in Seq(S)
  OBVIOUS
<1> HIDE DEF Def, f, h, n
<1>7. FiniteNatInductiveDefConclusion(h, seqs[1], Def, 1, n)
  BY <1>1, <1>5, FiniteNatInductiveDef
<1>8. h = [i \in 1 .. n |-> IF i = 1 THEN seqs[1] ELSE h[i - 1] \o seqs[i]]
  BY <1>7 DEF FiniteNatInductiveDefConclusion, Def
<1>9. h \in [1 .. n -> Seq(S)]
  <2> DEFINE T == {i \in 1 .. n : h[i] \in Seq(S)}
  <2>1. Flatten(seqs, h)
    BY <1>2, <1>8 DEF Flatten, n
  <2>2. h[1] = seqs[1] /\ \A i \in 1 .. n - 1 : h[i + 1] = h[i] \o seqs[i + 1]
    BY <2>1, <1>1, FlattenUnfolds DEF n
  <2>3. 1 \in T
    BY <1>1, <2>2 DEF n
  <2>4. ASSUME NEW i \in 1 .. n - 1, i \in T PROVE i + 1 \in T
    <3>1. i + 1 \in 1 .. n /\ seqs[i + 1] \in Seq(S)
      BY <1>1 DEF n
    <3>2. h[i] \in Seq(S) /\ h[i + 1] = h[i] \o seqs[i + 1]
      BY <2>2, <2>4
    <3>3. h[i] \o seqs[i + 1] \in Seq(S)
      BY <3>1, <3>2, Joins
    <3> QED
      BY <3>1, <3>2, <3>3
  <2>5. 1 .. n \subseteq T
    <3> HIDE DEF T
    <3>1. 0 \in {0} \cup T
      OBVIOUS
    <3>2. ASSUME NEW i \in 0 .. n - 1, i \in {0} \cup T PROVE i + 1 \in {0} \cup T
      <4>1. i = 0 \/ (i \in 1 .. n - 1 /\ i \in T)
        BY <1>1, <3>2
      <4> QED
        BY <2>3, <2>4, <4>1
    <3>3. 0 .. n \subseteq {0} \cup T
      <4> DEFINE U == {0} \cup T
      <4> HIDE DEF U
      <4> QED
        BY <1>1, <3>1, <3>2, UpTo DEF U
    <3> QED
      BY <1>1, <3>3
  <2> QED
    BY <1>8, <2>5
<1> QED
  BY <1>2, <1>3, <1>4, <1>8, <1>9 DEF Flatten, n

\* No sequences, no elements.
LEMMA FlattenNothing == FlattenSeq(<<>>) = <<>>
BY DEF FlattenSeq

\* Flattening is a sequence of the elements.
LEMMA FlattenType ==
  ASSUME NEW S, NEW seqs \in Seq(Seq(S))
  PROVE  FlattenSeq(seqs) \in Seq(S)
<1>1. CASE Len(seqs) = 0
  <2>1. seqs = <<>> /\ <<>> \in Seq(S)
    BY <1>1
  <2> QED
    BY <2>1, FlattenNothing
<1>2. CASE Len(seqs) # 0
  <2>1. PICK f \in [1 .. Len(seqs) -> Seq(S)] : FlattenSeq(seqs) = f[Len(seqs)]
    BY <1>2, FlattenRecursion
  <2>2. Len(seqs) \in 1 .. Len(seqs)
    BY <1>2
  <2> QED
    BY <2>1, <2>2
<1> QED
  BY <1>1, <1>2

\* The files after some moves of a plan, in whatever order.
Made(disk, moves) == (disk \ {m.from : m \in moves}) \cup {m.to : m \in moves}

\* A plan moves files that are there to free places, each once, and only those of some names.
PlanFits(plan, disk, names) ==
  /\ \A m \in plan : /\ m.from \in disk /\ m.to \notin disk
                     /\ m.from.name \in names /\ m.to.name = m.from.name
  /\ \A m, k \in plan : m.from = k.from \/ m.to = k.to => m = k

\* A move of the plan is one more that is made.
LEMMA MadeMore ==
  ASSUME NEW disk, NEW names, NEW plan, PlanFits(plan, disk, names), NEW D \in SUBSET plan, NEW m \in plan
  PROVE  Moved(Made(disk, D), m.from, m.to) = Made(disk, D \cup {m})
<1> DEFINE froms == {k.from : k \in D}
           tos == {k.to : k \in D}
<1>1. /\ \A k \in plan : k.from \in disk /\ k.to \notin disk
      /\ \A k, l \in plan : k.from = l.from \/ k.to = l.to => k = l
  BY DEF PlanFits
<1>2. (m.from \in froms <=> m \in D) /\ (m.to \in tos <=> m \in D)
  BY <1>1
<1>3. froms \subseteq disk /\ tos \cap disk = {}
  BY <1>1
<1>4. {k.from : k \in D \cup {m}} = froms \cup {m.from} /\ {k.to : k \in D \cup {m}} = tos \cup {m.to}
  OBVIOUS
<1>5. Made(disk, D) = (disk \ froms) \cup tos
  BY DEF Made
<1>6. Made(disk, D \cup {m}) = (disk \ (froms \cup {m.from})) \cup (tos \cup {m.to})
  BY <1>4 DEF Made
<1> HIDE DEF froms, tos
<1>7. m.from \in disk /\ m.to \notin disk /\ m.from # m.to /\ m.from \notin tos
  BY <1>1, <1>3
<1>8. CASE m \in D
  <2>1. m.from \notin Made(disk, D)
    BY <1>2, <1>5, <1>7, <1>8
  <2>2. Made(disk, D) = Made(disk, D \cup {m})
    BY <1>2, <1>5, <1>6, <1>8
  <2> QED
    BY <2>1, <2>2 DEF Moved
<1>9. CASE m \notin D
  <2>1. m.from \in Made(disk, D)
    BY <1>2, <1>5, <1>7, <1>9
  <2>2. (Made(disk, D) \ {m.from}) \cup {m.to} = Made(disk, D \cup {m})
    BY <1>5, <1>6, <1>7
  <2> QED
    BY <2>1, <2>2 DEF Moved
<1> QED
  BY <1>8, <1>9

\* Undoing it is one fewer, whether it was made or not.
LEMMA MadeLess ==
  ASSUME NEW disk, NEW names, NEW plan, PlanFits(plan, disk, names), NEW D \in SUBSET plan, NEW m \in plan
  PROVE  Moved(Made(disk, D), m.to, m.from) = Made(disk, D \ {m})
<1> DEFINE froms == {k.from : k \in D}
           tos == {k.to : k \in D}
<1>1. /\ \A k \in plan : k.from \in disk /\ k.to \notin disk
      /\ \A k, l \in plan : k.from = l.from \/ k.to = l.to => k = l
  BY DEF PlanFits
<1>2. (m.from \in froms <=> m \in D) /\ (m.to \in tos <=> m \in D)
  BY <1>1
<1>3. froms \subseteq disk /\ tos \cap disk = {}
  BY <1>1
<1>4. {k.from : k \in D \ {m}} = froms \ {m.from} /\ {k.to : k \in D \ {m}} = tos \ {m.to}
  BY <1>1
<1>5. Made(disk, D) = (disk \ froms) \cup tos
  BY DEF Made
<1>6. Made(disk, D \ {m}) = (disk \ (froms \ {m.from})) \cup (tos \ {m.to})
  BY <1>4 DEF Made
<1> HIDE DEF froms, tos
<1>7. m.from \in disk /\ m.to \notin disk /\ m.from # m.to /\ m.from \notin tos
  BY <1>1, <1>3
<1>8. CASE m \in D
  <2>1. m.to \in Made(disk, D)
    BY <1>2, <1>5, <1>8
  <2>2. (Made(disk, D) \ {m.to}) \cup {m.from} = Made(disk, D \ {m})
    BY <1>2, <1>5, <1>6, <1>7, <1>8
  <2> QED
    BY <2>1, <2>2 DEF Moved
<1>9. CASE m \notin D
  <2>1. m.to \notin Made(disk, D)
    BY <1>2, <1>5, <1>7, <1>9
  <2>2. Made(disk, D) = Made(disk, D \ {m})
    BY <1>2, <1>5, <1>6, <1>9
  <2> QED
    BY <2>1, <2>2 DEF Moved
<1> QED
  BY <1>8, <1>9

\* The files of the other names are where they were.
LEMMA MadeSpares ==
  ASSUME NEW disk, NEW names, NEW plan, PlanFits(plan, disk, names), NEW D \in SUBSET plan,
         NEW f, f.name \notin names
  PROVE  f \in Made(disk, D) <=> f \in disk
BY DEF Made, PlanFits

\* A file is of one tier.
LEMMA FileOfTier ==
  ASSUME NEW p, NEW q, NEW t, NEW u, File(p, t) = File(q, u)
  PROVE  t = u
BY DEF File

\* The moves of an entry: tiers there are, each to its new path.
LEMMA MovesOfDoes ==
  ASSUME NEW e, NEW target
  PROVE  /\ MovesOf(e, target) \in Seq(ToSet(MovesOf(e, target)))
         /\ \A m \in ToSet(MovesOf(e, target)) :
              /\ e.spec # Empty /\ m.from \in files
              /\ \E t \in Tiers : m = [from |-> File(e.spec, t), to |-> File(target, t)]
<1>1. CASE e.spec = Empty
  BY <1>1 DEF MovesOf, ToSet
<1>2. CASE e.spec # Empty
  <2> DEFINE keep == {t \in Tiers : File(e.spec, t) \in files}
             order == <<"spec", "coverage", "rules">>
             there == Only(order, keep)
             move(t) == [from |-> File(e.spec, t), to |-> File(target, t)]
  <2>1. MovesOf(e, target) = [i \in DOMAIN there |-> move(there[i])]
    BY <1>2 DEF MovesOf
  <2>2. order \in Seq(Tiers)
    BY DEF Tiers
  <2>3. \A t \in keep : t \in Tiers /\ File(e.spec, t) \in files
    OBVIOUS
  <2> HIDE DEF keep, order
  <2>4. there \in Seq(Tiers) /\ ToSet(there) \subseteq keep
    BY <2>2, OnlyDoes
  <2> HIDE DEF there
  <2>5. Len(there) \in Nat /\ DOMAIN there = 1 .. Len(there) /\ \A i \in DOMAIN there : there[i] \in keep
    BY <2>4 DEF ToSet
  <2>6. ToSet(MovesOf(e, target)) = {move(there[i]) : i \in DOMAIN there}
    BY <2>1 DEF ToSet
  <2>7. MovesOf(e, target) \in [1 .. Len(there) -> ToSet(MovesOf(e, target))]
    BY <2>1, <2>5, <2>6
  <2>8. MovesOf(e, target) \in Seq(ToSet(MovesOf(e, target)))
    BY <2>5, <2>7
  <2>9. ASSUME NEW m \in ToSet(MovesOf(e, target))
        PROVE  m.from \in files /\ \E t \in Tiers : m = [from |-> File(e.spec, t), to |-> File(target, t)]
    <3>1. PICK i \in DOMAIN there : m = move(there[i])
      BY <2>6
    <3>2. there[i] \in Tiers /\ File(e.spec, there[i]) \in files
      BY <2>3, <2>5
    <3> QED
      BY <3>1, <3>2
  <2> QED
    BY <1>2, <2>8, <2>9
<1> QED
  BY <1>1, <1>2

\* Capabilities with the same name are the same.
OneEach(caps) == \A e, f \in ToSet(caps) : e.name = f.name => e = f

\* All the moves of a relocation.
PlanOf(targets, to, override) ==
  UNION {ToSet(MovesOf(e, Target(e, to, override))) : e \in ToSet(MovingOf(targets, to, override))}

\* They are a plan for the files there are.
LEMMA PlanIsFit ==
  ASSUME TypesInv, OneEach(Living), NEW targets, NEW to, NEW override,
         \A n \in targets : override \in {None, Chosen(n)}
  PROVE  /\ PlanFits(PlanOf(targets, to, override), files, NamesOf(MovingOf(targets, to, override)))
         /\ FlattenSeq([i \in DOMAIN MovingOf(targets, to, override) |->
              MovesOf(MovingOf(targets, to, override)[i],
                      Target(MovingOf(targets, to, override)[i], to, override))])
              \in Seq(PlanOf(targets, to, override))
<1> DEFINE moving == MovingOf(targets, to, override)
           goal(e) == Target(e, to, override)
           plan == PlanOf(targets, to, override)
           keep == {e \in ToSet(Living) : /\ e.name \in targets
                                          /\ ~Refused(e, to, override)
                                          /\ ~AlreadyThere(e, to, override)}
           lists == [i \in DOMAIN moving |-> MovesOf(moving[i], goal(moving[i]))]
<1>1. Living \in Seq(Caps) /\ \A e \in ToSet(Living) : e.spec \in {Empty} \cup Paths(e.name)
  <2>1. IsConfig(registry) /\ IsConfig(legacy)
    BY DEF TypesInv
  <2>2. /\ Living \in Seq(Caps)
        /\ \A i \in 1 .. Len(Living) : /\ Block.caps[i] \in Caps /\ Living[i].name = Block.caps[i].name
                                       /\ Living[i].spec = Settled(Block.caps[i])
    BY <2>1, LivingDoes
  <2>3. \A i \in 1 .. Len(Living) : Living[i].spec \in {Empty} \cup Paths(Living[i].name)
    BY <2>2, SettledIs
  <2> QED
    BY <2>2, <2>3, SeqFields
<1>2. /\ moving \in Seq(Caps) /\ ToSet(moving) \subseteq ToSet(Living)
      /\ \A e \in ToSet(moving) : /\ e.name \in targets
                                  /\ ~Refused(e, to, override) /\ ~AlreadyThere(e, to, override)
  <2>1. moving = Only(Living, keep) /\ \A e \in keep : /\ e.name \in targets
                                                       /\ ~Refused(e, to, override)
                                                       /\ ~AlreadyThere(e, to, override)
    BY DEF MovingOf
  <2> HIDE DEF keep, moving
  <2>2. moving \in Seq(Caps) /\ ToSet(moving) = ToSet(Living) \cap keep
    BY <1>1, <2>1, OnlyDoes
  <2> QED
    BY <2>1, <2>2
<1> HIDE DEF keep, moving
<1>3. ASSUME NEW e \in ToSet(moving), NEW m \in ToSet(MovesOf(e, goal(e)))
      PROVE  /\ m.from \in files /\ m.to \notin files /\ m.from.name = e.name /\ m.to.name = e.name
             /\ \E t \in Tiers : m = [from |-> File(e.spec, t), to |-> File(goal(e), t)]
  <2>1. /\ e.spec # Empty /\ m.from \in files
        /\ \E t \in Tiers : m = [from |-> File(e.spec, t), to |-> File(goal(e), t)]
    BY MovesOfDoes
  <2>2. PICK t \in Tiers : m = [from |-> File(e.spec, t), to |-> File(goal(e), t)]
    BY <2>1
  <2>3. override \in {None, Chosen(e.name)}
    BY <1>2
  <2>4. e.spec \in Paths(e.name) /\ goal(e) \in Paths(e.name)
    BY <1>1, <1>2, <2>1, <2>3, TargetIs
  <2>5. m.from.name = e.name /\ m.to.name = e.name
    BY <2>2, <2>4, PathsNamed
  <2>6. m.to \notin files
    BY <1>2, <1>3 DEF Refused
  <2> QED
    BY <2>1, <2>5, <2>6
<1>4. plan = UNION {ToSet(MovesOf(e, goal(e))) : e \in ToSet(moving)}
  BY DEF PlanOf, moving
<1>5. \A m \in plan : \E e \in ToSet(moving) : m \in ToSet(MovesOf(e, goal(e)))
  BY <1>4
<1>6. \A e \in ToSet(moving) : e.name \in NamesOf(moving)
  BY DEF NamesOf
<1>7. \A m \in plan : /\ m.from \in files /\ m.to \notin files
                      /\ m.from.name \in NamesOf(moving) /\ m.to.name = m.from.name
  BY <1>3, <1>5, <1>6
<1>8. ASSUME NEW m \in plan, NEW k \in plan, m.from = k.from \/ m.to = k.to PROVE m = k
  <2>1. PICK e \in ToSet(moving) : m \in ToSet(MovesOf(e, goal(e)))
    BY <1>5
  <2>2. PICK f \in ToSet(moving) : k \in ToSet(MovesOf(f, goal(f)))
    BY <1>5
  <2>3. e.name = f.name
    BY <1>3, <1>8, <2>1, <2>2
  <2>4. e = f
    BY <1>2, <2>3 DEF OneEach
  <2>5. PICK t \in Tiers : m = [from |-> File(e.spec, t), to |-> File(goal(e), t)]
    BY <1>3, <2>1
  <2>6. PICK u \in Tiers : k = [from |-> File(e.spec, u), to |-> File(goal(e), u)]
    BY <1>3, <2>2, <2>4
  <2> HIDE DEF goal
  <2>7. t = u
    BY <1>8, <2>5, <2>6, FileOfTier
  <2> QED
    BY <2>5, <2>6, <2>7
<1>9. lists \in Seq(Seq(plan))
  <2>1. Len(moving) \in Nat /\ DOMAIN moving = 1 .. Len(moving)
        /\ \A i \in DOMAIN moving : moving[i] \in ToSet(moving)
    BY <1>2 DEF ToSet
  <2> HIDE DEF plan, goal
  <2>2. ASSUME NEW i \in DOMAIN moving PROVE MovesOf(moving[i], goal(moving[i])) \in Seq(plan)
    <3> DEFINE own == ToSet(MovesOf(moving[i], goal(moving[i])))
               s == MovesOf(moving[i], goal(moving[i]))
    <3>1. s \in Seq(own) /\ own \subseteq plan
      BY <1>4, <2>1, MovesOfDoes
    <3> HIDE DEF own, s
    <3>2. s \in Seq(plan)
      BY <3>1
    <3> QED
      BY <3>2 DEF s
  <2>3. lists \in [1 .. Len(moving) -> Seq(plan)]
    BY <2>1, <2>2
  <2> HIDE DEF lists
  <2> QED
    BY <2>1, <2>3
<1>10. FlattenSeq(lists) \in Seq(plan)
  BY <1>9, FlattenType
<1> HIDE DEF plan, goal
<1> QED
  BY <1>7, <1>8, <1>10 DEF PlanFits, moving, plan, goal

-----------------------------------------------------------------------------
(* Reading a config against the files                                       *)

\* Settled and Living, of any config and files.
SettledIn(disk, e) ==
  IF e.spec # None THEN e.spec
  ELSE IF File(Central(e.name), "spec") \notin disk /\ File(OldCentral(e.name), "spec") \in disk
       THEN OldCentral(e.name) ELSE Central(e.name)
LivingOf(caps, disk) == [i \in DOMAIN caps |-> [caps[i] EXCEPT !.spec = SettledIn(disk, caps[i])]]

\* They are what the reader computes, before and after a step.
LEMMA LivingReads ==
  /\ \A e : Settled(e) = SettledIn(files, e)
  /\ Living = LivingOf(BlockCaps(registry, legacy), files)
  /\ Living' = LivingOf(BlockCaps(registry', legacy'), files')
  /\ Block.caps = BlockCaps(registry, legacy) /\ (Block.caps)' = BlockCaps(registry', legacy')
<1>1. \A n : Central(n) # Empty /\ OldCentral(n) # Empty
  BY PathsNamed DEF Paths
<1>2. \A e : Settled(e) = SettledIn(files, e)
  BY <1>1 DEF Settled, SettledIn, OnDisk
<1>3. \A e : Settled(e)' = SettledIn(files', e)
  BY <1>1 DEF Settled, SettledIn, OnDisk
<1>4. Block.caps = BlockCaps(registry, legacy)
  <2>1. CASE registry # {}
    BY <2>1 DEF Block, Origin, BlockCaps
  <2>2. CASE registry = {} /\ legacy # {}
    BY <2>2 DEF Block, Origin, BlockCaps
  <2>3. CASE registry = {} /\ legacy = {}
    BY <2>3 DEF Block, Origin, BlockCaps
  <2> QED
    BY <2>1, <2>2, <2>3
<1>5. (Block.caps)' = BlockCaps(registry', legacy')
  <2>1. CASE registry' # {}
    BY <2>1 DEF Block, Origin, BlockCaps, The
  <2>2. CASE registry' = {} /\ legacy' # {}
    BY <2>2 DEF Block, Origin, BlockCaps, The
  <2>3. CASE registry' = {} /\ legacy' = {}
    BY <2>3 DEF Block, Origin, BlockCaps, The
  <2> QED
    BY <2>1, <2>2, <2>3
<1>6. Living = LivingOf(BlockCaps(registry, legacy), files)
  BY <1>2, <1>4 DEF Living, LivingOf
<1>7. Living' = LivingOf(BlockCaps(registry', legacy'), files')
  <2>1. Living' = [i \in DOMAIN (Block.caps)' |->
                     [(Block.caps)'[i] EXCEPT !.spec = Settled((Block.caps)[i])']]
    BY DEF Living
  <2> QED
    BY <1>3, <1>5, <2>1 DEF LivingOf
<1> QED
  BY <1>2, <1>4, <1>5, <1>6, <1>7

\* The reader finds the names of the config, each entry with its path and globs.
LEMMA EntryReads ==
  ASSUME NEW caps \in Seq(Caps), NEW disk
  PROVE  /\ NamesOf(LivingOf(caps, disk)) = NamesOf(caps)
         /\ \A n \in NamesOf(caps) :
              /\ Entry(caps, n) \in ToSet(caps) /\ Entry(caps, n) \in Caps /\ Entry(caps, n).name = n
              /\ Entry(LivingOf(caps, disk), n).spec = SettledIn(disk, Entry(caps, n))
              /\ Entry(LivingOf(caps, disk), n).match = Entry(caps, n).match
<1> DEFINE m == Len(caps)
           new(e) == [e EXCEPT !.spec = SettledIn(disk, e)]
           living == LivingOf(caps, disk)
<1>1. m \in Nat /\ DOMAIN caps = 1 .. m /\ (\A i \in 1 .. m : caps[i] \in Caps)
      /\ ToSet(caps) = {caps[i] : i \in 1 .. m}
  BY SeqFields
<1>2. living = [i \in 1 .. m |-> new(caps[i])]
  BY <1>1 DEF LivingOf
<1>3. ASSUME NEW e \in Caps
      PROVE  new(e).name = e.name /\ new(e).match = e.match /\ new(e).spec = SettledIn(disk, e)
  <2>1. SettledIn(disk, e) \in {None, Empty} \cup Paths(e.name)
    BY DEF SettledIn, Caps, Paths
  <2> QED
    BY <2>1, CapFields
<1> HIDE DEF m, new
<1>4. /\ DOMAIN living = 1 .. m
      /\ \A i \in 1 .. m : /\ living[i].name = caps[i].name /\ living[i].match = caps[i].match
                           /\ living[i].spec = SettledIn(disk, caps[i])
  BY <1>1, <1>2, <1>3
<1> HIDE DEF living
<1>5. ToSet(living) = {living[i] : i \in 1 .. m}
  BY <1>4 DEF ToSet
<1>6. NamesOf(living) = NamesOf(caps)
  BY <1>1, <1>4, <1>5 DEF NamesOf
<1>7. ASSUME NEW n \in NamesOf(caps)
      PROVE  /\ Entry(caps, n) \in ToSet(caps) /\ Entry(caps, n) \in Caps /\ Entry(caps, n).name = n
             /\ Entry(living, n).spec = SettledIn(disk, Entry(caps, n))
             /\ Entry(living, n).match = Entry(caps, n).match
  <2> DEFINE at == {i \in DOMAIN caps : caps[i].name = n}
             j == Min(at)
  <2>1. at = {i \in DOMAIN living : living[i].name = n}
    BY <1>1, <1>4
  <2>2. at \subseteq Nat /\ at # {}
    <3>1. \E i \in 1 .. m : caps[i].name = n
      BY <1>1 DEF NamesOf
    <3> QED
      BY <1>1, <3>1
  <2>3. j \in at
    <3> HIDE DEF at
    <3> QED
      BY <2>2, MinIsIn
  <2>4. Entry(caps, n) = caps[j] /\ Entry(living, n) = living[j]
    BY <2>1 DEF Entry
  <2> HIDE DEF j
  <2>5. j \in 1 .. m /\ caps[j].name = n
    BY <1>1, <2>3
  <2> QED
    BY <1>1, <1>4, <2>4, <2>5
<1> QED
  BY <1>6, <1>7 DEF living

\* The path of an entry depends on the files of its own name alone.
LEMMA SettledLocal ==
  ASSUME NEW e, NEW disk, NEW after, \A f : f.name = e.name => (f \in disk <=> f \in after)
  PROVE  SettledIn(disk, e) = SettledIn(after, e)
<1>1. \A n : File(Central(n), "spec").name = n /\ File(OldCentral(n), "spec").name = n
  BY PathsNamed DEF Paths
<1> QED
  BY <1>1 DEF SettledIn

\* An entry that spells out an empty path or the old default, which a rewrite drops.
SpellsOut(e) == e.spec \in {Empty, OldCentral(e.name)}

\* Every capability is named once, and after a rewrite no entry spells those out.
Single(config) == \A d \in config : OneEach(d.caps)
PlainCaps(caps) == OneEach(caps) /\ \A e \in ToSet(caps) : ~SpellsOut(e)

\* A rewritten config says what the other says of the capabilities other than some,
\* but for the paths the other spells out.
AgreeOn(a, b, names, disk) ==
  \A n \in (NamesOf(a) \cap NamesOf(b)) \ names :
    ~SpellsOut(Entry(b, n)) =>
      SettledIn(disk, Entry(a, n)) = SettledIn(disk, Entry(b, n)) /\ Entry(a, n).match = Entry(b, n).match

\* It is enough that each entry of one has its like in the other.
LEMMA AgreeFrom ==
  ASSUME NEW a \in Seq(Caps), NEW b \in Seq(Caps), OneEach(a), NEW names, NEW disk,
         \A e \in ToSet(b) : e.name \notin names /\ ~SpellsOut(e) =>
           \E f \in ToSet(a) : /\ f.name = e.name /\ f.match = e.match
                               /\ SettledIn(disk, f) = SettledIn(disk, e)
  PROVE  AgreeOn(a, b, names, disk)
<1> SUFFICES ASSUME NEW n \in (NamesOf(a) \cap NamesOf(b)) \ names, ~SpellsOut(Entry(b, n))
             PROVE  /\ SettledIn(disk, Entry(a, n)) = SettledIn(disk, Entry(b, n))
                    /\ Entry(a, n).match = Entry(b, n).match
  BY DEF AgreeOn
<1>1. Entry(a, n) \in ToSet(a) /\ Entry(a, n).name = n
  BY EntryReads
<1>2. Entry(b, n) \in ToSet(b) /\ Entry(b, n).name = n
  BY EntryReads
<1>3. PICK f \in ToSet(a) : /\ f.name = n /\ f.match = Entry(b, n).match
                            /\ SettledIn(disk, f) = SettledIn(disk, Entry(b, n))
  BY <1>2
<1>4. Entry(a, n) = f
  BY <1>1, <1>3 DEF OneEach
<1> QED
  BY <1>3, <1>4

\* They go on to agree while only files of those names move.
LEMMA AgreeStill ==
  ASSUME NEW a \in Seq(Caps), NEW b \in Seq(Caps), NEW names, NEW disk, NEW after, AgreeOn(a, b, names, disk),
         \A f : f.name \notin names => (f \in disk <=> f \in after)
  PROVE  AgreeOn(a, b, names, after)
<1> SUFFICES ASSUME NEW n \in (NamesOf(a) \cap NamesOf(b)) \ names, ~SpellsOut(Entry(b, n))
             PROVE  /\ SettledIn(after, Entry(a, n)) = SettledIn(after, Entry(b, n))
                    /\ Entry(a, n).match = Entry(b, n).match
  BY DEF AgreeOn
<1>1. Entry(a, n).name = n /\ Entry(b, n).name = n
  BY EntryReads
<1>2. /\ SettledIn(disk, Entry(a, n)) = SettledIn(after, Entry(a, n))
      /\ SettledIn(disk, Entry(b, n)) = SettledIn(after, Entry(b, n))
  BY <1>1, SettledLocal
<1> QED
  BY <1>2 DEF AgreeOn

\* What a rewrite makes of a config is plain, and reads the same but for what was spelled out.
LEMMA RewriteReads ==
  ASSUME NEW caps \in Seq(Caps), OneEach(caps), NEW disk
  PROVE  /\ LivingOf(caps, disk) \in Seq(Caps) /\ Len(LivingOf(caps, disk)) = Len(caps)
         /\ OneEach(LivingOf(caps, disk))
         /\ Normalized(LivingOf(caps, disk)) \in Seq(Caps)
         /\ Len(Normalized(LivingOf(caps, disk))) = Len(caps)
         /\ PlainCaps(Normalized(LivingOf(caps, disk)))
         /\ \A i \in 1 .. Len(caps) :
              /\ LivingOf(caps, disk)[i].name = caps[i].name
              /\ Normalized(LivingOf(caps, disk))[i].name = caps[i].name
              /\ Normalized(LivingOf(caps, disk))[i].match = caps[i].match
              /\ ~SpellsOut(caps[i]) =>
                   SettledIn(disk, Normalized(LivingOf(caps, disk))[i]) = SettledIn(disk, caps[i])
<1> DEFINE n == Len(caps)
           new(e) == [e EXCEPT !.spec = SettledIn(disk, e)]
           living == LivingOf(caps, disk)
           next == Normalized(living)
<1>1. n \in Nat /\ DOMAIN caps = 1 .. n /\ (\A i \in 1 .. n : caps[i] \in Caps)
      /\ ToSet(caps) = {caps[i] : i \in 1 .. n}
  BY SeqFields
<1>2. living = [i \in 1 .. n |-> new(caps[i])]
  BY <1>1 DEF LivingOf
<1>3. ASSUME NEW e \in Caps
      PROVE  new(e) \in Caps /\ new(e).name = e.name /\ new(e).match = e.match
             /\ new(e).spec = SettledIn(disk, e)
  <2>1. SettledIn(disk, e) \in {None, Empty} \cup Paths(e.name)
    BY DEF SettledIn, Caps, Paths
  <2> QED
    BY <2>1, CapFields
<1> HIDE DEF n, new
<1>4. living \in [1 .. n -> Caps]
  BY <1>1, <1>2, <1>3
<1>5. /\ \A i \in 1 .. n : /\ living[i].name = caps[i].name /\ living[i].match = caps[i].match
                           /\ living[i].spec = SettledIn(disk, caps[i])
      /\ \A i, j \in 1 .. n : caps[i] = caps[j] => living[i] = living[j]
  BY <1>1, <1>2, <1>3
<1> HIDE DEF living
<1>6. living \in Seq(Caps) /\ Len(living) = n /\ ToSet(living) = {living[i] : i \in 1 .. n}
  <2>1. living \in Seq(Caps) /\ Len(living) = n
    BY <1>1, <1>4
  <2> QED
    BY <2>1, SeqFields
<1>7. \A i, j \in 1 .. n : caps[i].name = caps[j].name => caps[i] = caps[j]
  BY <1>1 DEF OneEach
<1>8. OneEach(living)
  BY <1>5, <1>6, <1>7 DEF OneEach
<1>9. /\ next \in Seq(Caps) /\ Len(next) = n
      /\ \A i \in 1 .. n :
           /\ next[i].name = living[i].name /\ next[i].match = living[i].match
           /\ next[i].spec = IF living[i].spec \in {Empty, OldCentral(living[i].name)} THEN None
                             ELSE living[i].spec
      /\ \A i, j \in 1 .. n : living[i] = living[j] => next[i] = next[j]
  BY <1>6, NormalizedDoes
<1> HIDE DEF next
<1>10. ASSUME NEW i \in 1 .. n
       PROVE  /\ ~SpellsOut(caps[i]) => SettledIn(disk, next[i]) = SettledIn(disk, caps[i])
              /\ ~SpellsOut(next[i])
  <2> DEFINE e == caps[i]
             s == SettledIn(disk, e)
  <2>1. /\ next[i].name = e.name /\ e \in Caps
        /\ next[i].spec = IF s \in {Empty, OldCentral(e.name)} THEN None ELSE s
    BY <1>1, <1>5, <1>9
  <2>3. /\ None \notin {Empty} \cup Paths(e.name) /\ Central(e.name) # Empty /\ OldCentral(e.name) # Empty
        /\ Central(e.name) # OldCentral(e.name)
    <3>1. None \notin {Empty} \cup Paths(e.name)
      BY <2>1, NoneAssumption DEF Caps
    <3>2. Central(e.name) # Empty /\ OldCentral(e.name) # Empty
      BY PathsNamed DEF Paths
    <3>3. Central(e.name) # OldCentral(e.name)
      BY DEF Central, OldCentral
    <3> QED
      BY <3>1, <3>2, <3>3
  <2>4. None # Central(e.name) /\ None # OldCentral(e.name)
    BY <2>3 DEF Paths
  <2>2. ~SpellsOut(next[i])
    BY <2>1, <2>3 DEF SpellsOut, Paths
  <2> SUFFICES ASSUME ~SpellsOut(e) PROVE SettledIn(disk, next[i]) = SettledIn(disk, caps[i])
    BY <2>2
  <2> HIDE DEF e
  <2>5. CASE e.spec # None
    <3>1. s = e.spec /\ next[i].spec = e.spec
      BY <2>1, <2>5 DEF SettledIn, SpellsOut
    <3> QED
      BY <2>1, <2>5, <3>1 DEF SettledIn, e
  <2>6. CASE e.spec = None /\ s = OldCentral(e.name)
    <3>1. next[i].spec = None
      BY <2>1, <2>6
    <3>2. SettledIn(disk, next[i]) = s
      BY <2>1, <2>6, <3>1 DEF SettledIn
    <3> QED
      BY <2>1, <2>3, <2>4, <3>1, <3>2 DEF e
  <2>7. CASE e.spec = None /\ s # OldCentral(e.name)
    <3>1. s = Central(e.name)
      BY <2>7 DEF SettledIn
    <3>2. next[i].spec = Central(e.name)
      BY <2>1, <2>3, <3>1
    <3>3. SettledIn(disk, next[i]) = s
      BY <2>4, <3>1, <3>2 DEF SettledIn
    <3> QED
      BY <2>1, <2>3, <3>2, <3>3 DEF e
  <2> QED
    BY <2>5, <2>6, <2>7
<1>11. ToSet(next) = {next[i] : i \in 1 .. n}
  BY <1>9, SeqFields
<1>12. PlainCaps(next)
  <2>1. OneEach(next)
    BY <1>5, <1>7, <1>9, <1>11 DEF OneEach
  <2> QED
    BY <1>10, <1>11, <2>1 DEF PlainCaps
<1>13. \A i \in 1 .. n : /\ living[i].name = caps[i].name
                         /\ next[i].name = caps[i].name /\ next[i].match = caps[i].match
  BY <1>5, <1>9
<1> QED
  BY <1>6, <1>8, <1>9, <1>10, <1>12, <1>13 DEF n, living, next

-----------------------------------------------------------------------------
(* What a program at work has changed, and what it can undo                 *)

\* The moves that were made are some of those done, and some that could not be undone.
MadeAre(D, plan, J, disk, lost) ==
  /\ J.todo \in Seq(plan) /\ J.done \in Seq(plan) /\ PlanFits(plan, J.before[3], J.names)
  /\ D \subseteq ToSet(J.done) \cup {m \in plan : m.to.name \in lost} /\ disk = Made(J.before[3], D)

\* The files are those of the start with such moves made, all of a plan.
Restorable(J, disk, lost) == \E plan : \E D \in SUBSET plan : MadeAre(D, plan, J, disk, lost)

\* The files other names have are the same.
Spares(disk, after, names) == \A f : f.name \notin names => (f \in disk <=> f \in after)

\* What could not be undone stays so.
LEMMA RestorableStill ==
  ASSUME NEW J, NEW disk, NEW lost, Restorable(J, disk, lost), NEW more, lost \subseteq more
  PROVE  Restorable(J, disk, more)
<1>1. PICK plan : \E D \in SUBSET plan : MadeAre(D, plan, J, disk, lost)
  BY DEF Restorable
<1>2. PICK D \in SUBSET plan : MadeAre(D, plan, J, disk, lost)
  BY <1>1
<1>3. MadeAre(D, plan, J, disk, more)
  BY <1>2 DEF MadeAre
<1> QED
  BY <1>3 DEF Restorable

\* A move that is tried can be undone, whether it was made or not.
LEMMA MoveRestorable ==
  ASSUME NEW J, NEW disk, NEW lost, Restorable(J, disk, lost), J.todo # <<>>, NEW a
  PROVE  /\ Restorable(JobWith(J, a, Tail(J.todo), Append(J.done, Head(J.todo))),
                       Moved(disk, Head(J.todo).from, Head(J.todo).to), lost)
         /\ Restorable(JobWith(J, a, J.todo, Append(J.done, Head(J.todo))), disk, lost)
         /\ Spares(disk, Moved(disk, Head(J.todo).from, Head(J.todo).to), J.names)
<1> DEFINE start == J.before[3]
           m == Head(J.todo)
           done == Append(J.done, m)
           next == Moved(disk, m.from, m.to)
<1>1. PICK plan : \E D \in SUBSET plan : MadeAre(D, plan, J, disk, lost)
  BY DEF Restorable
<1>2. PICK D \in SUBSET plan : MadeAre(D, plan, J, disk, lost)
  BY <1>1
<1> DEFINE gone == {k \in plan : k.to.name \in lost}
<1>3. /\ J.todo \in Seq(plan) /\ J.done \in Seq(plan) /\ PlanFits(plan, start, J.names)
      /\ D \subseteq ToSet(J.done) \cup gone /\ disk = Made(start, D)
  BY <1>2 DEF MadeAre
<1> HIDE DEF start, gone
<1>4. m \in plan /\ Tail(J.todo) \in Seq(plan)
  BY <1>3, HeadTailSet
<1> HIDE DEF m
<1>5. done \in Seq(plan) /\ ToSet(done) = ToSet(J.done) \cup {m}
  BY <1>3, <1>4, AppendSet
<1> HIDE DEF done
<1>6. next = Made(start, D \cup {m})
  <2>1. D \in SUBSET plan /\ m \in plan /\ PlanFits(plan, start, J.names)
    BY <1>3, <1>4
  <2>2. Moved(Made(start, D), m.from, m.to) = Made(start, D \cup {m})
    BY <2>1, MadeMore
  <2> QED
    BY <1>3, <2>2
<1>7. /\ D \cup {m} \in SUBSET plan /\ D \cup {m} \subseteq ToSet(done) \cup gone
      /\ D \subseteq ToSet(done) \cup gone
  BY <1>3, <1>4, <1>5
<1> HIDE DEF next
<1>8. ASSUME NEW K, K.todo \in Seq(plan), K.done = done, K.before = J.before, K.names = J.names
      PROVE  Restorable(K, next, lost) /\ Restorable(K, disk, lost)
  <2>1. K.before[3] = start
    BY <1>8 DEF start
  <2>2. MadeAre(D \cup {m}, plan, K, next, lost) /\ MadeAre(D, plan, K, disk, lost)
    BY <1>3, <1>5, <1>6, <1>7, <1>8, <2>1 DEF MadeAre, gone
  <2>3. \E E \in SUBSET plan : MadeAre(E, plan, K, next, lost)
    BY <1>7, <2>2
  <2> QED
    BY <2>2, <2>3 DEF Restorable
<1>9. Restorable(JobWith(J, a, Tail(J.todo), done), next, lost)
  <2>1. PICK K : K = JobWith(J, a, Tail(J.todo), done)
    OBVIOUS
  <2>2. K.todo = Tail(J.todo) /\ K.done = done /\ K.before = J.before /\ K.names = J.names
    BY <2>1 DEF JobWith
  <2> QED
    BY <1>4, <1>8, <2>1, <2>2
<1>10. Restorable(JobWith(J, a, J.todo, done), disk, lost)
  <2>1. PICK K : K = JobWith(J, a, J.todo, done)
    OBVIOUS
  <2>2. K.todo = J.todo /\ K.done = done /\ K.before = J.before /\ K.names = J.names
    BY <2>1 DEF JobWith
  <2> QED
    BY <1>3, <1>8, <2>1, <2>2
<1>11. Spares(disk, next, J.names)
  BY <1>3, <1>6, <1>7, MadeSpares DEF Spares
<1> QED
  BY <1>9, <1>10, <1>11 DEF next, done, m

\* Undoing one leaves the rest to undo; one that cannot be undone is lost.
LEMMA UndoRestorable ==
  ASSUME NEW J, NEW disk, NEW lost, Restorable(J, disk, lost), J.done # <<>>, NEW a
  PROVE  /\ Restorable(JobWith(J, a, J.todo, Front(J.done)),
                       Moved(disk, Last(J.done).to, Last(J.done).from), lost)
         /\ Restorable(JobWith(J, a, J.todo, Front(J.done)), disk, lost \cup {Last(J.done).to.name})
         /\ Spares(disk, Moved(disk, Last(J.done).to, Last(J.done).from), J.names)
         /\ Last(J.done).to.name \in J.names
<1> DEFINE start == J.before[3]
           m == Last(J.done)
           done == Front(J.done)
           next == Moved(disk, m.to, m.from)
           more == lost \cup {m.to.name}
<1>1. PICK plan : \E D \in SUBSET plan : MadeAre(D, plan, J, disk, lost)
  BY DEF Restorable
<1>2. PICK D \in SUBSET plan : MadeAre(D, plan, J, disk, lost)
  BY <1>1
<1>3. /\ J.todo \in Seq(plan) /\ J.done \in Seq(plan) /\ PlanFits(plan, start, J.names)
      /\ D \subseteq ToSet(J.done) \cup {k \in plan : k.to.name \in lost} /\ disk = Made(start, D)
  BY <1>2 DEF MadeAre
<1> HIDE DEF start, m, done
<1>4. m \in plan /\ done \in Seq(plan) /\ ToSet(J.done) = ToSet(done) \cup {m}
  BY <1>3, FrontLastSet DEF m, done
<1>5. PICK gone : gone = {k \in plan : k.to.name \in lost}
  OBVIOUS
<1>6. PICK now : now = {k \in plan : k.to.name \in more}
  OBVIOUS
<1>7. gone \subseteq now /\ m \in now
  BY <1>4, <1>5, <1>6
<1>8. D \subseteq ToSet(done) \cup now
  BY <1>3, <1>4, <1>5, <1>7
<1>9. \/ next = Made(start, D) /\ D \subseteq ToSet(done) \cup gone
      \/ next = Made(start, D \ {m})
  <2>1. D \in SUBSET plan /\ m \in plan /\ PlanFits(plan, start, J.names)
    BY <1>3, <1>4
  <2>2. Moved(Made(start, D), m.to, m.from) = Made(start, D \ {m})
    BY <2>1, MadeLess
  <2> QED
    BY <1>3, <2>2
<1>10. D \ {m} \in SUBSET plan /\ D \ {m} \subseteq ToSet(done) \cup gone
  BY <1>3, <1>4, <1>5
<1>11. PICK E \in SUBSET plan : next = Made(start, E) /\ E \subseteq ToSet(done) \cup gone
  BY <1>9, <1>10
<1>12. PICK K : K = JobWith(J, a, J.todo, done)
  OBVIOUS
<1>13. K.todo = J.todo /\ K.done = done /\ K.before[3] = start /\ K.names = J.names
  BY <1>12 DEF JobWith, start
<1> HIDE DEF next, more
<1>14. MadeAre(E, plan, K, next, lost)
  BY <1>3, <1>4, <1>5, <1>11, <1>13 DEF MadeAre
<1>15. MadeAre(D, plan, K, disk, more)
  BY <1>3, <1>4, <1>6, <1>8, <1>13 DEF MadeAre
<1>16. Restorable(K, next, lost) /\ Restorable(K, disk, more)
  BY <1>14, <1>15 DEF Restorable
<1>17. Spares(disk, next, J.names)
  BY <1>3, <1>11, MadeSpares DEF Spares
<1>18. m.to.name \in J.names
  BY <1>3, <1>4 DEF PlanFits
<1> QED
  BY <1>12, <1>16, <1>17, <1>18 DEF next, done, m, more

\* Without a move nothing changes, the other names' files are those of the start, and
\* with all undone so are those of all names but the ones lost.
LEMMA StillRestorable ==
  ASSUME NEW J, NEW disk, NEW lost, Restorable(J, disk, lost), NEW a
  PROVE  /\ Restorable(JobWith(J, a, J.todo, J.done), disk, lost)
         /\ Spares(J.before[3], disk, J.names)
         /\ J.done = <<>> => Spares(J.before[3], disk, lost)
<1>1. PICK plan : \E D \in SUBSET plan : MadeAre(D, plan, J, disk, lost)
  BY DEF Restorable
<1>2. PICK D \in SUBSET plan : MadeAre(D, plan, J, disk, lost)
  BY <1>1
<1>3. PICK K : K = JobWith(J, a, J.todo, J.done)
  OBVIOUS
<1>4. K.todo = J.todo /\ K.done = J.done /\ K.before = J.before /\ K.names = J.names
  BY <1>3 DEF JobWith
<1>5. MadeAre(D, plan, K, disk, lost)
  BY <1>2, <1>4 DEF MadeAre
<1>6. Restorable(K, disk, lost)
  BY <1>5 DEF Restorable
<1>7. PICK start : start = J.before[3]
  OBVIOUS
<1>8. PlanFits(plan, start, J.names) /\ disk = Made(start, D)
  BY <1>2, <1>7 DEF MadeAre
<1>9. Spares(start, disk, J.names)
  BY <1>8, MadeSpares DEF Spares
<1>10. ASSUME J.done = <<>> PROVE Spares(start, disk, lost)
  <2>1. ToSet(J.done) = {}
    BY <1>10 DEF ToSet
  <2>2. \A m \in D : m.to.name \in lost /\ m.from.name \in lost
    BY <1>2, <1>8, <2>1 DEF MadeAre, PlanFits
  <2>3. disk = (start \ {m.from : m \in D}) \cup {m.to : m \in D}
    BY <1>8 DEF Made
  <2> QED
    BY <2>2, <2>3 DEF Spares
<1> QED
  BY <1>3, <1>6, <1>7, <1>9, <1>10

\* The registry is what a job writes.
Written(J, reg) == reg # {} /\ The(reg).caps = J.caps

\* Where a job stands: what it will write says of the others what was there, and
\* what it started from can be had back until the old block is gone.
WellPlaced(J, reg, old, disk, lost) ==
  /\ J.before = <<J.original, J.before[2], J.before[3]>> /\ Restorable(J, disk, lost)
  /\ PlainCaps(J.caps) /\ Single(J.original)
  /\ J.at # "dropped" =>
       /\ old = J.before[2]
       /\ AgreeOn(J.caps, BlockCaps(J.original, old), J.names \cup J.replaces, disk)
  /\ J.at \in {"move", "write"} => reg = J.original
  /\ J.at \in {"drop", "dropped", "end"} => Written(J, reg)
  /\ J.at = "undo" => reg = J.original \/ Written(J, reg)

ScopeInv ==
  /\ Single(registry) /\ Single(legacy)
  /\ \A w \in Writers : Idle(w) \/ WellPlaced(Job(w), registry, legacy, files, astray)

\* The capabilities found are a sequence of them, and each once where configs have them so.
LEMMA BlockCapsAre ==
  ASSUME NEW reg, NEW old, IsConfig(reg), IsConfig(old)
  PROVE  /\ BlockCaps(reg, old) \in Seq(Caps)
         /\ Single(reg) /\ Single(old) => OneEach(BlockCaps(reg, old))
<1>1. CASE reg # {}
  BY <1>1, ConfigIsOne DEF BlockCaps, Single
<1>2. CASE reg = {} /\ old # {}
  BY <1>2, ConfigIsOne DEF BlockCaps, Single
<1>3. CASE reg = {} /\ old = {}
  <2>1. BlockCaps(reg, old) = <<>> /\ <<>> \in Seq(Caps)
    BY <1>3 DEF BlockCaps
  <2>2. OneEach(<<>>)
    BY DEF OneEach, ToSet
  <2> QED
    BY <2>1, <2>2
<1> QED
  BY <1>1, <1>2, <1>3

\* A job that goes on is where it should be, if its moves can be undone and it
\* moved none of the others' files.
LEMMA PlacedOn ==
  ASSUME NEW J, IsJob(J), NEW reg, NEW old, NEW disk, NEW lost, WellPlaced(J, reg, old, disk, lost), IsConfig(old),
         J.at # "dropped",
         NEW a \in {"move", "write", "drop", "end", "undo"}, NEW t, NEW d, NEW next, NEW after, NEW more,
         Restorable(JobWith(J, a, t, d), after, more), Spares(disk, after, J.names),
         a \in {"move", "write"} => next = J.original, a \in {"drop", "end"} => Written(J, next),
         a = "undo" => next = J.original \/ Written(J, next)
  PROVE  WellPlaced(JobWith(J, a, t, d), next, old, after, more)
<1> DEFINE K == JobWith(J, a, t, d)
           names == J.names \cup J.replaces
           block == BlockCaps(J.original, old)
<1>1. /\ K.at = a /\ K.kind = J.kind /\ K.names = J.names /\ K.replaces = J.replaces
      /\ K.caps = J.caps /\ K.original = J.original /\ K.before = J.before
  BY DEF JobWith
<1>2. Restorable(K, after, more)
  OBVIOUS
<1> HIDE DEF K
<1>3. J.caps \in Seq(Caps) /\ IsConfig(J.original)
  BY DEF IsJob
<1>4. block \in Seq(Caps) /\ AgreeOn(J.caps, block, names, disk)
  BY <1>3, BlockCapsAre DEF WellPlaced
<1>5. \A f : f.name \notin names => (f \in disk <=> f \in after)
  BY DEF Spares
<1> HIDE DEF names, block
<1>6. AgreeOn(J.caps, block, names, after)
  BY <1>3, <1>4, <1>5, AgreeStill
<1>7. K.before = <<K.original, K.before[2], K.before[3]>> /\ PlainCaps(K.caps) /\ Single(K.original)
      /\ old = K.before[2]
  BY <1>1 DEF WellPlaced
<1>8. AgreeOn(K.caps, BlockCaps(K.original, old), K.names \cup K.replaces, after)
  BY <1>1, <1>6 DEF names, block
<1>9. Written(K, next) <=> Written(J, next)
  BY <1>1 DEF Written
<1>10. WellPlaced(K, next, old, after, more)
  BY <1>1, <1>2, <1>7, <1>8, <1>9 DEF WellPlaced
<1> QED
  BY <1>10 DEF K

\* A program that has dropped the old block has nothing to give back.
LEMMA PlacedDropped ==
  ASSUME NEW J, NEW reg, NEW old, NEW disk, NEW lost, WellPlaced(J, reg, old, disk, lost), J.at = "drop"
  PROVE  WellPlaced(JobWith(J, "dropped", J.todo, J.done), reg, {}, disk, lost)
<1> DEFINE K == JobWith(J, "dropped", J.todo, J.done)
<1>1. /\ K.at = "dropped" /\ K.caps = J.caps /\ K.original = J.original /\ K.before = J.before
  BY DEF JobWith
<1>2. Restorable(K, disk, lost)
  BY StillRestorable DEF WellPlaced
<1> HIDE DEF K
<1>3. Written(K, reg)
  BY <1>1 DEF WellPlaced, Written
<1>4. WellPlaced(K, reg, {}, disk, lost)
  BY <1>1, <1>2, <1>3 DEF WellPlaced
<1> QED
  BY <1>4 DEF K

\* A registration starts where it should.
LEMMA RegisterPlaced ==
  ASSUME TypesInv, Single(registry), Single(legacy), NEW J, IsJob(J), NEW n, NEW replaces,
         RegisterJob(J, n, replaces)
  PROVE  WellPlaced(J, registry, legacy, files, astray)
<1> DEFINE caps == BlockCaps(registry, legacy)
           old == Normalized(LivingOf(caps, files))
           kept == Without(old, replaces)
           m == Len(caps)
<1>1. /\ J.at = "write" /\ J.names = {n} /\ J.replaces = replaces /\ J.original = registry
      /\ J.before = <<registry, legacy, files>> /\ J.todo = <<>> /\ J.done = <<>>
  BY DEF RegisterJob, Project
<1>2. n \notin NamesOf(kept) /\ \E new \in Caps : /\ new.name = n /\ new.spec \notin {Empty, OldCentral(n)}
                                                  /\ J.caps = Append(kept, new)
  BY LivingReads DEF RegisterJob
<1>3. caps \in Seq(Caps) /\ OneEach(caps)
  BY BlockCapsAre DEF TypesInv
<1> HIDE DEF caps
<1>4. /\ old \in Seq(Caps) /\ Len(old) = m /\ PlainCaps(old)
      /\ \A i \in 1 .. m : /\ old[i].name = caps[i].name /\ old[i].match = caps[i].match
                           /\ ~SpellsOut(caps[i]) => SettledIn(files, old[i]) = SettledIn(files, caps[i])
  BY <1>3, RewriteReads
<1> HIDE DEF old
<1>5. kept \in Seq(Caps) /\ ToSet(kept) = {e \in ToSet(old) : e.name \notin replaces}
  BY <1>4, WithoutDoes
<1> HIDE DEF kept
<1>6. PICK new \in Caps : new.name = n /\ new.spec \notin {Empty, OldCentral(n)} /\ J.caps = Append(kept, new)
  BY <1>2
<1>7. J.caps \in Seq(Caps) /\ ToSet(J.caps) = ToSet(kept) \cup {new}
  BY <1>5, <1>6, AppendSet
<1>8. \A e \in ToSet(kept) : e.name # n
  BY <1>2 DEF NamesOf
<1>9. PlainCaps(J.caps)
  BY <1>4, <1>5, <1>6, <1>7, <1>8 DEF PlainCaps, OneEach, SpellsOut
<1>10. ToSet(caps) = {caps[i] : i \in 1 .. m} /\ ToSet(old) = {old[i] : i \in 1 .. m}
  BY <1>3, <1>4, SeqFields
<1>11. AgreeOn(J.caps, caps, {n} \cup replaces, files)
  <2>1. ASSUME NEW e \in ToSet(caps), e.name \notin {n} \cup replaces, ~SpellsOut(e)
        PROVE  \E f \in ToSet(J.caps) : /\ f.name = e.name /\ f.match = e.match
                                        /\ SettledIn(files, f) = SettledIn(files, e)
    <3>1. PICK i \in 1 .. m : e = caps[i]
      BY <1>10
    <3>2. /\ old[i] \in ToSet(old) /\ old[i].name = e.name /\ old[i].match = e.match
          /\ SettledIn(files, old[i]) = SettledIn(files, e)
      BY <1>4, <1>10, <2>1, <3>1
    <3>3. old[i] \in ToSet(J.caps)
      BY <1>5, <1>7, <2>1, <3>2
    <3> QED
      BY <3>2, <3>3
  <2>2. OneEach(J.caps)
    BY <1>9 DEF PlainCaps
  <2> QED
    BY <1>3, <1>7, <2>1, <2>2, AgreeFrom
<1>12. Restorable(J, files, astray)
  <2>1. PlanFits({}, files, J.names) /\ files = Made(files, {})
    BY DEF PlanFits, Made
  <2>2. J.todo \in Seq({}) /\ J.done \in Seq({}) /\ J.before[3] = files
    BY <1>1
  <2>3. MadeAre({}, {}, J, files, astray) /\ {} \in SUBSET {}
    BY <2>1, <2>2 DEF MadeAre
  <2> QED
    BY <2>3 DEF Restorable
<1>13. J.before = <<registry, J.before[2], J.before[3]>> /\ J.before[2] = legacy
  BY <1>1
<1> QED
  BY <1>1, <1>9, <1>11, <1>12, <1>13 DEF WellPlaced, caps

\* A relocation starts where it should.
LEMMA RelocatePlaced ==
  ASSUME TypesInv, Single(registry), Single(legacy), NEW J, IsJob(J), NEW targets, NEW to, NEW override,
         \A n \in targets : override \in {None, Chosen(n)}, RelocateJob(J, targets, to, override)
  PROVE  WellPlaced(J, registry, legacy, files, astray)
<1> DEFINE caps == BlockCaps(registry, legacy)
           living == LivingOf(caps, files)
           old == Normalized(living)
           m == Len(caps)
<1>1. /\ J.at = "move" /\ J.replaces = {} /\ J.names \subseteq targets /\ J.original = registry
      /\ J.before = <<registry, legacy, files>> /\ J.done = <<>>
      /\ J.names = NamesOf(MovingOf(targets, to, override))
      /\ J.todo = FlattenSeq([i \in DOMAIN MovingOf(targets, to, override) |->
                    MovesOf(MovingOf(targets, to, override)[i],
                            Target(MovingOf(targets, to, override)[i], to, override))])
  BY DEF RelocateJob, Project
<1>2. Living = living
  BY LivingReads
<1>3. caps \in Seq(Caps) /\ OneEach(caps)
  BY BlockCapsAre DEF TypesInv
<1>4. /\ living \in Seq(Caps) /\ Len(living) = m /\ OneEach(living)
      /\ old \in Seq(Caps) /\ Len(old) = m /\ PlainCaps(old)
      /\ \A i \in 1 .. m : /\ living[i].name = caps[i].name
                           /\ old[i].name = caps[i].name /\ old[i].match = caps[i].match
                           /\ ~SpellsOut(caps[i]) => SettledIn(files, old[i]) = SettledIn(files, caps[i])
  <2> HIDE DEF caps
  <2> QED
    BY <1>3, RewriteReads
<1>5. /\ Len(J.caps) = m
      /\ \A i \in 1 .. m :
           /\ J.caps[i].name = living[i].name /\ J.caps[i].match = living[i].match
           /\ living[i].name \notin J.names => J.caps[i].spec = old[i].spec
           /\ living[i].name \in J.names => J.caps[i].spec = Target(living[i], to, override)
      /\ \A i, j \in 1 .. m : living[i] = living[j] => J.caps[i] = J.caps[j]
  <2>1. PICK all, was, size : all = living /\ was = old /\ size = m
    OBVIOUS
  <2>2. Living = all /\ Normalized(Living) = was /\ Len(all) = size
    BY <1>2, <1>4, <2>1
  <2> HIDE DEF living, old, m
  <2>3. Len(J.caps) = size
    BY <2>2 DEF RelocateJob
  <2>4. \A i \in 1 .. size :
          /\ J.caps[i].name = all[i].name /\ J.caps[i].match = all[i].match
          /\ all[i].name \notin J.names => J.caps[i].spec = was[i].spec
          /\ all[i].name \in J.names => J.caps[i].spec = Target(all[i], to, override)
    BY <2>2 DEF RelocateJob
  <2>5. \A i, j \in 1 .. size : all[i] = all[j] => J.caps[i] = J.caps[j]
    BY <2>2 DEF RelocateJob
  <2> QED
    BY <2>1, <2>3, <2>4, <2>5
<1>6. \A i \in 1 .. m : living[i].match = caps[i].match
  <2>1. m \in Nat /\ DOMAIN caps = 1 .. m /\ \A i \in 1 .. m : caps[i] \in Caps
    BY <1>3, SeqFields
  <2>2. \A i \in 1 .. m : living[i] = [caps[i] EXCEPT !.spec = SettledIn(files, caps[i])]
    BY <2>1 DEF LivingOf
  <2>3. \A e \in Caps : [e EXCEPT !.spec = SettledIn(files, e)].match = e.match
    BY DEF Caps
  <2> HIDE DEF living
  <2> QED
    BY <2>1, <2>2, <2>3
<1> HIDE DEF caps, living, old, m
<1>7. J.caps \in Seq(Caps) /\ ToSet(J.caps) = {J.caps[i] : i \in 1 .. m}
  <2>1. J.caps \in Seq(Caps)
    BY DEF IsJob
  <2> QED
    BY <1>5, <2>1, SeqFields
<1>8. /\ ToSet(caps) = {caps[i] : i \in 1 .. m} /\ ToSet(living) = {living[i] : i \in 1 .. m}
      /\ ToSet(old) = {old[i] : i \in 1 .. m}
  BY <1>3, <1>4, SeqFields DEF m
<1>9. OneEach(J.caps)
  <2>1. \A i, j \in 1 .. m : living[i].name = living[j].name => living[i] = living[j]
    BY <1>4, <1>8 DEF OneEach
  <2>2. \A i, j \in 1 .. m : J.caps[i].name = J.caps[j].name => J.caps[i] = J.caps[j]
    BY <1>5, <2>1
  <2> QED
    BY <1>7, <2>2 DEF OneEach
<1>10. ASSUME NEW i \in 1 .. m PROVE ~SpellsOut(J.caps[i])
  <2>1. CASE living[i].name \notin J.names
    <3>1. ~SpellsOut(old[i])
      BY <1>4, <1>8 DEF PlainCaps
    <3>2. J.caps[i].spec = old[i].spec /\ J.caps[i].name = old[i].name
      BY <1>4, <1>5, <2>1
    <3> QED
      BY <3>1, <3>2 DEF SpellsOut
  <2>2. CASE living[i].name \in J.names
    <3>1. override \in {None, Chosen(living[i].name)}
      BY <1>1, <2>2
    <3>2. /\ Target(living[i], to, override) \in Paths(living[i].name)
          /\ Target(living[i], to, override) # OldCentral(living[i].name)
      BY <3>1, TargetIs
    <3>3. Target(living[i], to, override) # Empty
      BY <3>2, PathsNamed
    <3> QED
      BY <1>5, <2>2, <3>2, <3>3 DEF SpellsOut
  <2> QED
    BY <2>1, <2>2
<1>11. PlainCaps(J.caps)
  BY <1>7, <1>9, <1>10 DEF PlainCaps
<1>12. AgreeOn(J.caps, caps, J.names \cup J.replaces, files)
  <2>1. ASSUME NEW e \in ToSet(caps), e.name \notin J.names \cup J.replaces, ~SpellsOut(e)
        PROVE  \E f \in ToSet(J.caps) : /\ f.name = e.name /\ f.match = e.match
                                        /\ SettledIn(files, f) = SettledIn(files, e)
    <3>1. PICK i \in 1 .. m : e = caps[i]
      BY <1>8
    <3>2. J.caps[i].name = e.name /\ J.caps[i].match = e.match /\ J.caps[i].spec = old[i].spec
      BY <1>4, <1>5, <1>6, <2>1, <3>1
    <3>3. SettledIn(files, J.caps[i]) = SettledIn(files, old[i])
      BY <1>4, <3>1, <3>2 DEF SettledIn
    <3>4. SettledIn(files, J.caps[i]) = SettledIn(files, e)
      BY <1>4, <2>1, <3>1, <3>3
    <3>5. J.caps[i] \in ToSet(J.caps)
      BY <1>7
    <3> QED
      BY <3>2, <3>4, <3>5
  <2> QED
    BY <1>3, <1>7, <1>9, <2>1, AgreeFrom
<1>13. Restorable(J, files, astray)
  <2> DEFINE plan == PlanOf(targets, to, override)
  <2>1. PlanFits(plan, files, J.names) /\ J.todo \in Seq(plan)
    BY <1>1, <1>2, <1>4, PlanIsFit
  <2> HIDE DEF plan
  <2>2. J.done \in Seq(plan) /\ J.before[3] = files /\ files = Made(files, {})
    BY <1>1 DEF Made
  <2>3. MadeAre({}, plan, J, files, astray) /\ {} \in SUBSET plan
    BY <2>1, <2>2 DEF MadeAre
  <2> QED
    BY <2>3 DEF Restorable
<1>14. J.before = <<registry, J.before[2], J.before[3]>> /\ J.before[2] = legacy
  BY <1>1
<1> QED
  BY <1>1, <1>11, <1>12, <1>13, <1>14 DEF WellPlaced, caps

\* The configs a project starts from name each capability once.
SingleOrigins == \A o \in Origins : Single(o.registry) /\ Single(o.legacy)

\* At the start nobody is at work.
LEMMA ScopeInit ==
  ASSUME SingleOrigins
  PROVE  Init => ScopeInv
<1> SUFFICES ASSUME Init PROVE ScopeInv
  OBVIOUS
<1>1. Single(registry) /\ Single(legacy) /\ \A w \in Writers : Idle(w)
  BY DEF Init, SingleOrigins, Idle
<1> QED
  BY <1>1 DEF ScopeInv

\* The program at work goes on; alone, there is no other to be disturbed.
LEMMA ScopeAfter ==
  ASSUME TypesInv, Alone, NEW w \in Writers, NEW next, Go(w, next), NEW J, next \in {{}, {J}},
         next = {J} => IsJob(J) /\ WellPlaced(J, registry', legacy', files', astray'),
         Single(registry'), Single(legacy')
  PROVE  ScopeInv'
<1>1. /\ Idle(w)' <=> next = {}
      /\ next = {J} => Job(w)' = J
  BY JobsAfter
<1>2. ASSUME NEW v \in Writers, ~Idle(v)' PROVE WellPlaced(Job(v)', registry', legacy', files', astray')
  <2>1. v = w
    BY DEF Alone
  <2>2. next = {J} /\ Job(v)' = J
    BY <1>1, <1>2, <2>1
  <2> QED
    BY <2>2
<1>3. \A v \in Writers : Idle(v)' \/ WellPlaced(Job(v), registry, legacy, files, astray)'
  <2> TAKE v \in Writers
  <2>1. ASSUME ~Idle(v)' PROVE WellPlaced(Job(v), registry, legacy, files, astray)'
    <3>1. PICK K : K = Job(v)'
      OBVIOUS
    <3>2. WellPlaced(K, registry', legacy', files', astray')
      BY <1>2, <2>1, <3>1
    <3> QED
      BY <3>1, <3>2
  <2> QED
    BY <2>1
<1> QED
  BY <1>3 DEF ScopeInv

\* Every step keeps the program at work where it should be.
LEMMA ScopeNext ==
  ASSUME Alone, GuardHolds
  PROVE  TypesInv /\ KeptInv /\ ScopeInv /\ [Next]_vars => ScopeInv'
<1> SUFFICES ASSUME TypesInv, KeptInv, ScopeInv, [Next]_vars PROVE ScopeInv'
  OBVIOUS
<1>1. /\ IsConfig(registry) /\ IsConfig(legacy) /\ Single(registry) /\ Single(legacy)
      /\ \A w \in Writers : ~Idle(w) => IsJob(Job(w)) /\ WellPlaced(Job(w), registry, legacy, files, astray)
  BY DEF TypesInv, ScopeInv
<1>2. ASSUME NEW w \in Writers, Move(w) PROVE ScopeInv'
  <2>1. PICK J : J = Job(w)
    OBVIOUS
  <2>2. /\ J.at = "move" /\ UNCHANGED <<registry, legacy, astray>>
        /\ \/ J.todo = <<>> /\ UNCHANGED files /\ Go(w, {JobWith(J, "write", J.todo, J.done)})
           \/ /\ J.todo # <<>> /\ files' = Moved(files, Head(J.todo).from, Head(J.todo).to)
              /\ Go(w, {JobWith(J, "move", Tail(J.todo), Append(J.done, Head(J.todo)))})
    BY <1>2, <2>1, RunDoes
  <2>3. IsJob(J) /\ WellPlaced(J, registry, legacy, files, astray)
    BY <1>1, <1>2, <2>1, HasJob
  <2>4. registry = J.original /\ Restorable(J, files, astray)
    BY <2>2, <2>3 DEF WellPlaced
  <2>5. CASE J.todo = <<>>
    <3>1. UNCHANGED files /\ Go(w, {JobWith(J, "write", J.todo, J.done)})
      BY <2>2, <2>5
    <3>2. Restorable(JobWith(J, "write", J.todo, J.done), files, astray) /\ Spares(files, files, J.names)
      BY <2>4, StillRestorable DEF Spares
    <3>3. WellPlaced(JobWith(J, "write", J.todo, J.done), registry, legacy, files, astray)
      BY <1>1, <2>2, <2>3, <2>4, <3>2, PlacedOn
    <3>4. IsJob(JobWith(J, "write", J.todo, J.done))
      BY <2>3, JobGoesOn
    <3> QED
      BY <1>1, <2>2, <3>1, <3>3, <3>4, ScopeAfter
  <2>6. CASE J.todo # <<>>
    <3> DEFINE t == Tail(J.todo)
               d == Append(J.done, Head(J.todo))
    <3>1. files' = Moved(files, Head(J.todo).from, Head(J.todo).to) /\ Go(w, {JobWith(J, "move", t, d)})
      BY <2>2, <2>6
    <3>2. Restorable(JobWith(J, "move", t, d), files', astray) /\ Spares(files, files', J.names)
      BY <2>4, <2>6, <3>1, MoveRestorable
    <3> HIDE DEF t, d
    <3>3. WellPlaced(JobWith(J, "move", t, d), registry, legacy, files', astray)
      BY <1>1, <2>2, <2>3, <2>4, <3>2, PlacedOn
    <3>4. IsJob(JobWith(J, "move", t, d))
      BY <2>3, JobGoesOn
    <3> QED
      BY <1>1, <2>2, <3>1, <3>3, <3>4, ScopeAfter
  <2> QED
    BY <2>5, <2>6
<1>3. ASSUME NEW w \in Writers, FailMove(w) PROVE ScopeInv'
  <2>1. PICK J : J = Job(w)
    OBVIOUS
  <2> DEFINE d == Append(J.done, Head(J.todo))
  <2>2. J.at = "move" /\ J.todo # <<>> /\ Go(w, {JobWith(J, "undo", J.todo, d)})
    BY <1>3, <2>1, RunDoes
  <2>3. UNCHANGED <<registry, legacy, files, astray>>
    BY <1>3 DEF FailMove
  <2>4. IsJob(J) /\ WellPlaced(J, registry, legacy, files, astray)
    BY <1>1, <1>3, <2>1, HasJob
  <2>5. registry = J.original /\ Restorable(J, files, astray)
    BY <2>2, <2>4 DEF WellPlaced
  <2>6. Restorable(JobWith(J, "undo", J.todo, d), files, astray) /\ Spares(files, files, J.names)
    BY <2>2, <2>5, MoveRestorable DEF Spares
  <2> HIDE DEF d
  <2>7. WellPlaced(JobWith(J, "undo", J.todo, d), registry, legacy, files, astray)
    BY <1>1, <2>2, <2>4, <2>5, <2>6, PlacedOn
  <2>8. IsJob(JobWith(J, "undo", J.todo, d))
    BY <2>4, JobGoesOn
  <2> QED
    BY <1>1, <2>2, <2>3, <2>7, <2>8, ScopeAfter
<1>4. ASSUME NEW w \in Writers, Fail(w) PROVE ScopeInv'
  <2>1. PICK J : J = Job(w)
    OBVIOUS
  <2>2. UNCHANGED <<registry, legacy, files, astray>>
    BY <1>4 DEF Fail
  <2>3. IsJob(J) /\ WellPlaced(J, registry, legacy, files, astray)
    BY <1>1, <1>4, <2>1, HasJob
  <2>4. J.at \in {"write", "drop", "end"}
    BY <1>4, <2>1 DEF Fail, Working, Job, GuardHolds
  <2>5. registry = J.original \/ Written(J, registry)
    BY <2>3, <2>4 DEF WellPlaced
  <2>6. Restorable(JobWith(J, "undo", J.todo, J.done), files, astray) /\ Spares(files, files, J.names)
    BY <2>3, StillRestorable DEF Spares, WellPlaced
  <2>7. WellPlaced(JobWith(J, "undo", J.todo, J.done), registry, legacy, files, astray)
    BY <1>1, <2>3, <2>4, <2>5, <2>6, PlacedOn
  <2>8. IsJob(JobWith(J, "undo", J.todo, J.done))
    BY <2>3, JobGoesOn
  <2>9. Go(w, {}) \/ Go(w, {JobWith(J, "undo", J.todo, J.done)})
    BY <1>4, <2>1, RunDoes
  <2> QED
    BY <1>1, <2>2, <2>7, <2>8, <2>9, ScopeAfter
<1>5. ASSUME NEW w \in Writers, Undo(w) PROVE ScopeInv'
  <2>1. PICK J : J = Job(w)
    OBVIOUS
  <2> DEFINE d == Front(J.done)
  <2>2. J.at = "undo" /\ J.done # <<>> /\ UNCHANGED <<registry, legacy, astray>>
    BY <1>5, <2>1 DEF Undo, Working, Job
  <2>3. files' = Moved(files, Last(J.done).to, Last(J.done).from) /\ Go(w, {JobWith(J, "undo", J.todo, d)})
    <3>1. files' = Moved(files, Last(J.done).to, Last(J.done).from)
      BY <1>5, <2>1 DEF Undo
    <3>2. Go(w, {JobWith(J, "undo", J.todo, d)})
      BY <1>5, <2>1, RunDoes
    <3> QED
      BY <3>1, <3>2
  <2>4. IsJob(J) /\ WellPlaced(J, registry, legacy, files, astray)
    BY <1>1, <1>5, <2>1, HasJob
  <2>5. registry = J.original \/ Written(J, registry)
    BY <2>2, <2>4 DEF WellPlaced
  <2>6. Restorable(JobWith(J, "undo", J.todo, d), files', astray) /\ Spares(files, files', J.names)
    BY <2>2, <2>3, <2>4, UndoRestorable DEF WellPlaced
  <2> HIDE DEF d
  <2>7. WellPlaced(JobWith(J, "undo", J.todo, d), registry, legacy, files', astray)
    BY <1>1, <2>2, <2>4, <2>5, <2>6, PlacedOn
  <2>8. IsJob(JobWith(J, "undo", J.todo, d))
    BY <2>4, JobGoesOn
  <2> QED
    BY <1>1, <2>2, <2>3, <2>7, <2>8, ScopeAfter
<1>15. ASSUME NEW w \in Writers, FailUndo(w) PROVE ScopeInv'
  <2>1. PICK J : J = Job(w)
    OBVIOUS
  <2> DEFINE d == Front(J.done)
  <2>2. J.at = "undo" /\ J.done # <<>> /\ Go(w, {JobWith(J, "undo", J.todo, d)})
    BY <1>15, <2>1, RunDoes
  <2>3. UNCHANGED <<registry, legacy, files>> /\ astray' = astray \cup {Last(J.done).to.name}
    BY <1>15, <2>1 DEF FailUndo
  <2>4. IsJob(J) /\ WellPlaced(J, registry, legacy, files, astray)
    BY <1>1, <1>15, <2>1, HasJob
  <2>5. registry = J.original \/ Written(J, registry)
    BY <2>2, <2>4 DEF WellPlaced
  <2>6. Restorable(JobWith(J, "undo", J.todo, d), files, astray') /\ Spares(files, files, J.names)
    BY <2>2, <2>3, <2>4, UndoRestorable DEF WellPlaced, Spares
  <2> HIDE DEF d
  <2>7. WellPlaced(JobWith(J, "undo", J.todo, d), registry, legacy, files, astray')
    BY <1>1, <2>2, <2>4, <2>5, <2>6, PlacedOn
  <2>8. IsJob(JobWith(J, "undo", J.todo, d))
    BY <2>4, JobGoesOn
  <2> QED
    BY <1>1, <2>2, <2>3, <2>7, <2>8, ScopeAfter
<1>6. ASSUME NEW w \in Writers, WriteRegistry(w) PROVE ScopeInv'
  <2>1. PICK J : J = Job(w)
    OBVIOUS
  <2>2. J.at = "write" /\ registry' = {[enabled |-> J.enabled, caps |-> J.caps]}
        /\ UNCHANGED <<legacy, files, astray>>
    BY <1>6, <2>1 DEF WriteRegistry, Working, Job
  <2>3. IsJob(J) /\ WellPlaced(J, registry, legacy, files, astray)
    BY <1>1, <1>6, <2>1, HasJob
  <2>4. Written(J, registry')
    <3>1. PICK d : d = [enabled |-> J.enabled, caps |-> J.caps]
      OBVIOUS
    <3>2. registry' = {d} /\ d.caps = J.caps
      BY <2>2, <3>1
    <3>3. The(registry') = d
      BY <3>2, TheOne
    <3>4. registry' # {} /\ The(registry').caps = J.caps
      BY <3>2, <3>3
    <3> QED
      BY <3>4 DEF Written
  <2>5. Single(registry')
    BY <2>2, <2>3 DEF Single, PlainCaps, WellPlaced
  <2>6. ASSUME NEW a \in {"drop", "end"}
        PROVE  /\ IsJob(JobWith(J, a, J.todo, J.done))
               /\ WellPlaced(JobWith(J, a, J.todo, J.done), registry', legacy, files, astray)
    <3>1. Restorable(JobWith(J, a, J.todo, J.done), files, astray) /\ Spares(files, files, J.names)
      BY <2>3, StillRestorable DEF Spares, WellPlaced
    <3>2. WellPlaced(JobWith(J, a, J.todo, J.done), registry', legacy, files, astray)
      BY <1>1, <2>2, <2>3, <2>4, <3>1, PlacedOn
    <3>3. IsJob(JobWith(J, a, J.todo, J.done))
      BY <2>3, JobGoesOn
    <3> QED
      BY <3>2, <3>3
  <2>7. \/ Go(w, {})
        \/ Go(w, {JobWith(J, "end", J.todo, J.done)})
        \/ Go(w, {JobWith(J, "drop", J.todo, J.done)})
    BY <1>6, <2>1, RunDoes
  <2> QED
    BY <1>1, <2>2, <2>5, <2>6, <2>7, ScopeAfter
<1>7. ASSUME NEW w \in Writers, DropLegacy(w) PROVE ScopeInv'
  <2>1. PICK J : J = Job(w)
    OBVIOUS
  <2>2. J.at = "drop" /\ legacy' = {} /\ UNCHANGED <<registry, files, astray>>
    BY <1>7, <2>1 DEF DropLegacy, Working, Job
  <2>3. IsJob(J) /\ WellPlaced(J, registry, legacy, files, astray)
    BY <1>1, <1>7, <2>1, HasJob
  <2>4. WellPlaced(JobWith(J, "dropped", J.todo, J.done), registry, {}, files, astray)
    BY <2>2, <2>3, PlacedDropped
  <2>5. IsJob(JobWith(J, "dropped", J.todo, J.done))
    BY <2>3, JobGoesOn
  <2>6. Single(legacy')
    BY <2>2 DEF Single
  <2>7. Go(w, {}) \/ Go(w, {JobWith(J, "dropped", J.todo, J.done)})
    BY <1>7, <2>1, RunDoes
  <2> QED
    BY <1>1, <2>2, <2>4, <2>5, <2>6, <2>7, ScopeAfter
<1>8. ASSUME NEW w \in Writers, Finish(w) \/ Kill(w) \/ LeftUndone(w) PROVE ScopeInv'
  <2>1. UNCHANGED <<registry, legacy, files>> /\ Go(w, {})
    BY <1>8 DEF Finish, Kill, LeftUndone, FailRestore, CutShort
  <2> QED
    BY <1>1, <2>1, ScopeAfter
<1>9. ASSUME NEW w \in Writers, Restore(w) PROVE ScopeInv'
  <2>1. registry' = Job(w).original /\ UNCHANGED legacy /\ Go(w, {}) /\ ~Idle(w)
    BY <1>9 DEF Restore, Working
  <2>2. Single(registry')
    BY <1>1, <2>1 DEF WellPlaced
  <2> QED
    BY <1>1, <2>1, <2>2, ScopeAfter
<1>10. ASSUME NEW w \in Writers, Register(w) PROVE ScopeInv'
  <2>1. PICK n, spec, replaces :
          /\ n \in Names /\ replaces \in SUBSET Names
          /\ spec \in {None} \cup Paths(n) /\ StartRegister(w, n, "globs", spec, replaces)
    BY <1>10, RegistrationsFit
  <2>2. UNCHANGED <<registry, legacy, files, astray>>
    BY <2>1 DEF StartRegister
  <2>3. PICK J : Go(w, {J}) /\ IsJob(J) /\ RegisterJob(J, n, replaces)
    BY <2>1, StartRegisterDoes
  <2>4. WellPlaced(J, registry, legacy, files, astray)
    BY <1>1, <2>3, RegisterPlaced
  <2> QED
    BY <1>1, <2>2, <2>3, <2>4, ScopeAfter
<1>11. ASSUME NEW w \in Writers, Relocate(w) \/ \E k \in killed : StartRelocate(w, {k[1]}, k[2], k[3])
       PROVE  ScopeInv'
  <2>1. PICK targets, to, override :
          /\ targets \in SUBSET Names /\ to \in {"central", "colocated"}
          /\ (\A n \in targets : override \in {None, Chosen(n)}) /\ StartRelocate(w, targets, to, override)
    BY <1>11, RelocationsFit
  <2>2. UNCHANGED <<registry, legacy, files, astray>>
    BY <2>1 DEF StartRelocate
  <2>3. targets \in SUBSET Names /\ to \in {"central", "colocated"}
    BY <2>1
  <2>4. \A n \in targets : override \in {None, Chosen(n)}
    BY <2>1
  <2>5. StartRelocate(w, targets, to, override)
    BY <2>1
  <2>6. \E J : Go(w, {J}) /\ IsJob(J) /\ RelocateJob(J, targets, to, override)
    BY <2>3, <2>4, <2>5, StartRelocateDoes, Zenon
  <2>7. PICK J : Go(w, {J}) /\ IsJob(J) /\ RelocateJob(J, targets, to, override)
    BY <2>6
  <2>8. WellPlaced(J, registry, legacy, files, astray)
    BY <1>1, <2>4, <2>7, RelocatePlaced
  <2> QED
    BY <1>1, <2>2, <2>7, <2>8, ScopeAfter
<1>12. ASSUME UNCHANGED <<registry, legacy, job>>,
              UNCHANGED <<files, astray>> \/ \A w \in Writers : Idle(w)
       PROVE  ScopeInv'
  <2>1. \A w \in Writers : Idle(w)' = Idle(w) /\ Job(w)' = Job(w)
    BY <1>12 DEF Idle, Job
  <2>2. Single(registry') /\ Single(legacy')
    BY <1>1, <1>12
  <2>3. ASSUME NEW w \in Writers, ~Idle(w)' PROVE WellPlaced(Job(w), registry, legacy, files, astray)'
    <3>1. PICK J : J = Job(w)
      OBVIOUS
    <3>2. WellPlaced(J, registry', legacy', files', astray') /\ Job(w)' = J
      BY <1>1, <1>12, <2>1, <2>3, <3>1
    <3> QED
      BY <3>2
  <2> QED
    BY <2>2, <2>3 DEF ScopeInv
<1>13. CASE Next
  BY <1>2, <1>3, <1>4, <1>5, <1>6, <1>7, <1>8, <1>9, <1>10, <1>11, <1>12, <1>13, <1>15
     DEF Next, Step, LeftUndone, Rerun, CreateSpec, DraftSpec
<1>14. CASE UNCHANGED vars
  BY <1>12, <1>14 DEF vars
<1> QED
  BY <1>13, <1>14

-----------------------------------------------------------------------------
(* A call leaves the others' entries alone                                  *)

\* An entry the resolver reads before and after a step.
ReadTwice(n) == n \in NamesOf(Living) /\ n \in NamesOf(Living)'

\* It reads the same of it.
ReadsSame(n) ==
  /\ Entry(Living, n).spec = Entry(Living', n).spec
  /\ Entry(Living, n).match = Entry(Living', n).match

\* That is so when both configs say the same of it.
LEMMA SameReading ==
  ASSUME TypesInv, TypesInv', NEW n, ReadTwice(n), NEW a, NEW b,
         a = BlockCaps(registry, legacy), b = BlockCaps(registry', legacy'),
         SettledIn(files, Entry(a, n)) = SettledIn(files', Entry(b, n)), Entry(a, n).match = Entry(b, n).match
  PROVE  ReadsSame(n)
<1>1. PICK old, new : old = LivingOf(a, files) /\ new = LivingOf(b, files')
  OBVIOUS
<1>2. Living = old /\ Living' = new
  BY <1>1, LivingReads
<1>3. a \in Seq(Caps) /\ b \in Seq(Caps)
  BY BlockCapsAre DEF TypesInv
<1>4. NamesOf(Living)' = NamesOf(new)
  BY <1>2 DEF NamesOf
<1>5. NamesOf(old) = NamesOf(a) /\ NamesOf(new) = NamesOf(b)
  BY <1>1, <1>3, EntryReads
<1>6. n \in NamesOf(a) /\ n \in NamesOf(b)
  BY <1>2, <1>4, <1>5 DEF ReadTwice
<1>7. Entry(old, n).spec = SettledIn(files, Entry(a, n)) /\ Entry(old, n).match = Entry(a, n).match
  BY <1>1, <1>3, <1>6, EntryReads
<1>8. Entry(new, n).spec = SettledIn(files', Entry(b, n)) /\ Entry(new, n).match = Entry(b, n).match
  BY <1>1, <1>3, <1>6, EntryReads
<1> QED
  BY <1>2, <1>7, <1>8 DEF ReadsSame

\* What is read twice is in both configs.
LEMMA ReadTwiceIn ==
  ASSUME TypesInv, TypesInv', NEW n, ReadTwice(n)
  PROVE  n \in NamesOf(BlockCaps(registry, legacy)) /\ n \in NamesOf(BlockCaps(registry', legacy'))
<1>1. PICK a, b : a = BlockCaps(registry, legacy) /\ b = BlockCaps(registry', legacy')
  OBVIOUS
<1>2. PICK old, new : old = LivingOf(a, files) /\ new = LivingOf(b, files')
  OBVIOUS
<1>3. Living = old /\ Living' = new
  BY <1>1, <1>2, LivingReads
<1>4. a \in Seq(Caps) /\ b \in Seq(Caps)
  BY <1>1, BlockCapsAre DEF TypesInv
<1>5. NamesOf(Living)' = NamesOf(new)
  BY <1>3 DEF NamesOf
<1>6. NamesOf(old) = NamesOf(a) /\ NamesOf(new) = NamesOf(b)
  BY <1>2, <1>4, EntryReads
<1> QED
  BY <1>1, <1>3, <1>5, <1>6 DEF ReadTwice

\* In the same config, while files of its name stay.
LEMMA SameConfig ==
  ASSUME TypesInv, TypesInv', UNCHANGED <<registry, legacy>>, NEW n, ReadTwice(n),
         \A f : f.name = n => (f \in files <=> f \in files')
  PROVE  ReadsSame(n)
<1>1. PICK a : a = BlockCaps(registry, legacy)
  OBVIOUS
<1>2. a = BlockCaps(registry', legacy') /\ n \in NamesOf(a) /\ a \in Seq(Caps)
  BY <1>1, ReadTwiceIn, BlockCapsAre DEF TypesInv
<1>3. Entry(a, n).name = n
  BY <1>2, EntryReads
<1>4. SettledIn(files, Entry(a, n)) = SettledIn(files', Entry(a, n))
  BY <1>3, SettledLocal
<1> QED
  BY <1>1, <1>2, <1>4, SameReading

\* What the registry does not spell out.
LEMMA PlainlyReads ==
  ASSUME TypesInv, TypesInv', NEW n, ReadTwice(n), Plainly(n), Plainly(n)',
         NEW a, NEW b, a = BlockCaps(registry, legacy), b = BlockCaps(registry', legacy')
  PROVE  n \in NamesOf(a) /\ n \in NamesOf(b) /\ ~SpellsOut(Entry(a, n)) /\ ~SpellsOut(Entry(b, n))
<1>1. n \in NamesOf(a) /\ n \in NamesOf(b) /\ a \in Seq(Caps) /\ b \in Seq(Caps)
  BY ReadTwiceIn, BlockCapsAre DEF TypesInv
<1>2. Entry(a, n).name = n /\ Entry(b, n).name = n
  BY <1>1, EntryReads
<1>3. Block.caps = a /\ (Block.caps)' = b
  BY LivingReads
<1>4. Entry(a, n).spec \notin {Empty, OldCentral(n)}
  BY <1>3 DEF Plainly
<1>5. Entry(b, n).spec \notin {Empty, OldCentral(n)}
  <2>1. Entry(Block.caps, n)' = Entry(b, n)
    BY <1>3 DEF Entry
  <2> QED
    BY <2>1 DEF Plainly
<1> QED
  BY <1>1, <1>2, <1>4, <1>5 DEF SpellsOut

\* In configs that agree on it, while the files stay.
LEMMA SameFiles ==
  ASSUME TypesInv, TypesInv', UNCHANGED files, NEW n, ReadTwice(n), Plainly(n), Plainly(n)', NEW a, NEW b,
         a = BlockCaps(registry, legacy), b = BlockCaps(registry', legacy'),
         NEW names, n \notin names, AgreeOn(a, b, names, files) \/ AgreeOn(b, a, names, files)
  PROVE  ReadsSame(n)
<1>1. n \in NamesOf(a) /\ n \in NamesOf(b) /\ ~SpellsOut(Entry(a, n)) /\ ~SpellsOut(Entry(b, n))
  BY PlainlyReads
<1>2. SettledIn(files, Entry(a, n)) = SettledIn(files, Entry(b, n)) /\ Entry(a, n).match = Entry(b, n).match
  BY <1>1 DEF AgreeOn
<1> QED
  BY <1>2, SameReading

\* A new spec appears where the resolver looked for it already.
LEMMA CreateReads ==
  ASSUME TypesInv, TypesInv', NEW k \in Names, CreateSpec(k), NEW n, ReadTwice(n)
  PROVE  ReadsSame(n)
<1>1. /\ UNCHANGED <<registry, legacy>> /\ (\A f \in files : f.name # k) /\ k \in NamesOf(Living)
      /\ Entry(Living, k).spec # Empty /\ files' = files \cup {File(Entry(Living, k).spec, "spec")}
  BY DEF CreateSpec
<1>2. PICK a : a = BlockCaps(registry, legacy)
  OBVIOUS
<1>3. a = BlockCaps(registry', legacy') /\ n \in NamesOf(a) /\ a \in Seq(Caps)
  BY <1>1, <1>2, ReadTwiceIn, BlockCapsAre DEF TypesInv
<1>4. k \in NamesOf(a)
  BY <1>1, <1>2, <1>3, LivingReads, EntryReads
<1>5. PICK e : e = Entry(a, k)
  OBVIOUS
<1>6. e \in Caps /\ e.name = k /\ Entry(Living, k).spec = SettledIn(files, e)
  <2>1. Living = LivingOf(a, files)
    BY <1>2, LivingReads
  <2>2. e \in Caps /\ e.name = k
    BY <1>3, <1>4, <1>5, EntryReads
  <2>3. Entry(LivingOf(a, files), k).spec = SettledIn(files, e)
    BY <1>3, <1>4, <1>5, EntryReads
  <2> QED
    BY <2>1, <2>2, <2>3
<1>7. PICK path : path = SettledIn(files, e)
  OBVIOUS
<1>8. path \in Paths(k) /\ files' = files \cup {File(path, "spec")}
  <2>1. path \in {Empty} \cup Paths(k)
    BY <1>6, <1>7 DEF SettledIn, Caps, Paths
  <2> QED
    BY <1>1, <1>6, <1>7, <2>1
<1>9. File(path, "spec").name = k
  BY <1>8, PathsNamed
<1>10. CASE n # k
  <2>1. \A f : f.name = n => (f \in files <=> f \in files')
    BY <1>8, <1>9, <1>10
  <2> QED
    BY <1>1, <2>1, SameConfig
<1>11. CASE n = k
  <2>1. File(OldCentral(k), "spec") \notin files
    <3>1. File(OldCentral(k), "spec").name = k
      BY PathsNamed DEF Paths
    <3> QED
      BY <1>1, <3>1
  <2>2. SettledIn(files', e) = path
    <3>1. CASE e.spec # None
      BY <1>7, <3>1 DEF SettledIn
    <3>2. CASE e.spec = None
      <4>1. path = Central(k)
        BY <1>6, <1>7, <2>1, <3>2 DEF SettledIn
      <4>2. File(Central(k), "spec") \in files'
        BY <1>8, <4>1
      <4> QED
        BY <1>6, <3>2, <4>1, <4>2 DEF SettledIn
    <3> QED
      BY <3>1, <3>2
  <2>3. SettledIn(files, Entry(a, n)) = SettledIn(files', Entry(a, n))
    BY <1>5, <1>7, <1>11, <2>2
  <2> QED
    BY <1>2, <1>3, <2>3, SameReading
<1> QED
  BY <1>10, <1>11

\* A step reads the same of every capability the program at work does not name, unless
\* a path is spelled out.
LEMMA OthersRead ==
  ASSUME GuardHolds, TypesInv, TypesInv', ScopeInv, [Next]_vars, NEW n, ReadTwice(n), Spared(n),
         Plainly(n), Plainly(n)'
  PROVE  ReadsSame(n)
<1>1. \A w \in Writers : ~Idle(w) => IsJob(Job(w)) /\ WellPlaced(Job(w), registry, legacy, files, astray)
  BY DEF TypesInv, ScopeInv
<1>2. ASSUME UNCHANGED <<registry, legacy, files>> PROVE ReadsSame(n)
  BY <1>2, SameConfig
<1>3. ASSUME NEW w \in Writers, Move(w) \/ Undo(w) PROVE ReadsSame(n)
  <2>1. PICK J : J = Job(w)
    OBVIOUS
  <2>2. Restorable(J, files, astray) /\ UNCHANGED <<registry, legacy>> /\ n \notin J.names
    <3>1. ~Idle(w) /\ UNCHANGED <<registry, legacy>>
      BY <1>3 DEF Move, Undo, Working
    <3> QED
      BY <1>1, <2>1, <3>1 DEF WellPlaced, Spared
  <2>3. Spares(files, files', J.names)
    <3>1. CASE Move(w)
      <4>1. CASE J.todo = <<>>
        BY <2>1, <3>1, <4>1 DEF Move, Spares
      <4>2. CASE J.todo # <<>>
        <5>1. files' = Moved(files, Head(J.todo).from, Head(J.todo).to)
          BY <2>1, <3>1, <4>2, RunDoes
        <5> QED
          BY <2>2, <4>2, <5>1, MoveRestorable
      <4> QED
        BY <4>1, <4>2
    <3>2. CASE Undo(w)
      <4>1. J.done # <<>> /\ files' = Moved(files, Last(J.done).to, Last(J.done).from)
        BY <2>1, <3>2 DEF Undo
      <4> QED
        BY <2>2, <4>1, UndoRestorable
    <3> QED
      BY <1>3, <3>1, <3>2
  <2>4. \A f : f.name = n => (f \in files <=> f \in files')
    BY <2>2, <2>3 DEF Spares
  <2> QED
    BY <2>2, <2>4, SameConfig
<1>4. ASSUME NEW w \in Writers, WriteRegistry(w) PROVE ReadsSame(n)
  <2>1. PICK J : J = Job(w)
    OBVIOUS
  <2>2. /\ J.at = "write" /\ registry' = {[enabled |-> J.enabled, caps |-> J.caps]}
        /\ UNCHANGED <<legacy, files>> /\ ~Idle(w)
    BY <1>4, <2>1 DEF WriteRegistry, Working, Job
  <2>3. WellPlaced(J, registry, legacy, files, astray) /\ n \notin J.names \cup J.replaces
    BY <1>1, <2>1, <2>2 DEF Spared
  <2>4. AgreeOn(J.caps, BlockCaps(registry, legacy), J.names \cup J.replaces, files)
    BY <2>2, <2>3 DEF WellPlaced
  <2>5. BlockCaps(registry', legacy') = J.caps
    <3>1. PICK d : d = [enabled |-> J.enabled, caps |-> J.caps]
      OBVIOUS
    <3>2. registry' = {d} /\ d.caps = J.caps
      BY <2>2, <3>1
    <3>3. The(registry') = d
      BY <3>2, TheOne
    <3> QED
      BY <3>2, <3>3 DEF BlockCaps
  <2> QED
    BY <2>2, <2>3, <2>4, <2>5, SameFiles
<1>5. ASSUME NEW w \in Writers, DropLegacy(w) PROVE ReadsSame(n)
  <2>1. PICK J : J = Job(w)
    OBVIOUS
  <2>2. J.at = "drop" /\ legacy' = {} /\ UNCHANGED <<registry, files>> /\ ~Idle(w)
    BY <1>5, <2>1 DEF DropLegacy, Working, Job
  <2>3. registry # {}
    BY <1>1, <2>1, <2>2 DEF WellPlaced, Written
  <2>4. PICK a : a = BlockCaps(registry, legacy)
    OBVIOUS
  <2>5. a = BlockCaps(registry', legacy')
    BY <2>2, <2>3, <2>4 DEF BlockCaps
  <2> QED
    BY <2>2, <2>4, <2>5, SameReading
<1>6. ASSUME NEW w \in Writers, Restore(w) PROVE ReadsSame(n)
  <2>1. PICK J : J = Job(w)
    OBVIOUS
  <2>2. J.at = "undo" /\ registry' = J.original /\ UNCHANGED <<legacy, files>> /\ ~Idle(w)
    BY <1>6, <2>1 DEF Restore, Working, Job
  <2>3. WellPlaced(J, registry, legacy, files, astray) /\ n \notin J.names \cup J.replaces
    BY <1>1, <2>1, <2>2 DEF Spared
  <2>4. registry = J.original \/ Written(J, registry)
    BY <2>2, <2>3 DEF WellPlaced
  <2>5. CASE registry = J.original
    BY <1>2, <2>2, <2>5
  <2>6. CASE Written(J, registry)
    <3>1. BlockCaps(registry, legacy) = J.caps
      BY <2>6 DEF Written, BlockCaps
    <3>2. AgreeOn(J.caps, BlockCaps(registry', legacy'), J.names \cup J.replaces, files)
      BY <2>2, <2>3 DEF WellPlaced
    <3> QED
      BY <2>2, <2>3, <3>1, <3>2, SameFiles
  <2> QED
    BY <2>4, <2>5, <2>6
<1>7. ASSUME NEW k \in Names, NEW path \in {Central(k), OldCentral(k), InArea(k)}, DraftSpec(k, path)
      PROVE  ReadsSame(n)
  <2>1. /\ UNCHANGED <<registry, legacy>> /\ k \notin NamesOf(Living)
        /\ \E tiers : files' = files \cup {File(path, t) : t \in tiers}
    BY <1>7 DEF DraftSpec
  <2>2. n # k
    BY <2>1 DEF ReadTwice
  <2>3. \A t : File(path, t).name = k
    BY PathsNamed DEF Paths
  <2>4. \A f : f.name = n => (f \in files <=> f \in files')
    BY <2>1, <2>2, <2>3
  <2> QED
    BY <2>1, <2>4, SameConfig
<1>8. ASSUME NEW w \in Writers,
             \/ FailMove(w) \/ Fail(w) \/ Finish(w) \/ Kill(w) \/ FailUndo(w) \/ LeftUndone(w)
             \/ Register(w) \/ Relocate(w) \/ Rerun(w)
      PROVE  ReadsSame(n)
  <2> DEFINE Same == UNCHANGED <<registry, legacy, files>>
  <2>1. ASSUME NEW k, NEW match, NEW spec, NEW replaces, StartRegister(w, k, match, spec, replaces) PROVE Same
    BY <2>1 DEF StartRegister
  <2>2. ASSUME NEW targets, NEW to, NEW override, StartRelocate(w, targets, to, override) PROVE Same
    BY <2>2 DEF StartRelocate
  <2>3. FailMove(w) => Same
    BY DEF FailMove
  <2>4. Fail(w) => Same
    BY DEF Fail
  <2>5. Finish(w) => Same
    BY DEF Finish
  <2>6. Kill(w) => Same
    BY DEF Kill
  <2>7. Rerun(w) => Same
    <3> SUFFICES ASSUME Rerun(w) PROVE Same
      OBVIOUS
    <3>1. \/ \E k \in killed : StartRelocate(w, {k[1]}, k[2], k[3])
          \/ UNCHANGED <<registry, legacy, files, job, owed, astray>>
      BY DEF Rerun
    <3> QED
      BY <2>2, <3>1
  <2>12. FailUndo(w) \/ LeftUndone(w) => Same
    BY DEF FailUndo, LeftUndone, FailRestore, CutShort
  <2> HIDE DEF Same
  <2>8. Register(w) => Same
    BY <2>1 DEF Register
  <2>9. Relocate(w) => Same
    BY <2>2 DEF Relocate
  <2>10. Same
    BY <1>8, <2>3, <2>4, <2>5, <2>6, <2>7, <2>8, <2>9, <2>12
  <2>11. UNCHANGED <<registry, legacy, files>>
    BY <2>10 DEF Same
  <2> QED
    BY <1>2, <2>11
<1>9. CASE Next
  BY <1>3, <1>4, <1>5, <1>6, <1>7, <1>8, <1>9, CreateReads DEF Next, Step, LeftUndone
<1>10. CASE UNCHANGED vars
  BY <1>2, <1>10 DEF vars
<1> QED
  BY <1>9, <1>10

\* What is back when a relocation is done undoing.
PutBack(before, names) ==
  /\ legacy' = before[2]
  /\ registry' = before[1] \/ names \subseteq astray'
  /\ {f \in files' : f.name \notin astray'} = {f \in before[3] : f.name \notin astray'}

\* A relocation is done undoing when it restores the registry or is left undone.
LEMMA UndoneHow ==
  ASSUME Alone, TypesInv, [Next]_vars, NEW w \in Writers, Working(w, "undo"), Idle(w)'
  PROVE  Restore(w) \/ FailRestore(w) \/ CutShort(w)
<1>1. PICK J : J = Job(w)
  OBVIOUS
<1>2. ~Idle(w) /\ J.at = "undo" /\ \A v \in Writers : v = w
  BY <1>1 DEF Working, Job, Alone
<1>3. ASSUME UNCHANGED job PROVE FALSE
  BY <1>2, <1>3 DEF Idle
<1>4. \A at : Working(w, at) => at = "undo"
  BY <1>1, <1>2 DEF Working, Job
<1>5. ~Undo(w) /\ ~FailUndo(w)
  <2>1. ASSUME NEW K, Go(w, {K}) PROVE FALSE
    <3>1. job'[w] = {K}
      BY <2>1, GoDoes
    <3> QED
      BY <3>1 DEF Idle
  <2> QED
    BY <2>1 DEF Undo, FailUndo
<1>6. ~ UNCHANGED vars
  BY <1>3 DEF vars
<1>7. \A v \in Writers : ~Move(v) /\ ~WriteRegistry(v) /\ ~DropLegacy(v) /\ ~Finish(v) /\ ~FailMove(v)
      /\ ~Kill(v)
  BY <1>2, <1>4 DEF Move, WriteRegistry, DropLegacy, Finish, FailMove, Kill
<1>8. \A v \in Writers : ~Fail(v)
  BY <1>2, <1>4 DEF Fail
<1>9. \A v \in Writers : ~Register(v) /\ ~Relocate(v)
  <2>1. \A v \in Writers : \A n, match, spec, replaces : ~StartRegister(v, n, match, spec, replaces)
    BY <1>2 DEF StartRegister
  <2>2. \A v \in Writers : \A targets, to, override : ~StartRelocate(v, targets, to, override)
    BY <1>2 DEF StartRelocate
  <2>3. \A v \in Writers : ~Register(v)
    BY <2>1 DEF Register
  <2>4. \A v \in Writers : ~Relocate(v)
    BY <2>2 DEF Relocate
  <2> QED
    BY <2>3, <2>4
<1>10. \A v \in Writers : ~Rerun(v)
  BY <1>2 DEF Rerun, StartRelocate
<1>11. \A k \in Names : ~CreateSpec(k) /\ \A path : ~DraftSpec(k, path)
  BY <1>2 DEF CreateSpec, DraftSpec
<1> QED
  BY <1>2, <1>5, <1>6, <1>7, <1>8, <1>9, <1>10, <1>11 DEF Next, Step

\* Then the files are where they were, but for those whose rename was refused, and so
\* is the registry, unless it could not be replaced.
LEMMA UndoneIsBack ==
  ASSUME Alone, TypesInv, ScopeInv, [Next]_vars, NEW w \in Writers, Working(w, "undo"), Idle(w)'
  PROVE  PutBack(Job(w).before, Job(w).names)
<1>1. PICK J : J = Job(w)
  OBVIOUS
<1>2. ~Idle(w) /\ J.at = "undo"
  BY <1>1 DEF Working, Job
<1>3. WellPlaced(J, registry, legacy, files, astray)
  BY <1>1, <1>2 DEF ScopeInv
<1>4. PICK before : before = J.before
  OBVIOUS
<1>5. legacy = before[2] /\ before[1] = J.original /\ Restorable(J, files, astray)
  BY <1>2, <1>3, <1>4 DEF WellPlaced
<1>6. /\ Spares(before[3], files, J.names)
      /\ J.done = <<>> => Spares(before[3], files, astray)
  BY <1>4, <1>5, StillRestorable
<1>7. ASSUME Spares(before[3], files, astray') PROVE
        {f \in files : f.name \notin astray'} = {f \in before[3] : f.name \notin astray'}
  BY <1>7 DEF Spares
<1>8. CASE Restore(w)
  <2>1. registry' = J.original /\ UNCHANGED <<legacy, files, astray>> /\ J.done = <<>>
    BY <1>1, <1>8 DEF Restore
  <2> QED
    BY <1>1, <1>4, <1>5, <1>6, <1>7, <2>1 DEF PutBack
<1>9. CASE FailRestore(w)
  <2>1. /\ UNCHANGED <<registry, legacy, files>> /\ J.done = <<>>
        /\ astray' = IF registry = J.original THEN astray ELSE astray \cup J.names
    BY <1>1, <1>9 DEF FailRestore
  <2>2. Spares(before[3], files, astray')
    BY <1>6, <2>1 DEF Spares
  <2> QED
    BY <1>1, <1>4, <1>5, <1>7, <2>1, <2>2 DEF PutBack
<1>10. CASE CutShort(w)
  <2>1. UNCHANGED <<registry, legacy, files>> /\ astray' = astray \cup J.names
    BY <1>1, <1>10 DEF CutShort
  <2>2. Spares(before[3], files, astray')
    BY <1>6, <2>1 DEF Spares
  <2> QED
    BY <1>1, <1>4, <1>5, <1>7, <2>1, <2>2 DEF PutBack
<1> QED
  BY <1>8, <1>9, <1>10, UndoneHow

\* A call leaves the entries of the capabilities it does not name as the resolver
\* reads them, except that a rewrite drops an empty path or the old default where the
\* config spells it out; and when a relocation that fails is done undoing, every file
\* is where it was but those whose rename back was refused or never tried, and the
\* registry is as it was unless it could not be replaced (relocate-capability.py,
\* _rollback).  Any move, write or rollback may fail; what is assumed is that commands
\* do not overlap, that none is interrupted in the instant after the old block is gone
\* (the case RegistryInterrupt shows), and that a config names a capability once.
THEOREM OthersUntouched ==
  ASSUME Alone, GuardHolds, SingleOrigins
  PROVE  Spec => CallsTouchOnlyTheirOwn
<1> DEFINE Inv == TypesInv /\ KeptInv /\ ScopeInv
<1>1. Init => Inv
  BY TypesInit, KeptInit, ScopeInit
<1>2. Inv /\ [Next]_vars => Inv'
  BY TypesNext, KeptNext, ScopeNext
<1>3. Inv /\ Inv' /\ [Next]_vars =>
        [/\ \A n \in NamesOf(Living) \cap NamesOf(Living)' :
              Spared(n) /\ Plainly(n) /\ Plainly(n)' =>
                /\ Entry(Living, n).spec = Entry(Living', n).spec
                /\ Entry(Living, n).match = Entry(Living', n).match
         /\ \A w \in Writers : Working(w, "undo") /\ Idle(w)' =>
              /\ legacy' = Job(w).before[2]
              /\ registry' = Job(w).before[1] \/ Job(w).names \subseteq astray'
              /\ {f \in files' : f.name \notin astray'}
                   = {f \in Job(w).before[3] : f.name \notin astray'}]_vars
  <2> SUFFICES ASSUME Inv, Inv', [Next]_vars
               PROVE  /\ \A n \in NamesOf(Living) \cap NamesOf(Living)' :
                           Spared(n) /\ Plainly(n) /\ Plainly(n)' =>
                             /\ Entry(Living, n).spec = Entry(Living', n).spec
                             /\ Entry(Living, n).match = Entry(Living', n).match
                      /\ \A w \in Writers : Working(w, "undo") /\ Idle(w)' =>
                           /\ legacy' = Job(w).before[2]
                           /\ registry' = Job(w).before[1] \/ Job(w).names \subseteq astray'
                           /\ {f \in files' : f.name \notin astray'}
                                = {f \in Job(w).before[3] : f.name \notin astray'}
    OBVIOUS
  <2>1. ASSUME NEW n \in NamesOf(Living) \cap NamesOf(Living)', Spared(n), Plainly(n), Plainly(n)'
        PROVE  /\ Entry(Living, n).spec = Entry(Living', n).spec
               /\ Entry(Living, n).match = Entry(Living', n).match
    <3>1. ReadTwice(n)
      BY DEF ReadTwice
    <3>2. ReadsSame(n)
      BY <2>1, <3>1, OthersRead
    <3> QED
      BY <3>2 DEF ReadsSame
  <2>2. ASSUME NEW w \in Writers, Working(w, "undo"), Idle(w)'
        PROVE  /\ legacy' = Job(w).before[2]
               /\ registry' = Job(w).before[1] \/ Job(w).names \subseteq astray'
               /\ {f \in files' : f.name \notin astray'}
                    = {f \in Job(w).before[3] : f.name \notin astray'}
    <3>1. PutBack(Job(w).before, Job(w).names)
      BY <2>2, UndoneIsBack
    <3> QED
      BY <3>1 DEF PutBack
  <2> QED
    BY <2>1, <2>2
<1> QED
  BY <1>1, <1>2, <1>3, PTL DEF Spec, CallsTouchOnlyTheirOwn
=============================================================================
