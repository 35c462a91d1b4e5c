--------------------------- MODULE CodeDriftProofs ---------------------------
(***************************************************************************)
(* What the report of CodeDrift is worth, for any capabilities, globs,     *)
(* markers and runs and any history.                                       *)
(*                                                                         *)
(* A shallow clone never misleads: what the report says of a capability    *)
(* depends on the clone only through the baseline.  A baseline above the   *)
(* edge is the last commit that touches the spec in the shallow clone, and *)
(* above the edge both clones see the same commits touch it; below it no   *)
(* commit is later.                                                        *)
(*                                                                         *)
(* --working needs TreeInv: a spec, document or record that was ever       *)
(* committed is still there, so that only code files come back as they     *)
(* were; and that what is paired as a rename before the commit of the      *)
(* whole tree is paired after it, for no more files are gone then, and no  *)
(* fewer came.                                                             *)
(***************************************************************************)
EXTENDS CodeDrift, WellFoundedInduction, SequenceTheorems, FiniteSetTheorems, TLAPS

\* The commits that touch a path, as a clone of this depth sees them.
Touching(edge, path) ==
  {i \in edge .. Len(commits) :
     commits[i][path] # IF i = edge THEN None ELSE commits[i - 1][path]}

\* The history is a sequence, whatever its trees hold.
HistoryInv == commits \in Seq(Range(commits))

\* A set of numbers with a bound has a greatest element, and Max is it.
LEMMA MaxOfBounded ==
  ASSUME NEW n \in Nat, NEW S \in SUBSET (0 .. n), S # {}
  PROVE  Max(S) \in S /\ \A y \in S : Max(S) >= y
<1> DEFINE T == {n - x : x \in S}
           Less == OpToRel(<, Nat)
<1>1. T \subseteq Nat /\ T # {}
  <2>1. \A x \in S : n - x \in Nat
    OBVIOUS
  <2>2. T \subseteq Nat
    BY <2>1
  <2>3. T # {}
    <3>1. PICK x : x \in S
      OBVIOUS
    <3>2. n - x \in T
      BY <3>1
    <3> QED
      BY <3>2
  <2> QED
    BY <2>2, <2>3
<1>2. \E t \in T : \A u \in T : ~ (<<u, t>> \in Less)
  BY <1>1, NatLessThanWellFounded, WFMin
<1>3. PICK t \in T : \A u \in T : ~ (<<u, t>> \in Less)
  BY <1>2
<1>4. \A u \in T : u >= t
  <2> SUFFICES ASSUME NEW u \in T PROVE u >= t
    OBVIOUS
  <2>1. u \in Nat /\ t \in Nat
    BY <1>1
  <2>2. u < t => <<u, t>> \in Less
    BY <2>1 DEF OpToRel
  <2>3. ~ (u < t)
    BY <2>2, <1>3
  <2> HIDE DEF T
  <2> QED
    BY <2>1, <2>3
<1>5. PICK x \in S : t = n - x
  OBVIOUS
<1>6. \A y \in S : x >= y
  BY <1>4, <1>5
<1> QED
  BY <1>6 DEF Max

\* The last commit that touches a path is a commit that touches it, and none
\* that does is later.
LEMMA LastTouchingIsLast ==
  ASSUME Len(commits) \in Nat, NEW v, NEW path, v.edge \in Nat
  PROVE  /\ Touching(v.edge, path) = {} => LastTouching(v, path) = 0
         /\ Touching(v.edge, path) # {} =>
              /\ LastTouching(v, path) \in Touching(v.edge, path)
              /\ \A i \in Touching(v.edge, path) : LastTouching(v, path) >= i
<1>1. LastTouching(v, path) =
        IF Touching(v.edge, path) = {} THEN 0 ELSE Max(Touching(v.edge, path))
  BY DEF LastTouching, Touching
<1>2. Touching(v.edge, path) \in SUBSET (0 .. Len(commits))
  BY DEF Touching
<1> QED
  BY <1>1, <1>2, MaxOfBounded

\* Above the edge of a shallow clone the same commits touch a path in it and in
\* the full clone, so a baseline above the edge is that of the full clone.
LEMMA SameBaseline ==
  ASSUME Len(commits) \in Nat, NEW edge \in 2 .. Len(commits), NEW c, Checked(Clone(edge), c)
  PROVE  Baseline(Clone(1), c) = Baseline(Clone(edge), c) /\ Checked(Clone(1), c)
<1> DEFINE path == SpecOf(c)
           shallow == LastTouching(Clone(edge), path)
           full    == LastTouching(Clone(1), path)
<1>1. Clone(edge).edge = edge /\ Clone(edge).since = 0 /\ Clone(1).edge = 1 /\ Clone(1).since = 0
  BY DEF Clone
<1>2. Baseline(Clone(edge), c) = shallow /\ Baseline(Clone(1), c) = full
  BY <1>1 DEF Baseline
<1>3. shallow # 0 /\ shallow # edge
  BY <1>1, <1>2 DEF Checked, ShallowBoundaries
<1>4. shallow \in Touching(edge, path) /\ \A i \in Touching(edge, path) : shallow >= i
  <2>1. PICK v : v = Clone(edge)
    OBVIOUS
  <2>2. v.edge = edge /\ v.edge \in Nat /\ LastTouching(v, path) = shallow
    BY <1>1, <2>1
  <2> HIDE DEF shallow
  <2>3. Touching(v.edge, path) # {}
    BY <1>3, <2>2, LastTouchingIsLast
  <2> QED
    BY <2>2, <2>3, LastTouchingIsLast
<1>5. shallow \in edge + 1 .. Len(commits)
  BY <1>3, <1>4 DEF Touching
<1>6. \A i \in edge + 1 .. Len(commits) : i \in Touching(edge, path) <=> i \in Touching(1, path)
  BY DEF Touching
<1>7. full \in Touching(1, path) /\ \A i \in Touching(1, path) : full >= i
  <2>1. Touching(1, path) # {}
    BY <1>4, <1>5, <1>6
  <2>2. Clone(1).edge \in Nat
    BY <1>1
  <2> QED
    BY <1>1, <2>1, <2>2, LastTouchingIsLast
<1>8. full \in edge + 1 .. Len(commits)
  <2>1. full >= shallow /\ full \in 1 .. Len(commits)
    BY <1>4, <1>5, <1>6, <1>7 DEF Touching
  <2> QED
    BY <2>1, <1>5
<1>9. full = shallow
  <2>1. full >= shallow /\ shallow >= full
    BY <1>4, <1>5, <1>6, <1>7, <1>8
  <2> QED
    BY <2>1, <1>5, <1>8
<1> QED
  BY <1>1, <1>2, <1>3, <1>9 DEF Checked, ShallowBoundaries

\* Of a capability with the same baseline, two clones say the same.
LEMMA SameVerdict ==
  ASSUME NEW e, NEW f, NEW c, Baseline(Clone(e), c) = Baseline(Clone(f), c)
  PROVE  Drifted(Clone(e), c) = Drifted(Clone(f), c)
<1>1. /\ Clone(e).working = Clone(f).working /\ Clone(e).work = Clone(f).work
      /\ Clone(e).since = Clone(f).since
  BY DEF Clone
<1>2. Untracked(Clone(e)) = Untracked(Clone(f))
  BY <1>1 DEF Untracked
<1>3. \A i : ChangedSince(Clone(e), i) = ChangedSince(Clone(f), i)
  <2>1. Now(Clone(e)) = Now(Clone(f))
    BY <1>1, <1>2 DEF Now
  <2> QED
    BY <1>2, <2>1 DEF ChangedSince
<1>4. \A i : RecordsSince(Clone(e), i) = RecordsSince(Clone(f), i)
  BY <1>1, <1>3 DEF RecordsSince
<1>5. \A i : /\ TrackedSince(Clone(e), i) = TrackedSince(Clone(f), i)
             /\ VouchedSince(Clone(e), i, c) = VouchedSince(Clone(f), i, c)
  BY <1>4 DEF TrackedSince, VouchedSince
<1>6. \A d : MarkerGlobs(Clone(e), d) = MarkerGlobs(Clone(f), d)
  BY <1>1 DEF MarkerGlobs
<1>7. \A p : NamedElsewhere(Clone(e), p, c) = NamedElsewhere(Clone(f), p, c)
  BY <1>6 DEF NamedElsewhere
<1> QED
  BY <1>1, <1>3, <1>5, <1>7 DEF Drifted

\* The history stays a sequence: a commit appends one tree.
LEMMA HistoryIsSequence == Spec => []HistoryInv
<1>1. Init => HistoryInv
  BY DEF Init, HistoryInv, Range
<1>2. ASSUME HistoryInv, [Next]_vars PROVE HistoryInv'
  <2>1. commits' = commits \/ \E tree : commits' = Append(commits, tree)
    BY <1>2 DEF Next, vars, HandEdit, EditDoc, WriteSpec, Accept, RunEdit, RunAccounts, Commit
  <2>2. CASE commits' = commits
    BY <1>2, <2>2 DEF HistoryInv
  <2>3. ASSUME NEW tree, commits' = Append(commits, tree) PROVE HistoryInv'
    <3> DEFINE S == Range(commits) \cup {tree}
    <3>1. commits \in Seq(S)
      BY <1>2 DEF HistoryInv
    <3>2. commits' \in Seq(S)
      BY <3>1, <2>3
    <3>3. Len(commits') \in Nat /\ DOMAIN commits' = 1 .. Len(commits')
      BY <3>2
    <3>4. \A i \in 1 .. Len(commits') : commits'[i] \in Range(commits')
      BY <3>3 DEF Range
    <3> QED
      BY <3>2, <3>3, <3>4 DEF HistoryInv
  <2> QED
    BY <2>1, <2>2, <2>3
<1> QED
  BY <1>1, <1>2, PTL DEF Spec

\* A shallow clone never misleads: of every capability it does not skip it says
\* what the full clone says (_shallow_boundaries).
THEOREM NeverMisleads == Spec => []ShallowNeverMisleads
<1>1. HistoryInv => ShallowNeverMisleads
  <2> SUFFICES ASSUME HistoryInv, NEW edge \in 2 .. Len(commits), NEW c \in Caps,
                      Checked(Clone(edge), c)
               PROVE  Checked(Clone(1), c) /\ Drifted(Clone(edge), c) = Drifted(Clone(1), c)
    BY DEF ShallowNeverMisleads
  <2>1. Len(commits) \in Nat
    BY DEF HistoryInv
  <2> QED
    BY <2>1, SameBaseline, SameVerdict
<1> QED
  BY <1>1, HistoryIsSequence, PTL
-----------------------------------------------------------------------------
(* What the trees hold, and what is never removed from them.                *)

\* Specs, the documents beside them and records: no action deletes one.
Lasting == Paths \ CodePaths

\* A file that is never deleted: where HEAD has none no commit had one, and
\* where HEAD has one so has the working tree.
LastingFilesStay ==
  \A p \in Lasting :
    /\ \A i \in 1 .. Len(commits) : HeadTree[p] = None => commits[i][p] = None
    /\ HeadTree[p] # None => work[p] # None

\* A file of one kind is no file of another.
LEMMA Kinds ==
  /\ \A c \in Caps : SpecOf(c) \in Lasting
  /\ \A r \in Runs : Record(r) \in Lasting
  /\ Docs \subseteq Lasting /\ CodePaths \subseteq Paths
  /\ \A c, d \in Caps : SpecOf(c) = SpecOf(d) => c = d
  /\ \A c \in Caps, r \in Runs : SpecOf(c) # Record(r)
  /\ \A c \in Caps : SpecOf(c) \notin Docs \cup CodePaths
  /\ \A r \in Runs : Record(r) \notin Docs \cup CodePaths
  /\ \A p \in CodePaths : ~ IsAnySpecDoc(p)
<1>1. /\ \A f : CodeFile(f).kind = "code"
      /\ \A c : SpecOf(c).kind = "spec" /\ SpecOf(c).name = c
      /\ \A d : Doc(d).kind = "doc"
      /\ \A r : Record(r).kind = "record"
  BY DEF CodeFile, SpecOf, Doc, Record
<1>2. /\ \A p \in CodePaths : p.kind = "code" /\ p \in Paths
      /\ \A p \in Docs : p.kind = "doc" /\ p \in Paths
      /\ \A c \in Caps : SpecOf(c) \in Paths
      /\ \A r \in Runs : Record(r) \in Paths
  BY <1>1 DEF Paths, CodePaths, Docs
<1>3. \A p \in CodePaths : ~ IsAnySpecDoc(p)
  BY <1>1, <1>2 DEF IsAnySpecDoc, IsOwnSpecDoc
<1>4. \A c, d \in Caps : SpecOf(c) = SpecOf(d) => c = d
  BY <1>1
<1> QED
  BY <1>1, <1>2, <1>3, <1>4 DEF Lasting

\* An edit that writes a spec, a record or a document keeps the working tree a
\* tree, and the file there.
LEMMA EditTree ==
  ASSUME IsTree(work), NEW path \in Paths, NEW content,
         work' = [work EXCEPT ![path] = content],
         \A c \in Caps : path = SpecOf(c) => content \in SpecContents(c),
         \A r \in Runs : path = Record(r) => content \in Records,
         path \in Lasting => content # None
  PROVE  /\ IsTree(work')
         /\ \A p \in Lasting : work[p] # None => work'[p] # None
BY Kinds DEF IsTree, Lasting

\* Every step of the tree keeps it a tree and removes no lasting file.
LEMMA TreeStep ==
  ASSUME IsTree(work), Len(commits) \in Nat, [Next]_vars
  PROVE  /\ IsTree(work')
         /\ \A p \in Lasting : work[p] # None => work'[p] # None
<1>1. CASE UNCHANGED work
  BY <1>1
<1>2. ASSUME NEW p \in Paths, HandEdit(p)
      PROVE  /\ IsTree(work')
             /\ \A q \in Lasting : work[q] # None => work'[q] # None
  <2>1. /\ p \in CodePaths
        /\ \E content : work' = [work EXCEPT ![p] = content]
    BY <1>2 DEF HandEdit, Edit
  <2>2. /\ p \notin Lasting
        /\ \A c \in Caps : p # SpecOf(c)
        /\ \A r \in Runs : p # Record(r)
    BY <2>1, Kinds DEF Lasting
  <2> QED
    BY <2>1, <2>2, EditTree
<1>3. ASSUME NEW p \in Paths, EditDoc(p)
      PROVE  /\ IsTree(work')
             /\ \A q \in Lasting : work[q] # None => work'[q] # None
  <2>1. p \in Docs
    BY <1>3 DEF EditDoc
  <2>2. PICK content \in Contents : work' = [work EXCEPT ![p] = content]
    BY <1>3 DEF EditDoc, Edit
  <2>3. /\ \A c \in Caps : p # SpecOf(c)
        /\ \A r \in Runs : p # Record(r)
    BY <2>1, Kinds
  <2>4. content # None
    BY NoneAssumption
  <2> QED
    BY <2>2, <2>3, <2>4, EditTree
<1>4. ASSUME NEW c \in Caps, WriteSpec(c)
      PROVE  /\ IsTree(work')
             /\ \A q \in Lasting : work[q] # None => work'[q] # None
  <2>1. PICK touches \in Marks[c] :
          work' = [work EXCEPT ![SpecOf(c)] =
                     [touches |-> touches,
                      reviewed |-> IF work[SpecOf(c)] = None THEN 0 ELSE work[SpecOf(c)].reviewed]]
    BY <1>4 DEF WriteSpec, Edit
  <2>2. [touches |-> touches,
         reviewed |-> IF work[SpecOf(c)] = None THEN 0 ELSE work[SpecOf(c)].reviewed] \in SpecContents(c)
    BY DEF IsTree, SpecContents
  <2>3. SpecOf(c) \in Paths
    BY Kinds DEF Lasting
  <2> QED
    BY <2>1, <2>2, <2>3, EditTree, Kinds, NoneAssumption
<1>5. ASSUME NEW c \in Caps, Accept(c)
      PROVE  /\ IsTree(work')
             /\ \A q \in Lasting : work[q] # None => work'[q] # None
  <2>1. /\ work[SpecOf(c)] \in SpecContents(c)
        /\ work' = [work EXCEPT ![SpecOf(c)] = [work[SpecOf(c)] EXCEPT !.reviewed = Len(commits)]]
    BY <1>5 DEF Accept, Edit, IsTree
  <2>2. [work[SpecOf(c)] EXCEPT !.reviewed = Len(commits)] \in SpecContents(c)
    BY <2>1 DEF SpecContents
  <2>3. SpecOf(c) \in Paths
    BY Kinds DEF Lasting
  <2> QED
    BY <2>1, <2>2, <2>3, EditTree, Kinds, NoneAssumption
<1>6. ASSUME NEW r \in Runs
      PROVE  RecordOf(r) \in Records
  BY <1>6 DEF RecordOf, IsTree, Records
<1>7. ASSUME NEW r \in Runs, NEW c \in Caps, RunAccounts(r, c)
      PROVE  /\ IsTree(work')
             /\ \A q \in Lasting : work[q] # None => work'[q] # None
  <2>1. work' = [work EXCEPT ![Record(r)] =
                   [RecordOf(r) EXCEPT !.accounts = RecordOf(r).accounts \cup {c}]]
    BY <1>7 DEF RunAccounts, Edit
  <2>2. [RecordOf(r) EXCEPT !.accounts = RecordOf(r).accounts \cup {c}] \in Records
    BY <1>6, <1>7 DEF Records
  <2>3. Record(r) \in Paths
    BY <1>7, Kinds DEF Lasting
  <2> QED
    BY <1>7, <2>1, <2>2, <2>3, EditTree, Kinds, NoneAssumption
<1>8. ASSUME NEW r \in Runs, NEW p \in Paths, RunEdit(r, p)
      PROVE  /\ IsTree(work')
             /\ \A q \in Lasting : work[q] # None => work'[q] # None
  <2> DEFINE record == [RecordOf(r) EXCEPT !.files = RecordOf(r).files \cup {p}]
  <2>1. p \in CodePaths /\ \E content : work' = [work EXCEPT ![p] = content, ![Record(r)] = record]
    BY <1>8 DEF RunEdit
  <2>2. record \in Records
    BY <1>6, <1>8, <2>1 DEF Records
  <2> HIDE DEF record
  <2> QED
    BY <1>8, <2>1, <2>2, Kinds, NoneAssumption DEF IsTree, Lasting
<1> QED
  BY <1>1, <1>2, <1>3, <1>4, <1>5, <1>7, <1>8 DEF Next, vars, Commit

\* Every step keeps the lasting files where they are.
LEMMA LastingStep ==
  ASSUME HistoryInv, Len(commits) # 0, IsTree(work), LastingFilesStay, [Next]_vars
  PROVE  LastingFilesStay' /\ Len(commits') # 0
<1>0. Len(commits) \in Nat \ {0} /\ HeadTree = commits[Len(commits)]
  BY DEF HistoryInv, HeadTree, Last
<1>1. CASE commits' = commits
  <2>1. \A p \in Lasting : work[p] # None => work'[p] # None
    BY <1>0, TreeStep
  <2>2. HeadTree' = HeadTree
    BY <1>1 DEF HeadTree
  <2> QED
    BY <1>1, <2>1, <2>2 DEF LastingFilesStay
<1>2. CASE Commit
  <2>1. PICK part : commits' = Append(commits, [p \in Paths |->
                                     IF p \in part THEN work[p] ELSE HeadTree[p]])
    BY <1>2 DEF Commit
  <2> DEFINE tree == [p \in Paths |-> IF p \in part THEN work[p] ELSE HeadTree[p]]
  <2>2. /\ Len(commits') = Len(commits) + 1
        /\ commits'[Len(commits) + 1] = tree
        /\ \A i \in 1 .. Len(commits) : commits'[i] = commits[i]
    BY <2>1 DEF HistoryInv
  <2>3. HeadTree' = tree
    BY <1>0, <2>2 DEF HeadTree, Last
  <2>4. \A p \in Lasting : tree[p] = work[p] \/ tree[p] = HeadTree[p]
    BY DEF Lasting
  <2> HIDE DEF tree
  <2>5. work' = work
    BY <1>2 DEF Commit
  <2>6. ASSUME NEW p \in Lasting
        PROVE  /\ \A i \in 1 .. Len(commits') : tree[p] = None => commits'[i][p] = None
               /\ tree[p] # None => work[p] # None
    <3>1. tree[p] = None => HeadTree[p] = None
      BY <2>4 DEF LastingFilesStay
    <3>2. \A i \in 1 .. Len(commits) : HeadTree[p] = None => commits'[i][p] = None
      BY <2>2 DEF LastingFilesStay
    <3>3. \A i \in 1 .. Len(commits') : i \in 1 .. Len(commits) \/ i = Len(commits) + 1
      BY <1>0, <2>2
    <3>4. tree[p] # None => work[p] # None
      BY <2>4 DEF LastingFilesStay
    <3> QED
      BY <2>2, <3>1, <3>2, <3>3, <3>4
  <2>7. Len(commits') # 0
    BY <1>0, <2>2
  <2> QED
    BY <2>3, <2>5, <2>6, <2>7 DEF LastingFilesStay
<1>3. Next => commits' = commits \/ Commit
  BY DEF Next, HandEdit, EditDoc, WriteSpec, Accept, RunEdit, RunAccounts
<1> QED
  BY <1>0, <1>1, <1>2, <1>3 DEF vars

\* The inductive invariant about the trees.
TreeInv == HistoryInv /\ Len(commits) # 0 /\ IsTree(work) /\ LastingFilesStay

\* It holds in every state: commits and the working tree are trees, and a spec
\* or record that is there stays.
LEMMA TreesStay == Spec => []TreeInv
<1>1. Init => TreeInv
  <2> SUFFICES ASSUME Init PROVE TreeInv
    OBVIOUS
  <2>1. PICK tree \in Initial : commits = <<tree>> /\ work = tree
    BY DEF Init
  <2>2. HistoryInv /\ Len(commits) = 1 /\ HeadTree = work /\ commits[1] = work
    BY <2>1 DEF HistoryInv, Range, HeadTree, Last
  <2> QED
    BY <2>1, <2>2, InitialTrees DEF TreeInv, LastingFilesStay
<1>2. TreeInv /\ HistoryInv' /\ [Next]_vars => TreeInv'
  <2> SUFFICES ASSUME TreeInv, HistoryInv', [Next]_vars PROVE TreeInv'
    OBVIOUS
  <2>1. Len(commits) \in Nat
    BY DEF TreeInv, HistoryInv
  <2> QED
    BY <2>1, TreeStep, LastingStep DEF TreeInv
<1> QED
  BY <1>1, <1>2, HistoryIsSequence, PTL DEF Spec

\* Renames are read from the code files of two trees alone.
LEMMA SameRenames ==
  ASSUME NEW old, NEW now, NEW other, \A p \in CodePaths : now[p] = other[p]
  PROVE  RenamedAway(old, now) = RenamedAway(old, other)
<1>1. Removed(old, now) = Removed(old, other) /\ Removed(now, old) = Removed(other, old)
  BY DEF Removed
<1>2. ASSUME NEW p
      PROVE  {q \in Removed(now, old) : Likeness[now[q]] = Likeness[old[p]]}
               = {q \in Removed(other, old) : Likeness[other[q]] = Likeness[old[p]]}
  BY <1>1 DEF Removed
<1> QED
  BY <1>1, <1>2 DEF RenamedAway

\* A file paired as a rename stays paired when no more files are gone and those
\* that came are all still there as they were.
LEMMA RenamesStay ==
  ASSUME NEW old, NEW now, NEW later, NEW p \in RenamedAway(old, now),
         p \in Removed(old, later), Removed(old, later) \subseteq Removed(old, now),
         \A q \in Removed(now, old) : q \in Removed(later, old) /\ later[q] = now[q]
  PROVE  p \in RenamedAway(old, later)
<1> DEFINE Rivals(tree) == {q \in Removed(old, tree) :
                              Likeness[old[q]] = Likeness[old[p]] /\ Turn[q] <= Turn[p]}
           Came(tree)   == {q \in Removed(tree, old) : Likeness[tree[q]] = Likeness[old[p]]}
<1>1. IsFiniteSet(CodePaths)
  <2> DEFINE file == [f \in Code |-> CodeFile(f)]
  <2>1. file \in Surjection(Code, CodePaths)
    BY DEF Surjection, CodePaths
  <2> QED
    BY <2>1, FiniteCode, FS_Surjection DEF ExistsSurjection
<1>2. Rivals(later) \subseteq Rivals(now) /\ Came(now) \subseteq Came(later)
  OBVIOUS
<1>3. Rivals(now) \subseteq CodePaths /\ Came(later) \subseteq CodePaths
  BY DEF Removed
<1>4. /\ Cardinality(Rivals(now)) \in Nat /\ Cardinality(Came(now)) \in Nat
      /\ Cardinality(Rivals(later)) \in Nat /\ Cardinality(Came(later)) \in Nat
      /\ Cardinality(Rivals(later)) <= Cardinality(Rivals(now))
      /\ Cardinality(Came(now)) <= Cardinality(Came(later))
  <2> HIDE DEF Rivals, Came
  <2>1. IsFiniteSet(Rivals(now)) /\ IsFiniteSet(Came(later))
    BY <1>1, <1>3, FS_Subset
  <2>2. IsFiniteSet(Rivals(later)) /\ IsFiniteSet(Came(now))
    BY <1>2, <2>1, FS_Subset
  <2> QED
    BY <1>2, <2>1, <2>2, FS_Subset, FS_CardinalityType
<1>5. Cardinality(Rivals(now)) <= Cardinality(Came(now))
  BY DEF RenamedAway
<1>6. Cardinality(Rivals(later)) <= Cardinality(Came(later))
  <2> HIDE DEF Rivals, Came
  <2> QED
    BY <1>4, <1>5
<1> QED
  BY <1>6 DEF RenamedAway

\* What the report of HEAD against the specs' last commits leaves out of a clean
\* capability was vouched for, renamed away, or yields to a requirement that names
\* it.
LEMMA CleanCapability ==
  ASSUME NEW v, v.working = FALSE, v.since = 0, NEW c \in Caps, Drifted(v, c) = {},
         NEW p \in (Claims[c] \cap CodePaths) \ Exempt, ~ NamedElsewhere(v, p, c)
  PROVE  \/ HeadTree[p] = commits[Baseline(v, c)][p]
         \/ p \in VouchedSince(v, Baseline(v, c), c)
         \/ p \in RenamedAway(commits[Baseline(v, c)], HeadTree)
<1> DEFINE i == Baseline(v, c)
<1>1. ~ IsAnySpecDoc(p) /\ p \in Paths
  BY Kinds
<1>2. p \in ChangedSince(v, i) <=>
        commits[i][p] # HeadTree[p] /\ p \notin RenamedAway(commits[i], HeadTree)
  <2>1. Now(v) = [q \in Paths |-> HeadTree[q]] /\ Untracked(v) = {}
    BY DEF Now, Untracked
  <2>2. RenamedAway(commits[i], Now(v)) = RenamedAway(commits[i], HeadTree)
    <3>1. CodePaths \subseteq Paths
      BY DEF Paths
    <3>2. \A q \in CodePaths : Now(v)[q] = HeadTree[q]
      BY <2>1, <3>1
    <3> QED
      BY <3>2, SameRenames
  <2> QED
    BY <1>1, <2>1, <2>2 DEF ChangedSince
<1>3. {q \in ChangedSince(v, i) \cap Claims[c] :
         /\ ~ IsAnySpecDoc(q)
         /\ q \notin Exempt \cup VouchedSince(v, i, c)
         /\ ~ NamedElsewhere(v, q, c)} = {}
  BY DEF Drifted
<1> QED
  BY <1>1, <1>2, <1>3

\* When every capability is checked and clean, each file one of them claims is as
\* it was when the spec of one that claims it was last committed, or excused there,
\* unless only requirements of others than its claimants name it: capabilities
\* that share a file do not all yield it to each other (_named_elsewhere).
THEOREM CleanSeen == Spec => []CleanMeansSeen
<1>1. CleanMeansSeen
  <2> DEFINE v == View(0, FALSE)
             Seen(p, d) == /\ p \in Claims[d]
                           /\ \/ HeadTree[p] = commits[Baseline(v, d)][p]
                              \/ p \in VouchedSince(v, Baseline(v, d), d)
                              \/ p \in RenamedAway(commits[Baseline(v, d)], HeadTree)
  <2>0. v.working = FALSE /\ v.since = 0
    BY DEF View
  <2> SUFFICES ASSUME \A c \in Caps : Checked(v, c) /\ Drifted(v, c) = {},
                      NEW c \in Caps, NEW p \in (Claims[c] \cap CodePaths) \ Exempt,
                      \/ ~ \E d \in Caps : p \in MarkerGlobs(v, d)
                      \/ \E d \in Caps : p \in MarkerGlobs(v, d) /\ p \in Claims[d]
               PROVE  \E d \in Caps : Seen(p, d)
    BY DEF CleanMeansSeen
  <2> HIDE DEF v
  <2>1. CASE \E d \in Caps : p \in MarkerGlobs(v, d) /\ p \in Claims[d]
    <3>1. PICK d \in Caps : p \in MarkerGlobs(v, d) /\ p \in Claims[d]
      BY <2>1
    <3>2. ~ NamedElsewhere(v, p, d)
      BY <3>1 DEF NamedElsewhere
    <3> QED
      BY <2>0, <3>1, <3>2, CleanCapability
  <2>2. CASE ~ \E d \in Caps : p \in MarkerGlobs(v, d)
    <3>1. ~ NamedElsewhere(v, p, c)
      BY <2>2 DEF NamedElsewhere
    <3> QED
      BY <2>0, <3>1, CleanCapability
  <2> QED
    BY <2>1, <2>2
<1> QED
  BY <1>1, PTL
-----------------------------------------------------------------------------
(* --working against the commit of the whole tree.                          *)

\* The commit of the whole working tree: what it appends, and that a capability
\* whose spec it does not touch keeps its baseline.
LEMMA WholeCommit ==
  ASSUME TreeInv, [Next]_vars, commits' # commits, HeadTree' = work
  PROVE  /\ work' = work
         /\ Len(commits) \in Nat \ {0}
         /\ Len(commits') = Len(commits) + 1
         /\ \A i \in 1 .. Len(commits) : commits'[i] = commits[i]
         /\ commits'[Len(commits) + 1] = work
         /\ HeadTree = commits[Len(commits)]
<1>1. Commit
  BY DEF Next, vars, HandEdit, EditDoc, WriteSpec, Accept, RunEdit, RunAccounts
<1>2. PICK tree : commits' = Append(commits, tree)
  BY <1>1 DEF Commit
<1>3. /\ Len(commits) \in Nat \ {0}
      /\ Len(commits') = Len(commits) + 1
      /\ \A i \in 1 .. Len(commits) : commits'[i] = commits[i]
      /\ commits'[Len(commits) + 1] = tree
  BY <1>2 DEF TreeInv, HistoryInv
<1>4. HeadTree' = tree /\ HeadTree = commits[Len(commits)]
  BY <1>3 DEF HeadTree, Last
<1> QED
  BY <1>1, <1>3, <1>4 DEF Commit

\* A commit that does not change a path is not its last commit.
LEMMA SameTouching ==
  ASSUME TreeInv, [Next]_vars, commits' # commits, HeadTree' = work,
         NEW path, work[path] = HeadTree[path]
  PROVE  Touching(1, path)' = Touching(1, path)
<1> DEFINE n == Len(commits)
<1>1. /\ n \in Nat \ {0} /\ Len(commits') = n + 1 /\ HeadTree = commits[n]
      /\ \A i \in 1 .. n : commits'[i] = commits[i]
      /\ commits'[n + 1] = work
  BY WholeCommit
<1> HIDE DEF n
<1>2. ASSUME NEW i \in 1 .. n
      PROVE  /\ commits'[i] = commits[i]
             /\ i # 1 => commits'[i - 1] = commits[i - 1]
  <2>1. i # 1 => i - 1 \in 1 .. n
    BY <1>1
  <2> QED
    BY <1>1, <2>1
<1>3. commits'[n + 1][path] = commits'[n][path] /\ n + 1 # 1 /\ n + 1 - 1 = n
  BY <1>1
<1>4. \A i : i \in 1 .. n + 1 <=> i \in 1 .. n \/ i = n + 1
  BY <1>1
<1>5. Touching(1, path)' = {i \in 1 .. n + 1 :
        commits'[i][path] # IF i = 1 THEN None ELSE commits'[i - 1][path]}
  BY <1>1 DEF Touching
<1>6. Touching(1, path) = {i \in 1 .. n :
        commits[i][path] # IF i = 1 THEN None ELSE commits[i - 1][path]}
  BY DEF Touching, n
<1>7. ASSUME NEW i \in 1 .. n + 1
      PROVE  i \in Touching(1, path)' <=> i \in Touching(1, path)
  <2>1. CASE i \in 1 .. n
    BY <1>2, <1>5, <1>6, <1>7, <2>1
  <2>2. CASE i = n + 1
    <3>1. i \notin 1 .. n
      BY <1>1, <2>2
    <3>2. i # 1 /\ i - 1 = n
      BY <1>1, <2>2
    <3>3. commits'[i][path] = commits'[n][path]
      BY <1>3, <2>2
    <3> QED
      BY <1>5, <1>6, <3>1, <3>2, <3>3
  <2> QED
    BY <1>4, <1>7, <2>1, <2>2
<1>8. Touching(1, path)' \subseteq 1 .. n + 1 /\ Touching(1, path) \subseteq 1 .. n + 1
  BY <1>4, <1>5, <1>6
<1> HIDE DEF n
<1> QED
  BY <1>7, <1>8

\* The baseline the commit leaves where it was.
LEMMA SameBaselineAfter ==
  ASSUME TreeInv, [Next]_vars, commits' # commits, HeadTree' = work,
         NEW c \in Caps, NEW since \in 0 .. Len(commits),
         Checked(View(since, TRUE), c),
         since # 0 \/ work[SpecOf(c)] = HeadTree[SpecOf(c)]
  PROVE  /\ Baseline(View(since, FALSE), c)' = Baseline(View(since, TRUE), c)
         /\ Baseline(View(since, TRUE), c) \in 1 .. Len(commits)
<1>0. /\ Len(commits) \in Nat \ {0} /\ Len(commits') = Len(commits) + 1 /\ work' = work
  BY WholeCommit
<1>1. /\ View(since, TRUE).edge = 1 /\ View(since, TRUE).since = since
      /\ View(since, FALSE)' = View(since, FALSE)
      /\ View(since, FALSE).edge = 1 /\ View(since, FALSE).since = since
  BY <1>0 DEF View
<1>2. CASE since # 0
  <2>1. since \in 1 .. Len(commits) /\ since \in 1 .. Len(commits')
    BY <1>0, <1>2
  <2> QED
    BY <1>1, <2>1 DEF Baseline
<1>3. CASE since = 0
  <2>1. since \notin 1 .. Len(commits) /\ since \notin 1 .. Len(commits')
    BY <1>3
  <2>2. /\ Baseline(View(since, TRUE), c) = LastTouching(View(since, TRUE), SpecOf(c))
        /\ Baseline(View(since, FALSE), c)' = LastTouching(View(since, FALSE), SpecOf(c))'
    BY <1>1, <2>1 DEF Baseline
  <2>3. LastTouching(View(since, TRUE), SpecOf(c)) =
          IF Touching(1, SpecOf(c)) = {} THEN 0 ELSE Max(Touching(1, SpecOf(c)))
    BY <1>1 DEF LastTouching, Touching
  <2>4. LastTouching(View(since, FALSE), SpecOf(c))' =
          IF Touching(1, SpecOf(c))' = {} THEN 0 ELSE Max(Touching(1, SpecOf(c))')
    BY <1>1 DEF LastTouching, Touching
  <2>5. Touching(1, SpecOf(c))' = Touching(1, SpecOf(c))
    BY <1>3, SameTouching
  <2>6. LastTouching(View(since, TRUE), SpecOf(c)) # 0
    BY <2>2 DEF Checked
  <2>7. LastTouching(View(since, TRUE), SpecOf(c)) \in Touching(1, SpecOf(c))
    <3>1. View(since, TRUE).edge \in Nat
      BY DEF View
    <3> QED
      BY <1>0, <1>1, <2>6, <3>1, LastTouchingIsLast
  <2> QED
    BY <2>2, <2>3, <2>4, <2>5, <2>7 DEF Touching
<1> QED
  BY <1>2, <1>3

\* What changed since a baseline, as --working sees it before the commit of the
\* whole tree and as HEAD shows it after: the same, but for a code file that was
\* removed from HEAD and is there again as it was.
LEMMA SameChanges ==
  ASSUME TreeInv, [Next]_vars, commits' # commits, HeadTree' = work,
         NEW since, NEW i \in 1 .. Len(commits)
  PROVE  /\ ChangedSince(View(since, FALSE), i)' \subseteq ChangedSince(View(since, TRUE), i)
         /\ \A p \in ChangedSince(View(since, TRUE), i) :
              p \in Lasting => p \in ChangedSince(View(since, FALSE), i)'
<1> DEFINE before == View(since, TRUE)
           Loose  == Untracked(before)
<1>0. /\ commits'[i] = commits[i] /\ HeadTree' = work
      /\ before.working = TRUE /\ before.work = work
      /\ View(since, FALSE)'.working = FALSE
  BY WholeCommit DEF View
<1> DEFINE old == commits[i]
           now == Now(before)
<1>1. ChangedSince(View(since, FALSE), i)' =
        {p \in Paths : old[p] # work[p]} \ RenamedAway(old, work)
  <2>1. Now(View(since, FALSE))' = [p \in Paths |-> work[p]] /\ Untracked(View(since, FALSE))' = {}
    BY <1>0 DEF Now, Untracked
  <2>2. RenamedAway(old, Now(View(since, FALSE))') = RenamedAway(old, work)
    <3>1. CodePaths \subseteq Paths
      BY DEF Paths
    <3>2. \A p \in CodePaths : Now(View(since, FALSE))'[p] = work[p]
      BY <2>1, <3>1
    <3> QED
      BY <3>2, SameRenames
  <2>3. RenamedAway(commits[i], Now(View(since, FALSE)))' =
          RenamedAway(commits'[i], Now(View(since, FALSE))')
    BY DEF RenamedAway, Removed
  <2> QED
    BY <1>0, <2>1, <2>2, <2>3 DEF ChangedSince
<1>2. Loose = {p \in Paths : HeadTree[p] = None /\ work[p] # None}
  BY <1>0 DEF Untracked
<1>3. /\ ChangedSince(before, i) =
           ({p \in Paths : old[p] # now[p]} \ RenamedAway(old, now)) \cup Loose
      /\ \A p \in Paths : now[p] = IF p \in Loose THEN None ELSE work[p]
  BY <1>0 DEF ChangedSince, Now
<1> HIDE DEF before, Loose, now
<1>4. ASSUME NEW p \in Lasting, p \in Loose
      PROVE  commits[i][p] # work[p]
  BY <1>2, <1>4 DEF TreeInv, LastingFilesStay
<1>5. Loose \subseteq Paths
  BY <1>2
<1>6. ASSUME NEW p \in Paths, p \notin Loose, old[p] # work[p], p \in RenamedAway(old, now)
      PROVE  p \in RenamedAway(old, work)
  <2>1. CodePaths \subseteq Paths
    BY DEF Paths
  <2>2. p \in Removed(old, work)
    BY <1>3, <1>6, <2>1 DEF RenamedAway, Removed
  <2>3. Removed(old, work) \subseteq Removed(old, now)
    BY <1>2, <1>3, <2>1 DEF Removed
  <2>4. \A q \in Removed(now, old) : q \in Removed(work, old) /\ work[q] = now[q]
    BY <1>3, <2>1 DEF Removed
  <2> HIDE DEF old
  <2> QED
    BY <1>6, <2>2, <2>3, <2>4, RenamesStay
<1>7. \A p : p \in Lasting => p \notin RenamedAway(old, now) /\ p \notin RenamedAway(old, work)
  BY DEF Lasting, RenamedAway, Removed
<1> HIDE DEF old
<1>8. \A p \in Lasting : p \in Loose => old[p] # work[p]
  BY <1>4 DEF old
<1> QED
  BY <1>1, <1>3, <1>5, <1>6, <1>7, <1>8 DEF before

\* The records that changed since are the same ones.
LEMMA SameRecords ==
  ASSUME TreeInv, [Next]_vars, commits' # commits, HeadTree' = work,
         NEW since, NEW i \in 1 .. Len(commits)
  PROVE  RecordsSince(View(since, FALSE), i)' = RecordsSince(View(since, TRUE), i)
<1>0. View(since, TRUE).work = work /\ View(since, FALSE)'.work = work
  BY WholeCommit DEF View
<1>1. ASSUME NEW p, p.kind = "record"
      PROVE  p \in ChangedSince(View(since, FALSE), i)' <=> p \in ChangedSince(View(since, TRUE), i)
  <2>1. p \in Paths => p \in Lasting
    BY <1>1 DEF Lasting, CodePaths, CodeFile
  <2>2. p \in ChangedSince(View(since, TRUE), i) => p \in Paths
    BY DEF ChangedSince, Untracked
  <2> QED
    BY <2>1, <2>2, SameChanges
<1>2. RecordsSince(View(since, TRUE), i) =
        {work[p] : p \in {q \in ChangedSince(View(since, TRUE), i) : q.kind = "record" /\ work[q] # None}}
  BY <1>0 DEF RecordsSince
<1>3. RecordsSince(View(since, FALSE), i)' =
        {work[p] : p \in {q \in ChangedSince(View(since, FALSE), i)' : q.kind = "record" /\ work[q] # None}}
  BY <1>0 DEF RecordsSince
<1> QED
  BY <1>1, <1>2, <1>3

\* --working misses nothing: what the commit of the whole tree makes drift, under
\* any baseline it does not move, was drift of the same kind before the commit
\* (_changed_files with working).
THEOREM WorkingSees == Spec => WorkingMissesNothing
<1>1. ASSUME TreeInv, [Next]_vars, commits' # commits, HeadTree' = work,
             NEW c \in Caps, NEW since \in 0 .. Len(commits),
             Checked(View(since, TRUE), c),
             since # 0 \/ work[SpecOf(c)] = HeadTree[SpecOf(c)]
      PROVE  Drifted(View(since, FALSE), c)' \subseteq Drifted(View(since, TRUE), c)
  <2>1. PICK i \in 1 .. Len(commits) : /\ i = Baseline(View(since, TRUE), c)
                                       /\ i = Baseline(View(since, FALSE), c)'
    BY <1>1, SameBaselineAfter
  <2> DEFINE Was == ChangedSince(View(since, TRUE), i)
             Is  == ChangedSince(View(since, FALSE), i)'
  <2>2. Is \subseteq Was /\ \A p \in Was : p \in Lasting => p \in Is
    BY <1>1, SameChanges
  <2>3. /\ TrackedSince(View(since, FALSE), i)' = TrackedSince(View(since, TRUE), i)
        /\ VouchedSince(View(since, FALSE), i, c)' = VouchedSince(View(since, TRUE), i, c)
    BY <1>1, SameRecords DEF TrackedSince, VouchedSince
  <2>4. /\ View(since, TRUE).work = work /\ View(since, TRUE).since = since
        /\ View(since, FALSE)'.work = work /\ View(since, FALSE)'.since = since
    BY <1>1, WholeCommit DEF View
  <2>5. \A d : MarkerGlobs(View(since, FALSE), d)' = MarkerGlobs(View(since, TRUE), d)
    BY <2>4 DEF MarkerGlobs
  <2>6. \A p : NamedElsewhere(View(since, FALSE), p, c)' <=> NamedElsewhere(View(since, TRUE), p, c)
    BY <2>5 DEF NamedElsewhere
  <2>7. \A p \in Was : IsOwnSpecDoc(p, c) => p \in Is
    <3>1. \A p : IsOwnSpecDoc(p, c) => p \in Lasting
      BY <1>1, Kinds DEF IsOwnSpecDoc, Docs
    <3> QED
      BY <2>2, <3>1
  <2> DEFINE Severity(p) == IF p \in TrackedSince(View(since, TRUE), i) THEN "tracked" ELSE "unspeced"
             Left(p)     == /\ ~ IsAnySpecDoc(p)
                            /\ p \notin Exempt \cup VouchedSince(View(since, TRUE), i, c)
                            /\ ~ NamedElsewhere(View(since, TRUE), p, c)
  <2>8. Drifted(View(since, TRUE), c) =
          IF since # 0 /\ \E p \in Was : IsOwnSpecDoc(p, c) THEN {}
          ELSE {[file |-> p, severity |-> Severity(p)] : p \in {q \in Was \cap Claims[c] : Left(q)}}
    BY <2>1, <2>4 DEF Drifted
  <2>9. Drifted(View(since, FALSE), c)' =
          IF since # 0 /\ \E p \in Is : IsOwnSpecDoc(p, c) THEN {}
          ELSE {[file |-> p, severity |-> Severity(p)] : p \in {q \in Is \cap Claims[c] : Left(q)}}
    BY <2>1, <2>3, <2>4, <2>6 DEF Drifted
  <2> HIDE DEF Was, Is, Severity, Left
  <2> QED
    BY <2>2, <2>7, <2>8, <2>9
<1> QED
  <2>1. TreeInv /\ [Next]_vars =>
          [commits' # commits /\ HeadTree' = work =>
             \A c \in Caps : \A since \in 0 .. Len(commits) :
               Checked(View(since, TRUE), c) /\ (since # 0 \/ work[SpecOf(c)] = HeadTree[SpecOf(c)]) =>
                 Drifted(View(since, FALSE), c)' \subseteq Drifted(View(since, TRUE), c)]_vars
    BY <1>1
  <2> QED
    BY <2>1, TreesStay, PTL DEF Spec, WorkingMissesNothing
=============================================================================
