-------------------------- MODULE SpecRecordProofs --------------------------
(***************************************************************************)
(* Safety of the lifecycle record of SpecRecord, for any tasks, substeps   *)
(* and steps, any tasks.md and any append log.  RecordInv is the inductive *)
(* invariant: records, tasks.md and log are of their types, and as long as *)
(* no call has had its turn while a derive ran, each boundary is in the    *)
(* history once, no finish is lost, and what the derive will publish knows *)
(* of every task the record knows of.  What folding a log does to a record *)
(* is Folds, with the close of the step Gathers; StatusInv, on top of it,  *)
(* bounds the status by the step the record is in.                         *)
(***************************************************************************)
EXTENDS SpecRecord, SequenceTheorems, NaturalsInduction, WellFoundedInduction, TLAPS

-----------------------------------------------------------------------------
(* Numbers and sequences                                                    *)

\* A set of natural numbers has a least one.
LEMMA LeastElement ==
  ASSUME NEW T, T \subseteq Nat, T # {}
  PROVE  \E n \in T : \A m \in T : n <= m
<1> DEFINE R == OpToRel(<, Nat)
<1>1. IsWellFoundedOn(R, Nat)
  BY NatLessThanWellFounded
<1>2. \A m, n \in Nat : m < n => <<m, n>> \in R
  BY DEF OpToRel
<1> HIDE DEF R
<1>3. PICK x \in T : \A y \in T : ~ (<<y, x>> \in R)
  BY <1>1, WFMin
<1>4. ASSUME NEW y \in T PROVE x <= y
  <2>1. x \in Nat /\ y \in Nat /\ ~ (y < x)
    BY <1>2, <1>3
  <2> QED
    BY <2>1
<1> QED
  BY <1>4

\* Min is an element.
LEMMA MinIsIn ==
  ASSUME NEW T, T \subseteq Nat, T # {}
  PROVE  Min(T) \in T
BY LeastElement DEF Min

\* Max is an element.
LEMMA MaxIsIn ==
  ASSUME NEW n \in Nat, NEW T, T \subseteq 1 .. n, T # {}
  PROVE  Max(T) \in T
<1> DEFINE rest == {k \in Nat : \E i \in T : k = n - i}
<1>1. PICK x \in T : x \in 1 .. n
  OBVIOUS
<1>2. n - x \in rest
  BY <1>1
<1>3. PICK k \in rest : \A m \in rest : k <= m
  BY <1>2, LeastElement
<1>4. PICK i \in T : i \in 1 .. n /\ k = n - i
  OBVIOUS
<1>5. ASSUME NEW j \in T PROVE i >= j
  <2>1. j \in 1 .. n /\ n - j \in rest
    OBVIOUS
  <2>2. k <= n - j
    BY <1>3, <2>1
  <2> HIDE DEF rest
  <2> QED
    BY <1>4, <2>1, <2>2
<1> QED
  BY <1>4, <1>5 DEF Max

\* A set that contains 0 and with a number below n the next one goes up to n.
LEMMA UpTo ==
  ASSUME NEW n \in Nat, NEW T, 0 \in T, \A i \in 0 .. n - 1 : i \in T => i + 1 \in T
  PROVE  0 .. n \subseteq T
<1> DEFINE missing == (0 .. n) \ T
<1>1. SUFFICES ASSUME missing # {} PROVE FALSE
  OBVIOUS
<1>2. missing \subseteq Nat
  OBVIOUS
<1> HIDE DEF missing
<1>3. PICK i \in missing : \A j \in missing : i <= j
  BY <1>1, <1>2, LeastElement
<1>4. i \in 0 .. n /\ i \notin T /\ i # 0 /\ i - 1 \in 0 .. n - 1
  BY <1>3 DEF missing
<1>5. i - 1 \notin missing
  BY <1>3, <1>4, <1>2
<1>6. i - 1 \in T /\ (i - 1) + 1 = i
  BY <1>4, <1>5 DEF missing
<1> QED
  BY <1>4, <1>6

\* An element more at the end.
LEMMA AppendSet ==
  ASSUME NEW S, NEW s \in Seq(S), NEW x \in S
  PROVE  /\ Append(s, x) \in Seq(S) /\ ToSet(Append(s, x)) = ToSet(s) \cup {x}
         /\ ToSet(s) \subseteq S
         /\ IsInjective(s) /\ x \notin ToSet(s) => IsInjective(Append(s, x))
<1>1. /\ Append(s, x) \in Seq(S) /\ Len(s) \in Nat /\ DOMAIN s = 1 .. Len(s)
      /\ DOMAIN Append(s, x) = 1 .. Len(s) + 1
      /\ \A i \in 1 .. Len(s) : Append(s, x)[i] = s[i] /\ s[i] \in S
      /\ Append(s, x)[Len(s) + 1] = x
  OBVIOUS
<1>2. ToSet(Append(s, x)) = ToSet(s) \cup {x}
  <2>1. ASSUME NEW y \in ToSet(Append(s, x)) PROVE y \in ToSet(s) \cup {x}
    <3>1. PICK i \in 1 .. Len(s) + 1 : y = Append(s, x)[i]
      BY <1>1 DEF ToSet
    <3>2. CASE i = Len(s) + 1
      BY <1>1, <3>1, <3>2
    <3>3. CASE i \in 1 .. Len(s)
      BY <1>1, <3>1, <3>3 DEF ToSet
    <3> QED
      BY <1>1, <3>2, <3>3
  <2>2. ASSUME NEW y \in ToSet(s) PROVE y \in ToSet(Append(s, x))
    <3>1. PICK i \in 1 .. Len(s) : y = s[i]
      BY <1>1 DEF ToSet
    <3>2. i \in 1 .. Len(s) + 1 /\ Append(s, x)[i] = y
      BY <1>1, <3>1
    <3> QED
      BY <1>1, <3>2 DEF ToSet
  <2>3. x \in ToSet(Append(s, x))
    <3>1. Len(s) + 1 \in 1 .. Len(s) + 1
      BY <1>1
    <3> QED
      BY <1>1, <3>1 DEF ToSet
  <2> QED
    BY <2>1, <2>2, <2>3
<1>3. ToSet(s) \subseteq S
  BY <1>1 DEF ToSet
<1>4. ASSUME IsInjective(s), x \notin ToSet(s) PROVE IsInjective(Append(s, x))
  <2> SUFFICES ASSUME NEW i \in 1 .. Len(s) + 1, NEW j \in 1 .. Len(s) + 1,
                      Append(s, x)[i] = Append(s, x)[j]
               PROVE  i = j
    BY <1>1 DEF IsInjective
  <2>1. \A k \in 1 .. Len(s) : Append(s, x)[k] # x
    BY <1>1, <1>4 DEF ToSet
  <2>2. CASE i \in 1 .. Len(s) /\ j \in 1 .. Len(s)
    BY <1>1, <1>4, <2>2 DEF IsInjective
  <2>3. CASE i = Len(s) + 1 \/ j = Len(s) + 1
    BY <1>1, <2>1, <2>3
  <2> QED
    BY <1>1, <2>2, <2>3
<1> QED
  BY <1>1, <1>2, <1>3, <1>4

-----------------------------------------------------------------------------
(* What a call adds to the record.                                          *)

\* The entries that close a task and the implement step.
Fin(t) == Entry("implement", t, "complete")
Fins(T) == {Fin(t) : t \in T}
Close == Entry("implement", None, "complete")

\* r is c with the entries E at the end of the history, those it had not yet.
Adds(c, r, E) ==
  /\ r \in Records
  /\ ToSet(r.history) = ToSet(c.history) \cup E
  /\ IsInjective(c.history) => IsInjective(r.history)
  /\ E \subseteq ToSet(c.history) => r.history = c.history
  /\ Len(c.history) \in 0 .. Len(r.history)

\* The fields of a record.
LEMMA RecordFields ==
  ASSUME NEW c \in Records
  PROVE  /\ c.status \in ToSet(StatusOrder) \cup {None} /\ c.step \in AllSteps \cup {None}
         /\ c.task \in Tasks \cup {None} /\ c.history \in Seq(Entries) /\ c.summaries \subseteq Tasks
BY DEF Records

\* The entries that are appended.
LEMMA EntryTyped ==
  /\ \A t \in Tasks : Fin(t) \in Entries
  /\ Close \in Entries
  /\ \A s \in AllSteps, sub \in Substeps \cup {None}, k \in {"start", "complete"} :
       Entry(s, sub, k) \in Entries
BY DEF Fin, Close, Entry, Entries, AllSteps

\* What two calls add, together.
LEMMA AddsTogether ==
  ASSUME NEW c, NEW r, NEW q, NEW E, NEW F, Adds(c, r, E), Adds(r, q, F)
  PROVE  Adds(c, q, E \cup F)
<1>1. Len(c.history) \in 0 .. Len(q.history)
  <2>1. Len(c.history) \in 0 .. Len(r.history) /\ Len(r.history) \in 0 .. Len(q.history)
    BY DEF Adds
  <2>2. q.history \in Seq(Entries)
    BY RecordFields DEF Adds
  <2>3. Len(q.history) \in Nat
    BY <2>2
  <2> QED
    BY <2>1, <2>3
<1> QED
  BY <1>1 DEF Adds

\* A record with the same history has nothing added.
LEMMA AddsNothing ==
  ASSUME NEW c \in Records, NEW r \in Records, r.history = c.history
  PROVE  Adds(c, r, {})
<1>1. c.history \in Seq(Entries)
  BY RecordFields
<1>2. Len(c.history) \in 0 .. Len(r.history)
  BY <1>1
<1> QED
  BY <1>2 DEF Adds

\* append_complete and the guarded start add their entry and nothing else.
LEMMA AppendOnceAdds ==
  ASSUME NEW c \in Records, NEW e \in Entries
  PROVE  /\ Adds(c, AppendOnce(c, e), {e})
         /\ AppendOnce(c, e).status = c.status /\ AppendOnce(c, e).step = c.step
         /\ AppendOnce(c, e).task = c.task /\ AppendOnce(c, e).summaries = c.summaries
         /\ AppendOnce(c, e).history = IF e \in ToSet(c.history) THEN c.history ELSE Append(c.history, e)
<1> DEFINE h == IF e \in ToSet(c.history) THEN c.history ELSE Append(c.history, e)
<1>1. h \in Seq(Entries) /\ ToSet(h) = ToSet(c.history) \cup {e}
      /\ (IsInjective(c.history) => IsInjective(h)) /\ (e \in ToSet(c.history) => h = c.history)
  BY AppendSet, RecordFields
<1>4. Len(c.history) \in 0 .. Len(h)
  <2>1. c.history \in Seq(Entries)
    BY RecordFields
  <2>2. Len(c.history) \in Nat /\ Len(Append(c.history, e)) = Len(c.history) + 1
    BY <2>1
  <2> QED
    BY <2>2
<1>2. AppendOnce(c, e) = [c EXCEPT !.history = h]
  BY DEF AppendOnce
<1> HIDE DEF h
<1>3. /\ AppendOnce(c, e) \in Records /\ AppendOnce(c, e).history = h
      /\ AppendOnce(c, e).status = c.status /\ AppendOnce(c, e).step = c.step
      /\ AppendOnce(c, e).task = c.task /\ AppendOnce(c, e).summaries = c.summaries
  BY <1>1, <1>2 DEF Records
<1> QED
  BY <1>1, <1>3, <1>4 DEF Adds, h

\* The statuses are distinct values, and their order.
LEMMA StatusFacts ==
  /\ ToSet(StatusOrder) = {"specifying", "specified", "planning", "planned", "tasking",
                           "ready-to-implement", "implementing", "implemented", "completed", "archived"}
  /\ None \notin ToSet(StatusOrder) /\ None \notin Tasks
<1>1. DOMAIN StatusOrder = 1 .. 10
  BY DEF StatusOrder
<1>2. 1 .. 10 = {1, 2, 3, 4, 5, 6, 7, 8, 9, 10}
  OBVIOUS
<1>3. ToSet(StatusOrder) = {StatusOrder[i] : i \in {1, 2, 3, 4, 5, 6, 7, 8, 9, 10}}
  BY <1>1, <1>2 DEF ToSet
<1>4. ToSet(StatusOrder) = {"specifying", "specified", "planning", "planned", "tasking",
                           "ready-to-implement", "implementing", "implemented", "completed", "archived"}
  BY <1>3 DEF StatusOrder
<1> QED
  BY <1>4, NoneAssumption

\* Folding one finish.
LEMMA FoldOneAdds ==
  ASSUME NEW c \in Records, NEW t \in Tasks, NEW md
  PROVE  /\ Adds(c, FoldTaskFinish(c, t, md), {Fin(t)})
         /\ FoldTaskFinish(c, t, md).step = "implement"
         /\ FoldTaskFinish(c, t, md).summaries = c.summaries \cup {t}
         /\ c.status \in TerminalStatuses => FoldTaskFinish(c, t, md).status = c.status
         /\ c.status \notin TerminalStatuses =>
              FoldTaskFinish(c, t, md).status \in {"implementing", "implemented"}
         /\ FoldTaskFinish(c, t, md).history
              = IF Fin(t) \in ToSet(c.history) THEN c.history ELSE Append(c.history, Fin(t))
<1> DEFINE status == IF c.status \in TerminalStatuses THEN c.status
                     ELSE IF TasksAt100(md) THEN "implemented" ELSE "implementing"
           b == [c EXCEPT !.step = "implement", !.task = t, !.status = status,
                          !.summaries = c.summaries \cup {t}]
<1>1. status \in ToSet(StatusOrder) \cup {None}
  BY RecordFields, StatusFacts
<1>2. FoldTaskFinish(c, t, md) = AppendOnce(b, Fin(t))
  BY DEF FoldTaskFinish, Fin
<1>3. /\ c.status \in TerminalStatuses => status = c.status
      /\ c.status \notin TerminalStatuses => status \in {"implementing", "implemented"}
  OBVIOUS
<1> HIDE DEF status
<1>4. /\ b \in Records /\ b.step = "implement" /\ b.status = status
      /\ b.summaries = c.summaries \cup {t} /\ b.history = c.history
  BY <1>1, RecordFields DEF Records, AllSteps
<1> HIDE DEF b
<1>5. Fin(t) \in Entries
  BY EntryTyped
<1>6. /\ Adds(b, AppendOnce(b, Fin(t)), {Fin(t)})
      /\ AppendOnce(b, Fin(t)).status = b.status /\ AppendOnce(b, Fin(t)).step = b.step
      /\ AppendOnce(b, Fin(t)).summaries = b.summaries
      /\ AppendOnce(b, Fin(t)).history
           = IF Fin(t) \in ToSet(b.history) THEN b.history ELSE Append(b.history, Fin(t))
  BY <1>4, <1>5, AppendOnceAdds
<1>7. Adds(c, AppendOnce(b, Fin(t)), {Fin(t)})
  BY <1>4, <1>6 DEF Adds
<1> QED
  BY <1>2, <1>3, <1>4, <1>6, <1>7

-----------------------------------------------------------------------------
(* Folding the append log.                                                  *)

\* f[i] is the record after the first i lines.
Folding(c, md, lines, f) ==
  /\ f[0] = c
  /\ \A i \in 0 .. Len(lines) - 1 : f[i + 1] = FoldTaskFinish(f[i], lines[i + 1], md)

\* FoldLines folds one line after the other.
LEMMA FoldLinesUnfold ==
  ASSUME NEW c, NEW md, NEW lines \in Seq(Tasks)
  PROVE  \E f : Folding(c, md, lines, f) /\ FoldLines(c, md, lines) = f[Len(lines)]
<1> DEFINE n == Len(lines)
           Def(v, i) == The({FoldTaskFinish(r, lines[i], md) : r \in {v}})
           f == CHOOSE g : g = [i \in 0 .. n |-> IF i = 0 THEN c
                                ELSE The({FoldTaskFinish(r, lines[i], md) : r \in {g[i - 1]}})]
<1>1. n \in Nat /\ 0 \in Nat
  OBVIOUS
<1>2. FoldLines(c, md, lines) = f[n]
  BY DEF FoldLines, Replay
<1>3. FiniteNatInductiveDefHypothesis(f, c, Def, 0, n)
  BY DEF FiniteNatInductiveDefHypothesis
<1>4. \A v, i : Def(v, i) = FoldTaskFinish(v, lines[i], md)
  <2> SUFFICES ASSUME NEW v, NEW i PROVE Def(v, i) = FoldTaskFinish(v, lines[i], md)
    OBVIOUS
  <2>1. {FoldTaskFinish(r, lines[i], md) : r \in {v}} = {FoldTaskFinish(v, lines[i], md)}
    OBVIOUS
  <2> QED
    BY <2>1 DEF The
<1> HIDE DEF Def, f, n
<1>5. FiniteNatInductiveDefConclusion(f, c, Def, 0, n)
  BY <1>1, <1>3, FiniteNatInductiveDef
<1>6. f = [i \in 0 .. n |-> IF i = 0 THEN c ELSE Def(f[i - 1], i)]
  BY <1>5 DEF FiniteNatInductiveDefConclusion
<1>7. f[0] = c
  BY <1>1, <1>6
<1>8. ASSUME NEW i \in 0 .. n - 1 PROVE f[i + 1] = FoldTaskFinish(f[i], lines[i + 1], md)
  <2>1. i + 1 \in 0 .. n /\ i + 1 # 0 /\ (i + 1) - 1 = i
    BY <1>1
  <2>2. f[i + 1] = Def(f[i], i + 1)
    BY <1>6, <2>1
  <2> QED
    BY <1>4, <2>2
<1> QED
  BY <1>2, <1>7, <1>8 DEF Folding, n

\* What folding the lines of T into c makes of it.
Folds(c, r, T) ==
  /\ Adds(c, r, Fins(T))
  /\ r.summaries = c.summaries \cup T
  /\ T # {} => r.step = "implement"
  /\ T = {} => r = c
  /\ c.status \in TerminalStatuses => r.status = c.status
  /\ c.status \notin TerminalStatuses /\ T # {} => r.status \in {"implementing", "implemented"}

\* One more line.
LEMMA FoldsOneMore ==
  ASSUME NEW c \in Records, NEW r, NEW T, Folds(c, r, T), NEW t \in Tasks, NEW md
  PROVE  Folds(c, FoldTaskFinish(r, t, md), T \cup {t})
<1> DEFINE q == FoldTaskFinish(r, t, md)
<1>1. r \in Records
  BY DEF Folds, Adds
<1>2. /\ Adds(r, q, {Fin(t)}) /\ q.step = "implement" /\ q.summaries = r.summaries \cup {t}
      /\ r.status \in TerminalStatuses => q.status = r.status
      /\ r.status \notin TerminalStatuses => q.status \in {"implementing", "implemented"}
  BY <1>1, FoldOneAdds
<1> HIDE DEF q
<1>3. Fins(T \cup {t}) = Fins(T) \cup {Fin(t)}
  BY DEF Fins
<1>4. Adds(c, q, Fins(T \cup {t}))
  BY <1>2, <1>3, AddsTogether DEF Folds
<1>5. /\ c.status \in TerminalStatuses => q.status = c.status
      /\ c.status \notin TerminalStatuses => q.status \in {"implementing", "implemented"}
  BY <1>2 DEF Folds, TerminalStatuses
<1>6. T \cup {t} # {} /\ q.summaries = c.summaries \cup (T \cup {t})
  BY <1>2 DEF Folds
<1> QED
  BY <1>2, <1>4, <1>5, <1>6 DEF Folds, q

\* Folding a log into a record adds the finishes of its lines and no other.
LEMMA FoldLinesDoes ==
  ASSUME NEW c \in Records, NEW md, NEW lines \in Seq(Tasks)
  PROVE  Folds(c, FoldLines(c, md, lines), ToSet(lines))
<1>1. PICK f : Folding(c, md, lines, f) /\ FoldLines(c, md, lines) = f[Len(lines)]
  BY FoldLinesUnfold
<1> DEFINE n == Len(lines)
           First(k) == {lines[j] : j \in 1 .. k}
           T == {k \in 0 .. n : Folds(c, f[k], First(k))}
<1>2. n \in Nat
  OBVIOUS
<1>3. 0 \in T
  <2>1. First(0) = {} /\ f[0] = c /\ Fins({}) = {}
    BY <1>1 DEF Folding, Fins
  <2>2. Adds(c, c, {})
    BY AddsNothing
  <2>3. Folds(c, c, {})
    BY <2>1, <2>2 DEF Folds
  <2> HIDE DEF First
  <2> QED
    BY <1>2, <2>1, <2>3
<1>4. ASSUME NEW i \in 0 .. n - 1, i \in T PROVE i + 1 \in T
  <2>1. i + 1 \in 1 .. n /\ lines[i + 1] \in Tasks
    BY <1>2
  <2>2. First(i + 1) = First(i) \cup {lines[i + 1]}
    BY <2>1
  <2> HIDE DEF First
  <2>3. f[i + 1] = FoldTaskFinish(f[i], lines[i + 1], md)
    BY <1>1 DEF Folding
  <2>4. Folds(c, f[i + 1], First(i + 1))
    BY <1>4, <2>1, <2>2, <2>3, FoldsOneMore
  <2> QED
    BY <2>1, <2>4
<1>5. 0 .. n \subseteq T
  <2> HIDE DEF T, n
  <2> QED
    BY <1>2, <1>3, <1>4, UpTo
<1>6. First(n) = ToSet(lines)
  BY DEF ToSet
<1> HIDE DEF First
<1>7. Folds(c, f[n], First(n))
  BY <1>2, <1>5
<1> QED
  BY <1>1, <1>6, <1>7

\* One line more is folded last.
LEMMA FoldLinesAppend ==
  ASSUME NEW c, NEW md, NEW lines \in Seq(Tasks), NEW t \in Tasks
  PROVE  FoldLines(c, md, Append(lines, t)) = FoldTaskFinish(FoldLines(c, md, lines), t, md)
<1> DEFINE more == Append(lines, t)
           n == Len(lines)
<1>1. /\ more \in Seq(Tasks) /\ n \in Nat /\ Len(more) = n + 1 /\ more[n + 1] = t
      /\ \A i \in 1 .. n : more[i] = lines[i]
  OBVIOUS
<1> HIDE DEF more
<1>2. PICK f : Folding(c, md, lines, f) /\ FoldLines(c, md, lines) = f[n]
  BY FoldLinesUnfold
<1>3. PICK g : Folding(c, md, more, g) /\ FoldLines(c, md, more) = g[n + 1]
  BY <1>1, FoldLinesUnfold
<1> DEFINE T == {k \in 0 .. n : f[k] = g[k]}
<1>4. 0 \in T
  <2>1. f[0] = g[0]
    BY <1>2, <1>3 DEF Folding
  <2> QED
    BY <1>1, <2>1
<1>5. ASSUME NEW i \in 0 .. n - 1, i \in T PROVE i + 1 \in T
  <2>1. i + 1 \in 1 .. n /\ i \in 0 .. (n + 1) - 1
    BY <1>1
  <2>2. f[i + 1] = FoldTaskFinish(f[i], lines[i + 1], md)
    BY <1>2 DEF Folding
  <2>3. g[i + 1] = FoldTaskFinish(g[i], lines[i + 1], md)
    BY <1>1, <1>3, <2>1 DEF Folding
  <2> QED
    BY <1>5, <2>1, <2>2, <2>3
<1>6. 0 .. n \subseteq T
  <2> HIDE DEF T, n
  <2> QED
    BY <1>1, <1>4, <1>5, UpTo
<1>7. f[n] = g[n]
  BY <1>1, <1>6
<1>8. g[n + 1] = FoldTaskFinish(g[n], more[n + 1], md)
  BY <1>1, <1>3 DEF Folding
<1> QED
  BY <1>1, <1>2, <1>3, <1>7, <1>8 DEF more

-----------------------------------------------------------------------------
(* Finishes for the boxes that are checked.                                 *)

\* The line as JournalFresh sees it.
FreshLine(r, line, c, md) ==
  IF line.id \in DoneIds(md) /\ line.id \notin JournaledTasks(c)
  THEN AppendOnce(r, Entry("implement", line.id, "complete")) ELSE r

\* f[i] is the record after the first i lines of tasks.md.
Freshening(c, md, f) ==
  /\ f[0] = c
  /\ \A i \in 0 .. Len(md) - 1 : f[i + 1] = FreshLine(f[i], md[i + 1], c, md)

\* JournalFresh looks at one line after the other.
LEMMA JournalFreshUnfold ==
  ASSUME NEW c, NEW md \in Documents
  PROVE  \E f : Freshening(c, md, f) /\ JournalFresh(c, md) = f[Len(md)]
<1> DEFINE n == Len(md)
           Op(r, line) == IF line.id \in DoneIds(md) /\ line.id \notin JournaledTasks(c)
                          THEN AppendOnce(r, Entry("implement", line.id, "complete")) ELSE r
           Def(v, i) == The({Op(r, md[i]) : r \in {v}})
           f == CHOOSE g : g = [i \in 0 .. n |-> IF i = 0 THEN c
                                ELSE The({Op(r, md[i]) : r \in {g[i - 1]}})]
<1>1. n \in Nat /\ 0 \in Nat
  BY DEF Documents
<1>2. JournalFresh(c, md) = f[n]
  BY DEF JournalFresh, Replay
<1>3. FiniteNatInductiveDefHypothesis(f, c, Def, 0, n)
  BY DEF FiniteNatInductiveDefHypothesis
<1>4. \A v, i : Def(v, i) = FreshLine(v, md[i], c, md)
  <2> SUFFICES ASSUME NEW v, NEW i PROVE Def(v, i) = FreshLine(v, md[i], c, md)
    OBVIOUS
  <2>1. Op(v, md[i]) = FreshLine(v, md[i], c, md)
    BY DEF FreshLine
  <2> HIDE DEF Op
  <2>2. {Op(r, md[i]) : r \in {v}} = {Op(v, md[i])}
    OBVIOUS
  <2> QED
    BY <2>1, <2>2 DEF The
<1> HIDE DEF Def, f, n
<1>5. FiniteNatInductiveDefConclusion(f, c, Def, 0, n)
  BY <1>1, <1>3, FiniteNatInductiveDef
<1>6. f = [i \in 0 .. n |-> IF i = 0 THEN c ELSE Def(f[i - 1], i)]
  BY <1>5 DEF FiniteNatInductiveDefConclusion
<1>7. f[0] = c
  BY <1>1, <1>6
<1>8. ASSUME NEW i \in 0 .. n - 1 PROVE f[i + 1] = FreshLine(f[i], md[i + 1], c, md)
  <2>1. i + 1 \in 0 .. n /\ i + 1 # 0 /\ (i + 1) - 1 = i
    BY <1>1
  <2>2. f[i + 1] = Def(f[i], i + 1)
    BY <1>6, <2>1
  <2> QED
    BY <1>4, <2>2
<1> QED
  BY <1>2, <1>7, <1>8 DEF Freshening, n

\* The lines of tasks.md.
LEMMA DocumentFields ==
  ASSUME NEW md \in Documents
  PROVE  /\ Len(md) \in Nat /\ DOMAIN md = 1 .. Len(md)
         /\ \A i \in 1 .. Len(md) : md[i] \in [id : Tasks, checked : BOOLEAN] /\ md[i].id \in Tasks
         /\ AllIds(md) = {md[i].id : i \in 1 .. Len(md)}
         /\ AllIds(md) \subseteq Tasks /\ DoneIds(md) \subseteq AllIds(md)
<1>1. /\ Len(md) \in Nat /\ DOMAIN md = 1 .. Len(md)
      /\ \A i \in 1 .. Len(md) : md[i] \in [id : Tasks, checked : BOOLEAN]
  <2> DEFINE L == [id : Tasks, checked : BOOLEAN]
  <2>1. md \in Seq(L)
    BY DEF Documents
  <2> HIDE DEF L
  <2>2. Len(md) \in Nat /\ DOMAIN md = 1 .. Len(md) /\ \A i \in 1 .. Len(md) : md[i] \in L
    BY <2>1
  <2> QED
    BY <2>2 DEF L
<1>2. AllIds(md) = {md[i].id : i \in 1 .. Len(md)}
  BY <1>1 DEF AllIds, ToSet
<1>3. \A i \in 1 .. Len(md) : md[i].id \in Tasks
  BY <1>1
<1>4. DoneIds(md) \subseteq AllIds(md)
  BY <1>1, <1>2 DEF DoneIds
<1>5. AllIds(md) \subseteq Tasks
  BY <1>2, <1>3
<1> QED
  BY <1>1, <1>2, <1>3, <1>4, <1>5

\* r is c with the finishes of T, and otherwise as c.
Freshens(c, r, T) ==
  /\ Adds(c, r, Fins(T))
  /\ r.status = c.status /\ r.step = c.step /\ r.task = c.task /\ r.summaries = c.summaries

\* Every checked task without a finish gets one.
LEMMA JournalFreshDoes ==
  ASSUME NEW c \in Records, NEW md \in Documents
  PROVE  Freshens(c, JournalFresh(c, md), DoneIds(md) \ JournaledTasks(c))
<1>1. PICK f : Freshening(c, md, f) /\ JournalFresh(c, md) = f[Len(md)]
  BY JournalFreshUnfold
<1> DEFINE n == Len(md)
           New == DoneIds(md) \ JournaledTasks(c)
           First(k) == {md[j].id : j \in 1 .. k} \cap New
           T == {k \in 0 .. n : Freshens(c, f[k], First(k))}
<1>2. n \in Nat /\ (\A i \in 1 .. n : md[i].id \in Tasks)
      /\ AllIds(md) = {md[i].id : i \in 1 .. n} /\ DoneIds(md) \subseteq AllIds(md)
  BY DocumentFields
<1>3. 0 \in T
  <2>1. First(0) = {} /\ f[0] = c /\ Fins({}) = {}
    BY <1>1 DEF Freshening, Fins
  <2>2. Adds(c, c, {})
    BY AddsNothing
  <2>3. Freshens(c, c, {})
    BY <2>1, <2>2 DEF Freshens
  <2> HIDE DEF First
  <2>4. Freshens(c, f[0], First(0))
    BY <2>1, <2>3
  <2>5. 0 \in 0 .. n
    BY <1>2
  <2> QED
    BY <2>4, <2>5
<1>4. ASSUME NEW i \in 0 .. n - 1, i \in T PROVE i + 1 \in T
  <2> DEFINE id == md[i + 1].id
  <2>1. i + 1 \in 1 .. n /\ id \in Tasks
    BY <1>2
  <2>2. /\ id \in New => First(i + 1) = First(i) \cup {id}
        /\ id \notin New => First(i + 1) = First(i)
    BY <2>1
  <2>3. f[i + 1] = IF id \in New THEN AppendOnce(f[i], Fin(id)) ELSE f[i]
    BY <1>1 DEF Freshening, FreshLine, Fin
  <2>4. Freshens(c, f[i], First(i))
    BY <1>4
  <2> HIDE DEF First, New, id
  <2>5. CASE id \notin New
    BY <2>1, <2>2, <2>3, <2>4, <2>5
  <2>6. CASE id \in New
    <3>1. f[i] \in Records /\ Fin(id) \in Entries
      BY <2>1, <2>4, EntryTyped DEF Freshens, Adds
    <3>2. Fins(First(i + 1)) = Fins(First(i)) \cup {Fin(id)}
      BY <2>2, <2>6 DEF Fins
    <3>3. Adds(c, AppendOnce(f[i], Fin(id)), Fins(First(i + 1)))
      <4>1. Adds(f[i], AppendOnce(f[i], Fin(id)), {Fin(id)}) /\ Adds(c, f[i], Fins(First(i)))
        BY <2>4, <3>1, AppendOnceAdds DEF Freshens
      <4> QED
        BY <3>2, <4>1, AddsTogether
    <3>4. Freshens(c, f[i + 1], First(i + 1))
      <4> DEFINE r == AppendOnce(f[i], Fin(id))
      <4>1. /\ r.status = f[i].status /\ r.step = f[i].step /\ r.task = f[i].task
            /\ r.summaries = f[i].summaries
        BY <3>1, AppendOnceAdds
      <4> HIDE DEF r
      <4>2. /\ f[i].status = c.status /\ f[i].step = c.step /\ f[i].task = c.task
            /\ f[i].summaries = c.summaries
        BY <2>4 DEF Freshens
      <4>3. f[i + 1] = r /\ Adds(c, r, Fins(First(i + 1)))
        BY <2>3, <2>6, <3>3 DEF r
      <4>4. Freshens(c, r, First(i + 1))
        BY <4>1, <4>2, <4>3 DEF Freshens
      <4> QED
        BY <4>3, <4>4
    <3> QED
      BY <2>1, <3>4
  <2> QED
    BY <2>5, <2>6
<1>5. 0 .. n \subseteq T
  <2> HIDE DEF T, n
  <2> QED
    BY <1>2, <1>3, <1>4, UpTo
<1>6. First(n) = New
  BY <1>2
<1> HIDE DEF First, New
<1>7. Freshens(c, f[n], First(n))
  BY <1>2, <1>5
<1> QED
  BY <1>1, <1>6, <1>7 DEF New

-----------------------------------------------------------------------------
(* tasks.md *)

\* Every task is on one line.
Once(md) == \A i, j \in 1 .. Len(md) : md[i].id = md[j].id => i = j

\* Checking boxes checks those boxes.
LEMMA MarkDone ==
  ASSUME NEW md \in Documents, NEW ids
  PROVE  /\ MarkTasksDone(md, ids) \in Documents
         /\ Len(MarkTasksDone(md, ids)) = Len(md)
         /\ \A i \in 1 .. Len(md) : /\ MarkTasksDone(md, ids)[i].id = md[i].id
                                    /\ MarkTasksDone(md, ids)[i].checked
                                         <=> (md[i].checked \/ md[i].id \in ids)
         /\ AllIds(MarkTasksDone(md, ids)) = AllIds(md)
         /\ DoneIds(MarkTasksDone(md, ids)) = DoneIds(md) \cup (ids \cap AllIds(md))
         /\ Once(md) => Once(MarkTasksDone(md, ids))
<1> DEFINE new == MarkTasksDone(md, ids)
           n == Len(md)
<1>1. /\ n \in Nat /\ DOMAIN md = 1 .. n
      /\ \A i \in 1 .. n : md[i] \in [id : Tasks, checked : BOOLEAN]
  BY DocumentFields
<1>2. new = [i \in 1 .. n |-> IF md[i].id \in ids THEN [md[i] EXCEPT !.checked = TRUE] ELSE md[i]]
  BY <1>1 DEF MarkTasksDone
<1>3. \A i \in 1 .. n : /\ new[i] \in [id : Tasks, checked : BOOLEAN]
                        /\ new[i].id = md[i].id
                        /\ new[i].checked <=> (md[i].checked \/ md[i].id \in ids)
  BY <1>1, <1>2
<1>4. new \in Documents /\ Len(new) = n
  BY <1>1, <1>2, <1>3 DEF Documents
<1> HIDE DEF new
<1>5. /\ DOMAIN new = 1 .. n
      /\ AllIds(new) = {new[i].id : i \in 1 .. n} /\ AllIds(md) = {md[i].id : i \in 1 .. n}
  BY <1>4, DocumentFields
<1> HIDE DEF n
<1>6. AllIds(new) = AllIds(md)
  BY <1>3, <1>5
<1>7. DoneIds(new) = DoneIds(md) \cup (ids \cap AllIds(md))
  BY <1>1, <1>3, <1>5 DEF DoneIds
<1>8. Once(md) => Once(new)
  BY <1>3, <1>4 DEF Once, n
<1> QED
  BY <1>3, <1>4, <1>6, <1>7, <1>8 DEF new, n

-----------------------------------------------------------------------------
(* Folding and closing.                                                     *)

\* Whoever has a task as its substep is the finish of that task.
Subs(c) == \A e \in ToSet(c.history) : e.sub \in Tasks => e = Fin(e.sub)

\* Finishes of tasks are what the record knows of tasks.
LEMMA FinsJournal ==
  ASSUME NEW c, NEW r, NEW T, T \subseteq Tasks, Subs(c), Adds(c, r, Fins(T))
  PROVE  Subs(r) /\ JournaledTasks(r) = JournaledTasks(c) \cup T
<1>1. ToSet(r.history) = ToSet(c.history) \cup Fins(T)
  BY DEF Adds
<1>2. \A t \in T : Fin(t).sub = t
  BY DEF Fin, Entry
<1>3. Subs(r)
  BY <1>1, <1>2 DEF Subs, Fins
<1>4. {e.sub : e \in ToSet(r.history)} = {e.sub : e \in ToSet(c.history)} \cup T
  BY <1>1, <1>2 DEF Fins
<1> QED
  BY <1>3, <1>4 DEF JournaledTasks

\* Entries of steps and substeps tell nothing of tasks.
LEMMA OthersJournal ==
  ASSUME NEW c, NEW r, NEW e, e.sub \notin Tasks, Subs(c), Adds(c, r, {e})
  PROVE  Subs(r) /\ JournaledTasks(r) = JournaledTasks(c)
<1>1. ToSet(r.history) = ToSet(c.history) \cup {e}
  BY DEF Adds
<1>2. {x.sub : x \in ToSet(r.history)} = {x.sub : x \in ToSet(c.history)} \cup {e.sub}
  BY <1>1
<1> QED
  BY <1>1, <1>2 DEF Subs, JournaledTasks

\* A finish the record has is in its history.
LEMMA JournaledIsThere ==
  ASSUME NEW c, Subs(c), NEW T, T \subseteq JournaledTasks(c)
  PROVE  Fins(T) \subseteq ToSet(c.history)
<1> SUFFICES ASSUME NEW t \in T PROVE Fin(t) \in ToSet(c.history)
  BY DEF Fins
<1>1. PICK e \in ToSet(c.history) : e.sub = t /\ t \in Tasks
  BY DEF JournaledTasks
<1> QED
  BY <1>1 DEF Subs

\* What MaybeCloseImplement asks; of the record it looks at the history alone.
Closes(c, md) ==
  /\ TasksAt100(md) /\ NoDuplicates(md) /\ AllIds(md) \subseteq JournaledTasks(c)
  /\ Close \notin ToSet(c.history)

\* Whether the step closes is a matter of the history alone.
LEMMA ClosesByHistory ==
  ASSUME NEW c, NEW r, NEW md, c.history = r.history
  PROVE  Closes(c, md) <=> Closes(r, md)
BY DEF Closes, JournaledTasks

\* The close adds one entry, and the status it stands for.
LEMMA MaybeCloseDoes ==
  ASSUME NEW c \in Records, NEW md
  PROVE  /\ ~ Closes(c, md) => MaybeCloseImplement(c, md) = c
         /\ Closes(c, md) =>
              /\ Adds(c, MaybeCloseImplement(c, md), {Close})
              /\ MaybeCloseImplement(c, md).history = Append(c.history, Close)
              /\ c.status \in Shipped => MaybeCloseImplement(c, md).status = c.status
              /\ c.status \notin Shipped => MaybeCloseImplement(c, md).status = "implemented"
         /\ MaybeCloseImplement(c, md) \in Records
         /\ MaybeCloseImplement(c, md).step = c.step
         /\ MaybeCloseImplement(c, md).summaries = c.summaries
<1> DEFINE a == AppendOnce(c, Close)
           status == IF c.status \in Shipped THEN c.status ELSE "implemented"
           r == [a EXCEPT !.status = status]
<1>1. MaybeCloseImplement(c, md)
        = IF Closes(c, md) THEN [a EXCEPT !.status = IF @ \in Shipped THEN @ ELSE "implemented"]
          ELSE c
  BY DEF MaybeCloseImplement, Closes, Has, Close
<1>2. Close \in Entries
  BY EntryTyped
<1>3. /\ Adds(c, a, {Close}) /\ a.status = c.status /\ a.step = c.step /\ a.summaries = c.summaries
      /\ a.history = IF Close \in ToSet(c.history) THEN c.history ELSE Append(c.history, Close)
  BY <1>2, AppendOnceAdds
<1>4. a \in Records
  BY <1>3 DEF Adds
<1> HIDE DEF a
<1>5. MaybeCloseImplement(c, md) = IF Closes(c, md) THEN r ELSE c
  BY <1>1, <1>3
<1>6. status \in ToSet(StatusOrder) \cup {None}
  BY RecordFields, StatusFacts
<1>7. /\ r \in Records /\ r.status = status
      /\ r.step = a.step /\ r.summaries = a.summaries /\ r.history = a.history
  BY <1>4, <1>6 DEF Records
<1> HIDE DEF r
<1>8. Adds(c, r, {Close})
  BY <1>3, <1>7 DEF Adds
<1>9. CASE ~ Closes(c, md)
  BY <1>5, <1>9
<1>10. CASE Closes(c, md)
  <2>1. Close \notin ToSet(c.history)
    BY <1>10 DEF Closes
  <2> QED
    BY <1>3, <1>5, <1>7, <1>8, <1>10, <2>1
<1> QED
  BY <1>9, <1>10

\* r is in the implement step, with a status no lower than c's.
Advances(c, r) ==
  /\ r.step = "implement"
  /\ c.status \in TerminalStatuses => r.status = c.status
  /\ c.status \notin TerminalStatuses => r.status \in {"implementing", "implemented"}

\* What is in a record of which tasks.md has the boxes.
Sound(c, md) == c \in Records /\ md \in Documents /\ Subs(c) /\ Once(md)

\* What folding finishes of T and closing makes of record and boxes.
Gathers(c, md, m, T) ==
  /\ Sound(m.ctx, m.tasks)
  /\ IsInjective(c.history) => IsInjective(m.ctx.history)
  /\ JournaledTasks(m.ctx) = JournaledTasks(c) \cup T
  /\ m.ctx.summaries = c.summaries \cup T
  /\ Advances(c, m.ctx)
  /\ Len(m.tasks) = Len(md)

\* Closing adds nothing to what is known of tasks.
LEMMA CloseGathers ==
  ASSUME NEW c, NEW md, NEW r \in Records, NEW T, T \subseteq Tasks,
         NEW ticked, NEW S, ticked = MarkTasksDone(md, S),
         Sound(c, md), Adds(c, r, Fins(T)), r.summaries = c.summaries \cup T, Advances(c, r)
  PROVE  Gathers(c, md, [ctx |-> MaybeCloseImplement(r, ticked), tasks |-> ticked], T)
<1> DEFINE q == MaybeCloseImplement(r, ticked)
<1>1. c \in Records /\ md \in Documents /\ Subs(c) /\ Once(md)
  BY DEF Sound
<1>2. ticked \in Documents /\ Len(ticked) = Len(md) /\ Once(ticked)
  BY <1>1, MarkDone
<1>3. Subs(r) /\ JournaledTasks(r) = JournaledTasks(c) \cup T
  BY <1>1, FinsJournal
<1>4. IsInjective(c.history) => IsInjective(r.history)
  BY DEF Adds
<1>5. /\ q \in Records /\ q.step = r.step /\ q.summaries = r.summaries
      /\ ~ Closes(r, ticked) => q = r
      /\ Closes(r, ticked) => /\ Adds(r, q, {Close})
                              /\ r.status \in Shipped => q.status = r.status
                              /\ r.status \notin Shipped => q.status = "implemented"
  BY MaybeCloseDoes
<1> HIDE DEF q
<1>6. Close.sub \notin Tasks
  BY NoneAssumption DEF Close, Entry
<1>7. /\ Subs(q) /\ JournaledTasks(q) = JournaledTasks(r)
      /\ IsInjective(c.history) => IsInjective(q.history)
  BY <1>3, <1>4, <1>5, <1>6, OthersJournal DEF Adds
<1>8. Advances(c, q)
  BY <1>5 DEF Advances, TerminalStatuses, Shipped
<1>9. Sound(q, ticked)
  BY <1>2, <1>5, <1>7 DEF Sound
<1> QED
  BY <1>2, <1>3, <1>5, <1>7, <1>8, <1>9 DEF Gathers, q

\* The fold of the log gathers its lines.
LEMMA MaterializedDoes ==
  ASSUME NEW c, NEW md, Sound(c, md), NEW lines \in Seq(Tasks), lines # <<>>
  PROVE  Gathers(c, md, Materialized(c, md, lines), ToSet(lines))
<1> DEFINE T == ToSet(lines)
           r == FoldLines(c, md, lines)
           ticked == MarkTasksDone(md, JournaledTasks(r))
<1>1. Materialized(c, md, lines) = [ctx |-> MaybeCloseImplement(r, ticked), tasks |-> ticked]
  BY DEF Materialized
<1>2. c \in Records /\ T \subseteq Tasks
  BY DEF Sound, ToSet
<1>3. T # {}
  <2>1. 1 \in DOMAIN lines
    OBVIOUS
  <2> QED
    BY <2>1 DEF ToSet
<1>4. Folds(c, r, T)
  BY <1>2, FoldLinesDoes
<1>5. /\ r \in Records /\ Adds(c, r, Fins(T)) /\ r.summaries = c.summaries \cup T /\ Advances(c, r)
  BY <1>3, <1>4 DEF Folds, Adds, Advances
<1> HIDE DEF r, T
<1>6. Gathers(c, md, [ctx |-> MaybeCloseImplement(r, ticked), tasks |-> ticked], T)
  BY <1>2, <1>5, CloseGathers
<1> QED
  BY <1>1, <1>6 DEF T

\* So does the live finish of one task.
LEMMA LiveFinishDoes ==
  ASSUME NEW c, NEW md, Sound(c, md), NEW t \in Tasks
  PROVE  Gathers(c, md, LiveFinish(c, md, t), {t})
<1> DEFINE ticked == MarkTasksDone(md, {t})
           r == FoldTaskFinish(c, t, ticked)
<1>1. LiveFinish(c, md, t) = [ctx |-> MaybeCloseImplement(r, ticked), tasks |-> ticked]
  BY DEF LiveFinish
<1>2. c \in Records
  BY DEF Sound
<1>3. /\ Adds(c, r, {Fin(t)}) /\ r.summaries = c.summaries \cup {t} /\ Advances(c, r)
  BY <1>2, FoldOneAdds DEF Advances
<1>4. r \in Records /\ Fins({t}) = {Fin(t)} /\ {t} \subseteq Tasks
  BY <1>3 DEF Adds, Fins
<1> HIDE DEF r
<1>5. Gathers(c, md, [ctx |-> MaybeCloseImplement(r, ticked), tasks |-> ticked], {t})
  BY <1>3, <1>4, CloseGathers
<1> QED
  BY <1>1, <1>5

-----------------------------------------------------------------------------
(* The invariant                                                            *)

\* The append log, when it is there, has lines.
LogInv == events = {} \/ \E lines \in Seq(Tasks) : lines # <<>> /\ events = {lines}

\* The history has each boundary once, unless a call and a derive overlapped.
HistoryInv == ~overlapped => IsInjective(ctx.history)

RecordInv == Sound(ctx, tasks) /\ LogInv /\ HistoryInv /\ NoFinishIsLost

\* r knows of all tasks c knows of.
Knows(c, r, md) ==
  /\ Sound(r, md) /\ JournaledTasks(c) \subseteq JournaledTasks(r)
  /\ r.summaries = c.summaries
  /\ IsInjective(c.history) => IsInjective(r.history)
  /\ Len(c.history) \in 0 .. Len(r.history)

\* tasks.md told where the record goes, which the record is not past.
Inferred(c, r) ==
  /\ r.step \in {"tasks", "implement"} /\ ~ IsMoreAdvanced(c, r.step)
  /\ r.status = IF r.step = "implement" THEN "implemented" ELSE "ready-to-implement"

\* The derive that runs, and while no call overlaps it what it will publish.
DeriveInv ==
  /\ derive # {} => tasks # <<>>
  /\ \A d \in derive : /\ d \in [next : {"infer", "journal", "publish"}, was : Nat, to : Records]
                        /\ Sound(d.to, tasks)
  /\ ~overlapped => \A d \in derive :
       IF d.next = "infer" THEN d.to = ctx ELSE Knows(ctx, d.to, tasks) /\ Inferred(ctx, d.to)

\* The lines of the log.
LEMMA LinesTyped ==
  ASSUME LogInv
  PROVE  Lines \in Seq(Tasks) /\ (events # {} => events = {Lines} /\ Lines # <<>>)
<1>1. CASE events = {}
  BY <1>1 DEF Lines
<1>2. CASE events # {}
  <2>1. PICK lines \in Seq(Tasks) : lines # <<>> /\ events = {lines}
    BY <1>2 DEF LogInv
  <2>2. The(events) = lines
    BY <2>1 DEF The
  <2> QED
    BY <1>2, <2>1, <2>2 DEF Lines
<1> QED
  BY <1>1, <1>2

\* The empty record of a new feature.
LEMMA InitRecordInv == Init => RecordInv
<1> SUFFICES ASSUME Init PROVE RecordInv
  OBVIOUS
<1>1. ToSet(<<>>) = {} /\ <<>> \in Seq(Entries) /\ <<>> \in Documents
  BY DEF ToSet, Documents
<1>2. ctx = [status |-> None, step |-> None, task |-> None, history |-> <<>>, summaries |-> {}]
      /\ tasks = <<>> /\ events = {} /\ finished = {}
  BY DEF Init, Blank
<1>3. ctx \in Records
  BY <1>1, <1>2 DEF Records
<1>4. HistoryInv /\ Once(tasks)
  BY <1>2 DEF HistoryInv, IsInjective, Once
<1>5. Subs(ctx) /\ JournaledTasks(ctx) = {}
  BY <1>1, <1>2 DEF Subs, JournaledTasks
<1>6. Sound(ctx, tasks)
  BY <1>1, <1>2, <1>3, <1>4, <1>5 DEF Sound
<1>7. LogInv /\ NoFinishIsLost
  BY <1>1, <1>2 DEF LogInv, Lines, NoFinishIsLost
<1> QED
  BY <1>4, <1>6, <1>7 DEF RecordInv

\* r says of tasks what c says.
Same(c, r, md) ==
  /\ Sound(r, md) /\ JournaledTasks(r) = JournaledTasks(c) /\ r.summaries = c.summaries
  /\ IsInjective(c.history) => IsInjective(r.history)
  /\ Len(c.history) \in 0 .. Len(r.history)

\* Steps, statuses and the current task say nothing of other tasks.
LEMMA SameHistory ==
  ASSUME NEW c, NEW md, Sound(c, md), NEW r \in Records,
         r.history = c.history, r.summaries = c.summaries
  PROVE  Same(c, r, md)
<1>1. Len(c.history) \in 0 .. Len(r.history)
  BY AddsNothing DEF Sound, Adds
<1> QED
  BY <1>1 DEF Same, Sound, Subs, JournaledTasks

\* Nor do the entries of steps and substeps.
LEMMA SameButEntry ==
  ASSUME NEW c, NEW md, Sound(c, md), NEW e \in Entries, e.sub \notin Tasks
  PROVE  /\ Same(c, AppendOnce(c, e), md)
         /\ AppendOnce(c, e).status = c.status /\ AppendOnce(c, e).step = c.step
         /\ AppendOnce(c, e).task = c.task
<1>1. c \in Records
  BY DEF Sound
<1>2. /\ Adds(c, AppendOnce(c, e), {e})
      /\ AppendOnce(c, e).status = c.status /\ AppendOnce(c, e).step = c.step
      /\ AppendOnce(c, e).task = c.task /\ AppendOnce(c, e).summaries = c.summaries
  BY <1>1, AppendOnceAdds
<1>3. Subs(AppendOnce(c, e)) /\ JournaledTasks(AppendOnce(c, e)) = JournaledTasks(c)
  BY <1>2, OthersJournal DEF Sound
<1>4. /\ AppendOnce(c, e) \in Records
      /\ IsInjective(c.history) => IsInjective(AppendOnce(c, e).history)
      /\ Len(c.history) \in 0 .. Len(AppendOnce(c, e).history)
  BY <1>2 DEF Adds
<1> QED
  BY <1>2, <1>3, <1>4 DEF Same, Sound

\* One such change after another.
LEMMA SameSame ==
  ASSUME NEW c, NEW r, NEW q, NEW md, Same(c, r, md), Same(r, q, md)
  PROVE  Same(c, q, md)
<1>1. Len(c.history) \in 0 .. Len(r.history) /\ Len(r.history) \in 0 .. Len(q.history)
  BY DEF Same
<1>2. q.history \in Seq(Entries)
  BY RecordFields DEF Same, Sound
<1>3. Len(q.history) \in Nat
  BY <1>2
<1>4. Len(c.history) \in 0 .. Len(q.history)
  BY <1>1, <1>3
<1> QED
  BY <1>4 DEF Same

\* A call that writes the record alone, and nothing of tasks.
LEMMA SameKeeps ==
  ASSUME RecordInv, Same(ctx, ctx', tasks), UNCHANGED <<tasks, events, finished>>,
         overlapped => overlapped'
  PROVE  RecordInv'
<1>1. Lines' = Lines
  BY DEF Lines
<1>2. Sound(ctx', tasks') /\ JournaledTasks(ctx') = JournaledTasks(ctx) /\ ctx'.summaries = ctx.summaries
  BY DEF Same
<1>3. Sound(ctx, tasks)' /\ HistoryInv'
  BY <1>2 DEF Same, RecordInv, HistoryInv
<1>4. LogInv'
  BY <1>1 DEF RecordInv, LogInv
<1>5. NoFinishIsLost'
  BY <1>1, <1>2 DEF RecordInv, NoFinishIsLost
<1> QED
  BY <1>3, <1>4, <1>5 DEF RecordInv

\* What the hooks pass is a status, or none.
LEMMA StatusesTyped ==
  /\ \A s : StatusIn(StepStartedStatus, s) \in ToSet(StatusOrder) \cup {None}
  /\ \A s : StatusIn(StepCompletedStatus, s) \in ToSet(StatusOrder) \cup {None}
<1>1. \A s \in DOMAIN StepStartedStatus : StepStartedStatus[s] \in ToSet(StatusOrder)
  BY StatusFacts DEF StepStartedStatus
<1>2. \A s \in DOMAIN StepCompletedStatus : StepCompletedStatus[s] \in ToSet(StatusOrder)
  BY StatusFacts DEF StepCompletedStatus
<1> QED
  BY <1>1, <1>2 DEF StatusIn

\* The record with another step and status.
MovedTo(c, step, status) == [c EXCEPT !.step = step, !.status = status]

\* It says of tasks what it said.
LEMMA MovedIsSame ==
  ASSUME NEW c, NEW md, Sound(c, md), NEW step \in AllSteps, NEW status \in ToSet(StatusOrder) \cup {None}
  PROVE  /\ Same(c, MovedTo(c, step, status), md)
         /\ MovedTo(c, step, status).step = step
         /\ MovedTo(c, step, status).status = status
         /\ MovedTo(c, step, status).history = c.history
<1> DEFINE r == MovedTo(c, step, status)
<1>1. c \in Records
  BY DEF Sound
<1>2. /\ r \in Records /\ r.history = c.history /\ r.summaries = c.summaries
      /\ r.step = step /\ r.status = status
  BY <1>1 DEF Records, MovedTo
<1> HIDE DEF r
<1>3. Same(c, r, md)
  BY <1>2, SameHistory
<1> QED
  BY <1>2, <1>3 DEF r

-----------------------------------------------------------------------------
(* The calls of hooks and bodies keep it.                                   *)

\* What a call of update_context makes of the record: it moves to the step with
\* the status given, but not on a start that comes late, and one entry is added.
LEMMA UpdateContextDoes ==
  ASSUME RecordInv, NEW step \in Steps, NEW status \in ToSet(StatusOrder) \cup {None},
         NEW kind \in {"start", "complete"}, UpdateContext(step, status, kind)
  PROVE  /\ Same(ctx, ctx', tasks) /\ UNCHANGED <<tasks, events, finished>>
         /\ ~ IsMoreAdvanced(ctx, step)
         /\ \/ /\ ctx'.step = ctx.step /\ ctx'.status = ctx.status
               /\ kind = "start" /\ Has(ctx, Entry(step, None, "complete"))
            \/ /\ ctx'.step = step
               /\ ctx'.status = IF status = None THEN ctx.status ELSE status
               /\ kind = "start" => ~ Has(ctx, Entry(step, None, "complete"))
<1> DEFINE late == kind = "start" /\ Has(ctx, Entry(step, None, "complete"))
           next == IF status = None THEN ctx.status ELSE status
           moved == IF late THEN ctx ELSE [ctx EXCEPT !.step = step, !.status = next]
           e == Entry(step, None, kind)
<1>1. ctx' = AppendOnce(moved, e) /\ UNCHANGED <<tasks, events, finished>> /\ ~ IsMoreAdvanced(ctx, step)
  BY DEF UpdateContext
<1>2. Sound(ctx, tasks) /\ ctx \in Records
  BY DEF RecordInv, Sound
<1>3. next \in ToSet(StatusOrder) \cup {None} /\ step \in AllSteps
  BY <1>2, RecordFields DEF AllSteps
<1>4. e \in Entries /\ e.sub \notin Tasks
  BY <1>3, EntryTyped, NoneAssumption DEF Entry
<1>5. /\ Same(ctx, moved, tasks)
      /\ late => moved.step = ctx.step /\ moved.status = ctx.status
      /\ ~ late => moved.step = step /\ moved.status = next
  <2> HIDE DEF next, late
  <2>1. Same(ctx, ctx, tasks)
    BY <1>2, SameHistory
  <2> DEFINE new == MovedTo(ctx, step, next)
  <2> HIDE DEF next
  <2>2. Same(ctx, new, tasks) /\ new.step = step /\ new.status = next
    BY <1>2, <1>3, MovedIsSame
  <2>3. moved = IF late THEN ctx ELSE new
    BY DEF MovedTo, next
  <2> HIDE DEF new, moved
  <2> QED
    BY <2>1, <2>2, <2>3
<1> HIDE DEF moved, e
<1>6. Sound(moved, tasks)
  BY <1>5 DEF Same
<1>7. Same(moved, ctx', tasks) /\ ctx'.status = moved.status /\ ctx'.step = moved.step
  BY <1>1, <1>4, <1>6, SameButEntry
<1>8. Same(ctx, ctx', tasks)
  BY <1>5, <1>7, SameSame
<1> QED
  BY <1>1, <1>5, <1>7, <1>8

\* What the hooks call it with.
LEMMA HooksUpdate ==
  ASSUME NEW step \in Steps, StartStep(step) \/ CompleteStep(step)
  PROVE  \E status \in ToSet(StatusOrder) \cup {None}, kind \in {"start", "complete"} :
           /\ UpdateContext(step, status, kind)
           /\ \/ status = None
              \/ kind = "start" /\ status = StatusIn(StepStartedStatus, step)
              \/ kind = "complete" /\ status = StatusIn(StepCompletedStatus, step)
BY StatusesTyped DEF StartStep, CompleteStep

\* A finish of a step or substep.
LEMMA JournalFinishDoes ==
  ASSUME RecordInv, NEW step \in Steps, NEW sub \in Substeps, JournalFinish(step, sub)
  PROVE  /\ Same(ctx, ctx', tasks) /\ UNCHANGED <<tasks, events, finished>>
         /\ ctx'.status = ctx.status /\ ctx'.step = ctx.step /\ ctx.status \notin Shipped
<1>1. ctx' = AppendOnce(ctx, Entry(step, sub, "complete"))
  BY DEF JournalFinish
<1>2. Entry(step, sub, "complete") \in Entries /\ Entry(step, sub, "complete").sub \notin Tasks
  BY SubstepsAssumption DEF Entry, Entries, AllSteps
<1>3. Sound(ctx, tasks)
  BY DEF RecordInv
<1> QED
  BY <1>1, <1>2, <1>3, SameButEntry DEF JournalFinish

\* The finish of a step with the status it stands for, unless the record is past it.
LEMMA JournalAdvanceDoes ==
  ASSUME RecordInv, NEW step \in Steps, JournalAdvance(step)
  PROVE  /\ Same(ctx, ctx', tasks) /\ UNCHANGED <<tasks, events, finished>>
         /\ ctx.status \notin Shipped
         /\ \/ ctx'.status = ctx.status /\ ctx'.step = ctx.step
            \/ /\ step \in DOMAIN StepCompletedStatus /\ ~ IsMoreAdvanced(ctx, step)
               /\ ctx'.status = StepCompletedStatus[step] /\ ctx'.step = step
<1> DEFINE closed == AppendOnce(ctx, Entry(step, None, "complete"))
<1>1. ctx' = IF step \notin DOMAIN StepCompletedStatus \/ IsMoreAdvanced(closed, step) THEN closed
             ELSE [closed EXCEPT !.status = StepCompletedStatus[step], !.step = step]
  BY DEF JournalAdvance
<1>2. Entry(step, None, "complete") \in Entries /\ Entry(step, None, "complete").sub \notin Tasks
  BY EntryTyped, NoneAssumption DEF Entry, AllSteps
<1>3. Sound(ctx, tasks)
  BY DEF RecordInv
<1>4. Same(ctx, closed, tasks) /\ closed.status = ctx.status /\ closed.step = ctx.step
  BY <1>2, <1>3, SameButEntry
<1> HIDE DEF closed
<1>5. IsMoreAdvanced(closed, step) <=> IsMoreAdvanced(ctx, step)
  BY <1>4 DEF IsMoreAdvanced
<1>6. CASE step \notin DOMAIN StepCompletedStatus \/ IsMoreAdvanced(closed, step)
  BY <1>1, <1>4, <1>6 DEF JournalAdvance
<1>7. CASE step \in DOMAIN StepCompletedStatus /\ ~ IsMoreAdvanced(closed, step)
  <2> DEFINE status == StepCompletedStatus[step]
  <2>1. status \in ToSet(StatusOrder) \cup {None} /\ step \in AllSteps
    BY <1>7, StatusesTyped DEF StatusIn, AllSteps
  <2> HIDE DEF status
  <2>2. ctx' = MovedTo(closed, step, status)
    BY <1>1, <1>7 DEF status, MovedTo
  <2>3. Sound(closed, tasks)
    BY <1>4 DEF Same
  <2> DEFINE moved == MovedTo(closed, step, status)
  <2>4. Same(closed, moved, tasks) /\ moved.step = step /\ moved.status = status
    BY <2>1, <2>3, MovedIsSame
  <2>5. Same(closed, ctx', tasks) /\ ctx'.step = step /\ ctx'.status = status
    BY <2>2, <2>4
  <2>6. Same(ctx, ctx', tasks)
    BY <1>4, <2>5, SameSame
  <2> QED
    BY <1>5, <1>7, <2>5, <2>6 DEF JournalAdvance, status
<1> QED
  BY <1>6, <1>7

\* The task the record names is one of tasks.md.
LEMMA CurrentTaskTyped ==
  ASSUME NEW c \in Records, NEW md \in Documents, md # <<>>
  PROVE  CurrentTask(c, md) \in Tasks
<1> DEFINE open == {i \in DOMAIN md : md[i].id \notin DoneIds(md)}
           past == {i \in DOMAIN c.history :
                      c.history[i].sub \in DoneIds(md) /\ c.history[i].kind = "complete"}
<1>1. /\ Len(md) \in Nat /\ DOMAIN md = 1 .. Len(md) /\ DoneIds(md) \subseteq Tasks
      /\ \A i \in 1 .. Len(md) : md[i].id \in Tasks
  BY DocumentFields
<1>2. c.history \in Seq(Entries)
  BY RecordFields
<1>3. Len(c.history) \in Nat /\ DOMAIN c.history = 1 .. Len(c.history)
  BY <1>2
<1>4. CurrentTask(c, md) = IF open # {} THEN md[Min(open)].id
                           ELSE IF past # {} THEN c.history[Max(past)].sub ELSE Last(md).id
  BY DEF CurrentTask
<1>5. CASE open # {}
  <2>1. open \subseteq 1 .. Len(md) /\ open \subseteq Nat
    BY <1>1
  <2> HIDE DEF open
  <2>2. Min(open) \in 1 .. Len(md)
    BY <1>5, <2>1, MinIsIn
  <2> QED
    BY <1>1, <1>4, <1>5, <2>2
<1>6. CASE open = {} /\ past # {}
  <2>1. past \subseteq 1 .. Len(c.history) /\ \A i \in past : c.history[i].sub \in Tasks
    BY <1>1, <1>3
  <2> HIDE DEF open, past
  <2>2. Max(past) \in past
    BY <1>3, <1>6, <2>1, MaxIsIn
  <2> QED
    BY <1>4, <1>6, <2>1, <2>2
<1>7. CASE open = {} /\ past = {}
  <2> HIDE DEF open, past
  <2>1. Last(md).id \in Tasks
    BY <1>1 DEF Last, Documents
  <2> QED
    BY <1>4, <1>7, <2>1
<1> QED
  BY <1>5, <1>6, <1>7

-----------------------------------------------------------------------------
(* The task calls keep it.                                                  *)

\* A call that gathers finishes, of the log's lines those it does not leave there.
LEMMA GathersKeep ==
  ASSUME RecordInv, NEW m, NEW T, Gathers(ctx, tasks, m, T), ctx' = m.ctx, tasks' = m.tasks,
         events' = {} \/ \E lines \in Seq(Tasks) : lines # <<>> /\ events' = {lines},
         finished' \subseteq finished \cup T, ToSet(Lines) \subseteq T \cup ToSet(Lines'),
         overlapped => overlapped'
  PROVE  RecordInv'
<1>1. /\ Sound(m.ctx, m.tasks) /\ (IsInjective(ctx.history) => IsInjective(m.ctx.history))
      /\ JournaledTasks(m.ctx) = JournaledTasks(ctx) \cup T /\ m.ctx.summaries = ctx.summaries \cup T
  BY DEF Gathers
<1>2. /\ Sound(ctx, tasks)' /\ HistoryInv'
      /\ JournaledTasks(ctx)' = JournaledTasks(ctx) \cup T /\ ctx'.summaries = ctx.summaries \cup T
  BY <1>1 DEF RecordInv, HistoryInv
<1>3. LogInv'
  BY DEF LogInv
<1>4. NoFinishIsLost'
  BY <1>2 DEF RecordInv, NoFinishIsLost
<1> QED
  BY <1>2, <1>3, <1>4 DEF RecordInv

\* What a call that folds the log first goes on with.
LEMMA MaterializeDoes ==
  ASSUME RecordInv
  PROVE  \/ /\ Materialize(ctx, tasks) = [ctx |-> ctx, tasks |-> tasks]
            /\ events = {} \/ ctx.status \in Shipped
         \/ /\ Gathers(ctx, tasks, Materialize(ctx, tasks), ToSet(Lines))
            /\ events # {} /\ ctx.status \notin Shipped
<1>1. CASE events = {} \/ ctx.status \in Shipped
  BY <1>1 DEF Materialize
<1>2. CASE events # {} /\ ctx.status \notin Shipped
  <2>1. Lines \in Seq(Tasks) /\ Lines # <<>>
    BY <1>2, LinesTyped DEF RecordInv
  <2>2. Gathers(ctx, tasks, Materialized(ctx, tasks, Lines), ToSet(Lines))
    BY <2>1, MaterializedDoes DEF RecordInv
  <2>3. Materialize(ctx, tasks) = Materialized(ctx, tasks, Lines)
    BY <1>2 DEF Materialize
  <2> QED
    BY <1>2, <2>2, <2>3
<1> QED
  BY <1>1, <1>2

\* One line more.
LEMMA LogGrows ==
  ASSUME RecordInv, NEW t \in Tasks, events' = {Append(Lines, t)}
  PROVE  /\ Append(Lines, t) \in Seq(Tasks) /\ Append(Lines, t) # <<>> /\ Lines' = Append(Lines, t)
         /\ ToSet(Append(Lines, t)) = ToSet(Lines) \cup {t}
<1>1. Lines \in Seq(Tasks)
  BY LinesTyped DEF RecordInv
<1>2. /\ Append(Lines, t) \in Seq(Tasks) /\ ToSet(Append(Lines, t)) = ToSet(Lines) \cup {t}
  BY <1>1, AppendSet
<1>3. Append(Lines, t) # <<>>
  <2>1. Len(Lines) \in Nat /\ Len(Append(Lines, t)) = Len(Lines) + 1
    BY <1>1
  <2>2. Len(<<>>) = 0
    OBVIOUS
  <2> QED
    BY <2>1, <2>2
<1>4. Lines' = Append(Lines, t)
  BY DEF Lines, The
<1> QED
  BY <1>2, <1>3, <1>4

\* A worker's append: the finish is in the log.
LEMMA AppendTaskLogKeeps ==
  ASSUME RecordInv, NEW t \in Tasks, AppendTaskLog(t), UNCHANGED overlapped
  PROVE  RecordInv'
<1>1. events' = {Append(Lines, t)} /\ finished' = finished \cup {t}
      /\ UNCHANGED <<ctx, tasks>>
  BY DEF AppendTaskLog
<1>2. /\ Append(Lines, t) \in Seq(Tasks) /\ Append(Lines, t) # <<>> /\ Lines' = Append(Lines, t)
      /\ ToSet(Lines') = ToSet(Lines) \cup {t}
  BY <1>1, LogGrows
<1>3. Sound(ctx, tasks)' /\ HistoryInv'
  BY <1>1 DEF RecordInv, HistoryInv
<1>4. LogInv'
  BY <1>1, <1>2 DEF LogInv
<1>5. NoFinishIsLost'
  BY <1>1, <1>2 DEF RecordInv, NoFinishIsLost
<1> QED
  BY <1>3, <1>4, <1>5 DEF RecordInv

\* The fold of a batch takes every line of the log.
LEMMA MaterializeLogDoes ==
  ASSUME RecordInv, MaterializeLog
  PROVE  /\ Gathers(ctx, tasks, Materialize(ctx, tasks), ToSet(Lines))
         /\ ctx' = Materialize(ctx, tasks).ctx /\ tasks' = Materialize(ctx, tasks).tasks
         /\ UNCHANGED <<events, finished>> /\ ctx.status \notin Shipped
BY MaterializeDoes DEF MaterializeLog

\* So it loses none.
LEMMA MaterializeLogKeeps ==
  ASSUME RecordInv, MaterializeLog, overlapped => overlapped'
  PROVE  RecordInv'
<1>1. Lines' = Lines
  BY DEF MaterializeLog, Lines
<1> QED
  BY <1>1, MaterializeLogDoes, GathersKeep DEF RecordInv, LogInv

\* The append and the fold in one call take the new line too.
LEMMA CloseTaskDoes ==
  ASSUME RecordInv, NEW t \in Tasks, CloseTask(t)
  PROVE  /\ Gathers(ctx, tasks, Materialized(ctx, tasks, Append(Lines, t)), ToSet(Lines) \cup {t})
         /\ ctx' = Materialized(ctx, tasks, Append(Lines, t)).ctx
         /\ tasks' = Materialized(ctx, tasks, Append(Lines, t)).tasks
         /\ finished' = finished \cup {t} /\ ctx.status \notin Shipped
         /\ events' = {Append(Lines, t)}
<1>1. /\ events' = {Append(Lines, t)} /\ finished' = finished \cup {t}
      /\ ctx' = Materialized(ctx, tasks, Append(Lines, t)).ctx
      /\ tasks' = Materialized(ctx, tasks, Append(Lines, t)).tasks
      /\ ctx.status \notin Shipped
  BY DEF CloseTask
<1>2. /\ Append(Lines, t) \in Seq(Tasks) /\ Append(Lines, t) # <<>>
      /\ ToSet(Append(Lines, t)) = ToSet(Lines) \cup {t}
  BY <1>1, LogGrows
<1>3. Sound(ctx, tasks)
  BY DEF RecordInv
<1> QED
  BY <1>1, <1>2, <1>3, MaterializedDoes

\* So that loses none either.
LEMMA CloseTaskKeeps ==
  ASSUME RecordInv, NEW t \in Tasks, CloseTask(t), overlapped => overlapped'
  PROVE  RecordInv'
<1>1. /\ Gathers(ctx, tasks, Materialized(ctx, tasks, Append(Lines, t)), ToSet(Lines) \cup {t})
      /\ ctx' = Materialized(ctx, tasks, Append(Lines, t)).ctx
      /\ tasks' = Materialized(ctx, tasks, Append(Lines, t)).tasks
      /\ finished' = finished \cup {t} /\ events' = {Append(Lines, t)}
  BY CloseTaskDoes
<1>2. Append(Lines, t) \in Seq(Tasks) /\ Append(Lines, t) # <<>>
  BY <1>1, LogGrows
<1>3. events' = {} \/ \E lines \in Seq(Tasks) : lines # <<>> /\ events' = {lines}
  BY <1>1, <1>2
<1> QED
  BY <1>1, <1>2, <1>3, GathersKeep

\* The live finish writes one task.
LEMMA JournalTaskFinishDoes ==
  ASSUME RecordInv, NEW t \in Tasks, JournalTaskFinish(t)
  PROVE  /\ Gathers(ctx, tasks, LiveFinish(ctx, tasks, t), {t})
         /\ ctx' = LiveFinish(ctx, tasks, t).ctx /\ tasks' = LiveFinish(ctx, tasks, t).tasks
         /\ finished' = finished \cup {t} /\ UNCHANGED events /\ ctx.status \notin Shipped
BY LiveFinishDoes DEF JournalTaskFinish, RecordInv

\* And leaves the log as it is.
LEMMA JournalTaskFinishKeeps ==
  ASSUME RecordInv, NEW t \in Tasks, JournalTaskFinish(t), overlapped => overlapped'
  PROVE  RecordInv'
<1>1. Lines' = Lines
  BY DEF JournalTaskFinish, Lines
<1> QED
  BY <1>1, JournalTaskFinishDoes, GathersKeep DEF RecordInv, LogInv

-----------------------------------------------------------------------------
(* The calls that read tasks.md, and those who write it.                    *)

\* What says the same knows as much.
LEMMA SameKnows ==
  ASSUME NEW c, NEW r, NEW q, NEW md, Knows(c, r, md), Same(r, q, md)
  PROVE  Knows(c, q, md)
<1>1. Len(c.history) \in 0 .. Len(r.history) /\ Len(r.history) \in 0 .. Len(q.history)
  BY DEF Knows, Same
<1>2. q.history \in Seq(Entries)
  BY RecordFields DEF Same, Sound
<1>3. Len(q.history) \in Nat
  BY <1>2
<1>4. Len(c.history) \in 0 .. Len(q.history)
  BY <1>1, <1>3
<1> QED
  BY <1>4 DEF Knows, Same

\* What knows as much as that knows as much.
LEMMA KnowsKnows ==
  ASSUME NEW c, NEW r, NEW q, NEW md, Knows(c, r, md), Knows(r, q, md)
  PROVE  Knows(c, q, md)
<1>1. Len(c.history) \in 0 .. Len(r.history) /\ Len(r.history) \in 0 .. Len(q.history)
  BY DEF Knows
<1>2. q.history \in Seq(Entries)
  BY RecordFields DEF Knows, Sound
<1>3. Len(q.history) \in Nat
  BY <1>2
<1>4. Len(c.history) \in 0 .. Len(q.history)
  BY <1>1, <1>3
<1> QED
  BY <1>4 DEF Knows

\* A finish for each checked box.
LEMMA FreshKnows ==
  ASSUME NEW c, NEW md, Sound(c, md)
  PROVE  /\ Knows(c, JournalFresh(c, md), md)
         /\ JournalFresh(c, md).status = c.status /\ JournalFresh(c, md).step = c.step
<1> DEFINE T == DoneIds(md) \ JournaledTasks(c)
           r == JournalFresh(c, md)
<1>1. c \in Records /\ md \in Documents /\ Subs(c) /\ Once(md)
  BY DEF Sound
<1>2. T \subseteq Tasks
  BY <1>1, DocumentFields
<1>3. Freshens(c, r, T)
  BY <1>1, JournalFreshDoes
<1> HIDE DEF r
<1>4. Subs(r) /\ JournaledTasks(r) = JournaledTasks(c) \cup T
  <2> HIDE DEF T
  <2> QED
    BY <1>1, <1>2, <1>3, FinsJournal DEF Freshens
<1>5. /\ r \in Records /\ (IsInjective(c.history) => IsInjective(r.history))
      /\ Len(c.history) \in 0 .. Len(r.history)
      /\ r.status = c.status /\ r.step = c.step /\ r.summaries = c.summaries
  BY <1>1, <1>3 DEF Freshens, Adds
<1>6. Sound(r, md)
  BY <1>1, <1>4, <1>5 DEF Sound
<1> QED
  BY <1>4, <1>5, <1>6 DEF Knows, r

\* The record with another step, status and current task.
At(c, step, status, task) == [c EXCEPT !.step = step, !.status = status, !.task = task]

\* It says of tasks what it said.
LEMMA AtIsSame ==
  ASSUME NEW c, NEW md, Sound(c, md), NEW step \in AllSteps,
         NEW status \in ToSet(StatusOrder) \cup {None}, NEW task \in Tasks \cup {None}
  PROVE  /\ Same(c, At(c, step, status, task), md)
         /\ At(c, step, status, task).step = step /\ At(c, step, status, task).status = status
<1> DEFINE r == At(c, step, status, task)
<1>1. c \in Records
  BY DEF Sound
<1>2. /\ r \in Records /\ r.history = c.history /\ r.summaries = c.summaries
      /\ r.step = step /\ r.status = status
  BY <1>1 DEF Records, At
<1> HIDE DEF r
<1>3. Same(c, r, md)
  BY <1>2, SameHistory
<1> QED
  BY <1>2, <1>3 DEF r

\* The step's close, which says nothing of tasks.
LEMMA CloseEntry == Close \in Entries /\ Close.sub \notin Tasks
BY EntryTyped, NoneAssumption DEF Close, Entry

\* A record knows what it knows.
LEMMA KnowsItself ==
  ASSUME NEW c, NEW md, Sound(c, md)
  PROVE  Knows(c, c, md)
<1>1. Same(c, c, md)
  BY SameHistory DEF Sound
<1> QED
  BY <1>1 DEF Same, Knows

\* As long a tasks.md is as empty.
LEMMA LongEnough ==
  ASSUME NEW md \in Documents, NEW new \in Documents, Len(new) = Len(md), md # <<>>
  PROVE  new # <<>>
BY DEF Documents

\* What a call goes on with after the log is folded, or as it is.
Start(m) ==
  /\ Sound(m.ctx, m.tasks) /\ Len(m.tasks) = Len(tasks)
  /\ m.ctx.status = ctx.status \/ Advances(ctx, m.ctx)
  /\ ~overlapped =>
       /\ IsInjective(m.ctx.history)
       /\ finished \subseteq (JournaledTasks(m.ctx) \cap m.ctx.summaries) \cup ToSet(Lines)
       /\ ctx.status \notin Shipped => finished \subseteq JournaledTasks(m.ctx) \cap m.ctx.summaries

\* Both cases of materialize_log are such a start.
LEMMA MaterializeStarts ==
  ASSUME RecordInv
  PROVE  Start(Materialize(ctx, tasks))
<1> DEFINE m == Materialize(ctx, tasks)
<1>1. CASE m = [ctx |-> ctx, tasks |-> tasks] /\ (events = {} \/ ctx.status \in Shipped)
  <2>1. m.ctx = ctx /\ m.tasks = tasks
    BY <1>1
  <2>2. events = {} => ToSet(Lines) = {}
    BY DEF Lines, ToSet
  <2> HIDE DEF m
  <2>3. Start(m)
    BY <1>1, <2>1, <2>2 DEF Start, RecordInv, HistoryInv, NoFinishIsLost
  <2> QED
    BY <2>3 DEF m
<1>2. CASE Gathers(ctx, tasks, m, ToSet(Lines)) /\ events # {} /\ ctx.status \notin Shipped
  <2> HIDE DEF m
  <2>1. Start(m)
    BY <1>2 DEF Start, Gathers, RecordInv, HistoryInv, NoFinishIsLost
  <2> QED
    BY <2>1 DEF m
<1> QED
  BY <1>1, <1>2, MaterializeDoes

\* A call that knows of the tasks it started with, and leaves the log or has
\* folded it.
LEMMA KnowsKeep ==
  ASSUME RecordInv, NEW m, Start(m), Knows(m.ctx, ctx', m.tasks), tasks' = m.tasks,
         UNCHANGED finished, events' = events \/ (events' = {} /\ ctx.status \notin Shipped),
         overlapped => overlapped'
  PROVE  RecordInv'
<1>1. Sound(ctx, tasks)' /\ HistoryInv'
  BY DEF Start, Knows, HistoryInv
<1>2. events' = events => Lines' = Lines
  BY DEF Lines
<1>3. events' = {} => ToSet(Lines') = {}
  BY DEF Lines, ToSet
<1>4. LogInv'
  BY <1>1, <1>2, <1>3 DEF RecordInv, LogInv
<1>5. NoFinishIsLost'
  BY <1>1, <1>2, <1>3 DEF NoFinishIsLost, Start, Knows
<1> QED
  BY <1>1, <1>4, <1>5 DEF RecordInv

\* The backstop: a finish for each box, and the close if all are checked.
LEMMA SyncTasksDoes ==
  ASSUME RecordInv, SyncTasks, overlapped => overlapped'
  PROVE  /\ RecordInv' /\ tasks' # <<>> /\ ctx.status \notin Shipped /\ UNCHANGED events
         /\ ctx'.step = "implement"
         /\ ctx'.status = IF TasksAt100(tasks') THEN "implemented" ELSE "implementing"
<1> DEFINE m == Materialize(ctx, tasks)
           synced == JournalFresh(m.ctx, m.tasks)
           closed == IF TasksAt100(m.tasks) THEN AppendOnce(synced, Close) ELSE synced
           status == IF TasksAt100(m.tasks) THEN "implemented" ELSE "implementing"
           task == CurrentTask(m.ctx, m.tasks)
<1>1. ctx.status \notin Shipped /\ tasks # <<>> /\ UNCHANGED <<events, finished>>
  BY DEF SyncTasks
<1>2. ctx' = [closed EXCEPT !.step = "implement", !.task = task, !.status = status] /\ tasks' = m.tasks
  BY DEF SyncTasks, Close
<1>3. Start(m)
  BY MaterializeStarts
<1>4. Sound(m.ctx, m.tasks)
  BY <1>3 DEF Start
<1> HIDE DEF m
<1>15. m.tasks # <<>>
  BY <1>1, <1>3, LongEnough DEF Start, RecordInv, Sound
<1>5. Knows(m.ctx, synced, m.tasks)
  BY <1>4, FreshKnows
<1> HIDE DEF synced
<1>6. Knows(m.ctx, closed, m.tasks)
  <2>1. Sound(synced, m.tasks)
    BY <1>5 DEF Knows
  <2>2. Same(synced, AppendOnce(synced, Close), m.tasks)
    BY <2>1, CloseEntry, SameButEntry
  <2> QED
    BY <1>5, <2>2, SameKnows
<1> HIDE DEF closed
<1>7. task \in Tasks \cup {None}
  <2> QED
    BY <1>4, <1>15, CurrentTaskTyped DEF Sound
<1>8. status \in ToSet(StatusOrder) \cup {None} /\ "implement" \in AllSteps
  BY StatusFacts DEF AllSteps
<1>9. ctx' = At(closed, "implement", status, task)
  BY <1>2 DEF At
<1> HIDE DEF task
<1>10. Sound(closed, m.tasks)
  BY <1>6 DEF Knows
<1>11. /\ Same(closed, ctx', m.tasks) /\ ctx'.step = "implement" /\ ctx'.status = status
  <2> DEFINE next == At(closed, "implement", status, task)
  <2> HIDE DEF status
  <2>1. Same(closed, next, m.tasks) /\ next.step = "implement" /\ next.status = status
    BY <1>7, <1>8, <1>10, AtIsSame
  <2> HIDE DEF next
  <2>2. ctx' = next
    BY <1>9 DEF next
  <2> QED
    BY <2>1, <2>2
<1>12. Knows(m.ctx, ctx', m.tasks)
  BY <1>6, <1>11, SameKnows
<1>13. RecordInv'
  BY <1>1, <1>2, <1>3, <1>12, KnowsKeep
<1>14. TasksAt100(tasks') <=> TasksAt100(m.tasks)
  BY <1>2
<1> QED
  BY <1>1, <1>2, <1>11, <1>13, <1>14, <1>15

\* Completion folds the log, closes implement if nobody has, and may leave the log.
LEMMA MarkCompleteDoes ==
  ASSUME RecordInv, MarkComplete, overlapped => overlapped'
  PROVE  /\ RecordInv' /\ Len(tasks') = Len(tasks) /\ ctx.status \in {"implementing", "implemented"}
         /\ ctx'.status = "completed" /\ events' \subseteq events
<1> DEFINE m == Materialize(ctx, tasks)
           closed == IF ctx.status = "implementing" THEN AppendOnce(m.ctx, Close) ELSE m.ctx
           step == IF closed.step = None THEN "implement" ELSE closed.step
<1>1. ctx.status \in {"implementing", "implemented"} /\ events' \in {{}, events} /\ UNCHANGED finished
  BY DEF MarkComplete, CanMark
<1>2. ctx' = [closed EXCEPT !.status = "completed", !.task = None, !.step = step] /\ tasks' = m.tasks
  BY DEF MarkComplete, Close
<1>3. Start(m)
  BY MaterializeStarts
<1> HIDE DEF m
<1>4. Sound(m.ctx, m.tasks)
  BY <1>3 DEF Start
<1>5. Knows(m.ctx, closed, m.tasks)
  <2>1. Knows(m.ctx, m.ctx, m.tasks)
    BY <1>4, KnowsItself
  <2>2. Same(m.ctx, AppendOnce(m.ctx, Close), m.tasks)
    BY <1>4, CloseEntry, SameButEntry
  <2> QED
    BY <2>1, <2>2, SameKnows
<1> HIDE DEF closed
<1>6. Sound(closed, m.tasks) /\ closed \in Records
  BY <1>5 DEF Knows, Sound
<1>7. step \in AllSteps
  BY <1>6, RecordFields DEF AllSteps
<1> HIDE DEF step
<1>8. ctx' = At(closed, step, "completed", None)
  BY <1>2 DEF At
<1>9. "completed" \in ToSet(StatusOrder) \cup {None} /\ None \in Tasks \cup {None}
  BY StatusFacts
<1>10. Same(closed, ctx', m.tasks) /\ ctx'.status = "completed"
  <2> DEFINE next == At(closed, step, "completed", None)
  <2>1. Same(closed, next, m.tasks) /\ next.status = "completed"
    BY <1>6, <1>7, <1>9, AtIsSame
  <2> HIDE DEF next
  <2>2. ctx' = next
    BY <1>8 DEF next
  <2> QED
    BY <2>1, <2>2
<1>11. Knows(m.ctx, ctx', m.tasks)
  BY <1>5, <1>10, SameKnows
<1>12. ctx.status \notin Shipped
  BY <1>1 DEF Shipped
<1>13. RecordInv'
  BY <1>1, <1>2, <1>3, <1>11, <1>12, KnowsKeep
<1>14. Len(tasks') = Len(tasks)
  BY <1>2, <1>3 DEF Start
<1> QED
  BY <1>1, <1>10, <1>13, <1>14

-----------------------------------------------------------------------------
(* derive-from-files.py                                                     *)

\* It says implemented when all tasks are checked, else that the tasks are there,
\* of a record that is not past that, and opens the step.
LEMMA InferDoes ==
  ASSUME NEW c, Sound(c, tasks), NEW step \in {"tasks", "implement"}, ~ IsMoreAdvanced(c, step),
         NEW status, status = IF step = "implement" THEN "implemented" ELSE "ready-to-implement",
         NEW r, r = AppendOnce(MovedTo(c, step, status), Entry(step, None, "start"))
  PROVE  Knows(c, r, tasks) /\ Inferred(c, r)
<1>1. step \in AllSteps /\ status \in ToSet(StatusOrder) \cup {None}
  BY StatusFacts DEF AllSteps
<1>2. Entry(step, None, "start") \in Entries /\ Entry(step, None, "start").sub \notin Tasks
  BY <1>1, EntryTyped, NoneAssumption DEF Entry
<1> DEFINE at == MovedTo(c, step, status)
<1>3. Same(c, at, tasks) /\ at.step = step /\ at.status = status
  BY <1>1, MovedIsSame
<1> HIDE DEF at
<1>4. r = AppendOnce(at, Entry(step, None, "start"))
  BY DEF at
<1>5. Same(at, r, tasks) /\ r.step = step /\ r.status = status
  <2>1. Sound(at, tasks)
    BY <1>3 DEF Same
  <2> QED
    BY <1>2, <1>3, <1>4, <2>1, SameButEntry
<1>6. Same(c, r, tasks)
  BY <1>3, <1>5, SameSame
<1> QED
  BY <1>5, <1>6 DEF Same, Knows, Inferred

\* The finishes it adds, with the current task.
Named(c, md) == [JournalFresh(c, md) EXCEPT !.task = CurrentTask(JournalFresh(c, md), md)]

\* They, and the close, add to what the record knows, and leave step and status.
LEMMA JournalDoes ==
  ASSUME NEW c, NEW md, Sound(c, md), md # <<>>, NEW r, r \in {Named(c, md), AppendOnce(Named(c, md), Close)}
  PROVE  Knows(c, r, md) /\ r.step = c.step /\ r.status = c.status
<1> DEFINE fresh == JournalFresh(c, md)
           task == CurrentTask(fresh, md)
           named == Named(c, md)
<1>1. Knows(c, fresh, md) /\ fresh.step = c.step /\ fresh.status = c.status
  BY FreshKnows
<1> HIDE DEF fresh
<1>2. Sound(fresh, md) /\ fresh \in Records /\ md \in Documents
  BY <1>1 DEF Knows, Sound
<1>3. task \in Tasks
  BY <1>2, CurrentTaskTyped
<1> HIDE DEF task
<1>4. named = [fresh EXCEPT !.task = task]
  BY DEF Named, fresh, task
<1>5. /\ named \in Records /\ named.history = fresh.history /\ named.summaries = fresh.summaries
      /\ named.step = fresh.step /\ named.status = fresh.status
  BY <1>2, <1>3, <1>4 DEF Records
<1> HIDE DEF named
<1>6. Same(fresh, named, md)
  BY <1>2, <1>5, SameHistory
<1>7. Knows(c, named, md) /\ Sound(named, md)
  BY <1>1, <1>6, SameKnows DEF Same
<1>8. /\ Same(named, AppendOnce(named, Close), md)
      /\ AppendOnce(named, Close).step = named.step /\ AppendOnce(named, Close).status = named.status
  BY <1>7, CloseEntry, SameButEntry
<1>9. Knows(c, AppendOnce(named, Close), md)
  BY <1>7, <1>8, SameKnows
<1>10. CASE r = named
  BY <1>1, <1>5, <1>7, <1>10
<1>11. CASE r = AppendOnce(named, Close)
  BY <1>1, <1>5, <1>8, <1>9, <1>11
<1> QED
  BY <1>10, <1>11 DEF named

\* A derive in its next phase.
LEMMA DeriveMoves ==
  ASSUME NEW d \in [next : {"infer", "journal", "publish"}, was : Nat, to : Records],
         NEW next \in {"infer", "journal", "publish"}, NEW to \in Records,
         NEW e, e = [d EXCEPT !.next = next, !.to = to]
  PROVE  /\ e \in [next : {"infer", "journal", "publish"}, was : Nat, to : Records]
         /\ e.next = next /\ e.to = to
OBVIOUS

\* Whoever touches neither record nor log nor tasks.md.
LEMMA UnchangedKeeps ==
  ASSUME RecordInv, UNCHANGED <<ctx, tasks, events, finished, overlapped>>
  PROVE  RecordInv'
BY DEF RecordInv, Sound, Subs, JournaledTasks, Once, LogInv, HistoryInv, NoFinishIsLost, Lines

\* The read.
LEMMA DeriveReadKeeps ==
  ASSUME RecordInv, DeriveInv, DeriveRead, UNCHANGED <<ctx, tasks, overlapped>>
  PROVE  DeriveInv'
<1> PICK d : d = [next |-> "infer", was |-> Len(ctx.history), to |-> ctx]
  OBVIOUS
<1>1. derive' = {d} /\ tasks # <<>>
  BY DEF DeriveRead
<1>2. ctx \in Records /\ Sound(ctx, tasks)
  BY DEF RecordInv, Sound
<1>3. ctx.history \in Seq(Entries)
  BY <1>2, RecordFields
<1>4. Len(ctx.history) \in Nat
  BY <1>3
<1>5. /\ d \in [next : {"infer", "journal", "publish"}, was : Nat, to : Records]
      /\ d.next = "infer" /\ d.to = ctx
  BY <1>2, <1>4
<1>6. Sound(d.to, tasks)' /\ d.to = ctx'
  BY <1>2, <1>5 DEF Sound
<1> QED
  BY <1>1, <1>5, <1>6 DEF DeriveInv

\* Knowing is a matter of the two records and the document.
LEMMA DeriveStays ==
  ASSUME NEW d, NEW e, derive' = {e}, tasks # <<>>, UNCHANGED <<ctx, tasks, overlapped>>,
         e \in [next : {"infer", "journal", "publish"}, was : Nat, to : Records],
         Sound(e.to, tasks), e.next # "infer", ~overlapped => Knows(ctx, e.to, tasks) /\ Inferred(ctx, e.to)
  PROVE  DeriveInv'
<1>1. Sound(e.to, tasks)'
  BY DEF Sound
<1>2. Knows(ctx, e.to, tasks) => Knows(ctx', e.to, tasks')
  OBVIOUS
<1>3. Inferred(ctx, e.to) => Inferred(ctx', e.to)
  OBVIOUS
<1>4. Knows(ctx', e.to, tasks') => Knows(ctx, e.to, tasks)'
  BY DEF Knows
<1>5. Inferred(ctx', e.to) => Inferred(ctx, e.to)'
  BY DEF Inferred
<1> QED
  BY <1>1, <1>2, <1>3, <1>4, <1>5 DEF DeriveInv

\* The verdict of tasks.md.
LEMMA DeriveInferKeeps ==
  ASSUME RecordInv, DeriveInv, NEW d \in derive, DeriveInfer(d), UNCHANGED <<ctx, tasks, overlapped>>
  PROVE  DeriveInv'
<1> DEFINE done == AllIds(tasks) \subseteq DoneIds(tasks)
           step == IF done THEN "implement" ELSE "tasks"
           status == IF done THEN "implemented" ELSE "ready-to-implement"
           next == IF done THEN "journal" ELSE "publish"
           to == AppendOnce(MovedTo(d.to, step, status), Entry(step, None, "start"))
           e == [d EXCEPT !.next = next, !.to = to]
<1>1. d.next = "infer" /\ derive' = IF IsMoreAdvanced(d.to, step) THEN {} ELSE {e}
  BY DEF DeriveInfer, MovedTo
<1>2. /\ d \in [next : {"infer", "journal", "publish"}, was : Nat, to : Records]
      /\ Sound(d.to, tasks) /\ tasks # <<>> /\ (~overlapped => d.to = ctx)
  BY <1>1 DEF DeriveInv
<1>3. CASE IsMoreAdvanced(d.to, step)
  BY <1>1, <1>3 DEF DeriveInv
<1>4. CASE ~ IsMoreAdvanced(d.to, step)
  <2>1. /\ step \in {"tasks", "implement"} /\ next \in {"infer", "journal", "publish"} /\ next # "infer"
        /\ status = IF step = "implement" THEN "implemented" ELSE "ready-to-implement"
    OBVIOUS
  <2> HIDE DEF step, status, next
  <2>2. Knows(d.to, to, tasks) /\ Inferred(d.to, to)
    BY <1>2, <1>4, <2>1, InferDoes
  <2> HIDE DEF to
  <2>3. Sound(to, tasks) /\ to \in Records
    BY <2>2 DEF Knows, Sound
  <2>4. /\ e \in [next : {"infer", "journal", "publish"}, was : Nat, to : Records]
        /\ e.next = next /\ e.to = to
    BY <1>2, <2>1, <2>3, DeriveMoves
  <2> HIDE DEF e
  <2>5. derive' = {e}
    BY <1>1, <1>4
  <2> QED
    BY <1>2, <2>1, <2>2, <2>3, <2>4, <2>5, DeriveStays
<1> QED
  BY <1>3, <1>4

\* The finishes of the boxes.
LEMMA DeriveJournalKeeps ==
  ASSUME RecordInv, DeriveInv, NEW d \in derive, DeriveJournal(d), UNCHANGED <<ctx, tasks, overlapped>>
  PROVE  DeriveInv'
<1> DEFINE to == IF AllIds(tasks) \subseteq DoneIds(tasks)
                 THEN AppendOnce(Named(d.to, tasks), Close) ELSE Named(d.to, tasks)
           e == [d EXCEPT !.next = "publish", !.to = to]
<1>1. d.next = "journal" /\ derive' = {e}
  BY DEF DeriveJournal, Named, Close
<1>2. /\ d \in [next : {"infer", "journal", "publish"}, was : Nat, to : Records]
      /\ Sound(d.to, tasks) /\ tasks # <<>>
      /\ ~overlapped => Knows(ctx, d.to, tasks) /\ Inferred(ctx, d.to)
  BY <1>1 DEF DeriveInv
<1>3. to \in {Named(d.to, tasks), AppendOnce(Named(d.to, tasks), Close)}
  OBVIOUS
<1> HIDE DEF to
<1>4. Knows(d.to, to, tasks) /\ to.step = d.to.step /\ to.status = d.to.status
  BY <1>2, <1>3, JournalDoes
<1>5. Sound(to, tasks) /\ to \in Records
  BY <1>4 DEF Knows, Sound
<1>6. /\ e \in [next : {"infer", "journal", "publish"}, was : Nat, to : Records]
      /\ e.next = "publish" /\ e.to = to
  BY <1>2, <1>5, DeriveMoves
<1> HIDE DEF e
<1>7. ~overlapped => Knows(ctx, to, tasks) /\ Inferred(ctx, to)
  BY <1>2, <1>4, KnowsKnows DEF Inferred
<1> QED
  BY <1>1, <1>2, <1>5, <1>6, <1>7, DeriveStays

\* What it publishes is a record, also when it puts the longer history before its own.
LEMMA SplicedSound ==
  ASSUME NEW d \in [next : {"infer", "journal", "publish"}, was : Nat, to : Records],
         Sound(d.to, tasks), Sound(ctx, tasks)
  PROVE  Sound(Spliced(d), tasks)
<1> DEFINE Told == {e \in Entries : e.sub \in Tasks => e = Fin(e.sub)}
           h == d.to.history
           more == SubSeq(h, d.was + 1, Len(h))
           both == ctx.history \o more
<1>1. ASSUME NEW c, Sound(c, tasks) PROVE c.history \in Seq(Told)
  <2>1. c.history \in Seq(Entries) /\ \A e \in ToSet(c.history) : e.sub \in Tasks => e = Fin(e.sub)
    BY <1>1, RecordFields DEF Sound, Subs
  <2>2. \A i \in 1 .. Len(c.history) : c.history[i] \in Entries /\ c.history[i] \in ToSet(c.history)
    BY <2>1 DEF ToSet
  <2>3. \A i \in 1 .. Len(c.history) : c.history[i] \in Told
    BY <2>1, <2>2
  <2> HIDE DEF Told
  <2> QED
    BY <2>1, <2>3
<1>2. h \in Seq(Told) /\ ctx.history \in Seq(Told)
  BY <1>1
<1> HIDE DEF Told, h
<1>3. more \in Seq(Told)
  <2>1. d.was + 1 \in Int /\ Len(h) \in Int /\ \A i \in d.was + 1 .. Len(h) : h[i] \in Told
    BY <1>2
  <2> QED
    BY <2>1, SubSeqProperties
<1> HIDE DEF more
<1>4. both \in Seq(Told)
  BY <1>2, <1>3, ConcatProperties
<1> HIDE DEF both
<1>5. both \in Seq(Entries) /\ \A e \in ToSet(both) : e.sub \in Tasks => e = Fin(e.sub)
  <2>1. \A i \in 1 .. Len(both) : both[i] \in Told
    BY <1>4
  <2>2. both \in Seq(Entries)
    BY <1>4, <2>1 DEF Told
  <2> QED
    BY <2>1, <2>2 DEF ToSet, Told
<1>6. Spliced(d) = d.to \/ Spliced(d) = [d.to EXCEPT !.history = both]
  BY DEF Spliced, both, more, h
<1>7. d.to \in Records
  BY DEF Sound
<1>8. [d.to EXCEPT !.history = both] \in Records /\ [d.to EXCEPT !.history = both].history = both
  BY <1>5, <1>7 DEF Records
<1>9. Subs([d.to EXCEPT !.history = both])
  BY <1>5, <1>8 DEF Subs
<1> QED
  BY <1>6, <1>8, <1>9 DEF Sound

\* The publish: if no call came in between, what is written knows of all tasks.
LEMMA DerivePublishDoes ==
  ASSUME RecordInv, DeriveInv, NEW d \in derive, DerivePublish(d),
         UNCHANGED <<tasks, events, finished, overlapped>>
  PROVE  RecordInv' /\ DeriveInv' /\ (~overlapped => Inferred(ctx, ctx'))
<1>1. d.next = "publish" /\ ctx' = Spliced(d) /\ derive' = {}
  BY DEF DerivePublish
<1>2. /\ d \in [next : {"infer", "journal", "publish"}, was : Nat, to : Records]
      /\ Sound(d.to, tasks)
      /\ ~overlapped => Knows(ctx, d.to, tasks) /\ Inferred(ctx, d.to)
  BY <1>1 DEF DeriveInv
<1>3. Sound(ctx', tasks)
  BY <1>1, <1>2, SplicedSound DEF RecordInv
<1>4. ~overlapped => ctx' = d.to
  <2>1. d.to.history \in Seq(Entries)
    BY <1>2, RecordFields DEF Sound
  <2>2. Len(d.to.history) \in Nat
    BY <2>1
  <2>3. ~overlapped => Len(d.to.history) >= Len(ctx.history)
    BY <1>2, <2>2 DEF Knows
  <2> QED
    BY <1>1, <2>3 DEF Spliced
<1>5. ~overlapped => Knows(ctx, ctx', tasks) /\ Inferred(ctx, ctx')
  BY <1>2, <1>4
<1>6. Lines' = Lines
  BY DEF Lines
<1>7. Sound(ctx, tasks)' /\ LogInv'
  BY <1>3, <1>6 DEF Sound, RecordInv, LogInv
<1>8. HistoryInv' /\ NoFinishIsLost'
  BY <1>5, <1>6 DEF RecordInv, HistoryInv, NoFinishIsLost, Knows
<1>9. DeriveInv'
  BY <1>1 DEF DeriveInv
<1> QED
  BY <1>5, <1>7, <1>8, <1>9 DEF RecordInv

\* Each of its steps.
LEMMA DeriveKeeps ==
  ASSUME RecordInv, DeriveInv, Derive
  PROVE  /\ RecordInv' /\ DeriveInv' /\ UNCHANGED <<tasks, events, finished, overlapped>>
         /\ ctx' = ctx \/ (~overlapped => Inferred(ctx, ctx'))
<1>1. CASE DeriveRead /\ UNCHANGED <<ctx, tasks, events, finished, overlapped>>
  BY <1>1, DeriveReadKeeps, UnchangedKeeps
<1>2. ASSUME NEW d \in derive, DeriveInfer(d) \/ DeriveJournal(d),
             UNCHANGED <<ctx, tasks, events, finished, overlapped>>
      PROVE  RecordInv' /\ DeriveInv'
  BY <1>2, DeriveInferKeeps, DeriveJournalKeeps, UnchangedKeeps
<1>3. ASSUME NEW d \in derive, DerivePublish(d), UNCHANGED <<tasks, events, finished, overlapped>>
      PROVE  RecordInv' /\ DeriveInv' /\ (~overlapped => Inferred(ctx, ctx'))
  BY <1>3, DerivePublishDoes
<1> QED
  BY <1>1, <1>2, <1>3 DEF Derive

\* A turn that a derive runs by says so; to one who edits it says nothing.
LEMMA OthersKeepDerive ==
  ASSUME RecordInv', DeriveInv, derive' = derive, tasks # <<>> => tasks' # <<>>,
         overlapped' = (overlapped \/ derive # {}) \/ UNCHANGED <<ctx, overlapped>>
  PROVE  DeriveInv'
<1>1. \A d \in derive : Sound(d.to, tasks)'
  BY DEF DeriveInv, RecordInv, Sound
<1>2. CASE overlapped' = (overlapped \/ derive # {})
  <2>1. ~overlapped' => derive' = {}
    BY <1>2
  <2> QED
    BY <1>1, <2>1 DEF DeriveInv
<1>3. CASE UNCHANGED <<ctx, overlapped>>
  <2>1. ASSUME NEW d \in derive, Knows(ctx, d.to, tasks) PROVE Knows(ctx, d.to, tasks)'
    BY <1>1, <1>3, <2>1 DEF Knows
  <2>2. ASSUME NEW d \in derive, Inferred(ctx, d.to) PROVE Inferred(ctx, d.to)'
    BY <1>3, <2>2 DEF Inferred
  <2> QED
    BY <1>1, <1>3, <2>1, <2>2 DEF DeriveInv
<1> QED
  BY <1>2, <1>3

-----------------------------------------------------------------------------
(* Those who write tasks.md.                                                *)

\* A task more, open.
LEMMA WriteTaskKeeps ==
  ASSUME RecordInv, NEW t \in Tasks, WriteTask(t), UNCHANGED overlapped
  PROVE  RecordInv' /\ tasks' # <<>>
<1> DEFINE line == [id |-> t, checked |-> FALSE]
           n == Len(tasks)
<1>1. t \notin AllIds(tasks) /\ tasks' = Append(tasks, line) /\ UNCHANGED <<ctx, events, finished>>
  BY DEF WriteTask
<1>2. tasks \in Documents /\ Once(tasks)
  BY DEF RecordInv, Sound
<1>3. /\ n \in Nat /\ DOMAIN tasks = 1 .. n /\ AllIds(tasks) = {tasks[i].id : i \in 1 .. n}
  BY <1>2, DocumentFields
<1>4. tasks \in Seq([id : Tasks, checked : BOOLEAN]) /\ line \in [id : Tasks, checked : BOOLEAN]
  BY <1>2 DEF Documents
<1>5. /\ tasks' \in Seq([id : Tasks, checked : BOOLEAN]) /\ Len(tasks') = n + 1
      /\ tasks'[n + 1] = line /\ \A i \in 1 .. n : tasks'[i] = tasks[i]
  <2> HIDE DEF line
  <2> QED
    BY <1>1, <1>4
<1>6. tasks' \in Documents
  BY <1>5 DEF Documents
<1> HIDE DEF n
<1>7. /\ DOMAIN tasks' = 1 .. n + 1 /\ AllIds(tasks') = {tasks'[i].id : i \in 1 .. n + 1}
  BY <1>5, <1>6, DocumentFields
<1>8. Once(tasks')
  <2> SUFFICES ASSUME NEW i \in 1 .. n + 1, NEW j \in 1 .. n + 1, tasks'[i].id = tasks'[j].id
               PROVE  i = j
    BY <1>5 DEF Once
  <2>1. \A k \in 1 .. n : tasks'[k].id # t
    BY <1>1, <1>3, <1>5
  <2>2. CASE i \in 1 .. n /\ j \in 1 .. n
    BY <1>2, <1>5, <2>2 DEF Once, n
  <2>3. CASE i = n + 1 \/ j = n + 1
    BY <1>3, <1>5, <2>1, <2>3
  <2> QED
    BY <1>3, <2>2, <2>3
<1>9. Sound(ctx, tasks)' /\ HistoryInv'
  BY <1>1, <1>6, <1>8 DEF RecordInv, Sound, HistoryInv
<1>10. Lines' = Lines
  BY <1>1 DEF Lines
<1>11. LogInv' /\ NoFinishIsLost'
  BY <1>1, <1>10 DEF RecordInv, LogInv, NoFinishIsLost
<1>12. tasks' # <<>>
  BY <1>3, <1>5
<1> QED
  BY <1>9, <1>11, <1>12 DEF RecordInv

\* A box more is checked.
LEMMA TickKeeps ==
  ASSUME RecordInv, NEW i \in DOMAIN tasks, Tick(i), UNCHANGED overlapped
  PROVE  RecordInv' /\ tasks' # <<>>
<1> DEFINE n == Len(tasks)
<1>1. tasks' = [tasks EXCEPT ![i].checked = TRUE] /\ UNCHANGED <<ctx, events, finished>>
  BY DEF Tick
<1>2. tasks \in Documents /\ Once(tasks)
  BY DEF RecordInv, Sound
<1>3. /\ n \in Nat /\ DOMAIN tasks = 1 .. n /\ AllIds(tasks) = {tasks[j].id : j \in 1 .. n}
      /\ \A j \in 1 .. n : tasks[j] \in [id : Tasks, checked : BOOLEAN]
  BY <1>2, DocumentFields
<1>4. tasks \in [1 .. n -> [id : Tasks, checked : BOOLEAN]]
  <2> DEFINE L == [id : Tasks, checked : BOOLEAN]
  <2>1. tasks \in Seq(L)
    BY <1>2 DEF Documents
  <2> HIDE DEF L
  <2>2. tasks \in [1 .. n -> L]
    BY <2>1
  <2> QED
    BY <2>2 DEF L
<1>5. [tasks[i] EXCEPT !.checked = TRUE] \in [id : Tasks, checked : BOOLEAN]
      /\ [tasks[i] EXCEPT !.checked = TRUE].id = tasks[i].id
      /\ [tasks[i] EXCEPT !.checked = TRUE].checked
  BY <1>3
<1>6. /\ tasks' \in [1 .. n -> [id : Tasks, checked : BOOLEAN]]
      /\ \A j \in 1 .. n : tasks'[j].id = tasks[j].id
  BY <1>1, <1>3, <1>4, <1>5
<1>7. tasks' \in Documents /\ Len(tasks') = n
  <2> DEFINE L == [id : Tasks, checked : BOOLEAN]
  <2>1. tasks' \in [1 .. n -> L] /\ n \in Nat
    BY <1>3, <1>6
  <2> HIDE DEF L, n
  <2>2. tasks' \in Seq(L) /\ Len(tasks') = n
    BY <2>1
  <2> QED
    BY <2>2 DEF L, Documents
<1>8. Once(tasks')
  BY <1>2, <1>6, <1>7 DEF Once
<1>9. Sound(ctx, tasks)' /\ HistoryInv'
  BY <1>1, <1>7, <1>8 DEF RecordInv, Sound, HistoryInv
<1>10. Lines' = Lines
  BY <1>1 DEF Lines
<1>11. LogInv' /\ NoFinishIsLost'
  BY <1>1, <1>10 DEF RecordInv, LogInv, NoFinishIsLost
<1>12. tasks' # <<>>
  BY <1>3, <1>7
<1> QED
  BY <1>9, <1>11, <1>12 DEF RecordInv

-----------------------------------------------------------------------------
(* Every step keeps it.                                                     *)

\* The invariant holds of the empty record.
LEMMA InitInv == Init => RecordInv /\ DeriveInv
BY InitRecordInv DEF Init, DeriveInv

\* Every call keeps the invariant.
LEMMA CallKeeps ==
  ASSUME RecordInv, DeriveInv, Call, Turn
  PROVE  RecordInv' /\ DeriveInv'
<1>1. overlapped => overlapped'
  BY DEF Turn
<1>2. ASSUME NEW s \in Steps, StartStep(s) \/ CompleteStep(s) PROVE RecordInv' /\ tasks' = tasks
  <2>1. PICK status \in ToSet(StatusOrder) \cup {None}, kind \in {"start", "complete"} :
          UpdateContext(s, status, kind)
    BY <1>2, HooksUpdate
  <2> QED
    BY <1>1, <2>1, UpdateContextDoes, SameKeeps
<1>3. ASSUME NEW s \in Steps, NEW sub \in Substeps, JournalFinish(s, sub) PROVE RecordInv' /\ tasks' = tasks
  BY <1>1, <1>3, JournalFinishDoes, SameKeeps
<1>4. ASSUME NEW s \in Steps, JournalAdvance(s) PROVE RecordInv' /\ tasks' = tasks
  BY <1>1, <1>4, JournalAdvanceDoes, SameKeeps
<1>5. ASSUME NEW m, NEW T, Gathers(ctx, tasks, m, T), tasks' = m.tasks
      PROVE  tasks # <<>> => tasks' # <<>>
  <2>1. tasks \in Documents /\ tasks' \in Documents /\ Len(tasks') = Len(tasks)
    BY <1>5 DEF Gathers, Sound, RecordInv
  <2> QED
    BY <2>1, LongEnough
<1>6. ASSUME NEW t \in Tasks, CloseTask(t) PROVE RecordInv' /\ (tasks # <<>> => tasks' # <<>>)
  BY <1>1, <1>5, <1>6, CloseTaskKeeps, CloseTaskDoes
<1>7. ASSUME NEW t \in Tasks, JournalTaskFinish(t) PROVE RecordInv' /\ (tasks # <<>> => tasks' # <<>>)
  BY <1>1, <1>5, <1>7, JournalTaskFinishKeeps, JournalTaskFinishDoes
<1>8. ASSUME MaterializeLog PROVE RecordInv' /\ (tasks # <<>> => tasks' # <<>>)
  BY <1>1, <1>5, <1>8, MaterializeLogKeeps, MaterializeLogDoes
<1>9. ASSUME SyncTasks PROVE RecordInv' /\ (tasks # <<>> => tasks' # <<>>)
  BY <1>1, <1>9, SyncTasksDoes
<1>10. ASSUME MarkComplete PROVE RecordInv' /\ (tasks # <<>> => tasks' # <<>>)
  <2>1. RecordInv' /\ Len(tasks') = Len(tasks)
    BY <1>1, <1>10, MarkCompleteDoes
  <2>2. tasks \in Documents /\ tasks' \in Documents
    BY <2>1 DEF RecordInv, Sound
  <2> QED
    BY <2>1, <2>2, LongEnough
<1>11. RecordInv' /\ (tasks # <<>> => tasks' # <<>>)
  BY <1>2, <1>3, <1>4, <1>6, <1>7, <1>8, <1>9, <1>10 DEF Call, StepCall
<1>12. DeriveInv'
  BY <1>11, OthersKeepDerive DEF Turn
<1> QED
  BY <1>11, <1>12

\* So do the appends of workers and the writes to tasks.md.
LEMMA EditKeeps ==
  ASSUME RecordInv, DeriveInv, Edit, Aside
  PROVE  RecordInv' /\ DeriveInv' /\ ctx' = ctx
<1>1. UNCHANGED <<derive, overlapped>>
  BY DEF Aside
<1>2. ASSUME NEW t \in Tasks, AppendTaskLog(t)
      PROVE  RecordInv' /\ (tasks # <<>> => tasks' # <<>>) /\ ctx' = ctx
  BY <1>1, <1>2, AppendTaskLogKeeps DEF AppendTaskLog
<1>3. ASSUME NEW t \in Tasks, WriteTask(t)
      PROVE  RecordInv' /\ (tasks # <<>> => tasks' # <<>>) /\ ctx' = ctx
  BY <1>1, <1>3, WriteTaskKeeps DEF WriteTask
<1>4. ASSUME NEW i \in DOMAIN tasks, Tick(i)
      PROVE  RecordInv' /\ (tasks # <<>> => tasks' # <<>>) /\ ctx' = ctx
  BY <1>1, <1>4, TickKeeps DEF Tick
<1>5. RecordInv' /\ (tasks # <<>> => tasks' # <<>>) /\ ctx' = ctx
  BY <1>2, <1>3, <1>4 DEF Edit
<1>6. DeriveInv'
  BY <1>1, <1>5, OthersKeepDerive
<1> QED
  BY <1>5, <1>6

\* And every step.
LEMMA StepKeeps == RecordInv /\ DeriveInv /\ [Next]_vars => RecordInv' /\ DeriveInv'
<1> SUFFICES ASSUME RecordInv, DeriveInv, [Next]_vars PROVE RecordInv' /\ DeriveInv'
  OBVIOUS
<1>1. CASE UNCHANGED vars
  <2>1. RecordInv'
    BY <1>1, UnchangedKeeps DEF vars
  <2>2. DeriveInv'
    BY <1>1, <2>1, OthersKeepDerive DEF vars
  <2> QED
    BY <2>1, <2>2
<1>2. CASE Next
  BY <1>2, CallKeeps, EditKeeps, DeriveKeeps DEF Next
<1> QED
  BY <1>1, <1>2

\* The invariant holds in every state.
LEMMA Invariant == Spec => [](RecordInv /\ DeriveInv)
<1>1. Init => RecordInv /\ DeriveInv
  BY InitInv
<1>2. RecordInv /\ DeriveInv /\ [Next]_vars => RecordInv' /\ DeriveInv'
  BY StepKeeps
<1> QED
  BY <1>1, <1>2, PTL DEF Spec

\* No finish that a call accepted is lost, in whatever order finishes, folds,
\* syncs, completions and crashes come, and derives that no call has overlapped
\* (mark_spec_complete, materialize_log).
THEOREM NothingLost == Spec => []NoFinishIsLost
<1>1. RecordInv => NoFinishIsLost
  BY DEF RecordInv
<1> QED
  BY <1>1, Invariant, PTL

-----------------------------------------------------------------------------
(* Folding again.                                                           *)

\* Finishes the record has are folded without a change of the history.
LEMMA FoldAgain ==
  ASSUME NEW c \in Records, Subs(c), NEW md, NEW lines \in Seq(Tasks),
         ToSet(lines) \subseteq JournaledTasks(c)
  PROVE  FoldLines(c, md, lines).history = c.history
<1>1. Fins(ToSet(lines)) \subseteq ToSet(c.history)
  BY JournaledIsThere
<1> QED
  BY <1>1, FoldLinesDoes DEF Folds, Adds

\* Boxes that are checked are not changed by checking them.
LEMMA MarkAgain ==
  ASSUME NEW md \in Documents, Once(md), NEW S, NEW T, T \cap AllIds(md) \subseteq S \cup DoneIds(md),
         S \subseteq T
  PROVE  MarkTasksDone(md, T) = MarkTasksDone(md, S)
<1>1. /\ Len(md) \in Nat /\ DOMAIN md = 1 .. Len(md)
      /\ \A i \in 1 .. Len(md) : md[i] \in [id : Tasks, checked : BOOLEAN]
      /\ AllIds(md) = {md[i].id : i \in 1 .. Len(md)}
  BY DocumentFields
<1>2. ASSUME NEW i \in 1 .. Len(md), md[i].id \in T, md[i].id \notin S
      PROVE  [md[i] EXCEPT !.checked = TRUE] = md[i]
  <2>1. md[i].id \in DoneIds(md)
    BY <1>1, <1>2
  <2>2. PICK j \in 1 .. Len(md) : md[j].id = md[i].id /\ md[j].checked
    BY <1>1, <2>1 DEF DoneIds
  <2>3. md[i].checked = TRUE
    BY <1>1, <2>2 DEF Once
  <2> QED
    BY <1>1, <2>3
<1>3. \A i \in 1 .. Len(md) :
        (IF md[i].id \in T THEN [md[i] EXCEPT !.checked = TRUE] ELSE md[i])
          = (IF md[i].id \in S THEN [md[i] EXCEPT !.checked = TRUE] ELSE md[i])
  BY <1>2
<1> QED
  BY <1>1, <1>3 DEF MarkTasksDone

\* Nothing is marked.
LEMMA MarkNothing ==
  ASSUME NEW md \in Documents
  PROVE  MarkTasksDone(md, {}) = md
BY DocumentFields DEF MarkTasksDone, Documents

\* The log folded into what it was folded into.
LEMMA MaterializedTwice ==
  ASSUME NEW c, NEW md, Sound(c, md), NEW lines \in Seq(Tasks), lines # <<>>,
         NEW m, m = Materialized(c, md, lines)
  PROVE  /\ Materialized(m.ctx, m.tasks, lines).tasks = m.tasks
         /\ Materialized(m.ctx, m.tasks, lines).ctx.history = m.ctx.history
         /\ Materialized(m.ctx, m.tasks, lines).ctx.summaries = m.ctx.summaries
<1> DEFINE r == FoldLines(c, md, lines)
           ticked == MarkTasksDone(md, JournaledTasks(r))
           again == FoldLines(m.ctx, m.tasks, lines)
           reticked == MarkTasksDone(m.tasks, JournaledTasks(again))
<1>1. m.ctx = MaybeCloseImplement(r, ticked) /\ m.tasks = ticked
  BY DEF Materialized
<1>2. Gathers(c, md, m, ToSet(lines))
  BY MaterializedDoes
<1>3. /\ m.ctx \in Records /\ Subs(m.ctx) /\ m.tasks \in Documents /\ Once(m.tasks)
      /\ ToSet(lines) \subseteq JournaledTasks(m.ctx) /\ m.ctx.summaries = c.summaries \cup ToSet(lines)
  BY <1>2 DEF Gathers, Sound
<1>4. again.history = m.ctx.history
  BY <1>3, FoldAgain
<1>5. again \in Records /\ again.summaries = m.ctx.summaries
  BY <1>3, FoldLinesDoes DEF Folds, Adds
<1>6. r \in Records
  BY FoldLinesDoes DEF Folds, Adds, Sound
<1>7. Materialized(m.ctx, m.tasks, lines)
        = [ctx |-> MaybeCloseImplement(again, reticked), tasks |-> reticked]
  BY DEF Materialized
<1>8. reticked = m.tasks
  <2>1. JournaledTasks(again) = JournaledTasks(m.ctx)
    BY <1>4 DEF JournaledTasks
  <2>2. JournaledTasks(r) = JournaledTasks(m.ctx)
    <3>1. Adds(c, r, Fins(ToSet(lines))) /\ Subs(c) /\ ToSet(lines) \subseteq Tasks
      BY FoldLinesDoes DEF Folds, Sound, ToSet
    <3> HIDE DEF r
    <3>2. JournaledTasks(r) = JournaledTasks(c) \cup ToSet(lines)
      BY <3>1, FinsJournal
    <3> QED
      BY <1>2, <3>2 DEF Gathers
  <2>3. md \in Documents
    BY DEF Sound
  <2> HIDE DEF again, r
  <2>4. JournaledTasks(again) \cap AllIds(m.tasks) \subseteq DoneIds(m.tasks)
    BY <1>1, <2>1, <2>2, <2>3, MarkDone
  <2>5. MarkTasksDone(m.tasks, JournaledTasks(again)) = MarkTasksDone(m.tasks, {})
    BY <1>3, <2>4, MarkAgain
  <2> QED
    BY <1>3, <2>5, MarkNothing
<1> HIDE DEF r, ticked, again, reticked
<1>9. ~ Closes(again, m.tasks)
  <2>1. CASE Closes(r, ticked)
    <3>1. m.ctx.history = Append(r.history, Close) /\ Close \in Entries /\ r.history \in Seq(Entries)
      BY <1>1, <1>6, <2>1, MaybeCloseDoes, CloseEntry, RecordFields
    <3>2. Close \in ToSet(m.ctx.history)
      BY <3>1, AppendSet
    <3> QED
      BY <1>4, <3>2 DEF Closes
  <2>2. CASE ~ Closes(r, ticked)
    <3>1. m.ctx = r
      BY <1>1, <1>6, <2>2, MaybeCloseDoes
    <3> QED
      BY <1>1, <1>4, <2>2, <3>1, ClosesByHistory
  <2> QED
    BY <2>1, <2>2
<1>10. MaybeCloseImplement(again, reticked) = again
  BY <1>5, <1>8, <1>9, MaybeCloseDoes
<1> QED
  BY <1>4, <1>5, <1>7, <1>8, <1>10

\* Each boundary is in the history once, and folding the log again, per batch
\* and at the close, changes neither history nor summaries nor boxes, as long as
\* no call and derive have overlapped (append_complete, materialize_log).
THEOREM RepeatsAdd == Spec => []RepeatsAddNothing
<1>1. RecordInv => RepeatsAddNothing
  <2> SUFFICES ASSUME RecordInv, ~overlapped PROVE RepeatsAddNothing
    BY DEF RepeatsAddNothing
  <2> DEFINE once == Materialize(ctx, tasks)
             twice == Materialize(once.ctx, once.tasks)
  <2>1. IsInjective(ctx.history)
    BY DEF RecordInv, HistoryInv
  <2>2. CASE once.ctx.status \in Shipped \/ events = {}
    <3>1. twice = [ctx |-> once.ctx, tasks |-> once.tasks]
      BY <2>2 DEF Materialize
    <3> QED
      BY <2>1, <3>1 DEF RepeatsAddNothing
  <2>3. CASE once.ctx.status \notin Shipped /\ events # {} /\ ctx.status \notin Shipped
    <3>1. Lines \in Seq(Tasks) /\ Lines # <<>> /\ Sound(ctx, tasks)
      BY <2>3, LinesTyped DEF RecordInv
    <3>2. once = Materialized(ctx, tasks, Lines) /\ twice = Materialized(once.ctx, once.tasks, Lines)
      BY <2>3 DEF Materialize
    <3> HIDE DEF once
    <3>3. /\ Materialized(once.ctx, once.tasks, Lines).tasks = once.tasks
          /\ Materialized(once.ctx, once.tasks, Lines).ctx.history = once.ctx.history
          /\ Materialized(once.ctx, once.tasks, Lines).ctx.summaries = once.ctx.summaries
      BY <3>1, <3>2, MaterializedTwice
    <3> QED
      BY <2>1, <3>2, <3>3 DEF RepeatsAddNothing, once
  <2>4. CASE ctx.status \in Shipped
    <3>1. once = [ctx |-> ctx, tasks |-> tasks]
      BY <2>4 DEF Materialize
    <3> QED
      BY <2>2, <2>4, <3>1
  <2> QED
    BY <2>2, <2>3, <2>4
<1> QED
  BY <1>1, Invariant, PTL

-----------------------------------------------------------------------------
(* The two ways to finish a task.                                           *)

\* With nothing else pending and every finished task of tasks.md checked, the
\* append folded later and the live call write the same history and the same
\* summaries, for any id (materialize_log, journal_task_finish).
THEOREM FoldsAgree == Spec => []FoldEqualsLive
<1>1. RecordInv => FoldEqualsLive
  <2> SUFFICES ASSUME RecordInv, NEW t \in Tasks,
                      JournaledTasks(ctx) \cap AllIds(tasks) \subseteq DoneIds(tasks),
                      ToSet(Lines) \subseteq JournaledTasks(ctx) \cap ctx.summaries
               PROVE  /\ Materialized(ctx, tasks, Append(Lines, t)).ctx.history
                           = LiveFinish(ctx, tasks, t).ctx.history
                      /\ Materialized(ctx, tasks, Append(Lines, t)).ctx.summaries
                           = LiveFinish(ctx, tasks, t).ctx.summaries
    BY DEF FoldEqualsLive, FoldsAsLive
  <2> DEFINE before == FoldLines(ctx, tasks, Lines)
             r == FoldTaskFinish(before, t, tasks)
             ticked == MarkTasksDone(tasks, JournaledTasks(r))
             boxed == MarkTasksDone(tasks, {t})
             q == FoldTaskFinish(ctx, t, boxed)
  <2>1. /\ ctx \in Records /\ tasks \in Documents /\ Subs(ctx) /\ Once(tasks)
        /\ Lines \in Seq(Tasks)
    BY LinesTyped DEF RecordInv, Sound
  <2>2. before \in Records /\ before.summaries = ctx.summaries /\ before.history = ctx.history
    <3>1. ToSet(Lines) \subseteq JournaledTasks(ctx) /\ ToSet(Lines) \subseteq ctx.summaries
      OBVIOUS
    <3>2. Folds(ctx, before, ToSet(Lines))
      BY <2>1, FoldLinesDoes
    <3>3. before.history = ctx.history
      BY <2>1, <3>1, FoldAgain
    <3> HIDE DEF before
    <3>4. before \in Records /\ before.summaries = ctx.summaries \cup ToSet(Lines)
      BY <3>2 DEF Folds, Adds
    <3> QED
      BY <3>1, <3>3, <3>4
  <2>3. FoldLines(ctx, tasks, Append(Lines, t)) = r
    BY <2>1, FoldLinesAppend
  <2>4. Materialized(ctx, tasks, Append(Lines, t)).ctx = MaybeCloseImplement(r, ticked)
    BY <2>3 DEF Materialized
  <2>5. LiveFinish(ctx, tasks, t).ctx = MaybeCloseImplement(q, boxed)
    BY DEF LiveFinish
  <2> HIDE DEF before
  <2>6. /\ r \in Records /\ r.summaries = ctx.summaries \cup {t} /\ Adds(ctx, r, {Fin(t)})
        /\ r.history = IF Fin(t) \in ToSet(ctx.history) THEN ctx.history ELSE Append(ctx.history, Fin(t))
    BY <2>1, <2>2, FoldOneAdds DEF Adds
  <2>7. /\ q \in Records /\ q.summaries = ctx.summaries \cup {t}
        /\ q.history = IF Fin(t) \in ToSet(ctx.history) THEN ctx.history ELSE Append(ctx.history, Fin(t))
    BY <2>1, FoldOneAdds DEF Adds
  <2> HIDE DEF r, q
  <2>8. ticked = boxed
    <3>1. {Fin(t)} = Fins({t}) /\ {t} \subseteq Tasks
      BY <2>1 DEF Fins
    <3>2. Adds(ctx, r, Fins({t}))
      BY <2>6, <3>1
    <3>3. JournaledTasks(r) = JournaledTasks(ctx) \cup {t}
      BY <2>1, <3>1, <3>2, FinsJournal
    <3> QED
      BY <2>1, <3>3, MarkAgain
  <2> HIDE DEF ticked, boxed
  <2>9. r.history = q.history /\ (Closes(r, boxed) <=> Closes(q, boxed))
    BY <2>6, <2>7, ClosesByHistory
  <2>10. MaybeCloseImplement(r, boxed).history = MaybeCloseImplement(q, boxed).history
    BY <2>6, <2>7, <2>9, MaybeCloseDoes
  <2>11. /\ MaybeCloseImplement(r, boxed).summaries = r.summaries
         /\ MaybeCloseImplement(q, boxed).summaries = q.summaries
    BY <2>6, <2>7, MaybeCloseDoes
  <2> QED
    BY <2>4, <2>5, <2>6, <2>7, <2>8, <2>10, <2>11
<1> QED
  BY <1>1, Invariant, PTL

-----------------------------------------------------------------------------
(* The status.                                                              *)

\* The last status each of the steps of STEP_ORDER may leave.
Limit == [specify |-> 2, clarify |-> 2, plan |-> 4, tasks |-> 6, analyze |-> 6,
          implement |-> 8, converge |-> 8]

\* A spec in flight is in a step of STEP_ORDER, and its status is one that step
\* may have: _is_more_advanced compares steps alone, and this makes it right of statuses.
StatusInv ==
  \/ ctx.status \in Shipped \cup {None}
  \/ ctx.step \in DOMAIN StepOrder /\ Rank(ctx.status) <= Limit[ctx.step]

\* What StatusMovesForward allows a step to do to the status.
Forward ==
  \/ Rank(ctx'.status) >= Rank(ctx.status)
  \/ ctx.status = "implemented" /\ ctx'.status = "implementing" /\ ~TasksAt100(tasks')
  \/ ctx'.step = ctx.step /\ ~Has(ctx, Entry(ctx.step, None, "complete"))

\* The statuses in order.
LEMMA Ranks ==
  /\ Rank(None) = 0 /\ Rank("specifying") = 1 /\ Rank("specified") = 2
  /\ Rank("planning") = 3 /\ Rank("planned") = 4 /\ Rank("tasking") = 5
  /\ Rank("ready-to-implement") = 6 /\ Rank("implementing") = 7
  /\ Rank("implemented") = 8 /\ Rank("completed") = 9 /\ Rank("archived") = 10
<1>1. Len(StatusOrder) = 10 /\ DOMAIN StatusOrder = 1 .. 10
  BY DEF StatusOrder
<1>2. /\ StatusOrder[1] = "specifying" /\ StatusOrder[2] = "specified" /\ StatusOrder[3] = "planning"
      /\ StatusOrder[4] = "planned" /\ StatusOrder[5] = "tasking"
      /\ StatusOrder[6] = "ready-to-implement" /\ StatusOrder[7] = "implementing"
      /\ StatusOrder[8] = "implemented" /\ StatusOrder[9] = "completed" /\ StatusOrder[10] = "archived"
  BY DEF StatusOrder
<1>3. \A i, j \in 1 .. 10 : StatusOrder[i] = StatusOrder[j] => i = j
  BY <1>2
<1>4. ASSUME NEW i \in 1 .. 10
      PROVE  Rank(StatusOrder[i]) = i
  <2>1. StatusOrder[i] \in ToSet(StatusOrder)
    BY <1>1 DEF ToSet
  <2>2. StatusOrder[i] # None
    BY <2>1, StatusFacts
  <2>3. (CHOOSE j \in DOMAIN StatusOrder : StatusOrder[j] = StatusOrder[i]) \in 1 .. 10
    BY <1>1
  <2>4. StatusOrder[CHOOSE j \in DOMAIN StatusOrder : StatusOrder[j] = StatusOrder[i]] = StatusOrder[i]
    BY <1>1
  <2> QED
    BY <1>3, <2>2, <2>3, <2>4 DEF Rank
<1>5. Rank(None) = 0
  BY DEF Rank
<1> QED
  BY <1>2, <1>4, <1>5

\* What the ranks say of every status.
LEMMA RankTyped ==
  ASSUME NEW s \in ToSet(StatusOrder) \cup {None}
  PROVE  /\ Rank(s) \in 0 .. 10 /\ (s \notin Shipped => Rank(s) <= 8)
         /\ (s \notin TerminalStatuses => Rank(s) <= 7)
BY Ranks, StatusFacts DEF Shipped, TerminalStatuses

\* A shipped record is past every step.
LEMMA ShippedIsAdvanced ==
  ASSUME NEW c, c.status \in Shipped, NEW step
  PROVE  IsMoreAdvanced(c, step)
BY DEF IsMoreAdvanced, Shipped, TerminalStatuses

\* A record that is not past a step has a status the step may have, and if it is
\* at another step than one that starts and ends a status, it has an earlier one.
LEMMA NotAdvanced ==
  ASSUME ctx \in Records, StatusInv, NEW step \in DOMAIN StepOrder, ~ IsMoreAdvanced(ctx, step)
  PROVE  /\ ctx.status \notin Shipped
         /\ Rank(ctx.status) <= Limit[step]
         /\ step # "converge" => Rank(ctx.status) <= 7
         /\ step = "specify" /\ ctx.step # step => ctx.status = None
         /\ step = "plan" /\ ctx.step # step => Rank(ctx.status) <= 2
         /\ step = "tasks" /\ ctx.step # step => Rank(ctx.status) <= 4
<1>1. ctx.status \in ToSet(StatusOrder) \cup {None}
  BY RecordFields
<1>2. /\ Rank(ctx.status) \in 0 .. 10 /\ (ctx.status \notin Shipped => Rank(ctx.status) <= 8)
      /\ (ctx.status \notin TerminalStatuses => Rank(ctx.status) <= 7)
  BY <1>1, RankTyped
<1>3. ctx.status \notin Shipped
  BY ShippedIsAdvanced
<1>4. CASE step = "converge"
  BY <1>2, <1>3, <1>4 DEF Limit
<1>5. CASE step # "converge"
  <2>1. ctx.status \notin TerminalStatuses
    BY <1>5 DEF IsMoreAdvanced
  <2>2. CASE ctx.status = None
    BY <1>2, <1>3, <2>1, <2>2, Ranks DEF Limit, StepOrder
  <2>3. CASE ctx.status # None
    <3>1. ctx.step \in DOMAIN StepOrder /\ Rank(ctx.status) <= Limit[ctx.step]
      BY <1>3, <2>3 DEF StatusInv
    <3>2. ctx.step # "converge" => StepOrder[ctx.step] <= StepOrder[step]
      BY <1>5, <3>1 DEF IsMoreAdvanced, StepOrder
    <3>3. ctx.step = "converge" => StepOrder["implement"] <= StepOrder[step]
      BY <1>5 DEF IsMoreAdvanced, StepOrder
    <3>4. ctx.step \in {"specify", "clarify", "plan", "tasks", "analyze", "implement", "converge"}
          /\ step \in {"specify", "clarify", "plan", "tasks", "analyze", "implement"}
      BY <1>5, <3>1 DEF StepOrder
    <3> QED
      BY <1>2, <1>3, <2>1, <3>1, <3>2, <3>3, <3>4 DEF Limit, StepOrder
  <2> QED
    BY <2>2, <2>3
<1> QED
  BY <1>4, <1>5

\* A hook's call to a step of STEP_ORDER with the status it names.
LEMMA HookMovesForward ==
  ASSUME ctx \in Records, StatusInv, NEW step \in DOMAIN StepOrder, ~ IsMoreAdvanced(ctx, step),
         ctx'.step = step,
         \/ ctx'.status = ctx.status
         \/ step \in DOMAIN StepCompletedStatus /\ ctx'.status = StepCompletedStatus[step]
         \/ /\ step \in DOMAIN StepStartedStatus /\ ctx'.status = StepStartedStatus[step]
            /\ ~ Has(ctx, Entry(step, None, "complete"))
  PROVE  StatusInv' /\ Forward
<1>1. Rank(ctx.status) \in 0 .. 10
  BY RecordFields, RankTyped
<1>2. /\ Rank(ctx.status) <= Limit[step] /\ (step # "converge" => Rank(ctx.status) <= 7)
      /\ (step = "specify" /\ ctx.step # step => ctx.status = None)
      /\ (step = "plan" /\ ctx.step # step => Rank(ctx.status) <= 2)
      /\ (step = "tasks" /\ ctx.step # step => Rank(ctx.status) <= 4)
  BY NotAdvanced
<1>3. CASE ctx'.status = ctx.status
  BY <1>1, <1>2, <1>3 DEF StatusInv, Forward
<1>4. CASE step \in DOMAIN StepCompletedStatus /\ ctx'.status = StepCompletedStatus[step]
  <2>1. Rank(ctx'.status) = Limit[step]
    BY <1>4, Ranks DEF StepCompletedStatus, Limit
  <2> QED
    BY <1>1, <1>2, <2>1 DEF StatusInv, Forward, Limit, StepOrder
<1>5. CASE /\ step \in DOMAIN StepStartedStatus /\ ctx'.status = StepStartedStatus[step]
           /\ ~ Has(ctx, Entry(step, None, "complete"))
  <2>1. Rank(ctx'.status) <= Limit[step]
    BY <1>5, Ranks DEF StepStartedStatus, Limit
  <2>2. CASE ctx.step = step
    BY <1>5, <2>1, <2>2 DEF StatusInv, Forward
  <2>3. CASE ctx.step # step
    <3>1. Rank(ctx'.status) >= Rank(ctx.status)
      BY <1>1, <1>2, <1>5, <2>3, Ranks DEF StepStartedStatus
    <3> QED
      BY <2>1, <3>1 DEF StatusInv, Forward
  <2> QED
    BY <2>2, <2>3
<1> QED
  BY <1>3, <1>4, <1>5

\* The fold of finishes.
LEMMA FoldMovesForward ==
  ASSUME ctx \in Records, Advances(ctx, ctx')
  PROVE  StatusInv' /\ Forward
<1>1. ctx.status \in ToSet(StatusOrder) \cup {None}
  BY RecordFields
<1>2. /\ Rank(ctx.status) \in 0 .. 10 /\ (ctx.status \notin Shipped => Rank(ctx.status) <= 8)
      /\ (ctx.status \notin TerminalStatuses => Rank(ctx.status) <= 7)
  BY <1>1, RankTyped
<1>3. ctx'.step = "implement" /\ Limit["implement"] = 8 /\ "implement" \in DOMAIN StepOrder
  BY DEF Advances, Limit, StepOrder
<1>4. CASE ctx.status \in TerminalStatuses
  <2>1. ctx'.status = ctx.status
    BY <1>4 DEF Advances
  <2> QED
    BY <1>2, <1>3, <2>1 DEF StatusInv, Forward
<1>5. CASE ctx.status \notin TerminalStatuses
  <2>1. Rank(ctx'.status) \in {7, 8}
    BY <1>5, Ranks DEF Advances
  <2> QED
    BY <1>2, <1>3, <1>5, <2>1 DEF StatusInv, Forward
<1> QED
  BY <1>4, <1>5

\* A call that leaves step and status as they are.
LEMMA StayingMovesForward ==
  ASSUME ctx \in Records, StatusInv, ctx'.step = ctx.step, ctx'.status = ctx.status
  PROVE  StatusInv' /\ Forward
<1>1. Rank(ctx.status) \in 0 .. 10
  BY RecordFields, RankTyped
<1> QED
  BY <1>1 DEF StatusInv, Forward

\* Every step.
LEMMA StatusStep ==
  ASSUME Steps \subseteq DOMAIN StepOrder, RecordInv, DeriveInv, ~overlapped, StatusInv, [Next]_vars
  PROVE  /\ StatusInv' /\ Forward
         /\ ctx.status \in Shipped => ctx' = ctx /\ events' \subseteq events
<1>1. ctx \in Records
  BY DEF RecordInv, Sound
<1>2. CASE ctx' = ctx /\ (events' \subseteq events \/ ctx.status \notin Shipped)
  BY <1>1, <1>2, StayingMovesForward
<1>3. ASSUME NEW step \in Steps, StartStep(step) \/ CompleteStep(step)
      PROVE  StatusInv' /\ Forward /\ ctx.status \notin Shipped
  <2>1. PICK status \in ToSet(StatusOrder) \cup {None}, kind \in {"start", "complete"} :
           /\ UpdateContext(step, status, kind)
           /\ \/ status = None
              \/ kind = "start" /\ status = StatusIn(StepStartedStatus, step)
              \/ kind = "complete" /\ status = StatusIn(StepCompletedStatus, step)
    BY <1>3, HooksUpdate
  <2>2. /\ ~ IsMoreAdvanced(ctx, step)
        /\ \/ /\ ctx'.step = ctx.step /\ ctx'.status = ctx.status
              /\ kind = "start" /\ Has(ctx, Entry(step, None, "complete"))
           \/ /\ ctx'.step = step
              /\ ctx'.status = IF status = None THEN ctx.status ELSE status
              /\ kind = "start" => ~ Has(ctx, Entry(step, None, "complete"))
    BY <2>1, UpdateContextDoes
  <2>3. ctx.status \notin Shipped
    BY <2>2, ShippedIsAdvanced
  <2>4. CASE ctx'.step = ctx.step /\ ctx'.status = ctx.status
    BY <1>1, <2>3, <2>4, StayingMovesForward
  <2>5. CASE /\ ctx'.step = step
             /\ ctx'.status = IF status = None THEN ctx.status ELSE status
             /\ kind = "start" => ~ Has(ctx, Entry(step, None, "complete"))
    <3>1. \/ ctx'.status = ctx.status
          \/ step \in DOMAIN StepCompletedStatus /\ ctx'.status = StepCompletedStatus[step]
          \/ /\ step \in DOMAIN StepStartedStatus /\ ctx'.status = StepStartedStatus[step]
             /\ ~ Has(ctx, Entry(step, None, "complete"))
      BY <2>1, <2>5 DEF StatusIn
    <3>2. StatusInv' /\ Forward
      BY <1>1, <2>2, <2>5, <3>1, HookMovesForward
    <3> QED
      BY <2>3, <3>2
  <2> QED
    BY <2>2, <2>4, <2>5
<1>4. ASSUME NEW step \in Steps, NEW sub \in Substeps, JournalFinish(step, sub)
      PROVE  StatusInv' /\ Forward /\ ctx.status \notin Shipped
  BY <1>1, <1>4, JournalFinishDoes, StayingMovesForward
<1>5. ASSUME NEW step \in Steps, JournalAdvance(step)
      PROVE  StatusInv' /\ Forward /\ ctx.status \notin Shipped
  <2>1. /\ ctx.status \notin Shipped
        /\ \/ ctx'.status = ctx.status /\ ctx'.step = ctx.step
           \/ /\ step \in DOMAIN StepCompletedStatus /\ ~ IsMoreAdvanced(ctx, step)
              /\ ctx'.status = StepCompletedStatus[step] /\ ctx'.step = step
    BY <1>5, JournalAdvanceDoes
  <2>2. CASE ctx'.status = ctx.status /\ ctx'.step = ctx.step
    BY <1>1, <2>1, <2>2, StayingMovesForward
  <2>3. CASE /\ step \in DOMAIN StepCompletedStatus /\ ~ IsMoreAdvanced(ctx, step)
             /\ ctx'.status = StepCompletedStatus[step] /\ ctx'.step = step
    <3>1. StatusInv' /\ Forward
      BY <1>1, <2>3, HookMovesForward
    <3> QED
      BY <2>1, <3>1
  <2> QED
    BY <2>1, <2>2, <2>3
<1>6. ASSUME Derive, ctx' # ctx
      PROVE  StatusInv' /\ Forward /\ ctx.status \notin Shipped
  <2>1. /\ ctx'.step \in {"tasks", "implement"} /\ ~ IsMoreAdvanced(ctx, ctx'.step)
        /\ ctx'.status = IF ctx'.step = "implement" THEN "implemented" ELSE "ready-to-implement"
    BY <1>6, DeriveKeeps DEF Inferred
  <2>2. ctx.status \notin Shipped
    BY <2>1, ShippedIsAdvanced
  <2>3. /\ ctx'.step \in DOMAIN StepOrder
        /\ ctx'.step \in DOMAIN StepCompletedStatus /\ ctx'.status = StepCompletedStatus[ctx'.step]
    BY <2>1 DEF StepOrder, StepCompletedStatus
  <2>4. StatusInv' /\ Forward
    BY <1>1, <2>1, <2>3, HookMovesForward
  <2> QED
    BY <2>2, <2>4
<1>7. ASSUME NEW t \in Tasks, AppendTaskLog(t)
      PROVE  ctx' = ctx /\ ctx.status \notin Shipped
  BY <1>7 DEF AppendTaskLog
<1>8. ASSUME NEW m, NEW T, Gathers(ctx, tasks, m, T), ctx' = m.ctx
      PROVE  StatusInv' /\ Forward
  <2>1. Advances(ctx, ctx')
    BY <1>8 DEF Gathers
  <2> QED
    BY <1>1, <2>1, FoldMovesForward
<1>9. ASSUME NEW t \in Tasks, CloseTask(t)
      PROVE  StatusInv' /\ Forward /\ ctx.status \notin Shipped
  BY <1>8, <1>9, CloseTaskDoes
<1>10. ASSUME NEW t \in Tasks, JournalTaskFinish(t)
       PROVE  StatusInv' /\ Forward /\ ctx.status \notin Shipped
  BY <1>8, <1>10, JournalTaskFinishDoes
<1>11. ASSUME MaterializeLog
       PROVE  StatusInv' /\ Forward /\ ctx.status \notin Shipped
  BY <1>8, <1>11, MaterializeLogDoes
<1>12. ASSUME NEW t \in Tasks, WriteTask(t)
       PROVE  ctx' = ctx /\ ctx.status \notin Shipped
  BY <1>12 DEF WriteTask
<1>13. ASSUME NEW i \in DOMAIN tasks, Tick(i)
       PROVE  ctx' = ctx /\ events' = events
  BY <1>13 DEF Tick
<1>14. ASSUME SyncTasks
       PROVE  StatusInv' /\ Forward /\ ctx.status \notin Shipped
  <2>1. /\ ctx.status \notin Shipped /\ ctx'.step = "implement"
        /\ ctx'.status = IF TasksAt100(tasks') THEN "implemented" ELSE "implementing"
    BY <1>14, SyncTasksDoes
  <2>2. ctx.status \in ToSet(StatusOrder) \cup {None}
    BY <1>1, RecordFields
  <2>3. Rank(ctx.status) \in 0 .. 8 /\ (ctx.status # "implemented" => Rank(ctx.status) <= 7)
    BY <2>1, <2>2, RankTyped DEF Shipped, TerminalStatuses
  <2>4. StatusInv'
    BY <2>1, Ranks DEF StatusInv, Limit, StepOrder
  <2>5. Forward
    BY <2>1, <2>3, Ranks DEF Forward
  <2> QED
    BY <2>1, <2>4, <2>5
<1>15. ASSUME MarkComplete
       PROVE  StatusInv' /\ Forward /\ ctx.status \notin Shipped
  <2>1. ctx.status \in {"implementing", "implemented"} /\ ctx'.status = "completed"
    BY <1>15, MarkCompleteDoes
  <2> QED
    BY <2>1, Ranks DEF StatusInv, Forward, Shipped
<1>16. CASE UNCHANGED vars
  BY <1>2, <1>16 DEF vars
<1>17. CASE Call
  BY <1>3, <1>4, <1>5, <1>9, <1>10, <1>11, <1>14, <1>15, <1>17 DEF Call, StepCall
<1>18. CASE Edit
  BY <1>2, <1>7, <1>12, <1>13, <1>18 DEF Edit
<1>19. CASE Derive
  <2>1. events' = events
    BY <1>19, DeriveKeeps
  <2> QED
    BY <1>2, <1>6, <1>19, <2>1
<1> QED
  BY <1>16, <1>17, <1>18, <1>19 DEF Next

\* As long as no call and derive have overlapped, and the steps are those of
\* STEP_ORDER, no late or repeated hook drags a status back, and a shipped spec's
\* record and log stay (_is_more_advanced, update_context).
THEOREM NeverDraggedBack ==
  ASSUME Steps \subseteq DOMAIN StepOrder
  PROVE  Spec => StatusMovesForward
<1> DEFINE Inv == RecordInv /\ DeriveInv
           Stat == ~overlapped => StatusInv
<1>1. Init => Stat
  BY DEF Init, StatusInv, Blank
<1>2. Inv /\ Stat /\ [Next]_vars => Stat'
  <2> SUFFICES ASSUME Inv, Stat, [Next]_vars, ~overlapped' PROVE StatusInv'
    OBVIOUS
  <2>1. ~overlapped
    BY DEF Next, Turn, Aside, Derive, vars
  <2> QED
    BY <2>1, StatusStep
<1>3. Inv /\ Stat /\ [Next]_vars =>
        [ ~overlapped =>
            /\ \/ Rank(ctx'.status) >= Rank(ctx.status)
               \/ ctx.status = "implemented" /\ ctx'.status = "implementing" /\ ~TasksAt100(tasks')
               \/ ctx'.step = ctx.step /\ ~Has(ctx, Entry(ctx.step, None, "complete"))
            /\ ctx.status \in Shipped => ctx' = ctx /\ events' \subseteq events ]_vars
  BY StatusStep DEF Forward
<1>4. Spec => []Inv
  BY Invariant
<1> QED
  BY <1>1, <1>2, <1>3, <1>4, PTL DEF Spec, StatusMovesForward
=============================================================================
