------------------------------ MODULE CodeDrift ------------------------------
(***************************************************************************)
(* Code that drifts from the living specs (drift.py): a git history, the   *)
(* working tree before it, the records of pipeline runs, and the report    *)
(* that says which files of a capability changed after its spec was last   *)
(* committed.  The report only reads; what it reads is changed by people,  *)
(* runs, --accept and commits of any part of the tree, in any order.       *)
(*                                                                         *)
(* A path is [kind, name]: "code", a capability's "spec", a "doc" in a     *)
(* spec's directory (its tiers), or a run's "record" (.spec-context.json). *)
(* A tree maps every path to its content, None when there is no file.      *)
(* History is linear, git answers, nothing is staged but in a commit, and  *)
(* git pairs renames among code files as it does by default: a file that   *)
(* went with one that came and is like it, each at most once.              *)
(***************************************************************************)
EXTENDS Naturals, SequencesExt, FiniteSetsExt

CONSTANTS
  Caps,        \* the registered capabilities
  Code,        \* code files
  Dir,         \* the directory of each capability's spec
  Claims,      \* the paths each capability's globs match
  Exempt,      \* the paths the exempt globs match
  Marks,       \* what the touches markers of a capability's spec may name
  Likeness,    \* contents of one class are alike enough to be a rename
  Turn,        \* among equals, the files git pairs first
  Runs,        \* pipeline runs, each with its record
  Contents,    \* what a code file or a document may hold
  Initial,     \* the first commits there may be
  MaxCommits,  \* bound: commits
  MaxEdits,    \* bound: changes of the working tree
  None         \* no file

CodeFile(f) == [kind |-> "code", name |-> f]
SpecOf(c)   == [kind |-> "spec", name |-> c]
Doc(d)      == [kind |-> "doc", name |-> d]
Record(r)   == [kind |-> "record", name |-> r]

CodePaths == {CodeFile(f) : f \in Code}
Docs      == {Doc(Dir[c]) : c \in Caps}
Paths     == CodePaths \cup Docs \cup {SpecOf(c) : c \in Caps} \cup {Record(r) : r \in Runs}

ASSUME FiniteCode == IsFiniteSet(Code)

SpecContents(c) == [touches : Marks[c], reviewed : Nat]
Records == [files : SUBSET CodePaths, accounts : SUBSET Caps]

\* A tree maps every path; a spec and a record are read by their fields.
IsTree(tree) ==
  /\ DOMAIN tree = Paths
  /\ \A c \in Caps : tree[SpecOf(c)] \in SpecContents(c) \cup {None}
  /\ \A r \in Runs : tree[Record(r)] \in Records \cup {None}

ASSUME InitialTrees == \A tree \in Initial : IsTree(tree)
ASSUME NoneAssumption ==
  None \notin Contents /\ None \notin Records /\ \A c \in Caps : None \notin SpecContents(c)

VARIABLES
  commits,   \* the trees of the commits, oldest first
  work,      \* the working tree
  edits      \* changes of the working tree so far

vars == <<commits, work, edits>>

HeadTree == Last(commits)

Init ==
  /\ \E tree \in Initial : commits = <<tree>> /\ work = tree
  /\ edits = 0

-----------------------------------------------------------------------------
(* What a report is made from.  A view is a checkout: `edge` is its oldest *)
(* commit, 1 unless the clone is shallow; `since` the commit --since names,*)
(* or 0; `working` the mode; `work` its working tree.                      *)

View(since, working) == [edge |-> 1, since |-> since, working |-> working, work |-> work]
Clone(edge) == [edge |-> edge, since |-> 0, working |-> FALSE, work |-> HeadTree]

\* git log -n 1 -- path: the last commit that differs at the path from the one
\* before.  At the edge there is none before, so a file there looks added.
LastTouching(v, path) ==
  LET before(i) == IF i = v.edge THEN None ELSE commits[i - 1][path]
      touching  == {i \in v.edge .. Len(commits) : commits[i][path] # before(i)}
  IN  IF touching = {} THEN 0 ELSE Max(touching)

\* The commits grafted at the edge of a shallow clone.
ShallowBoundaries(v) == IF v.edge = 1 THEN {} ELSE {v.edge}

\* The merge base with --since where the clone has it, else the spec's last commit.
Baseline(v, c) ==
  IF v.since \in v.edge .. Len(commits) THEN v.since ELSE LastTouching(v, SpecOf(c))

\* Mutant of Checked: a baseline at the edge is taken for the spec's commit.
CheckedAtEdge(v, c) == Baseline(v, c) # 0

\* The capability is compared, not skipped.
Checked(v, c) == Baseline(v, c) \notin {0} \cup ShallowBoundaries(v)

Untracked(v) ==
  IF v.working THEN {p \in Paths : HeadTree[p] = None /\ v.work[p] # None} ELSE {}

\* What git compares a commit with: HEAD, or the working tree without the files
\* git does not track.
Now(v) ==
  [p \in Paths |-> IF ~v.working THEN HeadTree[p] ELSE IF p \in Untracked(v) THEN None ELSE v.work[p]]

Removed(old, now) == {p \in CodePaths : old[p] # None /\ now[p] = None}

\* Removed files that a file which came is paired with: --name-only lists the
\* pair under the new name.
RenamedAway(old, now) ==
  {p \in Removed(old, now) :
     LET rivals == {q \in Removed(old, now) :
                      /\ Likeness[old[q]] = Likeness[old[p]]
                      /\ Turn[q] <= Turn[p]}
         came   == {q \in Removed(now, old) : Likeness[now[q]] = Likeness[old[p]]}
     IN  Cardinality(rivals) <= Cardinality(came)}

\* git diff --name-only from the baseline, and the untracked files.
ChangedSince(v, i) ==
  ({p \in Paths : commits[i][p] # Now(v)[p]} \ RenamedAway(commits[i], Now(v))) \cup Untracked(v)

\* The records that changed since, as they are in the working tree.
RecordsSince(v, i) ==
  {v.work[p] : p \in {q \in ChangedSince(v, i) : q.kind = "record" /\ v.work[q] # None}}

TrackedSince(v, i) == UNION {r.files : r \in RecordsSince(v, i)}

\* The files in such records of the runs that folded into the capability, or
\* said why they did not.
VouchedSince(v, i, c) == UNION {r.files : r \in {s \in RecordsSince(v, i) : c \in s.accounts}}

MarkerGlobs(v, c) == IF v.work[SpecOf(c)] = None THEN {} ELSE v.work[SpecOf(c)].touches

\* Mutant of NamedElsewhere: a file yields to any other requirement.
NamedByAnother(v, p, c) == \E d \in Caps \ {c} : p \in MarkerGlobs(v, d)

\* A requirement elsewhere names the file and none here does.
NamedElsewhere(v, p, c) ==
  p \notin MarkerGlobs(v, c) /\ \E d \in Caps \ {c} : p \in MarkerGlobs(v, d)

IsOwnSpecDoc(p, c) == p \in {SpecOf(c), Doc(Dir[c])}
IsAnySpecDoc(p) == \E c \in Caps : IsOwnSpecDoc(p, c)

\* Mutant of Drifted: --working forgets the files git does not track.
DriftedTracked(v, c) ==
  LET i == Baseline(v, c)
  IN  {[file |-> p, severity |-> IF p \in TrackedSince(v, i) THEN "tracked" ELSE "unspeced"] :
         p \in {q \in (ChangedSince(v, i) \ Untracked(v)) \cap Claims[c] :
                  ~IsAnySpecDoc(q) /\ q \notin Exempt \cup VouchedSince(v, i, c)
                  /\ ~NamedElsewhere(v, q, c)}}

\* The files of a checked capability that drifted.  Measured from --since, a
\* spec written since is the fold, and its code no drift.
Drifted(v, c) ==
  LET i       == Baseline(v, c)
      changed == ChangedSince(v, i)
      drifted == {p \in changed \cap Claims[c] :
                    /\ ~IsAnySpecDoc(p)
                    /\ p \notin Exempt \cup VouchedSince(v, i, c)
                    /\ ~NamedElsewhere(v, p, c)}
  IN  IF v.since # 0 /\ \E p \in changed : IsOwnSpecDoc(p, c) THEN {}
      ELSE {[file |-> p, severity |-> IF p \in TrackedSince(v, i) THEN "tracked" ELSE "unspeced"] :
              p \in drifted}

-----------------------------------------------------------------------------
(* What happens to the tree *)

Edit(path, content) ==
  /\ edits < MaxEdits /\ edits' = edits + 1
  /\ content # work[path]
  /\ work' = [work EXCEPT ![path] = content]

\* Somebody changes, adds or deletes a code file.
HandEdit(p) ==
  /\ p \in CodePaths
  /\ \E content \in Contents \cup {None} : Edit(p, content)
  /\ UNCHANGED commits

\* A rules or coverage document beside a spec is written.
EditDoc(p) ==
  /\ p \in Docs
  /\ \E content \in Contents : Edit(p, content)
  /\ UNCHANGED commits

\* A spec is written, by hand or by a fold.
WriteSpec(c) ==
  /\ \E touches \in Marks[c] :
       Edit(SpecOf(c), [touches |-> touches,
                       reviewed |-> IF work[SpecOf(c)] = None THEN 0 ELSE work[SpecOf(c)].reviewed])
  /\ UNCHANGED commits

\* --accept: the line in the spec that it was read against HEAD.
Accept(c) ==
  /\ work[SpecOf(c)] # None
  /\ Edit(SpecOf(c), [work[SpecOf(c)] EXCEPT !.reviewed = Len(commits)])
  /\ UNCHANGED commits

RecordOf(r) ==
  IF work[Record(r)] = None THEN [files |-> {}, accounts |-> {}] ELSE work[Record(r)]

\* A run changes a file and records it.
RunEdit(r, p) ==
  /\ p \in CodePaths /\ edits < MaxEdits /\ edits' = edits + 1
  /\ \E content \in Contents \ {work[p]} :
       work' = [work EXCEPT ![p] = content,
                            ![Record(r)] = [RecordOf(r) EXCEPT !.files = @ \cup {p}]]
  /\ UNCHANGED commits

\* It records that it folded into a capability, or why not.
RunAccounts(r, c) ==
  /\ Edit(Record(r), [RecordOf(r) EXCEPT !.accounts = @ \cup {c}])
  /\ UNCHANGED commits

\* Any part of what changed is committed.
Commit ==
  /\ Len(commits) < MaxCommits
  /\ \E part \in SUBSET {p \in Paths : work[p] # HeadTree[p]} \ {{}} :
       commits' = Append(commits, [p \in Paths |->
                                     IF p \in part THEN work[p] ELSE HeadTree[p]])
  /\ UNCHANGED <<work, edits>>

Next ==
  \/ \E p \in Paths : HandEdit(p) \/ EditDoc(p) \/ \E r \in Runs : RunEdit(r, p)
  \/ \E c \in Caps : WriteSpec(c) \/ Accept(c) \/ \E r \in Runs : RunAccounts(r, c)
  \/ Commit

Spec == Init /\ [][Next]_vars

-----------------------------------------------------------------------------
(* Properties *)

\* A shallow clone never misleads: for any depth it skips a capability or says
\* of it what the full clone says ("skipped rather than compared against the
\* graft boundary").
ShallowNeverMisleads ==
  \A edge \in 2 .. Len(commits) : \A c \in Caps :
    Checked(Clone(edge), c) =>
      Checked(Clone(1), c) /\ Drifted(Clone(edge), c) = Drifted(Clone(1), c)

\* When every capability is checked and none has drifted, a claimed file that is
\* not as it was at the last commit of the spec of any that claims it is excused
\* there, by a record of a run that accounts for that capability or by a rename
\* away; but for a file that only requirements of capabilities that do not claim
\* it name, to which all that claim it yield.  Capabilities that share a file do
\* not all yield it to each other (_named_elsewhere).
CleanMeansSeen ==
  LET v == View(0, FALSE)
      unclaimedName(p) == /\ \E d \in Caps : p \in MarkerGlobs(v, d)
                          /\ \A d \in Caps : p \in MarkerGlobs(v, d) => p \notin Claims[d]
      seen(p) == \E d \in Caps :
                   /\ p \in Claims[d]
                   /\ \/ HeadTree[p] = commits[Baseline(v, d)][p]
                      \/ p \in VouchedSince(v, Baseline(v, d), d)
                      \/ p \in RenamedAway(commits[Baseline(v, d)], HeadTree)
  IN  (\A c \in Caps : Checked(v, c) /\ Drifted(v, c) = {}) =>
        \A c \in Caps : \A p \in (Claims[c] \cap CodePaths) \ Exempt : seen(p) \/ unclaimedName(p)

\* --working misses nothing: what a commit of the whole tree makes drift, under
\* any baseline it does not move, was drift of the same kind before the commit.
WorkingMissesNothing ==
  [][ commits' # commits /\ HeadTree' = work =>
        \A c \in Caps : \A since \in 0 .. Len(commits) :
          Checked(View(since, TRUE), c) /\ (since # 0 \/ work[SpecOf(c)] = HeadTree[SpecOf(c)]) =>
            Drifted(View(since, FALSE), c)' \subseteq Drifted(View(since, TRUE), c) ]_vars

\* A deletion is among the changes since, in the one pass of git diff (the
\* docstring of _changed_since: "folds in commits since, staged, unstaged, and
\* deletions in one pass").
DeletionsAreListed ==
  \A i \in 1 .. Len(commits) :
    \A p \in Paths : commits[i][p] # None /\ work[p] = None => p \in ChangedSince(View(0, TRUE), i)

\* A file that a requirement names is that capability's claim: changed since its
\* spec's last commit, it is its drift (_named_elsewhere: "The requirement that
\* names the file is the claim").
NamingIsClaiming ==
  LET v == View(0, FALSE)
  IN  \A c \in Caps :
        Checked(v, c) =>
          \A p \in MarkerGlobs(v, c) \cap ChangedSince(v, Baseline(v, c)) :
            \/ p \in Exempt \cup VouchedSince(v, Baseline(v, c), c)
            \/ \E drift \in Drifted(v, c) : drift.file = p

=============================================================================
