----------------------------- MODULE HandEdits -----------------------------
(***************************************************************************)
(* CodeDrift beside the history of who changed what: for every commit, and *)
(* last for the working tree, the code files a run changed in it.          *)
(***************************************************************************)
EXTENDS CodeDrift

VARIABLE ran  \* ran[i]: changed by a run in commit i; the last is not committed

historyVars == <<vars, ran>>

HInit == Init /\ ran = <<{}, {}>>

\* A run changes a file.
ByRun ==
  \E r \in Runs, p \in CodePaths :
    RunEdit(r, p) /\ ran' = [ran EXCEPT ![Len(ran)] = @ \cup {p}]

\* What is committed takes what runs did to it along.
ByCommit ==
  /\ Commit
  /\ LET part == {p \in CodePaths : work[p] = HeadTree'[p]}
     IN  ran' = Append([ran EXCEPT ![Len(ran)] = @ \cap part], Last(ran) \ part)

\* Everything else changes no code file, or by hand.
ByHand ==
  /\ \/ \E p \in Paths : HandEdit(p) \/ EditDoc(p)
     \/ \E c \in Caps : WriteSpec(c) \/ Accept(c) \/ \E r \in Runs : RunAccounts(r, c)
  /\ UNCHANGED ran

HNext == ByRun \/ ByCommit \/ ByHand

HSpec == HInit /\ [][HNext]_historyVars

-----------------------------------------------------------------------------

\* With nothing left to commit, a claimed file that changed since the last commit
\* of the spec, and that no run changed in any commit since, is drift, unless it is
\* exempt or a requirement elsewhere names it (the docstring of
\* _vouched_files_since: "A file changed by hand, with no run behind it, still is").
HandEditsAreDrift ==
  LET v == View(0, FALSE)
  IN  \A c \in Caps : work = HeadTree /\ Checked(v, c) =>
        \A p \in (CodePaths \cap Claims[c] \cap ChangedSince(v, Baseline(v, c))) \ Exempt :
          \/ \E i \in Baseline(v, c) + 1 .. Len(commits) : p \in ran[i]
          \/ NamedElsewhere(v, p, c)
          \/ \E drift \in Drifted(v, c) : drift.file = p
=============================================================================
