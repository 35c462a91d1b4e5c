---------------------------- MODULE MCHandEdits ----------------------------
(* One capability that claims two files, and a run, for HandEdits. *)
EXTENDS HandEdits

AllPaths  == [a |-> Paths]
NoMarks   == [a |-> {{}}]
OneDir    == [a |-> "d"]
AnyOrder  == [p \in CodePaths |-> 0]
Alike     == [content \in Contents |-> content]

FirstCommits ==
  {[p \in Paths |-> CASE p \in CodePaths -> 0
                      [] p = SpecOf("a") -> [touches |-> {}, reviewed |-> 0]
                      [] OTHER -> None]}
=============================================================================
