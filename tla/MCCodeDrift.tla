---------------------------- MODULE MCCodeDrift ----------------------------
(* Two capabilities of CodeDrift that share a file and a directory. *)
EXTENDS CodeDrift

F == CodeFile("f")
G == CodeFile("g")

TwoClaims == [a |-> Paths, b |-> {F, SpecOf("a")}]
TwoMarks  == [a |-> {{}, {F}}, b |-> {{F}, {G}}]
Alike     == [content \in Contents |-> content]
Order     == (F :> 1) @@ (G :> 2)
OneDir    == [a |-> "d", b |-> "d"]

Written(touches) == [touches |-> touches, reviewed |-> 0]
FirstCommit(a, b) ==
  [p \in Paths |-> CASE p = F -> 0
                     [] p = SpecOf("a") -> a
                     [] p = SpecOf("b") -> b
                     [] p \notin {F, SpecOf("a"), SpecOf("b")} -> None]

\* Specs that name the shared file or not, or a file only the other claims, and
\* one not yet there.
FirstCommits ==
  {FirstCommit(Written(m), Written(n)) : m \in {{}, {F}}, n \in {{F}, {G}}}
  \cup {FirstCommit(None, Written({F}))}
=============================================================================
