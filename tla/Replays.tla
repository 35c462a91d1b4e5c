------------------------------- MODULE Replays -------------------------------
(* Replaying a sequence of edits into a value, one after the other. *)
EXTENDS Naturals, Sequences

\* The element of a set of one; naming a value this way also has it computed once.
The(set) == CHOOSE x \in set : TRUE

\* seq replayed into base, first to last.
Replay(Op(_, _), base, seq) ==
  LET upTo[i \in 0 .. Len(seq)] ==
        IF i = 0 THEN base ELSE The({Op(r, seq[i]) : r \in {upTo[i - 1]}})
  IN  upTo[Len(seq)]

\* The elements of seq that are in a set, in their order.
Only(seq, keep) ==
  The({Replay(LAMBDA r, x : IF x \in k THEN Append(r, x) ELSE r, <<>>, seq) : k \in {keep}})
=============================================================================
