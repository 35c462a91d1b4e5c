----------------------------- MODULE SerialTurns -----------------------------
(***************************************************************************)
(* What the write lock of .spec-context.json promises: writers take turns. *)
(* A turn is a writer's whole operation, however many times it publishes,  *)
(* and every publish adds its own entry to the record and drops nothing.   *)
(***************************************************************************)
EXTENDS Naturals, Sequences, SequencesExt

CONSTANT Proc

VARIABLE ctx     \* [history |-> sequence of contributions, fields |-> set of them]

Contributions(record, p) == {c \in record.fields : c[1] = p}

(***************************************************************************)
(* p's next contribution is <<p, k>>; once another writer has written      *)
(* after p, p's turn is over.                                              *)
(***************************************************************************)
Write(p) ==
  /\ Contributions(ctx, p) = {} \/ Last(ctx.history)[1] = p
  /\ \E c \in {<<p, k>> : k \in 1 .. Len(ctx.history) + 1} \ ctx.fields :
       ctx' = [history |-> Append(ctx.history, c), fields |-> ctx.fields \cup {c}]

Init == ctx = [history |-> <<>>, fields |-> {}]
Next == \E p \in Proc : Write(p)
Spec == Init /\ [][Next]_ctx
=============================================================================
