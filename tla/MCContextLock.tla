---------------------------- MODULE MCContextLock ----------------------------
(* Crews of ContextLock for TLC. *)
EXTENDS ContextLock

CONSTANTS a, b, c

Crew(run, publishes, scopes, crashes, hangs) ==
  [run |-> run,
   rounds |-> [p \in Proc |-> IF p = a THEN publishes ELSE 1],
   scope |-> [p \in Proc |-> IF p = a THEN scopes ELSE 1],
   crashes |-> crashes, hangs |-> hangs]

\* Three writers and no fault; two writers of which one may crash, visible or
\* not to the other, or hang.
SafeCrews ==
  { Crew({a, b, c}, 2, 1, 0, {}) }
  \cup { Crew({a, b}, 2, s, 1, {}) : s \in 1 .. 2 }
  \cup { Crew({a, b}, 2, 1, 0, h) : h \in {{a}, {b}} }

\* A writer crashes while two others wait for its lock.
OrphanCrews == { Crew({a, b, c}, 1, 1, 1, {}) }
=============================================================================
