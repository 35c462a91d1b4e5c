----------------------------- MODULE ContextLock -----------------------------
(***************************************************************************)
(* The cross-process write lock of a feature's .spec-context.json and the  *)
(* read-modify-publish operations it guards (spec_context.py).  The lock   *)
(* is the existence of a file, created exclusively; the holder writes its  *)
(* token in it, touches it while it works and removes it when its process  *)
(* exits.  A waiter removes the lock of a dead holder, or one nobody       *)
(* touched for 30 s, and writes without it after 60 s.                     *)
(*                                                                         *)
(* Each process is one short-lived run of one operation, so a process that *)
(* starts again is another element of Proc.  A contribution <<p, k>> is    *)
(* what the k-th publish of p adds: a history entry and a field.           *)
(***************************************************************************)
EXTENDS Naturals, Sequences, FiniteSets, SequencesExt

CONSTANTS
  Proc,         \* runs of the writer scripts
  Missing,      \* what reading a lock file that is not there returns
  Blank,        \* the content of a lock file whose token is not written yet
  Fleets        \* the crews a behaviour may have, see Fleet below

(***************************************************************************)
(* A crew: the processes that run, all of which called enable_write_lock,  *)
(* how often each publishes, whose pids each can see, how many may crash   *)
(* and which may hang for ever while they hold the lock.                   *)
(***************************************************************************)
Fleet == [run : SUBSET Proc, rounds : [Proc -> Nat], scope : [Proc -> Nat],
          crashes : Nat, hangs : SUBSET Proc]

ASSUME FleetsAreFleets == Fleets \subseteq Fleet
ASSUME TokensAssumption == Missing \notin Proc /\ Blank \notin Proc /\ Missing # Blank

VARIABLES
  fleet,   \* the crew of this behaviour
  lock,    \* the lock file: {} or one [inode, token, fresh]
  ctx,     \* .spec-context.json
  pc,      \* where each process is
  seen,    \* the token it read from the lock file last
  copy,    \* the record it read last
  done,    \* how many times it has published
  held,    \* _HELD_LOCKS: whether it believes it holds the lock
  late     \* whether it has waited _LOCK_MAX_WAIT_S

vars == <<fleet, lock, ctx, pc, seen, copy, done, held, late>>

EmptyRecord == [history |-> <<>>, fields |-> {}]

Stopped == {"done", "dead", "hung"}

Init ==
  /\ fleet \in Fleets
  /\ lock = {}
  /\ ctx = EmptyRecord
  /\ pc = [p \in Proc |-> IF p \in fleet.run THEN "acquire" ELSE "done"]
  /\ seen = [p \in Proc |-> Missing]
  /\ copy = [p \in Proc |-> EmptyRecord]
  /\ done = [p \in Proc |-> 0]
  /\ held = [p \in Proc |-> FALSE]
  /\ late = [p \in Proc |-> FALSE]

Owner == IF lock = {} THEN Missing ELSE (CHOOSE l \in lock : TRUE).token
Inode == (CHOOSE l \in lock : TRUE).inode
Goto(p, where) == pc' = [pc EXCEPT ![p] = where]

-----------------------------------------------------------------------------
(* _acquire_lock *)

\* read_ctx by a process that holds the lock already.
Skip(p) ==
  /\ pc[p] = "acquire" /\ held[p]
  /\ Goto(p, "read")
  /\ UNCHANGED <<fleet, lock, ctx, seen, copy, done, held, late>>

Create(p) ==
  /\ pc[p] = "acquire" /\ ~held[p]
  /\ IF lock = {}
       THEN lock' = {[inode |-> p, token |-> Blank, fresh |-> TRUE]} /\ Goto(p, "created")
       ELSE lock' = lock /\ Goto(p, "busy")
  /\ UNCHANGED <<fleet, ctx, seen, copy, done, held, late>>

\* The token goes to the file that was opened, which may be unlinked by now.
WriteToken(p) ==
  /\ pc[p] = "created"
  /\ lock' = {IF l.inode = p THEN [l EXCEPT !.token = p] ELSE l : l \in lock}
  /\ held' = [held EXCEPT ![p] = TRUE]
  /\ Goto(p, "read")
  /\ UNCHANGED <<fleet, ctx, seen, copy, done, late>>

ReadOwner(p) ==
  /\ pc[p] = "busy"
  /\ seen' = [seen EXCEPT ![p] = Owner]
  /\ Goto(p, "look")
  /\ UNCHANGED <<fleet, lock, ctx, copy, done, held, late>>

\* Mutant of OwnerIsGone: a pid that cannot be seen is taken for dead.
OwnerIsOutOfSight(p, token) ==
  token \in Proc /\ (fleet.scope[token] # fleet.scope[p] \/ pc[token] \in {"dead", "done"})

\* Provably dead: a complete token, from a pid the reader can look up.
OwnerIsGone(p, token) ==
  token \in Proc /\ fleet.scope[token] = fleet.scope[p] /\ pc[token] \in {"dead", "done"}

Abandoned == \E l \in lock : ~l.fresh

\* Mutant of Decide: a waiter waits as long as it takes.
DecidePatiently(p) ==
  /\ pc[p] = "look"
  /\ Goto(p, IF OwnerIsGone(p, seen[p]) \/ (Abandoned /\ seen[p] # Missing) THEN "reclaim" ELSE "acquire")
  /\ UNCHANGED <<fleet, lock, ctx, seen, copy, done, held, late>>

Decide(p) ==
  /\ pc[p] = "look"
  /\ Goto(p, CASE OwnerIsGone(p, seen[p])             -> "reclaim"
               [] ~OwnerIsGone(p, seen[p]) /\ Abandoned
                                                      -> IF seen[p] = Missing THEN "acquire" ELSE "reclaim"
               [] ~OwnerIsGone(p, seen[p]) /\ ~Abandoned
                                                      -> IF late[p] THEN "read" ELSE "acquire")
  /\ UNCHANGED <<fleet, lock, ctx, seen, copy, done, held, late>>

\* _reclaim_lock looks at the token and removes the file in two calls.
CheckOwner(p) ==
  /\ pc[p] = "reclaim"
  /\ Goto(p, IF Owner = seen[p] THEN "unlink" ELSE "acquire")
  /\ UNCHANGED <<fleet, lock, ctx, seen, copy, done, held, late>>

Unlink(p) ==
  /\ pc[p] = "unlink"
  /\ lock' = {}
  /\ Goto(p, "acquire")
  /\ UNCHANGED <<fleet, ctx, seen, copy, done, held, late>>

-----------------------------------------------------------------------------
(* read_ctx, the operation and atomic_write *)

Read(p) ==
  /\ pc[p] = "read"
  /\ copy' = [copy EXCEPT ![p] = ctx]
  /\ Goto(p, "guard")
  /\ UNCHANGED <<fleet, lock, ctx, seen, done, held, late>>

\* What p publishes next.
Outgoing(p) ==
  LET part == <<p, done[p] + 1>>
  IN  [history |-> Append(copy[p].history, part), fields |-> copy[p].fields \cup {part}]

\* A history shorter than the one on disk keeps the disk's and adds what is new.
Spliced(outgoing, disk) ==
  IF Len(outgoing) >= Len(disk) THEN outgoing
  ELSE disk \o SelectSeq(outgoing, LAMBDA c : c \notin ToSet(disk))

GuardAppendOnly(p) ==
  /\ pc[p] = "guard"
  /\ copy' = [copy EXCEPT ![p] = [Outgoing(p) EXCEPT !.history = Spliced(@, ctx.history)]]
  /\ Goto(p, "publish")
  /\ UNCHANGED <<fleet, lock, ctx, seen, done, held, late>>

\* Mutant of Publish: the lock is given back after every publish.
PublishAndUnlock(p) ==
  /\ pc[p] = "publish"
  /\ ctx' = copy[p]
  /\ done' = [done EXCEPT ![p] = @ + 1]
  /\ late' = [late EXCEPT ![p] = FALSE]
  /\ held' = [held EXCEPT ![p] = FALSE]
  /\ lock' = IF held[p] /\ Owner = p THEN {} ELSE lock
  /\ Goto(p, IF done'[p] < fleet.rounds[p] THEN "acquire" ELSE "done")
  /\ UNCHANGED <<fleet, seen, copy>>

\* The rename; the next read of the same operation takes the lock again only
\* when this one was written without it.
Publish(p) ==
  /\ pc[p] = "publish"
  /\ ctx' = copy[p]
  /\ done' = [done EXCEPT ![p] = @ + 1]
  /\ late' = [late EXCEPT ![p] = FALSE]
  /\ Goto(p, CASE done'[p] < fleet.rounds[p] -> "acquire"
               [] done'[p] >= fleet.rounds[p] -> IF held[p] THEN "release" ELSE "done")
  /\ UNCHANGED <<fleet, lock, seen, copy, held>>

-----------------------------------------------------------------------------
(* _release_lock at exit: again a look and a removal *)

CheckRelease(p) ==
  /\ pc[p] = "release"
  /\ Goto(p, IF Owner = p THEN "drop" ELSE "done")
  /\ UNCHANGED <<fleet, lock, ctx, seen, copy, done, held, late>>

Drop(p) ==
  /\ pc[p] = "drop"
  /\ lock' = {}
  /\ Goto(p, "done")
  /\ UNCHANGED <<fleet, ctx, seen, copy, done, held, late>>

-----------------------------------------------------------------------------
(* Time and faults *)

\* A living holder touches its lock every 5 s, so only a dead one's grows old.
GrowOld ==
  /\ \E l \in lock : l.fresh /\ pc[l.inode] = "dead"
  /\ lock' = {[l EXCEPT !.fresh = FALSE] : l \in lock}
  /\ UNCHANGED <<fleet, ctx, pc, seen, copy, done, held, late>>

\* A working holder is done within 60 s; a waiter outlasts a dead or a hung one.
RunLate(p) ==
  /\ pc[p] \in {"acquire", "busy", "look", "reclaim", "unlink"} /\ ~late[p]
  /\ lock # {} /\ pc[Inode] \in {"dead", "hung"}
  /\ late' = [late EXCEPT ![p] = TRUE]
  /\ UNCHANGED <<fleet, lock, ctx, pc, seen, copy, done, held>>

Crash(p) ==
  /\ pc[p] \notin Stopped
  /\ Cardinality({q \in Proc : pc[q] = "dead"}) < fleet.crashes
  /\ Goto(p, "dead")
  /\ UNCHANGED <<fleet, lock, ctx, seen, copy, done, held, late>>

\* The holder keeps running, and so touching its lock, but never goes on.
Hang(p) ==
  /\ held[p] /\ p \in fleet.hangs /\ pc[p] \in {"acquire", "read", "guard", "publish"}
  /\ Goto(p, "hung")
  /\ UNCHANGED <<fleet, lock, ctx, seen, copy, done, held, late>>

-----------------------------------------------------------------------------
Step(p) ==
  \/ Skip(p) \/ Create(p) \/ WriteToken(p) \/ ReadOwner(p) \/ Decide(p)
  \/ CheckOwner(p) \/ Unlink(p) \/ Read(p) \/ GuardAppendOnly(p) \/ Publish(p)
  \/ CheckRelease(p) \/ Drop(p)

AllStopped == (\A p \in Proc : pc[p] \in Stopped) /\ UNCHANGED vars

Next ==
  \/ \E p \in Proc : Step(p) \/ RunLate(p) \/ Crash(p) \/ Hang(p)
  \/ GrowOld
  \/ AllStopped

Spec == Init /\ [][Next]_vars

\* The scheduler runs every process, and time passes.
FairSpec ==
  Spec /\ WF_vars(GrowOld) /\ \A p \in Proc : WF_vars(Step(p)) /\ WF_vars(RunLate(p))

-----------------------------------------------------------------------------
(* Properties *)

Record == [history : Seq(Proc \X Nat), fields : SUBSET (Proc \X Nat)]

\* A process that believes it holds the lock does: the file is there and
\* carries its token, so no two processes hold it (_reclaim_lock's and
\* _release_lock's "only while it still carries the token we saw").
HoldersOwnTheLock ==
  \A p \in Proc : held[p] /\ pc[p] \notin {"done", "dead"} => Owner = p

\* An operation that publishes more than once is still one turn against any
\* other writer (read_ctx), and each publish adds exactly its own part.
Serial == INSTANCE SerialTurns
ImplementsTurns == Serial!Spec

\* No capture hangs: every process that runs comes to an end, also when the
\* holder it waits for has died, cannot be seen, or never lets go.
EveryWriterReturns == \A p \in Proc : <>(pc[p] \in Stopped)
=============================================================================
