-------------------------- MODULE ContextLockProofs -------------------------
(***************************************************************************)
(* Safety of the write lock of ContextLock, for any number of processes,   *)
(* publishes and pid scopes.                                               *)
(*                                                                         *)
(* A waiter looks at the lock and removes it in two calls, so a process    *)
(* keeps its lock only if nobody who may remove it is about to.  LockInv   *)
(* says who may: a process all of whose rivals have finished or died.      *)
(* With three writers and a crash there is one more (the run of            *)
(* OrphanCrews), hence the hypothesis on the crews.  TurnInv adds that who *)
(* works on the record has it to itself, so its copy is not stale.         *)
(***************************************************************************)
EXTENDS ContextLock, FiniteSetTheorems, TLAPS

AtMostTwo(S) == \E p, q : S \subseteq {p, q}

Places == {"acquire", "created", "busy", "look", "reclaim", "unlink", "read", "guard",
           "publish", "release", "drop"} \cup Stopped

LockFiles == [inode : Proc, token : Proc \cup {Blank}, fresh : BOOLEAN]

Types ==
  /\ fleet \in Fleets
  /\ lock \in SUBSET LockFiles
  /\ pc \in [Proc -> Places]
  /\ seen \in [Proc -> Proc \cup {Missing, Blank}]
  /\ done \in [Proc -> Nat]
  /\ held \in [Proc -> BOOLEAN]
  /\ late \in [Proc -> BOOLEAN]

\* Who is not in the crew never runs, and where nobody may crash nobody has.
CrewInv ==
  /\ \A p \in Proc : p \notin fleet.run => pc[p] = "done"
  /\ fleet.crashes = 0 => \A p \in Proc : pc[p] # "dead"

\* There is one lock file.  Its creator died, or is about to write its token, or
\* has written it and holds the lock.
FileInv ==
  \A l \in lock :
    /\ \A m \in lock : m = l
    /\ l.token \in {l.inode, Blank}
    /\ \/ pc[l.inode] = "dead"
       \/ pc[l.inode] = "created" /\ l.token = Blank /\ l.fresh
       \/ pc[l.inode] # "done" /\ held[l.inode] /\ l.token = l.inode /\ l.fresh

\* Who holds the lock or is creating it finds its file there.
HolderInv ==
  \A p \in Proc :
    /\ held[p] /\ pc[p] \notin {"done", "dead"} =>
         lock = {[inode |-> p, token |-> p, fresh |-> TRUE]}
    /\ pc[p] = "created" => lock = {[inode |-> p, token |-> Blank, fresh |-> TRUE]}
    /\ pc[p] \in {"created", "busy", "look", "reclaim", "unlink"} => ~ held[p]
    /\ pc[p] \in {"release", "drop"} => held[p]

\* Everybody else has finished or died.
Alone(p) == \A q \in Proc \ {p} : pc[q] \in {"done", "dead"}

\* Who is about to remove somebody else's lock is alone, or will find that the
\* token it saw is gone.
ReclaimInv ==
  \A p \in Proc :
    /\ pc[p] = "unlink" => Alone(p)
    /\ pc[p] = "reclaim" => Alone(p) \/ (seen[p] \in Proc /\ pc[seen[p]] = "done")

LockInv == Types /\ CrewInv /\ FileInv /\ HolderInv /\ ReclaimInv

\* Every crew is one without crashes or one of at most two processes.
LockCrews == \A f \in Fleets : f.crashes = 0 \/ AtMostTwo(f.run)

\* Nothing has happened yet.
LEMMA InitLockInv == Init => LockInv
<1> SUFFICES ASSUME Init PROVE LockInv
  OBVIOUS
<1>1. Types
  BY DEF Init, Types, Places, Stopped
<1>2. CrewInv
  BY DEF Init, CrewInv
<1>3. FileInv /\ HolderInv /\ ReclaimInv
  BY DEF Init, FileInv, HolderInv, ReclaimInv
<1> QED
  BY <1>1, <1>2, <1>3 DEF LockInv

\* Where a waiter that looked at the lock goes, and why it would remove it.
LEMMA DecideGoes ==
  ASSUME Types, NEW p \in Proc, Decide(p)
  PROVE  /\ pc[p] = "look" /\ pc' = [pc EXCEPT ![p] = pc'[p]]
         /\ pc'[p] \in {"reclaim", "acquire", "read"}
         /\ pc'[p] = "reclaim" => OwnerIsGone(p, seen[p]) \/ Abandoned
         /\ pc'[p] = "read" => late[p]
<1> DEFINE where == CASE OwnerIsGone(p, seen[p])             -> "reclaim"
               [] ~OwnerIsGone(p, seen[p]) /\ Abandoned
                                                      -> IF seen[p] = Missing THEN "acquire" ELSE "reclaim"
               [] ~OwnerIsGone(p, seen[p]) /\ ~Abandoned
                                                      -> IF late[p] THEN "read" ELSE "acquire"
<1>1. pc[p] = "look" /\ pc' = [pc EXCEPT ![p] = where]
  BY DEF Decide, Goto
<1>2. /\ where \in {"reclaim", "acquire", "read"}
      /\ where = "reclaim" => OwnerIsGone(p, seen[p]) \/ Abandoned
      /\ where = "read" => late[p]
  <2>1. CASE OwnerIsGone(p, seen[p])
    BY <2>1
  <2>2. CASE ~ OwnerIsGone(p, seen[p]) /\ Abandoned
    BY <2>2
  <2>3. CASE ~ OwnerIsGone(p, seen[p]) /\ ~ Abandoned
    BY <2>3
  <2> QED
    BY <2>1, <2>2, <2>3
<1>3. pc'[p] = where
  BY <1>1 DEF Types
<1> HIDE DEF where
<1> QED
  BY <1>1, <1>2, <1>3

\* Where a publish leads.
LEMMA PublishGoes ==
  ASSUME Types, NEW p \in Proc, Publish(p)
  PROVE  /\ pc[p] = "publish" /\ pc' = [pc EXCEPT ![p] = pc'[p]]
         /\ done' = [done EXCEPT ![p] = done[p] + 1]
         /\ pc'[p] \in {"acquire", "release", "done"}
         /\ pc'[p] = "release" => held[p]
         /\ pc'[p] = "done" => ~ held[p]
<1> DEFINE where == CASE done'[p] < fleet.rounds[p] -> "acquire"
               [] done'[p] >= fleet.rounds[p] -> IF held[p] THEN "release" ELSE "done"
<1>1. /\ pc[p] = "publish" /\ pc' = [pc EXCEPT ![p] = where]
      /\ done' = [done EXCEPT ![p] = done[p] + 1]
  BY DEF Publish, Goto
<1>2. done'[p] \in Nat /\ fleet.rounds[p] \in Nat
  BY <1>1, FleetsAreFleets DEF Types, Fleet
<1>3. CASE done'[p] < fleet.rounds[p]
  <2>1. where = "acquire"
    BY <1>2, <1>3
  <2> HIDE DEF where
  <2> QED
    BY <1>1, <2>1 DEF Types
<1>4. CASE ~ (done'[p] < fleet.rounds[p])
  <2>1. done'[p] >= fleet.rounds[p]
    BY <1>2, <1>4
  <2>2. where = IF held[p] THEN "release" ELSE "done"
    BY <1>4, <2>1
  <2> HIDE DEF where
  <2> QED
    BY <1>1, <2>2 DEF Types
<1> QED
  BY <1>3, <1>4

\* The one lock file's token and creator.
LEMMA OneFile ==
  ASSUME NEW l, lock = {l}
  PROVE  Owner = l.token /\ Inode = l.inode
BY DEF Owner, Inode

\* What a holder reads in its own lock file.
LEMMA OwnFile ==
  ASSUME NEW p \in Proc, lock = {[inode |-> p, token |-> p, fresh |-> TRUE]}
  PROVE  Owner = p
<1> DEFINE l == [inode |-> p, token |-> p, fresh |-> TRUE]
<1>1. lock = {l} /\ l.token = p
  OBVIOUS
<1> HIDE DEF l
<1> QED
  BY <1>1, OneFile

\* Writing the token into the file a process created.
LEMMA TokenWritten ==
  ASSUME LockInv, NEW p \in Proc, WriteToken(p)
  PROVE  /\ lock = {[inode |-> p, token |-> Blank, fresh |-> TRUE]}
         /\ lock' = {[inode |-> p, token |-> p, fresh |-> TRUE]}
<1> DEFINE l == [inode |-> p, token |-> Blank, fresh |-> TRUE]
<1>1. lock = {l}
  BY DEF LockInv, HolderInv, WriteToken
<1>2. l.inode = p /\ l.fresh = TRUE
  OBVIOUS
<1>3. lock' = {IF m.inode = p THEN [m EXCEPT !.token = p] ELSE m : m \in lock}
  BY DEF WriteToken
<1> HIDE DEF l
<1>4. lock' = {[l EXCEPT !.token = p]}
  BY <1>1, <1>2, <1>3
<1>5. [l EXCEPT !.token = p] = [inode |-> l.inode, token |-> p, fresh |-> l.fresh]
  BY <1>1 DEF LockInv, Types, LockFiles
<1> QED
  BY <1>1, <1>2, <1>4, <1>5 DEF l

\* Variables keep their types.
LEMMA TypesStep ==
  ASSUME Types, [Next]_vars
  PROVE  Types'
<1> SUFFICES ASSUME Next PROVE Types'
  BY DEF Types, vars
<1> USE DEF Types
<1>1. ASSUME NEW p \in Proc, Skip(p) PROVE Types'
  BY <1>1 DEF Skip, Goto, Places
<1>2. ASSUME NEW p \in Proc, Create(p) PROVE Types'
  <2>1. CASE lock = {}
    <3>1. [inode |-> p, token |-> Blank, fresh |-> TRUE] \in LockFiles
      BY DEF LockFiles
    <3> QED
      BY <1>2, <2>1, <3>1 DEF Create, Goto, Places
  <2>2. CASE lock # {}
    BY <1>2, <2>2 DEF Create, Goto, Places
  <2> QED
    BY <2>1, <2>2
<1>3. ASSUME NEW p \in Proc, WriteToken(p) PROVE Types'
  <2>1. lock' \in SUBSET LockFiles
    BY <1>3 DEF WriteToken, LockFiles
  <2> QED
    BY <1>3, <2>1 DEF WriteToken, Goto, Places
<1>4. ASSUME NEW p \in Proc, ReadOwner(p) PROVE Types'
  <2>1. Owner \in Proc \cup {Missing, Blank}
    BY DEF Owner, LockFiles
  <2> QED
    BY <1>4, <2>1 DEF ReadOwner, Goto, Places
<1>5. ASSUME NEW p \in Proc, Decide(p) PROVE Types'
  BY <1>5, DecideGoes DEF Decide, Places
<1>6. ASSUME NEW p \in Proc, CheckOwner(p) PROVE Types'
  BY <1>6 DEF CheckOwner, Goto, Places
<1>7. ASSUME NEW p \in Proc, Unlink(p) PROVE Types'
  BY <1>7 DEF Unlink, Goto, Places
<1>8. ASSUME NEW p \in Proc, Read(p) \/ GuardAppendOnly(p) PROVE Types'
  BY <1>8 DEF Read, GuardAppendOnly, Goto, Places
<1>9. ASSUME NEW p \in Proc, Publish(p) PROVE Types'
  <2>1. pc' \in [Proc -> Places]
    BY <1>9, PublishGoes DEF Places, Stopped
  <2>2. done' \in [Proc -> Nat]
    BY <1>9, PublishGoes
  <2> QED
    BY <1>9, <2>1, <2>2 DEF Publish
<1>10. ASSUME NEW p \in Proc, CheckRelease(p) \/ Drop(p) PROVE Types'
  BY <1>10 DEF CheckRelease, Drop, Goto, Places, Stopped
<1>11. ASSUME NEW p \in Proc, RunLate(p) PROVE Types'
  BY <1>11 DEF RunLate
<1>12. ASSUME NEW p \in Proc, Crash(p) \/ Hang(p) PROVE Types'
  BY <1>12 DEF Crash, Hang, Goto, Places, Stopped
<1>13. CASE GrowOld
  <2>1. \A m \in lock : [m EXCEPT !.fresh = FALSE] \in LockFiles
    BY DEF LockFiles
  <2>2. lock' \in SUBSET LockFiles
    BY <1>13, <2>1 DEF GrowOld
  <2> QED
    BY <1>13, <2>2 DEF GrowOld
<1>14. CASE AllStopped
  BY <1>14 DEF AllStopped, vars
<1> QED
  BY <1>1, <1>2, <1>3, <1>4, <1>5, <1>6, <1>7, <1>8, <1>9, <1>10, <1>11, <1>12,
     <1>13, <1>14 DEF Next, Step

\* Only a running process moves, one at a time; it dies only in a crew that
\* may crash.
LEMMA OneMoves ==
  ASSUME Types, CrewInv, Next
  PROVE  /\ fleet' = fleet
         /\ \/ pc' = pc
            \/ \E p \in Proc : /\ pc[p] \notin Stopped
                               /\ pc' = [pc EXCEPT ![p] = pc'[p]]
                               /\ pc'[p] = "dead" => fleet.crashes # 0
<1> USE DEF Types
<1>1. fleet' = fleet
  BY DEF Next, Step, Skip, Create, WriteToken, ReadOwner, Decide, CheckOwner, Unlink, Read,
     GuardAppendOnly, Publish, CheckRelease, Drop, RunLate, Crash, Hang, GrowOld, AllStopped, vars
<1>2. ASSUME NEW p \in Proc, Decide(p) \/ Publish(p)
      PROVE  /\ pc[p] \notin Stopped /\ pc' = [pc EXCEPT ![p] = pc'[p]]
             /\ pc'[p] # "dead"
  BY <1>2, DecideGoes, PublishGoes DEF Stopped
<1>3. ASSUME NEW p \in Proc, Step(p), ~ Decide(p), ~ Publish(p)
      PROVE  /\ pc[p] \notin Stopped /\ pc' = [pc EXCEPT ![p] = pc'[p]]
             /\ pc'[p] # "dead"
  BY <1>3 DEF Step, Skip, Create, WriteToken, ReadOwner, CheckOwner, Unlink, Read,
     GuardAppendOnly, CheckRelease, Drop, Goto, Stopped
<1>4. ASSUME NEW p \in Proc, Hang(p)
      PROVE  /\ pc[p] \notin Stopped /\ pc' = [pc EXCEPT ![p] = pc'[p]]
             /\ pc'[p] # "dead"
  BY <1>4 DEF Hang, Goto, Stopped
<1>5. ASSUME NEW p \in Proc, Crash(p)
      PROVE  /\ pc[p] \notin Stopped /\ pc' = [pc EXCEPT ![p] = pc'[p]]
             /\ fleet.crashes # 0
  <2>1. pc[p] \notin Stopped /\ pc' = [pc EXCEPT ![p] = pc'[p]]
    BY <1>5 DEF Crash, Goto
  <2>2. ASSUME fleet.crashes = 0 PROVE FALSE
    <3>1. {q \in Proc : pc[q] = "dead"} = {}
      BY <2>2 DEF CrewInv
    <3>2. Cardinality({q \in Proc : pc[q] = "dead"}) = 0
      BY <3>1, FS_EmptySet
    <3> QED
      BY <1>5, <2>2, <3>2 DEF Crash
  <2> QED
    BY <2>1, <2>2
<1>6. ASSUME NEW p \in Proc, RunLate(p) PROVE pc' = pc
  BY <1>6 DEF RunLate
<1>7. ASSUME GrowOld \/ AllStopped PROVE pc' = pc
  BY <1>7 DEF GrowOld, AllStopped, vars
<1> QED
  BY <1>1, <1>2, <1>3, <1>4, <1>5, <1>6, <1>7 DEF Next

\* Who has stopped stays so, and who may crash or run is settled.
LEMMA CrewStep ==
  ASSUME Types, CrewInv, [Next]_vars
  PROVE  /\ CrewInv'
         /\ \A q \in Proc : pc[q] \in Stopped => pc'[q] = pc[q]
<1>1. CASE UNCHANGED vars
  BY <1>1 DEF vars, CrewInv
<1>2. CASE Next
  BY <1>2, OneMoves DEF Types, CrewInv, Stopped
<1> QED
  BY <1>1, <1>2

\* Being alone is for ever.
LEMMA AloneStays ==
  ASSUME Types, CrewInv, [Next]_vars, NEW p \in Proc, Alone(p)
  PROVE  Alone(p)'
BY CrewStep DEF Alone, Stopped

\* In a crew of LockCrews the survivor of a crash is alone.
LEMMA SurvivorIsAlone ==
  ASSUME LockCrews, Types, CrewInv, NEW p \in Proc, pc[p] \notin Stopped,
         NEW q \in Proc, pc[q] = "dead"
  PROVE  Alone(p)
<1>1. fleet \in Fleets /\ fleet.crashes # 0
  BY DEF Types, CrewInv
<1>2. AtMostTwo(fleet.run)
  BY <1>1 DEF LockCrews
<1>3. p \in fleet.run /\ q \in fleet.run /\ p # q
  BY DEF CrewInv, Stopped
<1>4. fleet.run \subseteq {p, q}
  BY <1>2, <1>3 DEF AtMostTwo
<1>5. \A r \in Proc \ {p} : pc[r] \in {"done", "dead"}
  BY <1>4 DEF CrewInv
<1> QED
  BY <1>5 DEF Alone

\* The lock file, whoever moves.
LEMMA FileStep ==
  ASSUME LockInv, [Next]_vars
  PROVE  FileInv'
<1> USE DEF LockInv, Types
<1>0. \A l \in lock : l.inode \in Proc
  BY DEF LockFiles
<1>1. CASE UNCHANGED vars
  BY <1>0, <1>1 DEF vars, FileInv
<1>2. ASSUME NEW p \in Proc, Skip(p) PROVE FileInv'
  BY <1>0, <1>2 DEF Skip, Goto, FileInv
<1>3. ASSUME NEW p \in Proc, Create(p) PROVE FileInv'
  <2>1. CASE lock = {}
    <3> DEFINE l == [inode |-> p, token |-> Blank, fresh |-> TRUE]
    <3>1. l.inode = p /\ l.token = Blank /\ l.fresh
      OBVIOUS
    <3>2. lock' = {l}
      BY <1>3, <2>1 DEF Create
    <3>3. pc'[p] = "created"
      BY <1>3, <2>1 DEF Create, Goto
    <3> HIDE DEF l
    <3> QED
      BY <3>1, <3>2, <3>3 DEF FileInv
  <2>2. CASE lock # {}
    BY <1>0, <1>3, <2>2 DEF Create, Goto, FileInv
  <2> QED
    BY <2>1, <2>2
<1>4. ASSUME NEW p \in Proc, WriteToken(p) PROVE FileInv'
  <2>1. /\ lock = {[inode |-> p, token |-> Blank, fresh |-> TRUE]}
        /\ lock' = {[inode |-> p, token |-> p, fresh |-> TRUE]}
    BY <1>4, TokenWritten
  <2> QED
    BY <1>0, <1>4, <2>1 DEF WriteToken, Goto, FileInv
<1>5. ASSUME NEW p \in Proc, ReadOwner(p) \/ CheckOwner(p) PROVE FileInv'
  BY <1>0, <1>5 DEF ReadOwner, CheckOwner, Goto, FileInv
<1>6. ASSUME NEW p \in Proc, Decide(p) PROVE FileInv'
  BY <1>0, <1>6, DecideGoes DEF Decide, FileInv
<1>7. ASSUME NEW p \in Proc, Unlink(p) \/ Drop(p) PROVE FileInv'
  BY <1>0, <1>7 DEF Unlink, Drop, FileInv
<1>8. ASSUME NEW p \in Proc, Read(p) \/ GuardAppendOnly(p) PROVE FileInv'
  BY <1>0, <1>8 DEF Read, GuardAppendOnly, Goto, FileInv
<1>9. ASSUME NEW p \in Proc, Publish(p) PROVE FileInv'
  <2>1. lock' = lock /\ held' = held
    BY <1>9 DEF Publish
  <2>2. ~ held[p] => \A l \in lock : l.inode # p
    BY <1>9 DEF Publish, FileInv
  <2>3. \A q \in Proc \ {p} : pc'[q] = pc[q]
    BY <1>9, PublishGoes
  <2> QED
    BY <1>0, <1>9, <2>1, <2>2, <2>3, PublishGoes DEF FileInv
<1>10. ASSUME NEW p \in Proc, CheckRelease(p) PROVE FileInv'
  <2>1. lock = {[inode |-> p, token |-> p, fresh |-> TRUE]}
    BY <1>10 DEF CheckRelease, HolderInv
  <2>2. pc' = [pc EXCEPT ![p] = "drop"]
    BY <1>10, <2>1, OwnFile DEF CheckRelease, Goto
  <2> QED
    BY <1>0, <1>10, <2>2 DEF CheckRelease, FileInv
<1>11. ASSUME NEW p \in Proc, RunLate(p) PROVE FileInv'
  BY <1>0, <1>11 DEF RunLate, FileInv
<1>12. ASSUME NEW p \in Proc, Crash(p) \/ Hang(p) PROVE FileInv'
  BY <1>0, <1>12 DEF Crash, Hang, Goto, FileInv
<1>13. CASE GrowOld
  <2>1. PICK l \in lock : pc[l.inode] = "dead"
    BY <1>13 DEF GrowOld
  <2>2. lock = {l} /\ l.token \in {l.inode, Blank}
    BY <2>1 DEF FileInv
  <2>3. lock' = {[l EXCEPT !.fresh = FALSE]} /\ pc' = pc
    BY <1>13, <2>2 DEF GrowOld
  <2>4. l \in LockFiles
    OBVIOUS
  <2> DEFINE m == [l EXCEPT !.fresh = FALSE]
  <2>5. m.inode = l.inode /\ m.token = l.token
    BY <2>4 DEF LockFiles
  <2>6. pc'[m.inode] = "dead" /\ m.token \in {m.inode, Blank} /\ lock' = {m}
    BY <2>1, <2>2, <2>3, <2>5
  <2> HIDE DEF m
  <2> QED
    BY <2>6 DEF FileInv
<1>14. CASE AllStopped
  BY <1>1, <1>14 DEF AllStopped
<1> QED
  BY <1>1, <1>2, <1>3, <1>4, <1>5, <1>6, <1>7, <1>8, <1>9, <1>10, <1>11, <1>12,
     <1>13, <1>14 DEF Next, Step

\* Nobody takes the file of who holds the lock or is creating it.
LEMMA HolderStep ==
  ASSUME LockInv, [Next]_vars
  PROVE  HolderInv'
<1> USE DEF LockInv, Types
<1>1. CASE UNCHANGED vars
  BY <1>1 DEF vars, HolderInv
<1>2. ASSUME NEW p \in Proc, Skip(p) PROVE HolderInv'
  BY <1>2 DEF Skip, Goto, HolderInv
<1>3. ASSUME NEW p \in Proc, Create(p) PROVE HolderInv'
  <2>1. CASE lock = {}
    BY <1>3, <2>1 DEF Create, Goto, HolderInv
  <2>2. CASE lock # {}
    BY <1>3, <2>2 DEF Create, Goto, HolderInv
  <2> QED
    BY <2>1, <2>2
<1>4. ASSUME NEW p \in Proc, WriteToken(p) PROVE HolderInv'
  <2>1. /\ lock = {[inode |-> p, token |-> Blank, fresh |-> TRUE]}
        /\ lock' = {[inode |-> p, token |-> p, fresh |-> TRUE]}
    BY <1>4, TokenWritten
  <2>2. \A q \in Proc \ {p} : ~ (held[q] /\ pc[q] \notin {"done", "dead"}) /\ pc[q] # "created"
    BY <2>1 DEF HolderInv
  <2> QED
    BY <1>4, <2>1, <2>2 DEF WriteToken, Goto, HolderInv
<1>5. ASSUME NEW p \in Proc, ReadOwner(p) \/ CheckOwner(p) PROVE HolderInv'
  BY <1>5 DEF ReadOwner, CheckOwner, Goto, HolderInv
<1>6. ASSUME NEW p \in Proc, Decide(p) PROVE HolderInv'
  BY <1>6, DecideGoes DEF Decide, HolderInv
<1>7. ASSUME NEW p \in Proc, Unlink(p) PROVE HolderInv'
  <2>1. Alone(p) /\ ~ held[p]
    BY <1>7 DEF Unlink, ReclaimInv, HolderInv
  <2> QED
    BY <1>7, <2>1 DEF Unlink, Goto, Alone, HolderInv
<1>8. ASSUME NEW p \in Proc, Read(p) \/ GuardAppendOnly(p) PROVE HolderInv'
  BY <1>8 DEF Read, GuardAppendOnly, Goto, HolderInv
<1>9. ASSUME NEW p \in Proc, Publish(p) PROVE HolderInv'
  BY <1>9, PublishGoes DEF Publish, HolderInv
<1>10. ASSUME NEW p \in Proc, CheckRelease(p) PROVE HolderInv'
  BY <1>10 DEF CheckRelease, Goto, HolderInv
<1>11. ASSUME NEW p \in Proc, Drop(p) PROVE HolderInv'
  <2>1. lock = {[inode |-> p, token |-> p, fresh |-> TRUE]}
    BY <1>11 DEF Drop, HolderInv
  <2>2. \A q \in Proc \ {p} : ~ (held[q] /\ pc[q] \notin {"done", "dead"}) /\ pc[q] # "created"
    BY <2>1 DEF HolderInv
  <2> QED
    BY <1>11, <2>2 DEF Drop, Goto, HolderInv
<1>12. ASSUME NEW p \in Proc, RunLate(p) PROVE HolderInv'
  BY <1>12 DEF RunLate, HolderInv
<1>13. ASSUME NEW p \in Proc, Crash(p) \/ Hang(p) PROVE HolderInv'
  BY <1>13 DEF Crash, Hang, Goto, Stopped, HolderInv
<1>14. CASE GrowOld
  <2>1. PICK l \in lock : pc[l.inode] = "dead"
    BY <1>14 DEF GrowOld
  <2>2. \A q \in Proc : ~ (held[q] /\ pc[q] \notin {"done", "dead"}) /\ pc[q] # "created"
    BY <2>1 DEF HolderInv
  <2> QED
    BY <1>14, <2>2 DEF GrowOld, HolderInv
<1>15. CASE AllStopped
  BY <1>1, <1>15 DEF AllStopped
<1> QED
  BY <1>1, <1>2, <1>3, <1>4, <1>5, <1>6, <1>7, <1>8, <1>9, <1>10, <1>11, <1>12,
     <1>13, <1>14, <1>15 DEF Next, Step

\* Who is about to remove a lock remains alone, and who is not finds another
\* token than the one it saw.
LEMMA ReclaimStep ==
  ASSUME LockCrews, LockInv, [Next]_vars
  PROVE  ReclaimInv'
<1> USE DEF LockInv, Types
<1> DEFINE Excused(q) == Alone(q) \/ (seen[q] \in Proc /\ pc[seen[q]] = "done")
<1>1. \A q \in Proc : Alone(q) => Alone(q)'
  BY AloneStays
<1>2. ASSUME NEW p \in Proc, Decide(p), pc'[p] = "reclaim" PROVE Excused(p)
  <2>1. pc[p] \notin Stopped
    BY <1>2, DecideGoes DEF Stopped
  <2>2. CASE OwnerIsGone(p, seen[p])
    BY <2>1, <2>2, SurvivorIsAlone DEF OwnerIsGone
  <2>3. CASE Abandoned
    <3>1. PICK l \in lock : ~ l.fresh
      BY <2>3 DEF Abandoned
    <3>2. l.inode \in Proc /\ pc[l.inode] = "dead"
      BY <3>1 DEF FileInv, LockFiles
    <3> QED
      BY <2>1, <3>2, SurvivorIsAlone
  <2> QED
    BY <1>2, <2>2, <2>3, DecideGoes
<1>3. ASSUME NEW p \in Proc, CheckOwner(p), pc'[p] = "unlink" PROVE Alone(p)
  <2>1. pc[p] = "reclaim" /\ Owner = seen[p]
    BY <1>3 DEF CheckOwner, Goto
  <2>2. ASSUME seen[p] \in Proc, pc[seen[p]] = "done" PROVE FALSE
    <3>1. lock # {}
      BY <2>1, <2>2, TokensAssumption DEF Owner
    <3>2. PICK l \in lock : lock = {l}
      BY <3>1 DEF FileInv
    <3>3. l.token \in Proc
      BY <2>1, <2>2, <3>2, OneFile
    <3>4. l.inode = l.token
      BY <3>3, TokensAssumption DEF FileInv
    <3> QED
      BY <2>1, <2>2, <3>2, <3>3, <3>4, OneFile, TokensAssumption DEF FileInv
  <2> QED
    BY <2>1, <2>2 DEF ReclaimInv
<1>4. ASSUME NEW q \in Proc, pc'[q] = "unlink" PROVE Alone(q)
  <2>1. CASE pc[q] = "unlink"
    BY <2>1 DEF ReclaimInv
  <2>2. CASE pc[q] # "unlink"
    <3>1. CheckOwner(q)
      <4>1. \A p \in Proc : ~ Decide(p) /\ ~ Publish(p)
        BY <1>4, <2>2, DecideGoes, PublishGoes
      <4> QED
        BY <1>4, <2>2, <4>1 DEF Next, Step, Skip, Create, WriteToken, ReadOwner, CheckOwner, Unlink, Read,
           GuardAppendOnly, CheckRelease, Drop, RunLate, Crash, Hang, GrowOld, AllStopped, vars, Goto
    <3> QED
      BY <1>3, <1>4, <3>1
  <2> QED
    BY <2>1, <2>2
<1>5. ASSUME NEW q \in Proc, pc'[q] = "reclaim" PROVE Excused(q) /\ seen'[q] = seen[q]
  <2>1. seen'[q] = seen[q]
    BY <1>5 DEF Next, Step, Skip, Create, WriteToken, ReadOwner, Decide, CheckOwner, Unlink, Read,
       GuardAppendOnly, Publish, CheckRelease, Drop, RunLate, Crash, Hang, GrowOld, AllStopped, vars, Goto
  <2>2. CASE pc[q] = "reclaim"
    BY <2>1, <2>2 DEF ReclaimInv
  <2>3. CASE pc[q] # "reclaim"
    <3>1. Decide(q)
      <4> DEFINE Elsewhere(p) == pc' = [pc EXCEPT ![p] = pc'[p]] /\ pc'[p] # "reclaim"
      <4>1. ASSUME NEW p \in Proc, Elsewhere(p) PROVE FALSE
        BY <1>5, <2>3, <4>1
      <4>2. ASSUME NEW p \in Proc, Decide(p) PROVE p = q
        BY <1>5, <2>3, <4>2, DecideGoes
      <4>3. ASSUME NEW p \in Proc, Publish(p) PROVE FALSE
        BY <1>5, <2>3, <4>3, PublishGoes
      <4>4. ASSUME NEW p \in Proc, Skip(p) \/ Create(p) \/ WriteToken(p) \/ ReadOwner(p) PROVE Elsewhere(p)
        BY <4>4 DEF Skip, Create, WriteToken, ReadOwner, Goto
      <4>5. ASSUME NEW p \in Proc, CheckOwner(p) \/ Unlink(p) \/ Read(p) \/ GuardAppendOnly(p)
            PROVE  Elsewhere(p)
        BY <4>5 DEF CheckOwner, Unlink, Read, GuardAppendOnly, Goto
      <4>6. ASSUME NEW p \in Proc, CheckRelease(p) \/ Drop(p) \/ Crash(p) \/ Hang(p) PROVE Elsewhere(p)
        BY <4>6 DEF CheckRelease, Drop, Crash, Hang, Goto
      <4>7. ASSUME NEW p \in Proc, RunLate(p) PROVE pc' = pc
        BY <4>7 DEF RunLate
      <4>8. GrowOld \/ AllStopped => pc' = pc
        BY DEF GrowOld, AllStopped, vars
      <4>9. pc' # pc
        BY <1>5, <2>3
      <4> HIDE DEF Elsewhere
      <4> QED
        BY <4>1, <4>2, <4>3, <4>4, <4>5, <4>6, <4>7, <4>8, <4>9 DEF Next, Step, vars
    <3> QED
      BY <1>2, <1>5, <2>1, <3>1
  <2> QED
    BY <2>2, <2>3
<1>6. \A q \in Proc : pc[q] = "done" => pc'[q] = "done"
  BY CrewStep DEF Stopped
<1> QED
  BY <1>1, <1>4, <1>5, <1>6 DEF ReclaimInv

\* Nothing disturbs the invariant.
LEMMA LockStep ==
  ASSUME LockCrews, LockInv, [Next]_vars
  PROVE  LockInv'
BY TypesStep, CrewStep, FileStep, HolderStep, ReclaimStep DEF LockInv

\* In crews where nobody crashes, and in crews of at most two, a process that
\* believes it holds the lock finds its own token in it: nobody removes a lock
\* that is not abandoned (_reclaim_lock, _release_lock).
THEOREM HoldersOwn ==
  ASSUME LockCrews
  PROVE  Spec => []HoldersOwnTheLock
<1>1. Init => LockInv
  BY InitLockInv
<1>2. LockInv /\ [Next]_vars => LockInv'
  BY LockStep
<1>3. LockInv => HoldersOwnTheLock
  <2> SUFFICES ASSUME LockInv, NEW p \in Proc, held[p], pc[p] \notin {"done", "dead"}
               PROVE  Owner = p
    BY DEF HoldersOwnTheLock
  <2>1. lock = {[inode |-> p, token |-> p, fresh |-> TRUE]}
    BY DEF LockInv, HolderInv
  <2> QED
    BY <2>1, OwnFile
<1> QED
  BY <1>1, <1>2, <1>3, PTL DEF Spec

-----------------------------------------------------------------------------
(***************************************************************************)
(* Turns: whoever is between its read and its publish is the only one, so  *)
(* what it publishes is the record it read and its own part.               *)
(***************************************************************************)

\* The crews of LockCrews in which a process may also hang only if it has at
\* most one rival.
TurnCrews == \A f \in Fleets : (f.crashes = 0 /\ f.hangs = {}) \/ AtMostTwo(f.run)

Working(p) == pc[p] \in {"read", "guard", "publish"}
OthersStopped(p) == \A q \in Proc \ {p} : pc[q] \in Stopped

\* p has the record to itself.
Rules(p) == held[p] \/ OthersStopped(p)

RecordTypes == ctx \in Record /\ copy \in [Proc -> Record]

\* Who gives up waiting has only stopped rivals; who works rules; the turn of
\* who has published and goes on is the last one; hangers may hang.
RuleInv ==
  \A p \in Proc :
    /\ pc[p] = "hung" => p \in fleet.hangs
    /\ late[p] => OthersStopped(p) \/ pc[p] \in Stopped
    /\ Working(p) => Rules(p)
    /\ done[p] # 0 /\ pc[p] \notin Stopped =>
         Rules(p) /\ ctx.history # <<>> /\ Last(ctx.history)[1] = p

\* What a worker has read, and what it is about to publish.
CopyInv ==
  \A p \in Proc :
    /\ pc[p] = "guard" => copy[p] = ctx
    /\ pc[p] = "publish" =>
         copy[p] = [history |-> Append(ctx.history, <<p, done[p] + 1>>),
                    fields |-> ctx.fields \cup {<<p, done[p] + 1>>}]

\* The record holds what each process has published.
CountInv ==
  \A p \in Proc :
    /\ done[p] <= Len(ctx.history)
    /\ \A x \in ctx.fields : x[1] = p => \E k \in 1 .. done[p] : x = <<p, k>>

TurnInv == LockInv /\ RecordTypes /\ RuleInv /\ CopyInv /\ CountInv

\* Nobody has done anything.
LEMMA InitTurnInv == Init => TurnInv
<1> SUFFICES ASSUME Init PROVE TurnInv
  OBVIOUS
<1>1. EmptyRecord \in Record /\ EmptyRecord.fields = {} /\ EmptyRecord.history = <<>>
  BY DEF EmptyRecord, Record
<1>2. RecordTypes
  BY <1>1 DEF Init, RecordTypes
<1>3. RuleInv /\ CopyInv
  BY DEF Init, RuleInv, CopyInv, Working, Stopped
<1>4. CountInv
  BY <1>1 DEF Init, CountInv
<1> QED
  BY <1>2, <1>3, <1>4, InitLockInv DEF TurnInv

\* While somebody works nobody else has the record to itself.
LEMMA OneWorks ==
  ASSUME LockInv, RuleInv, NEW p \in Proc, Working(p),
         NEW q \in Proc, p # q, pc[q] \notin Stopped
  PROVE  ~ Rules(q)
<1>1. Rules(p) /\ pc[p] \notin Stopped
  BY DEF RuleInv, Working, Stopped
<1>2. ~ OthersStopped(p) /\ ~ OthersStopped(q)
  BY <1>1 DEF OthersStopped
<1>3. held[p]
  BY <1>1, <1>2 DEF Rules
<1>4. ~ held[q]
  <2>1. lock = {[inode |-> p, token |-> p, fresh |-> TRUE]}
    BY <1>1, <1>3 DEF LockInv, HolderInv, Stopped
  <2>2. held[q] => lock = {[inode |-> q, token |-> q, fresh |-> TRUE]}
    BY DEF LockInv, HolderInv, Stopped
  <2>3. \E l \in lock : l.inode = p
    BY <2>1
  <2>4. held[q] => \A l \in lock : l.inode = q
    BY <2>2
  <2> QED
    BY <2>3, <2>4
<1> QED
  BY <1>2, <1>4 DEF Rules

\* The waiter that outlasts a holder has no other rival.
LEMMA OutlastsAll ==
  ASSUME TurnCrews, LockInv, RuleInv, NEW p \in Proc, pc[p] \notin Stopped,
         NEW q \in Proc, pc[q] \in {"dead", "hung"}
  PROVE  OthersStopped(p)
<1>1. fleet \in Fleets /\ ~ (fleet.crashes = 0 /\ fleet.hangs = {})
  BY DEF LockInv, Types, CrewInv, RuleInv
<1>2. AtMostTwo(fleet.run)
  BY <1>1 DEF TurnCrews
<1>3. p \in fleet.run /\ q \in fleet.run /\ p # q
  BY DEF LockInv, CrewInv, Stopped
<1>4. fleet.run \subseteq {p, q}
  BY <1>2, <1>3 DEF AtMostTwo
<1>5. \A r \in Proc \ {p} : pc[r] \in Stopped
  BY <1>4 DEF LockInv, CrewInv, Stopped
<1> QED
  BY <1>5 DEF OthersStopped

\* Having only stopped rivals is for ever.
LEMMA OthersStayStopped ==
  ASSUME LockInv, [Next]_vars, NEW p \in Proc, OthersStopped(p)
  PROVE  OthersStopped(p)'
BY CrewStep DEF OthersStopped, LockInv

\* Who works and holds the lock keeps it.
LEMMA RulesStays ==
  ASSUME LockInv, [Next]_vars, NEW p \in Proc, Rules(p)
  PROVE  Rules(p)'
<1>1. held[p] => held'[p]
  BY DEF LockInv, Types, Next, Step, Skip, Create, WriteToken, ReadOwner, Decide, CheckOwner, Unlink,
     Read, GuardAppendOnly, Publish, CheckRelease, Drop, RunLate, Crash, Hang, GrowOld, AllStopped, vars
<1> QED
  BY <1>1, OthersStayStopped DEF Rules

\* Only a publish changes the record.
LEMMA RecordStays ==
  ASSUME [Next]_vars, \A p \in Proc : ~ Publish(p)
  PROVE  ctx' = ctx /\ done' = done
BY DEF Next, Step, Skip, Create, WriteToken, ReadOwner, Decide, CheckOwner, Unlink,
   Read, GuardAppendOnly, RunLate, Crash, Hang, GrowOld, CheckRelease, Drop, AllStopped, vars

\* What the publisher publishes.
LEMMA PublishWrites ==
  ASSUME TurnInv, NEW p \in Proc, Publish(p)
  PROVE  /\ ctx' = [history |-> Append(ctx.history, <<p, done[p] + 1>>),
                    fields |-> ctx.fields \cup {<<p, done[p] + 1>>}]
         /\ ctx.history \in Seq(Proc \X Nat) /\ ctx.fields \in SUBSET (Proc \X Nat)
         /\ done[p] \in Nat /\ done' = [done EXCEPT ![p] = done[p] + 1]
         /\ Working(p) /\ Rules(p)
<1>1. pc[p] = "publish" /\ ctx' = copy[p]
  BY DEF Publish
<1>2. done[p] \in Nat /\ done' = [done EXCEPT ![p] = done[p] + 1]
  BY PublishGoes DEF TurnInv, LockInv, Types
<1>3. Working(p) /\ Rules(p)
  BY <1>1 DEF Working, TurnInv, RuleInv
<1> QED
  BY <1>1, <1>2, <1>3 DEF TurnInv, RecordTypes, Record, CopyInv

\* A splice of a history that is longer than the disk's keeps it.
LEMMA NothingSpliced ==
  ASSUME TurnInv, NEW p \in Proc, GuardAppendOnly(p)
  PROVE  copy' = [copy EXCEPT ![p] =
                    [history |-> Append(ctx.history, <<p, done[p] + 1>>),
                     fields |-> ctx.fields \cup {<<p, done[p] + 1>>}]]
<1> DEFINE out == Outgoing(p)
           guarded == [Outgoing(p) EXCEPT !.history = Spliced(@, ctx.history)]
<1>1. copy' = [copy EXCEPT ![p] = guarded] /\ pc[p] = "guard"
  BY DEF GuardAppendOnly
<1>2. copy[p] = ctx /\ ctx \in Record /\ ctx.history \in Seq(Proc \X Nat)
  BY <1>1 DEF TurnInv, RecordTypes, CopyInv, Record
<1>3. out = [history |-> Append(ctx.history, <<p, done[p] + 1>>),
             fields |-> ctx.fields \cup {<<p, done[p] + 1>>}]
  BY <1>2 DEF Outgoing
<1>4. done[p] \in Nat
  BY DEF TurnInv, LockInv, Types
<1>5. Len(Append(ctx.history, <<p, done[p] + 1>>)) >= Len(ctx.history)
  BY <1>2, <1>4
<1>6. Spliced(out.history, ctx.history) = out.history
  <2>1. Len(out.history) >= Len(ctx.history)
    BY <1>3, <1>5
  <2> HIDE DEF out
  <2> QED
    BY <2>1 DEF Spliced
<1>7. guarded = [out EXCEPT !.history = out.history]
  BY <1>6
<1>8. guarded = out
  BY <1>3, <1>7
<1> QED
  BY <1>1, <1>3, <1>8

\* A published record is a record, and so is a copy of it.
LEMMA RecordStep ==
  ASSUME TurnInv, [Next]_vars
  PROVE  RecordTypes'
<1> USE DEF TurnInv, RecordTypes
<1>1. ASSUME NEW p \in Proc
      PROVE  [history |-> Append(ctx.history, <<p, done[p] + 1>>),
              fields |-> ctx.fields \cup {<<p, done[p] + 1>>}] \in Record
  <2>1. <<p, done[p] + 1>> \in Proc \X Nat
    BY DEF LockInv, Types
  <2> QED
    BY <2>1 DEF Record
<1>2. ASSUME NEW p \in Proc, Read(p) PROVE RecordTypes'
  BY <1>2 DEF Read
<1>3. ASSUME NEW p \in Proc, GuardAppendOnly(p) PROVE RecordTypes'
  <2>1. ctx' = ctx
    BY <1>3 DEF GuardAppendOnly
  <2>2. copy' \in [Proc -> Record]
    BY <1>1, <1>3, NothingSpliced
  <2> QED
    BY <2>1, <2>2
<1>4. ASSUME NEW p \in Proc, Publish(p) PROVE RecordTypes'
  BY <1>4 DEF Publish
<1>5. ASSUME \A p \in Proc : ~ Read(p) /\ ~ GuardAppendOnly(p) /\ ~ Publish(p)
      PROVE  RecordTypes'
  BY <1>5 DEF Next, Step, Skip, Create, WriteToken, ReadOwner, Decide, CheckOwner, Unlink,
     CheckRelease, Drop, RunLate, Crash, Hang, GrowOld, AllStopped, vars
<1> QED
  BY <1>2, <1>3, <1>4, <1>5

\* Who starts to work holds the lock, or has waited for it long enough.
LEMMA WorkersRule ==
  ASSUME TurnInv, [Next]_vars, NEW p \in Proc, Working(p)'
  PROVE  Rules(p)'
<1> USE DEF TurnInv, LockInv, Types
<1>1. CASE Working(p)
  BY <1>1, RulesStays DEF RuleInv
<1>2. CASE ~ Working(p)
  <2>1. ASSUME Skip(p) \/ WriteToken(p) PROVE held'[p]
    BY <2>1 DEF Skip, WriteToken
  <2>2. ASSUME Decide(p) PROVE OthersStopped(p)'
    <3>1. pc'[p] = "read"
      BY <1>2, <2>2, DecideGoes DEF Working
    <3>2. late[p] /\ pc[p] \notin Stopped
      BY <2>2, <3>1, DecideGoes DEF Stopped
    <3>3. OthersStopped(p)
      BY <3>2 DEF RuleInv
    <3> QED
      BY <3>3, OthersStayStopped
  <2>3. Skip(p) \/ WriteToken(p) \/ Decide(p)
    <3>1. pc'[p] \in {"read", "guard", "publish"} /\ pc[p] \notin {"read", "guard", "publish"}
      BY <1>2 DEF Working
    <3>2. \A q \in Proc : (Decide(q) => q = p) /\ ~ Publish(q)
      BY <3>1, DecideGoes, PublishGoes
    <3>3. \A q \in Proc : ~ CheckOwner(q) /\ ~ CheckRelease(q) /\ ~ Create(q) /\ ~ Crash(q) /\ ~ Hang(q)
      BY <3>1 DEF CheckOwner, CheckRelease, Create, Crash, Hang, Goto
    <3>4. \A q \in Proc : ~ ReadOwner(q) /\ ~ Unlink(q) /\ ~ Read(q) /\ ~ GuardAppendOnly(q) /\ ~ Drop(q)
      BY <3>1 DEF ReadOwner, Unlink, Read, GuardAppendOnly, Drop, Goto
    <3>5. pc' # pc /\ \A q \in Proc : (Skip(q) \/ WriteToken(q)) => q = p
      BY <3>1 DEF Skip, WriteToken, Goto
    <3> QED
      BY <3>2, <3>3, <3>4, <3>5 DEF Next, Step, RunLate, GrowOld, AllStopped, vars
  <2> QED
    BY <2>1, <2>2, <2>3 DEF Rules
<1> QED
  BY <1>1, <1>2

\* Who waited long enough has outlasted the only rival.
LEMMA LateOutlasts ==
  ASSUME TurnCrews, TurnInv, [Next]_vars, NEW p \in Proc, late'[p], pc'[p] \notin Stopped
  PROVE  OthersStopped(p)'
<1> USE DEF TurnInv, LockInv, Types
<1>1. pc[p] \notin Stopped
  BY CrewStep
<1>2. CASE late[p]
  BY <1>1, <1>2, OthersStayStopped DEF RuleInv
<1>3. CASE ~ late[p]
  <2>1. RunLate(p)
    BY <1>3 DEF Next, Step, Skip, Create, WriteToken, ReadOwner, Decide, CheckOwner, Unlink, Read,
       GuardAppendOnly, Publish, CheckRelease, Drop, RunLate, Crash, Hang, GrowOld, AllStopped, vars
  <2>2. PICK l \in lock : lock = {l}
    BY <2>1 DEF RunLate, FileInv
  <2>3. l.inode \in Proc /\ pc[l.inode] \in {"dead", "hung"}
    BY <2>1, <2>2, OneFile DEF RunLate, LockFiles
  <2> QED
    BY <1>1, <2>3, OutlastsAll, OthersStayStopped
<1> QED
  BY <1>2, <1>3

\* The last entry is of the process whose turn it is.
LEMMA TurnIsLast ==
  ASSUME TurnInv, [Next]_vars, NEW p \in Proc, done'[p] # 0, pc'[p] \notin Stopped
  PROVE  Rules(p)' /\ ctx'.history # <<>> /\ Last(ctx'.history)[1] = p
<1> USE DEF TurnInv
<1>1. pc[p] \notin Stopped
  BY CrewStep DEF LockInv
<1>2. CASE \A q \in Proc : ~ Publish(q)
  BY <1>1, <1>2, RecordStays, RulesStays DEF RuleInv
<1>3. ASSUME NEW q \in Proc, Publish(q)
      PROVE  Rules(p)' /\ ctx'.history # <<>> /\ Last(ctx'.history)[1] = p
  <2>1. Working(q) /\ Rules(q) /\ done' = [done EXCEPT ![q] = done[q] + 1]
    BY <1>3, PublishWrites
  <2>2. q = p
    <3>1. SUFFICES ASSUME q # p PROVE FALSE
      OBVIOUS
    <3>2. done[p] # 0
      BY <2>1, <3>1 DEF LockInv, Types
    <3> QED
      BY <1>1, <2>1, <3>1, <3>2, OneWorks DEF RuleInv
  <2>3. ctx'.history = Append(ctx.history, <<p, done[p] + 1>>) /\ ctx.history \in Seq(Proc \X Nat)
    BY <1>3, <2>2, PublishWrites
  <2>4. Last(ctx'.history) = <<p, done[p] + 1>> /\ ctx'.history # <<>>
    <3>1. <<p, done[p] + 1>> \in Proc \X Nat
      BY DEF LockInv, Types
    <3> QED
      BY <2>3, <3>1 DEF Last
  <2> QED
    BY <2>1, <2>2, <2>4, RulesStays
<1> QED
  BY <1>2, <1>3

\* Rule and turn go together.
LEMMA RuleStep ==
  ASSUME TurnCrews, TurnInv, [Next]_vars
  PROVE  RuleInv'
<1>1. ASSUME NEW p \in Proc, pc'[p] = "hung" PROVE p \in fleet'.hangs
  <2>1. fleet' = fleet
    BY DEF Next, Step, Skip, Create, WriteToken, ReadOwner, Decide, CheckOwner, Unlink, Read,
       GuardAppendOnly, Publish, CheckRelease, Drop, RunLate, Crash, Hang, GrowOld, AllStopped, vars
  <2>2. CASE pc[p] = "hung"
    BY <2>1, <2>2 DEF TurnInv, RuleInv
  <2>3. CASE pc[p] # "hung"
    <3>1. Hang(p)
      <4> USE DEF TurnInv, LockInv, Types
      <4>1. \A q \in Proc : ~ Publish(q) /\ ~ Decide(q)
        BY <1>1, <2>3, PublishGoes, DecideGoes
      <4> QED
        BY <1>1, <2>3, <4>1 DEF Next, Step, Skip, Create, WriteToken, ReadOwner, CheckOwner, Unlink, Read,
           GuardAppendOnly, CheckRelease, Drop, RunLate, Crash, Hang, GrowOld, AllStopped, vars, Goto
    <3> QED
      BY <2>1, <3>1 DEF Hang
  <2> QED
    BY <2>2, <2>3
<1> QED
  BY <1>1, LateOutlasts, WorkersRule, TurnIsLast DEF RuleInv

\* What a worker read and will publish is still true: nobody else works.
LEMMA CopyStep ==
  ASSUME TurnInv, [Next]_vars
  PROVE  CopyInv'
<1> USE DEF TurnInv, LockInv, Types
<1>1. ASSUME NEW p \in Proc, NEW q \in Proc, Publish(q), pc'[p] \in {"guard", "publish"}
      PROVE  FALSE
  <2>1. Working(q) /\ Rules(q) /\ pc'[q] \notin {"guard", "publish"}
    BY <1>1, PublishWrites, PublishGoes
  <2>2. p # q /\ pc'[p] = pc[p]
    BY <1>1, <2>1, PublishGoes
  <2>3. Rules(p) /\ pc[p] \notin Stopped
    BY <1>1, <2>2 DEF RuleInv, Working, Stopped
  <2> QED
    BY <2>1, <2>2, <2>3, OneWorks
<1>2. ASSUME NEW p \in Proc, Read(p) PROVE CopyInv'
  BY <1>2 DEF Read, Goto, CopyInv, RecordTypes
<1>3. ASSUME NEW p \in Proc, GuardAppendOnly(p) PROVE CopyInv'
  <2>1. /\ ctx' = ctx /\ done' = done
        /\ pc[p] = "guard" /\ pc' = [pc EXCEPT ![p] = "publish"]
    BY <1>3 DEF GuardAppendOnly, Goto
  <2>2. \A q \in Proc \ {p} : copy'[q] = copy[q] /\ pc'[q] = pc[q]
    BY <1>3, <2>1, NothingSpliced DEF RecordTypes
  <2>3. copy'[p] = [history |-> Append(ctx.history, <<p, done[p] + 1>>),
                    fields |-> ctx.fields \cup {<<p, done[p] + 1>>}]
    BY <1>3, NothingSpliced DEF RecordTypes
  <2> QED
    BY <2>1, <2>2, <2>3 DEF CopyInv
<1>4. ASSUME \A p \in Proc : ~ Read(p) /\ ~ GuardAppendOnly(p) /\ ~ Publish(p)
      PROVE  CopyInv'
  <2>1. ctx' = ctx /\ done' = done /\ copy' = copy
    BY <1>4 DEF Next, Step, Skip, Create, WriteToken, ReadOwner, Decide, CheckOwner, Unlink,
       CheckRelease, Drop, RunLate, Crash, Hang, GrowOld, AllStopped, vars
  <2>2. ASSUME NEW p \in Proc, pc'[p] \in {"guard", "publish"} PROVE pc[p] = pc'[p]
    <3> DEFINE Elsewhere(q) == pc' = [pc EXCEPT ![q] = pc'[q]] /\ pc'[q] \notin {"guard", "publish"}
    <3>1. ASSUME NEW q \in Proc, Elsewhere(q) PROVE pc[p] = pc'[p]
      <4>1. pc'[p] = IF p = q THEN pc'[q] ELSE pc[p]
        BY <3>1
      <4>2. p # q
        BY <2>2, <3>1
      <4> QED
        BY <4>1, <4>2
    <3>2. ASSUME NEW q \in Proc, Skip(q) \/ Create(q) \/ WriteToken(q) PROVE Elsewhere(q)
      BY <3>2 DEF Skip, Create, WriteToken, Goto
    <3>3. ASSUME NEW q \in Proc, ReadOwner(q) \/ CheckOwner(q) \/ Unlink(q) PROVE Elsewhere(q)
      BY <3>3 DEF ReadOwner, CheckOwner, Unlink, Goto
    <3>4. ASSUME NEW q \in Proc, CheckRelease(q) \/ Drop(q) PROVE Elsewhere(q)
      BY <3>4 DEF CheckRelease, Drop, Goto
    <3>5. ASSUME NEW q \in Proc, Crash(q) \/ Hang(q) PROVE Elsewhere(q)
      BY <3>5 DEF Crash, Hang, Goto
    <3>6. ASSUME NEW q \in Proc, Decide(q) PROVE Elsewhere(q)
      BY <3>6, DecideGoes
    <3>7. ASSUME NEW q \in Proc, RunLate(q) PROVE pc' = pc
      BY <3>7 DEF RunLate
    <3>8. GrowOld \/ AllStopped => pc' = pc
      BY DEF GrowOld, AllStopped, vars
    <3>9. pc' = pc \/ \E q \in Proc : Elsewhere(q)
      <4> HIDE DEF Elsewhere
      <4> QED
        BY <1>4, <3>2, <3>3, <3>4, <3>5, <3>6, <3>7, <3>8 DEF Next, Step, vars
    <3> HIDE DEF Elsewhere
    <3> QED
      BY <3>1, <3>9
  <2> QED
    BY <2>1, <2>2 DEF CopyInv
<1> QED
  BY <1>1, <1>2, <1>3, <1>4 DEF CopyInv

\* Every publish adds the next of its process.
LEMMA CountStep ==
  ASSUME TurnInv, [Next]_vars
  PROVE  CountInv'
<1> USE DEF TurnInv
<1>1. CASE \A p \in Proc : ~ Publish(p)
  BY <1>1, RecordStays DEF CountInv
<1>2. ASSUME NEW p \in Proc, Publish(p) PROVE CountInv'
  <2> DEFINE part == <<p, done[p] + 1>>
  <2>1. /\ ctx'.history = Append(ctx.history, part) /\ ctx'.fields = ctx.fields \cup {part}
        /\ ctx.history \in Seq(Proc \X Nat) /\ ctx.fields \in SUBSET (Proc \X Nat)
        /\ done[p] \in Nat /\ done' = [done EXCEPT ![p] = done[p] + 1]
        /\ done \in [Proc -> Nat]
    BY <1>2, PublishWrites DEF LockInv, Types
  <2>2. Len(ctx'.history) = Len(ctx.history) + 1 /\ Len(ctx.history) \in Nat
    BY <2>1
  <2>3. \A q \in Proc : done'[q] = IF q = p THEN done[p] + 1 ELSE done[q]
    BY <2>1
  <2>4. \A q \in Proc : done'[q] <= Len(ctx'.history)
    BY <2>1, <2>2, <2>3 DEF CountInv
  <2>5. ASSUME NEW q \in Proc, NEW x \in ctx'.fields, x[1] = q
        PROVE  \E k \in 1 .. done'[q] : x = <<q, k>>
    <3>1. CASE x = part
      <4>1. q = p /\ done[p] + 1 \in 1 .. done'[q]
        BY <2>1, <2>3, <2>5, <3>1
      <4> QED
        BY <3>1, <4>1
    <3>2. CASE x \in ctx.fields
      <4>1. PICK k \in 1 .. done[q] : x = <<q, k>>
        BY <2>5, <3>2 DEF CountInv
      <4>2. k \in 1 .. done'[q]
        BY <2>1, <2>3
      <4> QED
        BY <4>1, <4>2
    <3> QED
      BY <2>1, <3>1, <3>2
  <2> QED
    BY <2>4, <2>5 DEF CountInv
<1> QED
  BY <1>1, <1>2

\* Every step is a turn's next publish, or leaves the record alone.
LEMMA TurnStep ==
  ASSUME TurnInv, [Next]_vars
  PROVE  [Serial!Next]_ctx
<1> USE DEF TurnInv
<1>1. CASE \A p \in Proc : ~ Publish(p)
  BY <1>1, RecordStays
<1>2. ASSUME NEW p \in Proc, Publish(p) PROVE Serial!Write(p)
  <2> DEFINE part == <<p, done[p] + 1>>
  <2>1. /\ ctx' = [history |-> Append(ctx.history, part), fields |-> ctx.fields \cup {part}]
        /\ ctx.history \in Seq(Proc \X Nat) /\ ctx.fields \in SUBSET (Proc \X Nat)
        /\ done[p] \in Nat
    BY <1>2, PublishWrites
  <2>2. pc[p] \notin Stopped
    BY <1>2 DEF Publish, Stopped
  <2>3. Serial!Contributions(ctx, p) = {} \/ Serial!Last(ctx.history)[1] = p
    <3>1. CASE done[p] = 0
      <4>1. \A x \in ctx.fields : x[1] # p
        BY <3>1 DEF CountInv
      <4> QED
        BY <4>1 DEF Serial!Contributions
    <3>2. CASE done[p] # 0
      BY <2>2, <3>2 DEF RuleInv, Last, Serial!Last
    <3> QED
      BY <3>1, <3>2
  <2>4. part \notin ctx.fields
    <3>1. SUFFICES ASSUME part \in ctx.fields PROVE FALSE
      OBVIOUS
    <3>2. PICK k \in 1 .. done[p] : part = <<p, k>>
      BY <3>1 DEF CountInv
    <3>3. k = done[p] + 1
      BY <3>2
    <3> QED
      BY <2>1, <3>3
  <2>5. done[p] + 1 \in 1 .. Len(ctx.history) + 1
    BY <2>1 DEF CountInv
  <2>6. part \in {<<p, k>> : k \in 1 .. Len(ctx.history) + 1} \ ctx.fields
    BY <2>4, <2>5
  <2> HIDE DEF part
  <2> QED
    BY <2>1, <2>3, <2>6 DEF Serial!Write
<1> QED
  BY <1>1, <1>2 DEF Serial!Next

\* In crews without faults, and in crews of at most two, writers take turns: an
\* operation that publishes more than once is not interrupted by another's
\* publish, and each publish adds its part to all that was there (read_ctx,
\* atomic_write).
THEOREM TakesTurns ==
  ASSUME TurnCrews
  PROVE  Spec => ImplementsTurns
<1>1. LockCrews
  BY DEF TurnCrews, LockCrews
<1>2. Init => TurnInv
  BY InitTurnInv
<1>3. TurnInv /\ [Next]_vars => TurnInv'
  BY <1>1, LockStep, RecordStep, RuleStep, CopyStep, CountStep DEF TurnInv
<1>4. Init => Serial!Init
  BY DEF Init, EmptyRecord, Serial!Init
<1>5. TurnInv /\ [Next]_vars => [Serial!Next]_ctx
  BY TurnStep
<1> QED
  BY <1>2, <1>3, <1>4, <1>5, PTL DEF Spec, ImplementsTurns, Serial!Spec
=============================================================================
