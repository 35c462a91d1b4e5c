-------------------------- MODULE CapabilityRegistry --------------------------
(***************************************************************************)
(* The capability registry living-specs.yml, the older block in            *)
(* .specify/companion.yml it replaces, and the spec files the capabilities *)
(* name (companion_config.py, resolve-spec-paths.py), under the two        *)
(* programs that change them: register-capability.py, which rewrites the   *)
(* registry, and relocate-capability.py, which moves a spec with its tiers *)
(* and rewrites the registry, and undoes both when it fails midway.        *)
(*                                                                         *)
(* Each config is replaced by a rename (atomic_write_text), so a step      *)
(* writes all of one or nothing.                                           *)
(***************************************************************************)
EXTENDS Naturals, Sequences, FiniteSets, SequencesExt, Replays

CONSTANTS
  Names,          \* capability names
  Writers,        \* runs of the two programs that may overlap
  Home,           \* where a capability's code lives: "own" directory, "shared" or "nowhere"
  Origins,        \* the configs a project may start from: [registry, legacy]
  DiskOf,         \* the files a project may start with, given its configs
  Interruptible,  \* where a relocation, or its rollback, may fail or be interrupted
  MaxKills,       \* bound: killed relocations not yet repeated
  None            \* no declared spec path

VARIABLES
  registry,   \* living-specs.yml: {} or one [enabled, caps]
  legacy,     \* the livingSpecs block of companion.yml, likewise
  files,      \* the spec and tier files on disk: [place, name, tier]
  job,        \* what each writer is doing: {} or one record
  owed,       \* registered by a call and not replaced since
  killed,     \* the relocations that were killed: <<name, to, override>>
  astray      \* history: the capabilities a rollback or a kill left in two places

vars == <<registry, legacy, files, job, owed, killed, astray>>

Project == <<registry, legacy, files>>

Empty == [place |-> "empty"]
Central(n) == [place |-> "central", name |-> n]        \* capabilities/<n>/<n>.spec.md
OldCentral(n) == [place |-> "old", name |-> n]         \* capabilities/<n>/spec.md
InArea(n) == [place |-> "area", name |-> n]            \* beside the code
Chosen(n) == [place |-> "chosen", name |-> n]          \* a path of the caller's

Paths(n) == {Central(n), OldCentral(n), InArea(n), Chosen(n)}

Tiers == {"spec", "rules", "coverage"}
File(path, tier) == [place |-> path.place, name |-> path.name, tier |-> tier]
OnDisk(path) == path # Empty /\ File(path, "spec") \in files

\* What can be on disk, in a config, and a config that is there.
AllFiles == {File(path, t) : path \in UNION {Paths(n) : n \in Names}, t \in Tiers}
Specs == {None, Empty} \cup UNION {Paths(n) : n \in Names}
Caps == {e \in [name : Names, match : {"globs"}, spec : Specs, retire : BOOLEAN] :
           e.spec \in {None, Empty} \cup Paths(e.name)}
Docs == [enabled : BOOLEAN, caps : Seq(Caps)]
IsConfig(c) == c \subseteq Docs /\ \A d, e \in c : d = e

\* A path is something.
ASSUME NoneAssumption == None \notin {Empty} \cup UNION {Paths(n) : n \in Names}
\* Configs are those the reader understands.
ASSUME OriginsAssumption ==
  \A o \in Origins :
    IsConfig(o.registry) /\ IsConfig(o.legacy) /\ \A disk \in DiskOf[o] : disk \subseteq AllFiles

Init ==
  /\ \E o \in Origins : registry = o.registry /\ legacy = o.legacy /\ files \in DiskOf[o]
  /\ job = [w \in Writers |-> {}]
  /\ owed = {e.name : e \in UNION {ToSet(d.caps) : d \in IF registry # {} THEN registry ELSE legacy}}
  /\ killed = {}
  /\ astray = {}

-----------------------------------------------------------------------------
(* resolve_living_specs *)

\* Where an entry without a path has its spec: the old name if only that is there.
Settled(e) ==
  IF e.spec # None THEN e.spec
  ELSE IF ~OnDisk(Central(e.name)) /\ OnDisk(OldCentral(e.name)) THEN OldCentral(e.name)
  ELSE Central(e.name)

\* The registry answers alone when it is there.
Origin == IF registry # {} THEN "registry" ELSE IF legacy # {} THEN "legacy" ELSE "none"

Block == CASE Origin = "registry" -> The(registry)
           [] Origin = "legacy" -> The(legacy)
           [] Origin = "none" -> [enabled |-> FALSE, caps |-> <<>>]

Living == [i \in DOMAIN Block.caps |-> [Block.caps[i] EXCEPT !.spec = Settled(Block.caps[i])]]

NamesOf(caps) == {e.name : e \in ToSet(caps)}
Entry(caps, n) == caps[Min({i \in DOMAIN caps : caps[i].name = n})]

\* _location: anything under the capability root is centralized.
IsCentral(path) == path.place \in {"central", "old"}

\* _normalize_existing: what a rewrite keeps of each entry.
Normalized(caps) ==
  [i \in DOMAIN caps |->
     [caps[i] EXCEPT !.spec = IF @ \in {Empty, OldCentral(caps[i].name)} THEN None ELSE @,
                     !.retire = FALSE]]

-----------------------------------------------------------------------------
(* register-capability.py *)

Idle(w) == job[w] = {}
Working(w, at) == ~Idle(w) /\ The(job[w]).at = at
Job(w) == The(job[w])
Go(w, next) == job' = [job EXCEPT ![w] = next]
Commands(w) ==
  IF Job(w).kind = "relocate" THEN {<<n, Job(w).command[1], Job(w).command[2]>> : n \in Job(w).names} ELSE {}

\* The entries --replaces leaves.
Without(caps, names) == Only(caps, {e \in ToSet(caps) : e.name \notin names})

StartRegister(w, n, match, spec, replaces) ==
  /\ Idle(w)
  /\ LET kept == Without(Normalized(Living), replaces)
         new  == [name |-> n, match |-> match, retire |-> FALSE,
                  spec |-> IF spec = OldCentral(n) THEN None ELSE spec]
     IN  /\ n \notin NamesOf(kept)          \* else already registered, nothing is written
         /\ Go(w, {[at |-> "write", kind |-> "register", names |-> {n}, replaces |-> replaces,
                    caps |-> Append(kept, new), origin |-> Origin,
                    enabled |-> IF Origin = "none" THEN TRUE ELSE Block.enabled,
                    todo |-> <<>>, done |-> <<>>, original |-> registry, before |-> Project,
                    command |-> <<"register", None>>]})
  /\ UNCHANGED <<registry, legacy, files, owed, killed, astray>>

-----------------------------------------------------------------------------
(* relocate-capability.py *)

\* _target_spec.
Target(e, to, override) ==
  IF override # None THEN override
  ELSE IF to = "central" \/ Home[e.name] = "shared" THEN Central(e.name) ELSE InArea(e.name)

AlreadyThere(e, to, override) ==
  \/ to = "central" /\ IsCentral(e.spec)
  \/ to = "colocated" /\ ~IsCentral(e.spec) /\ override = None
  \/ e.spec = Target(e, to, override)

\* Mutant of MovesOf: the spec moves and its tiers are left behind.
SpecMoveOf(e, target) ==
  IF e.spec = Empty \/ ~OnDisk(e.spec) THEN <<>>
  ELSE <<[from |-> File(e.spec, "spec"), to |-> File(target, "spec")]>>

\* The spec and the tiers there are, each with its new path.
MovesOf(e, target) ==
  IF e.spec = Empty THEN <<>>
  ELSE LET there == Only(<<"spec", "coverage", "rules">>, {t \in Tiers : File(e.spec, t) \in files})
       IN  [i \in DOMAIN there |-> [from |-> File(e.spec, there[i]), to |-> File(target, there[i])]]

\* Mutant of Refused: any file at the target refuses, one already moved as well.
RefusedByAnyFile(e, to, override) ==
  \/ e.spec = Empty /\ to = "colocated"
  \/ to = "colocated" /\ override = None /\ Home[e.name] = "nowhere"
  \/ /\ ~AlreadyThere(e, to, override)
     /\ \E t \in Tiers : File(Target(e, to, override), t) \in files

\* What plan_capability refuses.
Refused(e, to, override) ==
  \/ e.spec = Empty /\ to = "colocated"
  \/ to = "colocated" /\ override = None /\ Home[e.name] = "nowhere"
  \/ /\ ~AlreadyThere(e, to, override)
     /\ \E m \in ToSet(MovesOf(e, Target(e, to, override))) : m.to \in files

\* --name or --all; under --all what is refused is skipped.
StartRelocate(w, targets, to, override) ==
  LET moving == Only(Living, {e \in ToSet(Living) : /\ e.name \in targets
                                                     /\ ~Refused(e, to, override)
                                                     /\ ~AlreadyThere(e, to, override)})
      rewrite(e) == IF e.name \in NamesOf(moving)
                    THEN [e EXCEPT !.spec = IF Target(e, to, override) = OldCentral(e.name) THEN None
                                            ELSE Target(e, to, override)]
                    ELSE e
  IN  /\ Idle(w)
      /\ moving # <<>>
      /\ Go(w, {[at |-> "move", kind |-> "relocate", names |-> NamesOf(moving), replaces |-> {},
                 caps |-> [i \in DOMAIN Living |-> rewrite(Normalized(Living)[i])],
                 origin |-> Origin, enabled |-> Block.enabled,
                 todo |-> FlattenSeq([i \in DOMAIN moving |->
                                        MovesOf(moving[i], Target(moving[i], to, override))]),
                 done |-> <<>>, original |-> registry, before |-> Project,
                 command |-> <<to, override>>]})
      /\ UNCHANGED <<registry, legacy, files, owed, killed, astray>>

Moved(disk, from, to) == IF from \in disk THEN (disk \ {from}) \cup {to} ELSE disk

\* The move is on the list to undo before it is tried.
Move(w) ==
  /\ Working(w, "move")
  /\ IF Job(w).todo = <<>>
       THEN Go(w, {[Job(w) EXCEPT !.at = "write"]}) /\ UNCHANGED files
       ELSE LET m == Head(Job(w).todo)
            IN  /\ files' = Moved(files, m.from, m.to)
                /\ Go(w, {[Job(w) EXCEPT !.todo = Tail(@), !.done = Append(@, m)]})
  /\ UNCHANGED <<registry, legacy, owed, killed, astray>>

\* The failing rename, or an interrupt, in the middle of the moves.  Bound: none
\* while a killed relocation is owed its repetition.
FailMove(w) ==
  /\ Working(w, "move") /\ Job(w).todo # <<>> /\ "move" \in Interruptible /\ killed = {}
  /\ Go(w, {[Job(w) EXCEPT !.at = "undo", !.done = Append(@, Head(Job(w).todo))]})
  /\ UNCHANGED <<registry, legacy, files, owed, killed, astray>>

\* _write_registry and _write_config: the whole file, spliced into what is there.
WriteRegistry(w) ==
  /\ Working(w, "write")
  /\ registry' = {[enabled |-> Job(w).enabled, caps |-> Job(w).caps]}
  /\ owed' = (owed \ Job(w).replaces) \cup (IF Job(w).kind = "register" THEN Job(w).names ELSE {})
  /\ Go(w, IF Job(w).origin = "legacy" THEN {[Job(w) EXCEPT !.at = "drop"]}
           ELSE IF Job(w).kind = "relocate" THEN {[Job(w) EXCEPT !.at = "end"]} ELSE {})
  /\ UNCHANGED <<legacy, files, killed, astray>>

\* _drop_legacy_block, only when it is the set just written forward.
DropLegacy(w) ==
  /\ Working(w, "drop")
  /\ legacy' = {}
  /\ Go(w, IF Job(w).kind = "relocate" THEN {[Job(w) EXCEPT !.at = "dropped"]} ELSE {})
  /\ UNCHANGED <<registry, files, owed, killed, astray>>

\* The end of the guarded part: nothing is undone any more.
Finish(w) ==
  /\ Working(w, "end") \/ Working(w, "dropped")
  /\ Go(w, {})
  /\ killed' = killed \ Commands(w)
  /\ UNCHANGED <<registry, legacy, files, owed, astray>>

\* A failed write or an interrupt.  register undoes nothing.
Fail(w) ==
  /\ killed = {}
  /\ \E at \in {"write", "drop", "dropped", "end"} \cap Interruptible : Working(w, at)
  /\ Go(w, IF Job(w).kind = "relocate" THEN {[Job(w) EXCEPT !.at = "undo"]} ELSE {})
  /\ UNCHANGED <<registry, legacy, files, owed, killed, astray>>

\* Mutant of Undo: the moves are forgotten instead of undone.
UndoNothing(w) ==
  /\ Working(w, "undo") /\ Job(w).done # <<>>
  /\ Go(w, {[Job(w) EXCEPT !.done = Front(@)]})
  /\ UNCHANGED <<registry, legacy, files, owed, killed, astray>>

\* _rollback, newest first.
Undo(w) ==
  /\ Working(w, "undo") /\ Job(w).done # <<>>
  /\ LET m == Last(Job(w).done) IN files' = Moved(files, m.to, m.from)
  /\ Go(w, {[Job(w) EXCEPT !.done = Front(@)]})
  /\ UNCHANGED <<registry, legacy, owed, killed, astray>>

\* Mutant of Restore: the registry is removed as if it had not been there.
RestoreNothing(w) ==
  /\ Working(w, "undo") /\ Job(w).done = <<>>
  /\ registry' = {}
  /\ Go(w, {})
  /\ UNCHANGED <<legacy, files, owed, killed, astray>>

\* The registry as it was, or none.
Restore(w) ==
  /\ Working(w, "undo") /\ Job(w).done = <<>>
  /\ registry' = Job(w).original
  /\ Go(w, {})
  /\ UNCHANGED <<legacy, files, owed, killed, astray>>

\* A rename of the rollback is refused: the file stays, the rest is undone all the same.
FailUndo(w) ==
  /\ Working(w, "undo") /\ Job(w).done # <<>> /\ "undo" \in Interruptible
  /\ LET m == Last(Job(w).done)
     IN  /\ m.to \in files
         /\ astray' = astray \cup {m.to.name}
  /\ Go(w, {[Job(w) EXCEPT !.done = Front(@)]})
  /\ UNCHANGED <<registry, legacy, files, owed, killed>>

\* The registry cannot be replaced or removed: it stays as it was written.
FailRestore(w) ==
  /\ Working(w, "undo") /\ Job(w).done = <<>> /\ "undo" \in Interruptible
  /\ astray' = IF registry = Job(w).original THEN astray ELSE astray \cup Job(w).names
  /\ Go(w, {})
  /\ UNCHANGED <<registry, legacy, files, owed, killed>>

\* An interrupt in the rollback, or a kill: what is left is not undone.
CutShort(w) ==
  /\ Working(w, "undo") /\ Job(w).done # <<>> /\ "undo" \in Interruptible
  /\ astray' = astray \cup Job(w).names
  /\ Go(w, {})
  /\ UNCHANGED <<registry, legacy, files, owed, killed>>

-----------------------------------------------------------------------------
(* The environment *)

\* Tiers beside the old default without their spec: no reader looks there.
Stranded(n) == ~OnDisk(OldCentral(n)) /\ \E t \in Tiers : File(OldCentral(n), t) \in files

\* A process is killed: no handler runs.  For one that is undoing see CutShort.
Kill(w) ==
  /\ ~Idle(w) /\ ~Working(w, "undo") /\ Cardinality(killed) < MaxKills
  /\ killed' = killed \cup Commands(w)
  /\ astray' = astray \cup {n \in Job(w).names : Stranded(n)}
  /\ Go(w, {})
  /\ UNCHANGED <<registry, legacy, files, owed>>

\* The fold writes a registered capability's spec where the resolver says.
CreateSpec(n) ==
  /\ \A w \in Writers : Idle(w)
  /\ n \in NamesOf(Living) /\ \A f \in files : f.name # n
  /\ Entry(Living, n).spec # Empty
  /\ files' = files \cup {File(Entry(Living, n).spec, "spec")}
  /\ UNCHANGED <<registry, legacy, job, owed, killed, astray>>

\* Adoption drafts the spec before it registers the capability.
DraftSpec(n, path) ==
  /\ \A w \in Writers : Idle(w)
  /\ n \notin NamesOf(Living) /\ \A f \in files : f.name # n
  /\ files' = files \cup {File(path, t) : t \in {"spec", "rules"}}
  /\ UNCHANGED <<registry, legacy, job, owed, killed, astray>>

Register(w) ==
  \E n \in Names, replaces \in {{}} \cup {{m} : m \in Names} :
    \/ \E path \in Paths(n) :
         OnDisk(path) /\ StartRegister(w, n, "globs", path, replaces)
    \/ (\A f \in files : f.name # n) /\ StartRegister(w, n, "globs", None, replaces)

Relocate(w) ==
  \E to \in {"central", "colocated"} :
    \/ StartRelocate(w, Names, to, None)
    \/ \E n \in Names : \E override \in {None, Chosen(n)} : StartRelocate(w, {n}, to, override)

\* The user runs a killed relocation again, which may have nothing left to move.
Rerun(w) ==
  \E k \in killed :
    \/ StartRelocate(w, {k[1]}, k[2], k[3])
    \/ /\ Idle(w)
       /\ LET e == Entry(Living, k[1]) IN Refused(e, k[2], k[3]) \/ AlreadyThere(e, k[2], k[3])
       /\ killed' = killed \ {k}
       /\ UNCHANGED <<registry, legacy, files, job, owed, astray>>

Step(w) ==
  \/ Move(w) \/ WriteRegistry(w) \/ DropLegacy(w) \/ Finish(w) \/ Undo(w) \/ Restore(w)

\* After a kill the user repeats the command before anything else.
Next ==
  \/ \E w \in Writers : \/ Step(w) \/ FailMove(w) \/ Fail(w) \/ Kill(w) \/ Rerun(w)
                       \/ FailUndo(w) \/ FailRestore(w) \/ CutShort(w)
  \/ /\ killed = {}
     /\ \/ \E w \in Writers : Register(w) \/ Relocate(w)
        \/ \E n \in Names : \/ CreateSpec(n)
                            \/ \E path \in {Central(n), OldCentral(n), InArea(n)} : DraftSpec(n, path)

Spec == Init /\ [][Next]_vars

\* A running program goes on, and a killed relocation is run again.
FairSpec == Spec /\ \A w \in Writers : WF_vars(Step(w)) /\ WF_vars(Rerun(w))

-----------------------------------------------------------------------------
(* Properties *)

FilesOf(n) == {f \in files : f.name = n}

\* Every file of n is where its entry says, the spec itself included.
Agrees(n) ==
  FilesOf(n) # {} =>
    LET spec == Entry(Living, n).spec
    IN  OnDisk(spec) /\ FilesOf(n) \subseteq {File(spec, t) : t \in Tiers}

\* With no program at work the registry names each spec where it is, with its
\* tiers beside it, for every capability but those whose own files or entry a
\* rollback could not put back and those killed between the move of a spec of the
\* old name and the move of its tiers: one refused rename spoils no other
\* capability, and no failed move or write that is undone spoils any
\* (relocate-capability.py, "so the config and the disk are never out of sync";
\* _rollback, "must not stop the rest of the tree from being restored").
ConfigAndDiskAgree ==
  (\A w \in Writers : Idle(w)) /\ killed = {} => \A n \in NamesOf(Living) \ astray : Agrees(n)

\* What the docstring promises, of every capability: "A failed config write rolls
\* the moves back, so the config and the disk are never out of sync".  The rollback
\* itself may fail, and the tiers of a spec of the old name are lost sight of.
NeverOutOfSync ==
  (\A w \in Writers : Idle(w)) /\ killed = {} => \A n \in NamesOf(Living) : Agrees(n)

\* A capability that was registered stays registered, at every instant, through
\* the migration out of the old config, other registrations, relocations, their
\* failures and the failures of their rollbacks, until one replaces it
\* (register-capability.py's contract).
NothingIsDropped == owed \subseteq NamesOf(Living)

\* The registry spells out none of what a rewrite drops of n's path.
Plainly(n) == Entry(Block.caps, n).spec \notin {Empty, OldCentral(n)}

\* The calls at work leave n to others.
Spared(n) == \A w \in Writers : Idle(w) \/ n \notin Job(w).names \cup Job(w).replaces

\* A call leaves the path and the globs of the capabilities it does not name alone,
\* as the resolver reads them, unless the registry spells out an empty path or the
\* old default, which a rewrite drops.  And when a relocation that failed is done
\* undoing, each capability whose rename was not refused has its files where they
\* were, and the registry is as it was unless it could not be replaced (_rollback).
CallsTouchOnlyTheirOwn ==
  [][/\ \A n \in NamesOf(Living) \cap NamesOf(Living)' :
          Spared(n) /\ Plainly(n) /\ Plainly(n)' =>
            /\ Entry(Living, n).spec = Entry(Living', n).spec
            /\ Entry(Living, n).match = Entry(Living', n).match
     /\ \A w \in Writers : Working(w, "undo") /\ Idle(w)' =>
          /\ legacy' = Job(w).before[2]
          /\ registry' = Job(w).before[1] \/ Job(w).names \subseteq astray'
          /\ {f \in files' : f.name \notin astray'}
               = {f \in Job(w).before[3] : f.name \notin astray'}]_vars

\* "every existing capability and unrelated config is preserved": a call leaves the
\* permission to be emptied of the capabilities it does not name.  A rewrite has no
\* place for it (_normalize_existing), so every one is lost.
PermissionsStay ==
  [][\A n \in NamesOf(Living) \cap NamesOf(Living)' :
       Spared(n) => Entry(Living, n).retire = Entry(Living', n).retire]_vars

\* A killed relocation is completed by running it again: the files it had moved
\* are taken as moved, unless tiers were left at the old name without their spec or
\* the capability had gone astray before.
KilledRelocationHeals ==
  \A n \in Names : (\E k \in killed : k[1] = n)
                     ~> /\ n \in NamesOf(Living) /\ \A w \in Writers : Idle(w)
                        /\ n \notin astray => Agrees(n)
=============================================================================
