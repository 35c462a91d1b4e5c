---------------------------- MODULE LivingSpecFold ----------------------------
(***************************************************************************)
(* A feature and the living specs of the project: which capabilities its   *)
(* change loads (resolve-spec-paths.py, record-living-specs.py), the       *)
(* requirement deltas its spec.md carries (spec_deltas.py), the fold of    *)
(* the deltas into the living specs (living_spec_fold.py), and the         *)
(* accounting of what was loaded, folded and skipped (capture.py).         *)
(*                                                                         *)
(* A living spec is its sequence of requirements.  A glob is the set of    *)
(* files it matches, with the length of its literal prefix.  The resolver  *)
(* reads a requirement's touches marker past blank lines and other markers *)
(* (requirement_slices), the fold only on the line under its heading       *)
(* (_touches_globs): it is direct when it stands there.                    *)
(***************************************************************************)
EXTENDS Naturals, Sequences, FiniteSets, SequencesExt, FiniteSetsExt, Replays

CONSTANTS
  Headings,   \* requirement headings
  Bodies,     \* their texts
  Files,      \* the code files a marker may name
  Caps,       \* the capability names, sorted
  Claims,     \* what each has in living-specs.yml: [match, exclude, retire], retire as first written
  Enrolled,   \* those registered from the start
  Initial,    \* the living specs there may be: cap -> its requirements
  Drafts,     \* the delta documents an author may write: sequences of blocks
  Change,     \* the files this feature changes
  Loads,      \* the sets of files a run asks the living specs for
  MaxDrafts,  \* bound: how often the author writes the delta blocks
  Halved,     \* requirement texts with a scenario that lacks its WHEN or THEN
  None        \* no capability

Cap == ToSet(Caps)

\* A requirement of a living spec, and what a delta block of each verb lists.
Requirements ==
  [head : Headings, body : Bodies, touches : SUBSET Files, direct : BOOLEAN,
   aligns : SUBSET Cap, adopted : BOOLEAN]
UnitsOf(verb) ==
  CASE verb \in {"added", "modified"} ->
         [head : Headings, body : Bodies, touches : SUBSET Files, direct : BOOLEAN]
    [] verb = "removed" -> [head : Headings]
    [] verb = "renamed" -> [old : Headings, new : Headings]
IsBlock(b) ==
  b.verb \in {"added", "modified", "removed", "renamed"} /\ b.units \in Seq(UnitsOf(b.verb))

\* None is no capability, and the specs and the blocks are what the parsers give.
ASSUME CapsAssumption == Caps \in Seq(Cap) /\ None \notin Cap
ASSUME InitialAssumption == \A specs0 \in Initial : specs0 \in [Cap -> Seq(Requirements)]
ASSUME DraftsAssumption == \A d \in Drafts : d \in Seq(ToSet(d)) /\ \A b \in ToSet(d) : IsBlock(b)

VARIABLES
  specs,      \* the requirements of each living spec, <<>> when it has no file
  onDisk,     \* the capabilities whose living spec has a file
  registered, \* the capabilities in living-specs.yml
  retiring,   \* those of them whose entry declares its retirement
  doc,        \* the delta blocks of the feature's spec.md: [verb, cap, units]
  living,     \* livingSpecs in the record: [loaded, requirements, synced, skipped]
  reported,   \* the capabilities the last fold called unaccounted
  drafts      \* how often the delta blocks were written

vars == <<specs, onDisk, registered, retiring, doc, living, reported, drafts>>

Init ==
  /\ specs \in Initial
  /\ onDisk = {c \in Cap : specs[c] # <<>>}
  /\ registered = Enrolled
  /\ retiring = {c \in Enrolled : Claims[c].retire}
  /\ doc = <<>>
  /\ living = [loaded |-> {}, requirements |-> [c \in Cap |-> {}], synced |-> {}, skipped |-> {}]
  /\ reported = {}
  /\ drafts = 0

-----------------------------------------------------------------------------
(* Which capabilities a change belongs to *)

ReachingGlobs(c, files) ==
  {g \in Claims[c].match : g.files \cap (files \ Claims[c].exclude) # {}}

Specificity(c, files) == Max({g.depth : g \in ReachingGlobs(c, files)})

MatchChanged(files) == {c \in registered : ReachingGlobs(c, files) # {}}

NameOrder(c) == CHOOSE i \in DOMAIN Caps : Caps[i] = c

\* The head of match_changed: most specific first, then by name.
MostSpecific(files) ==
  LET hits == MatchChanged(files)
      best == {c \in hits : \A d \in hits : Specificity(d, files) <= Specificity(c, files)}
  IN  IF hits = {} THEN None
      ELSE CHOOSE c \in best : \A d \in best : NameOrder(c) <= NameOrder(d)

\* requirements_for_change: what its marker claims, and whatever has none.
RequirementsForChange(spec, files) ==
  {r \in ToSet(spec) : r.touches = {} \/ r.touches \cap files # {}}

ReadWhole(c) == c \notin onDisk \/ \A r \in ToSet(specs[c]) : r.touches = {}

-----------------------------------------------------------------------------
(* apply_deltas *)

Units(verb, blocks) ==
  FlattenSeq([i \in DOMAIN blocks |-> IF blocks[i].verb = verb THEN blocks[i].units ELSE <<>>])

\* Mutant of DeltasFor: an unmarked block goes to every target.
DeltasForAll(c, default) == Only(doc, {b \in ToSet(doc) : b.cap \in {c, None}})

\* _deltas_for: the blocks marked for c, and the unmarked ones for the default.
DeltasFor(c, default) ==
  Only(doc, {b \in ToSet(doc) : b.cap = c \/ (b.cap = None /\ c = default)})

Heads(spec) == {r.head : r \in ToSet(spec)}
Span(spec, head) == CHOOSE i \in DOMAIN spec :
                      spec[i].head = head /\ \A j \in 1 .. i - 1 : spec[j].head # head

\* Where n renames take a heading.
Follow(mapping, head, n) ==
  Replay(LAMBDA h, i : IF h \in DOMAIN mapping THEN mapping[h] ELSE h, head, [i \in 1 .. n |-> i])

\* The first rename of a heading.
FirstRename(pairs, head) == pairs[Min({i \in DOMAIN pairs : pairs[i].old = head})]

\* Mutant of RenameMap: each rename is one link, whatever follows it.
RenameLinks(blocks) ==
  [h \in {p.old : p \in ToSet(Units("renamed", blocks))} |->
     FirstRename(Units("renamed", blocks), h).new]

\* Each renamed heading and the end of its chain: the first rename of a heading
\* wins, and one whose chain comes back is dropped.
RenameMap(blocks) ==
  The({ LET n     == Len(pairs)
            first == [h \in {p.old : p \in ToSet(pairs)} |-> FirstRename(pairs, h).new]
            end   == [h \in DOMAIN first |-> Follow(first, h, n)]
        IN  [h \in {o \in DOMAIN first : end[o] \notin DOMAIN first} |-> end[h]]
        : pairs \in {Units("renamed", blocks)} })

ResolveRename(mapping, head) == IF head \in DOMAIN mapping THEN mapping[head] ELSE head

\* Mutant of RenameTo: a heading is given a name that is taken.
RenameOnto(spec, old, new) ==
  IF old \in Heads(spec) THEN [spec EXCEPT ![Span(spec, old)].head = new] ELSE spec

RenameTo(spec, old, new) ==
  IF old \in Heads(spec) /\ new \notin Heads(spec)
  THEN [spec EXCEPT ![Span(spec, old)].head = new] ELSE spec

RemoveHead(spec, head) == IF head \in Heads(spec) THEN RemoveAt(spec, Span(spec, head)) ELSE spec

\* _touches_globs: the files of a marker on the line under the heading.
TouchesGlobs(r) == IF r.direct THEN r.touches ELSE {}

\* Mutant of KeepMarker: the delta's marker replaces the living spec's.
NewMarker(old, unit) ==
  [head |-> unit.head, body |-> unit.body, touches |-> unit.touches, direct |-> unit.direct,
   aligns |-> {}, adopted |-> FALSE]

\* _keep_marker: what the fold reads of the two markers becomes one, under the
\* heading; when it reads neither, the delta's text stands as it is.  The aligns
\* edges are the living spec's own, and an adopted requirement is confirmed.
KeepMarker(old, unit) ==
  LET globs == TouchesGlobs(old) \cup TouchesGlobs(unit)
  IN  [head |-> unit.head, body |-> unit.body,
       touches |-> IF globs = {} THEN unit.touches ELSE globs, direct |-> globs # {} \/ unit.direct,
       aligns |-> old.aligns, adopted |-> FALSE]

ReplaceBody(spec, unit) ==
  IF unit.head \in Heads(spec)
  THEN [spec EXCEPT ![Span(spec, unit.head)] = KeepMarker(@, unit)] ELSE spec

\* Mutant of AddRequirement: it is added whatever is there.
AddRequirementAgain(spec, head, unit) ==
  Append(spec, [head |-> head, body |-> unit.body, touches |-> unit.touches, direct |-> unit.direct,
                aligns |-> {}, adopted |-> FALSE])

\* _add_requirement under its final heading, unless that is taken.
AddRequirement(spec, head, unit) ==
  IF head \in Heads(spec) THEN spec
  ELSE Append(spec, [head |-> head, body |-> unit.body, touches |-> unit.touches, direct |-> unit.direct,
                     aligns |-> {}, adopted |-> FALSE])

\* The last modification of a heading.
LastText(modified, head) == modified[Max({i \in DOMAIN modified : modified[i].head = head})]

ApplyDeltas(spec, blocks) ==
  LET mapping  == The({RenameMap(blocks)})
      final(h) == ResolveRename(mapping, h)
      added    == Units("added", blocks)
      modified == Units("modified", blocks)
      kept     == {final(u.head) : u \in ToSet(added)} \cup Range(mapping)
      edited(u) == IF final(u.head) \in Heads(modified) THEN LastText(modified, final(u.head))
                   ELSE IF u.head \in Heads(modified) THEN LastText(modified, u.head) ELSE u
      renamed  == Replay(LAMBDA s, p : IF p.old \in DOMAIN mapping
                                       THEN RenameTo(s, p.old, final(p.old)) ELSE s,
                         spec, Units("renamed", blocks))
      removed  == Replay(LAMBDA s, u : IF final(u.head) \in kept THEN s ELSE RemoveHead(s, u.head),
                         renamed, Units("removed", blocks))
      replaced == Replay(ReplaceBody, removed, modified)
      present  == Heads(removed)
      extended == Replay(LAMBDA s, u : AddRequirement(s, final(u.head), edited(u)),
                         replaced, added)
  IN  \* A modification of a heading that is not there is an addition.
      Replay(LAMBDA s, u : IF u.head \in present THEN s
                           ELSE AddRequirement(s, final(u.head), u),
             extended, modified)

-----------------------------------------------------------------------------
(* The fold *)

\* The registered capabilities and the specs discovered on disk under no name.
Known == registered \cup onDisk

Marked == {b.cap : b \in ToSet(doc)} \ {None}

\* Mutant of Targets: the fold goes where the changed files say.
TargetOfChange(changed) == {MostSpecific(changed)} \ {None}

\* _resolve_fold_targets.
Targets(changed) == (Marked \cap Known) \cup ({MostSpecific(changed)} \ {None})

\* check_living_spec, its errors: a scenario without its WHEN or its THEN, or
\* a heading twice in one block.
CheckLivingSpec(units) ==
  \/ \E u \in ToSet(units) : u.body \in Halved
  \/ \E m, n \in DOMAIN units : m # n /\ units[m].head = units[n].head

\* check_feature_deltas: what would be added or changed is held to the shape of
\* a living spec.
CheckFeatureDeltas(blocks) ==
  \E b \in ToSet(blocks) : b.verb \in {"added", "modified"} /\ CheckLivingSpec(b.units)

\* _shape_errors: one broken block refuses its capability and no other.
Refused(c, default) == \E blocks \in {DeltasFor(c, default)} : CheckFeatureDeltas(blocks)

\* What the fold leaves in c's living spec.  A spec found on disk under no name
\* declares nothing.
Folded(c, default) ==
  LET after == The({ApplyDeltas(specs[c], blocks) : blocks \in {DeltasFor(c, default)}})
  IN  IF Refused(c, default) \/ (after = <<>> /\ c \notin retiring) THEN specs[c] ELSE after

AccountabilityGap(synced) ==
  living.loaded \ (synced \cup living.synced \cup living.skipped)

\* set_living_specs_loaded, _loaded_requirements and _synced: each adds to the
\* names in the record; a capability read whole gets no requirements.
Loaded(record, caps) == [record EXCEPT !.loaded = @ \cup caps]

LoadedRequirements(record, caps, files) ==
  [record EXCEPT !.requirements = [c \in Cap |->
     IF c \notin caps \/ ReadWhole(c) THEN @[c]
     ELSE @[c] \cup {r.head : r \in RequirementsForChange(specs[c], files)}]]

Synced(record, caps) == [record EXCEPT !.synced = @ \cup caps]

\* One --fold-living-spec.  git may have no answer for the changed files.  The
\* specs the fold would change are written one by one; a write may fail, and the
\* process may be killed before it reports and records those that landed.
Fold(changed, killed, everyWrite) ==
  \E after \in {[c \in Targets(changed) |-> Folded(c, MostSpecific(changed))]} :
    LET pending == {c \in DOMAIN after : after[c] # specs[c]}
    IN  \E written \in IF everyWrite THEN {pending} ELSE SUBSET pending :
          /\ specs' = [c \in Cap |-> IF c \in written THEN after[c] ELSE specs[c]]
          /\ onDisk' = onDisk \cup written
          /\ living' = IF killed THEN living ELSE Synced(living, written)
          \* With deltas and nothing to fold them into it stops early.
          /\ reported' = IF killed \/ (doc # <<>> /\ DOMAIN after = {}) THEN {}
                         ELSE AccountabilityGap(written)
          /\ UNCHANGED <<registered, retiring, doc, drafts>>

FoldUndisturbed == Fold(Change, FALSE, TRUE)

-----------------------------------------------------------------------------
(* The steps around it *)

\* record-living-specs.py, at specify and again when plan reaches more files.
RecordLoaded(files) ==
  /\ MatchChanged(files) # {}
  /\ living' = LoadedRequirements(Loaded(living, MatchChanged(files)), MatchChanged(files), files)
  /\ UNCHANGED <<specs, onDisk, registered, retiring, doc, reported, drafts>>

\* --living-spec-skip with a reason.
RecordSkipped(c) ==
  /\ living' = [living EXCEPT !.skipped = @ \cup {c}]
  /\ UNCHANGED <<specs, onDisk, registered, retiring, doc, reported, drafts>>

\* The rewrite of the registry carries no declaration over (_normalize_existing).
RegisterCapability(c) ==
  /\ c \notin registered
  /\ registered' = registered \cup {c}
  /\ retiring' = {}
  /\ UNCHANGED <<specs, onDisk, doc, living, reported, drafts>>

\* The author writes the delta blocks, or changes them after a fold.
WriteDeltas(draft) ==
  /\ drafts < MaxDrafts
  /\ doc' = draft /\ drafts' = drafts + 1
  /\ UNCHANGED <<specs, onDisk, registered, retiring, living, reported>>

Next ==
  \/ \E changed \in {Change, {}}, killed \in BOOLEAN : Fold(changed, killed, FALSE)
  \/ \E files \in Loads : RecordLoaded(files)
  \/ \E c \in living.loaded : RecordSkipped(c)
  \/ \E c \in Cap : RegisterCapability(c)
  \/ \E draft \in Drafts : WriteDeltas(draft)

Spec == Init /\ [][Next]_vars

\* The implement body and the mark-complete command both call for the fold, and
\* ask for it again after a registration.
FairSpec == Spec /\ WF_vars(FoldUndisturbed)

-----------------------------------------------------------------------------
(* Properties *)

\* No delta document, however its renames chain and its blocks overlap, leaves
\* one heading twice in a living spec (apply_deltas, "renaming onto it would
\* duplicate a heading").
NoDuplicateHeadings == \A c \in Cap : Cardinality(Heads(specs[c])) = Len(specs[c])

\* The delta blocks ask one thing of a heading they modify: no second text, no
\* new name and no removal.
AsksOneThing(blocks) ==
  \A b \in blocks, d \in blocks : b.verb = "modified" =>
    \A u \in ToSet(b.units), w \in ToSet(d.units) :
      /\ d.verb = "modified" => (w.head = u.head => w = u)
      /\ d.verb = "removed" => w.head # u.head
      /\ d.verb = "renamed" => w.old # u.head

Refolds(c, blocks) == \A once \in {ApplyDeltas(specs[c], blocks)} : ApplyDeltas(once, blocks) = once

\* A fold applied to its own result changes nothing, from any living spec and
\* for any routing, when the deltas ask one thing of each heading they modify.
RefoldIsNoOp ==
  \A c \in Cap : \A blocks \in {DeltasFor(c, c), DeltasFor(c, None)} \ {<<>>} :
    AsksOneThing(ToSet(blocks)) => Refolds(c, blocks)

\* "Re-applying a delta set to its own output is a no-op" (apply_deltas).
AnyRefoldIsNoOp ==
  \A c \in Cap : \A blocks \in {DeltasFor(c, c), DeltasFor(c, None)} \ {<<>>} : Refolds(c, blocks)

\* What the author asked of one capability is true of a spec.
Holds(spec, blocks) ==
  LET mapping  == The({RenameMap(blocks)})
      final(h) == ResolveRename(mapping, h)
      back     == {final(u.head) : u \in ToSet(Units("added", blocks) \o Units("modified", blocks))}
                    \cup Range(mapping)
  IN  /\ \A u \in ToSet(Units("added", blocks)) : final(u.head) \in Heads(spec)
      /\ \A u \in ToSet(Units("modified", blocks)) :
           \E r \in ToSet(spec) : r.head = final(u.head) /\ r.body = u.body
      /\ \A u \in ToSet(Units("removed", blocks)) : u.head \in Heads(spec) => final(u.head) \in back
      /\ \A h \in DOMAIN mapping : h \in Heads(spec) => final(h) \in Heads(spec)

\* Whatever the order of the verbs and whatever else they do, when the deltas
\* ask one thing of each heading they modify: after a fold every addition is
\* there, every modification is there with its text, nothing removed is left
\* and every rename went to the end of its chain.
DeltasLand ==
  \A c \in Cap : \A blocks \in {DeltasFor(c, c), DeltasFor(c, None)} \ {<<>>} :
    AsksOneThing(ToSet(blocks)) => Holds(ApplyDeltas(specs[c], blocks), blocks)

\* A requirement modified where no heading matches "still lands instead of being
\* silently dropped" (apply_deltas): a fold leaves the one text the deltas give
\* a heading under its final name.
ModificationsLand ==
  \A c \in Cap : \A blocks \in {DeltasFor(c, c), DeltasFor(c, None)} \ {<<>>} :
    \A u \in ToSet(Units("modified", blocks)) :
      (\A w \in ToSet(Units("modified", blocks) \o Units("added", blocks)) :
         w # u => ResolveRename(RenameMap(blocks), w.head) # ResolveRename(RenameMap(blocks), u.head))
        => \E r \in ToSet(ApplyDeltas(specs[c], blocks)) :
             r.head = ResolveRename(RenameMap(blocks), u.head) /\ r.body = u.body

\* The blocks that may go into a capability's living spec.
MayFold(c) == {b \in ToSet(doc) : b.cap \in {c, None}}

\* What is left of a requirement after a fold, under its old or its new heading.
Successors(r, spec, mapping) == {s \in ToSet(spec) : s.head \in {r.head, ResolveRename(mapping, r.head)}}

\* When the deltas ask one thing of each heading they modify, a requirement whose
\* touches marker stands under its heading is still read for every file it was
\* read for before the fold, by the resolver and by the next fold, and any keeps
\* its aligns edges, under its old or its new heading (_keep_marker).  One without
\* a marker is read for every file, and narrows to the marker a delta brings.
MarkersOnlyWiden ==
  [][\A c \in Cap : specs'[c] # specs[c] /\ AsksOneThing(MayFold(c)) =>
       \E default \in {MostSpecific(Change), MostSpecific({})} :
       \E mapping \in {RenameMap(DeltasFor(c, default))} : \A r \in ToSet(specs[c]) :
         Successors(r, specs'[c], mapping) # {} =>
           \E s \in Successors(r, specs'[c], mapping) :
             TouchesGlobs(r) \subseteq TouchesGlobs(s) /\ r.aligns \subseteq s.aligns]_vars

\* "Carry a requirement's file marker across a fold, widened, never narrowed"
\* (_keep_marker), wherever the resolver reads the marker: the requirement is
\* still read for the files the marker names.
EveryMarkerKept ==
  [][\A c \in Cap : specs'[c] # specs[c] /\ AsksOneThing(MayFold(c)) =>
       \E default \in {MostSpecific(Change), MostSpecific({})} :
       \E mapping \in {RenameMap(DeltasFor(c, default))} : \A r \in ToSet(specs[c]) :
         Successors(r, specs'[c], mapping) # {} =>
           \E s \in Successors(r, specs'[c], mapping) :
             \A f \in r.touches : s \in RequirementsForChange(specs'[c], {f})]_vars

\* A capability's spec takes texts only from blocks marked for it, and from
\* unmarked ones only when it is the most specific for the change (_deltas_for,
\* "keeps two blocks marked for different capabilities from bleeding"), and only
\* one whose entry declares its retirement is left without requirements (_would_empty).
NothingBleeds ==
  [][\A c \in Cap : specs'[c] # specs[c] =>
       /\ \A r \in ToSet(specs'[c]) :
            \/ \E s \in ToSet(specs[c]) : s.body = r.body
            \/ \E b \in ToSet(doc) :
                 /\ b.cap = c \/ (b.cap = None /\ c = MostSpecific(Change))
                 /\ \E u \in ToSet(b.units) : b.verb \in {"added", "modified"} /\ u.body = r.body
       /\ specs'[c] = <<>> => c \in retiring]_vars

\* A block marked for a capability lands once the author is done with it and
\* the capability is registered, even after the fold named it and was called
\* again, unless it is refused, would empty the spec or asks two things of a
\* heading it modifies.
MarkedBlocksLand ==
  \A c \in Cap :
    (drafts = MaxDrafts /\ c \in Marked \cap registered)
      ~> LET default == MostSpecific(Change)
             blocks  == DeltasFor(c, default)
         IN  \/ Holds(specs[c], blocks)
             \/ Refused(c, default) \/ ~AsksOneThing(ToSet(blocks))
             \/ ApplyDeltas(specs[c], blocks) = <<>>
=============================================================================
