------------------------------ MODULE SpecRecord ------------------------------
(***************************************************************************)
(* The lifecycle of one feature's .spec-context.json: the calls of         *)
(* write-context.py and derive-from-files.py that hooks, the assistant and *)
(* its workers make, in any order, late or twice, on the record, tasks.md  *)
(* and the append log .spec-context.events.jsonl.  ContextLock shows that  *)
(* each call of write-context.py is one turn on the record, so it is one   *)
(* action here; a call that publishes twice may crash between.             *)
(* derive-from-files.py takes no lock: it is one action per read and       *)
(* publish, and overlapped says that a turn came in between.               *)
(***************************************************************************)
EXTENDS Naturals, Sequences, FiniteSets, SequencesExt, Replays

CONSTANTS
  Steps,       \* the steps hooks fire for
  Substeps,    \* substeps the assistant closes by --finish
  Tasks,       \* task ids
  None,        \* an absent field
  Calls,       \* the kinds of call made: "start", "complete", "finish", "advance", "derive"
  MaxEntries   \* bound: step calls are made while the history is shorter

\* STEP_ORDER; any other step is one the project added.
StepOrder == [specify |-> 0, clarify |-> 1, plan |-> 2, tasks |-> 3, analyze |-> 4,
              implement |-> 5, converge |-> 6]
StatusOrder == <<"specifying", "specified", "planning", "planned", "tasking",
                 "ready-to-implement", "implementing", "implemented", "completed", "archived">>
StepCompletedStatus == [specify |-> "specified", plan |-> "planned",
                        tasks |-> "ready-to-implement", implement |-> "implemented"]
\* The --status the before hooks name.
StepStartedStatus == [specify |-> "specifying", plan |-> "planning",
                      tasks |-> "tasking", implement |-> "implementing"]

StatusIn(map, step) == IF step \in DOMAIN map THEN map[step] ELSE None

\* A task id, a step or a status is a value.
ASSUME NoneAssumption == None \notin Tasks \cup Steps \cup ToSet(StatusOrder)
\* A substep is a part of a step (research, design, fast-path), never a task.
ASSUME SubstepsAssumption == Substeps \cap Tasks = {}

TerminalStatuses == {"implemented", "completed", "archived"}
Shipped == {"completed", "archived"}          \* CROSS_STEP_TERMINAL

VARIABLES
  ctx,       \* the record: [status, step, task, history, summaries]
  tasks,     \* tasks.md: a sequence of [id, checked]
  events,    \* the append log: {} when there is no file, else {sequence of task ids}
  finished,  \* every task whose finish a call accepted
  derive,    \* {} or the derive-from-files.py that runs: the record it will publish, the
             \* length of the history it read, what it does next.  Bound: one at a time
  overlapped \* a call has had its turn while a derive ran

vars == <<ctx, tasks, events, finished, derive, overlapped>>

\* A turn on the record, whether a derive runs or not.
Turn == derive' = derive /\ overlapped' = (overlapped \/ derive # {})

\* Nothing that concerns the record.
Aside == UNCHANGED <<derive, overlapped>>

\* What can be in the history, in the record, in tasks.md.
AllSteps == Steps \cup {"tasks", "implement"}
Entries == [step : AllSteps, sub : Substeps \cup Tasks \cup {None}, kind : {"start", "complete"}]
Records == [status : ToSet(StatusOrder) \cup {None}, step : AllSteps \cup {None},
            task : Tasks \cup {None}, history : Seq(Entries), summaries : SUBSET Tasks]
Documents == Seq([id : Tasks, checked : BOOLEAN])

Entry(step, sub, kind) == [step |-> step, sub |-> sub, kind |-> kind]

Blank == [status |-> None, step |-> None, task |-> None, history |-> <<>>,
          summaries |-> {}]

Init ==
  /\ ctx = Blank /\ tasks = <<>> /\ events = {} /\ finished = {}
  /\ derive = {} /\ overlapped = FALSE

-----------------------------------------------------------------------------
(* Helpers over a record c and a tasks.md md *)

Lines == IF events = {} THEN <<>> ELSE The(events)

Has(c, entry) == entry \in ToSet(c.history)

\* Mutant of AppendOnce: the history is not looked at.
AppendAlways(c, entry) == [c EXCEPT !.history = Append(@, entry)]

\* append_complete, and the guarded start of update_context.
AppendOnce(c, entry) ==
  [c EXCEPT !.history = IF entry \in ToSet(@) THEN @ ELSE Append(@, entry)]

IsMoreAdvanced(c, step) ==
  IF step \notin DOMAIN StepOrder \/ step = "converge" THEN c.status \in Shipped
  ELSE \/ c.status \in TerminalStatuses
       \/ LET cur == IF c.step = "converge" THEN "implement" ELSE c.step
          IN  cur \in DOMAIN StepOrder /\ StepOrder[cur] > StepOrder[step]

AllIds(md) == {line.id : line \in ToSet(md)}
DoneIds(md) == {md[i].id : i \in {j \in DOMAIN md : md[j].checked}}
TasksAt100(md) == md # <<>> /\ \A i \in DOMAIN md : md[i].checked
NoDuplicates(md) == Cardinality(AllIds(md)) = Len(md)

JournaledTasks(c) == {e.sub : e \in ToSet(c.history)} \cap Tasks

MarkTasksDone(md, ids) ==
  [i \in DOMAIN md |-> IF md[i].id \in ids THEN [md[i] EXCEPT !.checked = TRUE] ELSE md[i]]

\* _fold_task_finish, with the status verdict of the markers it was given.
FoldTaskFinish(c, t, md) ==
  AppendOnce([c EXCEPT !.step = "implement", !.task = t,
                       !.status = IF @ \in TerminalStatuses THEN @
                                  ELSE IF TasksAt100(md) THEN "implemented" ELSE "implementing",
                       !.summaries = @ \cup {t}],
             Entry("implement", t, "complete"))

MaybeCloseImplement(c, md) ==
  IF /\ TasksAt100(md) /\ NoDuplicates(md) /\ AllIds(md) \subseteq JournaledTasks(c)
     /\ ~Has(c, Entry("implement", None, "complete"))
  THEN [AppendOnce(c, Entry("implement", None, "complete"))
          EXCEPT !.status = IF @ \in Shipped THEN @ ELSE "implemented"]
  ELSE c

\* journal_task_finish: the box first, one parse after it for fold and close.
LiveFinish(c, md, t) ==
  LET ticked == MarkTasksDone(md, {t})
  IN  [ctx |-> MaybeCloseImplement(FoldTaskFinish(c, t, ticked), ticked), tasks |-> ticked]

\* The finishes of the append log, in order.
FoldLines(c, md, lines) == Replay(LAMBDA r, t : FoldTaskFinish(r, t, md), c, lines)

\* Mutant of Materialized: the close is decided on the boxes before the ticks.
MaterializedEarly(c, md, lines) ==
  LET folded == FoldLines(c, md, lines)
  IN  [ctx |-> MaybeCloseImplement(folded, md), tasks |-> MarkTasksDone(md, JournaledTasks(folded))]

\* materialize_log: every line folded with the markers read before the boxes
\* are ticked, the close decided on those read after.
Materialized(c, md, lines) ==
  LET folded == FoldLines(c, md, lines)
      ticked == MarkTasksDone(md, JournaledTasks(folded))
  IN  [ctx |-> MaybeCloseImplement(folded, ticked), tasks |-> ticked]

\* No log, or a shipped spec: nothing to fold.
Materialize(c, md) ==
  IF events = {} \/ c.status \in Shipped THEN [ctx |-> c, tasks |-> md]
  ELSE Materialized(c, md, Lines)

-----------------------------------------------------------------------------
(* The calls *)

\* Mutant of UpdateContext: a start that comes late opens its step again.
UpdateContextLate(step, status, kind) ==
  /\ ~IsMoreAdvanced(ctx, step)
  /\ LET moved == [ctx EXCEPT !.step = step, !.status = IF status = None THEN @ ELSE status]
     IN  ctx' = AppendOnce(moved, Entry(step, None, kind))
  /\ UNCHANGED <<tasks, events, finished>>

\* --step <s> [--status] --kind start|complete.
UpdateContext(step, status, kind) ==
  /\ ~IsMoreAdvanced(ctx, step)
  /\ LET lateStart == kind = "start" /\ Has(ctx, Entry(step, None, "complete"))
         moved     == IF lateStart THEN ctx
                      ELSE [ctx EXCEPT !.step = step,
                                       !.status = IF status = None THEN @ ELSE status]
     IN  ctx' = AppendOnce(moved, Entry(step, None, kind))
  /\ UNCHANGED <<tasks, events, finished>>

\* The before hook and the body's own start, which names no status.
StartStep(step) ==
  \E status \in {None, StatusIn(StepStartedStatus, step)} : UpdateContext(step, status, "start")

\* The after hook.
CompleteStep(step) == UpdateContext(step, StatusIn(StepCompletedStatus, step), "complete")

JournalFinish(step, sub) ==
  /\ ctx.status \notin Shipped
  /\ ctx' = AppendOnce(ctx, Entry(step, sub, "complete"))
  /\ UNCHANGED <<tasks, events, finished>>

JournalAdvance(step) ==
  /\ ctx.status \notin Shipped
  /\ LET closed == AppendOnce(ctx, Entry(step, None, "complete"))
     IN  ctx' = IF step \notin DOMAIN StepCompletedStatus \/ IsMoreAdvanced(closed, step)
                THEN closed
                ELSE [closed EXCEPT !.status = StepCompletedStatus[step], !.step = step]
  /\ UNCHANGED <<tasks, events, finished>>

\* --task <t> --append: one line, whatever the record says unless shipped.
AppendTaskLog(t) ==
  /\ ctx.status \notin Shipped
  /\ t \notin ToSet(Lines)                                   \* bound: one line a task
  /\ events' = {Append(Lines, t)}
  /\ finished' = finished \cup {t}
  /\ UNCHANGED <<ctx, tasks>>

MaterializeLog ==
  /\ events # {} /\ ctx.status \notin Shipped
  /\ LET m == Materialize(ctx, tasks) IN ctx' = m.ctx /\ tasks' = m.tasks
  /\ UNCHANGED <<events, finished>>

\* --close-task: the append and the fold in one call.
CloseTask(t) ==
  /\ ctx.status \notin Shipped
  /\ t \notin ToSet(Lines)
  /\ LET m == Materialized(ctx, tasks, Append(Lines, t)) IN ctx' = m.ctx /\ tasks' = m.tasks
  /\ events' = {Append(Lines, t)}
  /\ finished' = finished \cup {t}

JournalTaskFinish(t) ==
  /\ ctx.status \notin Shipped
  /\ LET l == LiveFinish(ctx, tasks, t) IN ctx' = l.ctx /\ tasks' = l.tasks
  /\ finished' = finished \cup {t}
  /\ UNCHANGED events

\* The next open task, else the one finished last by the journal.
CurrentTask(c, md) ==
  LET open == {i \in DOMAIN md : md[i].id \notin DoneIds(md)}
      past == {i \in DOMAIN c.history : c.history[i].sub \in DoneIds(md) /\ c.history[i].kind = "complete"}
  IN  IF open # {} THEN md[Min(open)].id
      ELSE IF past # {} THEN c.history[Max(past)].sub ELSE Last(md).id

\* One finish for every checked task without one, in the order of tasks.md.
JournalFresh(c, md) ==
  Replay(LAMBDA r, line : IF line.id \in DoneIds(md) /\ line.id \notin JournaledTasks(c)
                            THEN AppendOnce(r, Entry("implement", line.id, "complete")) ELSE r,
           c, md)

\* --tasks-file: the after_implement backstop.  With no task in tasks.md it only
\* folds the log, as MaterializeLog does.
SyncTasks ==
  /\ ctx.status \notin Shipped /\ tasks # <<>>
  /\ \E m \in {Materialize(ctx, tasks)} : \E synced \in {JournalFresh(m.ctx, m.tasks)} :
       /\ ctx' = [(IF TasksAt100(m.tasks)
                   THEN AppendOnce(synced, Entry("implement", None, "complete")) ELSE synced)
                    EXCEPT !.step = "implement", !.task = CurrentTask(m.ctx, m.tasks),
                           !.status = IF TasksAt100(m.tasks) THEN "implemented" ELSE "implementing"]
       /\ tasks' = m.tasks
  /\ UNCHANGED <<events, finished>>

\* Mutant of CanMark: completion demands a finish of every task.
CanMarkJournaled == ctx.status = "implemented" /\ AllIds(tasks) \subseteq JournaledTasks(ctx)

CanMark == ctx.status = "implemented" \/ (ctx.status = "implementing" /\ TasksAt100(tasks))

\* Mutant of MarkComplete: the log is removed unread.
MarkCompleteUnread ==
  /\ CanMark
  /\ ctx' = [ctx EXCEPT !.status = "completed", !.task = None, !.step = IF @ = None THEN "implement" ELSE @]
  /\ events' = {}
  /\ UNCHANGED <<tasks, finished>>

\* The log goes last, so a crash after the publish leaves it behind.
MarkComplete ==
  /\ CanMark
  /\ \E m \in {Materialize(ctx, tasks)} :
       LET closed == IF ctx.status = "implementing"
                     THEN AppendOnce(m.ctx, Entry("implement", None, "complete")) ELSE m.ctx
       IN  /\ ctx' = [closed EXCEPT !.status = "completed", !.task = None,
                                    !.step = IF @ = None THEN "implement" ELSE @]
           /\ tasks' = m.tasks
  /\ events' \in {{}, events}
  /\ UNCHANGED finished

-----------------------------------------------------------------------------
(* derive-from-files.py, once tasks.md is there; without one it can only    *)
(* say what the hooks say.                                                  *)

DeriveRead ==
  /\ derive = {} /\ tasks # <<>>
  /\ derive' = {[next |-> "infer", was |-> Len(ctx.history), to |-> ctx]}

\* tasks.md tells the step; a record that is further already ends the call.
DeriveInfer(d) ==
  LET done == AllIds(tasks) \subseteq DoneIds(tasks)
      step == IF done THEN "implement" ELSE "tasks"
      at   == [d.to EXCEPT !.step = step,
                           !.status = IF done THEN "implemented" ELSE "ready-to-implement"]
  IN  /\ d.next = "infer"
      /\ derive' = IF IsMoreAdvanced(d.to, step) THEN {}
                   ELSE {[d EXCEPT !.next = IF done THEN "journal" ELSE "publish",
                                   !.to = AppendOnce(at, Entry(step, None, "start"))]}

\* One finish for every task that is checked by now, and the close.
DeriveJournal(d) ==
  LET fresh == JournalFresh(d.to, tasks)
      named == [fresh EXCEPT !.task = CurrentTask(fresh, tasks)]
  IN  /\ d.next = "journal"
      /\ derive' = {[d EXCEPT !.next = "publish",
                              !.to = IF AllIds(tasks) \subseteq DoneIds(tasks)
                                     THEN AppendOnce(named, Entry("implement", None, "complete"))
                                     ELSE named]}

\* A history shorter than the one on disk is put behind it, what it read left out.
Spliced(d) ==
  IF Len(d.to.history) >= Len(ctx.history) THEN d.to
  ELSE [d.to EXCEPT !.history = ctx.history \o SubSeq(@, d.was + 1, Len(@))]

DerivePublish(d) ==
  /\ d.next = "publish"
  /\ ctx' = Spliced(d)
  /\ derive' = {}

-----------------------------------------------------------------------------
(* What the steps themselves do to tasks.md *)

\* The tasks step writes the list; converge appends to it.
WriteTask(t) ==
  /\ t \notin AllIds(tasks)
  /\ ctx.status \notin Shipped
  /\ tasks' = Append(tasks, [id |-> t, checked |-> FALSE])
  /\ UNCHANGED <<ctx, events, finished>>

\* The stock implement body ticks the boxes itself.
Tick(i) ==
  /\ i \in DOMAIN tasks /\ ~tasks[i].checked
  /\ tasks' = [tasks EXCEPT ![i].checked = TRUE]
  /\ UNCHANGED <<ctx, events, finished>>

StepCall ==
  \/ "start" \in Calls /\ \E s \in Steps : StartStep(s)
  \/ "complete" \in Calls /\ \E s \in Steps : CompleteStep(s)
  \/ "finish" \in Calls /\ \E s \in Steps, sub \in Substeps : JournalFinish(s, sub)
  \/ "advance" \in Calls /\ \E s \in Steps : JournalAdvance(s)

Call ==
  \/ Len(ctx.history) < MaxEntries /\ StepCall
  \/ \E t \in Tasks : CloseTask(t) \/ JournalTaskFinish(t)
  \/ MaterializeLog \/ SyncTasks \/ MarkComplete

Edit ==
  \/ \E t \in Tasks : AppendTaskLog(t) \/ WriteTask(t)
  \/ \E i \in DOMAIN tasks : Tick(i)

Derive ==
  \/ /\ \/ "derive" \in Calls /\ Len(ctx.history) < MaxEntries /\ DeriveRead
        \/ \E d \in derive : DeriveInfer(d) \/ DeriveJournal(d)
     /\ UNCHANGED <<ctx, tasks, events, finished, overlapped>>
  \/ /\ \E d \in derive : DerivePublish(d)
     /\ UNCHANGED <<tasks, events, finished, overlapped>>

Next == (Call /\ Turn) \/ (Edit /\ Aside) \/ Derive

Spec == Init /\ [][Next]_vars

\* When every task is checked, implement ends, so its after hook runs, and the
\* mark-complete command follows it.
AfterImplement == TasksAt100(tasks) /\ ctx.status # "implemented" /\ SyncTasks /\ Turn
Ship == TasksAt100(tasks) /\ ctx.status = "implemented" /\ MarkComplete /\ Turn

FairSpec == Spec /\ WF_vars(AfterImplement) /\ WF_vars(Ship)

-----------------------------------------------------------------------------
(* Properties *)

\* However hooks, bodies, workers and the backstop overlap, each boundary is
\* in the history once (append_complete, _has_step_start), and folding the whole
\* log again, per batch and at the close, changes neither the history nor the
\* summaries nor the boxes (materialize_log): as long as no call has had its turn
\* while a derive ran.
RepeatsAddNothing ==
  ~overlapped =>
    LET once  == Materialize(ctx, tasks)
        twice == Materialize(once.ctx, once.tasks)
    IN  /\ IsInjective(ctx.history)
        /\ twice.tasks = once.tasks
        /\ twice.ctx.history = once.ctx.history /\ twice.ctx.summaries = once.ctx.summaries

\* A finish a call accepted is in the record or still in the append log, with
\* its summary: no fold, sync, completion or crash drops it (mark_spec_complete
\* folds stragglers before it removes the log), nor does a derive that no call
\* overlapped.
NoFinishIsLost ==
  ~overlapped =>
    finished \subseteq (JournaledTasks(ctx) \cap ctx.summaries) \cup ToSet(Lines)

\* With nothing else pending, a worker's append of t folded later writes the
\* history and the summaries the live call would have written.
FoldsAsLive(t) ==
  ToSet(Lines) \subseteq JournaledTasks(ctx) \cap ctx.summaries =>
    \A batch \in {Materialized(ctx, tasks, Append(Lines, t))}, live \in {LiveFinish(ctx, tasks, t)} :
      batch.ctx.history = live.ctx.history /\ batch.ctx.summaries = live.ctx.summaries

\* It does for any id, in tasks.md or not, where every finished task of tasks.md
\* has its box checked (materialize_log).
FoldEqualsLive ==
  JournaledTasks(ctx) \cap AllIds(tasks) \subseteq DoneIds(tasks) => \A t \in Tasks : FoldsAsLive(t)

\* The claim of materialize_log as it stands (task_sync.py:318), which is false:
\* a task may be finished first and written to tasks.md, unchecked, later.
FoldIsTheLiveCall == \A t \in Tasks : FoldsAsLive(t)

Rank(status) == IF status = None THEN 0 ELSE CHOOSE i \in DOMAIN StatusOrder : StatusOrder[i] = status

\* A hook that fires late or twice never drags back a status whose step is
\* closed in the history; only the task sync takes "implemented" back, and only
\* while tasks.md has open work (_is_more_advanced, update_context's late start).
\* Nothing at all happens to a shipped spec's record or to its append log, except
\* that the log goes (CROSS_STEP_TERMINAL).  All of it as long as no call has had
\* its turn while a derive ran.
StatusMovesForward ==
  [][ ~overlapped =>
        /\ \/ Rank(ctx'.status) >= Rank(ctx.status)
           \/ ctx.status = "implemented" /\ ctx'.status = "implementing" /\ ~TasksAt100(tasks')
           \/ ctx'.step = ctx.step /\ ~Has(ctx, Entry(ctx.step, None, "complete"))
        /\ ctx.status \in Shipped => ctx' = ctx /\ events' \subseteq events ]_vars

\* The claim of derive-from-files.py (line 11), which is false: what it publishes
\* is never behind the record it replaces.
DeriveNeverDragsBack ==
  [][\A d \in derive : DerivePublish(d) => Rank(ctx'.status) >= Rank(ctx.status)]_vars

\* A spec whose every task is checked does not get stuck, also when a derive
\* publishes over it: it is shipped, unless new tasks are written.
DoneSpecsShip == TasksAt100(tasks) ~> (ctx.status = "completed" \/ ~TasksAt100(tasks))
=============================================================================
