---------------------------- MODULE CaptureCalls ----------------------------
(***************************************************************************)
(* Calls of write-context.py: the capture flags of one call and the order  *)
(* in which their writers publish into .spec-context.json (capture.py),    *)
(* the lifecycle flag and the plan check that may ride along, the outcome  *)
(* the call records, and the line it leaves in the run trace               *)
(* (run_trace.py), whose exactness the doctor reports.                     *)
(*                                                                         *)
(* A list or map of the record is a sequence of [key, value] entries, the  *)
(* key being what the writer de-duplicates or merges on.  A call is a      *)
(* record from its flags to the publishes each asks for, a publish being   *)
(* the entries it carries; one with no entries is an argument the writer   *)
(* declines (blank text, a coverage without slots, a step that is none, a  *)
(* skip without a reason).  --fold-living-spec is LivingSpecFold.          *)
(***************************************************************************)
EXTENDS Naturals, Sequences, FiniteSets, SequencesExt, Replays

CONSTANTS
  Callers,     \* the processes that run write-context.py, one call at a time
  Calls,       \* the calls each may make; the one without flags only traces
  Results,     \* what a verification command may come out as
  Malformed,   \* a --batch or --classification that does not parse
  CapLines,    \* the lines the trace may hold before it is cut to half of them
  Earlier,     \* the lines of the calls before these, the trace it starts with
  MaxCalls,    \* bound: how many calls each makes
  MaxMishaps,  \* bound: kills and failed writes of a behaviour
  None         \* nobody, nothing

\* A line of the trace: whose how-manieth call it was, and its outcome.
Lines == [call : Callers \X Nat, ok : BOOLEAN]

ASSUME CapLinesAssumption == CapLines \in Nat
ASSUME EarlierAssumption == Earlier \in Seq(Lines)

VARIABLES
  ctx,      \* the fields of .spec-context.json
  turn,     \* who holds its write lock (ContextLock, where waiters are patient)
  job,      \* what each caller is doing
  trace,    \* .trace.jsonl: [inode, truncated, lines]
  lost,     \* .trace-lost
  returned, \* the calls that came to their end
  mishaps   \* kills and failed writes so far

vars == <<ctx, turn, job, trace, lost, returned, mishaps>>

Flags == <<"classification", "set", "batch", "decisions", "verified", "verify_runs", "concerns",
           "expectations", "context", "coverage", "step_summary", "living_specs", "living_spec_skips">>
BatchKeys == <<"decisions", "verified", "concerns", "expectations", "context", "coverage",
               "step_summary", "last_action", "set">>
LifecycleFlags == {"finish", "plan_check"}

\* A flag's publishes, each a sequence of entries, and what a call may ask for.
ArePublishes(s) == s \in Seq(ToSet(s)) /\ \A n \in DOMAIN s : s[n] \in Seq(ToSet(s[n]))
IsCall(call) ==
  /\ DOMAIN call \subseteq ToSet(Flags) \cup LifecycleFlags
  /\ \A f \in DOMAIN call \ {"classification", "batch", "plan_check"} : ArePublishes(call[f])
  /\ "classification" \in DOMAIN call /\ call.classification # Malformed => ArePublishes(call.classification)
  /\ "batch" \in DOMAIN call /\ call.batch # Malformed =>
       \A key \in DOMAIN call.batch : key \in ToSet(BatchKeys) /\ ArePublishes(call.batch[key])

ASSUME CallsAssumption == \A p \in Callers : \A call \in Calls[p] : IsCall(call)
ASSUME NoneAssumption == None \notin Callers

Appended == {"decisions", "verified", "concerns", "expectations", "context", "living_specs",
             "living_spec_skips", "finish"}
ProtectedSetKeys == {"history", "transitions", "status", "currentStep"}

\* The field of the record a flag writes.
Field(flag) ==
  CASE flag \in {"verify_runs", "plan_check"} -> "verified"
    [] flag = "finish" -> "history"
    [] flag = "living_specs" -> "loaded"
    [] flag = "living_spec_skips" -> "skipped"
    [] flag \in {"classification", "set", "last_action", "plan_blocks"} -> "top"
    [] flag \in {"decisions", "verified", "concerns", "expectations", "context", "coverage",
                 "step_summary"} -> flag

Fields == {"decisions", "verified", "concerns", "expectations", "context", "coverage",
           "step_summary", "loaded", "skipped", "history", "top"}

Idle == [at |-> "idle", call |-> <<>>, step |-> 1, made |-> 0, ok |-> FALSE,
         result |-> None, opened |-> None, read |-> None]

Init ==
  /\ ctx = [f \in Fields |-> <<>>]
  /\ turn = None
  /\ job = [p \in Callers |-> Idle]
  /\ trace = [inode |-> 0, truncated |-> 0, lines |-> Earlier]
  /\ lost = {} /\ returned = {} /\ mishaps = 0

-----------------------------------------------------------------------------
(* What a call writes *)

\* set_fields refuses the lifecycle keys and sets the others.
SetItems(items) == Only(items, {i \in ToSet(items) : i.key \notin ProtectedSetKeys})

\* The publishes of one flag.
Writes(flag, publishes, batched) ==
  [n \in DOMAIN publishes |->
     [flag |-> flag, batched |-> batched,
      items |-> IF flag = "set" THEN SetItems(publishes[n]) ELSE publishes[n]]]

Given(order, call) == Only(order, DOMAIN call)

BatchWrites(batch) ==
  LET keys == Given(BatchKeys, batch)
  IN  FlattenSeq([n \in DOMAIN keys |-> Writes(keys[n], batch[keys[n]], TRUE)])

\* record_plan_report: the check as a verification and the blocks the plan
\* holds; only the latter, if blocks were picked, when it holds none.
PlanCheckWrites(plan) ==
  LET write(flag, key) == [flag |-> flag, batched |-> FALSE, items |-> <<[key |-> key, value |-> plan.held]>>]
      blocks == write("plan_blocks", "planBlocks")
  IN  IF plan.held # None THEN <<write("plan_check", "plan blocks check out"), blocks>>
      ELSE IF plan.picked THEN <<blocks>> ELSE <<>>

CaptureWrites(call) ==
  LET flags == Given(Flags, call)
  IN  FlattenSeq([n \in DOMAIN flags |->
        IF flags[n] = "batch" THEN BatchWrites(call.batch) ELSE Writes(flags[n], call[flags[n]], FALSE)])

\* A lifecycle flag applies on its own or with --set; beside another capture
\* flag it is skipped with a warning.
AppliesLifecycle(call) == "finish" \in DOMAIN call /\ DOMAIN call \subseteq {"set"} \cup LifecycleFlags

LifecycleWrites(call) ==
  IF ~AppliesLifecycle(call) THEN <<>>
  ELSE Writes("finish", call.finish, FALSE)
         \o IF "plan_check" \in DOMAIN call THEN PlanCheckWrites(call.plan_check) ELSE <<>>

\* A verification carries what its command came out as.
Resolved(write, result) ==
  IF write.flag = "verify_runs"
  THEN [write EXCEPT !.items = [i \in DOMAIN @ |-> [@[i] EXCEPT !.value = result]]]
  ELSE write

\* The publishes of a call, in the order of _main.
Steps(call, result) ==
  LET asked == CaptureWrites(call) \o LifecycleWrites(call)
  IN  [n \in DOMAIN asked |-> Resolved(asked[n], result)]

HasKey(list, key) == \E i \in DOMAIN list : list[i].key = key

\* Mutant of AppendOnce: what is there already is not looked for.
AppendAgain(list, item) == Append(list, item)

\* append_capture_entries and append_string_list: the first of an identity stays.
AppendOnce(list, item) == IF HasKey(list, item.key) THEN list ELSE Append(list, item)

\* A merge into a map, and an entry that takes the place of an earlier one.
Upsert(list, item) ==
  IF HasKey(list, item.key)
  THEN [i \in DOMAIN list |-> IF list[i].key = item.key THEN item ELSE list[i]]
  ELSE Append(list, item)

Written(record, write) ==
  LET put(list, item) == IF write.flag \in Appended THEN AppendOnce(list, item) ELSE Upsert(list, item)
  IN  [record EXCEPT ![Field(write.flag)] = Replay(put, @, write.items)]

\* The writer returns before it reads the record.
Declines(write) == write.items = <<>> /\ write.flag # "set"

\* _parsed_batch and _parsed_classification, before anything is written.
Invalid(call) ==
  \/ "classification" \in DOMAIN call /\ call.classification = Malformed
  \/ /\ "batch" \in DOMAIN call
     /\ \/ call.batch = Malformed
        \/ /\ call.batch # Malformed /\ "set" \in DOMAIN call.batch
           /\ \E n \in DOMAIN call.batch.set : SetItems(call.batch.set[n]) # call.batch.set[n]

RefusesAKey(call) == "set" \in DOMAIN call /\ \E n \in DOMAIN call.set : SetItems(call.set[n]) # call.set[n]

\* A flag that was taken is counted as a write but for a coverage, a skip or a
\* batch of which nothing landed.
Captured(write) ==
  ~Declines(write) \/ (~write.batched /\ write.flag \notin {"coverage", "living_spec_skips"})

\* Mutant of Outcome: a call that wrote something is ok.
OutcomeOfAnyWrite(call, steps) == \E n \in DOMAIN steps : Captured(steps[n])

\* The outcome of a call none of whose writers raised: a lifecycle flag
\* reports for itself, a refused key or a declined coverage spoils the rest.
Outcome(call, steps) ==
  \/ AppliesLifecycle(call)
  \/ /\ ~RefusesAKey(call)
     /\ \A n \in DOMAIN steps :
          Declines(steps[n]) => steps[n].batched \/ steps[n].flag # "coverage"
     /\ \E n \in DOMAIN steps : Captured(steps[n])

-----------------------------------------------------------------------------
(* _main *)

Work(p) == Steps(job[p].call, job[p].result)
Running(p) == job[p].at = "write" /\ job[p].step <= Len(Work(p))
Now(p) == Work(p)[job[p].step]
Mishap == mishaps < MaxMishaps /\ mishaps' = mishaps + 1

Begin(p) ==
  /\ job[p].at = "idle" /\ job[p].made < MaxCalls[p]
  /\ \E call \in Calls[p] :
       job' = [job EXCEPT ![p] = [job[p] EXCEPT !.at = IF Invalid(call) THEN "trace" ELSE "write",
                                                !.call = call, !.step = 1, !.made = @ + 1,
                                                !.ok = FALSE, !.result = None]]
  /\ UNCHANGED <<ctx, turn, trace, lost, returned, mishaps>>

\* run_verification: the commands end before the record is read.
RunCommand(p) ==
  /\ Running(p) /\ Now(p).flag = "verify_runs" /\ ~Declines(Now(p)) /\ job[p].result = None
  /\ \E r \in Results : job' = [job EXCEPT ![p].result = r]
  /\ UNCHANGED <<ctx, turn, trace, lost, returned, mishaps>>

HasResult(p) == Now(p).flag = "verify_runs" => Declines(Now(p)) \/ job[p].result # None

\* One writer reads and publishes; the first to do so takes the turn, which
\* lasts until the process exits.
Publish(p) ==
  /\ Running(p) /\ HasResult(p)
  /\ \/ /\ Declines(Now(p))
        /\ UNCHANGED <<ctx, turn>>
     \/ /\ ~Declines(Now(p)) /\ turn \in {None, p}
        /\ turn' = p /\ ctx' = Written(ctx, Now(p))
  /\ job' = [job EXCEPT ![p].step = @ + 1]
  /\ UNCHANGED <<trace, lost, returned, mishaps>>

\* A publish raises: the writers after it do not run.  The plan check comes
\* after the outcome, which stands.
FailPublish(p) ==
  /\ Running(p) /\ HasResult(p) /\ ~Declines(Now(p)) /\ turn \in {None, p}
  /\ Mishap /\ turn' = p
  /\ job' = [job EXCEPT ![p] = [@ EXCEPT !.at = "trace",
                                         !.ok = Now(p).flag \in {"plan_check", "plan_blocks"}]]
  /\ UNCHANGED <<ctx, trace, lost, returned>>

EndWrites(p) ==
  /\ job[p].at = "write" /\ job[p].step > Len(Work(p))
  /\ job' = [job EXCEPT ![p] = [@ EXCEPT !.at = "trace",
                                         !.ok = job[p].call = <<>> \/ Outcome(job[p].call, Work(p))]]
  /\ UNCHANGED <<ctx, turn, trace, lost, returned, mishaps>>

-----------------------------------------------------------------------------
(* run_trace.record, and the exit *)

Line(p) == [call |-> <<p, job[p].made>>, ok |-> job[p].ok]

\* The process ends and lets go of the lock.
Exit(p) ==
  /\ turn' = IF turn = p THEN None ELSE turn
  /\ job' = [job EXCEPT ![p] = [Idle EXCEPT !.made = job[p].made]]

OpenTrace(p) ==
  /\ job[p].at = "trace"
  /\ job' = [job EXCEPT ![p] = [@ EXCEPT !.at = "append", !.opened = trace.inode]]
  /\ UNCHANGED <<ctx, turn, trace, lost, returned, mishaps>>

\* The line goes to the file that was opened, which another call may have
\* replaced by now.
AppendLine(p) ==
  /\ job[p].at = "append"
  /\ trace' = IF job[p].opened = trace.inode THEN [trace EXCEPT !.lines = Append(@, Line(p))] ELSE trace
  /\ job' = [job EXCEPT ![p].at = "cap"]
  /\ UNCHANGED <<ctx, turn, lost, returned, mishaps>>

\* _note_trace_failure beside the trace, or in the directory above it.
FailTrace(p) ==
  /\ job[p].at \in {"trace", "append"} /\ Mishap
  /\ lost' = lost \cup {Line(p)} /\ returned' = returned \cup {Line(p)}
  /\ Exit(p)
  /\ UNCHANGED <<ctx, trace>>

\* _enforce_cap looks at the size and reads the lines ...
CheckCap(p) ==
  /\ job[p].at = "cap"
  /\ \/ /\ Len(trace.lines) <= CapLines
        /\ Exit(p) /\ returned' = returned \cup {Line(p)}
     \/ /\ Len(trace.lines) > CapLines
        /\ job' = [job EXCEPT ![p] = [@ EXCEPT !.at = "replace", !.read = trace]]
        /\ UNCHANGED <<turn, returned>>
  /\ UNCHANGED <<ctx, trace, lost, mishaps>>

\* Mutant of Halved: the marker line keeps the count it had.
HalvedUncounted(file) ==
  [inode |-> file.inode, truncated |-> file.truncated,
   lines |-> SubSeq(file.lines, Len(file.lines) - CapLines \div 2 + 1, Len(file.lines))]

\* The newest half under a marker line that counts all that ever went.
Halved(file) ==
  [inode |-> file.inode, truncated |-> file.truncated + Len(file.lines) - CapLines \div 2,
   lines |-> SubSeq(file.lines, Len(file.lines) - CapLines \div 2 + 1, Len(file.lines))]

\* ... and puts a new file in its place, or fails to and says nothing.
ReplaceTrace(p) ==
  /\ job[p].at = "replace"
  /\ \/ trace' = [Halved(job[p].read) EXCEPT !.inode = trace.inode + 1] /\ UNCHANGED mishaps
     \/ trace' = trace /\ Mishap
  /\ Exit(p) /\ returned' = returned \cup {Line(p)}
  /\ UNCHANGED <<ctx, lost>>

Kill(p) ==
  /\ job[p].at # "idle" /\ Mishap
  /\ Exit(p)
  /\ UNCHANGED <<ctx, trace, lost, returned>>

Next ==
  \E p \in Callers :
    \/ Begin(p) \/ RunCommand(p) \/ Publish(p) \/ FailPublish(p) \/ EndWrites(p)
    \/ OpenTrace(p) \/ AppendLine(p) \/ FailTrace(p) \/ CheckCap(p) \/ ReplaceTrace(p)
    \/ Kill(p)

Spec == Init /\ [][Next]_vars

-----------------------------------------------------------------------------
(* Properties *)

Applied(record, steps) == Replay(Written, record, steps)

\* A call that ended after some of its publishes, killed or failed, is made
\* good by making it again: whatever it wrote before, the record is then what
\* one undisturbed call leaves (the writers are "additive" and "de-duped, so a
\* re-run never doubles up").
RepeatCompletes ==
  \A call \in {c \in UNION {Calls[p] : p \in Callers} : ~Invalid(c)} : \A r \in Results :
    \A steps \in {Steps(call, r)} : \A k \in 0 .. Len(steps) :
      Applied(Applied(ctx, SubSeq(steps, 1, k)), steps) = Applied(ctx, steps)

\* The values a call puts at a key of a field.
Asked(steps, field, key) ==
  UNION {{item.value : item \in {i \in ToSet(steps[n].items) : i.key = key}} :
           n \in {m \in DOMAIN steps : Field(steps[m].flag) = field}}

\* What a write carries is in the record: an identity under any wording, a
\* slot or a field as this call wants it.
IsIn(write, steps) ==
  \A i \in DOMAIN write.items :
    LET item == write.items[i]
        list == ctx[Field(write.flag)]
    IN  \E e \in ToSet(list) :
          /\ e.key = item.key
          /\ write.flag \notin Appended => e.value \in Asked(steps, Field(write.flag), item.key)

\* A call that recorded ok left in the record everything its writers were given
\* and did not decline, the results of its own commands included, no --coverage-req
\* was declined, and a capture call had no key refused ("`ok` means everything
\* asked for landed").  Not covered, because the code does not report them: a
\* blank text, a part of a batch that is declined, a key refused beside a
\* lifecycle flag, a plan check that failed.
OkMeansLanded ==
  \A p \in Callers : turn = p /\ job[p].at \notin {"idle", "write"} /\ job[p].ok =>
    LET call  == job[p].call
        steps == Work(p)
    IN  /\ \A n \in DOMAIN steps :
             steps[n].flag \notin {"plan_check", "plan_blocks"} => IsIn(steps[n], steps)
        /\ ~AppliesLifecycle(call) => ~RefusesAKey(call)
        /\ "coverage" \in DOMAIN call => <<>> \notin ToSet(call.coverage)

\* The trace calls itself exact, with no line rolled off and no loss noted,
\* only when it has the outcome of every call that came to its end, whoever
\* appended while another cut the file (Read.exact, _lost_entries).
ExactIsComplete ==
  trace.truncated = 0 /\ lost = {} => returned \subseteq ToSet(trace.lines)
=============================================================================
