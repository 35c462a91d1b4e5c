---------------------------- MODULE MCCaptureCalls ----------------------------
(* The calls of CaptureCalls for TLC. *)
EXTENDS CaptureCalls

CONSTANTS main, worker

Item(key, value) == [key |-> key, value |-> value]
One(key, value) == <<<<Item(key, value)>>>>
Nothing == <<<<>>>>

\* Several flags and a batch in one call, reworded and repeated identities,
\* slots of one requirement from two sides, every way to decline or refuse,
\* and a plan close with its check.
SomeCalls ==
  { [decisions |-> <<<<Item("d", "x"), Item("d", "y")>>>>, coverage |-> One(<<"R", "tests">>, "t")],
    [batch |-> [decisions |-> One("d", "z"), verified |-> One("w", "said"),
                coverage |-> <<<<Item(<<"R", "tasks">>, "T1"), Item(<<"R", "title">>, "r")>>, <<>>>>,
                last_action |-> One("last_action", "a"), set |-> One("size", "s")],
     verify_runs |-> One("w", None)],
    [set |-> <<<<Item("status", "completed"), Item("size", "m")>>>>, concerns |-> Nothing],
    [coverage |-> Nothing, classification |-> One("classification", "normal")],
    [batch |-> [step_summary |-> Nothing]],
    [batch |-> [set |-> One("history", "h")], context |-> One("c", "c")],
    [classification |-> Malformed],
    [living_specs |-> <<<<Item("checkout", "c"), Item("payment", "p")>>>>,
     living_spec_skips |-> One("checkout", "why")],
    [living_spec_skips |-> Nothing],
    [finish |-> One("plan", "at"), plan_check |-> [held |-> "calls", picked |-> FALSE],
     set |-> One("status", "planned")],
    [finish |-> One("plan", "at"), plan_check |-> [held |-> None, picked |-> TRUE]],
    <<>> }

\* The agent of the run, and a worker beside it that repeats a check, sets a
\* field or journals a task.
CallsOf ==
  main :> SomeCalls @@
  worker :> {[verify_runs |-> One("w", None)], [set |-> One("size", "l")], <<>>}

CallCounts == main :> 2 @@ worker :> 1
EarlierLine == <<[call |-> <<main, 0>>, ok |-> TRUE]>>
=============================================================================
