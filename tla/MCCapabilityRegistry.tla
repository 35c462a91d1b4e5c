------------------------- MODULE MCCapabilityRegistry -------------------------
(* Projects of CapabilityRegistry for TLC. *)
EXTENDS CapabilityRegistry

HomeOf == [n \in Names |-> IF n = "billing" THEN "own" ELSE "shared"]

Cap(n, spec, retire) == [name |-> n, match |-> "globs", spec |-> spec, retire |-> retire]
Config(caps) == {[enabled |-> TRUE, caps |-> caps]}
Project0(reg, old) == [registry |-> reg, legacy |-> old]

\* Nothing yet; the old config with a spec of the old name and its tiers; a registry
\* with a spec of either kind, one of them with leave to be emptied; and one that
\* spells out the old default and an empty path.
NewProject == Project0({}, {})
OldProject == Project0({}, Config(<<Cap("billing", None, FALSE)>>))
Mixed == Project0(Config(<<Cap("billing", InArea("billing"), FALSE), Cap("store", None, TRUE)>>), {})
Spelled == Project0(Config(<<Cap("billing", OldCentral("billing"), FALSE), Cap("store", Empty, FALSE)>>), {})

SomeOrigins == {NewProject, OldProject, Mixed, Spelled}

SomeDisks ==
  [o \in SomeOrigins |->
     CASE o = NewProject -> {{}}
       [] o = OldProject -> {{File(OldCentral("billing"), t) : t \in {"spec", "rules"}}}
       [] o = Mixed -> {{File(InArea("billing"), "spec"), File(InArea("billing"), "rules"),
                         File(Central("store"), "spec")}}
       [] o = Spelled -> {{}, {File(OldCentral("billing"), "spec")}}]

\* Rollbacks lose files of billing only; two capabilities astray make the states many
\* and are no other question.
OnlyBillingAstray == astray \subseteq {"billing"}
=============================================================================
