--------------------------- MODULE MCLivingSpecFold ---------------------------
(* Capabilities, living specs and delta documents of LivingSpecFold for TLC. *)
EXTENDS LivingSpecFold

TwoCaps == <<"checkout", "payment">>

\* payment lies within checkout's area and is the more specific there.
TwoClaims ==
  [checkout |-> [match |-> {[files |-> {"f", "g"}, depth |-> 1]}, exclude |-> {}, retire |-> TRUE],
   payment  |-> [match |-> {[files |-> {"g"}, depth |-> 2]}, exclude |-> {}, retire |-> FALSE]]

Req(head, body, touches, direct, aligns, adopted) ==
  [head |-> head, body |-> body, touches |-> touches, direct |-> direct, aligns |-> aligns, adopted |-> adopted]

\* A marker under its heading, one that a formatter put a blank line before, and none.
SomeSpecs ==
  { [checkout |-> c, payment |-> p] :
      c \in { <<Req("A", "a0", {"f"}, TRUE, {"payment"}, TRUE)>>,
              <<Req("A", "a0", {"f"}, FALSE, {"payment"}, FALSE)>>,
              <<Req("B", "b0", {}, TRUE, {}, FALSE), Req("A", "a0", {"f"}, TRUE, {}, FALSE)>> },
      p \in { <<>>, <<Req("A", "a0", {}, TRUE, {}, FALSE)>> } }

Unit(head, body) == [head |-> head, body |-> body, touches |-> {"g"}, direct |-> TRUE]
Block(verb, cap, unit) == [verb |-> verb, cap |-> cap, units |-> <<unit>>]

\* The blocks an author may write for a capability, of one unit each.
Blocks(c) ==
       {Block("added", c, Unit(h, "x")) : h \in {"A", "B"}}
  \cup {Block("modified", c, Unit(h, "y")) : h \in {"A", "B"}}
  \cup {Block("removed", c, [head |-> h]) : h \in {"A", "B"}}
  \cup {Block("renamed", c, [old |-> n[1], new |-> n[2]]) :
          n \in {<<"A", "B">>, <<"B", "C">>, <<"B", "A">>}}

Pairs == {<<b, d>> : b \in Blocks("checkout"), d \in Blocks("checkout")}

\* A modification with a marker that a formatter put a blank line before.
Apart == [Unit("A", "y") EXCEPT !.direct = FALSE]

\* Two blocks for one capability, contradictory ones too, or one for each of two,
\* one perhaps broken.
SomeDrafts ==
  Pairs
  \cup {<<Block("modified", "checkout", u), Block("added", "checkout", Unit("B", "x"))>> : u \in {Apart, Unit("A", "x")}}
  \cup {<<b, d>> : b \in Blocks("checkout"), d \in {Block("added", c, Unit("B", "z")) : c \in {"payment", "none"}}}
  \cup {<<Block("removed", "payment", [head |-> "A"]), Block("modified", "checkout", Unit("A", "half"))>>}

\* Two texts for one heading, in two blocks.
TwoTexts == {<<Block("modified", "checkout", Unit("C", t)), Block("modified", "checkout", Unit("C", u))>> :
               t \in {"x", "y"}, u \in {"x", "y"}}
=============================================================================
