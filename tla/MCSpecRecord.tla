----------------------------- MODULE MCSpecRecord -----------------------------
(* Constants of SpecRecord for TLC. *)
EXTENDS SpecRecord

CONSTANTS t1, t2

AllCalls == {"start", "complete", "finish", "advance", "derive"}

\* Nothing tells the tasks apart, so t1 is the one written first.
FirstTaskFirst == tasks # <<>> => tasks[1].id = t1

\* Bound: two lines wait in the append log only while no call has overlapped a derive.
OneLineAfterOverlap == overlapped => Len(Lines) <= 1
=============================================================================
