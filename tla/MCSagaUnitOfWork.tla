-------------------------- MODULE MCSagaUnitOfWork -------------------------
(***************************************************************************)
(* Two saga types that meet: a Booking starts on "Requested" (step 1),     *)
(* reacts to "Claimed" (2) and ends on "Confirmed" (3); a Claim starts on  *)
(* "Claimed" (4) and ends on "Confirmed" (5).  So "Claimed" may run inside *)
(* a unit of work and "Confirmed" may end two sagas.                       *)
(***************************************************************************)
EXTENDS SagaUnitOfWork

MCTypeOf == <<"Booking", "Booking", "Booking", "Claim", "Claim">>

MCStepsOn ==
  [type \in {"Requested", "Claimed", "Confirmed"} |->
     CASE type = "Requested" -> <<1>>
       [] type = "Claimed"   -> <<2, 4>>
       [] type = "Confirmed" -> <<3, 5>>]

MCPropertyOf == [step \in Steps |-> "bookingId"]

MCAssociationSets ==
  UNION {{{<<"bookingId", value>>}, {<<"bookingId", value>>, <<"region", value>>}} : value \in Values \ {None}}

MCTouchListOf == [set \in SUBSET Touchable |-> IF set = {} THEN "none" ELSE "some"]

\* Nothing, or two bookings under way as a test may store them, that differ in
\* one association and share the other.
MCStorages ==
  LET booking(associations) ==
        [type |-> "Booking", row |-> Advanced(Started(EmptyState, associations)).row,
         associations |-> associations]
  IN  { [id \in Ids |-> NoSaga],
        [id \in Ids |-> CASE id = 1 -> booking({<<"bookingId", 1>>})
                          [] id = 2 -> booking({<<"bookingId", 1>>, <<"region", 1>>})
                          [] id \notin {1, 2} -> NoSaga] }
=============================================================================
