------------------------- MODULE MCPostgresStorage -------------------------
(* Model-checking instances of PostgresStorage. *)
EXTENDS PostgresStorage, TLC

CONSTANTS c1, c2, c3, a1, a2

\* Two associations sets that overlap in nothing, so that mixing the rows of
\* two saves shows.
MCAssociationSets == {{a1}, {a2}}
MCOneAssociationSet == {{a1}}

MCSymmetry == Permutations(Clients)
=============================================================================
