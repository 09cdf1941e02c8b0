------------------------- MODULE MCSchemaMigrations -------------------------
(***************************************************************************)
(* All six migrations, up and down, run by two people at once while rows   *)
(* are written.                                                            *)
(***************************************************************************)
EXTENDS SchemaMigrations

Symmetry == Permutations(Migrators)

=============================================================================
