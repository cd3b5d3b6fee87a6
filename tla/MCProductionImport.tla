------------------------- MODULE MCProductionImport -------------------------
(* Two bundles that share a row; the other row of the larger one is a vintage. *)
EXTENDS ProductionImport, TLC

MCRowsOf == "b1" :> {1, 2} @@ "b2" :> {1}
Interchangeable == Permutations(Operators)
=============================================================================
