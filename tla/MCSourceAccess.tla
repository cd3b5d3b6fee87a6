--------------------------- MODULE MCSourceAccess ---------------------------
(* Small instances of SourceAccess. *)
EXTENDS SourceAccessProperties, TLC

CONSTANTS o1, o2

\* bcb_sgs with two attempts of three, focus with two indicators of five.
Publishers ==
  {[receipts |-> TRUE, windows |-> TRUE, parts |-> 1, attempts |-> 2],
   [receipts |-> FALSE, windows |-> FALSE, parts |-> 2, attempts |-> 1]}

\* The operations of a publisher are alike.
Interchangeable == Permutations(Operations)
=============================================================================
