---------------------------- MODULE MCSgsArchive ----------------------------
(* Small instances of SgsArchive. *)
EXTENDS SgsArchive, TLC

\* A window leaves the recent scope on the third day.
Aged2 == [d \in 1 .. Days |-> IF d < 3 THEN 1 ELSE 2]

\* Intents of an older policy: one before the documented start of its series.
OldIntents == [c \in Codes |-> IF c = 1 THEN 0 ELSE NoWindow]
=============================================================================
