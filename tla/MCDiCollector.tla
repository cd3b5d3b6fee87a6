---------------------------- MODULE MCDiCollector ----------------------------
(* Small instances of DiCollector. *)
EXTENDS DiCollector

\* A month of two business days and one that has begun.
TwoMonths == <<1, 1, 2>>

\* The third day turns out a holiday: its bulletin repeats the second's.
ThirdIsHoliday == <<1, 2, 2>>
=============================================================================
