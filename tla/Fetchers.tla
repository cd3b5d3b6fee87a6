------------------------------ MODULE Fetchers ------------------------------
(* The seven ways in which the code fetches: what each tells apart in a       *)
(* publisher's answer, what it asks again after, how its requests are capped, *)
(* what it stores when, and which failures it goes on after.                  *)
EXTENDS ProviderFetch

CONSTANT Tries   \* attempts and request cap of a unit where the code has three

ASSUME TriesAssumption == Tries \in Nat \ {0}

\* What a request comes to before its body is looked at.
Network == {"redirect", "rejected", "deferred", "transport", "server", "refused", "encoding"}

\* What the parser of a publisher makes of a body.
SgsBody     == {"ok", "empty", "invalid", "garbled"}
B3Body      == {"ok", "empty", "invalid"}
SidraBody   == {"ok", "invalid"}
FocusBody   == {"ok", "invalid"}
RollingBody == {"ok", "invalid"}

\* Every way a unit of work may fail while its fetch runs.
Failures == {"redirects", "deadline", "exhausted", "stranded", "denied", "freshness"}
              \cup Network \cup {"invalid", "garbled"}

----------------------------------------------------------------------------
\* One thread that asks once for each unit, stores it in a transaction and stops
\* at a failure.
Plain(units, unitCap, host, body) ==
  [units |-> units, threads |-> 1, host |-> host, attempts |-> 1,
   unitCap |-> unitCap, async |-> FALSE, stays |-> FALSE,
   answers |-> Network \cup body, retried |-> {}, tolerates |-> {}, stores |-> "unit",
   parts |-> 1, skipsStored |-> FALSE, marks |-> "no", auditsUnits |-> FALSE]

\* The loops around a request.
SgsTries(fetch) ==
  [fetch EXCEPT !.attempts = Tries, !.retried = {"transport", "server", "garbled"}]
SgsBoundedTries(fetch) == [SgsTries(fetch) EXCEPT !.async = TRUE]
B3Tries(fetch) ==
  [fetch EXCEPT !.attempts = 2, !.retried = {"transport", "server", "refused"}]
SidraTries(fetch) == [fetch EXCEPT !.attempts = Tries, !.retried = {"transport", "server"}]
TreasuryTries(fetch) ==
  [fetch EXCEPT !.attempts = 2, !.retried = {"transport", "server", "encoding"},
                !.async = TRUE, !.stays = TRUE]

----------------------------------------------------------------------------
\* A series in windows of ten years: only a malformed payload stops it, what was
\* served is stored at the end, and a mark needs every window.
SgsSeries(windows, host) ==
  [SgsTries(Plain(windows, Tries, host, SgsBody)) EXCEPT
     !.tolerates = Failures \ {"invalid"}, !.stores = "end", !.marks = "whole"]

\* One calendar year, in which no observation is a failure too.
SgsWindow(window, host) ==
  [SgsBoundedTries(Plain({window}, Tries, host, SgsBody \ {"empty"})) EXCEPT !.marks = "unit"]

\* The missing trade days, by two threads.
B3Days(days, host) ==
  [B3Tries(Plain(days, 2, host, B3Body)) EXCEPT !.threads = 2, !.skipsStored = TRUE]

\* Five datasets, each audited on its own; HTTP errors and malformed payloads
\* leave a dataset empty.
SidraDatasets(datasets, host) ==
  [SidraTries(Plain(datasets, Tries, host, SidraBody)) EXCEPT
     !.tolerates = {"redirects", "transport", "server", "refused", "encoding", "rejected", "invalid"},
     !.auditsUnits = TRUE]

\* Five indicators, each audited and marked on its own.
FocusIndicators(indicators, host) ==
  [Plain(indicators, Tries, host, FocusBody) EXCEPT
     !.tolerates = Failures \cup {"persistence"}, !.marks = "unit", !.auditsUnits = TRUE]

FocusRolling(indicator, host) ==
  [Plain({indicator}, Tries, host, RollingBody) EXCEPT !.marks = "unit"]

\* One workbook, stored sheet by sheet.
AnbimaWorkbook(workbook, sheets, host) ==
  [Plain({workbook}, Tries, host, {"ok", "invalid"}) EXCEPT !.parts = sheets, !.marks = "unit"]

\* One file, replaced as a cohort (TreasuryCohort).
TreasuryFile(file, host) ==
  [TreasuryTries(Plain({file}, 2, host, {"ok", "invalid"})) EXCEPT !.stores = "end"]

=============================================================================
