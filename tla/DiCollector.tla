----------------------------- MODULE DiCollector -----------------------------
(***************************************************************************)
(* The resumable collector of retrospective DI bulletins: the plan of the  *)
(* CLI (src/backend/scripts/collect_retrospective_di.py) and the requests, *)
(* the archive cache, the manifest and the ledger it drives                *)
(* (src/backend/macro_score/retrospective_di.py).                          *)
(*                                                                         *)
(* An execution plans month-end candidates, skips what the ledger or the   *)
(* cache holds, asks the publisher for the rest with a pause between any   *)
(* two requests, and imports the cached archives it trusts.  It may be     *)
(* killed at any step; what it knows of earlier executions is what the     *)
(* manifest and the cache say.  Business days are numbered; --start,       *)
(* --months and local input files are left out.                            *)
(***************************************************************************)
EXTENDS Integers, FiniteSets, FiniteSetsExt

CONSTANTS
  LastDay,       \* business days of the instance
  MonthOf,       \* day -> its month
  TradeDay,      \* day -> the trade date its bulletin reports
  Fallback,      \* fallback_days
  FocusDates,    \* days an operator may name with --focus-date
  Interval,      \* min_request_interval_seconds, in ticks
  MaxWait,       \* MAX_RETRY_AFTER, in ticks
  Tries,         \* MAX_RETRIES + 1
  Executions,    \* how often the CLI is run
  Disturbances   \* crashes and changes made to the cache or by the publisher

Days == 1 .. LastDay

ASSUME DiAssumption ==
  /\ {LastDay, Interval, Tries} \subseteq Nat \ {0}
  /\ {Fallback, MaxWait, Executions, Disturbances} \subseteq Nat
  /\ FocusDates \subseteq Days
  /\ MonthOf \in [Days -> Nat \ {0}] /\ TradeDay \in [Days -> Days]
  /\ \A d, e \in Days : d <= e => MonthOf[d] <= MonthOf[e]

Versions == {"first", "revised"}             \* bulletins with DI records
Readable == Versions \cup {"altered"}        \* archives that parse
Contents == Readable \cup {"broken", "none"}

VARIABLES
  today,      \* the last business day that has passed
  published,  \* the publisher's bulletin of a day: none, without records, or a version
  archive,    \* the cache: day -> content of its SPRD file and the age of the file
  row,        \* manifest.jsonl, last row of a day: status, sha256, age of fetched_at
  ledger,     \* retrospective_di_observations: trade date, source file and content
  run,        \* the execution
  rest,       \* ticks the execution still waits before a request
  gap,        \* ticks since the last request of any execution
  runs, luck, \* executions and disturbances left
  unrecorded, \* the last request left neither a row nor a file
  exposed     \* days whose file was altered while no hash was declared for it

vars == <<today, published, archive, row, ledger, run, rest, gap, runs, luck,
          unrecorded, exposed>>
world == <<today, published, exposed>>
count == <<runs, luck>>

NoArchive == [content |-> "none", age |-> Interval]
NoRow == [status |-> "none", hash |-> "none", age |-> Interval]
Older(age) == Min({age + 1, Interval})

Stopped == [pc |-> "idle", planned |-> {}, wanted |-> {}, processed |-> {},
            satisfied |-> {}, attempt |-> 0, digest |-> "none", halted |-> FALSE, calm |-> TRUE, todo |-> {}]

HasArchive(d) == archive[d].content # "none"
IsReadable(d) == archive[d].content \in Readable
\* The hash a row declares is the archive's, or it declares none.
Declared(d) == row[d].hash \in {"none", archive[d].content}
Trusted(d) == IsReadable(d) /\ Declared(d)
Held == {o.day : o \in ledger}

-----------------------------------------------------------------------------
(* The plan *)

\* The last Fallback + 1 business days up to d.
Preceding(d) == {e \in 1 .. d : d - Fallback <= e}

\* monthly_candidates: of every month up to the last complete one, or up to
\* today's, and the focus dates.
MonthlyCandidates(current, focus) ==
  LET last == IF current THEN MonthOf[today] ELSE MonthOf[today] - 1
      ends == {Max({d \in 1 .. today : MonthOf[d] = m}) : m \in
                 {n \in {MonthOf[d] : d \in 1 .. today} : n <= last}}
  IN {[day |-> d, focus |-> FALSE] : d \in UNION {Preceding(e) : e \in ends}}
     \cup {[day |-> d, focus |-> TRUE] : d \in focus \cap 1 .. today}

\* _source_inventory, _target_rows: what is readable in the cache or stored.
Available == Held \cup {TradeDay[d] : d \in {e \in Days : IsReadable(e)}}

\* _candidate_reuse: a month with one available candidate is reused whole, a
\* focus date only by itself.
Reused_ByDay(candidates) == {c \in candidates : c.day \in Available}
Reused(candidates) ==
  LET months == {MonthOf[c.day] : c \in {e \in candidates : ~e.focus /\ e.day \in Available}}
  IN {c \in candidates : IF c.focus THEN c.day \in Available ELSE MonthOf[c.day] \in months}

\* _previous_request_monotonic: the age of the youngest request there is a
\* trace of.
Requested == {"downloaded", "missing", "stopped", "rejected"}
Youngest_RowsOnly == Min({Interval} \cup {row[d].age : d \in {e \in Days : row[e].status \in Requested}})
Youngest == Min({Interval} \cup {row[d].age : d \in {e \in Days : row[e].status \in Requested}}
                           \cup {archive[d].age : d \in {e \in Days : HasArchive(e)}})

Start(current, focus) ==
  LET candidates == MonthlyCandidates(current, focus)
  IN /\ run.pc = "idle" /\ runs > 0
     /\ run' = [Stopped EXCEPT !.pc = "collecting", !.wanted = candidates,
                               !.planned = candidates \ Reused(candidates)]
     /\ rest' = Interval - Youngest
     /\ runs' = runs - 1
     /\ UNCHANGED <<world, archive, row, ledger, gap, luck, unrecorded>>

-----------------------------------------------------------------------------
(* _process_candidate_group *)

\* Candidates still to be tried: by month, focus dates after the others, the
\* latest day first; a satisfied month needs no more of them.
Left ==
  {c \in run.planned : c.day \notin run.processed
                       /\ (c.focus \/ MonthOf[c.day] \notin run.satisfied)}
Order(c) == (2 * MonthOf[c.day] + IF c.focus THEN 1 ELSE 0) * (LastDay + 1) - c.day
Candidate == CHOOSE c \in Left : \A e \in Left : Order(c) <= Order(e)

Collecting == run.pc = "collecting" /\ Left # {} /\ ~run.halted

\* _record_candidate_result: the candidate in hand is done with.
Handled_Always(c, status) ==
  [run EXCEPT !.pc = "collecting", !.attempt = 0, !.digest = "none",
     !.processed = @ \cup {c.day},
     !.satisfied = IF c.focus THEN @ ELSE @ \cup {MonthOf[c.day]},
     !.halted = status \in {"stopped", "rejected"}]
Handled(c, status) ==
  [run EXCEPT !.pc = "collecting", !.attempt = 0, !.digest = "none",
     !.processed = @ \cup {c.day},
     !.satisfied = IF status \in {"downloaded", "cache_hit"} /\ ~c.focus
                   THEN @ \cup {MonthOf[c.day]} ELSE @,
     !.halted = status \in {"stopped", "rejected"}]

KnownMissing(d) == row[d].status = "missing" /\ ~HasArchive(d)

\* A day found missing before, or a file that does not parse or is not the one
\* declared, costs no request, leaves no row and halts nothing.
PassOver ==
  /\ Collecting
  /\ KnownMissing(Candidate.day) \/ (HasArchive(Candidate.day) /\ ~Trusted(Candidate.day))
  /\ run' = Handled(Candidate, "known_missing")
  /\ UNCHANGED <<world, archive, row, ledger, rest, gap, count, unrecorded>>

\* A cache hit keeps the time its day was fetched at, or its file's.
CacheHit ==
  /\ Collecting /\ Trusted(Candidate.day)
  /\ run' = Handled(Candidate, "cache_hit")
  /\ row' = [row EXCEPT ![Candidate.day] =
       [status |-> "cache_hit", hash |-> archive[Candidate.day].content,
        age |-> IF @.status = "none" THEN archive[Candidate.day].age ELSE @.age]]
  /\ UNCHANGED <<world, archive, ledger, rest, gap, count, unrecorded>>

Ask ==
  /\ Collecting
  /\ ~HasArchive(Candidate.day) /\ ~KnownMissing(Candidate.day)
  /\ rest = 0
  /\ run' = [run EXCEPT !.pc = "asking", !.attempt = @ + 1]
  /\ rest' = Interval
  /\ gap' = 0
  /\ unrecorded' = TRUE
  /\ UNCHANGED <<world, archive, row, ledger, count>>

-----------------------------------------------------------------------------
(* _request_archive: the answers *)

\* _append_manifest, and the candidate's result.
Record(status, hash) ==
  /\ row' = [row EXCEPT ![Candidate.day] = [status |-> status, hash |-> hash, age |-> gap]]
  /\ run' = Handled(Candidate, status)
  /\ unrecorded' = FALSE

\* A 404, a blank body, a bulletin without DI records.
AnswerMissing ==
  /\ run.pc = "asking" /\ published[Candidate.day] \notin Versions
  /\ Record("missing", "none")
  /\ UNCHANGED <<world, archive, ledger, rest, gap, count>>

\* _store_zip_content replaces the file, and only then is the row appended.
AnswerBulletin ==
  /\ run.pc = "asking" /\ published[Candidate.day] \in Versions
  /\ archive' = [archive EXCEPT ![Candidate.day] =
                   [content |-> published[Candidate.day], age |-> 0]]
  /\ run' = [run EXCEPT !.pc = "stored", !.digest = published[Candidate.day]]
  /\ unrecorded' = FALSE
  /\ UNCHANGED <<world, row, ledger, rest, gap, count>>

RecordBulletin ==
  /\ run.pc = "stored"
  /\ Record("downloaded", run.digest)
  /\ UNCHANGED <<world, archive, ledger, rest, gap, count>>

\* A 401 or 403, a challenge page; an answer too large or not a sound archive.
AnswerRefused(status) ==
  /\ run.pc = "asking"
  /\ Record(status, "none")
  /\ UNCHANGED <<world, archive, ledger, rest, gap, count>>

\* A 5xx with the wait it asks for, or a connection error: tried again after
\* the wait, unless it is too long or the attempts are spent.
AnswerUnavailable(wait) ==
  /\ run.pc = "asking"
  /\ IF run.attempt < Tries /\ wait <= MaxWait
     THEN /\ run' = [run EXCEPT !.pc = "collecting"]
          /\ rest' = Max({wait, Interval})
          /\ UNCHANGED <<row, unrecorded>>
     ELSE Record("stopped", "none") /\ UNCHANGED rest
  /\ UNCHANGED <<world, archive, ledger, gap, count>>

\* A 429: get_provider_response raises RetryDeferred, which nothing here
\* catches; no row is written and nothing is imported.
AnswerDeferred ==
  /\ run.pc = "asking"
  /\ run' = Stopped
  /\ rest' = 0
  /\ UNCHANGED <<world, archive, row, ledger, gap, count, unrecorded>>

-----------------------------------------------------------------------------
(* _import_cache: also after a halt *)

EndCollection ==
  /\ run.pc = "collecting" /\ (Left = {} \/ run.halted)
  /\ run' = [run EXCEPT !.pc = "importing", !.todo = {d \in Days : HasArchive(d)}]
  /\ rest' = 0
  /\ UNCHANGED <<world, archive, row, ledger, gap, count, unrecorded>>

\* One transaction per archive; INSERT OR IGNORE.
Observed(d) == [day |-> TradeDay[d], file |-> d, content |-> archive[d].content]
Imported_Readable(d) == IF IsReadable(d) THEN {Observed(d)} ELSE {}
Imported(d) == IF Trusted(d) THEN {Observed(d)} ELSE {}

Import ==
  /\ run.pc = "importing" /\ run.todo # {}
  /\ ledger' = ledger \cup Imported(Min(run.todo))
  /\ run' = [run EXCEPT !.todo = @ \ {Min(run.todo)}]
  /\ UNCHANGED <<world, archive, row, rest, gap, count, unrecorded>>

Finish ==
  /\ run.pc = "importing" /\ run.todo = {}
  /\ run' = Stopped
  /\ UNCHANGED <<world, archive, row, ledger, rest, gap, count, unrecorded>>

-----------------------------------------------------------------------------
(* The world *)

Tick ==
  /\ archive' = [d \in Days |-> [archive[d] EXCEPT !.age = Older(@)]]
  /\ row' = [d \in Days |-> [row[d] EXCEPT !.age = Older(@)]]
  /\ gap' = Older(gap)
  /\ rest' = Max({rest - 1, 0})
  /\ UNCHANGED <<world, ledger, run, count, unrecorded>>

NewDay ==
  /\ today < LastDay
  /\ today' = today + 1
  /\ UNCHANGED <<published, archive, row, ledger, run, rest, gap, count, unrecorded, exposed>>

Disturb == luck > 0 /\ luck' = luck - 1

\* A bulletin appears late, or is revised.
Publish(d) ==
  /\ Disturb /\ d <= today
  /\ published' = [published EXCEPT ![d] = IF @ \in Versions THEN "revised" ELSE "first"]
  /\ UNCHANGED <<today, archive, row, ledger, run, rest, gap, runs, unrecorded, exposed>>

Crash ==
  /\ Disturb /\ run.pc # "idle"
  /\ run' = Stopped
  /\ rest' = 0
  /\ UNCHANGED <<world, archive, row, ledger, gap, runs, unrecorded>>

\* Somebody overwrites a cached file, or removes it.
Alter(d, content) ==
  /\ Disturb /\ HasArchive(d)
  /\ archive' = [archive EXCEPT ![d] = [content |-> content, age |-> 0]]
  /\ exposed' = IF row[d].hash = "none" THEN exposed \cup {d} ELSE exposed
  /\ run' = [run EXCEPT !.calm = run.pc = "idle"]
  /\ UNCHANGED <<today, published, row, ledger, rest, gap, runs, unrecorded>>

Discard(d) ==
  /\ Disturb /\ HasArchive(d)
  /\ archive' = [archive EXCEPT ![d] = NoArchive]
  /\ unrecorded' = (unrecorded \/ archive[d].age <= gap)
  /\ run' = [run EXCEPT !.calm = run.pc = "idle"]
  /\ UNCHANGED <<world, row, ledger, rest, gap, runs>>

-----------------------------------------------------------------------------
Init ==
  /\ today \in {LastDay - 1, LastDay} \cap Days
  /\ published \in {f \in [Days -> {"none", "first"}] : \A d \in Days : d > today => f[d] = "none"}
  /\ archive = [d \in Days |-> NoArchive]
  /\ row = [d \in Days |-> NoRow]
  /\ ledger = {}
  /\ run = Stopped
  /\ rest = 0 /\ gap = Interval
  /\ runs = Executions /\ luck = Disturbances
  /\ unrecorded = FALSE /\ exposed = {}

Collect ==
  \/ PassOver \/ CacheHit \/ Ask
  \/ AnswerMissing \/ AnswerBulletin \/ RecordBulletin \/ AnswerDeferred
  \/ \E status \in {"stopped", "rejected"} : AnswerRefused(status)
  \/ \E wait \in 0 .. MaxWait + 1 : AnswerUnavailable(wait)
  \/ EndCollection \/ Import \/ Finish

Next ==
  \/ \E current \in BOOLEAN, focus \in SUBSET FocusDates : Start(current, focus)
  \/ Collect
  \/ Tick \/ NewDay \/ Crash
  \/ \E d \in Days : Publish(d) \/ Discard(d)
  \/ \E d \in Days, content \in {"altered", "broken"} : Alter(d, content)

Spec == Init /\ [][Next]_vars

-----------------------------------------------------------------------------
(* Properties *)

(* Two requests are never closer than the interval, within an execution or    *)
(* across two ("historico de manifesto/cache tambem conserva o espacamento    *)
(* entre execucoes"), unless the earlier one left no trace: its execution was *)
(* killed or deferred before the row, or its file was removed.                *)
SpacingKept ==
  [][run.pc = "collecting" /\ run'.pc = "asking" =>
       gap >= Interval \/ (run.attempt = 0 /\ unrecorded)]_vars

(* No request for what is already local, however the executions before this   *)
(* one ended: a day of the ledger, and, but for a focus date, any candidate   *)
(* of a month that a candidate in the ledger or a trusted file answers for.   *)
NoRepeat ==
  [][run.pc = "collecting" /\ run'.pc = "asking" =>
       LET siblings == {c \in run.wanted : ~c.focus /\ MonthOf[c.day] = MonthOf[Candidate.day]}
       IN /\ Candidate.day \notin Held
          /\ Candidate.focus \/ ~run.calm
             \/ \A c \in siblings : c.day \notin Held /\ ~Trusted(c.day)]_vars

(* The ledger holds what the publisher served: an archive changed in the      *)
(* cache is never imported, but for a file changed before any row declared    *)
(* its hash.                                                                  *)
LedgerProven ==
  \A o \in ledger : o.content \in Versions \/ o.file \in exposed

(* An execution that comes to its end leaves a month of its plan without an   *)
(* observation only if every candidate was found missing or its file is not   *)
(* readable, or if a readable file that is not trusted was taken for one.     *)
MonthServed ==
  [][run.pc = "importing" /\ run'.pc = "idle" /\ run.todo = {} /\ ~run.halted /\ run.calm =>
       \A m \in {MonthOf[c.day] : c \in {e \in run.wanted : ~e.focus}} :
         LET days == {c.day : c \in {e \in run.wanted : ~e.focus /\ MonthOf[e.day] = m}}
         IN \/ \E o \in ledger : {o.day, o.file} \cap days # {}
            \/ \E d \in Days : IsReadable(d) /\ ~Trusted(d) /\ {d, TradeDay[d]} \cap days # {}
            \/ \A d \in days : row[d].status = "missing" \/ archive[d].content = "broken"]_vars

\* The type invariant of the files, the ledger and the execution.
TypeOK ==
  /\ today \in Days
  /\ published \in [Days -> {"none"} \cup Versions]
  /\ archive \in [Days -> [content : Contents, age : 0 .. Interval]]
  /\ row \in [Days -> [status : Requested \cup {"none", "cache_hit"},
                       hash : Readable \cup {"none"}, age : 0 .. Interval]]
  /\ ledger \subseteq [day : Days, file : Days, content : Readable]
  /\ run.pc \in {"idle", "collecting", "asking", "stored", "importing"}
  /\ run.attempt \in 0 .. Tries
  /\ rest \in 0 .. Max({Interval, MaxWait}) /\ gap \in 0 .. Interval
=============================================================================
