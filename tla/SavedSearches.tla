----------------------------- MODULE SavedSearches -----------------------------
(***************************************************************************)
(* The saved searches and what they cost: the routes that add, enable,     *)
(* disable and delete them (api/routes/saved_searches.py), each request in *)
(* a thread of its own, and the ingest run that spends one Browse call on  *)
(* each enabled one (ingest_all in connectors/ingest_ebay.py).             *)
(*                                                                         *)
(* A request reads what it decides on in one query and writes in a later   *)
(* one, at READ COMMITTED and without a lock.  A run works through the     *)
(* list it loaded when it began.                                           *)
(***************************************************************************)
EXTENDS Integers, FiniteSets

CONSTANTS
  Ids,              \* ids of saved_search, which bounds how many are created
  Keywords,         \* keywords, up to case
  None,             \* no id, or no keyword
  Threads,          \* requests the API can be handling at once
  Day,              \* SECONDS_PER_DAY
  IngestInterval,   \* settings.ingest_interval_seconds
  CheckInterval,    \* settings.disappearance_check_interval_seconds
  CheckBudget,      \* settings.disappearance_check_budget
  DailyLimit        \* EBAY_DAILY_BROWSE_LIMIT

ASSUME SearchesAssumption ==
  /\ IsFiniteSet(Ids) /\ None \notin Ids \cup Keywords
  /\ IsFiniteSet(Threads) /\ Threads # {}
  /\ Day \in Nat /\ CheckBudget \in Nat /\ DailyLimit \in Nat
  /\ IngestInterval \in Nat \ {0} /\ CheckInterval \in Nat \ {0}

VARIABLES
  table,      \* the saved_search table
  requests,   \* what each thread of the API is handling
  run,        \* the ingest run
  wasted      \* calls a search has cost since it was disabled or deleted

vars == <<table, requests, run, wasted>>
-----------------------------------------------------------------------------
States == {"unused", "enabled", "disabled", "deleted"}

Stages == {"idle", "counting", "inserting", "enabling", "disabling", "deleting"}

Row == [state: States, keyword: Keywords \cup {None}]

NoRow(state) == [state |-> state, keyword |-> None]

\* A request is about a row, or about a search it is to create.
Request == [stage: Stages, id: Ids \cup {None}, keyword: Keywords \cup {None}]

Idle == [stage |-> "idle", id |-> None, keyword |-> None]

\* searchesRun counts the searches that returned a result, searchesFailed the
\* others; searches that a run has left out for want of quota are in neither.
Run == [stage: {"idle", "running", "reported"}, todo: SUBSET Ids,
        searchesRun: Nat, searchesFailed: Nat,
        alarm: BOOLEAN]

NoRun == [stage |-> "idle", todo |-> {}, searchesRun |-> 0,
          searchesFailed |-> 0, alarm |-> FALSE]

TypeOK ==
  /\ table \in [Ids -> Row]
  /\ requests \in [Threads -> Request]
  /\ run \in Run
  /\ wasted \in [Ids -> 0..2]

Init ==
  /\ table = [i \in Ids |-> NoRow("unused")]
  /\ requests = [t \in Threads |-> Idle]
  /\ run = NoRun
  /\ wasted = [i \in Ids |-> 0]

Enabled == {i \in Ids : table[i].state = "enabled"}

Exists(i) == table[i].state \in {"enabled", "disabled"}
-----------------------------------------------------------------------------
(***************************************************************************)
(* The budget.                                                             *)
(***************************************************************************)

\* estimate_daily_calls: both products are rounded down.
ProjectedCalls(n) ==
  (n * Day) \div IngestInterval + (CheckBudget * Day) \div CheckInterval

Fits(n) == ProjectedCalls(n) <= DailyLimit
-----------------------------------------------------------------------------
(***************************************************************************)
(* The routes.  A refusal or an unknown id changes nothing.                *)
(***************************************************************************)
Answer(t) == requests' = [requests EXCEPT ![t] = Idle]

\* Mutant: the duplicate check is gone.
PostAnything(t, k) ==
  /\ requests[t].stage = "idle"
  /\ requests' = [requests EXCEPT ![t].stage = "counting", ![t].keyword = k]
  /\ UNCHANGED <<table, run, wasted>>

\* create_saved_search, up to the duplicate check.
Post(t, k) ==
  /\ requests[t].stage = "idle"
  /\ ~\E i \in Ids : Exists(i) /\ table[i].keyword = k
  /\ requests' = [requests EXCEPT ![t].stage = "counting", ![t].keyword = k]
  /\ UNCHANGED <<table, run, wasted>>

\* update_saved_search up to the check; asking for what the row already says
\* writes nothing.
PatchEnable(t, i) ==
  /\ requests[t].stage = "idle"
  /\ table[i].state = "disabled"
  /\ requests' = [requests EXCEPT ![t].stage = "counting", ![t].id = i]
  /\ UNCHANGED <<table, run, wasted>>

PatchDisable(t, i) ==
  /\ requests[t].stage = "idle"
  /\ table[i].state = "enabled"
  /\ requests' = [requests EXCEPT ![t].stage = "disabling", ![t].id = i]
  /\ UNCHANGED <<table, run, wasted>>

Delete(t, i) ==
  /\ requests[t].stage = "idle"
  /\ Exists(i)
  /\ requests' = [requests EXCEPT ![t].stage = "deleting", ![t].id = i]
  /\ UNCHANGED <<table, run, wasted>>

\* Mutant: the search being added is left out of its own projection.
CountWithoutIt(t) ==
  /\ requests[t].stage = "counting"
  /\ IF Fits(Cardinality(Enabled))
     THEN requests' = [requests EXCEPT ![t].stage =
                         IF requests[t].id = None THEN "inserting" ELSE "enabling"]
     ELSE Answer(t)
  /\ UNCHANGED <<table, run, wasted>>

\* The quota check, the same for a new search and one to enable again.
Count(t) ==
  /\ requests[t].stage = "counting"
  /\ IF Fits(Cardinality(Enabled) + 1)
     THEN requests' = [requests EXCEPT ![t].stage =
                         IF requests[t].id = None THEN "inserting" ELSE "enabling"]
     ELSE Answer(t)
  /\ UNCHANGED <<table, run, wasted>>

\* Mutant: the row is inserted with the switch unset.
InsertUnset(t) ==
  /\ requests[t].stage = "inserting"
  /\ \E i \in Ids :
       /\ table[i].state = "unused"
       /\ table' = [table EXCEPT ![i] = [state |-> "unset",
                                         keyword |-> requests[t].keyword]]
  /\ Answer(t)
  /\ UNCHANGED <<run, wasted>>

Insert(t) ==
  /\ requests[t].stage = "inserting"
  /\ \E i \in Ids :
       /\ table[i].state = "unused"
       /\ table' = [table EXCEPT ![i] = [state |-> "enabled",
                                         keyword |-> requests[t].keyword]]
  /\ Answer(t)
  /\ UNCHANGED <<run, wasted>>

\* The UPDATE or DELETE of a row that is gone by now changes no row.
Write(t, stage, row) ==
  /\ requests[t].stage = stage
  /\ table' = IF Exists(requests[t].id)
              THEN [table EXCEPT ![requests[t].id] = row]
              ELSE table
  /\ Answer(t)
  /\ UNCHANGED run

Enable(t) ==
  /\ Write(t, "enabling", [table[requests[t].id] EXCEPT !.state = "enabled"])
  /\ wasted' = [wasted EXCEPT ![requests[t].id] = 0]

Disable(t) ==
  /\ Write(t, "disabling", [table[requests[t].id] EXCEPT !.state = "disabled"])
  /\ UNCHANGED wasted

Remove(t) ==
  /\ Write(t, "deleting", NoRow("deleted"))
  /\ UNCHANGED wasted

\* The database or the connection fails the request: nothing is committed.
RequestFails(t) ==
  /\ requests[t].stage # "idle"
  /\ Answer(t)
  /\ UNCHANGED <<table, run, wasted>>
-----------------------------------------------------------------------------
(***************************************************************************)
(* The ingest run.                                                         *)
(***************************************************************************)

\* Mutant: the enabled filter is gone.
StartRunOnAll ==
  /\ run.stage # "running"
  /\ run' = [NoRun EXCEPT !.stage = "running", !.todo = {i \in Ids : Exists(i)}]
  /\ UNCHANGED <<table, requests, wasted>>

StartRun ==
  /\ run.stage # "running"
  /\ run' = [NoRun EXCEPT !.stage = "running", !.todo = Enabled]
  /\ UNCHANGED <<table, requests, wasted>>

\* A search is called whatever has become of its row since the run listed it.
Spend(i) ==
  wasted' = IF i \in Enabled \/ wasted[i] = 2 THEN wasted
            ELSE [wasted EXCEPT ![i] = @ + 1]

SearchLands(i) ==
  /\ i \in run.todo
  /\ run' = [run EXCEPT !.todo = @ \ {i}, !.searchesRun = @ + 1]
  /\ Spend(i)
  /\ UNCHANGED <<table, requests>>

\* Any exception but exhausted quota costs this search alone.
SearchFails(i) ==
  /\ i \in run.todo
  /\ run' = [run EXCEPT !.todo = @ \ {i}, !.searchesFailed = @ + 1]
  /\ Spend(i)
  /\ UNCHANGED <<table, requests>>

\* QuotaExhaustedError ends the loop; what landed stays.
QuotaRunsOut ==
  /\ run.todo # {}
  /\ run' = [run EXCEPT !.todo = {}]
  /\ UNCHANGED <<table, requests, wasted>>

\* Mutant: strictly more failures than the threshold.
SoundsAlarmStrictly(searchesRun, searchesFailed) ==
  LET half == searchesRun \div 2
  IN  searchesRun # 0 /\ searchesFailed > IF half > 2 THEN half ELSE 2

\* Half of searches_run, which is the number of searches that succeeded.
SoundsAlarm(searchesRun, searchesFailed) ==
  LET half == searchesRun \div 2
  IN  searchesRun # 0 /\ searchesFailed >= IF half > 2 THEN half ELSE 2

FinishRun ==
  /\ run.stage = "running"
  /\ run.todo = {}
  /\ run' = [run EXCEPT !.stage = "reported",
       !.alarm = SoundsAlarm(run.searchesRun, run.searchesFailed)]
  /\ UNCHANGED <<table, requests, wasted>>

\* The worker dies within the run.
RunCrashes ==
  /\ run.stage = "running"
  /\ run' = NoRun
  /\ UNCHANGED <<table, requests, wasted>>
-----------------------------------------------------------------------------
Handle(t) ==
  \/ \E k \in Keywords : Post(t, k)
  \/ \E i \in Ids : PatchEnable(t, i) \/ PatchDisable(t, i) \/ Delete(t, i)
  \/ Count(t) \/ Insert(t) \/ Enable(t) \/ Disable(t) \/ Remove(t)
  \/ RequestFails(t)

RunStep ==
  \/ StartRun \/ QuotaRunsOut \/ FinishRun \/ RunCrashes
  \/ \E i \in Ids : SearchLands(i) \/ SearchFails(i)

Next == RunStep \/ \E t \in Threads : Handle(t)

Spec == Init /\ [][Next]_vars
-----------------------------------------------------------------------------
(***************************************************************************)
(* Properties.                                                             *)
(***************************************************************************)

\* "POST refuses rather than warns" (saved_searches.py): the projected daily
\* calls of the enabled searches stay within the allowance.
EnabledFits == Fits(Cardinality(Enabled))

Counts == 0..(Cardinality(Ids) + 1)

\* The numbers that bound from above how many searches fit.
Ceilings == {c \in Counts : \A n \in Counts : Fits(n) => n <= c}

\* How far EnabledFits holds: every request checks before it writes, so the
\* enabled searches exceed what fits by at most one for each other request
\* that passed the same check meanwhile.  A single writer never exceeds it.
OvershootBounded ==
  \A c \in Ceilings :
    Cardinality(Enabled) <= c + Cardinality(Threads) - 1

\* The same race for the duplicate check of create_saved_search ("two searches
\* differing only in capitalisation return the same eBay results and cost
\* twice"): a keyword exists at most once per request being handled.
CopiesBounded ==
  \A k \in Keywords :
    Cardinality({i \in Ids : Exists(i) /\ table[i].keyword = k})
      <= Cardinality(Threads)

\* "Disabled searches cost nothing" (ingest_all): a search that is disabled or
\* deleted while a run has it listed costs that run's call, and no other.
OffCostsOneCallAtMost == \A i \in Ids : wasted[i] <= 1

Most == run.searchesFailed >= 2 /\ run.searchesFailed > run.searchesRun

\* "If most searches failed" a run says so loudly (ingest_all), as long as any
\* search of it succeeded.
MostFailedIsHeard ==
  run.stage = "reported" /\ Most /\ run.searchesRun > 0 => run.alarm

\* The same without the proviso, as the comment has it: "a systematic fault
\* looks like a successful run that happened to find nothing.  Say so loudly
\* instead".
SystematicFaultIsHeard == run.stage = "reported" /\ Most => run.alarm

=============================================================================
