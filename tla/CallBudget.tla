------------------------------ MODULE CallBudget ------------------------------
(***************************************************************************)
(* What the jobs of the main worker spend of eBay's daily allowance        *)
(* (connectors/ebay.py, systems/ratelimit.py, resolve_budget): the calls   *)
(* of a check pass or of an ingest run, each with its attempts and the     *)
(* token it was started with.                                              *)
(*                                                                         *)
(* Time is counted in seconds and only as far as the token's age needs it. *)
(***************************************************************************)
EXTENDS Integers

CONSTANTS Limit,       \* the daily allowance
          Reserve,     \* quota_reserve
          Configured,  \* disappearance_check_budget
          Candidates,  \* listings a pass could ask about
          Searches,    \* searches of a run
          Durations    \* seconds that an attempt may take to fail

ASSUME CallBudgetAssumption ==
  /\ Limit \in Nat /\ Reserve \in Nat /\ Configured \in Nat
  /\ Candidates \in Nat /\ Searches \in Nat
  /\ Durations \subseteq Nat

VARIABLES remaining,  \* what eBay has left of the day's allowance
          job,        \* the job of the worker, and what it spent
          call        \* the call it is making

budgetVars == <<remaining, job, call>>

MaxAttempts == 5
Lifetime == 7200

\* Mutant: a token is used to its last second.
NoMargin == 0

\* A token is used until this long before its end.
Margin == 60

\* token: seconds until the token of the call expires; spent: seconds its failed
\* attempts took, the waits between them left out.
NoCall == [attempt |-> 0, token |-> 0, spent |-> 0]

\* known: the quota was learned, as start; again: calls metered at an attempt
\* that was not the first.
NoJob == [kind |-> "none", stage |-> "idle", todo |-> 0,
          known |-> FALSE, start |-> 0, again |-> 0]

BudgetInit ==
  /\ remaining \in 0..Limit
  /\ job = NoJob
  /\ call = NoCall

Smaller(a, b) == IF a < b THEN a ELSE b
Larger(a, b) == IF a > b THEN a ELSE b

-----------------------------------------------------------------------------
(* Jobs.  Each has a client of its own and so a token of its own.          *)

StartCheck ==
  /\ job = NoJob
  /\ job' = [NoJob EXCEPT !.kind = "check", !.stage = "asking"]
  /\ UNCHANGED <<remaining, call>>

StartIngest ==
  /\ job = NoJob
  /\ job' = [NoJob EXCEPT !.kind = "ingest", !.stage = "calling", !.todo = Searches]
  /\ UNCHANGED <<remaining, call>>

EndJob == job' = NoJob /\ call' = NoCall

Finish ==
  /\ job.stage = "calling"
  /\ job.todo = 0
  /\ EndJob
  /\ UNCHANGED remaining

\* A dying worker, a lost database.
JobDies ==
  /\ job # NoJob
  /\ EndJob
  /\ UNCHANGED remaining

-----------------------------------------------------------------------------
(* The budget of a pass.                                                   *)

\* Mutant: less than nothing may be spent.
BudgetBelowZero(left) == Smaller(Configured, left - Reserve)

\* Mutant: the reserve is forgotten.
BudgetOfAll(left) == Smaller(Configured, left)

Budget(left) == Larger(0, Smaller(Configured, left - Reserve))

\* get_rate_limit is metered apart; what it cannot tell is None.
LearnQuota ==
  /\ job.stage = "asking"
  /\ \/ job' = [job EXCEPT !.stage = "calling", !.known = TRUE, !.start = remaining,
                           !.todo = Smaller(Candidates, Budget(remaining))]
     \/ job' = [job EXCEPT !.stage = "calling", !.todo = Smaller(Candidates, Configured)]
  /\ UNCHANGED <<remaining, call>>

\* No token, and an analytics quota that is exhausted, are raised and not None.
QuotaUnknowable ==
  /\ job.stage = "asking"
  /\ EndJob
  /\ UNCHANGED remaining

-----------------------------------------------------------------------------
(* Calls.                                                                  *)

Attempting == call.attempt > 0

\* A call takes its token once: a new one, or the cached one at any age the
\* margin lets pass, of which the oldest is the worst.  The token's own calls
\* are not metered.
StartCall ==
  /\ job.stage = "calling"
  /\ ~Attempting
  /\ job.todo > 0
  /\ \E left \in {Margin + 1, Lifetime} :
       call' = [attempt |-> 1, token |-> left, spent |-> 0]
  /\ UNCHANGED <<remaining, job>>

\* A search that raises is left behind, a pass ends.
Raise(j) ==
  /\ call' = NoCall
  /\ job' = IF j.kind = "ingest" THEN [j EXCEPT !.todo = @ - 1] ELSE NoJob

NoToken ==
  /\ job.stage = "calling"
  /\ ~Attempting
  /\ job.todo > 0
  /\ Raise(job)
  /\ UNCHANGED remaining

\* The job after an attempt that was metered, or was not.
Metered(cost) ==
  IF call.attempt = 1 THEN job ELSE [job EXCEPT !.again = @ + cost]

\* A body or a 404.
Answered ==
  /\ Attempting
  /\ remaining > 0 /\ call.token > 0
  /\ remaining' = remaining - 1
  /\ job' = [Metered(1) EXCEPT !.todo = @ - 1]
  /\ call' = NoCall

\* The wait after an attempt, without its jitter.
Delay == [attempt \in 1..(MaxAttempts - 1) |->
            CASE attempt = 1 -> 1 [] attempt = 2 -> 2 [] attempt = 3 -> 4 [] OTHER -> 8]

\* A server error, a 429 that says slow down, or no answer; eBay may have
\* counted it.  Any of them may come at once or late: the client's timeout is
\* for connecting and for each read, not for the attempt.
Fails(seconds) ==
  /\ Attempting
  /\ call.token > 0
  /\ \E cost \in 0..Smaller(1, remaining), jitter \in 0..1 :
       /\ remaining' = remaining - cost
       /\ IF call.attempt < MaxAttempts
          THEN /\ call' = [attempt |-> call.attempt + 1,
                           token |-> call.token - seconds - Delay[call.attempt] - jitter,
                           spent |-> call.spent + seconds]
               /\ job' = Metered(cost)
          ELSE Raise(Metered(cost))

\* Error 2001 is not retried: the job keeps what it did and ends.
Refused ==
  /\ Attempting
  /\ remaining = 0 /\ call.token > 0
  /\ EndJob
  /\ UNCHANGED remaining

\* 401: not retried.
Lapsed ==
  /\ Attempting
  /\ call.token <= 0
  /\ Raise(job)
  /\ UNCHANGED remaining

\* Any other error of the request: not retried either.
Rejected ==
  /\ Attempting
  /\ call.token > 0
  /\ \E cost \in 0..Smaller(1, remaining) :
       remaining' = remaining - cost /\ Raise(Metered(cost))

DayBreaks ==
  /\ remaining' = Limit
  /\ UNCHANGED <<job, call>>

BudgetStep ==
  \/ StartCheck \/ StartIngest \/ Finish \/ JobDies
  \/ LearnQuota \/ QuotaUnknowable
  \/ StartCall \/ NoToken \/ Answered \/ Refused \/ Lapsed \/ Rejected
  \/ \E seconds \in Durations : Fails(seconds)
  \/ DayBreaks

-----------------------------------------------------------------------------
(* Properties.                                                             *)

Jobs == [kind : {"none", "check", "ingest"}, stage : {"idle", "asking", "calling"},
         todo : Nat, known : BOOLEAN, start : 0..Limit, again : Nat]

\* The allowance is never overdrawn, and only a check knows the quota.
BudgetTypeOK ==
  /\ remaining \in 0..Limit
  /\ job \in Jobs
  /\ call \in [attempt : 0..MaxAttempts, token : Int, spent : Nat]
  /\ job.stage = "asking" => job.kind = "check"
  /\ job.known => job.kind = "check" /\ job.stage = "calling"
  /\ Attempting => job.stage = "calling" /\ job.todo > 0

\* A pass that learned the quota leaves ingestion its reserve, or what there
\* was of it, but for the calls it had to repeat: each may cost four more, and
\* the budget of resolve_budget counts none of them.
ReserveIsLeft ==
  job.known => remaining + job.again >= Smaller(Reserve, job.start)

\* search_items and get_item take the token once, before call_with_backoff, and
\* its margin is all that the retries have: the waits of the backoff, nineteen
\* seconds with their jitter, and what the failing attempts take themselves.  A
\* token lapses between two attempts of one call, which ends in a 401 that is
\* not retried, only where those before took more than 41 seconds together, so
\* never where each fails within ten.
LapsesOnlyAfterSlowAttempts == Attempting /\ call.token <= 0 => call.spent > 41

=============================================================================
