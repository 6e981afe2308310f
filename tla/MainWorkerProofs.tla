--------------------------- MODULE MainWorkerProofs ---------------------------
(***************************************************************************)
(* Theorems about MainWorker, for every allowance, reserve, batch, set of  *)
(* deals and number of faults.  Each property has an inductive invariant   *)
(* of its own over one of the two components.                              *)
(***************************************************************************)
EXTENDS MainWorker, TLAPS

-----------------------------------------------------------------------------
(* Types.                                                                  *)

\* A call that raises leaves a search behind or ends the pass.
LEMMA RaiseTypes ==
  ASSUME NEW j \in Jobs, Raise(j), remaining' \in 0..Limit,
         j.stage = "calling", j.todo > 0,
         j.known => j.kind = "check"
  PROVE  BudgetTypeOK'
<1> USE DEF BudgetTypeOK, Attempting, NoCall, MaxAttempts
<1>1. call' = NoCall BY DEF Raise
<1>2. CASE j.kind = "ingest"
  BY <1>1, <1>2 DEF Raise, Jobs
<1>3. CASE j.kind # "ingest"
  BY <1>1, <1>3, CallBudgetAssumption DEF Raise, Jobs, NoJob
<1> QED BY <1>2, <1>3

LEMMA BudgetStepTypes ==
  ASSUME BudgetTypeOK, BudgetStep
  PROVE  BudgetTypeOK'
<1> USE CallBudgetAssumption DEF BudgetTypeOK, MaxAttempts, Attempting, NoJob, NoCall, Jobs
<1>1. CASE StartCheck BY <1>1 DEF StartCheck
<1>2. CASE StartIngest BY <1>2 DEF StartIngest
<1>3. CASE Finish BY <1>3 DEF Finish, EndJob
<1>4. CASE JobDies BY <1>4 DEF JobDies, EndJob
<1>5. CASE LearnQuota
  <2>1. Smaller(Candidates, Budget(remaining)) \in Nat
    BY DEF Smaller, Budget, Larger
  <2>2. Smaller(Candidates, Configured) \in Nat
    BY DEF Smaller
  <2>3. /\ job.stage = "asking" /\ job.kind = "check" /\ ~job.known /\ ~Attempting
        /\ remaining' = remaining /\ call' = call
    BY <1>5 DEF LearnQuota
  <2>4. CASE job' = [job EXCEPT !.stage = "calling", !.known = TRUE, !.start = remaining,
                                !.todo = Smaller(Candidates, Budget(remaining))]
    BY <2>1, <2>3, <2>4
  <2>5. CASE job' = [job EXCEPT !.stage = "calling",
                                !.todo = Smaller(Candidates, Configured)]
    BY <2>2, <2>3, <2>5
  <2> QED BY <1>5, <2>4, <2>5 DEF LearnQuota
<1>6. CASE QuotaUnknowable BY <1>6 DEF QuotaUnknowable, EndJob
<1>7. CASE StartCall BY <1>7 DEF StartCall, Margin, Lifetime
<1>8. CASE NoToken BY <1>8, RaiseTypes DEF NoToken
<1>9. CASE Answered BY <1>9 DEF Answered, Metered
<1>10. CASE Refused BY <1>10 DEF Refused, EndJob
<1>11. CASE Lapsed BY <1>11, RaiseTypes DEF Lapsed
<1>12. ASSUME NEW seconds \in Durations, Fails(seconds)
       PROVE  BudgetTypeOK'
  <2>1. PICK cost \in 0..Smaller(1, remaining), jitter \in 0..1 :
          /\ remaining' = remaining - cost
          /\ IF call.attempt < MaxAttempts
             THEN /\ call' = [attempt |-> call.attempt + 1,
                              token |-> call.token - seconds - Delay[call.attempt] - jitter,
                              spent |-> call.spent + seconds]
                  /\ job' = Metered(cost)
             ELSE Raise(Metered(cost))
    BY <1>12 DEF Fails
  <2>2. cost \in Nat /\ cost <= remaining BY <2>1 DEF Smaller
  <2>3. /\ Metered(cost) \in Jobs
        /\ Metered(cost).kind = job.kind /\ Metered(cost).stage = job.stage
        /\ Metered(cost).todo = job.todo /\ Metered(cost).known = job.known
    BY <2>2 DEF Metered
  <2>4. Attempting /\ call.attempt \in 1..5 BY <1>12 DEF Fails
  <2>5. CASE call.attempt < MaxAttempts
    <3>1. Delay[call.attempt] \in Int BY <2>4, <2>5 DEF Delay
    <3>2. seconds \in Nat BY <1>12
    <3> QED BY <2>1, <2>2, <2>3, <2>4, <2>5, <3>1, <3>2
  <2>6. CASE ~(call.attempt < MaxAttempts)
    BY <2>1, <2>2, <2>3, <2>4, <2>6, RaiseTypes
  <2> QED BY <2>5, <2>6
<1>13. CASE DayBreaks BY <1>13 DEF DayBreaks
<1>14. CASE Rejected
  <2>1. PICK cost \in 0..Smaller(1, remaining) :
          remaining' = remaining - cost /\ Raise(Metered(cost))
    BY <1>14 DEF Rejected
  <2>2. cost \in Nat /\ cost <= remaining BY <2>1 DEF Smaller
  <2>3. /\ Metered(cost) \in Jobs
        /\ Metered(cost).kind = job.kind /\ Metered(cost).stage = job.stage
        /\ Metered(cost).todo = job.todo /\ Metered(cost).known = job.known
    BY <2>2 DEF Metered
  <2>4. Attempting BY <1>14 DEF Rejected
  <2> QED BY <2>1, <2>2, <2>3, <2>4, RaiseTypes
<1> QED BY <1>1, <1>2, <1>3, <1>4, <1>5, <1>6, <1>7, <1>8, <1>9, <1>10,
           <1>11, <1>12, <1>13, <1>14 DEF BudgetStep

LEMMA AlertStepTypes ==
  ASSUME AlertsTypeOK, ScanStep \/ OtherStep
  PROVE  AlertsTypeOK'
<1> USE DealAlertsAssumption DEF AlertsTypeOK, ScanNumbers, NotScanning, NotReading
<1>1. CASE StartScan BY <1>1 DEF StartScan
<1>2. CASE SetDeals BY <1>2 DEF SetDeals
<1>3. CASE SetTime BY <1>3 DEF SetTime
<1>4. CASE Sift BY <1>4 DEF Sift
<1>5. CASE Post BY <1>5 DEF Post, Tell
<1>6. CASE PostFails BY <1>6 DEF PostFails
<1>7. CASE ReplyIsLost BY <1>7 DEF ReplyIsLost, Tell
<1>8. CASE Mark BY <1>8 DEF Mark
<1>9. CASE FinishScan BY <1>9 DEF FinishScan
<1>10. CASE ScanDies BY <1>10 DEF ScanDies
<1>11. CASE RedisForgets BY <1>11 DEF RedisForgets
<1>12. CASE DealsExpire BY <1>12 DEF DealsExpire
<1>13. CASE TimeExpires BY <1>13 DEF TimeExpires
<1>14. CASE ReadTime BY <1>14 DEF ReadTime
<1>15. CASE ReadDeals BY <1>15 DEF ReadDeals
<1>16. CASE Respond BY <1>16 DEF Respond
<1> QED BY <1>1, <1>2, <1>3, <1>4, <1>5, <1>6, <1>7, <1>8, <1>9, <1>10,
           <1>11, <1>12, <1>13, <1>14, <1>15, <1>16 DEF ScanStep, OtherStep

\* The main worker's state is well formed: the allowance of eBay is never
\* overdrawn, a call is made only while a job has one left to make, and a scan
\* marks only what it found.
THEOREM MainWorkerTypeCorrect == Spec => []TypeOK
<1>1. Init => TypeOK
  BY CallBudgetAssumption, DealAlertsAssumption
     DEF Init, BudgetInit, AlertInit, TypeOK, BudgetTypeOK, AlertsTypeOK, Jobs, NoJob, NoCall,
         NotScanning, NotReading, ScanNumbers, MaxAttempts, Attempting
<1>2. TypeOK /\ [Next]_vars => TypeOK'
  <2> SUFFICES ASSUME TypeOK, [Next]_vars PROVE TypeOK'
    OBVIOUS
  <2>1. CASE CallsEbay
    BY <2>1, BudgetStepTypes DEF CallsEbay, TypeOK, AlertsTypeOK, alertVars, ScanNumbers
  <2>2. CASE Scans \/ Others
    BY <2>2, AlertStepTypes
       DEF Scans, Others, TypeOK, BudgetTypeOK, budgetVars, Attempting
  <2>3. CASE UNCHANGED vars
    BY <2>3 DEF vars, budgetVars, alertVars, TypeOK, BudgetTypeOK, AlertsTypeOK,
                Attempting, ScanNumbers
  <2> QED BY <2>1, <2>2, <2>3 DEF Next
<1> QED BY <1>1, <1>2, PTL DEF Spec

\* Either component leaves the state of the other alone.
LEMMA EitherSteps ==
  ASSUME [Next]_vars
  PROVE  \/ BudgetStep
         \/ UNCHANGED budgetVars
BY DEF Next, CallsEbay, Scans, Others, vars

LEMMA EitherAlerts ==
  ASSUME [Next]_vars
  PROVE  \/ ScanStep \/ OtherStep
         \/ UNCHANGED alertVars
BY DEF Next, CallsEbay, Scans, Others, vars

-----------------------------------------------------------------------------
(* The reserve.                                                            *)

\* What the pass may still spend on first attempts is there beside the reserve;
\* the first attempt of a call that is being repeated may be spent already.
ReserveInv ==
  job.known =>
    /\ remaining + job.again + (IF call.attempt > 1 THEN 1 ELSE 0)
         >= Smaller(Reserve, job.start) + job.todo
    /\ job.todo <= Larger(0, job.start - Reserve)

LEMMA ReserveInvImplies ==
  ASSUME BudgetTypeOK, ReserveInv
  PROVE  ReserveIsLeft
BY CallBudgetAssumption
   DEF BudgetTypeOK, Jobs, MaxAttempts, Attempting, ReserveInv, ReserveIsLeft, Smaller

LEMMA ReserveInvStep ==
  ASSUME BudgetTypeOK, ReserveInv, BudgetStep
  PROVE  ReserveInv'
<1> USE CallBudgetAssumption DEF BudgetTypeOK, Jobs, MaxAttempts, Attempting, ReserveInv
<1>1. CASE StartCheck BY <1>1 DEF StartCheck, NoJob
<1>2. CASE StartIngest BY <1>2 DEF StartIngest, NoJob
<1>3. CASE Finish BY <1>3 DEF Finish, EndJob, NoJob
<1>4. CASE JobDies BY <1>4 DEF JobDies, EndJob, NoJob
<1>5. CASE LearnQuota
  <2>1. ~job.known /\ remaining' = remaining /\ call' = call
    BY <1>5 DEF LearnQuota
  <2>2. CASE job' = [job EXCEPT !.stage = "calling", !.known = TRUE, !.start = remaining,
                                !.todo = Smaller(Candidates, Budget(remaining))]
    <3>1. job'.start = remaining /\ job'.todo = Smaller(Candidates, Budget(remaining))
          /\ job'.again = job.again
      BY <2>2
    <3>2. remaining \in Nat /\ job.again \in Nat /\ call.attempt \in Nat
      OBVIOUS
    <3> HIDE DEF BudgetTypeOK, Jobs
    <3>3. Smaller(Candidates, Budget(remaining)) <= Larger(0, remaining - Reserve)
      BY <3>2 DEF Smaller, Larger, Budget
    <3>4. Smaller(Reserve, remaining) + Larger(0, remaining - Reserve) = remaining
      BY <3>2 DEF Smaller, Larger
    <3>5. /\ Smaller(Candidates, Budget(remaining)) \in Int
          /\ Larger(0, remaining - Reserve) \in Int
          /\ Smaller(Reserve, remaining) \in Int
      BY <3>2 DEF Smaller, Larger, Budget
    <3> QED BY <2>1, <3>1, <3>2, <3>3, <3>4, <3>5
  <2>3. CASE job' = [job EXCEPT !.stage = "calling",
                                !.todo = Smaller(Candidates, Configured)]
    BY <2>1, <2>3
  <2> QED BY <1>5, <2>2, <2>3 DEF LearnQuota
<1>6. CASE QuotaUnknowable BY <1>6 DEF QuotaUnknowable, EndJob, NoJob
<1>7. CASE StartCall BY <1>7 DEF StartCall
<1>8. CASE NoToken BY <1>8 DEF NoToken, Raise, NoJob
<1>9. CASE Answered
  BY <1>9 DEF Answered, Metered, NoCall, Smaller, Larger
<1>10. CASE Refused BY <1>10 DEF Refused, EndJob, NoJob
<1>11. CASE Lapsed BY <1>11 DEF Lapsed, Raise, NoJob
<1>12. ASSUME NEW seconds \in Durations, Fails(seconds)
       PROVE  ReserveInv'
  <2> SUFFICES ASSUME job'.known PROVE ReserveInv'
    OBVIOUS
  <2>1. PICK cost \in 0..Smaller(1, remaining) :
          /\ remaining' = remaining - cost
          /\ IF call.attempt < MaxAttempts
             THEN call'.attempt = call.attempt + 1 /\ job' = Metered(cost)
             ELSE Raise(Metered(cost))
    BY <1>12 DEF Fails
  <2>2. cost \in {0, 1} /\ cost <= remaining BY <2>1 DEF Smaller
  <2>3. call.attempt < MaxAttempts
    <3> SUFFICES ASSUME ~(call.attempt < MaxAttempts) PROVE FALSE
      OBVIOUS
    <3>1. Metered(cost).kind = job.kind /\ Metered(cost).known = job.known
      BY <2>2 DEF Metered
    <3>2. CASE job.kind = "ingest"
      BY <2>1, <3>1, <3>2, <2>2 DEF Raise, Metered
    <3>3. CASE job.kind # "ingest"
      BY <2>1, <3>1, <3>3 DEF Raise, NoJob
    <3> QED BY <3>2, <3>3
  <2>4. /\ call'.attempt = call.attempt + 1
        /\ job' = Metered(cost)
        /\ call.attempt >= 1
    BY <1>12, <2>1, <2>3 DEF Fails
  <2>5. CASE call.attempt = 1
    BY <2>1, <2>2, <2>4, <2>5 DEF Metered, Smaller, Larger
  <2>6. CASE call.attempt # 1
    BY <2>1, <2>2, <2>4, <2>6 DEF Metered, Smaller, Larger
  <2> QED BY <2>5, <2>6
<1>13. CASE DayBreaks BY <1>13 DEF DayBreaks, Smaller, Larger
<1>14. CASE Rejected
  <2> SUFFICES ASSUME job'.known PROVE FALSE
    OBVIOUS
  <2>1. PICK cost \in 0..Smaller(1, remaining) : Raise(Metered(cost))
    BY <1>14 DEF Rejected
  <2>2. Metered(cost).kind = job.kind /\ Metered(cost).known = job.known
    BY DEF Metered
  <2>3. CASE job.kind = "ingest" BY <2>1, <2>2, <2>3 DEF Raise, Metered
  <2>4. CASE job.kind # "ingest" BY <2>1, <2>2, <2>4 DEF Raise, NoJob
  <2> QED BY <2>3, <2>4
<1> QED BY <1>1, <1>2, <1>3, <1>4, <1>5, <1>6, <1>7, <1>8, <1>9, <1>10,
           <1>11, <1>12, <1>13, <1>14 DEF BudgetStep

\* A pass that learned the quota leaves the reserve but for its repeated calls,
\* for every allowance, reserve and configured budget.
THEOREM ReserveHolds == Spec => []ReserveIsLeft
<1>1. Init => ReserveInv BY DEF Init, BudgetInit, NoJob, ReserveInv
<1>2. TypeOK /\ ReserveInv /\ [Next]_vars => ReserveInv'
  <2> SUFFICES ASSUME TypeOK, ReserveInv, [Next]_vars PROVE ReserveInv'
    OBVIOUS
  <2>1. CASE BudgetStep BY <2>1, ReserveInvStep DEF TypeOK
  <2>2. CASE UNCHANGED budgetVars BY <2>2 DEF budgetVars, ReserveInv
  <2> QED BY <2>1, <2>2, EitherSteps
<1>3. TypeOK /\ ReserveInv => ReserveIsLeft BY ReserveInvImplies DEF TypeOK
<1> QED BY <1>1, <1>2, <1>3, MainWorkerTypeCorrect, PTL DEF Spec

-----------------------------------------------------------------------------
(* The token.                                                              *)

\* The waits before an attempt, without their jitter.
Waited(attempt) ==
  CASE attempt = 1 -> 0 [] attempt = 2 -> 1 [] attempt = 3 -> 3
    [] attempt = 4 -> 7 [] OTHER -> 15

\* What a call's token has lost since it passed the margin.
LapseInv ==
  Attempting =>
    call.token + call.spent + Waited(call.attempt) + call.attempt - 1 > Margin

LEMMA LapseInvStep ==
  ASSUME BudgetTypeOK, LapseInv, BudgetStep
  PROVE  LapseInv'
<1> USE DEF LapseInv, Attempting
<1>1. CASE call' = NoCall BY <1>1 DEF NoCall
<1>2. CASE call' = call BY <1>2
<1>3. CASE StartCall BY <1>3 DEF StartCall, Waited, Margin, Lifetime
<1>4. ASSUME NEW seconds \in Durations, Fails(seconds), call.attempt < MaxAttempts
      PROVE  LapseInv'
  <2>1. PICK jitter \in 0..1 :
          call' = [attempt |-> call.attempt + 1,
                   token |-> call.token - seconds - Delay[call.attempt] - jitter,
                   spent |-> call.spent + seconds]
    BY <1>4 DEF Fails
  <2>2. call.attempt \in 1..4
    BY <1>4 DEF BudgetTypeOK, MaxAttempts, Fails
  <2>3. Waited(call.attempt + 1) = Waited(call.attempt) + Delay[call.attempt]
    BY <2>2 DEF Waited, Delay, MaxAttempts
  <2>4. Waited(call.attempt) \in Int /\ Delay[call.attempt] \in Int
    BY <2>2 DEF Waited, Delay, MaxAttempts
  <2>5. /\ call.token \in Int /\ call.spent \in Int /\ Attempting
        /\ seconds \in Nat
    BY <2>2, <1>4, CallBudgetAssumption DEF BudgetTypeOK
  <2>6. call.token + call.spent + Waited(call.attempt) + call.attempt - 1 > 60
    BY <2>5 DEF Margin
  <2> QED BY <2>1, <2>2, <2>3, <2>4, <2>5, <2>6 DEF Margin
<1>5. \/ call' = NoCall \/ call' = call \/ StartCall
      \/ \E seconds \in Durations : Fails(seconds) /\ call.attempt < MaxAttempts
  BY DEF BudgetStep, StartCheck, StartIngest, Finish, JobDies, EndJob, LearnQuota,
         QuotaUnknowable, NoToken, Raise, Answered, Refused, Lapsed, Rejected, DayBreaks, Fails
<1> QED BY <1>1, <1>2, <1>3, <1>4, <1>5

\* Whatever time attempts may take: one carries a token that has lapsed only
\* where the attempts of its call before it took more than 41 seconds together.
THEOREM LapsesTakeSlowAttempts == Spec => []LapsesOnlyAfterSlowAttempts
<1>1. Init => LapseInv BY DEF Init, BudgetInit, NoCall, LapseInv, Attempting
<1>2. TypeOK /\ LapseInv /\ [Next]_vars => LapseInv'
  <2> SUFFICES ASSUME TypeOK, LapseInv, [Next]_vars PROVE LapseInv'
    OBVIOUS
  <2>1. CASE BudgetStep BY <2>1, LapseInvStep DEF TypeOK
  <2>2. CASE UNCHANGED budgetVars BY <2>2 DEF budgetVars, LapseInv, Attempting
  <2> QED BY <2>1, <2>2, EitherSteps
<1>3. TypeOK /\ LapseInv => LapsesOnlyAfterSlowAttempts
  <2> SUFFICES ASSUME TypeOK, LapseInv, Attempting, call.token <= 0
               PROVE  call.spent > 41
    BY DEF LapsesOnlyAfterSlowAttempts
  <2>1. call.attempt \in 1..5 /\ call.token \in Int /\ call.spent \in Nat
    BY DEF TypeOK, BudgetTypeOK, MaxAttempts, Attempting
  <2>2. Waited(call.attempt) \in 0..15 BY <2>1 DEF Waited
  <2> QED BY <2>1, <2>2 DEF LapseInv, Margin
<1> QED BY <1>1, <1>2, <1>3, MainWorkerTypeCorrect, PTL DEF Spec

-----------------------------------------------------------------------------
(* The feed.                                                               *)

NoOlder(shown, time) == shown # NoScan /\ time # NoScan => shown >= time

\* The deals are of the scan their time names or of a later one, of the scan
\* under way once it has cached them, and the time a reader holds is no better.
FeedInv ==
  /\ NoOlder(deals, scannedAt)
  /\ scan.stage = "cached" => deals \in {scans, NoScan}
  /\ reader.stage = "timed" => NoOlder(deals, reader.time)
  /\ reader.stage = "read" => NoOlder(reader.deals, reader.time)

LEMMA FeedInvStep ==
  ASSUME AlertsTypeOK, FeedInv, ScanStep \/ OtherStep
  PROVE  FeedInv'
<1> USE DealAlertsAssumption
    DEF AlertsTypeOK, ScanNumbers, FeedInv, NoOlder, NotScanning, NotReading
<1>1. CASE StartScan BY <1>1 DEF StartScan
<1>2. CASE SetDeals BY <1>2 DEF SetDeals
<1>3. CASE SetTime BY <1>3 DEF SetTime
<1>4. CASE Sift BY <1>4 DEF Sift
<1>5. CASE Post BY <1>5 DEF Post
<1>6. CASE PostFails BY <1>6 DEF PostFails
<1>7. CASE ReplyIsLost BY <1>7 DEF ReplyIsLost
<1>8. CASE Mark BY <1>8 DEF Mark
<1>9. CASE FinishScan BY <1>9 DEF FinishScan
<1>10. CASE ScanDies BY <1>10 DEF ScanDies
<1>11. CASE RedisForgets BY <1>11 DEF RedisForgets
<1>12. CASE DealsExpire BY <1>12 DEF DealsExpire
<1>13. CASE TimeExpires BY <1>13 DEF TimeExpires
<1>14. CASE ReadTime BY <1>14 DEF ReadTime
<1>15. CASE ReadDeals BY <1>15 DEF ReadDeals
<1>16. CASE Respond BY <1>16 DEF Respond
<1> QED BY <1>1, <1>2, <1>3, <1>4, <1>5, <1>6, <1>7, <1>8, <1>9, <1>10,
           <1>11, <1>12, <1>13, <1>14, <1>15, <1>16 DEF ScanStep, OtherStep

\* The feed never claims to be fresher than it is, however scans, expiries and
\* losses of Redis fall between its two reads.
THEOREM FeedIsHonest == Spec => []FeedIsNoOlderThanItSays
<1>1. Init => FeedInv
  BY DEF Init, AlertInit, FeedInv, NoOlder, NotScanning, NotReading
<1>2. TypeOK /\ FeedInv /\ [Next]_vars => FeedInv'
  <2> SUFFICES ASSUME TypeOK, FeedInv, [Next]_vars PROVE FeedInv'
    OBVIOUS
  <2>1. CASE ScanStep \/ OtherStep BY <2>1, FeedInvStep DEF TypeOK
  <2>2. CASE UNCHANGED alertVars BY <2>2 DEF alertVars, FeedInv, NoOlder
  <2> QED BY <2>1, <2>2, EitherAlerts
<1>3. FeedInv => FeedIsNoOlderThanItSays BY DEF FeedInv, NoOlder, FeedIsNoOlderThanItSays
<1> QED BY <1>1, <1>2, <1>3, MainWorkerTypeCorrect, PTL DEF Spec

-----------------------------------------------------------------------------
(* The alerts.                                                             *)

\* Posted, and marked or about to be.
Settled == alerted \cup (IF scan.stage = "posted" THEN scan.fresh ELSE {})

\* What a scan is about to post is not marked; a listing's messages are paid for
\* by its mark and by faults; what is settled was told, or a better one was.
AlertInv ==
  /\ scan.stage = "sifted" => scan.fresh \cap alerted = {} /\ scan.fresh # {}
  /\ \A l \in Listings : told[l] <= faults + (IF l \in Settled THEN 1 ELSE 0)
  /\ \A l \in Settled : told[l] > 0 \/ \E m \in Listings : m < l /\ told[m] > 0

\* A message leaves every fresh deal told, or a better one, and tells none twice.
LEMMA Telling ==
  ASSUME AlertsTypeOK, AlertInv, scan.stage = "sifted", Tell
  PROVE  /\ \A l \in Listings \ scan.fresh : told'[l] = told[l]
         /\ \A l \in Listings : told'[l] >= told[l]
         /\ \A l \in scan.fresh : told'[l] <= faults + 1
         /\ \A l \in scan.fresh :
              told'[l] > 0 \/ \E m \in Listings : m < l /\ told'[m] > 0
<1>1. PICK named \in SUBSET scan.fresh :
        /\ IsNamed(named)
        /\ told' = [l \in Listings |-> told[l] + (IF l \in named THEN 1 ELSE 0)]
  BY DEF Tell
<1>2. told \in [Listings -> Nat] /\ scan.fresh \subseteq Listings /\ faults \in Nat
  BY DealAlertsAssumption DEF AlertsTypeOK
<1>3. \A l \in Listings \ scan.fresh : told'[l] = told[l]
  BY <1>1, <1>2
<1>4. \A l \in Listings : told'[l] >= told[l]
  BY <1>1, <1>2
<1>5. \A l \in scan.fresh : told'[l] <= faults + 1
  <2> SUFFICES ASSUME NEW l \in scan.fresh PROVE told'[l] <= faults + 1
    OBVIOUS
  <2>1. l \notin Settled BY DEF Settled, AlertInv
  <2>2. told[l] <= faults BY <1>2, <2>1 DEF AlertInv
  <2> QED BY <1>1, <1>2, <2>2
<1>6. ASSUME NEW l \in scan.fresh
      PROVE  told'[l] > 0 \/ \E m \in Listings : m < l /\ told'[m] > 0
  <2>1. CASE l \in named BY <1>1, <1>2, <2>1
  <2>2. CASE l \notin named
    <3>1. PICK m \in named : TRUE BY <1>1 DEF IsNamed
    <3>2. m < l
      <4>1. ~(l < m) BY <1>1, <2>2, <3>1 DEF IsNamed
      <4>2. l \in Nat /\ m \in Nat /\ l # m BY <1>2, <2>2, <3>1, DealAlertsAssumption
      <4> QED BY <4>1, <4>2
    <3>3. told'[m] > 0 BY <1>1, <1>2, <3>1
    <3> QED BY <1>2, <3>1, <3>2, <3>3
  <2> QED BY <2>1, <2>2
<1> QED BY <1>3, <1>4, <1>5, <1>6

LEMMA AlertInvStep ==
  ASSUME AlertsTypeOK, AlertInv, ScanStep \/ OtherStep
  PROVE  AlertInv'
<1> USE DealAlertsAssumption DEF AlertsTypeOK, NotScanning
<1>1. CASE StartScan BY <1>1 DEF StartScan, AlertInv, Settled
<1>2. CASE SetDeals BY <1>2 DEF SetDeals, AlertInv, Settled
<1>3. CASE SetTime BY <1>3 DEF SetTime, AlertInv, Settled
<1>4. CASE Sift BY <1>4 DEF Sift, AlertInv, Settled
<1>5. CASE Post
  <2>1. /\ Tell /\ scan.stage = "sifted" /\ alerted' = alerted /\ faults' = faults
        /\ scan' = [scan EXCEPT !.stage = "posted"]
    BY <1>5 DEF Post
  <2>2. Settled' = alerted \cup scan.fresh /\ Settled = alerted
    BY <2>1 DEF Settled
  <2>3. scan'.stage # "sifted" BY <2>1
  <2>4. ASSUME NEW l \in Listings
        PROVE  told'[l] <= faults' + (IF l \in Settled' THEN 1 ELSE 0)
    BY <2>1, <2>2, Telling DEF AlertInv
  <2>5. ASSUME NEW l \in Settled'
        PROVE  told'[l] > 0 \/ \E m \in Listings : m < l /\ told'[m] > 0
    <3>1. CASE l \in scan.fresh BY <2>1, <3>1, Telling
    <3>2. CASE l \in alerted
      <4>1. told[l] > 0 \/ \E m \in Listings : m < l /\ told[m] > 0
        BY <2>2, <3>2 DEF AlertInv
      <4>2. \A m \in Listings : told'[m] \in Nat /\ told[m] \in Nat /\ told'[m] >= told[m]
        BY <2>1, Telling DEF Tell
      <4> QED BY <3>2, <4>1, <4>2
    <3> QED BY <2>2, <3>1, <3>2
  <2> QED BY <2>3, <2>4, <2>5 DEF AlertInv
<1>6. CASE PostFails BY <1>6 DEF PostFails, AlertInv, Settled
<1>7. CASE ReplyIsLost
  <2>1. /\ Tell /\ scan.stage = "sifted" /\ alerted' = alerted /\ faults' = faults + 1
        /\ scan' = NotScanning
    BY <1>7 DEF ReplyIsLost
  <2>2. Settled' = alerted /\ Settled = alerted BY <2>1 DEF Settled
  <2>3. scan'.stage # "sifted" BY <2>1
  <2>4. ASSUME NEW l \in Listings
        PROVE  told'[l] <= faults' + (IF l \in Settled' THEN 1 ELSE 0)
    <3>1. CASE l \in scan.fresh
      <4>1. l \notin alerted BY <2>1, <3>1 DEF AlertInv
      <4> QED BY <2>1, <2>2, <3>1, <4>1, Telling
    <3>2. CASE l \notin scan.fresh
      <4>1. told'[l] = told[l] BY <2>1, <3>2, Telling
      <4>2. told[l] <= faults + (IF l \in alerted THEN 1 ELSE 0)
        BY <2>2 DEF AlertInv
      <4>3. told[l] \in Nat /\ faults \in Nat OBVIOUS
      <4> QED BY <2>1, <2>2, <4>1, <4>2, <4>3
    <3> QED BY <3>1, <3>2
  <2>5. ASSUME NEW l \in Settled'
        PROVE  told'[l] > 0 \/ \E m \in Listings : m < l /\ told'[m] > 0
    <3>1. told[l] > 0 \/ \E m \in Listings : m < l /\ told[m] > 0
      BY <2>2 DEF AlertInv
    <3>2. \A m \in Listings : told'[m] \in Nat /\ told[m] \in Nat /\ told'[m] >= told[m]
      BY <2>1, Telling DEF Tell
    <3> QED BY <2>2, <3>1, <3>2
  <2> QED BY <2>3, <2>4, <2>5 DEF AlertInv
<1>8. CASE Mark
  <2>1. PICK l \in scan.fresh :
          alerted' = alerted \cup {l} /\ scan' = [scan EXCEPT !.fresh = @ \ {l}]
    BY <1>8 DEF Mark
  <2>2. Settled' = Settled BY <1>8, <2>1 DEF Mark, Settled
  <2> QED BY <1>8, <2>1, <2>2 DEF Mark, AlertInv
<1>9. CASE FinishScan
  <2>1. Settled' = Settled BY <1>9 DEF FinishScan, Settled
  <2> QED BY <1>9, <2>1 DEF FinishScan, AlertInv
<1>10. CASE ScanDies
  <2>1. Settled' \subseteq Settled BY <1>10 DEF ScanDies, Settled
  <2> QED BY <1>10, <2>1 DEF ScanDies, AlertInv
<1>11. CASE RedisForgets
  <2>1. Settled' \subseteq Settled BY <1>11 DEF RedisForgets, Settled
  <2> QED BY <1>11, <2>1 DEF RedisForgets, AlertInv
<1>12. CASE OtherStep /\ ~RedisForgets
  BY <1>12 DEF OtherStep, DealsExpire, TimeExpires, ReadTime, ReadDeals, Respond,
               AlertInv, Settled
<1> QED BY <1>1, <1>2, <1>3, <1>4, <1>5, <1>6, <1>7, <1>8, <1>9, <1>10,
           <1>11, <1>12 DEF ScanStep

LEMMA AlertInvHolds == Spec => []AlertInv
<1>1. Init => AlertInv BY DEF Init, AlertInit, AlertInv, Settled, NotScanning
<1>2. TypeOK /\ AlertInv /\ [Next]_vars => AlertInv'
  <2> SUFFICES ASSUME TypeOK, AlertInv, [Next]_vars PROVE AlertInv'
    OBVIOUS
  <2>1. CASE ScanStep \/ OtherStep BY <2>1, AlertInvStep DEF TypeOK
  <2>2. CASE UNCHANGED alertVars BY <2>2 DEF alertVars, AlertInv, Settled
  <2> QED BY <2>1, <2>2, EitherAlerts
<1> QED BY <1>1, <1>2, MainWorkerTypeCorrect, PTL DEF Spec

\* Every announcement of a deal after its first takes a fault of its own.
THEOREM RepeatsTakeFaults == Spec => []RepeatsAreFaults
<1>1. TypeOK /\ AlertInv => RepeatsAreFaults
  BY DEF TypeOK, AlertsTypeOK, AlertInv, RepeatsAreFaults
<1> QED BY <1>1, AlertInvHolds, MainWorkerTypeCorrect, PTL

\* A deal is kept silent only for a better one that was announced.
THEOREM SilenceIsForABetterOne == Spec => []SilentOnlyForABetterOne
<1>1. AlertInv => SilentOnlyForABetterOne
  BY DEF AlertInv, Settled, SilentOnlyForABetterOne
<1> QED BY <1>1, AlertInvHolds, PTL

=============================================================================
