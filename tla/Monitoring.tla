----------------------------- MODULE Monitoring -----------------------------
(***************************************************************************)
(* Hour by hour: the scraper's CronJob with the retries of fetch           *)
(* (apps/scraper/fetch.py) and of its Jobs, the freshness it leaves in     *)
(* PostgreSQL and in Redis, and who looks at it: the hourly watchdog       *)
(* (apps/scraper/watchdog.py) and the freshness badge (routers/badges.py). *)
(*                                                                         *)
(* Ages are whole hours struck since the event.  An age of n hours in      *)
(* truth is any time between n - 1 and n + 1 hours, so at the threshold    *)
(* itself a comparison may go either way.                                  *)
(***************************************************************************)
EXTENDS Naturals

CONSTANTS
    None,          \* no run has succeeded, no stamp is written
    Period,        \* hours between two schedules of the scraper
    StaleAfter,    \* STALE_THRESHOLD, in hours
    GreenBefore,   \* the badge is green before, ...
    RedFrom,       \* ... and red from this age on
    PageAttempts,  \* max_attempts for the EU page
    JsonAttempts,  \* max_attempts for the JSON endpoint
    BackoffLimit   \* restarts of the scraper's container

ASSUME MonitoringAssumption ==
    /\ {Period, PageAttempts, JsonAttempts} \subseteq Nat \ {0}
    /\ BackoffLimit \in Nat
    /\ {StaleAfter, GreenBefore, RedFrom} \subseteq Nat
    /\ None \notin Nat
    /\ GreenBefore < StaleAfter /\ StaleAfter + 1 < RedFrom

VARIABLES
    hour,      \* hours into the period
    healthy,   \* from here on no fault occurs
    due,       \* the scraper's schedule of this period is still to be met
    stage,     \* where the Job is
    attempt,   \* number of the GET fetch is at
    ending,    \* how the container ends: "success", "partial" or "failed"
    restarts,  \* containers of the Job that have failed
    requests,  \* GETs sent to the EU since the Job was created
    dataAge,   \* hours since completed_at of the latest run with data
    stampAge,  \* hours since dsa:last_scrape_completed_at, as Redis has it
    watch      \* this hour's watchdog

world == <<hour, healthy, watch>>
run == <<attempt, ending, restarts, requests>>
ages == <<dataAge, stampAge>>
vars == <<world, due, stage, run, ages>>

Stage == {"idle", "stuck", "clone", "start", "page", "json", "commit", "stamp", "exit"}

Watch == {"due", "again", "crashed", "missed", "quiet", "alarmed", "unsent"}

MaxAge == RedFrom + 1   \* bound: an age is not counted beyond

\* Bound: requests are not counted beyond what the properties allow.
MaxRequests == (BackoffLimit + 1) * (PageAttempts + JsonAttempts)

Age == 0..MaxAge \union {None}

Older(age) == IF age = None THEN None ELSE IF age < MaxAge THEN age + 1 ELSE age

Init ==
    /\ hour = 0
    /\ healthy = FALSE
    /\ due = TRUE
    /\ stage = "idle"
    /\ attempt = 1
    /\ ending = "failed"
    /\ restarts = 0
    /\ requests = 0
    /\ dataAge = None
    /\ stampAge = None
    /\ watch = "due"

Faulty == ~healthy

-----------------------------------------------------------------------------
(***************************************************************************)
(* fetch: what it makes of an answer.                                      *)
(***************************************************************************)
\* "redirect" is a 3xx without a Location; a redirect loop and a body that
\* does not decode are neither transport nor status errors of httpx.
AnswerClass ==
    {"ok", "server error", "422 or 429", "client error", "transport",
     "redirect", "redirect loop", "undecodable"}

Retryable == {"server error", "422 or 429", "transport", "redirect"}

\* Mutant of Verdict: one attempt too many.
VerdictLate(answer, nth, max) ==
    IF answer = "ok" THEN "body"
    ELSE IF answer \in Retryable /\ nth <= max THEN "again"
    ELSE "error"

\* FetchError, or an exception fetch does not catch: the run fails by either.
Verdict(answer, nth, max) ==
    IF answer = "ok" THEN "body"
    ELSE IF answer \in Retryable /\ nth < max THEN "again"
    ELSE "error"

Goto(s, e) == stage' = s /\ ending' = e

Fail == Goto("exit", "failed")

\* One GET of the stage at, that leads to next.
Get(at, max, next) ==
    /\ stage = at
    /\ requests' = IF requests > MaxRequests THEN requests ELSE requests + 1
    /\ \E answer \in IF healthy THEN {"ok"} ELSE AnswerClass :
           CASE Verdict(answer, attempt, max) = "body" ->
                    /\ attempt' = 1
                    /\ Goto(next, ending)
             [] Verdict(answer, attempt, max) = "again" ->
                    /\ attempt' = attempt + 1
                    /\ UNCHANGED <<stage, ending>>
             [] OTHER -> attempt' = 1 /\ Fail
    /\ UNCHANGED <<world, due, restarts, ages>>

GetPage == Get("page", PageAttempts, "json")

GetJson == Get("json", JsonAttempts, "commit")

-----------------------------------------------------------------------------
(***************************************************************************)
(* A Job of the scraper.                                                   *)
(***************************************************************************)
\* Mutant of Restarted: a container that fails is not counted.
RestartedUncounted(n) == n

\* Counted against backoffLimit.
Restarted(n) == n + 1

CreateJob ==
    /\ due
    /\ stage = "idle"
    /\ due' = FALSE
    /\ stage' = "clone"
    /\ UNCHANGED <<world, run, ages>>

\* A Job that still runs forbids the next one; after startingDeadlineSeconds
\* a schedule nobody met is given up.
SkipSchedule ==
    /\ due
    /\ stage = "stuck" \/ Faulty
    /\ due' = FALSE
    /\ UNCHANGED <<world, stage, run, ages>>

\* No container starts without the clone of dsa-data.
CloneRepository ==
    /\ stage = "clone"
    /\ stage' = "start"
    /\ UNCHANGED <<world, due, run, ages>>

\* The init container is retried like any other.
CloneFails ==
    /\ Faulty
    /\ stage = "clone"
    /\ IF restarts < BackoffLimit
       THEN restarts' = Restarted(restarts) /\ UNCHANGED stage
       ELSE restarts' = 0 /\ stage' = "idle"
    /\ UNCHANGED <<world, due, attempt, ending, requests, ages>>

\* An image that cannot be pulled leaves the pod waiting, for hours maybe.
PodStuck ==
    /\ stage = "start"
    /\ Faulty
    /\ stage' = "stuck"
    /\ UNCHANGED <<world, due, run, ages>>

PodReleased ==
    /\ stage = "stuck"
    /\ stage' = "start"
    /\ UNCHANGED <<world, due, run, ages>>

StartRun ==
    /\ stage = "start"
    /\ stage' = "page"
    /\ UNCHANGED <<world, due, run, ages>>

\* The transaction of the run; rows in error make it partial.
CommitRun ==
    /\ stage = "commit"
    /\ \E outcome \in {"success", "partial"} : Goto("stamp", outcome)
    /\ dataAge' = 0
    /\ UNCHANGED <<world, due, attempt, restarts, requests, stampAge>>

\* Mutant of WriteStamp: only a run without errors writes the stamp.
WriteStampOfSuccess ==
    /\ stage = "stamp"
    /\ stage' = "exit"
    /\ IF ending = "success" THEN stampAge' = 0 ELSE UNCHANGED stampAge
    /\ UNCHANGED <<world, due, run, dataAge>>

\* The stamp, best effort: it may be lost.
WriteStamp ==
    /\ stage = "stamp"
    /\ stage' = "exit"
    /\ stampAge' = 0 \/ (Faulty /\ UNCHANGED stampAge)
    /\ UNCHANGED <<world, due, run, dataAge>>

\* Anything else that ends the container early: the database away, a page
\* without the URL, an envelope that is not one, a row of another type, an
\* out-of-memory kill, at the latest while it exports.
ContainerFails ==
    /\ Faulty
    /\ stage \in {"start", "page", "json", "commit", "stamp", "exit"}
    /\ Fail
    /\ attempt' = 1
    /\ UNCHANGED <<world, due, restarts, requests, ages>>

\* Redis is restarted without its data.
RedisForgets ==
    /\ Faulty
    /\ stampAge' = None
    /\ UNCHANGED <<world, due, stage, run, dataAge>>

\* Mutant of StampFailure: the stamp is written in a finally clause.
StampFailureToo == stampAge' = 0

\* A failed run leaves the stamp alone.
StampFailure == UNCHANGED stampAge

\* Any exit code but 0 restarts the container, that of a partial run (2)
\* included, until backoffLimit.
ContainerExits ==
    /\ stage = "exit"
    /\ IF ending # "success" /\ restarts < BackoffLimit
       THEN stage' = "start" /\ restarts' = Restarted(restarts) /\ UNCHANGED requests
       ELSE stage' = "idle" /\ restarts' = 0 /\ requests' = 0
    /\ ending' = "failed"
    /\ IF ending = "failed" THEN StampFailure ELSE UNCHANGED stampAge
    /\ UNCHANGED <<world, due, attempt, dataAge>>

-----------------------------------------------------------------------------
(***************************************************************************)
(* Those who look.                                                         *)
(***************************************************************************)
\* The possible results of comparing an age with a number of hours.
Exceeds(age, h) == IF age > h THEN {TRUE} ELSE IF age < h THEN {FALSE} ELSE BOOLEAN

\* Mutant of Stale: the threshold of the badge.
StaleSoon(age) == IF age = None THEN {TRUE} ELSE Exceeds(age, GreenBefore)

\* Mutant of Stale: a missing stamp is no reason to worry.
StaleIfPresent(age) == IF age = None THEN {FALSE} ELSE Exceeds(age, StaleAfter)

Stale(age) == IF age = None THEN {TRUE} ELSE Exceeds(age, StaleAfter)

\* Redis answers.  Slack need not: notify_slack never raises.
Look ==
    /\ watch \in {"due", "again"}
    /\ \E stale \in Stale(stampAge) :
           watch' \in IF stale THEN {"alarmed"} \union (IF Faulty THEN {"unsent"} ELSE {})
                      ELSE {"quiet"}
    /\ UNCHANGED <<hour, healthy, due, stage, run, ages>>

\* Redis does not: the read is not guarded, and backoffLimit is 1.
WatchdogRaises ==
    /\ watch \in {"due", "again"}
    /\ Faulty
    /\ watch' = IF watch = "due" THEN "again" ELSE "crashed"
    /\ UNCHANGED <<hour, healthy, due, stage, run, ages>>

WatchdogMissed ==
    /\ watch = "due"
    /\ Faulty
    /\ watch' = "missed"
    /\ UNCHANGED <<hour, healthy, due, stage, run, ages>>

\* The colours the badge may have.
FreshnessColor(age) ==
    IF age = None THEN {"lightgrey"}
    ELSE {c \in {"brightgreen", "yellow", "red"} :
             CASE c = "brightgreen" -> FALSE \in Exceeds(age, GreenBefore)
               [] c = "red"         -> TRUE \in Exceeds(age, RedFrom)
               [] OTHER -> /\ TRUE \in Exceeds(age, GreenBefore)
                           /\ FALSE \in Exceeds(age, RedFrom)}

-----------------------------------------------------------------------------
\* The clock strikes.  A run is over within its hour: its GETs are few and
\* every one has a timeout.
Strike ==
    /\ ~due
    /\ stage \in {"idle", "stuck"}
    /\ watch \notin {"due", "again"}
    /\ hour' = (hour + 1) % Period
    /\ due' = (hour' = 0)
    /\ watch' = "due"
    /\ dataAge' = Older(dataAge)
    /\ stampAge' = Older(stampAge)
    /\ UNCHANGED <<healthy, stage, run>>

Heal ==
    /\ Faulty
    /\ healthy' = TRUE
    /\ UNCHANGED <<hour, watch, due, stage, run, ages>>

Step ==
    \/ CreateJob
    \/ CloneRepository
    \/ StartRun
    \/ GetPage
    \/ GetJson
    \/ CommitRun
    \/ WriteStamp
    \/ ContainerExits
    \/ Look
    \/ Strike

Next ==
    \/ Step
    \/ SkipSchedule
    \/ CloneFails
    \/ PodStuck
    \/ PodReleased
    \/ ContainerFails
    \/ RedisForgets
    \/ WatchdogRaises
    \/ WatchdogMissed
    \/ Heal

Spec == Init /\ [][Next]_vars

\* The cluster runs what it has created, and time passes.  A pod that is
\* stuck need not be released as long as there are faults.
FairSpec ==
    /\ Spec
    /\ WF_vars(Step)
    /\ WF_vars(healthy /\ PodReleased)

-----------------------------------------------------------------------------
(***************************************************************************)
(* Properties.                                                             *)
(***************************************************************************)
\* The variables keep their types, and the stamp is never newer than the
\* data: both come of runs that committed.
TypeOK ==
    /\ hour \in 0..(Period - 1)
    /\ stage \in Stage
    /\ watch \in Watch
    /\ restarts \in 0..BackoffLimit
    /\ dataAge \in Age
    /\ stampAge \in Age
    /\ stampAge # None => dataAge # None /\ dataAge <= stampAge

\* As long as the watchdog is quiet the register is no older than its
\* threshold allows, and the badge, which looks at the database instead of
\* Redis, does not show red or grey.
QuietMeansFresh ==
    watch = "quiet" =>
        /\ dataAge # None /\ dataAge <= StaleAfter
        /\ FreshnessColor(dataAge) \intersect {"red", "lightgrey"} = {}

\* A false alarm has one cause: a run committed and its stamp was lost, when
\* it was written or later.
AlarmMeansStaleOrStampLost ==
    [][watch' \in {"alarmed", "unsent"} /\ watch' # watch =>
           \/ dataAge = None \/ dataAge >= StaleAfter
           \/ stampAge = None \/ stampAge > dataAge]_vars

\* A schedule costs the EU a bounded number of requests, whatever it answers:
\* the attempts of both fetches, once per container.
UpstreamLoadIsBounded == requests <= MaxRequests

\* Once no fault occurs any more, the mirror is renewed within one period,
\* and from then on always; the watchdog falls silent with it.
Recovers ==
    healthy ~> [](/\ dataAge # None /\ dataAge <= Period
                  /\ watch \notin {"alarmed", "unsent", "crashed", "missed"})

\* Every Job ends but one that is stuck.
JobsEnd == stage \notin {"idle", "stuck"} ~> stage \in {"idle", "stuck"}
=============================================================================
