-------------------------- MODULE MonitoringProofs --------------------------
(***************************************************************************)
(* Theorems about Monitoring, for every schedule, threshold, number of     *)
(* attempts and number of restarts, with every fault: what the watchdog's  *)
(* silence and its alarms mean, and what a schedule costs the EU at most.  *)
(***************************************************************************)
EXTENDS Monitoring, TLAPS

-----------------------------------------------------------------------------
(***************************************************************************)
(* Ages                                                                    *)
(***************************************************************************)
\* The constants are numbers.
LEMMA Numbers ==
    /\ Period \in Nat \ {0} /\ PageAttempts \in Nat \ {0} /\ JsonAttempts \in Nat \ {0}
    /\ BackoffLimit \in Nat
    /\ StaleAfter \in Nat /\ GreenBefore \in Nat /\ RedFrom \in Nat
    /\ MaxAge \in Nat
    /\ None \notin Nat
  BY MonitoringAssumption DEF MaxAge

\* An hour more is an age again, none stays none, and of two ages the greater
\* stays the greater.
LEMMA OlderAges ==
    ASSUME NEW a \in Age, NEW b \in Age
    PROVE  /\ Older(a) \in Age
           /\ Older(a) = None <=> a = None
           /\ a # None /\ b # None /\ a <= b => Older(a) <= Older(b)
  BY Numbers DEF Age, Older

\* The hour of the period stays one.
LEMMA HourOfPeriod ==
    ASSUME NEW n \in Nat
    PROVE  (n + 1) % Period \in 0..(Period - 1)
  BY Numbers

-----------------------------------------------------------------------------
(***************************************************************************)
(* The stamp is never newer than the data.  Between the transaction and    *)
(* the stamp no hour strikes, so the data are new when the stamp is        *)
(* written; TypeOK alone does not know that.                               *)
(***************************************************************************)
StampFollowsCommit == stage = "stamp" => dataAge = 0

AgesInv == TypeOK /\ StampFollowsCommit

LEMMA InitAgesInv == Init => AgesInv
  BY Numbers DEF Init, AgesInv, TypeOK, StampFollowsCommit, Stage, Watch, Age

LEMMA StepAgesInv == AgesInv /\ [Next]_vars => AgesInv'
<1> SUFFICES ASSUME AgesInv, [Next]_vars PROVE AgesInv'
  OBVIOUS
<1> USE Numbers DEF AgesInv, TypeOK, StampFollowsCommit, Stage, Watch, world, run, ages
<1>1. CASE CreateJob
  BY <1>1 DEF CreateJob
<1>2. CASE CloneRepository
  BY <1>2 DEF CloneRepository
<1>3. CASE StartRun
  BY <1>3 DEF StartRun
<1>4. CASE GetPage
  BY <1>4 DEF GetPage, Get, Goto, Fail
<1>5. CASE GetJson
  BY <1>5 DEF GetJson, Get, Goto, Fail
<1>6. CASE CommitRun
  BY <1>6 DEF CommitRun, Goto, Age
<1>7. CASE WriteStamp
  BY <1>7 DEF WriteStamp, Age
<1>8. CASE ContainerExits
  BY <1>8 DEF ContainerExits, StampFailure, Restarted
<1>9. CASE Look
  BY <1>9 DEF Look
<1>10. CASE Strike
  <2>1. hour' \in 0..(Period - 1)
    BY <1>10, HourOfPeriod DEF Strike
  <2>2. /\ dataAge' \in Age /\ stampAge' \in Age
        /\ stampAge' # None => dataAge' # None /\ dataAge' <= stampAge'
    BY <1>10, OlderAges DEF Strike
  <2> QED
    BY <1>10, <2>1, <2>2 DEF Strike
<1>11. CASE SkipSchedule
  BY <1>11 DEF SkipSchedule
<1>12. CASE CloneFails
  BY <1>12 DEF CloneFails, Restarted
<1>13. CASE PodStuck
  BY <1>13 DEF PodStuck
<1>14. CASE PodReleased
  BY <1>14 DEF PodReleased
<1>15. CASE ContainerFails
  BY <1>15 DEF ContainerFails, Goto, Fail
<1>16. CASE RedisForgets
  BY <1>16 DEF RedisForgets, Age
<1>17. CASE WatchdogRaises
  BY <1>17 DEF WatchdogRaises
<1>18. CASE WatchdogMissed
  BY <1>18 DEF WatchdogMissed
<1>19. CASE Heal
  BY <1>19 DEF Heal
<1>20. CASE UNCHANGED vars
  BY <1>20 DEF vars
<1> QED
  BY <1>1, <1>2, <1>3, <1>4, <1>5, <1>6, <1>7, <1>8, <1>9, <1>10, <1>11, <1>12,
     <1>13, <1>14, <1>15, <1>16, <1>17, <1>18, <1>19, <1>20 DEF Next, Step

LEMMA AlwaysAgesInv == Spec => []AgesInv
  BY InitAgesInv, StepAgesInv, PTL DEF Spec

\* Types, restarts within backoffLimit, and a stamp in Redis that is never
\* newer than the data in PostgreSQL, whatever fails.
THEOREM SpecTypeOK == Spec => []TypeOK
<1>1. AgesInv => TypeOK
  BY DEF AgesInv
<1> QED
  BY <1>1, AlwaysAgesInv, PTL

-----------------------------------------------------------------------------
(***************************************************************************)
(* What silence and an alarm mean.                                         *)
(***************************************************************************)
\* The watchdog sees an age no smaller than that of the data, and by the
\* time the hour strikes it has to look again.
QuietIsFresh == watch = "quiet" => dataAge # None /\ dataAge <= StaleAfter

\* A comparison with another age has one result.
LEMMA ExceedsOf ==
    ASSUME NEW a \in Nat, NEW h \in Nat
    PROVE  /\ TRUE \in Exceeds(a, h) => a >= h
           /\ FALSE \in Exceeds(a, h) => a <= h
<1>1. ASSUME a > h PROVE FALSE \notin Exceeds(a, h)
  BY <1>1, Zenon DEF Exceeds
<1>2. ASSUME ~(a > h), a < h PROVE TRUE \notin Exceeds(a, h)
  BY <1>2, Zenon DEF Exceeds
<1>3. a < h => ~(a > h)
  OBVIOUS
<1>4. (~(a < h) => a >= h) /\ (~(a > h) => a <= h)
  OBVIOUS
<1> QED
  BY <1>1, <1>2, <1>3, <1>4, Zenon

\* An age that may be found not to exceed the threshold, ...
LEMMA NotStale ==
    ASSUME NEW a \in Age, FALSE \in Stale(a)
    PROVE  a # None /\ a <= StaleAfter
<1>1. a # None
  BY Zenon DEF Stale
<1>2. a \in Nat /\ Stale(a) = Exceeds(a, StaleAfter)
  BY <1>1, Numbers DEF Stale, Age
<1> QED
  BY <1>1, <1>2, ExceedsOf, Numbers

\* ... and one that may be found to exceed it.
LEMMA IsStale ==
    ASSUME NEW a \in Age, TRUE \in Stale(a)
    PROVE  a = None \/ a >= StaleAfter
<1>1. a # None => a \in Nat /\ Stale(a) = Exceeds(a, StaleAfter)
  BY Numbers DEF Stale, Age
<1> QED
  BY <1>1, ExceedsOf, Numbers

\* Only the hour makes the data older; a look keeps everything but the watch.
LEMMA DataAge ==
    ASSUME [Next]_vars, ~Strike
    PROVE  dataAge' = dataAge \/ dataAge' = 0
  BY DEF Next, Step, CreateJob, CloneRepository, StartRun, GetPage, GetJson, Get,
         CommitRun, WriteStamp, ContainerExits, Look, SkipSchedule, CloneFails,
         PodStuck, PodReleased, ContainerFails, RedisForgets, WatchdogRaises,
         WatchdogMissed, Heal, vars, ages

\* The watchdog falls silent, and raises an alarm, only when it looks.
LEMMA OnlyLookDecides ==
    ASSUME [Next]_vars, ~Look, watch' # watch
    PROVE  watch' \in {"due", "again", "crashed", "missed"}
  BY DEF Next, Step, CreateJob, CloneRepository, StartRun, GetPage, GetJson, Get,
         CommitRun, WriteStamp, ContainerExits, Strike, SkipSchedule, CloneFails,
         PodStuck, PodReleased, ContainerFails, RedisForgets, WatchdogRaises,
         WatchdogMissed, Heal, vars, world

LEMMA StepQuietIsFresh ==
    ASSUME AgesInv, QuietIsFresh, [Next]_vars
    PROVE  QuietIsFresh'
<1>1. CASE Strike
  BY <1>1 DEF Strike, QuietIsFresh
<1>2. CASE Look
  <2>1. dataAge' = dataAge
    BY <1>2 DEF Look, ages
  <2>2. PICK stale \in Stale(stampAge) :
           watch' \in IF stale THEN {"alarmed"} \union (IF Faulty THEN {"unsent"} ELSE {})
                      ELSE {"quiet"}
    BY <1>2 DEF Look
  <2>3. stampAge \in Age /\ dataAge \in Age
        /\ (stampAge # None => dataAge # None /\ dataAge <= stampAge)
    BY DEF AgesInv, TypeOK
  <2>4. Stale(stampAge) \subseteq BOOLEAN
    BY DEF Stale, Exceeds
  <2>5. watch' = "quiet" => ~stale
    BY <2>2
  <2>6. watch' = "quiet" => stampAge # None /\ stampAge <= StaleAfter
    BY <2>2, <2>3, <2>4, <2>5, NotStale
  <2> QED
    BY <2>1, <2>3, <2>6, Numbers DEF QuietIsFresh, Age
<1>3. CASE ~Strike /\ ~Look
  <2>1. dataAge' = dataAge \/ dataAge' = 0
    BY <1>3, DataAge
  <2>2. watch' = "quiet" => watch = "quiet"
    BY <1>3, OnlyLookDecides
  <2> QED
    BY <2>1, <2>2, Numbers DEF QuietIsFresh
<1> QED
  BY <1>1, <1>2, <1>3

\* The badge of data no older than the watchdog's threshold.
LEMMA ColorOfFresh ==
    ASSUME dataAge \in Age, dataAge # None, dataAge <= StaleAfter
    PROVE  FreshnessColor(dataAge) \intersect {"red", "lightgrey"} = {}
<1>1. dataAge \in Nat /\ dataAge < RedFrom
  BY Numbers, MonitoringAssumption DEF Age
<1>2. TRUE \notin Exceeds(dataAge, RedFrom)
  <2>1. dataAge \in Nat /\ RedFrom \in Nat /\ ~(dataAge >= RedFrom)
    BY <1>1, Numbers
  <2> QED
    BY <2>1, ExceedsOf, Zenon
<1>3. "lightgrey" \notin FreshnessColor(dataAge)
  BY <1>1 DEF FreshnessColor
<1>4. "red" \notin FreshnessColor(dataAge)
  BY <1>1, <1>2 DEF FreshnessColor
<1> QED
  BY <1>3, <1>4

\* As long as the watchdog is quiet the register is no older than its
\* threshold, and the badge, which looks at PostgreSQL instead of Redis, shows
\* neither red nor grey: whatever is lost, stuck, killed or forgotten.
THEOREM SpecQuietMeansFresh == Spec => []QuietMeansFresh
<1>1. Init => QuietIsFresh
  BY DEF Init, QuietIsFresh
<1>2. AgesInv /\ QuietIsFresh => QuietMeansFresh
  BY ColorOfFresh DEF QuietIsFresh, QuietMeansFresh, AgesInv, TypeOK
<1> QED
  BY <1>1, <1>2, StepQuietIsFresh, AlwaysAgesInv, PTL DEF Spec

\* An alarm without stale data means that a stamp was lost, when it was
\* written or later; there is no other false alarm.
THEOREM SpecAlarmMeansStaleOrStampLost == Spec => AlarmMeansStaleOrStampLost
<1>1. AgesInv /\ [Next]_vars =>
        [watch' \in {"alarmed", "unsent"} /\ watch' # watch =>
            \/ dataAge = None \/ dataAge >= StaleAfter
            \/ stampAge = None \/ stampAge > dataAge]_vars
  <2> SUFFICES ASSUME AgesInv, [Next]_vars,
                      watch' \in {"alarmed", "unsent"}, watch' # watch
               PROVE  \/ dataAge = None \/ dataAge >= StaleAfter
                      \/ stampAge = None \/ stampAge > dataAge
    OBVIOUS
  <2>1. Look
    BY OnlyLookDecides
  <2>2. PICK stale \in Stale(stampAge) :
           watch' \in IF stale THEN {"alarmed"} \union (IF Faulty THEN {"unsent"} ELSE {})
                      ELSE {"quiet"}
    BY <2>1 DEF Look
  <2>3. Stale(stampAge) \subseteq BOOLEAN
    BY DEF Stale, Exceeds
  <2>4. stale = TRUE
    BY <2>2, <2>3
  <2>5. stampAge \in Age /\ dataAge \in Age
    BY DEF AgesInv, TypeOK
  <2>6. stampAge = None \/ stampAge >= StaleAfter
    BY <2>2, <2>4, <2>5, IsStale
  <2> QED
    BY <2>5, <2>6, Numbers DEF Age
<1> QED
  BY <1>1, AlwaysAgesInv, PTL DEF Spec, AlarmMeansStaleOrStampLost

-----------------------------------------------------------------------------
(***************************************************************************)
(* What a schedule costs the EU.                                           *)
(***************************************************************************)
\* The GETs one container may send.
PerContainer == PageAttempts + JsonAttempts

\* The GETs of the containers that have failed, if n have.
Spent(n) == n * PerContainer

\* The GETs so far are those of the containers that have failed, and of this
\* one as far as it has come.  The bound alone is not inductive: a container
\* that starts may have used up what the others left.
RequestsSoFar ==
    /\ stage \in {"idle", "clone"} => requests = 0
    /\ stage \in {"start", "stuck"} => requests <= Spent(restarts)
    /\ stage = "page" => requests < Spent(restarts) + attempt
    /\ stage = "json" => requests < Spent(restarts) + PageAttempts + attempt
    /\ requests <= Spent(restarts + 1)

\* The number of the GET fetch is at is that of one of its attempts.
AttemptInRange ==
    /\ stage = "page" => attempt <= PageAttempts
    /\ stage = "json" => attempt <= JsonAttempts
    /\ stage \notin {"page", "json"} => attempt = 1

LoadInv ==
    /\ attempt \in Nat \ {0} /\ requests \in Nat
    /\ AttemptInRange
    /\ RequestsSoFar

\* Every container adds its share, and none but the last restart is the last.
LEMMA SpentBy ==
    ASSUME NEW n \in 0..BackoffLimit
    PROVE  /\ PerContainer \in Nat
           /\ Spent(n) \in Nat /\ Spent(n + 1) \in Nat
           /\ Spent(n + 1) = Spent(n) + PerContainer
           /\ Spent(n + 1) <= MaxRequests
           /\ Spent(0) = 0
<1> DEFINE k == PerContainer
<1>1. k \in Nat /\ n \in Nat /\ n + 1 <= BackoffLimit + 1 /\ BackoffLimit \in Nat
  BY Numbers DEF PerContainer
<1> HIDE DEF k
<1>2. n * k \in Nat /\ (n + 1) * k \in Nat /\ (n + 1) * k = n * k + k /\ 0 * k = 0
  BY <1>1
<1>3. (n + 1) * k <= (BackoffLimit + 1) * k
  <2>1. PICK m \in Nat : BackoffLimit + 1 = (n + 1) + m
    <3>1. /\ BackoffLimit - n \in Nat
          /\ BackoffLimit + 1 = (n + 1) + (BackoffLimit - n)
      BY <1>1
    <3> QED
      BY <3>1
  <2>2. m * k \in Nat
    BY <1>1, <2>1
  <2>3. ((n + 1) + m) * k = (n + 1) * k + m * k
    BY <1>1, <2>1
  <2> QED
    BY <1>2, <2>1, <2>2, <2>3
<1>4. MaxRequests = (BackoffLimit + 1) * k
  BY DEF MaxRequests, PerContainer, k
<1> QED
  BY <1>1, <1>2, <1>3, <1>4 DEF Spent, k

\* What one GET does: the body, another attempt, or the end of the run.
LEMMA GetOutcomes ==
    ASSUME NEW at, NEW max, NEW next, Get(at, max, next)
    PROVE  /\ stage = at
           /\ requests' = IF requests > MaxRequests THEN requests ELSE requests + 1
           /\ \/ stage' = next /\ attempt' = 1
              \/ stage' = at /\ attempt' = attempt + 1 /\ attempt < max
              \/ stage' = "exit" /\ attempt' = 1
           /\ restarts' = restarts
<1>1. /\ stage = at
      /\ requests' = IF requests > MaxRequests THEN requests ELSE requests + 1
      /\ restarts' = restarts
  BY Zenon DEF Get
<1>2. PICK answer \in IF healthy THEN {"ok"} ELSE AnswerClass :
           CASE Verdict(answer, attempt, max) = "body" ->
                    /\ attempt' = 1
                    /\ Goto(next, ending)
             [] Verdict(answer, attempt, max) = "again" ->
                    /\ attempt' = attempt + 1
                    /\ UNCHANGED <<stage, ending>>
             [] OTHER -> attempt' = 1 /\ Fail
  BY Zenon DEF Get
<1>3. /\ Verdict(answer, attempt, max) \in {"body", "again", "error"}
      /\ Verdict(answer, attempt, max) = "again" => attempt < max
  BY DEF Verdict
<1>4. CASE Verdict(answer, attempt, max) = "body"
  BY <1>1, <1>2, <1>4, Zenon DEF Goto
<1>5. CASE Verdict(answer, attempt, max) = "again"
  <2>1. attempt' = attempt + 1 /\ stage' = stage
    BY <1>2, <1>5, Zenon
  <2> QED
    BY <1>1, <1>3, <1>5, <2>1, Zenon
<1>6. CASE Verdict(answer, attempt, max) = "error"
  <2>1. attempt' = 1 /\ stage' = "exit"
    BY <1>2, <1>6, Zenon DEF Fail, Goto
  <2> QED
    BY <1>1, <2>1, Zenon
<1> QED
  BY <1>3, <1>4, <1>5, <1>6

LEMMA StepLoadInv ==
    ASSUME AgesInv, LoadInv, [Next]_vars
    PROVE  LoadInv'
<1> DEFINE k == PerContainer
           spent == Spent(restarts)
<1>0. /\ restarts \in 0..BackoffLimit /\ stage \in Stage
      /\ k = PageAttempts + JsonAttempts
      /\ k \in Nat /\ spent \in Nat /\ Spent(restarts + 1) = spent + k
      /\ Spent(0) = 0 /\ Spent(0 + 1) = k
      /\ PageAttempts \in Nat \ {0} /\ JsonAttempts \in Nat \ {0} /\ BackoffLimit \in Nat
  <2>1. restarts \in 0..BackoffLimit /\ stage \in Stage
    BY DEF AgesInv, TypeOK
  <2>2. 0 \in 0..BackoffLimit
    BY Numbers
  <2>3. Spent(0 + 1) = Spent(0) + k /\ Spent(0) = 0 /\ k \in Nat
    BY <2>2, SpentBy
  <2>4. spent \in Nat /\ Spent(restarts + 1) = spent + k
    BY <2>1, SpentBy
  <2> QED
    BY <2>1, <2>3, <2>4, Numbers DEF PerContainer
<1> USE DEF LoadInv, AttemptInRange, RequestsSoFar
<1> HIDE DEF k, spent
<1>1. ASSUME UNCHANGED <<stage, attempt, restarts, requests>> PROVE LoadInv'
  BY <1>1
<1>2. CASE CreateJob
  BY <1>0, <1>2 DEF CreateJob, run
<1>3. CASE CloneRepository
  BY <1>0, <1>3 DEF CloneRepository, run, spent
<1>4. CASE StartRun
  BY <1>0, <1>4 DEF StartRun, run, spent
<1>5. CASE GetPage
  BY <1>0, <1>5, GetOutcomes DEF GetPage, spent
<1>6. CASE GetJson
  BY <1>0, <1>6, GetOutcomes DEF GetJson, spent
<1>7. CASE CommitRun
  BY <1>7 DEF CommitRun, Goto
<1>8. CASE WriteStamp
  BY <1>8 DEF WriteStamp, run
<1>9. CASE ContainerExits
  <2>1. CASE /\ stage' = "start" /\ restarts' = restarts + 1 /\ requests' = requests
             /\ restarts < BackoffLimit
    <3>1. restarts' \in 0..BackoffLimit
      BY <1>0, <2>1
    <3>2. Spent(restarts' + 1) = Spent(restarts') + k
      BY <3>1, SpentBy DEF k
    <3>3. attempt' = 1 /\ attempt = 1 /\ requests <= Spent(restarts')
      BY <1>9, <2>1 DEF ContainerExits
    <3>4. Spent(restarts') \in Nat
      BY <1>0, <2>1
    <3> QED
      BY <1>0, <2>1, <3>2, <3>3, <3>4
  <2>2. CASE stage' = "idle" /\ restarts' = 0 /\ requests' = 0
    BY <1>0, <1>9, <2>2 DEF ContainerExits
  <2> QED
    BY <1>9, <2>1, <2>2 DEF ContainerExits, Restarted
<1>10. CASE CloneFails
  <2>1. CASE stage' = "clone" /\ restarts' = restarts + 1 /\ restarts < BackoffLimit
    <3>1. Spent(restarts' + 1) \in Nat
      <4>1. restarts' \in 0..BackoffLimit
        BY <1>0, <2>1
      <4> QED
        BY <4>1, SpentBy
    <3> QED
      BY <1>10, <2>1, <3>1 DEF CloneFails
  <2>2. CASE stage' = "idle" /\ restarts' = 0
    BY <1>0, <1>10, <2>2 DEF CloneFails
  <2> QED
    BY <1>10, <2>1, <2>2 DEF CloneFails, Restarted
<1>11. CASE PodStuck
  BY <1>11 DEF PodStuck, run
<1>12. CASE PodReleased
  BY <1>12 DEF PodReleased, run
<1>13. CASE ContainerFails
  BY <1>0, <1>13 DEF ContainerFails, Fail, Goto
<1>14. CASE Look \/ Strike \/ SkipSchedule \/ RedisForgets \/ WatchdogRaises
            \/ WatchdogMissed \/ Heal \/ UNCHANGED vars
  BY <1>1, <1>14 DEF Look, Strike, SkipSchedule, RedisForgets, WatchdogRaises,
                     WatchdogMissed, Heal, vars, run
<1> QED
  BY <1>2, <1>3, <1>4, <1>5, <1>6, <1>7, <1>8, <1>9, <1>10, <1>11, <1>12, <1>13, <1>14
  DEF Next, Step

\* A schedule costs the EU at most the attempts of both fetches, once per
\* container that backoffLimit allows, whatever the EU answers and however
\* the containers end.
THEOREM SpecUpstreamLoadIsBounded == Spec => []UpstreamLoadIsBounded
<1>1. Init => LoadInv
  <2>1. 0 \in 0..BackoffLimit
    BY Numbers
  <2> QED
    BY <2>1, SpentBy, Numbers DEF Init, LoadInv, AttemptInRange, RequestsSoFar
<1>2. AgesInv /\ LoadInv => UpstreamLoadIsBounded
  <2> SUFFICES ASSUME AgesInv, LoadInv PROVE requests <= MaxRequests
    BY DEF UpstreamLoadIsBounded
  <2>1. restarts \in 0..BackoffLimit /\ requests \in Nat /\ requests <= Spent(restarts + 1)
    BY DEF AgesInv, TypeOK, LoadInv, RequestsSoFar
  <2>2. Spent(restarts + 1) \in Nat /\ Spent(restarts + 1) <= MaxRequests
    BY <2>1, SpentBy
  <2>3. MaxRequests \in Nat
    BY Numbers DEF MaxRequests
  <2> QED
    BY <2>1, <2>2, <2>3
<1> QED
  BY <1>1, <1>2, StepLoadInv, AlwaysAgesInv, PTL DEF Spec
=============================================================================
