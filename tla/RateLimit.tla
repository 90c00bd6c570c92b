------------------------------ MODULE RateLimit ------------------------------
(***************************************************************************)
(* The sliding-window rate limiter: check_limit of core/ratelimit.py, as   *)
(* the rate_limit middleware of apps/api/main.py calls it, for the minute  *)
(* and then for the day, on the sorted sets of one client address in Redis.*)
(* Addresses have keys of their own and do not interact.                   *)
(*                                                                         *)
(* A worker is one request being handled, by any of the API's processes.   *)
(* Its pipelines are not transactions, so every Redis command is a step.   *)
(* Time passes in ticks, Sec of them to a second.                          *)
(***************************************************************************)
EXTENDS Integers, FiniteSets, Sequences

CONSTANTS
    Worker,    \* requests that may be in progress at once
    Limits,    \* the LimitConfigs in the order they are checked
    Sec,       \* ticks of a second
    Token,     \* random suffixes of the members of the sorted sets
    MaxDelay,  \* bound: age a request's clock reading may reach, in ticks
    MaxClock,  \* bound: the clock
    Faults     \* {} or {"redis"}: may a Redis command raise?

Limit == DOMAIN Limits

ASSUME RateLimitAssumption ==
    /\ IsFiniteSet(Worker) /\ Worker # {}
    /\ Limits \in Seq([window: Nat \ {0}, max: Nat]) /\ Limits # <<>>
    /\ Sec \in Nat \ {0}
    /\ MaxDelay \in Nat /\ MaxClock \in Nat

VARIABLES
    clock,
    zset,    \* the members of each limit's sorted set, with their scores
    expiry,  \* when its key expires, Never if it has no TTL
    pc,      \* where each worker is in check_limit
    limit,   \* local: the limit it is checking
    at,      \* local: now, the time it read at the start of the check
    retry    \* local: the Retry-After of its last refusal, in seconds

keys == <<zset, expiry>>
locals == <<limit, at, retry>>
vars == <<clock, zset, expiry, pc, limit, at, retry>>

Never == 0

Member == [score: Nat, token: Token]
Stage == {"trim", "count", "oldest", "add", "expire"}

\* Window of a limit, in ticks.
Window(l) == Limits[l].window * Sec

-----------------------------------------------------------------------------
Init ==
    /\ clock = 1
    /\ zset = [l \in Limit |-> {}]
    /\ expiry = [l \in Limit |-> Never]
    /\ pc = [w \in Worker |-> "idle"]
    /\ limit = [w \in Worker |-> 1]
    /\ at = [w \in Worker |-> 0]
    /\ retry = [w \in Worker |-> 0]

Goto(w, stage) == pc' = [pc EXCEPT ![w] = stage]

\* check_limit returns or raises for the last time in this request.
Leave(w) ==
    /\ Goto(w, "idle")
    /\ limit' = [limit EXCEPT ![w] = 1]
    /\ at' = [at EXCEPT ![w] = 0]

\* Time passes; Redis drops a key whose TTL is over.
Tick ==
    /\ clock < MaxClock
    /\ \A w \in Worker : pc[w] # "idle" => clock - at[w] < MaxDelay
    /\ clock' = clock + 1
    /\ zset' = [l \in Limit |->
                  IF expiry[l] # Never /\ expiry[l] <= clock' THEN {} ELSE zset[l]]
    /\ expiry' = [l \in Limit |->
                    IF expiry[l] <= clock' THEN Never ELSE expiry[l]]
    /\ UNCHANGED <<pc, locals>>

\* The check of limit l begins: now = time.time().
StartCheck(w, l) ==
    /\ limit' = [limit EXCEPT ![w] = l]
    /\ at' = [at EXCEPT ![w] = clock]
    /\ Goto(w, "trim")

\* A metered request comes in; the minute is checked first.
Arrive(w) ==
    /\ pc[w] = "idle"
    /\ StartCheck(w, 1)
    /\ retry' = [retry EXCEPT ![w] = 0]
    /\ UNCHANGED <<clock, keys>>

\* Mutant of Outdated: the window is not subtracted with its last tick.
OutdatedLate(w, m) == m.score + Window(limit[w]) < at[w]

Outdated(w, m) == m.score + Window(limit[w]) <= at[w]

\* ZREMRANGEBYSCORE; an empty sorted set is no key, and has no TTL.
Trim(w) ==
    /\ pc[w] = "trim"
    /\ LET l == limit[w]
           kept == {m \in zset[l] : ~Outdated(w, m)}
       IN  /\ zset' = [zset EXCEPT ![l] = kept]
           /\ expiry' = [expiry EXCEPT ![l] = IF kept = {} THEN Never ELSE @]
    /\ Goto(w, "count")
    /\ UNCHANGED <<clock, locals>>

\* Mutant of Full: one too many.
FullLate(l) == Cardinality(zset[l]) > Limits[l].max

Full(l) == Cardinality(zset[l]) >= Limits[l].max

\* ZCARD, and the decision on its answer.
Count(w) ==
    /\ pc[w] = "count"
    /\ Goto(w, IF Full(limit[w]) THEN "oldest" ELSE "add")
    /\ UNCHANGED <<clock, keys, locals>>

\* ZRANGE 0 0 answers one of these, unless the sorted set is empty.
Oldest(l) == {m \in zset[l] : \A n \in zset[l] : m.score <= n.score}

\* max(1, int(...)): the seconds until the oldest member is outdated, rounded
\* down.
\* Mutant of RetryAfter: the time since the oldest request, not that left to it.
RetryAfterElapsed(w, oldest) ==
    LET seconds == (at[w] - oldest) \div Sec
    IN  IF seconds < 1 THEN 1 ELSE seconds

RetryAfter(w, oldest) ==
    LET seconds == (oldest + Window(limit[w]) - at[w]) \div Sec
    IN  IF seconds < 1 THEN 1 ELSE seconds

\* ZRANGE 0 0, and the refusal: 429 with its Retry-After.
Refuse(w) ==
    /\ pc[w] = "oldest"
    /\ \/ /\ zset[limit[w]] = {}
          /\ retry' = [retry EXCEPT ![w] = Limits[limit[w]].window]
       \/ \E m \in Oldest(limit[w]) :
             retry' = [retry EXCEPT ![w] = RetryAfter(w, m.score)]
    /\ Leave(w)
    /\ UNCHANGED <<clock, keys>>

\* ZADD of a member no other request has.
Add(w) ==
    /\ pc[w] = "add"
    /\ \E t \in Token :
         LET m == [score |-> at[w], token |-> t]
         IN  /\ m \notin zset[limit[w]]
             /\ zset' = [zset EXCEPT ![limit[w]] = @ \union {m}]
    /\ Goto(w, "expire")
    /\ UNCHANGED <<clock, expiry, locals>>

\* Mutant of Ttl: too short by two seconds.
TtlShort(l) == (Limits[l].window - 1) * Sec

Ttl(l) == (Limits[l].window + 1) * Sec

\* Mutant of MoreLimits: off by one.
MoreLimitsOrOne(w) == limit[w] \in Limit

\* The middleware has another limit to check after this one.
MoreLimits(w) == limit[w] + 1 \in Limit

\* EXPIRE; then the next limit is checked, or the request is let in.  It was
\* sent in one packet with the ZADD, so an error after that is a lost reply.
Expire(w) ==
    /\ pc[w] = "expire"
    /\ expiry' = [expiry EXCEPT ![limit[w]] =
                    IF zset[limit[w]] = {} THEN Never ELSE clock + Ttl(limit[w])]
    /\ \/ MoreLimits(w) /\ StartCheck(w, limit[w] + 1)
       \/ ~MoreLimits(w) /\ Leave(w)
       \/ "redis" \in Faults /\ Leave(w)
    /\ UNCHANGED <<clock, zset, retry>>

\* A Redis command raises and is not executed: the request ends with a 500.
RedisFails(w) ==
    /\ "redis" \in Faults
    /\ pc[w] \in Stage \ {"expire"}
    /\ Leave(w)
    /\ UNCHANGED <<clock, keys, retry>>

Check(w) == Trim(w) \/ Count(w) \/ Refuse(w) \/ Add(w) \/ Expire(w)

\* The bound on the clock is reached and no request is in progress.
AllOver ==
    /\ clock = MaxClock
    /\ \A w \in Worker : pc[w] = "idle"
    /\ UNCHANGED vars

Next ==
    \/ Tick
    \/ \E w \in Worker : Arrive(w) \/ Check(w) \/ RedisFails(w)
    \/ AllOver

Spec == Init /\ [][Next]_vars

-----------------------------------------------------------------------------
TypeOK ==
    /\ clock \in Nat
    /\ zset \in [Limit -> SUBSET Member]
    /\ expiry \in [Limit -> Nat]
    /\ pc \in [Worker -> Stage \union {"idle"}]
    /\ limit \in [Worker -> Limit]
    /\ at \in [Worker -> Nat]
    /\ retry \in [Worker -> Nat]

\* "an acceptable handful of overshoots" (core/ratelimit.py:39): a window
\* never holds more than the limit plus one request for each other one that
\* was in progress at the same time, although reading and recording are not
\* atomic.
OvershootIsBounded ==
    \A l \in Limit :
        Cardinality(zset[l]) <= Limits[l].max + Cardinality(Worker) - 1

\* No member is lost while it is in the window, neither to the trim of a
\* slower or faster request nor to the TTL of the key: a client cannot get a
\* fresh window early, although EXPIRE is a command of its own.
MembersOutliveWindow ==
    [][\A l \in Limit : \A m \in zset[l] \ zset'[l] :
           m.score + Window(l) <= clock']_vars

\* A client below its limit is not refused: at a refusal the window, as the
\* request sees it, is full, whatever other requests trim and add meanwhile.
RefusedOnlyWhenFull ==
    [][\A w \in Worker : pc[w] = "count" /\ pc'[w] = "oldest" =>
           LET l == limit[w]
           IN  Cardinality({m \in zset[l] : m.score + Window(l) > at[w]})
                   >= Limits[l].max]_vars

\* "seconds until oldest request ages out" (core/ratelimit.py:20), rounded down:
\* whatever other requests trim and add between count and refusal, a client that
\* waits one second longer than it is told finds the oldest request outdated,
\* and no client is told to wait longer than the window.
RetryAfterIsNearlyEnough ==
    [][\A w \in Worker : pc[w] = "oldest" /\ retry'[w] # retry[w] =>
           /\ retry'[w] <= Limits[limit[w]].window
           /\ \A m \in Oldest(limit[w]) :
                  m.score + Window(limit[w]) < at[w] + (retry'[w] + 1) * Sec]_vars

\* A refusal is justified, and so is the wait that comes with it.
RefusalsAreRight == RefusedOnlyWhenFull /\ RetryAfterIsNearlyEnough
=============================================================================
