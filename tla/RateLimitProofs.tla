--------------------------- MODULE RateLimitProofs ---------------------------
(***************************************************************************)
(* Proofs about RateLimit, for any number of requests in progress, any     *)
(* limits and any faults: type correctness, the bound on the overshoot     *)
(* that the limiter's non-atomic read and write allow, and, for checks     *)
(* that are fast enough, that nothing is forgotten while it counts and     *)
(* that refusals and their Retry-After are right.                          *)
(*                                                                         *)
(* The bound is not inductive by itself: what a request may still add has  *)
(* to be counted with what the set holds.  A request that is let in finds  *)
(* at most max - 1 members, and at most Worker - 1 other ones are on their *)
(* way to add theirs (Booked).                                             *)
(*                                                                         *)
(* The rest relates three clock readings: that of a check, which is behind *)
(* the clock by at most MaxDelay (Timely), the scores, which are readings  *)
(* of checks (ScoresPast), and the expiry of the key, set from a reading   *)
(* of its own (KeptAlive).                                                 *)
(***************************************************************************)
EXTENDS RateLimit, TLAPS, FiniteSetTheorems, SequenceTheorems

(***************************************************************************)
(* Type correctness                                                        *)
(***************************************************************************)

\* Limits have natural parameters, there is at least one, and the first is 1.
LEMMA LimitsType ==
    /\ 1 \in Limit
    /\ Limit \subseteq Nat
    /\ \A l \in Limit : /\ Limits[l].window \in Nat \ {0}
                        /\ Limits[l].max \in Nat
                        /\ Window(l) \in Nat
                        /\ Ttl(l) \in Nat
<1>1. Limits \in Seq([window: Nat \ {0}, max: Nat]) /\ Limits # <<>> /\ Sec \in Nat
  BY RateLimitAssumption
<1>2. 1 \in Limit /\ Limit \subseteq Nat
  BY <1>1 DEF Limit
<1>3. ASSUME NEW l \in Limit
      PROVE  Limits[l].window \in Nat \ {0} /\ Limits[l].max \in Nat
  <2>1. l \in 1 .. Len(Limits) BY <1>1 DEF Limit
  <2>2. Limits[l] \in [window: Nat \ {0}, max: Nat] BY <1>1, <2>1, ElementOfSeq
  <2> QED BY <2>2
<1>4. ASSUME NEW l \in Limit
      PROVE  Window(l) \in Nat /\ Ttl(l) \in Nat
  <2>1. Limits[l].window \in Nat /\ Limits[l].window + 1 \in Nat BY <1>3, <1>4
  <2>2. ASSUME NEW a \in Nat PROVE a * Sec \in Nat BY <1>1, <2>2
  <2>3. /\ Limits[l].window * Sec \in Nat
        /\ (Limits[l].window + 1) * Sec \in Nat
    BY <2>1, <2>2
  <2> QED BY <2>3 DEF Window, Ttl
<1> QED BY <1>2, <1>3, <1>4

\* The wait a refusal announces is a number of seconds.
LEMMA RetryAfterType ==
    ASSUME NEW w, NEW oldest \in Nat, limit[w] \in Limit, at[w] \in Nat
    PROVE  RetryAfter(w, oldest) \in Nat
<1>1. Window(limit[w]) \in Nat /\ Sec \in Nat \ {0}
  BY LimitsType, RateLimitAssumption
<1>2. oldest + Window(limit[w]) - at[w] \in Int
  BY <1>1
<1>3. (oldest + Window(limit[w]) - at[w]) \div Sec \in Int
  BY <1>1, <1>2
<1> QED BY <1>3 DEF RetryAfter

\* Initially the variables have their types.
LEMMA InitTypeOK == Init => TypeOK
BY LimitsType DEF Init, TypeOK, Never, Stage

\* Every step keeps the variables in their types.
LEMMA NextTypeOK == TypeOK /\ [Next]_vars => TypeOK'
<1> SUFFICES ASSUME TypeOK, [Next]_vars PROVE TypeOK'
  OBVIOUS
<1> USE DEF TypeOK, Stage
<1>1. CASE Tick
  BY <1>1, LimitsType DEF Tick, locals, Never
<1>2. ASSUME NEW w \in Worker, Arrive(w) PROVE TypeOK'
  BY <1>2, LimitsType DEF Arrive, StartCheck, Goto, keys
<1>3. ASSUME NEW w \in Worker, Trim(w) PROVE TypeOK'
  <2>1. limit[w] \in Limit OBVIOUS
  <2> DEFINE kept == {m \in zset[limit[w]] : ~Outdated(w, m)}
  <2>2. kept \in SUBSET Member BY <2>1
  <2>3. /\ zset' = [zset EXCEPT ![limit[w]] = kept]
        /\ expiry' = [expiry EXCEPT ![limit[w]] = IF kept = {} THEN Never ELSE @]
    BY <1>3 DEF Trim
  <2> HIDE DEF kept
  <2>4. zset' \in [Limit -> SUBSET Member] BY <2>1, <2>2, <2>3
  <2>5. expiry' \in [Limit -> Nat] BY <2>1, <2>3 DEF Never
  <2> QED BY <1>3, <2>4, <2>5 DEF Trim, Goto, locals
<1>4. ASSUME NEW w \in Worker, Count(w) PROVE TypeOK'
  BY <1>4 DEF Count, Goto, keys, locals
<1>5. ASSUME NEW w \in Worker, Refuse(w) PROVE TypeOK'
  <2>1. limit[w] \in Limit /\ at[w] \in Nat OBVIOUS
  <2>2. Limits[limit[w]].window \in Nat BY <2>1, LimitsType
  <2>3. ASSUME NEW m \in Oldest(limit[w]) PROVE RetryAfter(w, m.score) \in Nat
    <3>1. m.score \in Nat BY <2>1, <2>3 DEF Oldest, Member
    <3> QED BY <2>1, <3>1, RetryAfterType
  <2>4. retry' \in [Worker -> Nat] BY <1>5, <2>2, <2>3 DEF Refuse
  <2> QED BY <1>5, <2>4, LimitsType DEF Refuse, Leave, Goto, keys
<1>6. ASSUME NEW w \in Worker, Add(w) PROVE TypeOK'
  <2>1. PICK t \in Token :
          zset' = [zset EXCEPT ![limit[w]] = @ \union {[score |-> at[w], token |-> t]}]
    BY <1>6 DEF Add
  <2>2. [score |-> at[w], token |-> t] \in Member BY DEF Member
  <2>3. zset' \in [Limit -> SUBSET Member] BY <2>1, <2>2
  <2> QED BY <1>6, <2>3 DEF Add, Goto, locals
<1>7. ASSUME NEW w \in Worker, Expire(w) PROVE TypeOK'
  <2>1. limit[w] \in Limit OBVIOUS
  <2>2. Ttl(limit[w]) \in Nat BY <2>1, LimitsType
  <2>3. expiry' \in [Limit -> Nat] BY <1>7, <2>1, <2>2 DEF Expire, Never
  <2>4. CASE MoreLimits(w) /\ StartCheck(w, limit[w] + 1)
    BY <1>7, <2>3, <2>4 DEF Expire, MoreLimits, StartCheck, Goto
  <2>5. CASE Leave(w)
    BY <1>7, <2>3, <2>5, LimitsType DEF Expire, Leave, Goto
  <2> QED BY <1>7, <2>4, <2>5 DEF Expire
<1>8. ASSUME NEW w \in Worker, RedisFails(w) PROVE TypeOK'
  BY <1>8, LimitsType DEF RedisFails, Leave, Goto, keys
<1>9. CASE AllOver
  BY <1>9 DEF AllOver, vars
<1>10. CASE UNCHANGED vars
  BY <1>10 DEF vars
<1> QED
  BY <1>1, <1>2, <1>3, <1>4, <1>5, <1>6, <1>7, <1>8, <1>9, <1>10 DEF Next, Check

\* The state of the limiter is well typed, whatever requests and faults do.
THEOREM SpecTypeOK == Spec => []TypeOK
BY InitTypeOK, NextTypeOK, PTL DEF Spec

(***************************************************************************)
(* The bound on the overshoot                                              *)
(***************************************************************************)

\* The requests that have been let in by limit l and not yet recorded.
Booked(stage, checked, l) == {w \in Worker : stage[w] = "add" /\ checked[w] = l}

\* The inductive invariant: members and bookings together obey the bound.
BookingsFit ==
    \A l \in Limit :
        /\ IsFiniteSet(zset[l])
        /\ Cardinality(zset[l]) + Cardinality(Booked(pc, limit, l))
               <= Limits[l].max + Cardinality(Worker) - 1

\* Bookings are some of the requests in progress, of which there is one.
LEMMA BookedFinite ==
    ASSUME NEW stage, NEW checked, NEW l
    PROVE  /\ IsFiniteSet(Booked(stage, checked, l))
           /\ Cardinality(Booked(stage, checked, l)) \in Nat
           /\ Cardinality(Booked(stage, checked, l)) <= Cardinality(Worker)
           /\ Cardinality(Worker) \in Nat \ {0}
<1>1. Booked(stage, checked, l) \subseteq Worker
  BY DEF Booked
<1>2. IsFiniteSet(Worker) /\ Worker # {}
  BY RateLimitAssumption
<1> QED BY <1>1, <1>2, FS_Subset, FS_CardinalityType, FS_EmptySet

\* A limit keeps its bound when its set and its bookings only shrink.
LEMMA ShrinkingFits ==
    ASSUME BookingsFit, NEW l \in Limit,
           zset'[l] \subseteq zset[l],
           Booked(pc', limit', l) \subseteq Booked(pc, limit, l)
    PROVE  /\ IsFiniteSet(zset'[l])
           /\ Cardinality(zset'[l]) + Cardinality(Booked(pc', limit', l))
                  <= Limits[l].max + Cardinality(Worker) - 1
<1>1. /\ IsFiniteSet(zset[l])
      /\ Cardinality(zset[l]) + Cardinality(Booked(pc, limit, l))
             <= Limits[l].max + Cardinality(Worker) - 1
  BY DEF BookingsFit
<1>2. /\ IsFiniteSet(zset'[l])
      /\ Cardinality(zset'[l]) \in Nat /\ Cardinality(zset[l]) \in Nat
      /\ Cardinality(zset'[l]) <= Cardinality(zset[l])
  BY <1>1, FS_Subset, FS_CardinalityType
<1>3. IsFiniteSet(Booked(pc, limit, l))
  BY BookedFinite
<1>4. Cardinality(Booked(pc', limit', l)) <= Cardinality(Booked(pc, limit, l))
  BY <1>3, FS_Subset
<1>5. /\ Cardinality(Booked(pc, limit, l)) \in Nat
      /\ Cardinality(Booked(pc', limit', l)) \in Nat
      /\ Cardinality(Worker) \in Nat /\ Limits[l].max \in Nat
  BY BookedFinite, LimitsType
<1> QED BY <1>1, <1>2, <1>4, <1>5

\* Initially nothing is recorded or booked; there is at least one request.
LEMMA InitBookingsFit == Init => BookingsFit
<1> SUFFICES ASSUME Init, NEW l \in Limit
             PROVE  /\ IsFiniteSet(zset[l])
                    /\ Cardinality(zset[l]) + Cardinality(Booked(pc, limit, l))
                           <= Limits[l].max + Cardinality(Worker) - 1
  BY DEF BookingsFit
<1>1. zset[l] = {} /\ Booked(pc, limit, l) = {}
  BY DEF Init, Booked
<1>2. IsFiniteSet({}) /\ Cardinality({}) = 0
  BY FS_EmptySet
<1>3. Cardinality(Worker) \in Nat \ {0} /\ Limits[l].max \in Nat
  BY BookedFinite, LimitsType
<1> QED BY <1>1, <1>2, <1>3

\* Every step keeps members and bookings within the bound.
LEMMA NextBookingsFit == TypeOK /\ BookingsFit /\ [Next]_vars => BookingsFit'
<1> SUFFICES ASSUME TypeOK, BookingsFit, [Next]_vars, NEW l \in Limit
             PROVE  /\ IsFiniteSet(zset'[l])
                    /\ Cardinality(zset'[l]) + Cardinality(Booked(pc', limit', l))
                           <= Limits[l].max + Cardinality(Worker) - 1
  BY DEF BookingsFit
<1> DEFINE Fits == /\ IsFiniteSet(zset'[l])
                   /\ Cardinality(zset'[l]) + Cardinality(Booked(pc', limit', l))
                          <= Limits[l].max + Cardinality(Worker) - 1
<1>a. zset \in [Limit -> SUBSET Member] /\ pc \in [Worker -> Stage \union {"idle"}]
      /\ limit \in [Worker -> Limit]
  BY DEF TypeOK
<1>1. CASE Tick
  BY <1>1, <1>a, ShrinkingFits DEF Booked, Tick, locals
<1>2. ASSUME NEW w \in Worker, Arrive(w) PROVE Fits
  BY <1>2, <1>a, ShrinkingFits DEF Booked, Arrive, StartCheck, Goto, keys
<1>3. ASSUME NEW w \in Worker, Trim(w) PROVE Fits
  BY <1>3, <1>a, ShrinkingFits DEF Booked, Trim, Goto, locals
<1>4. ASSUME NEW w \in Worker, Count(w) PROVE Fits
  \* The only step that books.
  <2>1. zset' = zset /\ limit' = limit
    BY <1>4 DEF Count, keys, locals
  <2>2. CASE Full(limit[w]) \/ limit[w] # l
    BY <1>4, <1>a, <2>1, <2>2, ShrinkingFits DEF Booked, Count, Goto
  <2>3. CASE ~Full(limit[w]) /\ limit[w] = l
    <3>1. IsFiniteSet(zset[l]) BY DEF BookingsFit
    <3>2. Cardinality(zset[l]) \in Nat BY <3>1, FS_CardinalityType
    <3>3. Limits[l].max \in Nat BY LimitsType
    <3>4. Cardinality(zset[l]) <= Limits[l].max - 1
      BY <2>3, <3>2, <3>3 DEF Full
    <3>5. /\ Cardinality(Booked(pc', limit', l)) \in Nat
          /\ Cardinality(Booked(pc', limit', l)) <= Cardinality(Worker)
          /\ Cardinality(Worker) \in Nat
      BY BookedFinite
    <3> QED BY <2>1, <3>1, <3>2, <3>3, <3>4, <3>5
  <2> QED BY <2>2, <2>3
<1>5. ASSUME NEW w \in Worker, Refuse(w) PROVE Fits
  BY <1>5, <1>a, ShrinkingFits DEF Booked, Refuse, Leave, Goto, keys
<1>6. ASSUME NEW w \in Worker, Add(w) PROVE Fits
  \* A booking becomes a member.
  <2>1. /\ pc[w] = "add" /\ limit' = limit
        /\ pc' = [pc EXCEPT ![w] = "expire"]
    BY <1>6 DEF Add, Goto, locals
  <2>2. PICK m : zset' = [zset EXCEPT ![limit[w]] = @ \union {m}]
    BY <1>6 DEF Add
  <2>3. CASE limit[w] # l
    BY <1>a, <2>1, <2>2, <2>3, ShrinkingFits DEF Booked
  <2>4. CASE limit[w] = l
    <3>1. zset'[l] = zset[l] \union {m}
      BY <1>a, <2>2, <2>4
    <3>2. /\ w \in Booked(pc, limit, l)
          /\ Booked(pc', limit', l) = Booked(pc, limit, l) \ {w}
      BY <1>a, <2>1, <2>4 DEF Booked
    <3>3. IsFiniteSet(zset[l]) BY DEF BookingsFit
    <3>4. /\ IsFiniteSet(zset'[l])
          /\ Cardinality(zset[l]) \in Nat /\ Cardinality(zset'[l]) \in Nat
          /\ Cardinality(zset'[l]) <= Cardinality(zset[l]) + 1
      <4>1. Cardinality(zset[l]) \in Nat BY <3>3, FS_CardinalityType
      <4>2. /\ IsFiniteSet(zset[l] \union {m})
            /\ Cardinality(zset[l] \union {m}) \in
                   {Cardinality(zset[l]), Cardinality(zset[l]) + 1}
        BY <3>3, FS_AddElement
      <4> QED BY <3>1, <3>3, <4>1, <4>2
    <3>5. /\ IsFiniteSet(Booked(pc, limit, l))
          /\ Cardinality(Booked(pc, limit, l)) \in Nat
          /\ Cardinality(Worker) \in Nat
      BY BookedFinite
    <3>6. Cardinality(Booked(pc', limit', l)) = Cardinality(Booked(pc, limit, l)) - 1
      BY <3>2, <3>5, FS_RemoveElement
    <3>7. Limits[l].max \in Nat BY LimitsType
    <3>8. Cardinality(zset[l]) + Cardinality(Booked(pc, limit, l))
             <= Limits[l].max + Cardinality(Worker) - 1
      BY DEF BookingsFit
    <3> QED BY <3>4, <3>5, <3>6, <3>7, <3>8
  <2> QED BY <2>3, <2>4
<1>7. ASSUME NEW w \in Worker, Expire(w) PROVE Fits
  <2>1. zset' = zset BY <1>7 DEF Expire
  <2>2. pc[w] = "expire" BY <1>7 DEF Expire
  <2>3. CASE StartCheck(w, limit[w] + 1)
    BY <1>a, <2>1, <2>2, <2>3, ShrinkingFits DEF Booked, StartCheck, Goto
  <2>4. CASE Leave(w)
    BY <1>a, <2>1, <2>2, <2>4, ShrinkingFits DEF Booked, Leave, Goto
  <2> QED BY <1>7, <2>3, <2>4 DEF Expire
<1>8. ASSUME NEW w \in Worker, RedisFails(w) PROVE Fits
  BY <1>8, <1>a, ShrinkingFits DEF Booked, RedisFails, Leave, Goto, keys
<1>9. CASE AllOver
  BY <1>9, ShrinkingFits DEF Booked, AllOver, vars
<1>10. CASE UNCHANGED vars
  BY <1>10, ShrinkingFits DEF Booked, vars
<1> QED
  BY <1>1, <1>2, <1>3, <1>4, <1>5, <1>6, <1>7, <1>8, <1>9, <1>10 DEF Next, Check

\* "an acceptable handful of overshoots" (core/ratelimit.py:39), bounded: with
\* Worker requests in progress at once, a window holds at most Worker - 1 more
\* than the limit, for any limits, clock readings and failing commands.
THEOREM SpecOvershootIsBounded == Spec => []OvershootIsBounded
<1>1. TypeOK /\ BookingsFit => OvershootIsBounded
  <2> SUFFICES ASSUME BookingsFit, NEW l \in Limit
               PROVE  Cardinality(zset[l]) <= Limits[l].max + Cardinality(Worker) - 1
    BY DEF OvershootIsBounded
  <2>1. /\ IsFiniteSet(zset[l])
        /\ Cardinality(zset[l]) + Cardinality(Booked(pc, limit, l))
               <= Limits[l].max + Cardinality(Worker) - 1
    BY DEF BookingsFit
  <2>2. /\ Cardinality(zset[l]) \in Nat
        /\ Cardinality(Booked(pc, limit, l)) \in Nat
        /\ Cardinality(Worker) \in Nat /\ Limits[l].max \in Nat
    BY <2>1, BookedFinite, FS_CardinalityType, LimitsType
  <2> QED BY <2>1, <2>2
<1> QED
  BY <1>1, InitTypeOK, NextTypeOK, InitBookingsFit, NextBookingsFit, PTL DEF Spec

(***************************************************************************)
(* What the TTL keeps.  EXPIRE is a command of its own: between ZADD and   *)
(* EXPIRE a member is under the TTL of an earlier request.  It is safe, as *)
(* long as a check takes no longer than the second that the TTL is longer  *)
(* than the window: either the TTL covers every member and every request   *)
(* that may still add one, or a request that renews it will be done before *)
(* it is over.                                                             *)
(***************************************************************************)
Timely == \A w \in Worker : pc[w] # "idle" => at[w] <= clock /\ clock <= at[w] + MaxDelay

ScoresPast == \A l \in Limit : \A m \in zset[l] : m.score <= clock

Covered(l) ==
    /\ \A m \in zset[l] : m.score + Window(l) + Sec <= expiry[l]
    /\ \A w \in Worker :
           pc[w] \in {"count", "add"} /\ limit[w] = l => at[w] + MaxDelay < expiry[l]

Renews(w, l) == pc[w] = "expire" /\ limit[w] = l /\ at[w] + MaxDelay < expiry[l]

KeptAlive(l) == expiry[l] # Never => Covered(l) \/ \E w \in Worker : Renews(w, l)

RetentionInv == Timely /\ ScoresPast /\ \A l \in Limit : KeptAlive(l)

\* A TTL is a second longer than its window, which is one second at least.
LEMMA WindowsAndTtls ==
    ASSUME NEW l \in Limit
    PROVE  /\ Window(l) \in Nat /\ Sec \in Nat \ {0} /\ MaxDelay \in Nat
           /\ Window(l) >= Sec
           /\ Ttl(l) = Window(l) + Sec
<1>1. Limits[l].window \in Nat \ {0} /\ Sec \in Nat \ {0} /\ MaxDelay \in Nat
  BY LimitsType, RateLimitAssumption
<1>2. ASSUME NEW n \in Nat \ {0}
      PROVE  n * Sec >= Sec /\ (n + 1) * Sec = n * Sec + Sec /\ n * Sec \in Nat
  BY <1>1
<1> QED
  BY <1>1, <1>2 DEF Window, Ttl

\* A request leaves the time of another one alone.
LEMMA OthersStay ==
    ASSUME TypeOK, NEW w \in Worker, Arrive(w) \/ Check(w) \/ RedisFails(w)
    PROVE  /\ clock' = clock
           /\ \A v \in Worker \ {w} : pc'[v] = pc[v] /\ limit'[v] = limit[v] /\ at'[v] = at[v]
           /\ pc'[w] # "idle" => \/ at'[w] = clock
                                 \/ at'[w] = at[w] /\ pc[w] # "idle"
           /\ \A l \in Limit : l # limit[w] => zset'[l] = zset[l] /\ expiry'[l] = expiry[l]
  BY DEF TypeOK, Arrive, Check, Trim, Count, Refuse, Add, Expire, RedisFails, StartCheck, Leave,
         Goto, keys, locals

LEMMA StepTimely == TypeOK /\ Timely /\ [Next]_vars => Timely'
<1> SUFFICES ASSUME TypeOK, Timely, [Next]_vars PROVE Timely'
  OBVIOUS
<1>0. clock \in Nat /\ at \in [Worker -> Nat] /\ MaxDelay \in Nat
  BY RateLimitAssumption DEF TypeOK
<1>1. CASE Tick
  BY <1>0, <1>1 DEF Tick, Timely, locals
<1>2. ASSUME NEW w \in Worker, Arrive(w) \/ Check(w) \/ RedisFails(w) PROVE Timely'
  BY <1>0, <1>2, OthersStay DEF Timely
<1>3. CASE UNCHANGED vars
  BY <1>3 DEF vars, Timely
<1> QED
  BY <1>1, <1>2, <1>3 DEF Next, AllOver

LEMMA StepScoresPast == TypeOK /\ Timely /\ ScoresPast /\ [Next]_vars => ScoresPast'
<1> SUFFICES ASSUME TypeOK, Timely, ScoresPast, [Next]_vars PROVE ScoresPast'
  OBVIOUS
<1>0. /\ clock \in Nat /\ zset \in [Limit -> SUBSET Member] /\ limit \in [Worker -> Limit]
      /\ \A l \in Limit : \A m \in zset[l] : m.score \in Nat
  BY DEF TypeOK, Member
<1>1. CASE Tick
  BY <1>0, <1>1 DEF Tick, ScoresPast
<1>2. ASSUME NEW w \in Worker, Add(w) PROVE ScoresPast'
  <2>1. /\ clock' = clock /\ at[w] <= clock
        /\ \E t \in Token : zset' = [zset EXCEPT ![limit[w]] =
                                       @ \union {[score |-> at[w], token |-> t]}]
    BY <1>2 DEF Add, Timely
  <2> QED
    BY <1>0, <2>1 DEF ScoresPast
<1>3. ASSUME NEW w \in Worker, Trim(w) PROVE ScoresPast'
  BY <1>0, <1>3 DEF Trim, ScoresPast
<1>4. CASE clock' = clock /\ zset' = zset
  BY <1>4 DEF ScoresPast
<1> QED
  BY <1>1, <1>2, <1>3, <1>4
  DEF Next, Arrive, Check, Count, Refuse, Expire, RedisFails, AllOver, vars, keys

\* A step keeps a key alive if it leaves its TTL and the requests under it
\* alone.
LEMMA UnaffectedKeptAlive ==
    ASSUME NEW l \in Limit, KeptAlive(l),
           expiry'[l] = expiry[l], zset'[l] \subseteq zset[l],
           \A v \in Worker : pc'[v] \in {"count", "add"} /\ limit'[v] = l =>
               pc[v] \in {"count", "add"} /\ limit[v] = l /\ at'[v] = at[v],
           \A v \in Worker : pc[v] = "expire" /\ limit[v] = l =>
               pc'[v] = "expire" /\ limit'[v] = l /\ at'[v] = at[v]
    PROVE  KeptAlive(l)'
<1> SUFFICES ASSUME expiry'[l] # Never
             PROVE  Covered(l)' \/ \E w \in Worker : Renews(w, l)'
  BY DEF KeptAlive
<1>1. CASE Covered(l)
  <2>1. \A m \in zset'[l] : m.score + Window(l) + Sec <= expiry'[l]
    BY <1>1 DEF Covered
  <2>2. \A v \in Worker :
          pc'[v] \in {"count", "add"} /\ limit'[v] = l => at'[v] + MaxDelay < expiry'[l]
    BY <1>1 DEF Covered
  <2> QED
    BY <2>1, <2>2 DEF Covered, Window
<1>2. ASSUME NEW w \in Worker, Renews(w, l) PROVE \E v \in Worker : Renews(v, l)'
  BY <1>2 DEF Renews
<1> QED
  BY <1>1, <1>2 DEF KeptAlive

\* Trimming leaves a key no TTL if it leaves it no member; a member that it
\* leaves shows that the TTL outlasts the request.
LEMMA TrimKeptAlive ==
    ASSUME MaxDelay <= Sec, TypeOK, NEW w \in Worker, Trim(w), KeptAlive(limit[w])
    PROVE  \A l \in Limit : l = limit[w] => KeptAlive(l)'
<1> SUFFICES ASSUME NEW l \in Limit, l = limit[w], expiry'[l] # Never
             PROVE  Covered(l)' \/ \E v \in Worker : Renews(v, l)'
  BY DEF KeptAlive
<1> DEFINE kept == {m \in zset[l] : ~Outdated(w, m)}
<1>1. /\ zset'[l] = kept /\ expiry'[l] = expiry[l] /\ expiry[l] # Never /\ kept # {}
      /\ pc' = [pc EXCEPT ![w] = "count"] /\ limit' = limit /\ at' = at /\ pc[w] = "trim"
  <2>1. /\ zset' = [zset EXCEPT ![l] = kept]
        /\ expiry' = [expiry EXCEPT ![l] = IF kept = {} THEN Never ELSE @]
    BY DEF Trim
  <2>2. zset' [l] = kept /\ expiry'[l] = (IF kept = {} THEN Never ELSE expiry[l])
    BY <2>1 DEF TypeOK
  <2> QED
    BY <2>2 DEF Trim, Goto, locals
<1>2. pc \in [Worker -> Stage \union {"idle"}]
  BY DEF TypeOK
<1>3. CASE Covered(l)
  <2>1. PICK m \in zset[l] : ~(m.score + Window(l) <= at[w])
    BY <1>1 DEF Outdated
  <2>2. /\ m.score \in Nat /\ at[w] \in Nat /\ expiry[l] \in Nat
        /\ m.score + Window(l) + Sec <= expiry[l]
    BY <1>3 DEF TypeOK, Member, Covered
  <2>3. at[w] + MaxDelay < expiry[l]
    BY <2>1, <2>2, WindowsAndTtls
  <2>4. \A v \in Worker :
          pc'[v] \in {"count", "add"} /\ limit'[v] = l => at'[v] + MaxDelay < expiry'[l]
    BY <1>1, <1>2, <1>3, <2>3 DEF Covered
  <2>5. \A n \in zset'[l] : n.score + Window(l) + Sec <= expiry'[l]
    BY <1>1, <1>3 DEF Covered
  <2> QED
    BY <2>4, <2>5 DEF Covered, Window
<1>4. ASSUME NEW v \in Worker, Renews(v, l) PROVE \E u \in Worker : Renews(u, l)'
  BY <1>1, <1>2, <1>4 DEF Renews
<1> QED
  BY <1>1, <1>3, <1>4 DEF KeptAlive

\* A request that records its member is one that will renew the TTL in time.
LEMMA AddKeptAlive ==
    ASSUME TypeOK, NEW w \in Worker, Add(w), KeptAlive(limit[w])
    PROVE  \A l \in Limit : l = limit[w] => KeptAlive(l)'
<1> SUFFICES ASSUME NEW l \in Limit, l = limit[w], expiry'[l] # Never
             PROVE  \E v \in Worker : Renews(v, l)'
  BY DEF KeptAlive
<1>1. /\ pc[w] = "add" /\ pc' = [pc EXCEPT ![w] = "expire"]
      /\ limit' = limit /\ at' = at /\ expiry' = expiry
  BY DEF Add, Goto, locals
<1>2. pc \in [Worker -> Stage \union {"idle"}]
  BY DEF TypeOK
<1>3. CASE Covered(l)
  BY <1>1, <1>2, <1>3 DEF Covered, Renews
<1>4. ASSUME NEW v \in Worker, Renews(v, l) PROVE Renews(v, l)'
  BY <1>1, <1>2, <1>4 DEF Renews
<1> QED
  BY <1>1, <1>3, <1>4 DEF KeptAlive

\* EXPIRE: the TTL covers every member and every request in progress.
LEMMA ExpireKeptAlive ==
    ASSUME MaxDelay <= Sec, TypeOK, Timely, ScoresPast, NEW w \in Worker, Expire(w)
    PROVE  \A l \in Limit : l = limit[w] => KeptAlive(l)'
<1> SUFFICES ASSUME NEW l \in Limit, l = limit[w], expiry'[l] # Never
             PROVE  Covered(l)'
  BY DEF KeptAlive
<1>1. expiry'[l] = clock + Ttl(l) /\ zset'[l] = zset[l] /\ clock' = clock
  BY DEF Expire, TypeOK
<1>2. /\ \A v \in Worker \ {w} : pc'[v] = pc[v] /\ at'[v] = at[v]
      /\ pc'[w] \in {"trim", "idle"}
  BY DEF Expire, TypeOK, StartCheck, Leave, Goto
<1>3. clock \in Nat /\ at \in [Worker -> Nat] /\ (\A m \in zset[l] : m.score \in Nat)
  BY DEF TypeOK, Member
<1>4. \A m \in zset'[l] : m.score + Window(l) + Sec <= expiry'[l]
  BY <1>1, <1>3, WindowsAndTtls DEF ScoresPast
<1>5. ASSUME NEW v \in Worker, pc'[v] \in {"count", "add"}
      PROVE  at'[v] + MaxDelay < expiry'[l]
  <2>1. at'[v] = at[v] /\ at[v] <= clock
    BY <1>2, <1>5 DEF Timely
  <2> QED
    BY <1>1, <1>3, <2>1, WindowsAndTtls
<1> QED
  BY <1>4, <1>5 DEF Covered, Window

\* Every step keeps every key alive.
LEMMA StepKeptAlive ==
    ASSUME MaxDelay <= Sec, TypeOK, Timely, ScoresPast, \A l \in Limit : KeptAlive(l),
           [Next]_vars
    PROVE  \A l \in Limit : KeptAlive(l)'
<1> SUFFICES ASSUME NEW l \in Limit PROVE KeptAlive(l)'
  OBVIOUS
<1>0. /\ zset \in [Limit -> SUBSET Member] /\ pc \in [Worker -> Stage \union {"idle"}]
      /\ limit \in [Worker -> Limit] /\ expiry \in [Limit -> Nat]
  BY DEF TypeOK
<1>1. CASE Tick
  <2>1. pc' = pc /\ limit' = limit /\ at' = at
    BY <1>1 DEF Tick, locals
  <2>2. CASE expiry[l] <= clock'
    BY <1>1, <2>2 DEF Tick, KeptAlive
  <2>3. CASE ~(expiry[l] <= clock')
    BY <1>1, <2>1, <2>3, UnaffectedKeptAlive DEF Tick
  <2> QED
    BY <2>2, <2>3
<1>2. ASSUME NEW w \in Worker, Arrive(w) PROVE KeptAlive(l)'
  BY <1>0, <1>2, UnaffectedKeptAlive DEF Arrive, StartCheck, Goto, keys
<1>3. ASSUME NEW w \in Worker, Trim(w) PROVE KeptAlive(l)'
  <2>1. CASE l = limit[w]
    BY <1>3, <2>1, TrimKeptAlive
  <2>2. CASE l # limit[w]
    BY <1>0, <1>3, <2>2, UnaffectedKeptAlive DEF Trim, Goto, locals
  <2> QED
    BY <2>1, <2>2
<1>4. ASSUME NEW w \in Worker, Count(w) PROVE KeptAlive(l)'
  BY <1>0, <1>4, UnaffectedKeptAlive DEF Count, Goto, keys, locals
<1>5. ASSUME NEW w \in Worker, Refuse(w) PROVE KeptAlive(l)'
  BY <1>0, <1>5, UnaffectedKeptAlive DEF Refuse, Leave, Goto, keys
<1>6. ASSUME NEW w \in Worker, Add(w) PROVE KeptAlive(l)'
  <2>1. CASE l = limit[w]
    BY <1>6, <2>1, AddKeptAlive
  <2>2. CASE l # limit[w]
    BY <1>0, <1>6, <2>2, UnaffectedKeptAlive DEF Add, Goto, locals
  <2> QED
    BY <2>1, <2>2
<1>7. ASSUME NEW w \in Worker, Expire(w) PROVE KeptAlive(l)'
  <2>1. CASE l = limit[w]
    BY <1>7, <2>1, ExpireKeptAlive
  <2>2. CASE l # limit[w]
    <3>1. expiry'[l] = expiry[l] /\ zset' = zset
      BY <1>0, <1>7, <2>2 DEF Expire
    <3>2. /\ \A v \in Worker \ {w} : pc'[v] = pc[v] /\ limit'[v] = limit[v] /\ at'[v] = at[v]
          /\ pc'[w] \in {"trim", "idle"}
      BY <1>7 DEF Expire, TypeOK, StartCheck, Leave, Goto
    <3> QED
      BY <2>2, <3>1, <3>2, UnaffectedKeptAlive
  <2> QED
    BY <2>1, <2>2
<1>8. ASSUME NEW w \in Worker, RedisFails(w) PROVE KeptAlive(l)'
  <2>1. /\ pc[w] # "expire" /\ pc'[w] = "idle" /\ expiry' = expiry /\ zset' = zset
        /\ \A v \in Worker \ {w} : pc'[v] = pc[v] /\ limit'[v] = limit[v] /\ at'[v] = at[v]
    BY <1>8 DEF RedisFails, TypeOK, Leave, Goto, keys
  <2> QED
    BY <2>1, UnaffectedKeptAlive
<1>9. CASE UNCHANGED vars
  BY <1>9, UnaffectedKeptAlive DEF vars
<1> QED
  BY <1>1, <1>2, <1>3, <1>4, <1>5, <1>6, <1>7, <1>8, <1>9 DEF Next, Check, AllOver

LEMMA InitRetentionInv == Init => RetentionInv
BY DEF Init, RetentionInv, Timely, ScoresPast, KeptAlive

\* While no check takes longer than a second, no member is lost while it is
\* in the window, neither to the trim of another request nor to the TTL of the
\* key.  With slower checks the property fails: the TTL may be over between
\* the ZADD of a request and its EXPIRE.
THEOREM SpecMembersOutliveWindow ==
    ASSUME MaxDelay <= Sec
    PROVE  Spec => MembersOutliveWindow
<1> DEFINE Outlive == \A l \in Limit : \A m \in zset[l] \ zset'[l] :
                          m.score + Window(l) <= clock'
<1>1. TypeOK /\ RetentionInv /\ [Next]_vars => RetentionInv'
  <2> SUFFICES ASSUME TypeOK, RetentionInv, [Next]_vars PROVE RetentionInv'
    OBVIOUS
  <2>1. Timely' /\ ScoresPast'
    BY StepTimely, StepScoresPast DEF RetentionInv
  <2>2. \A l \in Limit : KeptAlive(l)'
    BY StepKeptAlive DEF RetentionInv
  <2> QED
    BY <2>1, <2>2 DEF RetentionInv, Limit
<1>2. TypeOK /\ RetentionInv /\ [Next]_vars => Outlive
  <2> SUFFICES ASSUME TypeOK, RetentionInv, [Next]_vars,
                      NEW l \in Limit, NEW m \in zset[l] \ zset'[l]
               PROVE  m.score + Window(l) <= clock'
    OBVIOUS
  <2>0. /\ clock \in Nat /\ at \in [Worker -> Nat] /\ m.score \in Nat /\ expiry[l] \in Nat
        /\ zset \in [Limit -> SUBSET Member] /\ limit \in [Worker -> Limit]
    BY DEF TypeOK, Member
  <2>1. CASE Tick
    <3>1. clock' = clock + 1 /\ expiry[l] # Never /\ expiry[l] <= clock'
      BY <2>1 DEF Tick
    <3>2. CASE Covered(l)
      <4>1. m.score + Window(l) + Sec <= expiry[l]
        BY <3>2 DEF Covered
      <4> QED
        BY <2>0, <3>1, <4>1, WindowsAndTtls
    <3>3. ASSUME NEW w \in Worker, Renews(w, l) PROVE FALSE
      <4>1. clock - at[w] < MaxDelay
        BY <2>1, <3>3 DEF Tick, Renews
      <4> QED
        BY <2>0, <3>1, <3>3, <4>1, RateLimitAssumption DEF Renews
    <3> QED
      BY <3>1, <3>2, <3>3 DEF RetentionInv, KeptAlive
  <2>2. ASSUME NEW w \in Worker, Trim(w) PROVE m.score + Window(l) <= clock'
    <3>1. /\ l = limit[w] /\ clock' = clock /\ Outdated(w, m) /\ pc[w] = "trim"
      BY <2>0, <2>2 DEF Trim
    <3>2. at[w] <= clock
      BY <3>1 DEF RetentionInv, Timely
    <3> QED
      BY <2>0, <3>1, <3>2, WindowsAndTtls DEF Outdated
  <2>3. ASSUME NEW w \in Worker, Add(w) PROVE FALSE
    BY <2>0, <2>3 DEF Add
  <2>4. CASE zset' = zset
    BY <2>4
  <2> QED
    BY <2>1, <2>2, <2>3, <2>4
    DEF Next, Check, Arrive, Count, Refuse, Expire, RedisFails, AllOver, vars, keys
<1>3. TypeOK /\ RetentionInv /\ [Next]_vars => [Outlive]_vars
  BY <1>2
<1> QED
  BY <1>1, <1>3, InitTypeOK, NextTypeOK, InitRetentionInv, PTL DEF Spec, MembersOutliveWindow

(***************************************************************************)
(* Refusals.  Whatever others add after a request has trimmed is younger   *)
(* than the window as the request sees it, so what it counts is in it.     *)
(***************************************************************************)
WindowAsSeen ==
    \A w \in Worker : pc[w] = "count" =>
        \A m \in zset[limit[w]] : m.score + Window(limit[w]) > at[w]

LEMMA StepWindowAsSeen ==
    ASSUME \A l \in Limit : MaxDelay < Window(l),
           TypeOK, Timely, WindowAsSeen, [Next]_vars
    PROVE  WindowAsSeen'
<1>0. /\ clock \in Nat /\ at \in [Worker -> Nat] /\ MaxDelay \in Nat
      /\ zset \in [Limit -> SUBSET Member] /\ limit \in [Worker -> Limit]
      /\ pc \in [Worker -> Stage \union {"idle"}]
  BY RateLimitAssumption DEF TypeOK
<1> SUFFICES ASSUME NEW w \in Worker, pc'[w] = "count", NEW m \in zset'[limit'[w]]
             PROVE  m.score + Window(limit'[w]) > at'[w]
  BY DEF WindowAsSeen, Window
<1>1. CASE Tick
  BY <1>0, <1>1 DEF Tick, locals, WindowAsSeen
<1>2. ASSUME NEW v \in Worker, Trim(v) PROVE m.score + Window(limit'[w]) > at'[w]
  <2>1. /\ limit' = limit /\ at' = at
        /\ m \in zset[limit[w]]
        /\ w = v => ~Outdated(w, m)
        /\ w # v => pc[w] = "count"
    BY <1>0, <1>2 DEF Trim, Goto, locals
  <2>2. m.score \in Nat /\ at[w] \in Nat /\ Window(limit[w]) \in Nat
    BY <1>0, <2>1, LimitsType DEF Member
  <2>3. CASE w = v
    BY <2>1, <2>2, <2>3 DEF Outdated
  <2>4. CASE w # v
    BY <2>1, <2>4 DEF WindowAsSeen
  <2> QED
    BY <2>3, <2>4
<1>3. ASSUME NEW v \in Worker, Add(v) PROVE m.score + Window(limit'[w]) > at'[w]
  <2>1. PICK t \in Token :
          zset' = [zset EXCEPT ![limit[v]] = @ \union {[score |-> at[v], token |-> t]}]
    BY <1>3 DEF Add
  <2>2. limit' = limit /\ at' = at /\ pc[w] = "count" /\ pc[v] = "add"
    BY <1>0, <1>3 DEF Add, Goto, locals
  <2>3. CASE m \in zset[limit[w]]
    BY <2>2, <2>3 DEF WindowAsSeen
  <2>4. CASE m = [score |-> at[v], token |-> t]
    <3>1. at[w] <= clock /\ clock <= at[v] + MaxDelay
      BY <2>2 DEF Timely
    <3>2. MaxDelay < Window(limit[w]) /\ Window(limit[w]) \in Nat /\ m.score = at[v]
      BY <1>0, <2>4, LimitsType
    <3>3. at[v] \in Nat /\ at[w] \in Nat
      BY <1>0
    <3> QED
      BY <1>0, <2>2, <3>1, <3>2, <3>3
  <2> QED
    BY <1>0, <2>1, <2>2, <2>3, <2>4
<1>4. ASSUME zset' = zset, limit'[w] = limit[w], at'[w] = at[w], pc[w] = "count"
      PROVE  m.score + Window(limit'[w]) > at'[w]
  BY <1>4 DEF WindowAsSeen
<1>5. ASSUME NEW v \in Worker, Arrive(v) \/ Expire(v)
      PROVE  m.score + Window(limit'[w]) > at'[w]
  BY <1>0, <1>4, <1>5 DEF Arrive, Expire, StartCheck, Leave, Goto, keys
<1>6. ASSUME NEW v \in Worker, Count(v) \/ Refuse(v) \/ RedisFails(v)
      PROVE  m.score + Window(limit'[w]) > at'[w]
  BY <1>0, <1>4, <1>6 DEF Count, Refuse, RedisFails, Leave, Goto, keys, locals
<1>7. CASE UNCHANGED vars
  BY <1>4, <1>7 DEF vars
<1> QED
  BY <1>1, <1>2, <1>3, <1>5, <1>6, <1>7 DEF Next, Check, AllOver

\* While checks are faster than the shortest window, a client below its limit
\* is not refused: at a refusal the window, as the request sees it, is full,
\* whatever other requests trim and add between its commands.
THEOREM SpecRefusedOnlyWhenFull ==
    ASSUME \A l \in Limit : MaxDelay < Window(l)
    PROVE  Spec => RefusedOnlyWhenFull
<1> DEFINE Full2 == \A w \in Worker : pc[w] = "count" /\ pc'[w] = "oldest" =>
                        LET l == limit[w]
                        IN  Cardinality({m \in zset[l] : m.score + Window(l) > at[w]})
                                >= Limits[l].max
<1>1. Init => Timely /\ WindowAsSeen
  BY DEF Init, Timely, WindowAsSeen
<1>2. TypeOK /\ Timely /\ WindowAsSeen /\ [Next]_vars => Timely' /\ WindowAsSeen'
  BY StepTimely, StepWindowAsSeen
<1>3. TypeOK /\ WindowAsSeen /\ [Next]_vars => Full2
  <2> SUFFICES ASSUME TypeOK, WindowAsSeen, [Next]_vars,
                      NEW w \in Worker, pc[w] = "count", pc'[w] = "oldest"
               PROVE  Cardinality({m \in zset[limit[w]] :
                                      m.score + Window(limit[w]) > at[w]})
                          >= Limits[limit[w]].max
    OBVIOUS
  <2>1. Count(w)
    BY DEF Next, Check, Tick, Arrive, Trim, Count, Refuse, Add, Expire, RedisFails, AllOver,
           StartCheck, Leave, Goto, vars, locals, TypeOK
  <2>2. Full(limit[w])
    BY <2>1 DEF Count, Goto, TypeOK
  <2>3. {m \in zset[limit[w]] : m.score + Window(limit[w]) > at[w]} = zset[limit[w]]
    BY DEF WindowAsSeen
  <2> QED
    BY <2>2, <2>3 DEF Full
<1>4. TypeOK /\ WindowAsSeen /\ [Next]_vars => [Full2]_vars
  BY <1>3
<1> QED
  BY <1>1, <1>2, <1>4, InitTypeOK, NextTypeOK, PTL DEF Spec, RefusedOnlyWhenFull

\* What a client is told to wait, of a request that is at most as old as the
\* window and less than a second younger than the refusing one's clock reading.
LEMMA RetryAfterBounds ==
    ASSUME NEW w, NEW oldest \in Nat, limit[w] \in Limit, at[w] \in Nat,
           oldest < at[w] + Sec
    PROVE  /\ RetryAfter(w, oldest) <= Limits[limit[w]].window
           /\ oldest + Window(limit[w]) < at[w] + (RetryAfter(w, oldest) + 1) * Sec
<1> DEFINE W == Limits[limit[w]].window
           x == oldest + W * Sec - at[w]
           q == x \div Sec
<1>1. W \in Nat \ {0} /\ Sec \in Nat \ {0}
  BY LimitsType, RateLimitAssumption
<1>2. W * Sec \in Nat /\ (W + 1) * Sec = W * Sec + Sec
  BY <1>1
<1>3. x \in Int /\ x < (W + 1) * Sec
  BY <1>2, <1>1
<1> HIDE DEF x, W
<1>4. q \in Int /\ q * Sec <= x /\ x < (q + 1) * Sec
  BY <1>1, <1>3, SMTT(20)
<1> HIDE DEF q
<1>5. q <= W
  BY <1>1, <1>3, <1>4, SMTT(20)
<1>6. RetryAfter(w, oldest) = IF q < 1 THEN 1 ELSE q
  BY DEF RetryAfter, Window, q, x, W
<1>7. RetryAfter(w, oldest) <= W
  BY <1>1, <1>4, <1>5, <1>6
<1>8. x < (RetryAfter(w, oldest) + 1) * Sec
  <2>1. CASE q < 1
    <3>1. (q + 1) * Sec <= 2 * Sec
      BY <1>1, <1>4, <2>1, SMTT(20)
    <3>2. (q + 1) * Sec \in Int /\ 2 * Sec = (1 + 1) * Sec
      BY <1>1, <1>4
    <3> QED
      BY <1>1, <1>3, <1>4, <1>6, <2>1, <3>1, <3>2
  <2>2. CASE ~(q < 1)
    BY <1>4, <1>6, <2>2
  <2> QED
    BY <2>1, <2>2
<1>9. RetryAfter(w, oldest) \in Nat
  BY RetryAfterType
<1>10. (RetryAfter(w, oldest) + 1) * Sec \in Int
  BY <1>1, <1>9
<1>11. oldest + Window(limit[w]) < at[w] + (RetryAfter(w, oldest) + 1) * Sec
  <2>1. oldest + Window(limit[w]) = x + at[w]
    BY <1>2 DEF Window, x, W
  <2> QED
    BY <1>3, <1>8, <1>10, <2>1
<1> QED
  BY <1>7, <1>11 DEF W

\* While a check takes less than a second, no client is told to wait longer
\* than the window, and one that waits a second longer than it is told finds
\* the oldest request outdated, whatever is trimmed and added between the
\* count and the refusal.
THEOREM SpecRetryAfterIsNearlyEnough ==
    ASSUME MaxDelay < Sec
    PROVE  Spec => RetryAfterIsNearlyEnough
<1> DEFINE Right == \A w \in Worker : pc[w] = "oldest" /\ retry'[w] # retry[w] =>
                        /\ retry'[w] <= Limits[limit[w]].window
                        /\ \A m \in Oldest(limit[w]) :
                               m.score + Window(limit[w]) < at[w] + (retry'[w] + 1) * Sec
<1>1. Init => Timely /\ ScoresPast
  BY DEF Init, Timely, ScoresPast
<1>2. TypeOK /\ Timely /\ ScoresPast /\ [Next]_vars => Timely' /\ ScoresPast'
  BY StepTimely, StepScoresPast
<1>3. TypeOK /\ Timely /\ ScoresPast /\ [Next]_vars => Right
  <2> SUFFICES ASSUME TypeOK, Timely, ScoresPast, [Next]_vars,
                      NEW w \in Worker, pc[w] = "oldest", retry'[w] # retry[w]
               PROVE  /\ retry'[w] <= Limits[limit[w]].window
                      /\ \A m \in Oldest(limit[w]) :
                             m.score + Window(limit[w]) < at[w] + (retry'[w] + 1) * Sec
    OBVIOUS
  <2>1. Refuse(w)
    <3>1. \E v \in Worker : v = w /\ Refuse(v)
      BY DEF Next, Check, Tick, Arrive, Trim, Count, Refuse, Add, Expire, RedisFails, AllOver,
             StartCheck, Leave, Goto, vars, locals, TypeOK
    <3> QED
      BY <3>1
  <2>2. /\ limit[w] \in Limit /\ at[w] \in Nat /\ clock \in Nat /\ MaxDelay \in Nat
        /\ Limits[limit[w]].window \in Nat /\ Sec \in Nat \ {0}
        /\ clock <= at[w] + MaxDelay
        /\ retry \in [Worker -> Nat]
        /\ zset[limit[w]] \subseteq Member
    BY LimitsType, RateLimitAssumption DEF TypeOK, Timely
  <2>3. CASE zset[limit[w]] = {}
    <3>1. Oldest(limit[w]) = {}
      BY <2>3 DEF Oldest
    <3>2. retry'[w] = Limits[limit[w]].window
      BY <2>1, <2>2, <3>1 DEF Refuse
    <3> QED
      BY <2>2, <3>1, <3>2
  <2>4. CASE zset[limit[w]] # {}
    <3>1. PICK o \in Oldest(limit[w]) : retry'[w] = RetryAfter(w, o.score)
      BY <2>1, <2>2, <2>4 DEF Refuse
    <3>2. \A m \in Oldest(limit[w]) : m.score = o.score /\ m.score \in Nat
      BY <2>2 DEF Oldest, Member
    <3>3. o.score \in Nat /\ o.score < at[w] + Sec
      <4>1. o.score <= clock
        BY <2>2 DEF ScoresPast, Oldest
      <4> QED
        BY <2>2, <3>2, <4>1
    <3>4. /\ RetryAfter(w, o.score) <= Limits[limit[w]].window
          /\ o.score + Window(limit[w]) < at[w] + (RetryAfter(w, o.score) + 1) * Sec
      BY <2>2, <3>3, RetryAfterBounds
    <3> QED
      BY <3>1, <3>2, <3>4
  <2> QED
    BY <2>3, <2>4
<1>4. TypeOK /\ Timely /\ ScoresPast /\ [Next]_vars => [Right]_vars
  BY <1>3
<1> QED
  BY <1>1, <1>2, <1>4, InitTypeOK, NextTypeOK, PTL DEF Spec, RetryAfterIsNearlyEnough

\* A refusal is justified, and so is the wait that comes with it, as long as a
\* check takes less than a second.
THEOREM SpecRefusalsAreRight ==
    ASSUME MaxDelay < Sec
    PROVE  Spec => RefusalsAreRight
<1>1. \A l \in Limit : MaxDelay < Window(l)
  <2> TAKE l \in Limit
  <2> QED
    BY WindowsAndTtls
<1> QED
  BY <1>1, SpecRefusedOnlyWhenFull, SpecRetryAfterIsNearlyEnough, PTL DEF RefusalsAreRight

=============================================================================
