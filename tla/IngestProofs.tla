---------------------------- MODULE IngestProofs ----------------------------
(***************************************************************************)
(* Theorems about Ingest, for every set of flaggers, fields, values, runs  *)
(* and faults.                                                             *)
(*                                                                         *)
(* Some hold however runs overlap; the log replays the table, and the      *)
(* refinement, only when runs come one at a time (Overlap = FALSE): with   *)
(* overlapping runs TLC finds them violated.                               *)
(***************************************************************************)
EXTENDS Ingest, ReconcileProofs, SequenceTheorems

-----------------------------------------------------------------------------
(***************************************************************************)
(* Types.  A run past its start has a row in scrape_runs, and a row it     *)
(* read is still in the table: nothing deletes one.                        *)
(***************************************************************************)
RunsRecorded == \A r \in Run : pc[r] \in Stage \union {"done"} => runs[r] # Null

RowsStay == \A r \in Run, id \in Id : seen[r][id] # Null => rows[id] # Null

TypeInv == TypeOK /\ RunsRecorded /\ RowsStay

\* The empty database is well typed.
LEMMA InitTypeInv == Init => TypeInv
<1> SUFFICES ASSUME Init PROVE TypeInv
  OBVIOUS
<1>1. NothingRead \in Table
  BY DEF NothingRead, Table
<1>2. NothingScraped \in Listing
  BY DEF NothingScraped, Listing
<1>3. rows \in Table /\ events \in [Id -> Seq(EventRow(Run))]
  BY DEF Init, Table
<1> QED
  BY <1>1, <1>2, <1>3
  DEF Init, TypeInv, TypeOK, RunsRecorded, RowsStay, NothingRead, Stage

\* What a run keeps in memory when its session is closed.
LEMMA ForgetType ==
    ASSUME TypeInv, NEW r \in Run, Forget(r)
    PROVE  /\ payload' \in [Run -> Listing]
           /\ seen' \in [Run -> Table]
           /\ \A q \in Run : seen'[q] = seen[q] \/ seen'[q] = NothingRead
<1>1. NothingRead \in Table /\ NothingScraped \in Listing
  BY DEF NothingRead, Table, NothingScraped, Listing
<1> QED
  BY <1>1 DEF TypeInv, TypeOK, Forget

\* The transaction: the rows it leaves are rows, each as first seen as before.
LEMMA CommitRows ==
    ASSUME TypeInv, NEW r \in Run, Commit(r)
    PROVE  /\ rows' \in Table
           /\ \A id \in Id : rows[id] # Null => /\ rows'[id] # Null
                                                /\ rows'[id].first = rows[id].first
<1>1. /\ seen[r] \in Table /\ payload[r] \in Listing /\ rows \in Table
      /\ runs[r] \in RunRow
  BY DEF TypeInv, TypeOK, RunsRecorded, Commit, Stage
<1>2. runs[r].started \in Nat
  BY <1>1 DEF RunRow
<1>3. \A id \in Id : seen[r][id] # Null => rows[id] # Null
  BY DEF TypeInv, RowsStay
<1>4. \A id \in Id : rows[id] # Null => (seen[r][id] = Null => payload[r][id] \notin Content)
  BY DEF Commit, Conflict, Created, Scraped
<1> DEFINE new == AppliedRows(seen[r], payload[r], rows, runs[r].started)
<1>5. /\ new \in Table
      /\ \A id \in Id : rows[id] # Null /\ (seen[r][id] = Null => payload[r][id] \notin Content) =>
             new[id] # Null /\ new[id].first = rows[id].first
  BY <1>1, <1>2, <1>3, AppliedRowsType
<1>6. rows' = new
  BY DEF Commit
<1> HIDE DEF new
<1> QED
  BY <1>4, <1>5, <1>6

\* A row of scrape_runs given its outcome and the time of its completion.
LEMMA RowCompleted ==
    ASSUME NEW row \in RunRow, NEW s \in RunStatus, NEW at \in Nat
    PROVE  [row EXCEPT !.status = s, !.completed = at] \in RunRow
BY DEF RunRow

LEMMA CompletedRow ==
    ASSUME TypeInv, NEW r \in Run, runs[r] \in RunRow,
           NEW s \in {"success", "partial", "failed"},
           now' = now + 1,
           runs' = [runs EXCEPT ![r].status = s, ![r].completed = now']
    PROVE  /\ now' \in Nat
           /\ runs' \in [Run -> RunRow \union {Null}]
           /\ runs'[r] \in RunRow
           /\ \A q \in Run \ {r} : runs'[q] = runs[q]
<1>1. now' \in Nat
  BY DEF TypeInv, TypeOK
<1>2. runs \in [Run -> RunRow \union {Null}]
  BY DEF TypeInv, TypeOK
<1>3. runs'[r] = [runs[r] EXCEPT !.status = s, !.completed = now']
  BY <1>2
<1>4. runs'[r] \in RunRow
  <2>1. s \in RunStatus
    BY DEF RunStatus
  <2>2. [runs[r] EXCEPT !.status = s, !.completed = now'] \in RunRow
    BY <1>1, <2>1, RowCompleted, Zenon
  <2> QED
    BY <1>3, <2>2, Zenon
<1>5. \A q \in Run \ {r} : runs'[q] = runs[q]
  BY <1>2
<1>6. runs' \in [Run -> RunRow \union {Null}]
  <2>1. runs' = [q \in Run |-> runs'[q]]
    BY <1>2
  <2>2. \A q \in Run : runs'[q] \in RunRow \union {Null}
    BY <1>2, <1>4, <1>5
  <2> QED
    BY <2>1, <2>2
<1> QED
  BY <1>1, <1>4, <1>5, <1>6

\* A run whose session is closed and that goes on to its failure handler, or
\* that is killed.
LEMMA ForgottenTypeInv ==
    ASSUME TypeInv, NEW r \in Run, pc[r] \in Stage, Forget(r),
           NEW stage \in {"failing", "killed"}, Goto(r, stage),
           UNCHANGED <<rows, events, runs, stamp, alerted, now>>
    PROVE  TypeInv'
<1>1. /\ payload' \in [Run -> Listing] /\ seen' \in [Run -> Table]
      /\ \A q \in Run : seen'[q] = seen[q] \/ seen'[q] = NothingRead
  BY ForgetType
<1>2. /\ pc' \in [Run -> Stage \union Ended \union {"idle"}]
      /\ \A q \in Run : pc'[q] \in Stage \union {"done"} => pc[q] \in Stage \union {"done"}
  BY DEF Goto, TypeInv, TypeOK, Stage, Ended
<1>3. RunsRecorded'
  BY <1>2 DEF TypeInv, RunsRecorded
<1>4. RowsStay'
  BY <1>1 DEF TypeInv, RowsStay, NothingRead
<1>5. TypeOK'
  BY <1>1, <1>2 DEF TypeInv, TypeOK
<1> QED
  BY <1>3, <1>4, <1>5 DEF TypeInv

\* Every step of every run keeps the types, the run's record and the rows read.
LEMMA StepTypeInv == TypeInv /\ [Next]_vars => TypeInv'
<1> SUFFICES ASSUME TypeInv, [Next]_vars PROVE TypeInv'
  OBVIOUS
<1> USE DEF Goto, database
<1>1. ASSUME NEW r \in Run, Start(r) PROVE TypeInv'
  <2>1. now' \in Nat
    BY <1>1 DEF TypeInv, TypeOK, Start
  <2>2. [status |-> "running", started |-> now', completed |-> 0] \in RunRow
    BY <2>1 DEF RunRow, RunStatus
  <2>3. CASE /\ runs' = [runs EXCEPT ![r] =
                   [status |-> "running", started |-> now', completed |-> 0]]
             /\ pc' = [pc EXCEPT ![r] = "page"]
    BY <1>1, <2>1, <2>2, <2>3, IngestAssumption
    DEF TypeInv, TypeOK, RunsRecorded, RowsStay, Start, Stage
  <2>4. CASE runs' = runs /\ pc' = [pc EXCEPT ![r] = "raised"]
    BY <1>1, <2>1, <2>4
    DEF TypeInv, TypeOK, RunsRecorded, RowsStay, Start, Stage, Ended
  <2> QED
    BY <1>1, <2>3, <2>4 DEF Start
<1>2. ASSUME NEW r \in Run, FetchPage(r) PROVE TypeInv'
  BY <1>2 DEF TypeInv, TypeOK, RunsRecorded, RowsStay, FetchPage, Stage
<1>3. ASSUME NEW r \in Run, FetchRows(r) PROVE TypeInv'
  BY <1>3 DEF TypeInv, TypeOK, RunsRecorded, RowsStay, FetchRows, Stage
<1>4. ASSUME NEW r \in Run, FetchFails(r) PROVE TypeInv'
  BY <1>4 DEF TypeInv, TypeOK, RunsRecorded, RowsStay, FetchFails, Stage
<1>5. ASSUME NEW r \in Run, ReadTable(r) PROVE TypeInv'
  BY <1>5 DEF TypeInv, TypeOK, RunsRecorded, RowsStay, ReadTable, Stage
<1>6. ASSUME NEW r \in Run, Commit(r) PROVE TypeInv'
  <2>1. rows' \in Table /\ \A id \in Id : rows[id] # Null => rows'[id] # Null
    BY <1>6, CommitRows
  <2>2. events' \in [Id -> Seq(EventRow(Run))]
    BY <1>6, AppliedEventsType DEF TypeInv, TypeOK, Commit
  <2>3. /\ payload' \in [Run -> Listing] /\ seen' \in [Run -> Table]
        /\ \A q \in Run : seen'[q] = seen[q] \/ seen'[q] = NothingRead
    BY <1>6, ForgetType DEF Commit
  <2>4. RowsStay'
    BY <2>1, <2>3 DEF TypeInv, RowsStay, NothingRead
  <2>5. runs[r] \in RunRow
    BY <1>6 DEF TypeInv, TypeOK, RunsRecorded, Commit, Stage
  <2>6. /\ runs' \in [Run -> RunRow \union {Null}] /\ now' \in Nat
        /\ runs'[r] \in RunRow
    BY <1>6, <2>5, CompletedRow DEF Commit, Outcome
  <2>7. pc' \in [Run -> Stage \union Ended \union {"idle"}]
    BY <1>6 DEF TypeInv, TypeOK, Commit, Stage
  <2>8. \A q \in Run : pc'[q] \in Stage \union {"done"} => runs'[q] # Null
    <3>1. \A q \in Run \ {r} : pc'[q] = pc[q] /\ runs'[q] = runs[q]
      BY <1>6 DEF TypeInv, TypeOK, Commit
    <3> QED
      BY <2>6, <3>1, IngestAssumption DEF TypeInv, RunsRecorded
  <2> QED
    BY <1>6, <2>1, <2>2, <2>3, <2>4, <2>6, <2>7, <2>8
    DEF TypeInv, TypeOK, RunsRecorded, Commit
<1>7. ASSUME NEW r \in Run, RollBack(r) PROVE TypeInv'
  <2>1. /\ pc[r] \in Stage /\ Forget(r) /\ pc' = [pc EXCEPT ![r] = "failing"]
        /\ UNCHANGED <<rows, events, runs, stamp, alerted, now>>
    BY <1>7 DEF RollBack, Stage
  <2> QED
    BY <2>1, ForgottenTypeInv
<1>8. ASSUME NEW r \in Run, WriteStamp(r) PROVE TypeInv'
  <2>1. runs[r].completed \in Nat
    BY <1>8 DEF TypeInv, TypeOK, RunsRecorded, WriteStamp, Stage, RunRow
  <2> QED
    BY <1>8, <2>1 DEF TypeInv, TypeOK, RunsRecorded, RowsStay, WriteStamp, Stage
<1>9. ASSUME NEW r \in Run, OpenData(r) PROVE TypeInv'
  BY <1>9 DEF TypeInv, TypeOK, RunsRecorded, RowsStay, OpenData, Stage, Ended
<1>10. ASSUME NEW r \in Run, MarkFailed(r) PROVE TypeInv'
  <2>1. CASE /\ now' = now + 1
             /\ runs' = [runs EXCEPT ![r].status = "failed",
                                     ![r].completed = now']
             /\ pc' = [pc EXCEPT ![r] = "alert"]
    <3>1. runs[r] \in RunRow
      BY <1>10 DEF TypeInv, TypeOK, RunsRecorded, MarkFailed, Stage
    <3>2. runs' \in [Run -> RunRow \union {Null}] /\ now' \in Nat /\ runs'[r] \in RunRow
      BY <2>1, <3>1, CompletedRow
    <3> QED
      BY <1>10, <2>1, <3>2, IngestAssumption
      DEF TypeInv, TypeOK, RunsRecorded, RowsStay, MarkFailed, Stage
  <2>2. CASE runs' = runs /\ now' = now /\ pc' = [pc EXCEPT ![r] = "raised"]
    BY <1>10, <2>2
    DEF TypeInv, TypeOK, RunsRecorded, RowsStay, MarkFailed, Stage, Ended
  <2> QED
    BY <1>10, <2>1, <2>2 DEF MarkFailed
<1>11. ASSUME NEW r \in Run, Alert(r) PROVE TypeInv'
  BY <1>11 DEF TypeInv, TypeOK, RunsRecorded, RowsStay, Alert, Stage, Ended
<1>12. ASSUME NEW r \in Run, Kill(r) PROVE TypeInv'
  <2>1. /\ pc[r] \in Stage /\ Forget(r) /\ pc' = [pc EXCEPT ![r] = "killed"]
        /\ UNCHANGED <<rows, events, runs, stamp, alerted, now>>
    BY <1>12 DEF Kill, InFlight
  <2> QED
    BY <2>1, ForgottenTypeInv
<1>13. CASE UNCHANGED vars
  BY <1>13 DEF TypeInv, TypeOK, RunsRecorded, RowsStay, vars
<1> QED
  BY <1>1, <1>2, <1>3, <1>4, <1>5, <1>6, <1>7, <1>8, <1>9, <1>10, <1>11, <1>12, <1>13
  DEF Next, Advance, AllOver

\* The two facts above, along a behaviour.
LEMMA AlwaysTypeInv == Spec => []TypeInv
  BY InitTypeInv, StepTypeInv, PTL DEF Spec

\* The tables, the stamp and the locals of every run keep their types however
\* runs overlap, fail, die and lose acknowledgements.
THEOREM SpecTypeOK == Spec => []TypeOK
<1>1. TypeInv => TypeOK
  BY DEF TypeInv
<1> QED
  BY <1>1, AlwaysTypeInv, PTL

\* Only the transaction writes the table and the log.
LEMMA OnlyCommitWrites ==
    ASSUME [Next]_vars, \A r \in Run : ~Commit(r)
    PROVE  rows' = rows /\ events' = events
  BY DEF Next, Advance, Start, FetchPage, FetchRows, FetchFails, ReadTable, RollBack,
         WriteStamp, OpenData, MarkFailed, Alert, Kill, AllOver, vars, database

\* What one transaction does to one history: nothing, or one more event of
\* its run, which creates the flagger only if the table has no row of it.
LEMMA CommitEvents ==
    ASSUME TypeInv, NEW r \in Run, Commit(r), NEW id \in Id
    PROVE  \/ events'[id] = events[id] /\ (rows[id] = Null => rows'[id] = Null)
           \/ \E e \in EventRow(Run) :
                 /\ events'[id] = Append(events[id], e)
                 /\ e.run = r /\ rows'[id] # Null
                 /\ e.type = "created" => rows[id] = Null
<1> DEFINE s == seen[r]
           p == payload[r]
<1>1. /\ s \in Table /\ p \in Listing /\ rows \in Table
      /\ runs[r].started \in Nat
  BY DEF TypeInv, TypeOK, RunsRecorded, Commit, Stage, RunRow
<1>2. s[id] # Null => rows[id] # Null
  BY DEF TypeInv, RowsStay
<1>3. rows[id] # Null => rows'[id] # Null
  BY CommitRows
<1>4. id \in Created(s, p) => rows[id] = Null /\ rows'[id] # Null
  <2>1. id \in Created(s, p) => rows[id] = Null
    BY DEF Commit, Conflict
  <2>2. id \in Created(s, p) => rows'[id] = NewRow(p[id], runs[r].started)
    BY DEF Commit, AppliedRows, Created, Restored, Removed, Scraped
  <2>3. id \in Created(s, p) => p[id] \in Content
    BY DEF Created, Scraped
  <2> QED
    BY <1>1, <2>1, <2>2, <2>3, SentinelsAreNotData DEF NewRow, Row, Status
<1>5. id \notin Created(s, p) /\ rows[id] = Null => rows'[id] = Null
  BY <1>1, <1>2 DEF Commit, AppliedRows, Created, Restored, Removed, Scraped
<1>6. s[id] # Null => s[id].content \in Content
  BY <1>1 DEF Table, Row
<1>7. p[id] \in Content /\ s[id] # Null => ComputeDiff(s[id].content, p[id]) \in Diff
  BY <1>6, DiffType
<1>8. events' = AppliedEvents(s, p, events, r)
  BY DEF Commit
<1>9. CASE id \in Created(s, p)
  <2> DEFINE e == Event(r, "created", Null, p[id])
  <2>1. events'[id] = Append(events[id], e) /\ p[id] \in Content
    BY <1>8, <1>9 DEF AppliedEvents, Created, Restored, Updated, Removed, Scraped
  <2>2. e \in EventRow(Run) /\ e.run = r
    BY <2>1 DEF Event, EventRow, EventType
  <2> QED
    BY <1>4, <1>9, <2>1, <2>2
<1>10. CASE id \in Restored(s, p)
  <2> DEFINE e == Event(r, "restored", Null, p[id])
  <2>1. events'[id] = Append(events[id], e) /\ p[id] \in Content /\ s[id] # Null
    BY <1>8, <1>10 DEF AppliedEvents, Created, Restored, Updated, Removed, Scraped
  <2>2. e \in EventRow(Run) /\ e.run = r /\ e.type # "created"
    BY <2>1 DEF Event, EventRow, EventType
  <2> QED
    BY <1>2, <1>3, <2>1, <2>2
<1>11. CASE id \in Updated(s, p)
  <2> DEFINE e == Event(r, "updated", ComputeDiff(s[id].content, p[id]), p[id])
  <2>1. events'[id] = Append(events[id], e) /\ p[id] \in Content /\ s[id] # Null
    BY <1>8, <1>11 DEF AppliedEvents, Created, Restored, Updated, Removed, Scraped
  <2>2. e \in EventRow(Run) /\ e.run = r /\ e.type # "created"
    BY <1>7, <2>1 DEF Event, EventRow, EventType
  <2> QED
    BY <1>2, <1>3, <2>1, <2>2
<1>12. CASE id \in Removed(s, p)
  <2> DEFINE e == Event(r, "removed", Null, s[id].content)
  <2>1. events'[id] = Append(events[id], e) /\ s[id] # Null
    BY <1>8, <1>12 DEF AppliedEvents, Created, Restored, Updated, Removed, Scraped
  <2>2. e \in EventRow(Run) /\ e.run = r /\ e.type # "created"
    BY <1>6, <2>1 DEF Event, EventRow, EventType
  <2> QED
    BY <1>2, <1>3, <2>1, <2>2
<1>13. CASE id \notin Created(s, p) \union Restored(s, p) \union Updated(s, p) \union Removed(s, p)
  <2>1. events'[id] = events[id]
    BY <1>8, <1>13 DEF AppliedEvents
  <2> QED
    BY <1>5, <1>13, <2>1
<1> QED
  BY <1>9, <1>10, <1>11, <1>12, <1>13

-----------------------------------------------------------------------------
(***************************************************************************)
(* Safety that no overlap of runs can break.                               *)
(***************************************************************************)

\* A row is never deleted and first_seen_at never moves, even when two runs
\* discover one flagger at once: the second insert fails.
THEOREM SpecFirstSeenIsForever == Spec => FirstSeenIsForever
<1>1. TypeInv /\ [Next]_vars =>
        [\A id \in Id : rows[id] # Null =>
            rows'[id] # Null /\ rows'[id].first = rows[id].first]_vars
  <2> SUFFICES ASSUME TypeInv, [Next]_vars
               PROVE  \A id \in Id : rows[id] # Null =>
                         rows'[id] # Null /\ rows'[id].first = rows[id].first
    OBVIOUS
  <2>1. ASSUME NEW r \in Run, Commit(r)
        PROVE  \A id \in Id : rows[id] # Null =>
                  rows'[id] # Null /\ rows'[id].first = rows[id].first
    BY <2>1, CommitRows
  <2>2. CASE \A r \in Run : ~Commit(r)
    <3>1. rows' = rows
      BY <2>2, OnlyCommitWrites
    <3> QED
      BY <3>1
  <2> QED
    BY <2>1, <2>2
<1> QED
  BY <1>1, AlwaysTypeInv, PTL DEF Spec, FirstSeenIsForever

\* A step is of one run, and the others stay where they are.
LEMMA OtherRunsStay ==
    ASSUME TypeInv, NEW r \in Run, Start(r) \/ Advance(r) \/ Kill(r), NEW q \in Run \ {r}
    PROVE  pc'[q] = pc[q] /\ runs'[q] = runs[q]
<1>0. /\ pc \in [Run -> Stage \union Ended \union {"idle"}]
      /\ runs \in [Run -> RunRow \union {Null}]
  BY DEF TypeInv, TypeOK
<1>1. CASE Start(r)
  BY <1>0, <1>1 DEF Start, Goto
<1>2. CASE FetchPage(r) \/ FetchRows(r) \/ FetchFails(r)
  BY <1>0, <1>2 DEF FetchPage, FetchRows, FetchFails, Goto, database
<1>3. CASE ReadTable(r) \/ RollBack(r)
  BY <1>0, <1>3 DEF ReadTable, RollBack, Goto, database
<1>4. CASE Commit(r)
  BY <1>0, <1>4 DEF Commit, Goto
<1>5. CASE WriteStamp(r) \/ OpenData(r)
  BY <1>0, <1>5 DEF WriteStamp, OpenData, Goto, database
<1>6. CASE MarkFailed(r)
  BY <1>0, <1>6 DEF MarkFailed, Goto
<1>7. CASE Alert(r) \/ Kill(r)
  BY <1>0, <1>7 DEF Alert, Kill, Goto, database
<1> QED
  BY <1>1, <1>2, <1>3, <1>4, <1>5, <1>6, <1>7 DEF Advance

\* The runs that have logged an event have left the transaction, and a
\* flagger with no row has no history.
Beyond == {"stamp", "opendata", "failing", "alert"} \union Ended

LoggedRunsAreBeyond ==
    \A id \in Id : \A i \in 1 .. Len(events[id]) : pc[events[id][i].run] \in Beyond

NoRowNoHistory == \A id \in Id : rows[id] = Null => events[id] = <<>>

\* No run comes back to its transaction.
LEMMA BeyondIsForever ==
    ASSUME TypeInv, [Next]_vars, NEW q \in Run, pc[q] \in Beyond
    PROVE  pc'[q] \in Beyond
<1>0. pc \in [Run -> Stage \union Ended \union {"idle"}]
  BY DEF TypeInv, TypeOK
<1>1. UNCHANGED vars \/ \E r \in Run : Start(r) \/ Advance(r) \/ Kill(r)
  BY DEF Next, AllOver
<1>2. CASE UNCHANGED vars
  BY <1>2 DEF vars
<1>3. ASSUME NEW r \in Run, Start(r) \/ Advance(r) \/ Kill(r), r # q
      PROVE  pc'[q] = pc[q]
  BY <1>3, OtherRunsStay
<1>4. CASE Start(q) \/ Advance(q) \/ Kill(q)
  <2>1. CASE Start(q) \/ FetchPage(q) \/ FetchRows(q) \/ FetchFails(q)
    BY <2>1 DEF Start, FetchPage, FetchRows, FetchFails, Beyond, Ended
  <2>2. CASE ReadTable(q) \/ Commit(q) \/ RollBack(q)
    BY <2>2 DEF ReadTable, Commit, RollBack, Beyond, Ended
  <2>3. CASE WriteStamp(q) \/ OpenData(q) \/ MarkFailed(q)
    BY <1>0, <2>3 DEF WriteStamp, OpenData, MarkFailed, Goto, Beyond, Ended
  <2>4. CASE Alert(q) \/ Kill(q)
    BY <1>0, <2>4 DEF Alert, Kill, Goto, Beyond, Ended
  <2> QED
    BY <1>4, <2>1, <2>2, <2>3, <2>4 DEF Advance
<1> QED
  BY <1>1, <1>2, <1>3, <1>4

LogInv == LoggedRunsAreBeyond /\ NoRowNoHistory /\ CreatedOnceLoggedOnce

\* The invariant is inductive: only a transaction disturbs it, by one event.
LEMMA StepLogInv == TypeInv /\ LogInv /\ [Next]_vars => LogInv'
<1> SUFFICES ASSUME TypeInv, LogInv, [Next]_vars PROVE LogInv'
  OBVIOUS
<1>0. \A id \in Id : /\ events[id] \in Seq(EventRow(Run))
                     /\ \A i \in 1 .. Len(events[id]) : events[id][i].run \in Run
  <2> SUFFICES ASSUME NEW id \in Id
               PROVE  /\ events[id] \in Seq(EventRow(Run))
                      /\ \A i \in 1 .. Len(events[id]) : events[id][i].run \in Run
    OBVIOUS
  <2>1. events[id] \in Seq(EventRow(Run))
    BY DEF TypeInv, TypeOK
  <2>2. \A i \in 1 .. Len(events[id]) : events[id][i] \in EventRow(Run)
    BY <2>1
  <2>3. \A e \in EventRow(Run) : e.run \in Run
    BY DEF EventRow
  <2> QED
    BY <2>1, <2>2, <2>3
<1>1. CASE \A r \in Run : ~Commit(r)
  <2>1. rows' = rows /\ events' = events
    BY <1>1, OnlyCommitWrites
  <2>2. \A q \in Run : pc[q] \in Beyond => pc'[q] \in Beyond
    BY BeyondIsForever
  <2> QED
    BY <1>0, <2>1, <2>2 DEF LogInv, LoggedRunsAreBeyond, NoRowNoHistory, CreatedOnceLoggedOnce
<1>2. ASSUME NEW r \in Run, Commit(r) PROVE LogInv'
  <2>1. /\ seen[r] \in Table /\ payload[r] \in Listing
        /\ rows \in Table /\ pc[r] = "commit"
        /\ events \in [Id -> Seq(EventRow(Run))]
    BY <1>2 DEF TypeInv, TypeOK, Commit
  <2>2. pc'[r] \in Beyond /\ \A q \in Run : pc[q] \in Beyond => pc'[q] \in Beyond
    BY <1>2 DEF Commit, Goto, Beyond, TypeInv, TypeOK
  <2>3. \A id \in Id : rows[id] # Null => rows'[id] # Null
    BY <1>2, CommitRows
  <2> SUFFICES ASSUME NEW id \in Id
               PROVE  /\ \A i \in 1 .. Len(events'[id]) : pc'[events'[id][i].run] \in Beyond
                      /\ rows'[id] = Null => events'[id] = <<>>
                      /\ \A i, j \in 1 .. Len(events'[id]) : i # j =>
                           /\ ~ (events'[id][i].type = "created" /\ events'[id][j].type = "created")
                           /\ events'[id][i].run # events'[id][j].run
    BY DEF LogInv, LoggedRunsAreBeyond, NoRowNoHistory, CreatedOnceLoggedOnce
  <2> DEFINE h == events[id]
             h1 == events'[id]
  <2>4. \A i \in 1 .. Len(h) : h[i].run \in Run /\ pc[h[i].run] \in Beyond /\ h[i].run # r
    <3>1. pc[r] \notin Beyond
      BY <2>1 DEF Beyond, Ended
    <3> QED
      BY <1>0, <3>1 DEF LogInv, LoggedRunsAreBeyond
  <2>5. CASE h1 = h /\ (rows[id] = Null => rows'[id] = Null)
    BY <2>2, <2>3, <2>4, <2>5 DEF LogInv, NoRowNoHistory, CreatedOnceLoggedOnce
  <2>7. \/ h1 = h /\ (rows[id] = Null => rows'[id] = Null)
        \/ \E e \in EventRow(Run) :
              /\ h1 = Append(h, e) /\ e.run = r /\ rows'[id] # Null
              /\ e.type = "created" => h = <<>>
    <3>1. rows[id] = Null => h = <<>>
      BY DEF LogInv, NoRowNoHistory
    <3>2. \/ h1 = h /\ (rows[id] = Null => rows'[id] = Null)
          \/ \E e \in EventRow(Run) :
              /\ h1 = Append(h, e) /\ e.run = r /\ rows'[id] # Null
              /\ e.type = "created" => rows[id] = Null
      BY <1>2, CommitEvents
    <3> QED
      BY <3>1, <3>2
  <2>8. CASE \E e \in EventRow(Run) :
              /\ h1 = Append(h, e) /\ e.run = r /\ rows'[id] # Null
              /\ e.type = "created" => h = <<>>
    <3>1. PICK e \in EventRow(Run) :
              /\ h1 = Append(h, e) /\ e.run = r /\ rows'[id] # Null
              /\ e.type = "created" => h = <<>>
      BY <2>8
    <3>2. Len(h1) = Len(h) + 1 /\ h1[Len(h1)] = e /\ \A i \in 1 .. Len(h) : h1[i] = h[i]
      BY <1>0, <3>1
    <3>3. Len(h) \in Nat
      BY <1>0
    <3>4. \A i \in 1 .. Len(h1) : i = Len(h1) \/ i \in 1 .. Len(h)
      BY <3>2, <3>3
    <3>5. \A i \in 1 .. Len(h1) : pc'[h1[i].run] \in Beyond
      BY <2>2, <2>4, <3>1, <3>2, <3>4
    <3>6. \A i, j \in 1 .. Len(h) : i # j =>
             /\ ~ (h[i].type = "created" /\ h[j].type = "created")
             /\ h[i].run # h[j].run
      BY DEF LogInv, CreatedOnceLoggedOnce
    <3>7. \A i, j \in 1 .. Len(h1) : i # j => h1[i].run # h1[j].run
      BY <2>4, <3>1, <3>2, <3>4, <3>6
    <3>8. e.type = "created" => Len(h) = 0
      BY <3>1
    <3>9. \A i, j \in 1 .. Len(h1) : i # j =>
             ~ (h1[i].type = "created" /\ h1[j].type = "created")
      <4> SUFFICES ASSUME NEW i \in 1 .. Len(h1), NEW j \in 1 .. Len(h1), i # j,
                          h1[i].type = "created", h1[j].type = "created"
                   PROVE  FALSE
        OBVIOUS
      <4> HIDE DEF h, h1
      <4>1. CASE i \in 1 .. Len(h) /\ j \in 1 .. Len(h)
        BY <3>2, <3>6, <4>1
      <4>2. CASE i = Len(h1) \/ j = Len(h1)
        <5>1. Len(h1) = 1
          BY <3>2, <3>8, <4>2
        <5> QED
          BY <5>1
      <4> QED
        BY <3>4, <4>1, <4>2
    <3> QED
      BY <3>1, <3>5, <3>7, <3>9
  <2> QED
    BY <2>5, <2>7, <2>8
<1> QED
  BY <1>1, <1>2

\* Two runs that discover one flagger at once do not both create it, and no
\* run logs two events about one flagger, whatever overlaps and fails.
THEOREM SpecCreatedOnceLoggedOnce == Spec => []CreatedOnceLoggedOnce
<1>1. Init => LogInv
  BY DEF Init, LogInv, LoggedRunsAreBeyond, NoRowNoHistory, CreatedOnceLoggedOnce
<1>2. LogInv => CreatedOnceLoggedOnce
  BY DEF LogInv
<1> QED
  BY <1>1, <1>2, StepLogInv, AlwaysTypeInv, PTL DEF Spec

\* The steps a run takes from its stamp on, and the one that takes it there.
LEMMA OwnSteps ==
    ASSUME TypeInv, NEW r \in Run, Start(r) \/ Advance(r) \/ Kill(r)
    PROVE  /\ pc[r] \in {"stamp", "opendata", "done", "killed"} =>
                  WriteStamp(r) \/ OpenData(r) \/ Kill(r)
           /\ pc'[r] \in {"stamp", "opendata", "done"} =>
                  WriteStamp(r) \/ OpenData(r) \/ Commit(r)
<1>0. pc \in [Run -> Stage \union Ended \union {"idle"}]
  BY DEF TypeInv, TypeOK
<1>1. CASE Start(r)
  BY <1>0, <1>1 DEF Start, Goto
<1>2. CASE FetchPage(r) \/ FetchRows(r) \/ FetchFails(r)
  BY <1>0, <1>2 DEF FetchPage, FetchRows, FetchFails, Goto
<1>3. CASE ReadTable(r) \/ RollBack(r)
  BY <1>0, <1>3 DEF ReadTable, RollBack, Goto
<1>4. CASE Commit(r)
  BY <1>0, <1>4 DEF Commit
<1>5. CASE MarkFailed(r) \/ Alert(r)
  BY <1>0, <1>5 DEF MarkFailed, Alert, Goto
<1>6. CASE WriteStamp(r) \/ OpenData(r)
  BY <1>6
<1>7. CASE Kill(r)
  BY <1>0, <1>7 DEF Kill, Goto
<1> QED
  BY <1>1, <1>2, <1>3, <1>4, <1>5, <1>6, <1>7 DEF Advance

\* Where a step leaves any run: what is past its transaction stays there with
\* its record, and only a transaction takes a run there.
LEMMA PastTransaction ==
    ASSUME TypeInv, [Next]_vars, NEW q \in Run
    PROVE  /\ pc[q] \in {"stamp", "opendata", "done", "killed"} =>
                  /\ pc'[q] \in {"opendata", "done", "killed"} \/ pc'[q] = pc[q]
                  /\ runs'[q] = runs[q]
           /\ pc'[q] \in {"stamp", "opendata", "done"} =>
                  pc[q] \in {"stamp", "opendata", "done"} \/ Commit(q)
<1>1. UNCHANGED vars \/ \E r \in Run : Start(r) \/ Advance(r) \/ Kill(r)
  BY DEF Next, AllOver
<1>2. CASE UNCHANGED vars
  BY <1>2 DEF vars
<1>3. ASSUME NEW r \in Run, Start(r) \/ Advance(r) \/ Kill(r), r # q
      PROVE  pc'[q] = pc[q] /\ runs'[q] = runs[q]
  BY <1>3, OtherRunsStay
<1>4. CASE Start(q) \/ Advance(q) \/ Kill(q)
  <2>1. CASE WriteStamp(q)
    BY <2>1 DEF WriteStamp, Goto, database, TypeInv, TypeOK
  <2>2. CASE OpenData(q)
    BY <2>2 DEF OpenData, Goto, database, TypeInv, TypeOK
  <2>3. CASE Kill(q)
    BY <2>3 DEF Kill, Goto, database, TypeInv, TypeOK
  <2> QED
    BY <1>4, <2>1, <2>2, <2>3, OwnSteps
<1> QED
  BY <1>1, <1>2, <1>3, <1>4

\* Where a run is once its transaction is committed, when no acknowledgement
\* is lost.
Settled == {"stamp", "opendata", "done", "killed"}

\* The inductive invariant: a run with events is past its failure handler, so
\* that the outcome recorded for it is final.
LoggedRunsAreSettled ==
    \A id \in Id : \A i \in 1 .. Len(events[id]) :
        /\ pc[events[id][i].run] \in Settled
        /\ runs[events[id][i].run] # Null
        /\ runs[events[id][i].run].status \in {"success", "partial"}

\* The record of a settled run does not change any more.
LEMMA SettledIsForever ==
    ASSUME TypeInv, [Next]_vars, NEW q \in Run, pc[q] \in Settled
    PROVE  pc'[q] \in Settled /\ runs'[q] = runs[q]
BY PastTransaction DEF Settled

\* The transaction settles its run.
LEMMA CommitSettles ==
    ASSUME "ack" \notin Faults, TypeInv, NEW r \in Run, Commit(r)
    PROVE  /\ pc'[r] \in Settled
           /\ runs'[r] # Null
           /\ runs'[r].status \in {"success", "partial"}
<1>1. pc'[r] \in Settled
  BY DEF Commit, Goto, Settled, TypeInv, TypeOK
<1>2. runs[r] \in RunRow /\ runs \in [Run -> RunRow \union {Null}]
  BY DEF Commit, Stage, TypeInv, TypeOK, RunsRecorded
<1>3. /\ now' = now + 1
      /\ runs' = [runs EXCEPT ![r].status = Outcome(payload[r]), ![r].completed = now']
  BY DEF Commit
<1>4. Outcome(payload[r]) \in {"success", "partial"}
  BY DEF Outcome
<1> DEFINE o == Outcome(payload[r])
<1> HIDE DEF o
<1>5. runs'[r] \in RunRow
  BY <1>2, <1>3, <1>4, CompletedRow DEF o
<1>6. runs'[r] = [runs[r] EXCEPT !.status = o, !.completed = now']
  BY <1>2, <1>3 DEF o
<1>7. runs'[r].status = o
  BY <1>2, <1>6 DEF RunRow
<1> QED
  BY <1>1, <1>4, <1>5, <1>7, IngestAssumption DEF o

\* The invariant is inductive: the transaction adds events of the run it settles.
LEMMA StepSettled ==
    ASSUME "ack" \notin Faults, TypeInv, LoggedRunsAreSettled, [Next]_vars
    PROVE  LoggedRunsAreSettled'
<1>1. \A id \in Id : events[id] \in Seq(EventRow(Run))
  BY DEF TypeInv, TypeOK
<1>2. \A e \in EventRow(Run) : e.run \in Run
  BY DEF EventRow
<1>3. \A q \in Run : pc[q] \in Settled => pc'[q] \in Settled /\ runs'[q] = runs[q]
  BY SettledIsForever
<1> DEFINE Final(e) == /\ pc'[e.run] \in Settled
                       /\ runs'[e.run] # Null
                       /\ runs'[e.run].status \in {"success", "partial"}
<1>4. \A id \in Id : \A i \in 1 .. Len(events[id]) : Final(events[id][i])
  <2> SUFFICES ASSUME NEW id \in Id, NEW i \in 1 .. Len(events[id])
               PROVE  Final(events[id][i])
    OBVIOUS
  <2>1. events[id][i].run \in Run
    BY <1>1, <1>2
  <2> QED
    BY <1>3, <2>1 DEF LoggedRunsAreSettled
<1> HIDE DEF Final
<1>5. ASSUME NEW id \in Id, NEW i \in 1 .. Len(events'[id])
      PROVE  Final(events'[id][i])
  <2>1. CASE events'[id] = events[id]
    BY <1>4, <1>5, <2>1
  <2>2. ASSUME NEW r \in Run, Commit(r), NEW e \in EventRow(Run),
               events'[id] = Append(events[id], e), e.run = r
        PROVE  Final(events'[id][i])
    <3>1. \/ i \in 1 .. Len(events[id]) /\ events'[id][i] = events[id][i]
          \/ events'[id][i] = e
      BY <1>1, <1>5, <2>2
    <3>2. Final(e)
      BY <2>2, CommitSettles DEF Final
    <3> QED
      BY <1>4, <3>1, <3>2
  <2> QED
    BY <2>1, <2>2, CommitEvents, OnlyCommitWrites
<1> QED
  BY <1>5 DEF LoggedRunsAreSettled, Final

\* The transaction is all or nothing: as long as no acknowledgement is lost,
\* every event belongs to a run recorded as success or partial, and a run
\* recorded as failed changed nothing.
THEOREM SpecEventsOfCommittedRuns ==
    ASSUME "ack" \notin Faults PROVE Spec => []EventsOfCommittedRuns
<1>1. Init => LoggedRunsAreSettled
  BY DEF Init, LoggedRunsAreSettled
<1>2. LoggedRunsAreSettled => EventsOfCommittedRuns
  BY DEF LoggedRunsAreSettled, EventsOfCommittedRuns
<1> QED
  BY <1>1, <1>2, StepSettled, AlwaysTypeInv, PTL DEF Spec

-----------------------------------------------------------------------------
(***************************************************************************)
(* One run at a time.  Then the table is, at the commit, still the table   *)
(* the run read: that is what every property below rests on.               *)
(***************************************************************************)
OneAtATime == \A q, r \in Run : InFlight(q) /\ InFlight(r) => q = r

SeenIsCurrent == \A r \in Run : pc[r] = "commit" => seen[r] = rows

SerialInv == OneAtATime /\ SeenIsCurrent

\* A run that takes a step is in flight before it.
LEMMA StepSerialInv ==
    ASSUME ~Overlap, TypeInv, SerialInv, [Next]_vars
    PROVE  SerialInv'
<1> USE DEF InFlight, Stage
<1>1. ASSUME NEW r \in Run, Start(r) PROVE SerialInv'
  <2>1. /\ \A q \in Run : pc[q] \notin Stage
        /\ \A q \in Run \ {r} : pc'[q] = pc[q]
        /\ pc'[r] # "commit" /\ rows' = rows /\ seen' = seen
    BY <1>1 DEF Start, Goto, TypeInv, TypeOK
  <2>2. OneAtATime'
    BY <2>1 DEF OneAtATime
  <2>3. SeenIsCurrent'
    BY <2>1 DEF SeenIsCurrent, SerialInv
  <2> QED
    BY <2>2, <2>3 DEF SerialInv
<1>2. ASSUME NEW r \in Run, Advance(r) \/ Kill(r) PROVE SerialInv'
  <2>1. InFlight(r) /\ \A q \in Run \ {r} : pc'[q] = pc[q]
    BY <1>2 DEF Advance, FetchPage, FetchRows, FetchFails, ReadTable, Commit, RollBack,
                WriteStamp, OpenData, MarkFailed, Alert, Kill, Goto, TypeInv, TypeOK
  <2>2. \A q \in Run \ {r} : ~InFlight(q)
    BY <2>1 DEF SerialInv, OneAtATime
  <2>3. OneAtATime'
    BY <2>1, <2>2 DEF OneAtATime
  <2>4. pc'[r] = "commit" => seen'[r] = rows'
    BY <1>2 DEF Advance, FetchPage, FetchRows, FetchFails, ReadTable, Commit, RollBack,
                WriteStamp, OpenData, MarkFailed, Alert, Kill, Goto, TypeInv, TypeOK, database
  <2>5. SeenIsCurrent'
    BY <2>1, <2>2, <2>4 DEF SeenIsCurrent
  <2> QED
    BY <2>3, <2>5 DEF SerialInv
<1>3. CASE UNCHANGED vars
  BY <1>3 DEF SerialInv, OneAtATime, SeenIsCurrent, vars
<1> QED
  BY <1>1, <1>2, <1>3 DEF Next, AllOver

\* One run at a time: what a run has read is the table as it is.
LEMMA AlwaysSerialInv == ASSUME ~Overlap PROVE Spec => []SerialInv
<1>1. Init => SerialInv
  BY DEF Init, SerialInv, OneAtATime, SeenIsCurrent, InFlight, Stage
<1> QED
  BY <1>1, StepSerialInv, AlwaysTypeInv, PTL DEF Spec

\* The transaction of the only run in flight, on one flagger: what becomes of
\* its row, and what is logged.
LEMMA CommitCurrent ==
    ASSUME TypeInv, SerialInv, NEW r \in Run, Commit(r), NEW id \in Id
    PROVE  LET p == payload[r] IN
           /\ p[id] \in Content => /\ rows'[id] \in Row
                                   /\ rows'[id].content = p[id]
                                   /\ rows'[id].status = "active"
                                   /\ rows'[id].last = runs[r].started
           /\ p[id] \notin Content /\ rows[id] # Null =>
                /\ rows'[id] \in Row
                /\ rows'[id].content = rows[id].content
                /\ rows'[id].status = "removed"
                /\ rows'[id].last = rows[id].last
           /\ p[id] \notin Content /\ rows[id] = Null => rows'[id] = Null
           /\ \/ /\ p[id] \in Content /\ rows[id] = Null
                 /\ events'[id] = Append(events[id], Event(r, "created", Null, p[id]))
              \/ /\ p[id] \in Content /\ rows[id] # Null /\ rows[id].status = "removed"
                 /\ events'[id] = Append(events[id], Event(r, "restored", Null, p[id]))
              \/ /\ p[id] \in Content /\ rows[id] # Null /\ rows[id].status # "removed"
                 /\ rows[id].content # p[id]
                 /\ events'[id] = Append(events[id], Event(r, "updated",
                                       ComputeDiff(rows[id].content, p[id]), p[id]))
              \/ /\ p[id] \notin Content /\ rows[id] # Null /\ rows[id].status # "removed"
                 /\ events'[id] = Append(events[id], Event(r, "removed", Null, rows[id].content))
              \/ /\ events'[id] = events[id]
                 /\ \/ /\ p[id] \in Content /\ rows[id] # Null
                       /\ rows[id].status # "removed" /\ rows[id].content = p[id]
                    \/ p[id] \notin Content /\ rows[id] = Null
                    \/ p[id] \notin Content /\ rows[id] # Null /\ rows[id].status = "removed"
<1>1. /\ rows \in Table /\ payload[r] \in Listing /\ runs[r].started \in Nat
      /\ seen[r] = rows
  BY DEF TypeInv, TypeOK, RunsRecorded, SerialInv, SeenIsCurrent, Commit, Stage, RunRow
<1>2. /\ rows' = AppliedRows(rows, payload[r], rows, runs[r].started)
      /\ events' = AppliedEvents(rows, payload[r], events, r)
  BY <1>1 DEF Commit
<1> DEFINE p == payload[r]
<1>3. /\ p[id] \in Content => /\ rows'[id] \in Row
                              /\ rows'[id].content = p[id]
                              /\ rows'[id].status = "active"
                              /\ rows'[id].last = runs[r].started
      /\ p[id] \notin Content /\ rows[id] # Null =>
           /\ rows'[id] \in Row
           /\ rows'[id].content = rows[id].content
           /\ rows'[id].status = "removed"
           /\ rows'[id].last = rows[id].last
      /\ p[id] \notin Content /\ rows[id] = Null => rows'[id] = Null
  BY <1>1, <1>2, AppliedRowsCurrent
<1> HIDE DEF p
<1>4. \/ /\ p[id] \in Content /\ rows[id] = Null
         /\ events'[id] = Append(events[id], Event(r, "created", Null, p[id]))
      \/ /\ p[id] \in Content /\ rows[id] # Null /\ rows[id].status = "removed"
         /\ events'[id] = Append(events[id], Event(r, "restored", Null, p[id]))
      \/ /\ p[id] \in Content /\ rows[id] # Null /\ rows[id].status # "removed"
         /\ rows[id].content # p[id]
         /\ events'[id] = Append(events[id], Event(r, "updated",
                               ComputeDiff(rows[id].content, p[id]), p[id]))
      \/ /\ p[id] \notin Content /\ rows[id] # Null /\ rows[id].status # "removed"
         /\ events'[id] = Append(events[id], Event(r, "removed", Null, rows[id].content))
      \/ /\ events'[id] = events[id]
         /\ \/ /\ p[id] \in Content /\ rows[id] # Null
               /\ rows[id].status # "removed" /\ rows[id].content = p[id]
            \/ p[id] \notin Content /\ rows[id] = Null
            \/ p[id] \notin Content /\ rows[id] # Null /\ rows[id].status = "removed"
  BY <1>1, <1>2, AppliedEventsCases DEF p
<1> QED
  BY <1>3, <1>4 DEF p
-----------------------------------------------------------------------------
(***************************************************************************)
(* The log replays the table                                               *)
(***************************************************************************)

\* One more event at the end of a history.
LEMMA Appended ==
    ASSUME NEW S, NEW h \in Seq(S), NEW e \in S
    PROVE  /\ Append(h, e) # <<>>
           /\ Len(Append(h, e)) = Len(h) + 1
           /\ Last(Append(h, e)) = e
           /\ \A i \in 1 .. Len(h) : Append(h, e)[i] = h[i]
           /\ h # <<>> => Len(h) \in 1 .. Len(h) /\ Last(h) = h[Len(h)]
<1>1. Len(h) \in Nat /\ (h # <<>> => Len(h) # 0)
  BY EmptySeq, LenProperties
<1>2. /\ Append(h, e) # <<>>
      /\ Len(Append(h, e)) = Len(h) + 1
      /\ Append(h, e)[Len(h) + 1] = e
      /\ \A i \in 1 .. Len(h) : Append(h, e)[i] = h[i]
  BY AppendProperties
<1>3. Last(Append(h, e)) = e
  BY <1>2 DEF Last
<1>4. h # <<>> => Len(h) \in 1 .. Len(h) /\ Last(h) = h[Len(h)]
  BY <1>1 DEF Last
<1> QED
  BY <1>2, <1>3, <1>4

\* A transaction leaves every row as its last event tells it.
LEMMA StepReplays ==
    ASSUME TypeInv, SerialInv, LogReplaysTable, [Next]_vars
    PROVE  LogReplaysTable'
<1>1. CASE \A r \in Run : ~Commit(r)
  <2>1. rows' = rows /\ events' = events
    BY <1>1, OnlyCommitWrites
  <2> QED
    BY <2>1 DEF LogReplaysTable
<1>2. ASSUME NEW r \in Run, Commit(r), NEW id \in Id
      PROVE  Replays(events'[id], rows'[id])
  <2> DEFINE p == payload[r]
             h == events[id]
             h1 == events'[id]
  <2>1. Replays(h, rows[id])
    BY DEF LogReplaysTable
  <2>2. h \in Seq(EventRow(Run)) /\ rows[id] \in Row \union {Null}
    BY DEF TypeInv, TypeOK, Table
  <2>3. ASSUME NEW e, h1 = Append(h, e),
               rows'[id] # Null,
               rows'[id].content = e.snapshot,
               rows'[id].status = IF e.type = "removed" THEN "removed" ELSE "active"
        PROVE  Replays(h1, rows'[id])
    <3>1. h \in Seq(EventRow(Run) \union {e})
      BY <2>2
    <3>2. h1 # <<>> /\ Last(h1) = e
      BY <2>3, <3>1, Appended
    <3> QED
      BY <2>3, <3>2 DEF Replays
  <2>4. CASE /\ p[id] \in Content /\ rows[id] = Null
             /\ h1 = Append(h, Event(r, "created", Null, p[id]))
    BY <1>2, <2>3, <2>4, CommitCurrent, SentinelsAreNotData DEF Event
  <2>5. CASE /\ p[id] \in Content /\ rows[id] # Null /\ rows[id].status = "removed"
             /\ h1 = Append(h, Event(r, "restored", Null, p[id]))
    BY <1>2, <2>3, <2>5, CommitCurrent, SentinelsAreNotData DEF Event
  <2>6. CASE /\ p[id] \in Content /\ rows[id] # Null /\ rows[id].status # "removed"
             /\ h1 = Append(h, Event(r, "updated",
                                     ComputeDiff(rows[id].content, p[id]), p[id]))
    BY <1>2, <2>3, <2>6, CommitCurrent, SentinelsAreNotData DEF Event
  <2>7. CASE /\ p[id] \notin Content /\ rows[id] # Null /\ rows[id].status # "removed"
             /\ h1 = Append(h, Event(r, "removed", Null, rows[id].content))
    BY <1>2, <2>3, <2>7, CommitCurrent, SentinelsAreNotData DEF Event
  <2>8. CASE /\ h1 = h
             /\ \/ /\ p[id] \in Content /\ rows[id] # Null
                   /\ rows[id].status # "removed" /\ rows[id].content = p[id]
                \/ p[id] \notin Content /\ rows[id] = Null
                \/ p[id] \notin Content /\ rows[id] # Null /\ rows[id].status = "removed"
    <3>1. /\ rows'[id] = Null <=> rows[id] = Null
          /\ rows[id] # Null => /\ rows'[id].content = rows[id].content
                                /\ rows'[id].status = rows[id].status
      BY <1>2, <2>2, <2>8, CommitCurrent, SentinelsAreNotData DEF Row, Status
    <3> QED
      BY <2>1, <2>8, <3>1 DEF Replays
  <2> QED
    BY <1>2, <2>4, <2>5, <2>6, <2>7, <2>8, CommitCurrent
<1> QED
  BY <1>1, <1>2 DEF LogReplaysTable

\* When runs come one at a time the log alone determines the table, whatever
\* runs fail, are killed, or lose the acknowledgement of their COMMIT.
THEOREM SpecLogReplaysTable == ASSUME ~Overlap PROVE Spec => []LogReplaysTable
<1>1. Init => LogReplaysTable
  BY DEF Init, LogReplaysTable, Replays
<1> QED
  BY <1>1, StepReplays, AlwaysTypeInv, AlwaysSerialInv, PTL DEF Spec

-----------------------------------------------------------------------------
(***************************************************************************)
(* Histories are legal                                                     *)
(***************************************************************************)
LEMMA LegalAppended ==
    ASSUME NEW S, NEW h \in Seq(S), NEW e \in S, Legal(h),
           IF h = <<>> THEN e.type = "created" ELSE MayFollow(Last(h), e)
    PROVE  Legal(Append(h, e))
<1> DEFINE h1 == Append(h, e)
<1>1. /\ Len(h1) = Len(h) + 1
      /\ h1[Len(h1)] = e
      /\ \A i \in 1 .. Len(h) : h1[i] = h[i]
      /\ Len(h) \in Nat
  OBVIOUS
<1> SUFFICES ASSUME NEW i \in 1 .. Len(h1)
             PROVE  IF i = 1 THEN h1[1].type = "created" ELSE MayFollow(h1[i - 1], h1[i])
  BY DEF Legal
<1>2. CASE i \in 1 .. Len(h)
  <2>1. i # 1 => i - 1 \in 1 .. Len(h)
    BY <1>1, <1>2
  <2>2. IF i = 1 THEN h[1].type = "created" ELSE MayFollow(h[i - 1], h[i])
    BY <1>2 DEF Legal
  <2>3. h1[i] = h[i] /\ (i = 1 => h1[1] = h[1]) /\ (i # 1 => h1[i - 1] = h[i - 1])
    BY <1>1, <1>2, <2>1
  <2> QED
    BY <2>2, <2>3
<1>3. CASE i = Len(h) + 1 /\ h = <<>>
  BY <1>1, <1>3
<1>4. CASE i = Len(h) + 1 /\ h # <<>>
  <2>1. i # 1 /\ i - 1 = Len(h) /\ Len(h) \in 1 .. Len(h)
    BY <1>1, <1>4
  <2>2. h1[i - 1] = Last(h) /\ h1[i] = e
    BY <1>1, <1>4, <2>1 DEF Last
  <2> QED
    BY <1>4, <2>1, <2>2
<1> QED
  BY <1>1, <1>2, <1>3, <1>4

\* A transaction appends an event that may follow the last one.
LEMMA StepLegal ==
    ASSUME TypeInv, SerialInv, LogReplaysTable, HistoriesAreLegal, [Next]_vars
    PROVE  HistoriesAreLegal'
<1>1. CASE \A r \in Run : ~Commit(r)
  <2>1. events' = events
    BY <1>1, OnlyCommitWrites
  <2> QED
    BY <2>1 DEF HistoriesAreLegal
<1>2. ASSUME NEW r \in Run, Commit(r), NEW id \in Id
      PROVE  Legal(events'[id])
  <2> DEFINE p == payload[r]
             h == events[id]
             h1 == events'[id]
  <2>1. Replays(h, rows[id]) /\ Legal(h)
    BY DEF LogReplaysTable, HistoriesAreLegal
  <2>2. h \in Seq(EventRow(Run)) /\ rows[id] \in Row \union {Null}
    BY DEF TypeInv, TypeOK, Table
  <2>3. ASSUME NEW e, h1 = Append(h, e),
               IF h = <<>> THEN e.type = "created" ELSE MayFollow(Last(h), e)
        PROVE  Legal(h1)
    <3>1. h \in Seq(EventRow(Run) \union {e})
      BY <2>2
    <3> QED
      BY <2>1, <2>3, <3>1, LegalAppended
  <2>4. rows[id] = Null <=> h = <<>>
    BY <2>1, <2>2 DEF Replays
  <2>5. rows[id] # Null => /\ rows[id].content = Last(h).snapshot
                           /\ rows[id].content \in Content
                           /\ rows[id].status = "removed" <=> Last(h).type = "removed"
    BY <2>1, <2>2, <2>4 DEF Replays, Row
  <2>6. CASE /\ rows[id] = Null
             /\ h1 = Append(h, Event(r, "created", Null, p[id]))
    BY <2>3, <2>4, <2>6 DEF Event
  <2>7. CASE /\ rows[id] # Null /\ rows[id].status = "removed"
             /\ h1 = Append(h, Event(r, "restored", Null, p[id]))
    <3> DEFINE e == Event(r, "restored", Null, p[id])
    <3>1. MayFollow(Last(h), e)
      BY <2>5, <2>7 DEF MayFollow, Event
    <3> QED
      BY <2>3, <2>4, <2>7, <3>1
  <2>8. CASE /\ p[id] \in Content /\ rows[id] # Null /\ rows[id].status # "removed"
             /\ rows[id].content # p[id]
             /\ h1 = Append(h, Event(r, "updated",
                                     ComputeDiff(rows[id].content, p[id]), p[id]))
    <3> DEFINE d == ComputeDiff(rows[id].content, p[id])
               e == Event(r, "updated", d, p[id])
    <3>1. Patch(rows[id].content, d) = p[id]
      BY <2>5, <2>8, PatchOfDiff
    <3>2. DOMAIN d # {}
      BY <2>5, <2>8, DiffOfDifferent
    <3>3. \A f \in DOMAIN d : d[f].from = rows[id].content[f] /\ d[f].from # d[f].to
      BY DEF ComputeDiff
    <3>4. e.type = "updated" /\ e.diff = d /\ e.snapshot = p[id]
      BY DEF Event
    <3> HIDE DEF d, e
    <3>5. MayFollow(Last(h), e)
      BY <2>5, <2>8, <3>1, <3>2, <3>3, <3>4 DEF MayFollow
    <3> QED
      BY <2>3, <2>4, <2>8, <3>5 DEF d, e
  <2>9. CASE /\ rows[id] # Null /\ rows[id].status # "removed"
             /\ h1 = Append(h, Event(r, "removed", Null, rows[id].content))
    <3> DEFINE e == Event(r, "removed", Null, rows[id].content)
    <3>1. MayFollow(Last(h), e)
      BY <2>5, <2>9 DEF MayFollow, Event
    <3> QED
      BY <2>3, <2>4, <2>9, <3>1
  <2>10. CASE h1 = h
    BY <2>1, <2>10
  <2> QED
    BY <1>2, <2>6, <2>7, <2>8, <2>9, <2>10, CommitCurrent
<1> QED
  BY <1>1, <1>2 DEF HistoriesAreLegal

\* When runs come one at a time every history is a life of a flagger: created
\* once, removed while active, restored while removed, each diff leading from
\* one snapshot to the next.
THEOREM SpecHistoriesAreLegal == ASSUME ~Overlap PROVE Spec => []HistoriesAreLegal
<1>1. Init => HistoriesAreLegal
  BY DEF Init, HistoriesAreLegal, Legal
<1> QED
  BY <1>1, StepLegal, SpecLogReplaysTable, AlwaysTypeInv, AlwaysSerialInv, PTL DEF Spec
-----------------------------------------------------------------------------
(***************************************************************************)
(* Refinement.  Only Commit changes what a consumer sees; it observes the  *)
(* listing the run fetched, with malformed rows read as delisted.          *)
(***************************************************************************)
PublicHistory(h) == [i \in 1 .. Len(h) |-> PublicEvent(h[i])]

MirrorOf(t) == [id \in Id |-> MirroredRow(t[id])]
HistoryOf(log) == [id \in Id |-> PublicHistory(log[id])]

\* An event appended to a history is appended to what consumers see of it.
LEMMA PublicAppend ==
    ASSUME NEW S, NEW h \in Seq(S), NEW e \in S
    PROVE  PublicHistory(Append(h, e)) = Append(PublicHistory(h), PublicEvent(e))
<1> DEFINE h1 == Append(h, e)
           P == {PublicEvent(x) : x \in S}
<1>1. /\ Len(h) \in Nat /\ Len(h1) = Len(h) + 1 /\ h1[Len(h) + 1] = e
      /\ \A i \in 1 .. Len(h) : h1[i] = h[i] /\ h[i] \in S
  OBVIOUS
<1>2. PublicHistory(h) \in [1 .. Len(h) -> P]
  BY <1>1 DEF PublicHistory
<1>3. PublicHistory(h) \in Seq(P) /\ Len(PublicHistory(h)) = Len(h)
  BY <1>1, <1>2, LenProperties, SeqDef
<1>4. PublicEvent(e) \in P
  OBVIOUS
<1> DEFINE lhs == PublicHistory(h1)
           rhs == Append(PublicHistory(h), PublicEvent(e))
<1>5. /\ rhs \in Seq(P) /\ Len(rhs) = Len(h) + 1
      /\ rhs[Len(h) + 1] = PublicEvent(e)
      /\ \A i \in 1 .. Len(h) : rhs[i] = PublicHistory(h)[i]
  BY <1>1, <1>3, <1>4, AppendProperties
<1>6. DOMAIN rhs = 1 .. Len(h) + 1 /\ rhs = [i \in 1 .. Len(h) + 1 |-> rhs[i]]
  BY <1>1, <1>5, LenProperties
<1>7. lhs = [i \in 1 .. Len(h) + 1 |-> PublicEvent(h1[i])]
  BY <1>1 DEF PublicHistory
<1> HIDE DEF lhs, rhs
<1>8. \A i \in 1 .. Len(h) + 1 : PublicEvent(h1[i]) = rhs[i]
  <2> SUFFICES ASSUME NEW i \in 1 .. Len(h) + 1 PROVE PublicEvent(h1[i]) = rhs[i]
    OBVIOUS
  <2>1. CASE i = Len(h) + 1
    BY <1>1, <1>5, <2>1
  <2>2. CASE i \in 1 .. Len(h)
    <3>1. PublicHistory(h)[i] = PublicEvent(h[i])
      BY <2>2 DEF PublicHistory
    <3>2. h1[i] = h[i] /\ rhs[i] = PublicHistory(h)[i]
      BY <1>1, <1>5, <2>2
    <3> QED
      BY <3>1, <3>2
  <2> QED
    BY <1>1, <2>1, <2>2
<1>9. lhs = rhs
  BY <1>6, <1>7, <1>8
<1> QED
  BY <1>9 DEF lhs, rhs

\* What one transaction does to one flagger, as a consumer sees it.
LEMMA CommitObserves ==
    ASSUME TypeInv, SerialInv, NEW r \in Run, Commit(r), NEW id \in Id,
           NEW l, l = IF payload[r][id] \in Content THEN payload[r][id] ELSE Null
    PROVE  /\ MirroredRow(rows'[id]) = Mirror!Mirrored(MirroredRow(rows[id]), l)
           /\ Mirror!Records(PublicHistory(events[id]), PublicHistory(events'[id]),
                             MirroredRow(rows[id]), MirroredRow(rows'[id]))
<1> DEFINE p == payload[r]
           old == MirroredRow(rows[id])
           new == MirroredRow(rows'[id])
           h == events[id]
           h1 == events'[id]
<1>1. /\ rows[id] \in Row \union {Null}
      /\ h \in Seq(EventRow(Run))
  BY DEF TypeInv, TypeOK, Table
<1>2. /\ rows[id] = Null => old = Null
      /\ rows[id] # Null => /\ rows[id] \in Row
                            /\ old = [content |-> rows[id].content,
                                      listed  |-> rows[id].status = "active"]
                            /\ rows[id].status \in {"active", "removed"}
                            /\ rows[id].content \in Content
  BY <1>1 DEF MirroredRow, Row, Status
<1>3. /\ rows'[id] = Null => new = Null
      /\ rows'[id] # Null => new = [content |-> rows'[id].content,
                                    listed  |-> rows'[id].status = "active"]
  BY DEF MirroredRow
<1> DEFINE entry(c, b) == [content |-> c, listed |-> b]
<1>4. rows'[id] \in Row \union {Null} /\ h1 \in Seq(EventRow(Run))
  BY StepTypeInv DEF TypeInv, TypeOK, Table, Next, Advance
<1>5. \A e \in EventRow(Run) : h1 = Append(h, e) =>
          PublicHistory(h1) = Append(PublicHistory(h), PublicEvent(e))
  BY <1>1, PublicAppend
<1>6. \A row \in Row : MirroredRow(row) # Null
  <2> SUFFICES ASSUME NEW row \in Row PROVE MirroredRow(row) # Null
    OBVIOUS
  <2>1. row # Null /\ row.content \in Content
    BY SentinelsAreNotData DEF Row
  <2>2. MirroredRow(row) = [content |-> row.content, listed |-> row.status = "active"]
    BY <2>1 DEF MirroredRow
  <2>3. MirroredRow(row) \in [content: Content, listed: BOOLEAN]
    BY <2>1, <2>2
  <2> QED
    BY <2>3, IngestAssumption
<1>7. \A e : h1 = Append(h, e) => e \in EventRow(Run)
  <2> SUFFICES ASSUME NEW e, h1 = Append(h, e) PROVE e \in EventRow(Run)
    OBVIOUS
  <2>1. h \in Seq(EventRow(Run) \union {e})
    BY <1>1
  <2>2. Len(h1) \in 1 .. Len(h1) /\ h1[Len(h1)] = e
    BY <2>1
  <2> QED
    BY <1>4, <2>2
<1>8. ASSUME NEW e, h1 = Append(h, e), old # new,
             e.type = Mirror!ChangeType(old, new), e.snapshot = new.content
      PROVE  Mirror!Records(PublicHistory(h), PublicHistory(h1), old, new)
  BY <1>5, <1>7, <1>8 DEF Mirror!Records, PublicEvent
<1>9. CASE /\ p[id] \in Content /\ rows[id] = Null
           /\ h1 = Append(h, Event(r, "created", Null, p[id]))
  <2>1. old = Null /\ new = entry(p[id], TRUE)
    BY <1>2, <1>3, <1>9, CommitCurrent, SentinelsAreNotData
  <2>2. new # Null /\ new.content = p[id]
    <3>1. rows'[id] \in Row
      BY <1>9, CommitCurrent
    <3>2. new # Null
      BY <1>6, <3>1
    <3>3. new.content = p[id]
      BY <2>1
    <3> QED
      BY <3>2, <3>3
  <2>3. Mirror!ChangeType(old, new) = "created"
    BY <2>1 DEF Mirror!ChangeType
  <2>4. new = Mirror!Mirrored(old, l)
    BY <1>9, <2>1 DEF Mirror!Mirrored
  <2> QED
    BY <1>8, <1>9, <2>1, <2>2, <2>3, <2>4 DEF Event
<1>10. CASE /\ p[id] \in Content /\ rows[id] # Null /\ rows[id].status = "removed"
            /\ h1 = Append(h, Event(r, "restored", Null, p[id]))
  <2>1. old = entry(rows[id].content, FALSE) /\ new = entry(p[id], TRUE)
    BY <1>2, <1>3, <1>10, CommitCurrent, SentinelsAreNotData
  <2>2. old # Null
    BY <1>2, <1>6, <1>10
  <2>3. old # new /\ new.content = p[id]
    <3>1. /\ old.content = rows[id].content /\ old.listed = FALSE
          /\ new.content = p[id] /\ new.listed = TRUE
      BY <2>1
    <3> QED
      BY <1>10, <3>1
  <2>4. Mirror!ChangeType(old, new) = "restored"
    BY <2>1, <2>2 DEF Mirror!ChangeType
  <2>5. new = Mirror!Mirrored(old, l)
    BY <1>10, <2>1 DEF Mirror!Mirrored
  <2> QED
    BY <1>8, <1>10, <2>3, <2>4, <2>5 DEF Event
<1>11. CASE /\ p[id] \in Content /\ rows[id] # Null /\ rows[id].status # "removed"
            /\ rows[id].content # p[id]
            /\ h1 = Append(h, Event(r, "updated",
                                    ComputeDiff(rows[id].content, p[id]), p[id]))
  <2>1. old = entry(rows[id].content, TRUE) /\ new = entry(p[id], TRUE)
    BY <1>2, <1>3, <1>11, CommitCurrent, SentinelsAreNotData
  <2>2. old # Null
    BY <1>2, <1>6, <1>11
  <2>3. old # new /\ new.content = p[id]
    <3>1. /\ old.content = rows[id].content /\ old.listed = TRUE
          /\ new.content = p[id] /\ new.listed = TRUE
      BY <2>1
    <3> QED
      BY <1>11, <3>1
  <2>4. Mirror!ChangeType(old, new) = "updated"
    BY <2>1, <2>2 DEF Mirror!ChangeType
  <2>5. new = Mirror!Mirrored(old, l)
    BY <1>11, <2>1 DEF Mirror!Mirrored
  <2> QED
    BY <1>8, <1>11, <2>3, <2>4, <2>5 DEF Event
<1>12. CASE /\ p[id] \notin Content /\ rows[id] # Null /\ rows[id].status # "removed"
            /\ h1 = Append(h, Event(r, "removed", Null, rows[id].content))
  <2>1. old = entry(rows[id].content, TRUE) /\ new = entry(rows[id].content, FALSE)
    BY <1>2, <1>3, <1>12, CommitCurrent, SentinelsAreNotData
  <2>2. old # Null
    BY <1>2, <1>6, <1>12
  <2>3. old # new /\ new.content = rows[id].content
    <3>1. /\ old.content = rows[id].content /\ old.listed = TRUE
          /\ new.content = rows[id].content /\ new.listed = FALSE
      BY <2>1
    <3> QED
      BY <1>12, <3>1
  <2>4. Mirror!ChangeType(old, new) = "removed"
    BY <2>1, <2>2 DEF Mirror!ChangeType
  <2>5. new = Mirror!Mirrored(old, l)
    <3>1. l = Null /\ l \notin Content
      BY <1>12, SentinelsAreNotData
    <3>2. Mirror!Mirrored(old, l) = [content |-> old.content, listed |-> FALSE]
      BY <2>2, <3>1 DEF Mirror!Mirrored
    <3> QED
      BY <2>1, <3>2
  <2> QED
    BY <1>8, <1>12, <2>3, <2>4, <2>5 DEF Event
<1>13. CASE /\ h1 = h
            /\ \/ /\ p[id] \in Content /\ rows[id] # Null
                  /\ rows[id].status # "removed" /\ rows[id].content = p[id]
               \/ p[id] \notin Content /\ rows[id] = Null
               \/ p[id] \notin Content /\ rows[id] # Null /\ rows[id].status = "removed"
  <2>1. CASE /\ p[id] \in Content /\ rows[id] # Null
             /\ rows[id].status # "removed" /\ rows[id].content = p[id]
    <3>1. old = entry(p[id], TRUE) /\ new = entry(p[id], TRUE)
      BY <1>2, <1>3, <2>1, CommitCurrent, SentinelsAreNotData
    <3>2. new = Mirror!Mirrored(old, l)
      BY <2>1, <3>1 DEF Mirror!Mirrored
    <3> QED
      BY <1>13, <3>1, <3>2 DEF Mirror!Records
  <2>2. CASE p[id] \notin Content /\ rows[id] = Null
    <3>1. old = Null /\ new = Null
      BY <1>2, <1>3, <2>2, CommitCurrent
    <3>2. new = Mirror!Mirrored(old, l)
      BY <2>2, <3>1, SentinelsAreNotData DEF Mirror!Mirrored
    <3> QED
      BY <1>13, <3>1, <3>2 DEF Mirror!Records
  <2>3. CASE p[id] \notin Content /\ rows[id] # Null /\ rows[id].status = "removed"
    <3>1. old = entry(rows[id].content, FALSE) /\ new = entry(rows[id].content, FALSE)
      BY <1>2, <1>3, <2>3, CommitCurrent, SentinelsAreNotData
    <3>2. old # Null /\ l \notin Content
      BY <1>2, <1>6, <2>3, SentinelsAreNotData
    <3>3. Mirror!Mirrored(old, l) = [content |-> old.content, listed |-> FALSE]
      BY <3>2 DEF Mirror!Mirrored
    <3>4. new = Mirror!Mirrored(old, l)
      BY <3>1, <3>3
    <3> QED
      BY <1>13, <3>1, <3>4 DEF Mirror!Records
  <2> QED
    BY <1>13, <2>1, <2>2, <2>3
<1> QED
  BY <1>9, <1>10, <1>11, <1>12, <1>13, CommitCurrent

\* Every step maps to an observation of the register or to a stutter.
LEMMA StepObserves ==
    ASSUME TypeInv, SerialInv, [Next]_vars
    PROVE  [Mirror!MirrorNext]_(Mirror!mirrorVars)
<1>1. CASE \A r \in Run : ~Commit(r)
  <2>1. rows' = rows /\ events' = events
    BY <1>1, OnlyCommitWrites
  <2> QED
    BY <2>1 DEF Mirror!mirrorVars
<1>2. ASSUME NEW r \in Run, Commit(r) PROVE Mirror!MirrorNext
  <2> DEFINE l == [id \in Id |-> IF payload[r][id] \in Content THEN payload[r][id] ELSE Null]
  <2>1. l \in [Id -> Content \union {Null}]
    OBVIOUS
  <2>2. \A id \in Id :
           /\ MirroredRow(rows'[id]) = Mirror!Mirrored(MirroredRow(rows[id]), l[id])
           /\ Mirror!Records(PublicHistory(events[id]), PublicHistory(events'[id]),
                             MirroredRow(rows[id]), MirroredRow(rows'[id]))
    BY <1>2, CommitObserves
  <2> HIDE DEF l
  <2>3. /\ MirrorOf(rows') = [id \in Id |-> Mirror!Mirrored(MirrorOf(rows)[id], l[id])]
        /\ \A id \in Id : Mirror!Records(HistoryOf(events)[id], HistoryOf(events')[id],
                                         MirrorOf(rows)[id], MirrorOf(rows')[id])
        /\ DOMAIN HistoryOf(events') = Id
    BY <2>2 DEF MirrorOf, HistoryOf
  <2> QED
    BY <2>1, <2>3
    DEF Mirror!MirrorNext, Mirror!Observe, MirrorOf, HistoryOf, PublicHistory
<1> QED
  BY <1>1, <1>2

\* When runs come one at a time, every behaviour of the scraper, with its
\* failed, killed and unacknowledged runs, is seen by the consumers of the two
\* tables as a sequence of observations of the register.
THEOREM SpecImplementsRegisterHistory ==
    ASSUME ~Overlap PROVE Spec => ImplementsRegisterHistory
<1>1. Init => Mirror!MirrorInit
  BY DEF Init, Mirror!MirrorInit, MirroredRow
<1> QED
  BY <1>1, StepObserves, AlwaysTypeInv, AlwaysSerialInv, PTL
  DEF Spec, ImplementsRegisterHistory, Mirror!MirrorSpec

-----------------------------------------------------------------------------
(***************************************************************************)
(* The stamp, however runs overlap: it is written only by a run that has   *)
(* committed, and whose record is final.                                   *)
(***************************************************************************)
Recorded(r) == runs[r] # Null /\ runs[r].status \in {"success", "partial"}

StampTaken ==
    /\ \A r \in Run : pc[r] \in {"stamp", "opendata", "done"} => Recorded(r)
    /\ stamp # 0 => \E r \in Run : /\ pc[r] \in {"opendata", "done", "killed"}
                                   /\ Recorded(r)
                                   /\ runs[r].completed = stamp

\* A run that goes on to its stamp is recorded as it was scraped.
LEMMA CommitRecords ==
    ASSUME TypeInv, NEW r \in Run, Commit(r)
    PROVE  /\ Recorded(r)'
           /\ now' = now + 1 /\ runs'[r].completed = now'
           /\ runs'[r].started = runs[r].started
           /\ runs'[r].status = Outcome(payload[r])
<1>1. runs[r] \in RunRow /\ runs \in [Run -> RunRow \union {Null}]
  BY DEF Commit, Stage, TypeInv, TypeOK, RunsRecorded
<1>2. /\ now' = now + 1
      /\ runs' = [runs EXCEPT ![r].status = Outcome(payload[r]), ![r].completed = now']
  BY DEF Commit
<1>3. Outcome(payload[r]) \in {"success", "partial"}
  BY DEF Outcome
<1> DEFINE o == Outcome(payload[r])
<1> HIDE DEF o
<1>4. runs'[r] \in RunRow
  BY <1>1, <1>2, <1>3, CompletedRow DEF o
<1>5. runs'[r] = [runs[r] EXCEPT !.status = o, !.completed = now']
  BY <1>1, <1>2 DEF o
<1>6. /\ runs'[r].status = o /\ runs'[r].completed = now'
      /\ runs'[r].started = runs[r].started
  BY <1>1, <1>5 DEF RunRow
<1> QED
  BY <1>2, <1>3, <1>4, <1>6, IngestAssumption DEF Recorded, o

LEMMA StepStampTaken ==
    ASSUME TypeInv, StampTaken, [Next]_vars
    PROVE  StampTaken'
<1>1. ASSUME NEW q \in Run, pc[q] \in {"stamp", "opendata", "done", "killed"}
      PROVE  /\ runs'[q] = runs[q]
             /\ pc[q] \in {"opendata", "done", "killed"} =>
                    pc'[q] \in {"opendata", "done", "killed"}
  BY <1>1, PastTransaction
<1>2. ASSUME NEW q \in Run, pc'[q] \in {"stamp", "opendata", "done"}
      PROVE  Recorded(q)'
  <2>1. CASE pc[q] \in {"stamp", "opendata", "done"}
    BY <1>1, <2>1 DEF StampTaken, Recorded
  <2>2. CASE Commit(q)
    BY <2>2, CommitRecords
  <2>3. pc[q] \in {"stamp", "opendata", "done"} \/ Commit(q)
    BY <1>2, PastTransaction
  <2> QED
    BY <2>1, <2>2, <2>3
<1>3. CASE stamp' = stamp
  BY <1>1, <1>2, <1>3 DEF StampTaken, Recorded
<1>4. ASSUME NEW r \in Run, WriteStamp(r), stamp' = runs[r].completed PROVE StampTaken'
  <2>1. pc[r] = "stamp" /\ pc'[r] = "opendata"
    BY <1>4 DEF WriteStamp, Goto, TypeInv, TypeOK
  <2>2. Recorded(r)' /\ runs'[r].completed = stamp'
    BY <1>1, <1>2, <1>4, <2>1
  <2> QED
    BY <1>2, <2>1, <2>2 DEF StampTaken
<1>5. stamp' = stamp \/ \E r \in Run : WriteStamp(r) /\ stamp' = runs[r].completed
  BY DEF Next, Advance, Start, FetchPage, FetchRows, FetchFails, ReadTable, Commit, RollBack,
         WriteStamp, OpenData, MarkFailed, Alert, Kill, AllOver, vars
<1> QED
  BY <1>3, <1>4, <1>5

\* The stamp in Redis is at all times the completion of a run that has
\* committed its data: however runs overlap, fail, or lose acknowledgements.
THEOREM SpecStampIsOfCommittedRun == Spec => []StampIsOfCommittedRun
<1>1. Init => StampTaken
  BY DEF Init, StampTaken
<1>2. StampTaken => StampIsOfCommittedRun
  BY DEF StampTaken, StampIsOfCommittedRun, Recorded
<1> QED
  BY <1>1, <1>2, StepStampTaken, AlwaysTypeInv, PTL DEF Spec

-----------------------------------------------------------------------------
(***************************************************************************)
(* One run at a time: times are in the order of the runs.                  *)
(***************************************************************************)
StampInPast ==
    /\ stamp <= now
    /\ \A r \in Run : pc[r] = "stamp" =>
           stamp <= runs[r].completed /\ runs[r].completed <= now

\* A run still to commit has started after whatever was seen.
SeenBefore ==
    /\ \A id \in Id : rows[id] # Null => rows[id].last <= now
    /\ \A r \in Run : pc[r] \in {"page", "rows", "read", "commit"} =>
           /\ runs[r].started <= now
           /\ \A id \in Id : rows[id] # Null => rows[id].last < runs[r].started

\* A step is one of the only run in flight; the others stay where they are.
LEMMA SerialCases ==
    ASSUME ~Overlap, TypeInv, SerialInv, [Next]_vars
    PROVE  \/ UNCHANGED vars
           \/ \E r \in Run :
                /\ Start(r) \/ Advance(r) \/ Kill(r)
                /\ \A q \in Run \ {r} : /\ pc'[q] = pc[q] /\ pc[q] \notin Stage
                                        /\ runs'[q] = runs[q]
<1>1. ASSUME NEW r \in Run, Start(r) \/ Advance(r) \/ Kill(r)
      PROVE  \A q \in Run \ {r} : /\ pc'[q] = pc[q] /\ pc[q] \notin Stage
                                  /\ runs'[q] = runs[q]
  <2>1. CASE Start(r)
    BY <2>1 DEF Start, Goto, InFlight, TypeInv, TypeOK
  <2>2. CASE Advance(r) \/ Kill(r)
    <3>1. InFlight(r) /\ \A q \in Run \ {r} : pc'[q] = pc[q] /\ runs'[q] = runs[q]
      BY <2>2 DEF Advance, FetchPage, FetchRows, FetchFails, ReadTable, Commit, RollBack,
                  WriteStamp, OpenData, MarkFailed, Alert, Kill, Goto, TypeInv, TypeOK, Stage,
                  InFlight, database
    <3> QED
      BY <3>1 DEF SerialInv, OneAtATime, InFlight
  <2> QED
    BY <1>1, <2>1, <2>2
<1> QED
  BY <1>1 DEF Next, AllOver

\* Where a run in flight takes its times from the clock.
LEMMA ClockSteps ==
    ASSUME TypeInv, NEW r \in Run, Start(r) \/ Advance(r) \/ Kill(r)
    PROVE  /\ now \in Nat /\ now' \in Nat /\ now <= now'
           /\ \/ Start(r) /\ now' = now + 1
              \/ Commit(r)
              \/ WriteStamp(r) /\ rows' = rows
              \/ /\ rows' = rows /\ stamp' = stamp /\ pc'[r] # "stamp"
                 /\ pc'[r] \in {"page", "rows", "read", "commit"} =>
                      pc[r] \in {"page", "rows", "read", "commit"} /\ runs' = runs
<1>1. now \in Nat /\ (now' = now \/ now' = now + 1)
  BY DEF Start, Advance, FetchPage, FetchRows, FetchFails, ReadTable, Commit, RollBack,
         WriteStamp, OpenData, MarkFailed, Alert, Kill, TypeInv, TypeOK
<1>2. \/ Start(r) /\ now' = now + 1
      \/ Commit(r)
      \/ WriteStamp(r) /\ rows' = rows
      \/ /\ rows' = rows /\ stamp' = stamp /\ pc'[r] # "stamp"
         /\ pc'[r] \in {"page", "rows", "read", "commit"} =>
              pc[r] \in {"page", "rows", "read", "commit"} /\ runs' = runs
  BY DEF Start, Advance, FetchPage, FetchRows, FetchFails, ReadTable, RollBack,
         WriteStamp, OpenData, MarkFailed, Alert, Kill, Goto, TypeInv, TypeOK, database
<1> QED
  BY <1>1, <1>2

LEMMA StepStampInPast ==
    ASSUME ~Overlap, TypeInv, SerialInv, StampInPast, [Next]_vars
    PROVE  StampInPast' /\ stamp' >= stamp
<1>0. stamp \in Nat /\ stamp' \in Nat /\ now \in Nat
  BY StepTypeInv DEF TypeInv, TypeOK
<1>1. CASE UNCHANGED vars
  BY <1>0, <1>1 DEF vars, StampInPast
<1>2. ASSUME NEW r \in Run, Start(r) \/ Advance(r) \/ Kill(r),
             \A q \in Run \ {r} : pc'[q] = pc[q] /\ pc[q] \notin Stage
      PROVE  StampInPast' /\ stamp' >= stamp
  <2>0. /\ now' \in Nat /\ now <= now'
        /\ \A q \in Run \ {r} : pc'[q] # "stamp"
    BY <1>2, ClockSteps DEF Stage
  <2>1. CASE Start(r)
    <3>1. pc'[r] # "stamp" /\ stamp' = stamp
      BY <2>1 DEF Start, Goto, TypeInv, TypeOK
    <3> QED
      BY <1>0, <2>0, <3>1 DEF StampInPast
  <2>2. CASE Commit(r)
    <3>1. stamp' = stamp /\ now' = now + 1 /\ runs'[r].completed = now'
      BY <2>2, CommitRecords DEF Commit
    <3> QED
      BY <1>0, <2>0, <3>1 DEF StampInPast
  <2>3. CASE WriteStamp(r)
    <3>1. /\ stamp' = stamp \/ stamp' = runs[r].completed
          /\ pc[r] = "stamp" /\ pc'[r] # "stamp" /\ now' = now
      BY <2>3 DEF WriteStamp, Goto, TypeInv, TypeOK
    <3> QED
      BY <1>0, <2>0, <3>1 DEF StampInPast
  <2>4. CASE stamp' = stamp /\ pc'[r] # "stamp"
    BY <1>0, <2>0, <2>4 DEF StampInPast
  <2> QED
    BY <1>2, <2>1, <2>2, <2>3, <2>4, ClockSteps
<1> QED
  BY <1>1, <1>2, SerialCases

\* X-Data-Updated-At never goes back while runs come one at a time, whatever
\* runs fail or are killed and whatever writes of the stamp are lost.
THEOREM SpecStampNeverGoesBack == ASSUME ~Overlap PROVE Spec => StampNeverGoesBack
<1>1. Init => StampInPast
  BY DEF Init, StampInPast
<1>2. TypeInv /\ SerialInv /\ StampInPast /\ [Next]_vars => StampInPast' /\ [stamp' >= stamp]_vars
  BY StepStampInPast
<1> QED
  BY <1>1, <1>2, AlwaysTypeInv, AlwaysSerialInv, PTL DEF Spec, StampNeverGoesBack

\* The transaction of a run, all of whose rows normalize, marks removed only
\* what its payload does not list, while runs come one at a time.
THEOREM SpecSuccessRemovesOnlyDelisted ==
    ASSUME ~Overlap PROVE Spec => SuccessRemovesOnlyDelisted
<1> DEFINE Step == \A r \in Run, id \in Id :
                       /\ pc[r] = "commit" /\ pc'[r] = "stamp"
                       /\ runs'[r].status = "success"
                       /\ rows[id] # Null /\ rows'[id].status = "removed"
                       => payload[r][id] = Delisted
<1>1. TypeInv /\ SerialInv /\ [Next]_vars => [Step]_vars
  <2> SUFFICES ASSUME TypeInv, SerialInv, [Next]_vars,
                      NEW r \in Run, NEW id \in Id,
                      pc[r] = "commit", pc'[r] = "stamp", runs'[r].status = "success",
                      rows[id] # Null, rows'[id].status = "removed"
               PROVE  payload[r][id] = Delisted
    OBVIOUS
  <2>1. Commit(r)
    BY PastTransaction
  <2>2. payload[r][id] # Malformed
    BY <2>1, CommitRecords DEF Outcome, HasParseErrors
  <2>3. payload[r][id] \notin Content
    BY <2>1, CommitCurrent
  <2>4. payload[r] \in Listing
    BY DEF TypeInv, TypeOK
  <2> QED
    BY <2>2, <2>3, <2>4 DEF Listing
<1> QED
  BY <1>1, AlwaysTypeInv, AlwaysSerialInv, PTL DEF Spec, SuccessRemovesOnlyDelisted

\* The transaction dates what it finds listed after everything there was.
LEMMA CommitSeenLast ==
    ASSUME TypeInv, SerialInv, SeenBefore, NEW r \in Run, Commit(r)
    PROVE  /\ ActiveRowsSeenLast'
           /\ \A id \in Id : rows'[id] # Null => rows'[id].last <= now
<1>1. /\ rows \in Table /\ rows' \in Table /\ now \in Nat /\ payload[r] \in Listing
      /\ runs[r].started \in Nat /\ runs[r].started <= now
      /\ \A id \in Id : rows[id] # Null => rows[id].last < runs[r].started
  BY CommitRows DEF TypeInv, TypeOK, RunsRecorded, Commit, Stage, RunRow, SeenBefore
<1>2. ASSUME NEW id \in Id, rows'[id] # Null
      PROVE  /\ rows'[id].last \in Nat /\ rows'[id].last <= now
             /\ rows'[id].status = "active" => rows'[id].last = runs[r].started
             /\ rows'[id].status # "active" => rows'[id].last < runs[r].started
  <2>0. rows'[id].last \in Nat
    BY <1>1, <1>2 DEF Table, Row
  <2>1. CASE payload[r][id] \in Content
    BY <1>1, <2>0, <2>1, CommitCurrent
  <2>2. CASE payload[r][id] \notin Content /\ rows[id] # Null
    <3>1. rows'[id].status = "removed" /\ rows'[id].last = rows[id].last
      BY <2>2, CommitCurrent
    <3> QED
      BY <1>1, <2>0, <2>2, <3>1
  <2>3. CASE payload[r][id] \notin Content /\ rows[id] = Null
    BY <1>2, <2>3, CommitCurrent
  <2> QED
    BY <2>1, <2>2, <2>3
<1>3. ActiveRowsSeenLast'
  BY <1>2 DEF ActiveRowsSeenLast
<1> QED
  BY <1>2, <1>3

LEMMA StepSeenBefore ==
    ASSUME ~Overlap, TypeInv, SerialInv, SeenBefore, ActiveRowsSeenLast, [Next]_vars
    PROVE  SeenBefore' /\ ActiveRowsSeenLast'
<1>0. /\ now \in Nat /\ \A id \in Id : rows[id] # Null => rows[id].last \in Nat
  BY DEF TypeInv, TypeOK, Table, Row
<1>1. CASE UNCHANGED vars
  BY <1>1 DEF vars, SeenBefore, ActiveRowsSeenLast
<1>2. ASSUME NEW r \in Run, Start(r) \/ Advance(r) \/ Kill(r),
             \A q \in Run \ {r} : pc'[q] = pc[q] /\ pc[q] \notin Stage
      PROVE  SeenBefore' /\ ActiveRowsSeenLast'
  <2>0. /\ now' \in Nat /\ now <= now'
        /\ \A q \in Run \ {r} : pc'[q] \notin {"page", "rows", "read", "commit"}
    BY <1>2, ClockSteps DEF Stage
  <2>1. CASE Start(r) /\ now' = now + 1
    <3>1. /\ rows' = rows
          /\ pc'[r] \in {"page", "rows", "read", "commit"} => runs'[r].started = now'
      BY <2>1 DEF Start, Goto, TypeInv, TypeOK
    <3> QED
      BY <1>0, <2>0, <2>1, <3>1 DEF SeenBefore, ActiveRowsSeenLast
  <2>2. CASE Commit(r)
    <3>1. pc'[r] \notin {"page", "rows", "read", "commit"} /\ now' = now + 1
      BY <2>2 DEF Commit, Goto, TypeInv, TypeOK
    <3>2. \A id \in Id : rows'[id] # Null => rows'[id].last \in Nat
      BY <2>2, CommitRows DEF Table, Row
    <3> QED
      BY <1>0, <2>0, <2>2, <3>1, <3>2, CommitSeenLast DEF SeenBefore
  <2>3. CASE WriteStamp(r) /\ rows' = rows
    <3>1. pc'[r] \notin {"page", "rows", "read", "commit"}
      BY <2>3 DEF WriteStamp, Goto, TypeInv, TypeOK
    <3> QED
      BY <1>0, <2>0, <2>3, <3>1 DEF SeenBefore, ActiveRowsSeenLast
  <2>4. CASE /\ rows' = rows
             /\ pc'[r] \in {"page", "rows", "read", "commit"} =>
                  pc[r] \in {"page", "rows", "read", "commit"} /\ runs' = runs
    <3>1. pc[r] \in {"page", "rows", "read", "commit"} => runs[r].started \in Nat
      BY DEF TypeInv, TypeOK, RunsRecorded, Stage, RunRow
    <3> QED
      BY <1>0, <2>0, <2>4, <3>1 DEF SeenBefore, ActiveRowsSeenLast
  <2> QED
    BY <1>2, <2>1, <2>2, <2>3, <2>4, ClockSteps
<1> QED
  BY <1>1, <1>2, SerialCases

\* While runs come one at a time last_seen_at alone tells the active rows from
\* the removed ones: all the active were seen by the last run that committed,
\* and the removed before it.
THEOREM SpecActiveRowsSeenLast == ASSUME ~Overlap PROVE Spec => []ActiveRowsSeenLast
<1>1. Init => SeenBefore /\ ActiveRowsSeenLast
  BY DEF Init, SeenBefore, ActiveRowsSeenLast
<1> QED
  BY <1>1, StepSeenBefore, AlwaysTypeInv, AlwaysSerialInv, PTL DEF Spec
=============================================================================
