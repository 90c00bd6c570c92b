------------------------------- MODULE Ingest -------------------------------
(***************************************************************************)
(* Runs of the scraper against the database: run_ingest and apply_diff of  *)
(* apps/scraper/ingest.py, from the scrape_runs row to the stamp in Redis. *)
(*                                                                         *)
(* A run is a process.  It has one action per stretch of code between two  *)
(* awaits that touch shared state, so runs of two processes interleave at  *)
(* every database round trip.  The open-data export and push that follow   *)
(* the stamp read the database and write elsewhere: they are one step here.*)
(***************************************************************************)
EXTENDS Reconcile

CONSTANTS
    Run,      \* the runs that may be started, each once
    Overlap,  \* may a run start while another one is in flight?
    Faults    \* the faults that may occur, a subset of Fault

Fault == {"database", "ack", "kill"}

RunStatus == {"running", "success", "partial", "failed"}

\* A row of scrape_runs; completed is 0 where completed_at is NULL.
RunRow == [status: RunStatus, started: Nat, completed: Nat]

ASSUME IngestAssumption ==
    /\ Overlap \in BOOLEAN
    /\ Faults \subseteq Fault
    /\ Null \notin RunRow
    /\ Null \notin [content: Content, listed: BOOLEAN]

VARIABLES
    rows,     \* table trusted_flaggers
    events,   \* table trusted_flagger_events, by flagger
    runs,     \* table scrape_runs
    stamp,    \* Redis key dsa:last_scrape_completed_at, 0 when missing
    alerted,  \* runs whose failure reached Slack
    now,      \* the clock: one tick per timestamp taken
    pc,       \* where each run is in run_ingest
    payload,  \* local: the normalized listing of each run
    seen      \* local: the table as apply_diff of each run read it

database == <<rows, events, runs>>
locals == <<pc, payload, seen>>
vars == <<rows, events, runs, stamp, alerted, now, pc, payload, seen>>

Ended == {"done", "raised", "killed"}
Stage == {"page", "rows", "read", "commit", "stamp", "opendata",
          "failing", "alert"}

InFlight(r) == pc[r] \in Stage

NothingRead == [id \in Id |-> Null]
NothingScraped == [id \in Id |-> Delisted]

-----------------------------------------------------------------------------
Init ==
    /\ rows = [id \in Id |-> Null]
    /\ events = [id \in Id |-> <<>>]
    /\ runs = [r \in Run |-> Null]
    /\ stamp = 0
    /\ alerted = {}
    /\ now = 0
    /\ pc = [r \in Run |-> "idle"]
    /\ payload = [r \in Run |-> NothingScraped]
    /\ seen = [r \in Run |-> NothingRead]

Goto(r, stage) == pc' = [pc EXCEPT ![r] = stage]

\* The session is closed: what the run read and scraped is not used again.
Forget(r) ==
    /\ payload' = [payload EXCEPT ![r] = NothingScraped]
    /\ seen' = [seen EXCEPT ![r] = NothingRead]

\* The scrape_runs row is committed before anything is fetched.  This insert
\* is outside the try block: if it fails, the exception ends the process.
Start(r) ==
    /\ pc[r] = "idle"
    /\ Overlap \/ \A q \in Run : ~InFlight(q)
    /\ now' = now + 1
    /\ \/ /\ runs' = [runs EXCEPT ![r] =
                [status |-> "running", started |-> now', completed |-> 0]]
          /\ Goto(r, "page")
       \/ /\ "database" \in Faults
          /\ Goto(r, "raised")
          /\ UNCHANGED runs
    /\ UNCHANGED <<rows, events, stamp, alerted, payload, seen>>

\* The EU page is fetched, snapshotted, and the API URL found in it.
FetchPage(r) ==
    /\ pc[r] = "page"
    /\ Goto(r, "rows")
    /\ UNCHANGED <<database, stamp, alerted, now, payload, seen>>

\* The JSON rows are fetched, parsed and normalized.  The register may list
\* anything at that time.
FetchRows(r) ==
    /\ pc[r] = "rows"
    /\ \E p \in Listing : payload' = [payload EXCEPT ![r] = p]
    /\ Goto(r, "read")
    /\ UNCHANGED <<database, stamp, alerted, now, seen>>

\* FetchError, HtmlStructureError, ApiResponseError, an error writing the
\* snapshot, or a row whose fields have unexpected types.
FetchFails(r) ==
    /\ pc[r] \in {"page", "rows"}
    /\ Goto(r, "failing")
    /\ UNCHANGED <<database, stamp, alerted, now, payload, seen>>

\* The SELECT of apply_diff.
ReadTable(r) ==
    /\ pc[r] = "read"
    /\ seen' = [seen EXCEPT ![r] = rows]
    /\ Goto(r, "commit")
    /\ UNCHANGED <<database, stamp, alerted, now, payload>>

\* Mutant of Conflict: an upsert, where the insert should fail.
ConflictOverwritten(r) == FALSE

\* A flagger this run is about to insert has been inserted since it read.
Conflict(r) == \E id \in Created(seen[r], payload[r]) : rows[id] # Null

\* Mutant of Outcome: parse errors are not reported.
OutcomeIgnoringErrors(p) == "success"

Outcome(p) == IF HasParseErrors(p) THEN "partial" ELSE "success"

\* The transaction: rows, events and the outcome of the run, at once.  When
\* the acknowledgement of the COMMIT is lost the run takes it for a failure.
Commit(r) ==
    /\ pc[r] = "commit"
    /\ ~Conflict(r)
    /\ now' = now + 1
    /\ rows' = AppliedRows(seen[r], payload[r], rows, runs[r].started)
    /\ events' = AppliedEvents(seen[r], payload[r], events, r)
    /\ runs' = [runs EXCEPT ![r].status = Outcome(payload[r]),
                            ![r].completed = now']
    /\ Forget(r)
    /\ \/ Goto(r, "stamp")
       \/ "ack" \in Faults /\ Goto(r, "failing")
    /\ UNCHANGED <<stamp, alerted>>

\* The transaction is rolled back: a duplicate key, a deadlock with another
\* run that writes the same rows, or the database is away.
RollBack(r) ==
    /\ \/ pc[r] = "commit" /\ Conflict(r)
       \/ pc[r] = "commit" /\ \E q \in Run \ {r} : pc[q] = "commit"
       \/ pc[r] \in {"read", "commit"} /\ "database" \in Faults
    /\ Forget(r)
    /\ Goto(r, "failing")
    /\ UNCHANGED <<database, stamp, alerted, now>>

\* Mutant of WriteStamp: an error of Redis is not caught on the spot.
WriteStampRaising(r) ==
    /\ pc[r] = "stamp"
    /\ \/ stamp' = runs[r].completed /\ Goto(r, "opendata")
       \/ stamp' = stamp /\ Goto(r, "failing")
    /\ UNCHANGED <<database, alerted, now, payload, seen>>

\* Mutant of WriteStamp: the time of the start is written.
WriteStampOfStart(r) ==
    /\ pc[r] = "stamp"
    /\ stamp' \in {stamp, runs[r].started}
    /\ Goto(r, "opendata")
    /\ UNCHANGED <<database, alerted, now, payload, seen>>

\* Mutant of WriteStamp: the key is deleted, then set.
WriteStampByDelete(r) ==
    /\ pc[r] = "stamp"
    /\ stamp' \in {stamp, 0, runs[r].completed}
    /\ Goto(r, "opendata")
    /\ UNCHANGED <<database, alerted, now, payload, seen>>

\* write_data_updated_at; an error of Redis is logged and swallowed.
WriteStamp(r) ==
    /\ pc[r] = "stamp"
    /\ stamp' \in {stamp, runs[r].completed}
    /\ Goto(r, "opendata")
    /\ UNCHANGED <<database, alerted, now, payload, seen>>

\* Export and publication are best effort: whatever they do the run is done.
OpenData(r) ==
    /\ pc[r] = "opendata"
    /\ Goto(r, "done")
    /\ UNCHANGED <<database, stamp, alerted, now, payload, seen>>

\* Mutant of MarkFailed: the handler forgets the status.
MarkFailedSilently(r) ==
    /\ pc[r] = "failing"
    /\ now' = now + 1
    /\ runs' = [runs EXCEPT ![r].completed = now']
    /\ Goto(r, "alert")
    /\ UNCHANGED <<rows, events, stamp, alerted, payload, seen>>

\* The except block: the run is marked failed, unless the database is away,
\* in which case the error of the handler itself ends the process.
MarkFailed(r) ==
    /\ pc[r] = "failing"
    /\ \/ /\ now' = now + 1
          /\ runs' = [runs EXCEPT ![r].status = "failed",
                                  ![r].completed = now']
          /\ Goto(r, "alert")
       \/ /\ "database" \in Faults
          /\ Goto(r, "raised")
          /\ UNCHANGED <<now, runs>>
    /\ UNCHANGED <<rows, events, stamp, alerted, payload, seen>>

\* notify_slack never raises, whether Slack takes the message or not (or is
\* not configured); the original exception is then re-raised.
Alert(r) ==
    /\ pc[r] = "alert"
    /\ alerted' \in {alerted, alerted \union {r}}
    /\ Goto(r, "raised")
    /\ UNCHANGED <<database, stamp, now, payload, seen>>

\* The pod is evicted or runs out of memory.
Kill(r) ==
    /\ "kill" \in Faults
    /\ InFlight(r)
    /\ Forget(r)
    /\ Goto(r, "killed")
    /\ UNCHANGED <<database, stamp, alerted, now>>

\* Every run has been started and has ended.
AllOver ==
    /\ \A r \in Run : pc[r] \in Ended
    /\ UNCHANGED vars

\* What the process of r does by itself once started.
Advance(r) ==
    \/ FetchPage(r) \/ FetchRows(r) \/ FetchFails(r)
    \/ ReadTable(r) \/ Commit(r) \/ RollBack(r)
    \/ WriteStamp(r) \/ OpenData(r)
    \/ MarkFailed(r) \/ Alert(r)

Next ==
    \/ \E r \in Run : Start(r) \/ Advance(r) \/ Kill(r)
    \/ AllOver

Spec == Init /\ [][Next]_vars

\* Every await of a run has a timeout, so a live process takes its next step.
FairSpec == Spec /\ \A r \in Run : WF_vars(Advance(r))

-----------------------------------------------------------------------------
TypeOK ==
    /\ rows \in Table
    /\ events \in [Id -> Seq(EventRow(Run))]
    /\ runs \in [Run -> RunRow \union {Null}]
    /\ stamp \in Nat
    /\ alerted \subseteq Run
    /\ now \in Nat
    /\ pc \in [Run -> Stage \union Ended \union {"idle"}]
    /\ payload \in [Run -> Listing]
    /\ seen \in [Run -> Table]

-----------------------------------------------------------------------------
(***************************************************************************)
(* Safety of the table and its log                                         *)
(***************************************************************************)

\* Does a history end with what the row says?
Replays(history, row) ==
    IF history = <<>> THEN row = Null
    ELSE /\ row # Null
         /\ row.content = Last(history).snapshot
         /\ row.status = IF Last(history).type = "removed" THEN "removed"
                                                           ELSE "active"

\* The log alone determines the table: the last event of a flagger carries
\* the content of its row and tells whether it is active.  Readers of the
\* changelog and readers of the table see the same register, whatever runs
\* failed or died in between (ingest.py, apply_diff and its transaction).
LogReplaysTable == \A id \in Id : Replays(events[id], rows[id])

\* May event e follow event d in one history?
MayFollow(d, e) ==
    \/ /\ e.type = "updated"
       /\ d.type # "removed"
       /\ \A f \in DOMAIN e.diff : /\ e.diff[f].from = d.snapshot[f]
                                   /\ e.diff[f].from # e.diff[f].to
       /\ DOMAIN e.diff # {}
       /\ Patch(d.snapshot, e.diff) = e.snapshot
    \/ /\ e.type = "removed"
       /\ d.type # "removed"
       /\ e.snapshot = d.snapshot
    \/ /\ e.type = "restored"
       /\ d.type = "removed"

Legal(history) ==
    \A i \in 1 .. Len(history) :
        IF i = 1 THEN history[1].type = "created"
                 ELSE MayFollow(history[i - 1], history[i])

\* Every history is a life of a flagger: created first and once, removed only
\* while active, restored only while removed, and each update's diff leads
\* from the previous snapshot to its own (apply_diff, compute_diff).
HistoriesAreLegal == \A id \in Id : Legal(events[id])

\* All active rows were last seen by one and the same run, which is later
\* than the last sighting of any removed row: last_seen_at alone tells the
\* active rows from the removed ones (apply_diff, existing.last_seen_at).
ActiveRowsSeenLast ==
    \A i, j \in Id :
        rows[i] # Null /\ rows[j] # Null /\ rows[i].status = "active" =>
            IF rows[j].status = "active" THEN rows[i].last = rows[j].last
                                         ELSE rows[j].last < rows[i].last

\* The transaction is all or nothing: events belong to runs recorded as
\* success or partial, so a run recorded as failed changed nothing.  (Only
\* without lost acknowledgements: see Commit.)
EventsOfCommittedRuns ==
    \A id \in Id : \A i \in 1 .. Len(events[id]) :
        /\ runs[events[id][i].run] # Null
        /\ runs[events[id][i].run].status \in {"success", "partial"}

\* The Redis stamp is the completion of a run that produced data, never a
\* time at which no data was committed (write_data_updated_at).
StampIsOfCommittedRun ==
    stamp # 0 => \E r \in Run : /\ runs[r] # Null
                                /\ runs[r].status \in {"success", "partial"}
                                /\ runs[r].completed = stamp

\* X-Data-Updated-At never goes back while runs do not overlap, although the
\* write is best effort and its run may have died (run_ingest, and k8s's
\* concurrencyPolicy: Forbid).
StampNeverGoesBack == [][stamp' >= stamp]_vars

\* A row is never deleted, and first_seen_at "never moves once set"
\* (tests/test_ingest.py:130), even when two runs discover a flagger at once.
FirstSeenIsForever ==
    [][\A id \in Id : rows[id] # Null =>
           rows'[id] # Null /\ rows'[id].first = rows[id].first]_vars

\* A run recorded as a success marks removed only flaggers that were not in
\* the payload it fetched.
SuccessRemovesOnlyDelisted ==
    [][\A r \in Run, id \in Id :
           /\ pc[r] = "commit" /\ pc'[r] = "stamp"
           /\ runs'[r].status = "success"
           /\ rows[id] # Null /\ rows'[id].status = "removed"
           => payload[r][id] = Delisted]_vars

\* Two runs that discover one flagger at once do not both create it, and no
\* run logs two events about one flagger.
CreatedOnceLoggedOnce ==
    \A id \in Id : \A i, j \in 1 .. Len(events[id]) : i # j =>
        /\ ~ (events[id][i].type = "created" /\ events[id][j].type = "created")
        /\ events[id][i].run # events[id][j].run

-----------------------------------------------------------------------------
(***************************************************************************)
(* Claims of the documentation that the code does not keep                 *)
(***************************************************************************)

\* "removed: Entity disappeared from the EU register" (core/enums.py:35).
RemovedMeansDelisted ==
    [][\A r \in Run, id \in Id :
           /\ pc[r] = "commit" /\ pc'[r] = "stamp"
           /\ rows[id] # Null /\ rows[id].status = "active"
           /\ rows'[id].status = "removed"
           => payload[r][id] = Delisted]_vars

\* "On failure: updates the scrape_runs row to status=failed before
\* re-raising." (apps/scraper/ingest.py:203).
RaisedRunIsFailed ==
    \A r \in Run : pc[r] = "raised" =>
        runs[r] # Null /\ runs[r].status = "failed"

-----------------------------------------------------------------------------
(***************************************************************************)
(* Progress                                                                *)
(***************************************************************************)

\* A run that is not killed and has its database ends, and its scrape_runs
\* row does not stay "running".
RunsEnd ==
    \A r \in Run : InFlight(r) ~>
        /\ pc[r] \in {"done", "raised"}
        /\ runs[r].status # "running"

-----------------------------------------------------------------------------
(***************************************************************************)
(* Refinement: what API consumers see of the two tables.                   *)
(***************************************************************************)
MirroredRow(row) ==
    IF row = Null THEN Null
    ELSE [content |-> row.content, listed |-> row.status = "active"]

PublicEvent(e) == [type |-> e.type, snapshot |-> e.snapshot]

Mirror ==
    INSTANCE RegisterHistory WITH
        Absent  <- Null,
        mirror  <- [id \in Id |-> MirroredRow(rows[id])],
        history <- [id \in Id |-> [i \in 1 .. Len(events[id]) |->
                                       PublicEvent(events[id][i])]]

\* Every run, seen through its effect on the two tables, observes a listing
\* and records exactly the changes, or changes nothing.
ImplementsRegisterHistory == Mirror!MirrorSpec
=============================================================================
