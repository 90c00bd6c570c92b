------------------------------ MODULE Reconcile ------------------------------
(***************************************************************************)
(* The reconciliation of one scraped listing against the trusted_flaggers  *)
(* table: compute_diff, _apply_scraped_to_orm and apply_diff of            *)
(* apps/scraper/ingest.py, as operators on values.                         *)
(*                                                                         *)
(* A flagger is identified by its stable id (an element of Id).  What the  *)
(* register says of it is the assignment of a value to each synced field.  *)
(* The status column only ever holds "active" or "removed": the two formal *)
(* statuses of TFStatus are declared for the future and no code sets them. *)
(***************************************************************************)
EXTENDS Naturals, Sequences, SequencesExt

CONSTANTS
    Id,         \* stable ids of flaggers
    Field,      \* the synced fields (_SYNCED_FIELDS)
    Value,      \* values of a synced field
    Delisted,   \* entry of a flagger with no row in the scraped payload
    Malformed,  \* entry of a flagger whose row does not normalize
    Null        \* no row, no diff

Content == [Field -> Value]

Status == {"active", "removed"}

Row == [content: Content, status: Status, first: Nat, last: Nat]

\* The table trusted_flaggers, by id; Null where there is no row.
Table == [Id -> Row \union {Null}]

Diff == UNION {[S -> [from: Value, to: Value]] : S \in SUBSET Field}

ASSUME SentinelsAreNotData ==
    /\ Delisted \notin Content
    /\ Malformed \notin Content
    /\ Delisted # Malformed
    /\ Null \notin Content
    /\ Null \notin Row

\* A scraped payload: for each id its normalized content (the last row wins
\* where two rows have one id), or why it has none.
Listing == [Id -> Content \union {Delisted, Malformed}]

\* normalize_rows returned at least one error.
HasParseErrors(p) == \E id \in Id : p[id] = Malformed

-----------------------------------------------------------------------------
(***************************************************************************)
(* The branches of apply_diff.  s is the table as the run read it, p the   *)
(* payload.                                                                *)
(***************************************************************************)
\* Mutant of Scraped: a row that does not normalize is kept.
ScrapedWithErrors(p) == {id \in Id : p[id] # Delisted}

Scraped(p) == {id \in Id : p[id] \in Content}

Created(s, p) == {id \in Scraped(p) : s[id] = Null}

Restored(s, p) ==
    {id \in Scraped(p) : s[id] # Null /\ s[id].status = "removed"}

\* Mutant of Updated: an unchanged row is logged as an update.
UpdatedAlways(s, p) ==
    {id \in Scraped(p) : s[id] # Null /\ s[id].status # "removed"}

Updated(s, p) ==
    {id \in Scraped(p) : /\ s[id] # Null
                         /\ s[id].status # "removed"
                         /\ s[id].content # p[id]}

Removed(s, p) ==
    {id \in Id \ Scraped(p) : s[id] # Null /\ s[id].status # "removed"}

-----------------------------------------------------------------------------
\* Mutant of ComputeDiff: "from" and "to" swapped.
SwappedDiff(before, after) ==
    [f \in {g \in Field : before[g] # after[g]} |->
        [from |-> after[f], to |-> before[f]]]

\* Field-level diff: the changed fields only.
ComputeDiff(before, after) ==
    [f \in {g \in Field : before[g] # after[g]} |->
        [from |-> before[f], to |-> after[f]]]

\* What a reader of a diff does with it.
Patch(before, diff) ==
    [f \in Field |-> IF f \in DOMAIN diff THEN diff[f].to ELSE before[f]]

-----------------------------------------------------------------------------
(***************************************************************************)
(* What the flush writes.  The unit of work emits an UPDATE of the columns *)
(* whose new value differs from the value the run read, so a column it     *)
(* found right keeps the value the table holds by then.  t is the table    *)
(* at the time of the write; without a concurrent writer t = s.            *)
(***************************************************************************)
MergedContent(read, new, stored) ==
    [f \in Field |-> IF read[f] # new[f] THEN new[f] ELSE stored[f]]

NewRow(content, at) ==
    [content |-> content, status |-> "active", first |-> at, last |-> at]

\* Mutant of Refreshed: last_seen_at is left alone.
RefreshedUnseen(row, read, new, at) ==
    [row EXCEPT !.content = MergedContent(read, new, row.content)]

Refreshed(row, read, new, at) ==
    [row EXCEPT !.content = MergedContent(read, new, row.content), !.last = at]

\* Mutant of Reactivated: the scraped fields are not applied.
ReactivatedAsWas(row, read, new, at) ==
    [row EXCEPT !.status = "active", !.last = at]

Reactivated(row, read, new, at) ==
    [Refreshed(row, read, new, at) EXCEPT !.status = "active"]

MarkedRemoved(row) == [row EXCEPT !.status = "removed"]

AppliedRows(s, p, t, at) ==
    [id \in Id |->
        CASE id \in Created(s, p)  -> NewRow(p[id], at)
          [] id \in Restored(s, p) -> Reactivated(t[id], s[id].content, p[id], at)
          [] id \in Scraped(p) \ (Created(s, p) \union Restored(s, p)) ->
               Refreshed(t[id], s[id].content, p[id], at)
          [] id \in Removed(s, p)  -> MarkedRemoved(t[id])
          [] OTHER -> t[id]]

-----------------------------------------------------------------------------
(***************************************************************************)
(* The audit log: one history per flagger, in the order its events were    *)
(* committed.  Only an "updated" event carries a diff; a "removed" event   *)
(* carries the row as the run read it, the others the scraped content.     *)
(***************************************************************************)
EventType == {"created", "updated", "removed", "restored"}

\* The rows that runs in R may write to trusted_flagger_events.
EventRow(R) ==
    [run: R, type: EventType, diff: Diff \union {Null}, snapshot: Content]

Event(run, type, diff, snapshot) ==
    [run |-> run, type |-> type, diff |-> diff, snapshot |-> snapshot]

AppliedEvents(s, p, log, run) ==
    [id \in Id |->
        CASE id \in Created(s, p) ->
               Append(log[id], Event(run, "created", Null, p[id]))
          [] id \in Restored(s, p) ->
               Append(log[id], Event(run, "restored", Null, p[id]))
          [] id \in Updated(s, p) ->
               Append(log[id], Event(run, "updated",
                                     ComputeDiff(s[id].content, p[id]), p[id]))
          [] id \in Removed(s, p) ->
               Append(log[id], Event(run, "removed", Null, s[id].content))
          [] OTHER -> log[id]]
=============================================================================
