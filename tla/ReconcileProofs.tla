--------------------------- MODULE ReconcileProofs ---------------------------
(***************************************************************************)
(* Facts about the operators of Reconcile, for every Id, Field and Value.  *)
(***************************************************************************)
EXTENDS Reconcile, TLAPS

\* compute_diff yields a diff: each changed field with its two values.
LEMMA DiffType ==
    ASSUME NEW a \in Content, NEW b \in Content
    PROVE  ComputeDiff(a, b) \in Diff
<1> DEFINE S == {g \in Field : a[g] # b[g]}
<1>1. S \in SUBSET Field
  OBVIOUS
<1>2. ComputeDiff(a, b) \in [S -> [from: Value, to: Value]]
  BY DEF ComputeDiff, Content
<1> QED
  BY <1>1, <1>2 DEF Diff

\* The diff of an "updated" event loses nothing: applied to the old content it
\* gives the new one (compute_diff).
THEOREM PatchOfDiff ==
    ASSUME NEW a \in Content, NEW b \in Content
    PROVE  Patch(a, ComputeDiff(a, b)) = b
  BY DEF Patch, ComputeDiff, Content

\* A diff is empty only between equal contents: compute_diff is called only
\* when the comparison found a difference, so no update has an empty diff.
LEMMA DiffOfDifferent ==
    ASSUME NEW a \in Content, NEW b \in Content, a # b
    PROVE  DOMAIN ComputeDiff(a, b) # {}
  BY DEF ComputeDiff, Content

\* Without a concurrent writer the flush leaves exactly the scraped content.
LEMMA MergedOfCurrent ==
    ASSUME NEW a \in Content, NEW b \in Content
    PROVE  MergedContent(a, b, a) = b
  BY DEF MergedContent, Content

\* What a transaction merges into a row is a content.
LEMMA MergedType ==
    ASSUME NEW a \in Content, NEW b \in Content, NEW c \in Content
    PROVE  MergedContent(a, b, c) \in Content
  BY DEF MergedContent, Content

\* What the flush makes of a stored row is a row, keeps when it was first
\* seen, and has the status the branch of apply_diff gives it.
LEMMA WrittenRows ==
    ASSUME NEW row \in Row, NEW a \in Content, NEW b \in Content, NEW at \in Nat
    PROVE  /\ NewRow(b, at) \in Row
           /\ Refreshed(row, a, b, at) \in Row
           /\ Refreshed(row, a, b, at).first = row.first
           /\ Refreshed(row, a, b, at).status = row.status
           /\ Refreshed(row, a, b, at).content = MergedContent(a, b, row.content)
           /\ Reactivated(row, a, b, at) \in Row
           /\ Reactivated(row, a, b, at).first = row.first
           /\ Reactivated(row, a, b, at).status = "active"
           /\ Reactivated(row, a, b, at).content = MergedContent(a, b, row.content)
           /\ MarkedRemoved(row) \in Row
           /\ MarkedRemoved(row).first = row.first
           /\ MarkedRemoved(row).status = "removed"
           /\ MarkedRemoved(row).content = row.content
<1>1. MergedContent(a, b, row.content) \in Content
  BY MergedType DEF Row
<1> QED
  BY <1>1 DEF Row, Status, NewRow, Refreshed, Reactivated, MarkedRemoved

\* The table after the flush is a table.  No row the run read has vanished
\* since: see RowsStay in IngestProofs.
LEMMA AppliedRowsType ==
    ASSUME NEW s \in Table, NEW p \in Listing, NEW t \in Table, NEW at \in Nat,
           \A id \in Id : s[id] # Null => t[id] # Null
    PROVE  /\ AppliedRows(s, p, t, at) \in Table
           /\ \A id \in Id : t[id] # Null /\ (s[id] = Null => p[id] \notin Content) =>
                /\ AppliedRows(s, p, t, at)[id] # Null
                /\ AppliedRows(s, p, t, at)[id].first = t[id].first
<1> SUFFICES ASSUME NEW id \in Id
             PROVE  /\ AppliedRows(s, p, t, at)[id] \in Row \union {Null}
                    /\ t[id] # Null /\ (s[id] = Null => p[id] \notin Content) =>
                         /\ AppliedRows(s, p, t, at)[id] # Null
                         /\ AppliedRows(s, p, t, at)[id].first = t[id].first
  BY DEF AppliedRows, Table
<1> DEFINE new == AppliedRows(s, p, t, at)[id]
<1>0. t[id] \in Row \union {Null} /\ s[id] \in Row \union {Null}
  BY DEF Table
<1>1. CASE id \in Created(s, p)
  <2>1. new = NewRow(p[id], at) /\ p[id] \in Content /\ s[id] = Null
    BY <1>1 DEF AppliedRows, Created, Restored, Removed, Scraped
  <2> QED
    BY <2>1 DEF NewRow, Row, Status
<1>2. CASE id \in Scraped(p) \ Created(s, p)
  <2>1. p[id] \in Content /\ s[id] \in Row /\ t[id] \in Row /\ s[id].content \in Content
    BY <1>0, <1>2 DEF Created, Scraped, Row
  <2>2. \/ new = Reactivated(t[id], s[id].content, p[id], at)
        \/ new = Refreshed(t[id], s[id].content, p[id], at)
    BY <1>2 DEF AppliedRows, Created, Restored, Removed, Scraped
  <2>3. new \in Row /\ new.first = t[id].first
    BY <2>1, <2>2, WrittenRows
  <2> QED
    BY <2>3, SentinelsAreNotData
<1>3. CASE id \in Removed(s, p)
  <2>1. id \notin Scraped(p) /\ new = MarkedRemoved(t[id]) /\ t[id] \in Row
    BY <1>0, <1>3 DEF AppliedRows, Removed, Created, Restored, Scraped
  <2>2. new \in Row /\ new.first = t[id].first
    BY <2>1 DEF MarkedRemoved, Row, Status
  <2> QED
    BY <2>2, SentinelsAreNotData
<1>4. CASE id \notin Scraped(p) /\ id \notin Removed(s, p)
  <2>1. new = t[id]
    BY <1>4 DEF AppliedRows, Created, Restored
  <2> QED
    BY <1>0, <2>1
<1> QED
  BY <1>1, <1>2, <1>3, <1>4 DEF Created

\* The branches of apply_diff when the table has not changed since it was
\* read: listed flaggers are active with the scraped content, the others are
\* removed with their content untouched, unknown ones stay unknown.
LEMMA AppliedRowsCurrent ==
    ASSUME NEW s \in Table, NEW p \in Listing, NEW at \in Nat, NEW id \in Id
    PROVE  LET new == AppliedRows(s, p, s, at)[id] IN
           /\ p[id] \in Content => /\ new \in Row
                                   /\ new.content = p[id]
                                   /\ new.status = "active"
                                   /\ new.last = at
           /\ p[id] \notin Content /\ s[id] # Null =>
                /\ new \in Row
                /\ new.content = s[id].content
                /\ new.status = "removed"
                /\ new.last = s[id].last
           /\ p[id] \notin Content /\ s[id] = Null => new = Null
<1> DEFINE new == AppliedRows(s, p, s, at)[id]
<1>0. s[id] \in Row \union {Null}
  BY DEF Table
<1>1. CASE p[id] \in Content /\ s[id] = Null
  <2>1. new = NewRow(p[id], at)
    BY <1>1 DEF AppliedRows, Created, Restored, Removed, Scraped
  <2> QED
    BY <1>1, <2>1 DEF NewRow, Row, Status
<1>2. CASE p[id] \in Content /\ s[id] # Null
  <2>1. /\ s[id] \in Row
        /\ s[id].content \in Content
        /\ s[id].status \in {"active", "removed"}
    BY <1>0, <1>2 DEF Row, Status
  <2>2. \/ new = Reactivated(s[id], s[id].content, p[id], at)
        \/ /\ new = Refreshed(s[id], s[id].content, p[id], at)
           /\ s[id].status # "removed"
    BY <1>2 DEF AppliedRows, Created, Restored, Removed, Scraped
  <2>3. MergedContent(s[id].content, p[id], s[id].content) = p[id]
    BY <1>2, <2>1, MergedOfCurrent
  <2>4. CASE new = Reactivated(s[id], s[id].content, p[id], at)
    BY <1>2, <2>1, <2>3, <2>4 DEF Reactivated, Refreshed, Row, Status
  <2>5. CASE /\ new = Refreshed(s[id], s[id].content, p[id], at)
             /\ s[id].status # "removed"
    BY <1>2, <2>1, <2>3, <2>5 DEF Refreshed, Row, Status
  <2> QED
    BY <2>2, <2>4, <2>5
<1>3. CASE p[id] \notin Content /\ s[id] # Null
  <2>1. s[id] \in Row
    BY <1>0, <1>3
  <2>2. \/ new = MarkedRemoved(s[id])
        \/ new = s[id] /\ s[id].status = "removed"
    BY <1>3 DEF AppliedRows, Created, Restored, Removed, Scraped
  <2> QED
    BY <1>3, <2>1, <2>2, SentinelsAreNotData DEF MarkedRemoved, Row, Status
<1>4. CASE p[id] \notin Content /\ s[id] = Null
  BY <1>4 DEF AppliedRows, Created, Restored, Removed, Scraped
<1> QED
  BY <1>1, <1>2, <1>3, <1>4

\* What apply_diff appends to the history of one flagger: at most one event.
LEMMA AppliedEventsCases ==
    ASSUME NEW s \in Table, NEW p \in Listing, NEW log, NEW run, NEW id \in Id
    PROVE  LET new == AppliedEvents(s, p, log, run)[id] IN
           \/ /\ p[id] \in Content /\ s[id] = Null
              /\ new = Append(log[id], Event(run, "created", Null, p[id]))
           \/ /\ p[id] \in Content /\ s[id] # Null /\ s[id].status = "removed"
              /\ new = Append(log[id], Event(run, "restored", Null, p[id]))
           \/ /\ p[id] \in Content /\ s[id] # Null /\ s[id].status # "removed"
              /\ s[id].content # p[id]
              /\ new = Append(log[id], Event(run, "updated",
                                 ComputeDiff(s[id].content, p[id]), p[id]))
           \/ /\ p[id] \notin Content /\ s[id] # Null /\ s[id].status # "removed"
              /\ new = Append(log[id], Event(run, "removed", Null, s[id].content))
           \/ /\ new = log[id]
              /\ \/ /\ p[id] \in Content /\ s[id] # Null
                    /\ s[id].status # "removed" /\ s[id].content = p[id]
                 \/ p[id] \notin Content /\ s[id] = Null
                 \/ p[id] \notin Content /\ s[id] # Null /\ s[id].status = "removed"
  BY DEF AppliedEvents, Created, Restored, Updated, Removed, Scraped

\* The events of a transaction extend well-typed histories.
LEMMA AppliedEventsType ==
    ASSUME NEW s \in Table, NEW p \in Listing, NEW R, NEW run \in R,
           NEW log \in [Id -> Seq(EventRow(R))]
    PROVE  AppliedEvents(s, p, log, run) \in [Id -> Seq(EventRow(R))]
<1> SUFFICES ASSUME NEW id \in Id
             PROVE  AppliedEvents(s, p, log, run)[id] \in Seq(EventRow(R))
  BY DEF AppliedEvents
<1> DEFINE new == AppliedEvents(s, p, log, run)[id]
<1>1. \A c \in Content : \A d \in Diff \union {Null} : \A type \in EventType :
          Event(run, type, d, c) \in EventRow(R)
  BY DEF Event, EventRow
<1>2. s[id] # Null => s[id].content \in Content
  BY DEF Table, Row
<1>3. p[id] \in Content /\ s[id] # Null => ComputeDiff(s[id].content, p[id]) \in Diff
  BY <1>2, DiffType
<1>4. \/ new = log[id]
      \/ \E e \in EventRow(R) : new = Append(log[id], e)
  BY <1>1, <1>2, <1>3, AppliedEventsCases DEF EventType
<1>5. log[id] \in Seq(EventRow(R))
  OBVIOUS
<1> HIDE DEF new
<1>6. new \in Seq(EventRow(R))
  BY <1>4, <1>5
<1> QED
  BY <1>6 DEF new
=============================================================================
