------------------------------- MODULE ReadApi -------------------------------
(***************************************************************************)
(* The public API over the mirror: the routers trusted_flaggers, changes,  *)
(* stats and badges, the operational endpoints, and the middleware of      *)
(* apps/api/main.py around them, while the scraper commits runs.           *)
(*                                                                         *)
(* The database is the sequence of its committed versions.  The session    *)
(* runs at READ COMMITTED: every SELECT of a handler reads the version     *)
(* that is the latest by then, so an answer is put together from several.  *)
(* A run is one step of RegisterHistory (Ingest is shown to implement it); *)
(* its events carry the start of its transaction (now() of occurred_at).   *)
(* The flaggers are those of the payloads, normalized as in Normalize.     *)
(***************************************************************************)
EXTENDS Normalize, FiniteSetsExt

CONSTANTS
    Payload,   \* raw listings the register may publish
    Query,     \* filters of GET /v1/trusted-flaggers
    Lookup,    \* parameters of GET /v1/trusted-flaggers/lookup
    Unknown,   \* an id no flagger has
    PageSize,  \* limit
    MaxRuns    \* bound on the runs that commit

RawRow == UNION {ToSet(p) : p \in Payload}

Id == {IdOfRow(raw) : raw \in {r \in RawRow : Normalizes(r)}}

\* The content of a listing that normalizes.
Content == {NormalizeRow(raw) : raw \in {r \in RawRow : Normalizes(r)}}

\* The addresses of the register, and those the clients ask for.
Addresses ==
    {c.email : c \in {c \in Content : c.email # None}}
        \union {l.value : l \in {l \in Lookup : l.by = "email"}}

ASSUME ReadApiAssumption ==
    /\ PageSize \in Nat \ {0} /\ MaxRuns \in Nat
    /\ None \notin [content: Content, listed: BOOLEAN]
    /\ IsFiniteSet(Id) /\ IsFiniteSet(Country)
    /\ \A raw \in RawRow :
           /\ raw.areas \in Seq(ToSet(raw.areas))
           /\ raw.dsc # Blank /\ raw.dsc.caps => raw.dsc.code \in Country \union {None}
    /\ \A q \in Query :
           q = [status |-> q.status, country |-> q.country, dsc |-> q.dsc, after |-> q.after,
                before |-> q.before, area |-> q.area, word |-> q.word]
    /\ \A c \in Content : c.name.word \in Nat /\ c.name.caps \in BOOLEAN
    /\ \A a \in Addresses :
           /\ a = [user |-> a.user, domain |-> a.domain, caps |-> a.caps]
           /\ a # Blank /\ a.caps \in BOOLEAN
           /\ \A c \in BOOLEAN : [word |-> a.domain, caps |-> c] \notin {None, Blank}

VARIABLES
    versions,  \* the committed versions of the database
    clock,     \* the latest timestamp drawn
    open,      \* start times of the open transactions of runs
    request,   \* None, or the request: endpoint, argument, offset
    depth,     \* the layer of Stack the request is at
    reads,     \* the version each SELECT of the request read
    page,      \* the number of rows of the latest page, None before
    seen,      \* what the pages of the walk have shown so far ...
    twice,     \* ... and what they have shown more than once
    from,      \* the version its first page counted, 0 before
    response   \* None, or status and labels

dbVars == <<versions, clock, open>>
callVars == <<request, depth, reads, page, seen, twice, from, response>>
walkVars == <<page, seen, twice, from>>
vars == <<versions, clock, open, request, depth, reads, page, seen, twice, from, response>>

Latest == versions[Len(versions)]

H == INSTANCE RegisterHistory
         WITH Absent <- None, mirror <- Latest.mirror, history <- Latest.history

-----------------------------------------------------------------------------
(***************************************************************************)
(* Runs of the scraper.                                                    *)
(***************************************************************************)
\* Mutant of MayBegin: runs overlap.
MayBeginBeside == TRUE

\* concurrencyPolicy is Forbid.
MayBegin == open = {}

Begin ==
    /\ MayBegin
    /\ Len(versions) + Cardinality(open) <= MaxRuns
    /\ clock' = clock + 1
    /\ open' = open \union {clock + 1}
    /\ UNCHANGED <<versions, callVars>>

\* The version after a run that started at start and saw the payload p.
Reconciled(v, p, start, at) ==
    LET mirror == [id \in Id |-> H!Mirrored(v.mirror[id], Listed(p, id, None))]
    IN  [mirror    |-> mirror,
         history   |-> [id \in Id |->
             IF mirror[id] = v.mirror[id] THEN v.history[id]
             ELSE Append(v.history[id],
                         [type |-> H!ChangeType(v.mirror[id], mirror[id]),
                          at |-> start])],
         completed |-> at]

Commit ==
    \E start \in open, p \in Payload :
        /\ clock' = clock + 1
        /\ open' = open \ {start}
        /\ versions' = Append(versions, Reconciled(Latest, p, start, clock + 1))
        /\ UNCHANGED callVars

-----------------------------------------------------------------------------
(***************************************************************************)
(* What the SELECTs return, on a version v.                                *)
(***************************************************************************)
Known(v) == {id \in Id : v.mirror[id] # None}

Active(v) == {id \in Known(v) : v.mirror[id].listed}

HasStatus(v, id, status) ==
    CASE status = "all"     -> TRUE
      [] status = "active"  -> id \in Active(v)
      [] status = "removed" -> id \notin Active(v)
      [] OTHER              -> FALSE   \* no row is suspended or revoked

\* The WHERE of the list; an empty filter does not restrict.
Found(v, q) ==
    {id \in Known(v) :
        LET c == v.mirror[id].content
        IN  /\ HasStatus(v, id, q.status)
            /\ q.country # {} => c.country \in q.country
            /\ q.dsc # None => c.dsc = q.dsc
            /\ q.after # None => c.date >= q.after
            /\ q.before # None => c.date <= q.before
            /\ q.area # {} => ToSet(c.areas) \intersect q.area # {}
            /\ q.word # None => c.name.word = q.word}

\* Mutant of SameText: compared as spelt.
SameSpelling(stored, asked) == stored = asked

SameText(stored, asked) == stored # None /\ Lower(stored) = Lower(asked)

LookupRows(v, l) ==
    {id \in Known(v) :
        LET c == v.mirror[id].content
        IN  SameText(IF l.by = "email" THEN c.email ELSE c.domain, l.value)}

\* An event is named by its flagger and its place in the flagger's history.
EventsOf(v, ids) ==
    UNION {{<<id, n>> : n \in DOMAIN v.history[id]} : id \in ids}

At(v, e) == v.history[e[1]][e[2]].at

\* The change feed.
Changes(v, since) == {e \in EventsOf(v, Known(v)) : At(v, e) >= since}

ByCountry(v) ==
    [c \in Country |-> Cardinality({id \in Active(v) : v.mirror[id].content.country = c})]

ByDsc(v) ==
    [c \in Country |-> Cardinality({id \in Active(v) : v.mirror[id].content.dsc = c})]

\* jsonb_array_elements_text: one row per element of the array.
ByArea(v, a) ==
    MapThenSumSet(LAMBDA id : Cardinality({k \in DOMAIN v.mirror[id].content.areas :
                                               v.mirror[id].content.areas[k] = a}),
                  Active(v))

-----------------------------------------------------------------------------
(***************************************************************************)
(* The rows of a walk, and their order.                                    *)
(***************************************************************************)
\* By name; capitals before lower case, as any fixed collation would do.
NameBefore(v, x, y) ==
    LET a == v.mirror[x].content.name
        b == v.mirror[y].content.name
    IN  \/ a.word < b.word
        \/ a.word = b.word /\ a.caps /\ ~b.caps

NewerFirst(v, x, y) == At(v, x) > At(v, y)

Before(v, r, x, y) ==
    IF r.endpoint = "list" THEN NameBefore(v, x, y) ELSE NewerFirst(v, x, y)

\* The rows a walk is about, in version v.
Subject(v, r) ==
    CASE r.endpoint = "list"    -> Found(v, r.arg)
      [] r.endpoint = "history" -> EventsOf(v, {r.arg} \intersect Id)
      [] r.endpoint = "changes" -> Changes(v, r.arg)

\* LIMIT PageSize OFFSET offset, as places of the ordered rows.
Window(r) == (r.offset + 1)..(r.offset + PageSize)

\* Mutant of PagesOf: no ORDER BY.
PagesOfUnordered(v, r) ==
    LET S == Subject(v, r)
    IN  {P \in SUBSET S : Cardinality(P) = Cardinality((1..Cardinality(S)) \intersect Window(r))}

\* What ORDER BY leaves open the database may order anew in every query: of
\* the rows that tie, the page holds as many as their places meet the window.
PagesOf(v, r) ==
    LET S == Subject(v, r)
    IN  {P \in SUBSET S : \A x \in S :
            LET ties   == {y \in S : ~Before(v, r, x, y) /\ ~Before(v, r, y, x)}
                ahead  == Cardinality({y \in S : Before(v, r, y, x)})
                places == (ahead + 1)..(ahead + Cardinality(ties))
            IN  Cardinality(P \intersect ties) = Cardinality(places \intersect Window(r))}

-----------------------------------------------------------------------------
(***************************************************************************)
(* The layers of a request.                                                *)
(***************************************************************************)
\* In the order create_app adds them ...
\* Mutant of Registered: the limiter is added after the source headers.
RegisteredLimiterOutside == <<"source", "rate_limit", "cors">>

Registered == <<"rate_limit", "source", "cors">>

\* ... and each goes around those before it.
Stack == Reverse(Registered)

AtLayer(name) ==
    request # None /\ response = None /\ depth <= Len(Stack) /\ Stack[depth] = name

AtHandler == request # None /\ response = None /\ depth > Len(Stack)

Metered(r) == r.endpoint \notin {"health", "version"}

\* The response is labelled by the layers it leaves through.
Respond(status) ==
    /\ response' = [status |-> status, labels |-> {Stack[k] : k \in 1..(depth - 1)}]
    /\ UNCHANGED <<dbVars, request, depth, reads, walkVars>>

\* An exception no one handles passes every layer by: a bare 500.
Raise ==
    /\ response' = [status |-> 500, labels |-> {}]
    /\ UNCHANGED <<dbVars, request, depth, reads, walkVars>>

\* CORSMiddleware answers a preflight itself, with its own headers.
AnswerPreflight ==
    /\ AtLayer("cors")
    /\ request.endpoint = "preflight"
    /\ response' = [status |-> 200,
                    labels |-> {Stack[k] : k \in 1..depth}]
    /\ UNCHANGED <<dbVars, request, depth, reads, walkVars>>

PassCors == AtLayer("cors") /\ request.endpoint # "preflight"

PassLayer ==
    /\ PassCors \/ AtLayer("source") \/ AtLayer("rate_limit")
    /\ depth' = depth + 1
    /\ UNCHANGED <<dbVars, request, reads, walkVars, response>>

RefuseRequest == AtLayer("rate_limit") /\ Metered(request) /\ Respond(429)

RedisAway == AtLayer("rate_limit") /\ Metered(request) /\ Raise

-----------------------------------------------------------------------------
(***************************************************************************)
(* The handlers: the SELECTs of each, in their order.                      *)
(***************************************************************************)
\* Mutant of ThenDated: the date is read before the data.
DatedThen(data) == <<"dated">> \o data

\* _data_updated_at comes last.
ThenDated(data) == data \o <<"dated">>

ListSelects == ThenDated(<<"count", "page">>)
LookupSelects == ThenDated(<<"rows">>)
OneSelects == ThenDated(<<"row">>)
HistorySelects == <<"row", "count", "page">>
ChangesSelects == <<"count", "page">>
StatsSelects == ThenDated(<<"total", "by_country", "by_dsc", "by_area">>)
FlaggersSelects == <<"total">>
FreshnessSelects == <<"dated">>
HealthSelects == <<"select_1">>

Statements ==
    [list |-> ListSelects, lookup |-> LookupSelects, one |-> OneSelects,
     history |-> HistorySelects, changes |-> ChangesSelects, stats |-> StatsSelects,
     flaggers |-> FlaggersSelects, freshness |-> FreshnessSelects,
     health |-> HealthSelects, version |-> <<>>, preflight |-> <<>>]

Endpoint == DOMAIN Statements

Todo == Statements[request.endpoint]

\* The version the named SELECT of the request read.
ReadBy(name) == reads[CHOOSE k \in DOMAIN reads : Todo[k] = name]

\* 400: not exactly one parameter, or a website without a host.
BadRequest ==
    request.endpoint = "lookup" /\ (request.arg.by = "none" \/ request.arg.value = None)

NotFound ==
    /\ Todo[1] = "row"
    /\ Len(reads) = 1
    /\ request.arg \notin Known(versions[reads[1]])

\* Mutant of Snapshot: a replica that lags behind is read.
SnapshotOfReplica == 1..Len(versions)

\* READ COMMITTED on the one database: the latest version.
Snapshot == {Len(versions)}

Select ==
    /\ AtHandler
    /\ ~BadRequest
    /\ Len(reads) < Len(Todo)
    /\ ~(reads # <<>> /\ NotFound)
    /\ \E v \in Snapshot :
           /\ reads' = Append(reads, v)
           /\ from' = IF from = 0 /\ Todo[Len(reads) + 1] = "count" THEN v ELSE from
           /\ IF Todo[Len(reads) + 1] = "page"
              THEN \E P \in PagesOf(versions[v], request) :
                       /\ page' = Cardinality(P)
                       /\ seen' = seen \union P
                       /\ twice' = twice \union (seen \intersect P)
              ELSE UNCHANGED <<page, seen, twice>>
    /\ UNCHANGED <<dbVars, request, depth, response>>

\* health answers for a database that does not; no other handler does.
DatabaseAway ==
    /\ AtHandler
    /\ ~BadRequest
    /\ Len(reads) < Len(Todo)
    /\ IF request.endpoint = "health" THEN Respond(503) ELSE Raise

RefuseBadRequest == AtHandler /\ BadRequest /\ Respond(400)

AnswerNotFound == AtHandler /\ reads # <<>> /\ NotFound /\ Respond(404)

Answer ==
    /\ AtHandler
    /\ ~BadRequest
    /\ Len(reads) = Len(Todo)
    /\ Respond(200)

-----------------------------------------------------------------------------
(***************************************************************************)
(* The client.                                                             *)
(***************************************************************************)
Argument(e) ==
    CASE e = "list"               -> Query
      [] e = "lookup"             -> Lookup
      [] e \in {"one", "history"} -> Id \union {Unknown}
      [] e = "changes"            -> {0} \union {At(Latest, x) : x \in EventsOf(Latest, Id)}
      [] OTHER                    -> {None}

Send(e, arg, offset) ==
    /\ request' = [endpoint |-> e, arg |-> arg, offset |-> offset]
    /\ depth' = 1
    /\ reads' = <<>>
    /\ response' = None
    /\ UNCHANGED dbVars

NothingShown ==
    /\ page' = None
    /\ seen' = {}
    /\ twice' = {}
    /\ from' = 0

Ask ==
    /\ request = None
    /\ \E e \in Endpoint : \E arg \in Argument(e) : Send(e, arg, 0)
    /\ NothingShown

Answered == response # None /\ response.status = 200

LastPageFull == page = PageSize

\* A client that walks the pages asks on until one is not full.
AskNextPage ==
    /\ Answered
    /\ LastPageFull
    /\ Send(request.endpoint, request.arg, request.offset + PageSize)
    /\ UNCHANGED walkVars

TurnAway ==
    /\ response # None
    /\ request' = None
    /\ depth' = 1
    /\ reads' = <<>>
    /\ response' = None
    /\ NothingShown
    /\ UNCHANGED dbVars

Init ==
    /\ versions = <<[mirror    |-> [id \in Id |-> None],
                     history   |-> [id \in Id |-> <<>>],
                     completed |-> 0]>>
    /\ clock = 0
    /\ open = {}
    /\ request = None
    /\ depth = 1
    /\ reads = <<>>
    /\ page = None
    /\ seen = {}
    /\ twice = {}
    /\ from = 0
    /\ response = None

Next ==
    \/ Begin
    \/ Commit
    \/ Ask
    \/ AnswerPreflight
    \/ PassLayer
    \/ RefuseRequest
    \/ RedisAway
    \/ Select
    \/ DatabaseAway
    \/ RefuseBadRequest
    \/ AnswerNotFound
    \/ Answer
    \/ AskNextPage
    \/ TurnAway

Spec == Init /\ [][Next]_vars

-----------------------------------------------------------------------------
(***************************************************************************)
(* Properties.                                                             *)
(***************************************************************************)
\* The variables keep their types; a SELECT reads a version there is, and
\* the reads of one request never go back.
TypeOK ==
    /\ clock \in Nat
    /\ open \subseteq 1..clock
    /\ \A k \in DOMAIN versions : versions[k].completed \in 0..clock
    /\ depth \in 1..(Len(Stack) + 1)
    /\ request # None => Len(reads) <= Len(Todo)
    /\ \A k \in DOMAIN reads : reads[k] \in 1..Len(versions)
    /\ \A j, k \in DOMAIN reads : j <= k => reads[j] <= reads[k]
    /\ from \in 0..Len(versions)

\* meta.data_updated_at never dates an answer before the run whose data it
\* shows, although a run may commit between the SELECTs of the data and the
\* one of the date.
DatedNoEarlierThanData ==
    Answered /\ (\E k \in DOMAIN reads : Todo[k] = "dated") =>
        \A k \in DOMAIN reads :
            versions[reads[k]].completed <= versions[ReadBy("dated")].completed

\* The flaggers whose entry differs between two versions.
Changed(i, j) == {id \in Id : versions[i].mirror[id] # versions[j].mirror[id]}

Close(m, n, slack) == m <= n + slack /\ n <= m + slack

SumOf(f) == MapThenSumSet(LAMBDA c : f[c], DOMAIN f)

\* The counts of one answer come from SELECTs of their own.  They may
\* disagree, but by no more than the flaggers that changed in between, and
\* not at all where no run committed: every active flagger has one country
\* and one DSC country, and a page is as long as the total allows.
AnswersAddUp ==
    /\ Answered /\ request.endpoint = "stats" =>
        LET total   == Cardinality(Active(versions[ReadBy("total")]))
            slack(name) == Cardinality(Changed(ReadBy("total"), ReadBy(name)))
        IN  /\ Close(SumOf(ByCountry(versions[ReadBy("by_country")])), total,
                     slack("by_country"))
            /\ Close(SumOf(ByDsc(versions[ReadBy("by_dsc")])), total, slack("by_dsc"))
    /\ Answered /\ request.endpoint = "list" =>
        LET total == Cardinality(Found(versions[ReadBy("count")], request.arg))
            due   == Cardinality(((request.offset + 1)..total)
                         \intersect ((request.offset + 1)..(request.offset + PageSize)))
        IN  Close(page, due,
                  Cardinality(Changed(ReadBy("count"), ReadBy("page"))))

\* /v1/stats and the list agree: an area counts as many flaggers as the
\* filter on it finds.  A flagger that lists two labels of one area must not
\* be counted twice.
AreaCountsAgreeWithFilter ==
    \A q \in Query : \A a \in q.area :
        ByArea(Latest, a)
            = Cardinality(Found(Latest, [q EXCEPT !.status = "active", !.country = {},
                                                  !.dsc = None, !.after = None,
                                                  !.before = None, !.area = {a},
                                                  !.word = None]))

\* Who is found by an address is found by the domain of the address,
\* however the client spells either.
FoundByEmailFoundByDomain ==
    \A l \in Lookup :
        l.by = "email" /\ l.value.domain # Blank =>
            LookupRows(Latest, l)
                \subseteq LookupRows(Latest,
                    [by |-> "domain",
                     value |-> [word |-> l.value.domain, caps |-> l.value.caps]])

\* The walk of a client is complete.
Walked == Answered /\ page # None /\ ~LastPageFull

\* r was found by every version the walk may have read, under one name that
\* no other flagger had.
SteadilyFound(id) ==
    \A k \in from..Len(versions) :
        /\ id \in Found(versions[k], request.arg)
        /\ versions[k].mirror[id].content.name = versions[from].mirror[id].content.name
        /\ \A o \in Found(versions[k], request.arg) \ {id} :
               NameBefore(versions[k], o, id) \/ NameBefore(versions[k], id, o)

\* The flaggers listed before id.
Ahead(k, id) == {o \in Found(versions[k], request.arg) : NameBefore(versions[k], o, id)}

\* A walk through the list by OFFSET misses a flagger that was there all
\* along only if one ahead of it went away meanwhile, and shows it twice only
\* if one came.  Names are not unique: of flaggers that share one nothing is
\* promised.
ListWalkSlipsOnlyByChange ==
    Walked /\ request.endpoint = "list" =>
        \A id \in Id : SteadilyFound(id) =>
            /\ id \notin seen =>
                   \E j, k \in from..Len(versions) :
                       j < k /\ ~(Ahead(j, id) \subseteq Ahead(k, id))
            /\ id \in twice =>
                   \E j, k \in from..Len(versions) :
                       j < k /\ ~(Ahead(k, id) \subseteq Ahead(j, id))

\* Events only ever come in at the front of a feed that is read newest
\* first: a walk misses none of those its first page counted, whatever
\* commits meanwhile, but for events of one run, which share their time.
EventWalkMissesOnlyTies ==
    Walked /\ request.endpoint \in {"history", "changes"} =>
        \A e \in Subject(versions[from], request) \ seen :
            \E d \in Subject(versions[from], request) \ {e} :
                At(versions[from], d) = At(versions[from], e)

\* A client that polls /v1/changes since the newest occurred_at it has seen
\* is shown every event committed after its last poll, although occurred_at
\* is the start of the run's transaction and not its commit.
CursorPollMissesNothing ==
    \A i, j \in DOMAIN versions : i < j =>
        LET shown  == EventsOf(versions[i], Id)
            newest == Max({0} \union {At(versions[i], e) : e \in shown})
        IN  EventsOf(versions[j], Id) \ shown \subseteq Changes(versions[j], newest)

\* Every response but the bare 500 of an exception carries the source
\* headers and the CORS headers, a refusal of the limiter included; and a
\* preflight is answered without asking the limiter, whatever Redis does.
LabelledUnlessRaised ==
    response # None =>
        IF request.endpoint = "preflight"
        THEN response.status = 200 /\ "cors" \in response.labels
        ELSE response.status # 500 => {"source", "cors"} \subseteq response.labels
=============================================================================
