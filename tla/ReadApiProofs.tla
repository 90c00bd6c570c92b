---------------------------- MODULE ReadApiProofs ----------------------------
(***************************************************************************)
(* Proofs about ReadApi, for any listings, filters, page size and number   *)
(* of runs that commit beside a request: type correctness, the date and    *)
(* the labels of an answer, the poll by cursor, the look-up by address,    *)
(* the walk through a feed, the walk through the list, and the counts.     *)
(*                                                                         *)
(* Requests only read, so each proof has two halves: how one version of    *)
(* the database continues another (DbInv, HistoryInv), and what a request  *)
(* knows of the versions it has read (CallInv, WalkInv, ListInv,           *)
(* AnswerInv).  What a page holds and how long it is are facts about the   *)
(* database's ORDER BY, LIMIT and OFFSET alone (PageHolds, PageHasLength). *)
(***************************************************************************)
EXTENDS ReadApi, NormalizeProofs

\* The layers, from the outside.
LEMMA StackIs ==
    /\ Len(Stack) = 3
    /\ Stack[1] = "cors" /\ Stack[2] = "source" /\ Stack[3] = "rate_limit"
BY DEF Stack, Registered, Reverse

Name == {"count", "page", "rows", "row", "total", "by_country", "by_dsc", "by_area", "dated",
         "select_1"}

\* The SELECT of the date, if there is one, is the last.
DatedAtEnd(todo) ==
    /\ Len(todo) \in Nat
    /\ \A k \in 1 .. Len(todo) : todo[k] = "dated" => k = Len(todo)

LEMMA ThenDatedAtEnd ==
    ASSUME NEW data \in Seq(Name), \A k \in 1 .. Len(data) : data[k] # "dated"
    PROVE  DatedAtEnd(ThenDated(data))
<1>1. <<"dated">> \in Seq(Name) /\ Len(<<"dated">>) = 1
  BY DEF Name
<1>2. /\ ThenDated(data) \in Seq(Name) /\ Len(ThenDated(data)) = Len(data) + 1
      /\ \A k \in 1 .. Len(data) : ThenDated(data)[k] = data[k]
  BY <1>1, ConcatProperties DEF ThenDated
<1> QED
  BY <1>2 DEF DatedAtEnd

LEMMA DatedLast == \A e \in Endpoint : DatedAtEnd(Statements[e])
<1>1. DatedAtEnd(ListSelects)
  <2>1. <<"count", "page">> \in Seq(Name)
    BY DEF Name
  <2>2. \A k \in 1 .. Len(<<"count", "page">>) : <<"count", "page">>[k] # "dated"
    OBVIOUS
  <2> QED
    BY <2>1, <2>2, ThenDatedAtEnd DEF ListSelects
<1>2. DatedAtEnd(LookupSelects)
  <2>1. <<"rows">> \in Seq(Name)
    BY DEF Name
  <2>2. \A k \in 1 .. Len(<<"rows">>) : <<"rows">>[k] # "dated"
    OBVIOUS
  <2> QED
    BY <2>1, <2>2, ThenDatedAtEnd DEF LookupSelects
<1>3. DatedAtEnd(OneSelects)
  <2>1. <<"row">> \in Seq(Name)
    BY DEF Name
  <2>2. \A k \in 1 .. Len(<<"row">>) : <<"row">>[k] # "dated"
    OBVIOUS
  <2> QED
    BY <2>1, <2>2, ThenDatedAtEnd DEF OneSelects
<1>4. DatedAtEnd(StatsSelects)
  <2>1. <<"total", "by_country", "by_dsc", "by_area">> \in Seq(Name)
    BY DEF Name
  <2>2. \A k \in 1 .. Len(<<"total", "by_country", "by_dsc", "by_area">>) : <<"total", "by_country", "by_dsc", "by_area">>[k] # "dated"
    OBVIOUS
  <2> QED
    BY <2>1, <2>2, ThenDatedAtEnd DEF StatsSelects
<1>5. /\ DatedAtEnd(HistorySelects) /\ DatedAtEnd(ChangesSelects)
      /\ DatedAtEnd(FlaggersSelects) /\ DatedAtEnd(FreshnessSelects)
      /\ DatedAtEnd(HealthSelects) /\ DatedAtEnd(<<>>)
  BY DEF DatedAtEnd, HistorySelects, ChangesSelects, FlaggersSelects, FreshnessSelects,
         HealthSelects
<1> QED
  BY <1>1, <1>2, <1>3, <1>4, <1>5 DEF Endpoint, Statements

(***************************************************************************)
(* Type correctness                                                        *)
(***************************************************************************)
\* The row of a flagger, None where there is none.
Entry == {None} \union [content: Content, listed: BOOLEAN]

Event == [type: {"created", "removed", "restored", "updated"}, at: Nat]

Version == [mirror: [Id -> Entry], history: [Id -> Seq(Event)], completed: Nat]

DbInv ==
    /\ versions \in Seq(Version) /\ versions # <<>>
    /\ clock \in Nat
    /\ open \subseteq 1 .. clock
    /\ \A k \in 1 .. Len(versions) : versions[k].completed <= clock
    /\ \A i, j \in 1 .. Len(versions) :
           i <= j => versions[i].completed <= versions[j].completed

CallInv ==
    /\ depth \in 1 .. (Len(Stack) + 1)
    /\ request # None => request.endpoint \in Endpoint
    /\ request = None => reads = <<>> /\ response = None
    /\ request # None => Len(reads) <= Len(Todo)
    /\ reads \in Seq(1 .. Len(versions))
    /\ \A j, k \in 1 .. Len(reads) : j <= k => reads[j] <= reads[k]
    /\ from \in 0 .. Len(versions)

CallStep ==
    \/ Ask \/ AnswerPreflight \/ PassLayer \/ RefuseRequest \/ RedisAway \/ Select
    \/ DatabaseAway \/ RefuseBadRequest \/ AnswerNotFound \/ Answer \/ AskNextPage
    \/ TurnAway

\* A request reads the database and does not change it.
LEMMA CallsOnlyRead == CallStep => UNCHANGED dbVars
BY DEF CallStep, Ask, AnswerPreflight, PassLayer, RefuseRequest, RedisAway, Select,
       DatabaseAway, RefuseBadRequest, AnswerNotFound, Answer, AskNextPage, TurnAway,
       Send, Respond, Raise

\* A run turns the entries and histories of a version into those of another.
LEMMA EntryOfRun ==
    ASSUME NEW entry \in Entry, NEW l
    PROVE  /\ H!Mirrored(entry, l) \in Entry
           /\ entry # None => H!Mirrored(entry, l) # None
           /\ \A after \in Entry : H!ChangeType(entry, after) \in
                  {"created", "removed", "restored", "updated"}
<1>1. \A c \in Content, b \in BOOLEAN : [content |-> c, listed |-> b] # None
  BY ReadApiAssumption
<1>2. CASE l \in Content
  BY <1>1, <1>2 DEF H!Mirrored, H!ChangeType, Entry
<1>3. CASE l \notin Content
  BY <1>1, <1>3 DEF H!Mirrored, H!ChangeType, Entry
<1> QED
  BY <1>2, <1>3

LEMMA ReconciledType ==
    ASSUME NEW v \in Version, NEW p, NEW start \in Nat, NEW at \in Nat
    PROVE  /\ Reconciled(v, p, start, at) \in Version
           /\ Reconciled(v, p, start, at).completed = at
<1> DEFINE M == [id \in Id |-> H!Mirrored(v.mirror[id], Listed(p, id, None))]
           h == [id \in Id |->
                   IF M[id] = v.mirror[id] THEN v.history[id]
                   ELSE Append(v.history[id], [type |-> H!ChangeType(v.mirror[id], M[id]),
                                               at |-> start])]
<1>1. Reconciled(v, p, start, at) = [mirror |-> M, history |-> h, completed |-> at]
  BY DEF Reconciled
<1>2. \A id \in Id : v.mirror[id] \in Entry /\ v.history[id] \in Seq(Event)
  BY DEF Version
<1>3. ASSUME NEW id \in Id PROVE M[id] \in Entry
  BY <1>2, EntryOfRun
<1> HIDE DEF M
<1>4. M \in [Id -> Entry]
  BY <1>3 DEF M
<1>5. ASSUME NEW id \in Id PROVE h[id] \in Seq(Event)
  <2>1. [type |-> H!ChangeType(v.mirror[id], M[id]), at |-> start] \in Event
    BY <1>2, <1>3, EntryOfRun DEF Event
  <2> QED
    BY <1>2, <2>1
<1>6. h \in [Id -> Seq(Event)]
  BY <1>5
<1> HIDE DEF h
<1> QED
  BY <1>1, <1>4, <1>6 DEF Version

\* A version is dated.
LEMMA CompletedType ==
    ASSUME DbInv
    PROVE  \A k \in 1 .. Len(versions) : versions[k] \in Version /\ versions[k].completed \in Nat
<1>1. \A k \in 1 .. Len(versions) : versions[k] \in Version
  BY ElementOfSeq DEF DbInv
<1> QED
  BY <1>1 DEF Version

LEMMA InitDbInv == Init => DbInv
<1> SUFFICES ASSUME Init PROVE DbInv
  OBVIOUS
<1> DEFINE v == [mirror    |-> [id \in Id |-> None],
                 history   |-> [id \in Id |-> <<>>],
                 completed |-> 0]
<1>1. versions = <<v>> /\ clock = 0 /\ open = {}
  BY DEF Init
<1>2. v \in Version /\ v.completed = 0
  <2>1. [id \in Id |-> None] \in [Id -> Entry] /\ [id \in Id |-> <<>>] \in [Id -> Seq(Event)]
    BY DEF Entry
  <2> QED
    BY <2>1 DEF Version
<1> HIDE DEF v
<1> QED
  BY <1>1, <1>2 DEF DbInv

\* A run that commits makes a version that is later than all before it.
LEMMA CommitDbInv == DbInv /\ Commit => DbInv'
<1> SUFFICES ASSUME DbInv, Commit PROVE DbInv'
  OBVIOUS
<1>0. /\ versions \in Seq(Version) /\ Len(versions) \in Nat \ {0} /\ clock \in Nat
      /\ Latest \in Version
  BY DEF DbInv, Latest
<1>1. PICK start \in open, p \in Payload :
        /\ clock' = clock + 1 /\ open' = open \ {start}
        /\ versions' = Append(versions, Reconciled(Latest, p, start, clock + 1))
  BY DEF Commit
<1> DEFINE v == Reconciled(Latest, p, start, clock + 1)
<1>2. v \in Version /\ v.completed = clock + 1
  BY <1>0, <1>1, ReconciledType DEF DbInv
<1>3. versions' = Append(versions, v)
  BY <1>1
<1> HIDE DEF v
<1>4. /\ versions' \in Seq(Version) /\ versions' # <<>> /\ Len(versions') = Len(versions) + 1
      /\ versions'[Len(versions')] = v
      /\ \A k \in 1 .. Len(versions) : versions'[k] = versions[k]
  BY <1>0, <1>2, <1>3
<1>5. \A k \in 1 .. Len(versions') :
        \/ k \in 1 .. Len(versions) /\ versions'[k] = versions[k]
               /\ versions[k].completed <= clock /\ versions[k].completed \in Nat
        \/ k = Len(versions') /\ versions'[k].completed = clock + 1
  BY <1>0, <1>2, <1>4, CompletedType DEF DbInv
<1>6. \A k \in 1 .. Len(versions') : versions'[k].completed <= clock'
  BY <1>0, <1>1, <1>5
<1>7. ASSUME NEW i \in 1 .. Len(versions'), NEW j \in 1 .. Len(versions'), i <= j
      PROVE  versions'[i].completed <= versions'[j].completed
  <2>1. CASE j \in 1 .. Len(versions)
    <3>1. i \in 1 .. Len(versions)
      BY <1>0, <1>7, <2>1
    <3> QED
      BY <1>4, <1>7, <2>1, <3>1 DEF DbInv
  <2>2. CASE j = Len(versions')
    BY <1>0, <1>1, <1>2, <1>4, <1>6, <2>2
  <2> QED
    BY <1>0, <1>4, <2>1, <2>2
<1> QED
  BY <1>0, <1>1, <1>4, <1>6, <1>7 DEF DbInv

\* Every step keeps the versions in order.
LEMMA StepDbInv == DbInv /\ [Next]_vars => DbInv'
<1> SUFFICES ASSUME DbInv, [Next]_vars PROVE DbInv'
  OBVIOUS
<1>1. CASE Begin
  <2>1. \A k \in 1 .. Len(versions) : versions[k].completed <= clock + 1
    BY CompletedType DEF DbInv
  <2>2. /\ clock' = clock + 1 /\ open' = open \union {clock + 1} /\ versions' = versions
        /\ clock \in Nat /\ open \subseteq 1 .. clock
    BY <1>1 DEF Begin, DbInv
  <2>3. clock + 1 \in Nat /\ open' \subseteq 1 .. clock'
    <3>1. 1 .. clock \subseteq 1 .. clock + 1 /\ clock + 1 \in 1 .. clock + 1
      BY <2>2
    <3> QED
      BY <2>2, <3>1
  <2>4. /\ versions' \in Seq(Version) /\ versions' # <<>>
        /\ \A k \in 1 .. Len(versions') : versions'[k].completed <= clock'
        /\ \A i, j \in 1 .. Len(versions') :
               i <= j => versions'[i].completed <= versions'[j].completed
    BY <2>1, <2>2 DEF DbInv
  <2> QED
    BY <2>2, <2>3, <2>4 DEF DbInv
<1>2. CASE Commit
  BY <1>2, CommitDbInv
<1>3. CASE UNCHANGED dbVars
  BY <1>3 DEF dbVars, DbInv
<1>4. CASE UNCHANGED vars
  BY <1>4 DEF vars, DbInv
<1> QED
  BY <1>1, <1>2, <1>3, <1>4, CallsOnlyRead DEF Next, CallStep

LEMMA InitCallInv == Init => CallInv
<1> SUFFICES ASSUME Init PROVE CallInv
  OBVIOUS
<1>1. versions # <<>> /\ Len(versions) = 1
  BY DEF Init
<1> QED
  BY <1>1, StackIs DEF Init, CallInv

\* A SELECT reads the latest version, and one of the statements is done.
LEMMA SelectCallInv == DbInv /\ CallInv /\ Select => CallInv'
<1> SUFFICES ASSUME DbInv, CallInv, Select PROVE CallInv'
  OBVIOUS
<1>1. /\ Len(versions) \in Nat \ {0}
      /\ reads \in Seq(1 .. Len(versions)) /\ request # None
      /\ Len(reads) < Len(Todo) /\ DatedAtEnd(Todo)
      /\ reads' = Append(reads, Len(versions))
      /\ from' \in {from, Len(versions)} /\ response' = response
      /\ versions' = versions /\ request' = request /\ depth' = depth
  BY DatedLast DEF Select, Snapshot, AtHandler, DbInv, CallInv, Todo, dbVars
<1>2. Len(reads) \in Nat /\ Len(Todo) \in Nat
  BY <1>1 DEF DatedAtEnd
<1>3. /\ reads' \in Seq(1 .. Len(versions)) /\ Len(reads') = Len(reads) + 1
      /\ reads'[Len(reads')] = Len(versions)
      /\ \A k \in 1 .. Len(reads) : reads'[k] = reads[k]
  BY <1>1, <1>2
<1>4. ASSUME NEW j \in 1 .. Len(reads'), NEW k \in 1 .. Len(reads'), j <= k
      PROVE  reads'[j] <= reads'[k]
  <2>1. CASE k \in 1 .. Len(reads)
    <3>1. j \in 1 .. Len(reads)
      BY <1>2, <1>4, <2>1
    <3> QED
      BY <1>3, <1>4, <2>1, <3>1 DEF CallInv
  <2>2. CASE k = Len(reads')
    <3>1. reads'[j] \in 1 .. Len(versions)
      BY <1>3
    <3> QED
      BY <1>1, <1>3, <2>2, <3>1
  <2> QED
    BY <1>2, <1>3, <2>1, <2>2
<1>5. Todo' = Todo
  BY <1>1 DEF Todo
<1>6. from' \in 0 .. Len(versions)
  BY <1>1 DEF CallInv
<1> QED
  BY <1>1, <1>2, <1>3, <1>4, <1>5, <1>6 DEF CallInv

\* Every step keeps the reads of a request in order.
LEMMA StepCallInv == DbInv /\ CallInv /\ [Next]_vars => CallInv'
<1> SUFFICES ASSUME DbInv, CallInv, [Next]_vars PROVE CallInv'
  OBVIOUS
<1>0. Len(versions) \in Nat \ {0} /\ reads \in Seq(1 .. Len(versions)) /\ Len(Stack) = 3
  BY StackIs DEF DbInv, CallInv
<1>1. CASE Commit
  <2>1. UNCHANGED callVars /\ Len(versions') = Len(versions) + 1
    BY <1>1, <1>0 DEF Commit, DbInv
  <2>2. reads \in Seq(1 .. Len(versions'))
    BY <1>0, <2>1
  <2>3. Todo' = Todo
    BY <2>1 DEF Todo, callVars
  <2> QED
    BY <1>0, <2>1, <2>2, <2>3 DEF CallInv, callVars
<1>2. CASE Select
  BY <1>2, SelectCallInv
<1>3. CASE \E e \in Endpoint : \E arg, offset : Send(e, arg, offset) /\ from' \in {0, from}
  <2>1. PICK e \in Endpoint : /\ request'.endpoint = e /\ depth' = 1 /\ reads' = <<>>
                              /\ versions' = versions /\ from' \in {0, from} /\ response' = None
    BY <1>3 DEF Send, dbVars
  <2>2. Len(Todo') \in Nat
    BY <2>1, DatedLast DEF Todo, DatedAtEnd
  <2> QED
    BY <1>0, <2>1, <2>2 DEF CallInv
<1>4. CASE TurnAway
  <2>1. request' = None /\ depth' = 1 /\ reads' = <<>> /\ from' = 0 /\ versions' = versions
        /\ response' = None
    BY <1>4 DEF TurnAway, NothingShown, dbVars
  <2> QED
    BY <1>0, <2>1 DEF CallInv
<1>5. CASE PassLayer
  <2>1. /\ depth' = depth + 1 /\ depth <= Len(Stack) /\ request' = request /\ reads' = reads
        /\ from' = from /\ versions' = versions /\ response' = response
    BY <1>5 DEF PassLayer, PassCors, AtLayer, dbVars, walkVars
  <2>2. Todo' = Todo
    BY <2>1 DEF Todo
  <2> QED
    BY <1>0, <2>1, <2>2 DEF CallInv
<1>6. CASE /\ UNCHANGED <<versions, request, depth, reads, from>>
           /\ (request = None => response' = response)
  <2>1. Todo' = Todo
    BY <1>6 DEF Todo
  <2> QED
    BY <1>6, <2>1 DEF CallInv
<1>7. \/ AnswerPreflight \/ RefuseRequest \/ RedisAway \/ DatabaseAway \/ RefuseBadRequest
      \/ AnswerNotFound \/ Answer \/ Begin \/ UNCHANGED vars
      => /\ UNCHANGED <<versions, request, depth, reads, from>>
         /\ (request = None => response' = response)
  BY DEF AnswerPreflight, RefuseRequest, RedisAway, DatabaseAway, RefuseBadRequest,
         AnswerNotFound, Answer, Begin, Respond, Raise, AtLayer, AtHandler, dbVars, walkVars,
         callVars, vars
<1>8. Ask => \E e \in Endpoint : \E arg, offset : Send(e, arg, offset) /\ from' \in {0, from}
  BY DEF Ask, NothingShown
<1>9. AskNextPage =>
        \E e \in Endpoint : \E arg, offset : Send(e, arg, offset) /\ from' \in {0, from}
  <2> SUFFICES ASSUME AskNextPage
               PROVE  \E e \in Endpoint : \E arg, offset :
                          Send(e, arg, offset) /\ from' \in {0, from}
    OBVIOUS
  <2>1. request # None
    BY DEF AskNextPage, Answered, CallInv
  <2> QED
    BY <2>1 DEF AskNextPage, CallInv, walkVars
<1> QED
  BY <1>1, <1>2, <1>3, <1>4, <1>5, <1>6, <1>7, <1>8, <1>9 DEF Next

\* The state of the API is well typed: a request's SELECTs read versions there
\* are, and never an earlier one than the SELECT before.
THEOREM SpecTypeOK == Spec => []TypeOK
<1>1. DbInv /\ CallInv => TypeOK
  <2> SUFFICES ASSUME DbInv, CallInv PROVE TypeOK
    OBVIOUS
  <2>1. DOMAIN versions = 1 .. Len(versions) /\ DOMAIN reads = 1 .. Len(reads)
    BY DEF DbInv, CallInv
  <2>2. \A k \in DOMAIN versions : versions[k].completed \in 0 .. clock
    BY <2>1, CompletedType DEF DbInv
  <2>3. \A k \in DOMAIN reads : reads[k] \in 1 .. Len(versions)
    BY <2>1, ElementOfSeq DEF CallInv
  <2> QED
    BY <2>1, <2>2, <2>3 DEF DbInv, CallInv, TypeOK
<1> QED
  BY <1>1, InitDbInv, StepDbInv, InitCallInv, StepCallInv, PTL DEF Spec

(***************************************************************************)
(* The date of an answer                                                   *)
(***************************************************************************)
\* meta.data_updated_at never dates an answer before the run whose data it
\* shows, whatever runs commit between the SELECTs of the answer: the date is
\* read last, and versions and reads only go forward.
THEOREM SpecDatedNoEarlierThanData == Spec => []DatedNoEarlierThanData
<1>1. DbInv /\ CallInv => DatedNoEarlierThanData
  <2> SUFFICES ASSUME DbInv, CallInv,
                      NEW d \in DOMAIN reads, Todo[d] = "dated", NEW k \in DOMAIN reads
               PROVE  versions[reads[k]].completed <= versions[ReadBy("dated")].completed
    BY DEF DatedNoEarlierThanData
  <2>1. /\ reads \in Seq(1 .. Len(versions)) /\ Len(reads) \in Nat /\ Len(versions) \in Nat
        /\ DOMAIN reads = 1 .. Len(reads)
    BY DEF CallInv, DbInv
  <2>2. request # None /\ Len(reads) <= Len(Todo)
    BY <2>1 DEF CallInv
  <2>3. DatedAtEnd(Todo)
    BY <2>2, DatedLast DEF CallInv, Todo
  <2>4. \A i \in DOMAIN reads : Todo[i] = "dated" => i = Len(reads)
    BY <2>1, <2>2, <2>3 DEF DatedAtEnd
  <2>5. ReadBy("dated") = reads[Len(reads)] /\ Len(reads) \in DOMAIN reads
    BY <2>4 DEF ReadBy
  <2>6. reads[k] <= reads[Len(reads)] /\ k <= Len(reads)
    BY <2>1, <2>5 DEF CallInv
  <2>7. reads[k] \in 1 .. Len(versions) /\ reads[Len(reads)] \in 1 .. Len(versions)
    BY <2>1, <2>5, ElementOfSeq
  <2> QED
    BY <2>5, <2>6, <2>7 DEF DbInv
<1> QED
  BY <1>1, InitDbInv, StepDbInv, InitCallInv, StepCallInv, PTL DEF Spec

(***************************************************************************)
(* The headers of a response                                               *)
(***************************************************************************)
\* A preflight does not pass the first layer; what leaves through a layer is
\* labelled by it.
LabelInv ==
    /\ request # None /\ request.endpoint = "preflight" => depth = 1
    /\ LabelledUnlessRaised

LEMMA StepLabelInv == DbInv /\ CallInv /\ LabelInv /\ [Next]_vars => LabelInv'
<1> SUFFICES ASSUME CallInv, LabelInv, [Next]_vars PROVE LabelInv'
  OBVIOUS
<1>0. depth \in 1 .. 4
  BY StackIs DEF CallInv
<1>1. CASE response' = None /\ depth' = 1
  BY <1>1 DEF LabelInv, LabelledUnlessRaised
<1>2. CASE UNCHANGED <<request, depth, response>>
  BY <1>2 DEF LabelInv, LabelledUnlessRaised
<1>3. CASE PassLayer
  <2>1. response' = None /\ request' = request /\ depth' = depth + 1
    BY <1>3 DEF PassLayer, PassCors, AtLayer, walkVars
  <2>2. request.endpoint = "preflight" => depth # 1
    BY <1>3, StackIs DEF PassLayer, PassCors, AtLayer
  <2> QED
    BY <2>1, <2>2 DEF LabelInv, LabelledUnlessRaised
<1>4. CASE AnswerPreflight
  <2>1. /\ request' = request /\ depth' = depth /\ request.endpoint = "preflight" /\ request # None
        /\ response' = [status |-> 200, labels |-> {Stack[k] : k \in 1 .. depth}]
    BY <1>4 DEF AnswerPreflight, AtLayer
  <2>2. depth = 1
    BY <2>1 DEF LabelInv
  <2>3. "cors" \in {Stack[k] : k \in 1 .. depth}
    BY <2>2, StackIs
  <2> QED
    BY <2>1, <2>2, <2>3 DEF LabelInv, LabelledUnlessRaised
<1>5. ASSUME NEW status, Respond(status), depth \in 3 .. 4, request # None PROVE LabelInv'
  <2>1. /\ request' = request /\ depth' = depth
        /\ response' = [status |-> status, labels |-> {Stack[k] : k \in 1 .. (depth - 1)}]
    BY <1>5 DEF Respond
  <2>2. "cors" \in response'.labels /\ "source" \in response'.labels
    <3>1. 1 \in 1 .. (depth - 1) /\ 2 \in 1 .. (depth - 1)
      BY <1>5
    <3> QED
      BY <2>1, <3>1, StackIs
  <2> QED
    BY <1>5, <2>1, <2>2 DEF LabelInv, LabelledUnlessRaised
<1>6. CASE Raise /\ depth \in 3 .. 4 /\ request # None
  BY <1>6 DEF Raise, LabelInv, LabelledUnlessRaised
<1>7. AtLayer("rate_limit") \/ AtHandler => depth \in 3 .. 4 /\ request # None
  BY <1>0, StackIs DEF AtLayer, AtHandler
<1>8. CASE RefuseRequest
  BY <1>5, <1>7, <1>8 DEF RefuseRequest
<1>9. CASE RedisAway
  BY <1>6, <1>7, <1>9 DEF RedisAway
<1>10. CASE DatabaseAway \/ RefuseBadRequest \/ AnswerNotFound \/ Answer
  BY <1>5, <1>6, <1>7, <1>10 DEF DatabaseAway, RefuseBadRequest, AnswerNotFound, Answer
<1> QED
  BY <1>1, <1>2, <1>3, <1>4, <1>8, <1>9, <1>10
  DEF Next, Begin, Commit, Select, Ask, AskNextPage, TurnAway, Send, callVars, vars

\* Every response but the bare 500 of an exception carries the source headers
\* and the CORS headers, a refusal of the limiter included; and a preflight is
\* answered without asking the limiter.
THEOREM SpecLabelledUnlessRaised == Spec => []LabelledUnlessRaised
<1>1. Init => LabelInv
  BY DEF Init, LabelInv, LabelledUnlessRaised
<1>2. LabelInv => LabelledUnlessRaised
  BY DEF LabelInv
<1> QED
  BY <1>1, <1>2, InitDbInv, StepDbInv, InitCallInv, StepCallInv, StepLabelInv, PTL DEF Spec

(***************************************************************************)
(* The poll by cursor                                                      *)
(***************************************************************************)
\* Every event of version v is earlier than t.
EventsBefore(v, t) ==
    \A id \in Id : \A n \in 1 .. Len(v.history[id]) : v.history[id][n].at < t

KnownByEvents(v) == \A id \in Id : v.history[id] # <<>> => v.mirror[id] # None

\* The histories of w are those of v and events that are later than all of v.
Continues(v, w) ==
    \A id \in Id :
        /\ Len(v.history[id]) <= Len(w.history[id])
        /\ \A n \in 1 .. Len(v.history[id]) : w.history[id][n] = v.history[id][n]
        /\ \A n \in Len(v.history[id]) + 1 .. Len(w.history[id]) :
               EventsBefore(v, w.history[id][n].at)

\* Runs do not overlap, so the start of the one that is open is later than
\* every event of the database.
HistoryInv ==
    /\ \A s, t \in open : s = t
    /\ \A k \in 1 .. Len(versions) :
           /\ KnownByEvents(versions[k])
           /\ EventsBefore(versions[k], clock + 1)
           /\ \A s \in open : EventsBefore(versions[k], s)
    /\ \A i, j \in 1 .. Len(versions) : i <= j => Continues(versions[i], versions[j])

\* A run adds at most an event to a history, of the time of its start.
ExtendedAt(v, w, start) ==
    \A id \in Id :
        \/ w.history[id] = v.history[id]
        \/ \E e \in Event : e.at = start /\ w.history[id] = Append(v.history[id], e)

LEMMA ReconciledHistory ==
    ASSUME NEW v \in Version, NEW p, NEW start \in Nat, NEW at \in Nat, KnownByEvents(v)
    PROVE  /\ ExtendedAt(v, Reconciled(v, p, start, at), start)
           /\ KnownByEvents(Reconciled(v, p, start, at))
<1> DEFINE M == [id \in Id |-> H!Mirrored(v.mirror[id], Listed(p, id, None))]
           h == [id \in Id |->
                   IF M[id] = v.mirror[id] THEN v.history[id]
                   ELSE Append(v.history[id], [type |-> H!ChangeType(v.mirror[id], M[id]),
                                               at |-> start])]
           w == Reconciled(v, p, start, at)
<1>1. w = [mirror |-> M, history |-> h, completed |-> at]
  BY DEF Reconciled
<1>2. \A id \in Id : v.mirror[id] \in Entry /\ v.history[id] \in Seq(Event)
  BY DEF Version
<1>3. \A id \in Id : M[id] \in Entry /\ (v.mirror[id] # None => M[id] # None)
  BY <1>2, EntryOfRun
<1> HIDE DEF M
<1>4. ASSUME NEW id \in Id
      PROVE  \/ w.history[id] = v.history[id] /\ M[id] = v.mirror[id]
             \/ /\ M[id] # v.mirror[id]
                /\ \E e \in Event : e.at = start /\ w.history[id] = Append(v.history[id], e)
  <2> DEFINE e == [type |-> H!ChangeType(v.mirror[id], M[id]), at |-> start]
  <2>1. e \in Event /\ e.at = start
    BY <1>2, <1>3, EntryOfRun DEF Event
  <2>2. w.history[id] = IF M[id] = v.mirror[id] THEN v.history[id] ELSE Append(v.history[id], e)
    BY <1>1
  <2> QED
    BY <2>1, <2>2
<1>5. ExtendedAt(v, w, start)
  BY <1>4 DEF ExtendedAt
<1>6. ASSUME NEW id \in Id, w.history[id] # <<>> PROVE M[id] # None
  BY <1>3, <1>4, <1>6 DEF KnownByEvents
<1>7. w.mirror = M
  BY <1>1
<1> HIDE DEF w
<1>8. KnownByEvents(w)
  BY <1>6, <1>7 DEF KnownByEvents
<1> QED
  BY <1>5, <1>8 DEF w

\* What continues a version, and is earlier than a run, does so after it.
LEMMA ContinuesExtended ==
    ASSUME NEW u \in Version, NEW v \in Version, NEW w \in Version, NEW start \in Nat,
           Continues(u, v), EventsBefore(u, start), ExtendedAt(v, w, start)
    PROVE  Continues(u, w)
<1> SUFFICES ASSUME NEW id \in Id
             PROVE  /\ Len(u.history[id]) <= Len(w.history[id])
                    /\ \A n \in 1 .. Len(u.history[id]) : w.history[id][n] = u.history[id][n]
                    /\ \A n \in Len(u.history[id]) + 1 .. Len(w.history[id]) :
                           EventsBefore(u, w.history[id][n].at)
  BY DEF Continues
<1>1. u.history[id] \in Seq(Event) /\ v.history[id] \in Seq(Event)
  BY DEF Version
<1>2. /\ Len(u.history[id]) <= Len(v.history[id])
      /\ \A n \in 1 .. Len(u.history[id]) : v.history[id][n] = u.history[id][n]
      /\ \A n \in Len(u.history[id]) + 1 .. Len(v.history[id]) :
             EventsBefore(u, v.history[id][n].at)
  BY DEF Continues
<1>3. CASE w.history[id] = v.history[id]
  BY <1>2, <1>3
<1>4. ASSUME NEW e \in Event, e.at = start, w.history[id] = Append(v.history[id], e)
      PROVE  /\ Len(u.history[id]) <= Len(w.history[id])
             /\ \A n \in 1 .. Len(u.history[id]) : w.history[id][n] = u.history[id][n]
             /\ \A n \in Len(u.history[id]) + 1 .. Len(w.history[id]) :
                    EventsBefore(u, w.history[id][n].at)
  <2>1. /\ Len(w.history[id]) = Len(v.history[id]) + 1
        /\ \A n \in 1 .. Len(v.history[id]) : w.history[id][n] = v.history[id][n]
        /\ w.history[id][Len(v.history[id]) + 1] = e
        /\ Len(v.history[id]) \in Nat /\ Len(u.history[id]) \in Nat
    BY <1>1, <1>4
  <2>2. Len(u.history[id]) <= Len(w.history[id])
    BY <1>2, <2>1
  <2>3. \A n \in 1 .. Len(u.history[id]) : w.history[id][n] = u.history[id][n]
    BY <1>2, <2>1
  <2>4. ASSUME NEW n \in Len(u.history[id]) + 1 .. Len(w.history[id])
        PROVE  EventsBefore(u, w.history[id][n].at)
    <3>1. CASE n = Len(v.history[id]) + 1
      BY <1>4, <2>1, <3>1
    <3>2. CASE n # Len(v.history[id]) + 1
      <4>1. n \in Len(u.history[id]) + 1 .. Len(v.history[id]) /\ n \in 1 .. Len(v.history[id])
        BY <2>1, <3>2
      <4> QED
        BY <1>2, <2>1, <4>1
    <3> QED
      BY <3>1, <3>2
  <2> QED
    BY <2>2, <2>3, <2>4
<1> QED
  BY <1>3, <1>4 DEF ExtendedAt

\* The events of a version with a run are earlier than what is later than both.
LEMMA EventsBeforeExtended ==
    ASSUME NEW v \in Version, NEW w \in Version, NEW start \in Nat, NEW t \in Nat,
           EventsBefore(v, t), start < t, ExtendedAt(v, w, start)
    PROVE  EventsBefore(w, t)
<1> SUFFICES ASSUME NEW id \in Id, NEW n \in 1 .. Len(w.history[id])
             PROVE  w.history[id][n].at < t
  BY DEF EventsBefore
<1>1. v.history[id] \in Seq(Event)
  BY DEF Version
<1>2. CASE w.history[id] = v.history[id]
  BY <1>2 DEF EventsBefore
<1>3. ASSUME NEW e \in Event, e.at = start, w.history[id] = Append(v.history[id], e)
      PROVE  w.history[id][n].at < t
  <2>1. n \in 1 .. Len(v.history[id]) \/ n = Len(v.history[id]) + 1
    BY <1>1, <1>3
  <2> QED
    BY <1>1, <1>3, <2>1 DEF EventsBefore
<1> QED
  BY <1>2, <1>3 DEF ExtendedAt

LEMMA EventsBeforeLater ==
    ASSUME NEW v \in Version, NEW t \in Nat, NEW u \in Nat, t <= u, EventsBefore(v, t)
    PROVE  EventsBefore(v, u)
<1> SUFFICES ASSUME NEW id \in Id, NEW n \in 1 .. Len(v.history[id])
             PROVE  v.history[id][n].at < u
  BY DEF EventsBefore
<1>1. v.history[id][n] \in Event
  BY ElementOfSeq DEF Version
<1>2. v.history[id][n].at \in Nat
  BY <1>1 DEF Event
<1> QED
  BY <1>2 DEF EventsBefore

LEMMA InitHistoryInv == Init => HistoryInv
<1> SUFFICES ASSUME Init PROVE HistoryInv
  OBVIOUS
<1> DEFINE v == [mirror    |-> [id \in Id |-> None],
                 history   |-> [id \in Id |-> <<>>],
                 completed |-> 0]
<1>1. versions = <<v>> /\ clock = 0 /\ open = {}
  BY DEF Init
<1>2. \A id \in Id : v.history[id] = <<>>
  OBVIOUS
<1> HIDE DEF v
<1>3. KnownByEvents(v) /\ EventsBefore(v, clock + 1) /\ Continues(v, v)
  BY <1>2 DEF KnownByEvents, EventsBefore, Continues
<1> QED
  BY <1>1, <1>3 DEF HistoryInv

\* A run that begins starts after all that there is.
LEMMA BeginHistoryInv == DbInv /\ HistoryInv /\ Begin => HistoryInv'
<1> SUFFICES ASSUME DbInv, HistoryInv, Begin PROVE HistoryInv'
  OBVIOUS
<1>1. /\ open = {} /\ open' = {clock + 1} /\ clock' = clock + 1 /\ versions' = versions
      /\ clock \in Nat
  BY DEF Begin, MayBegin, DbInv
<1>2. ASSUME NEW k \in 1 .. Len(versions) PROVE EventsBefore(versions[k], clock' + 1)
  <2>1. versions[k] \in Version
    BY CompletedType
  <2> QED
    BY <1>1, <2>1, EventsBeforeLater DEF HistoryInv
<1>3. \A k \in 1 .. Len(versions) : KnownByEvents(versions[k]) /\ EventsBefore(versions[k], clock + 1)
  BY DEF HistoryInv
<1>4. \A i, j \in 1 .. Len(versions) : i <= j => Continues(versions[i], versions[j])
  BY DEF HistoryInv
<1>5. \A s, t \in open' : s = t
  BY <1>1
<1>6. \A k \in 1 .. Len(versions) : \A s \in open' : EventsBefore(versions[k], s)
  BY <1>1, <1>3
<1> HIDE DEF Begin
<1> QED
  BY <1>1, <1>2, <1>3, <1>4, <1>5, <1>6
  DEF HistoryInv, KnownByEvents, EventsBefore, Continues

\* A run that commits adds the latest events.
LEMMA CommitHistoryInv == DbInv /\ HistoryInv /\ Commit => HistoryInv'
<1> SUFFICES ASSUME DbInv, HistoryInv, Commit PROVE HistoryInv'
  OBVIOUS
<1>0. /\ versions \in Seq(Version) /\ Len(versions) \in Nat \ {0} /\ clock \in Nat
      /\ Latest = versions[Len(versions)] /\ Latest \in Version
  BY DEF DbInv, Latest
<1>1. PICK start \in open, p \in Payload :
        /\ clock' = clock + 1 /\ open' = open \ {start}
        /\ versions' = Append(versions, Reconciled(Latest, p, start, clock + 1))
  BY DEF Commit
<1>2. open' = {} /\ start \in Nat /\ start < clock' + 1 /\ clock' + 1 \in Nat
  BY <1>0, <1>1 DEF HistoryInv, DbInv
<1> DEFINE w == Reconciled(Latest, p, start, clock + 1)
<1>3. w \in Version
  BY <1>0, <1>2, ReconciledType
<1>4. ExtendedAt(Latest, w, start) /\ KnownByEvents(w)
  BY <1>0, <1>2, ReconciledHistory DEF HistoryInv
<1>5. versions' = Append(versions, w)
  BY <1>1
<1> HIDE DEF w
<1>6. ASSUME NEW k \in 1 .. Len(versions)
      PROVE  /\ versions[k] \in Version /\ KnownByEvents(versions[k])
             /\ EventsBefore(versions[k], clock' + 1) /\ Continues(versions[k], w)
  <2>1. versions[k] \in Version /\ EventsBefore(versions[k], clock + 1)
    BY CompletedType DEF HistoryInv
  <2>2. EventsBefore(versions[k], clock' + 1)
    BY <1>0, <1>1, <2>1, EventsBeforeLater
  <2>3. Continues(versions[k], Latest) /\ EventsBefore(versions[k], start)
    BY <1>0, <1>1 DEF HistoryInv
  <2>4. Continues(versions[k], w)
    BY <1>0, <1>2, <1>3, <1>4, <2>1, <2>3, ContinuesExtended
  <2> QED
    BY <2>1, <2>2, <2>4 DEF HistoryInv
<1>7. EventsBefore(w, clock' + 1)
  <2>1. EventsBefore(Latest, clock' + 1)
    BY <1>0, <1>6
  <2> QED
    BY <1>0, <1>2, <1>3, <1>4, <2>1, EventsBeforeExtended
<1>8. Continues(w, w)
  <2>1. \A id \in Id : w.history[id] \in Seq(Event)
    BY <1>3 DEF Version
  <2> QED
    BY <2>1 DEF Continues
<1>9. /\ Len(versions') = Len(versions) + 1 /\ versions'[Len(versions')] = w
      /\ \A k \in 1 .. Len(versions) : versions'[k] = versions[k]
  BY <1>0, <1>3, <1>5
<1>10. ASSUME NEW k \in 1 .. Len(versions')
       PROVE  KnownByEvents(versions'[k]) /\ EventsBefore(versions'[k], clock' + 1)
  <2>1. k \in 1 .. Len(versions) \/ k = Len(versions')
    BY <1>0, <1>9
  <2> QED
    BY <1>4, <1>6, <1>7, <1>9, <2>1
<1>11. ASSUME NEW i \in 1 .. Len(versions'), NEW j \in 1 .. Len(versions'), i <= j
       PROVE  Continues(versions'[i], versions'[j])
  <2>1. CASE j \in 1 .. Len(versions)
    <3>1. i \in 1 .. Len(versions)
      BY <1>0, <1>11, <2>1
    <3> QED
      BY <1>9, <1>11, <2>1, <3>1 DEF HistoryInv
  <2>2. CASE j \notin 1 .. Len(versions)
    <3>1. j = Len(versions') /\ (i \in 1 .. Len(versions) \/ i = Len(versions'))
      BY <1>0, <1>9, <2>2
    <3> QED
      BY <1>6, <1>8, <1>9, <3>1
  <2> QED
    BY <2>1, <2>2
<1> QED
  BY <1>2, <1>10, <1>11 DEF HistoryInv, KnownByEvents, EventsBefore, Continues

LEMMA StepHistoryInv == DbInv /\ HistoryInv /\ [Next]_vars => HistoryInv'
<1> SUFFICES ASSUME DbInv, HistoryInv, [Next]_vars PROVE HistoryInv'
  OBVIOUS
<1>1. CASE UNCHANGED dbVars
  BY <1>1 DEF dbVars, HistoryInv, KnownByEvents, EventsBefore, Continues
<1>2. CASE UNCHANGED vars
  BY <1>1, <1>2 DEF vars, dbVars
<1> QED
  BY <1>1, <1>2, BeginHistoryInv, CommitHistoryInv, CallsOnlyRead DEF Next, CallStep

\* A client that polls /v1/changes since the newest occurred_at it has seen is
\* shown every event committed after its last poll, however many runs commit
\* between two polls, although occurred_at is the start of the run's
\* transaction: runs do not overlap.
THEOREM SpecCursorPollMissesNothing == Spec => []CursorPollMissesNothing
<1>1. DbInv /\ HistoryInv => CursorPollMissesNothing
  <2> SUFFICES ASSUME DbInv, HistoryInv,
                      NEW i \in DOMAIN versions, NEW j \in DOMAIN versions, i < j,
                      NEW e \in EventsOf(versions[j], Id) \ EventsOf(versions[i], Id)
               PROVE  e \in Changes(versions[j],
                                    Max({0} \union {At(versions[i], d) :
                                                        d \in EventsOf(versions[i], Id)}))
    BY DEF CursorPollMissesNothing
  <2> DEFINE S == {0} \union {At(versions[i], d) : d \in EventsOf(versions[i], Id)}
  <2>0. /\ i \in 1 .. Len(versions) /\ j \in 1 .. Len(versions)
        /\ versions[i] \in Version /\ versions[j] \in Version
        /\ Continues(versions[i], versions[j]) /\ KnownByEvents(versions[j])
        /\ clock \in Nat
    <3>1. DOMAIN versions = 1 .. Len(versions) /\ Len(versions) \in Nat
      BY DEF DbInv
    <3> QED
      BY <3>1, CompletedType DEF HistoryInv, DbInv
  <2>1. \A id \in Id : /\ versions[i].history[id] \in Seq(Event)
                       /\ versions[j].history[id] \in Seq(Event)
    BY <2>0 DEF Version
  <2>2. PICK id \in Id : \E n \in 1 .. Len(versions[j].history[id]) : e = <<id, n>>
    BY <2>1 DEF EventsOf
  <2>3. PICK n \in 1 .. Len(versions[j].history[id]) : e = <<id, n>>
    BY <2>2
  <2>4. n \notin 1 .. Len(versions[i].history[id])
    BY <2>1, <2>3 DEF EventsOf
  <2>5. n \in Len(versions[i].history[id]) + 1 .. Len(versions[j].history[id])
    BY <2>1, <2>3, <2>4
  <2>6. EventsBefore(versions[i], At(versions[j], e))
    BY <2>0, <2>3, <2>5 DEF Continues, At
  <2>7. At(versions[j], e) \in Nat
    <3>1. versions[j].history[id][n] \in Event
      BY <2>1, <2>3, ElementOfSeq
    <3> QED
      BY <2>3, <3>1 DEF At, Event
  <2>8. \A d \in EventsOf(versions[i], Id) :
          At(versions[i], d) \in 0 .. clock /\ At(versions[i], d) <= At(versions[j], e)
    <3> TAKE d \in EventsOf(versions[i], Id)
    <3>1. PICK o \in Id : \E m \in 1 .. Len(versions[i].history[o]) : d = <<o, m>>
      BY <2>1 DEF EventsOf
    <3>2. PICK m \in 1 .. Len(versions[i].history[o]) : d = <<o, m>>
      BY <3>1
    <3>3. At(versions[i], d) = versions[i].history[o][m].at
      BY <3>2 DEF At
    <3>4. versions[i].history[o][m] \in Event
      BY <2>1, <3>2, ElementOfSeq
    <3>5. versions[i].history[o][m].at \in Nat
      BY <3>4 DEF Event
    <3>6. versions[i].history[o][m].at < clock + 1
      BY <2>0, <3>2 DEF HistoryInv, EventsBefore
    <3>7. versions[i].history[o][m].at < At(versions[j], e)
      BY <2>6, <3>2 DEF EventsBefore
    <3> QED
      BY <2>0, <2>7, <3>3, <3>5, <3>6, <3>7
  <2>9. S \in SUBSET (0 .. clock) /\ S # {}
    BY <2>0, <2>8
  <2>10. Max(S) \in S
    BY <2>0, <2>9, MaxIsElement
  <2>11. Max(S) <= At(versions[j], e)
    BY <2>7, <2>8, <2>10
  <2>12. id \in Known(versions[j])
    BY <2>0, <2>1, <2>3 DEF KnownByEvents, Known
  <2>13. e \in EventsOf(versions[j], Known(versions[j]))
    BY <2>1, <2>3, <2>12 DEF EventsOf
  <2>14. Max(S) \in Nat
    BY <2>0, <2>9, <2>10
  <2> HIDE DEF S
  <2>15. e \in Changes(versions[j], Max(S))
    BY <2>7, <2>11, <2>13, <2>14 DEF Changes
  <2> QED
    BY <2>15 DEF S
<1> QED
  BY <1>1, InitDbInv, StepDbInv, InitHistoryInv, StepHistoryInv, PTL DEF Spec


-----------------------------------------------------------------------------
(***************************************************************************)
(* The look-up.                                                            *)
(***************************************************************************)
LEMMA LowerText ==
    ASSUME NEW word, NEW caps, NEW text, text = [word |-> word, caps |-> caps], text # Blank
    PROVE  Lower(text) = [word |-> word, caps |-> FALSE]
BY DEF Lower

\* Addresses that differ in their spelling alone have domains that do.
LEMMA SameAddressSameDomain ==
    ASSUME NEW stored \in Addresses, NEW asked \in Addresses,
           SameText(stored, asked), asked.domain # Blank
    PROVE  SameText(ExtractEmailDomain(stored), [word |-> asked.domain, caps |-> asked.caps])
<1>1. /\ stored = [user |-> stored.user, domain |-> stored.domain, caps |-> stored.caps]
      /\ asked = [user |-> asked.user, domain |-> asked.domain, caps |-> asked.caps]
      /\ stored # Blank /\ asked # Blank /\ stored # None
      /\ \A c \in BOOLEAN : [word |-> stored.domain, caps |-> c] \notin {None, Blank}
  BY ReadApiAssumption DEF SameText
<1>2. Lower(stored) = [user |-> stored.user, domain |-> stored.domain, caps |-> FALSE]
  BY <1>1 DEF Lower
<1>3. Lower(asked) = [user |-> asked.user, domain |-> asked.domain, caps |-> FALSE]
  BY <1>1 DEF Lower
<1>4. stored.domain = asked.domain
  <2>1. Lower(stored) = Lower(asked)
    BY DEF SameText
  <2>2. Lower(stored).domain = Lower(asked).domain
    BY <2>1
  <2> QED
    BY <1>2, <1>3, <2>2
<1>5. ExtractEmailDomain(stored) = [word |-> stored.domain, caps |-> FALSE]
  BY <1>1, <1>4 DEF ExtractEmailDomain
<1> DEFINE d == [word |-> asked.domain, caps |-> asked.caps]
           e == ExtractEmailDomain(stored)
<1>6. e = [word |-> asked.domain, caps |-> FALSE] /\ e # None /\ e # Blank
  BY <1>1, <1>4, <1>5
<1>7. d # Blank
  BY <1>1, <1>4, ReadApiAssumption
<1>8. Lower(e) = [word |-> asked.domain, caps |-> FALSE]
  BY <1>6, LowerText
<1>9. Lower(d) = [word |-> asked.domain, caps |-> FALSE]
  BY <1>7, LowerText
<1> QED
  BY <1>6, <1>8, <1>9 DEF SameText

\* Whoever is found by an address is found by its domain, however the register
\* and the client spell either: the domain stored beside the address is its.
THEOREM SpecFoundByEmailFoundByDomain == Spec => []FoundByEmailFoundByDomain
<1>1. DbInv => FoundByEmailFoundByDomain
  <2> SUFFICES ASSUME DbInv, NEW l \in Lookup, l.by = "email", l.value.domain # Blank,
                      NEW id \in LookupRows(Latest, l)
               PROVE  id \in LookupRows(Latest,
                          [by |-> "domain",
                           value |-> [word |-> l.value.domain, caps |-> l.value.caps]])
    BY DEF FoundByEmailFoundByDomain
  <2> DEFINE c == Latest.mirror[id].content
  <2>1. Latest \in Version
    BY ElementOfSeq DEF DbInv, Latest
  <2>2. /\ id \in Known(Latest) /\ id \in Id /\ Latest.mirror[id] # None
        /\ SameText(c.email, l.value)
    BY DEF LookupRows, Known
  <2>3. c \in Content
    BY <2>1, <2>2 DEF Version, Entry
  <2>4. c.domain = ExtractEmailDomain(c.email)
    BY <2>3 DEF Content, NormalizeRow
  <2>5. c.email \in Addresses /\ l.value \in Addresses
    BY <2>2, <2>3 DEF Addresses, SameText
  <2>6. SameText(c.domain, [word |-> l.value.domain, caps |-> l.value.caps])
    BY <2>2, <2>4, <2>5, SameAddressSameDomain
  <2> QED
    BY <2>2, <2>6 DEF LookupRows
<1> QED
  BY <1>1, InitDbInv, StepDbInv, PTL DEF Spec

-----------------------------------------------------------------------------
(***************************************************************************)
(* Pages of a set S whose elements have times: newest first, elements of   *)
(* one time in any order.                                                  *)
(***************************************************************************)
NewerThan(S, at, t) == {y \in S : at[y] > t}

OfTime(S, at, t) == {y \in S : at[y] = t}

\* The places that the elements of time t share.
Places(S, at, t) ==
    (Cardinality(NewerThan(S, at, t)) + 1)
        .. (Cardinality(NewerThan(S, at, t)) + Cardinality(OfTime(S, at, t)))

LEMMA NewerAndOfTime ==
    ASSUME NEW S, IsFiniteSet(S), NEW at \in [S -> Nat], NEW t \in Nat
    PROVE  /\ IsFiniteSet(NewerThan(S, at, t)) /\ IsFiniteSet(OfTime(S, at, t))
           /\ Cardinality(NewerThan(S, at, t)) \in Nat
           /\ Cardinality(OfTime(S, at, t)) \in Nat
           /\ Cardinality(NewerThan(S, at, t) \union OfTime(S, at, t))
                = Cardinality(NewerThan(S, at, t)) + Cardinality(OfTime(S, at, t))
<1> DEFINE A == NewerThan(S, at, t)
           B == OfTime(S, at, t)
<1>1. A \in SUBSET S /\ B \in SUBSET S /\ A \intersect B = {}
  BY DEF NewerThan, OfTime
<1> HIDE DEF A, B
<1>2. IsFiniteSet(A) /\ IsFiniteSet(B)
  BY <1>1, FS_Subset
<1>3. Cardinality(A) \in Nat /\ Cardinality(B) \in Nat
  BY <1>2, FS_CardinalityType
<1>4. Cardinality(A \union B) = Cardinality(A) + Cardinality(B) - Cardinality(A \intersect B)
  BY <1>2, FS_Union
<1>5. Cardinality(A \union B) = Cardinality(A) + Cardinality(B)
  <2>1. Cardinality(A \intersect B) = 0
    BY <1>1, FS_EmptySet
  <2> QED
    BY <1>3, <1>4, <2>1
<1> QED
  BY <1>2, <1>3, <1>5 DEF A, B

\* The places of a later time end before those of an earlier one begin.
LEMMA PlacesApart ==
    ASSUME NEW S, IsFiniteSet(S), NEW at \in [S -> Nat], NEW t \in Nat, NEW u \in Nat,
           NEW k, k \in Places(S, at, t), k \in Places(S, at, u)
    PROVE  t = u
<1>1. ASSUME NEW x \in Nat, NEW y \in Nat, y < x
      PROVE  Cardinality(NewerThan(S, at, x)) + Cardinality(OfTime(S, at, x))
                 <= Cardinality(NewerThan(S, at, y))
  <2>1. NewerThan(S, at, x) \union OfTime(S, at, x) \in SUBSET NewerThan(S, at, y)
    BY <1>1 DEF NewerThan, OfTime
  <2>2. Cardinality(NewerThan(S, at, x) \union OfTime(S, at, x))
            <= Cardinality(NewerThan(S, at, y))
    BY <2>1, NewerAndOfTime, FS_Subset
  <2> QED
    BY <2>2, NewerAndOfTime
<1>2. /\ Cardinality(NewerThan(S, at, t)) \in Nat /\ Cardinality(OfTime(S, at, t)) \in Nat
      /\ Cardinality(NewerThan(S, at, u)) \in Nat /\ Cardinality(OfTime(S, at, u)) \in Nat
  BY NewerAndOfTime
<1>3. ~(t < u) /\ ~(u < t)
  BY <1>1, <1>2 DEF Places
<1> QED
  BY <1>3

\* Every place belongs to elements of one time.
LEMMA PlacesCover ==
    ASSUME NEW S, IsFiniteSet(S), NEW bound \in Nat, NEW at \in [S -> 0 .. bound],
           NEW k \in 1 .. Cardinality(S)
    PROVE  \E x \in S : k \in Places(S, at, at[x])
<1> DEFINE ahead(t) == Cardinality(NewerThan(S, at, t))
           T == {t \in Nat : ahead(t) < k}
<1>0. at \in [S -> Nat] /\ Cardinality(S) \in Nat /\ k \in Nat \ {0} /\ k <= Cardinality(S)
  BY FS_CardinalityType
<1>1. bound \in T
  <2>1. NewerThan(S, at, bound) = {}
    BY DEF NewerThan
  <2>2. ahead(bound) = 0
    BY <2>1, FS_EmptySet
  <2> QED
    BY <1>0, <2>2
<1>2. PICK t \in T : \A u \in T : t <= u
  BY <1>1, LeastIsElement
<1>3. t \in Nat /\ ahead(t) < k
  BY <1>2
<1>4. k <= Cardinality(NewerThan(S, at, t) \union OfTime(S, at, t))
  <2>1. CASE t = 0
    <3>1. NewerThan(S, at, t) \union OfTime(S, at, t) = S
      BY <1>0, <2>1 DEF NewerThan, OfTime
    <3> QED
      BY <1>0, <3>1
  <2>2. CASE t # 0
    <3>1. t - 1 \in Nat /\ t - 1 \notin T
      BY <1>2, <1>3, <2>2
    <3>2. ahead(t - 1) \in Nat /\ ~(ahead(t - 1) < k)
      BY <1>0, <3>1, NewerAndOfTime
    <3>3. NewerThan(S, at, t) \union OfTime(S, at, t) = NewerThan(S, at, t - 1)
      BY <1>0, <1>3 DEF NewerThan, OfTime
    <3> QED
      BY <1>0, <3>2, <3>3
  <2> QED
    BY <2>1, <2>2
<1>5. /\ ahead(t) \in Nat /\ IsFiniteSet(OfTime(S, at, t))
      /\ Cardinality(OfTime(S, at, t)) \in Nat
      /\ k <= ahead(t) + Cardinality(OfTime(S, at, t))
  BY <1>0, <1>3, <1>4, NewerAndOfTime
<1>6. Cardinality(OfTime(S, at, t)) # 0
  BY <1>0, <1>3, <1>5
<1>7. OfTime(S, at, t) # {}
  BY <1>6, FS_EmptySet
<1>8. PICK x \in S : at[x] = t
  BY <1>7 DEF OfTime
<1>9. k \in Places(S, at, t)
  BY <1>0, <1>3, <1>5 DEF Places
<1> QED
  BY <1>8, <1>9

\* P takes from every time as many elements as its places meet the window W.
Fills(P, S, at, W) ==
    \A x \in S : Cardinality(P \intersect OfTime(S, at, at[x]))
                     = Cardinality(Places(S, at, at[x]) \intersect W)

\* It then takes as many as the window has, if there are so many: places and
\* elements of one time correspond, and so do all of them.
LEMMA WindowFilled ==
    ASSUME NEW S, IsFiniteSet(S), NEW bound \in Nat, NEW at \in [S -> 0 .. bound],
           NEW W \in SUBSET (1 .. Cardinality(S)), NEW P \in SUBSET S,
           Fills(P, S, at, W)
    PROVE  Cardinality(P) = Cardinality(W)
<1> DEFINE T == {at[x] : x \in S}
           places(t) == Places(S, at, t) \intersect W
           taken(t) == P \intersect OfTime(S, at, t)
           match == [t \in T |-> CHOOSE g : g \in Bijection(places(t), taken(t))]
           time == [k \in W |-> CHOOSE t \in T : k \in places(t)]
           f == [k \in W |-> match[time[k]][k]]
<1>0. at \in [S -> Nat] /\ Cardinality(S) \in Nat /\ T \subseteq Nat
  BY FS_CardinalityType
<1>1. IsFiniteSet(W)
  <2>1. IsFiniteSet(1 .. Cardinality(S))
    BY <1>0, FS_Interval
  <2> QED
    BY <2>1, FS_Subset
<1>2. ASSUME NEW t \in T PROVE match[t] \in Bijection(places(t), taken(t))
  <2>1. IsFiniteSet(places(t)) /\ IsFiniteSet(taken(t))
    <3>1. places(t) \in SUBSET W /\ taken(t) \in SUBSET S
      OBVIOUS
    <3> QED
      BY <1>1, <3>1, FS_Subset
  <2>2. Cardinality(places(t)) = Cardinality(taken(t))
    BY DEF Fills
  <2> HIDE DEF places, taken
  <2>3. ExistsBijection(places(t), taken(t))
    BY <2>1, <2>2, FS_SameCardinalityBij
  <2>4. \E g : g \in Bijection(places(t), taken(t))
    BY <2>3 DEF ExistsBijection
  <2> QED
    BY <2>4
<1> HIDE DEF match
<1>3. ASSUME NEW k \in W PROVE time[k] \in T /\ k \in places(time[k])
  <2>1. PICK x \in S : k \in Places(S, at, at[x])
    BY PlacesCover
  <2>2. at[x] \in T /\ k \in places(at[x])
    BY <2>1
  <2> HIDE DEF places, T
  <2> QED
    BY <2>2
<1>4. ASSUME NEW k \in W, NEW t \in T, k \in places(t) PROVE time[k] = t
  BY <1>0, <1>3, <1>4, PlacesApart
<1> HIDE DEF time
<1>5. ASSUME NEW t \in T
      PROVE  /\ match[t] \in [places(t) -> taken(t)]
             /\ \A a, b \in places(t) : match[t][a] = match[t][b] => a = b
             /\ \A x \in taken(t) : \E a \in places(t) : match[t][a] = x
  <2>1. match[t] \in Bijection(places(t), taken(t))
    BY <1>2
  <2> HIDE DEF places, taken
  <2> QED
    BY <2>1, Fun_BijectionProperties
<1>6. ASSUME NEW k \in W PROVE f[k] \in taken(time[k])
  <2>1. f[k] = match[time[k]][k]
    OBVIOUS
  <2> HIDE DEF f, T, places, taken
  <2> QED
    BY <1>3, <1>5, <2>1
<1>7. f \in [W -> P]
  BY <1>6
<1>8. ASSUME NEW j \in W, NEW k \in W, f[j] = f[k] PROVE j = k
  <2>1. time[j] = at[f[j]] /\ time[k] = at[f[k]]
    BY <1>6 DEF OfTime
  <2>2. time[j] = time[k]
    BY <1>8, <2>1
  <2> QED
    BY <1>3, <1>5, <1>8, <2>2
<1>9. ASSUME NEW x \in P PROVE \E k \in W : f[k] = x
  <2>1. at[x] \in T /\ x \in taken(at[x])
    BY DEF OfTime
  <2>2. PICK k \in places(at[x]) : match[at[x]][k] = x
    BY <1>5, <2>1
  <2>3. k \in W /\ time[k] = at[x]
    BY <1>4, <2>1, <2>2
  <2> QED
    BY <2>2, <2>3
<1>10. f \in Bijection(W, P)
  <2> HIDE DEF f
  <2> QED
    BY <1>7, <1>8, <1>9, Fun_IsBij
<1>11. ExistsBijection(W, P)
  BY <1>10 DEF ExistsBijection
<1> QED
  BY <1>1, <1>11, FS_Bijection

\* The order of a walk's rows: asymmetric, and of two rows in order any third
\* is behind the first or ahead of the second.
Ordered(v, r) ==
    \A x, y \in Subject(v, r) :
        Before(v, r, x, y) =>
            /\ ~Before(v, r, y, x)
            /\ \A z \in Subject(v, r) : Before(v, r, x, z) \/ Before(v, r, z, y)

RowsAhead(v, r, e) == {y \in Subject(v, r) : Before(v, r, y, e)}

\* No row ties with e.
Alone(v, r, e) == \A d \in Subject(v, r) \ {e} : Before(v, r, d, e) \/ Before(v, r, e, d)

\* Rows in order have more and more rows ahead; rows that tie have as many.
LEMMA OrderIsOfRowsAhead ==
    ASSUME NEW v, NEW r, IsFiniteSet(Subject(v, r)), Ordered(v, r),
           NEW x \in Subject(v, r), NEW y \in Subject(v, r)
    PROVE  /\ Cardinality(RowsAhead(v, r, x)) \in 0 .. Cardinality(Subject(v, r))
           /\ Before(v, r, x, y) <=>
                  Cardinality(RowsAhead(v, r, x)) < Cardinality(RowsAhead(v, r, y))
<1>1. \A z \in Subject(v, r) : /\ RowsAhead(v, r, z) \in SUBSET Subject(v, r)
                              /\ IsFiniteSet(RowsAhead(v, r, z))
                              /\ Cardinality(RowsAhead(v, r, z)) \in Nat
                              /\ Cardinality(RowsAhead(v, r, z)) <= Cardinality(Subject(v, r))
  <2> TAKE z \in Subject(v, r)
  <2>1. RowsAhead(v, r, z) \in SUBSET Subject(v, r)
    BY DEF RowsAhead
  <2> QED
    BY <2>1, FS_Subset, FS_CardinalityType
<1>2. ASSUME NEW a \in Subject(v, r), NEW b \in Subject(v, r), Before(v, r, a, b)
      PROVE  Cardinality(RowsAhead(v, r, a)) < Cardinality(RowsAhead(v, r, b))
  <2>1. \A z \in Subject(v, r) : Before(v, r, z, a) => Before(v, r, z, b)
    BY <1>2 DEF Ordered
  <2>2. RowsAhead(v, r, a) \in SUBSET RowsAhead(v, r, b)
    BY <2>1 DEF RowsAhead
  <2>3. a \in RowsAhead(v, r, b) /\ a \notin RowsAhead(v, r, a)
    BY <1>2 DEF RowsAhead, Ordered
  <2>4. /\ Cardinality(RowsAhead(v, r, a)) <= Cardinality(RowsAhead(v, r, b))
        /\ Cardinality(RowsAhead(v, r, a)) # Cardinality(RowsAhead(v, r, b))
    BY <1>1, <2>2, <2>3, FS_Subset
  <2> QED
    BY <1>1, <2>4
<1>3. ASSUME ~Before(v, r, x, y), ~Before(v, r, y, x)
      PROVE  RowsAhead(v, r, x) = RowsAhead(v, r, y)
  BY <1>3 DEF RowsAhead, Ordered
<1>4. CASE Before(v, r, x, y)
  BY <1>1, <1>2, <1>4
<1>5. CASE Before(v, r, y, x)
  BY <1>1, <1>2, <1>5 DEF Ordered
<1>6. CASE ~Before(v, r, x, y) /\ ~Before(v, r, y, x)
  BY <1>1, <1>3, <1>6
<1> QED
  BY <1>4, <1>5, <1>6

\* at gives every row a time: the later, the fewer rows are ahead.
PlacedBy(at, v, r) ==
    /\ at \in [Subject(v, r) -> 0 .. Cardinality(Subject(v, r))]
    /\ at \in [Subject(v, r) -> Nat]
    /\ \A x, y \in Subject(v, r) : Before(v, r, x, y) <=> at[x] > at[y]

LEMMA RowsArePlaced ==
    ASSUME NEW v, NEW r, IsFiniteSet(Subject(v, r)), Ordered(v, r)
    PROVE  \E at : PlacedBy(at, v, r)
<1> DEFINE S == Subject(v, r)
           bound == Cardinality(S)
           ahead(x) == Cardinality(RowsAhead(v, r, x))
           at == [x \in S |-> bound - ahead(x)]
<1>1. bound \in Nat
  BY FS_CardinalityType
<1>2. \A x \in S : ahead(x) \in 0 .. bound
  BY OrderIsOfRowsAhead
<1>3. \A x, y \in S : Before(v, r, x, y) <=> ahead(x) < ahead(y)
  BY OrderIsOfRowsAhead
<1>4. at \in [S -> 0 .. bound] /\ at \in [S -> Nat]
  <2>1. \A x \in S : bound - ahead(x) \in 0 .. bound /\ bound - ahead(x) \in Nat
    BY <1>1, <1>2
  <2> HIDE DEF bound, ahead
  <2> QED
    BY <2>1
<1>5. ASSUME NEW x \in S, NEW y \in S PROVE Before(v, r, x, y) <=> at[x] > at[y]
  <2>1. ahead(x) \in 0 .. bound /\ ahead(y) \in 0 .. bound
    BY <1>2
  <2>2. at[x] = bound - ahead(x) /\ at[y] = bound - ahead(y)
    OBVIOUS
  <2>3. Before(v, r, x, y) <=> ahead(x) < ahead(y)
    BY <1>3
  <2> HIDE DEF bound, ahead, at
  <2> QED
    BY <1>1, <2>1, <2>2, <2>3
<1> HIDE DEF at
<1> QED
  BY <1>4, <1>5 DEF PlacedBy

\* A page takes of the rows of every time what their places meet its window.
LEMMA PageFills ==
    ASSUME NEW v, NEW r, NEW at, PlacedBy(at, v, r), NEW P \in PagesOf(v, r)
    PROVE  /\ P \in SUBSET Subject(v, r) /\ Fills(P, Subject(v, r), at, Window(r))
           /\ \A x \in Subject(v, r) : NewerThan(Subject(v, r), at, at[x]) = RowsAhead(v, r, x)
<1> DEFINE S == Subject(v, r)
           W == Window(r)
<1>1. \A x, y \in S : /\ Before(v, r, x, y) <=> at[x] > at[y]
                      /\ at[x] \in Nat /\ at[y] \in Nat
  BY DEF PlacedBy
<1>2. \A x \in S : /\ {y \in S : ~Before(v, r, x, y) /\ ~Before(v, r, y, x)}
                          = OfTime(S, at, at[x])
                   /\ {y \in S : Before(v, r, y, x)} = NewerThan(S, at, at[x])
  <2>1. \A x, y \in S : (~(at[x] > at[y]) /\ ~(at[y] > at[x])) <=> at[y] = at[x]
    BY <1>1
  <2> QED
    BY <1>1, <2>1 DEF OfTime, NewerThan
<1>3. P \in SUBSET S /\ Fills(P, S, at, W)
  <2>1. P \in SUBSET S /\ \A x \in S :
            LET ties   == {y \in S : ~Before(v, r, x, y) /\ ~Before(v, r, y, x)}
                before == Cardinality({y \in S : Before(v, r, y, x)})
                places == (before + 1)..(before + Cardinality(ties))
            IN  Cardinality(P \intersect ties) = Cardinality(places \intersect W)
    BY DEF PagesOf
  <2> HIDE DEF S, W
  <2> QED
    BY <1>2, <2>1 DEF Places, Fills
<1> QED
  BY <1>2, <1>3 DEF RowsAhead

\* How many rows a page has: as many as there are places in its window.
PageLength(v, r) == Cardinality((1 .. Cardinality(Subject(v, r))) \intersect Window(r))

LEMMA PageHasLength ==
    ASSUME NEW v, NEW r, IsFiniteSet(Subject(v, r)), Ordered(v, r), NEW P \in PagesOf(v, r)
    PROVE  Cardinality(P) = PageLength(v, r)
<1> DEFINE S == Subject(v, r)
           bound == Cardinality(S)
           W == (1 .. bound) \intersect Window(r)
<1>1. bound \in Nat
  BY FS_CardinalityType
<1>2. PICK at : PlacedBy(at, v, r)
  BY RowsArePlaced
<1>3. at \in [S -> Nat] /\ at \in [S -> 0 .. bound]
  BY <1>2 DEF PlacedBy
<1>4. P \in SUBSET S /\ Fills(P, S, at, Window(r))
  BY <1>2, PageFills
<1>5. ASSUME NEW x \in S
      PROVE  Places(S, at, at[x]) \intersect W = Places(S, at, at[x]) \intersect Window(r)
  <2> DEFINE A == NewerThan(S, at, at[x])
             B == OfTime(S, at, at[x])
  <2>1. at[x] \in Nat
    BY <1>3
  <2>2. /\ Cardinality(A) \in Nat /\ Cardinality(B) \in Nat
        /\ Cardinality(A \union B) = Cardinality(A) + Cardinality(B)
    BY <1>3, <2>1, NewerAndOfTime
  <2>3. A \union B \in SUBSET S
    BY DEF NewerThan, OfTime
  <2> HIDE DEF A, B
  <2>4. Cardinality(A \union B) <= bound
    BY <2>3, FS_Subset
  <2>5. Places(S, at, at[x]) \subseteq 1 .. bound
    BY <1>1, <2>2, <2>4 DEF Places, A, B
  <2> QED
    BY <2>5
<1> HIDE DEF S, bound
<1>6. Fills(P, S, at, W)
  BY <1>4, <1>5 DEF Fills
<1>7. W \in SUBSET (1 .. Cardinality(S))
  BY DEF bound
<1> HIDE DEF W
<1>8. IsFiniteSet(S) /\ Cardinality(S) \in Nat /\ at \in [S -> 0 .. Cardinality(S)]
  BY <1>1, <1>3 DEF S, bound
<1>9. Cardinality(P) = Cardinality(W)
  BY <1>4, <1>6, <1>7, <1>8, WindowFilled
<1> QED
  BY <1>9 DEF PageLength, W, S, bound

\* What a page holds of a row that ties with none, and that it is full when
\* there are rows behind it.
LEMMA PageHolds ==
    ASSUME NEW v, NEW r, IsFiniteSet(Subject(v, r)), Ordered(v, r), r.offset \in Nat,
           NEW P \in PagesOf(v, r), NEW e \in Subject(v, r), Alone(v, r, e)
    PROVE  /\ Cardinality(RowsAhead(v, r, e)) \in Nat
           /\ e \in P <=> /\ Cardinality(RowsAhead(v, r, e)) >= r.offset
                         /\ Cardinality(RowsAhead(v, r, e)) < r.offset + PageSize
           /\ Cardinality(RowsAhead(v, r, e)) >= r.offset + PageSize => Cardinality(P) = PageSize
<1> DEFINE S == Subject(v, r)
           bound == Cardinality(S)
           W == Window(r)
           n == Cardinality(RowsAhead(v, r, e))
<1>1. IsFiniteSet(S) /\ bound \in Nat
  BY FS_CardinalityType
<1>2. n \in 0 .. bound
  BY OrderIsOfRowsAhead
<1>3. PICK at : PlacedBy(at, v, r)
  BY RowsArePlaced
<1>4. \A x, y \in S : /\ Before(v, r, x, y) <=> at[x] > at[y]
                      /\ at[x] \in Nat /\ at[y] \in Nat
  BY <1>3 DEF PlacedBy
<1>5. /\ P \in SUBSET S /\ Fills(P, S, at, W)
      /\ NewerThan(S, at, at[e]) = RowsAhead(v, r, e)
  BY <1>3, PageFills
<1>6. OfTime(S, at, at[e]) = {e}
  <2>1. \A d \in S \ {e} : at[d] # at[e]
    BY <1>4 DEF Alone
  <2> QED
    BY <2>1 DEF OfTime
<1>7. n \in Nat
  BY <1>1, <1>2
<1>8. Places(S, at, at[e]) = {n + 1}
  <2>1. Cardinality({e}) = 1
    BY FS_Singleton
  <2> QED
    BY <1>5, <1>6, <1>7, <2>1 DEF Places
<1>9. W = r.offset + 1 .. r.offset + PageSize /\ PageSize \in Nat \ {0}
  BY ReadApiAssumption DEF Window
<1>10. Cardinality(P \intersect {e}) = Cardinality({n + 1} \intersect W)
  <2> HIDE DEF n, W, S
  <2> QED
    BY <1>5, <1>6, <1>8 DEF S, Fills
<1>11. e \in P <=> n + 1 \in W
  <2> DEFINE k == n + 1
  <2>1. Cardinality(P \intersect {e}) = Cardinality({k} \intersect W)
    BY <1>10
  <2> HIDE DEF k, W
  <2>2. /\ Cardinality({k}) = 1 /\ Cardinality({e}) = 1 /\ Cardinality({}) = 0
    BY FS_Singleton, FS_EmptySet
  <2>3. /\ k \in W => {k} \intersect W = {k}
        /\ k \notin W => {k} \intersect W = {}
        /\ e \in P => P \intersect {e} = {e}
        /\ e \notin P => P \intersect {e} = {}
    OBVIOUS
  <2>4. e \in P <=> k \in W
    BY <2>1, <2>2, <2>3
  <2> QED
    BY <2>4 DEF k
<1>12. ASSUME n >= r.offset + PageSize PROVE Cardinality(P) = PageSize
  <2>1. (1 .. bound) \intersect W = W
    BY <1>1, <1>2, <1>7, <1>9, <1>12
  <2>2. Cardinality(W) = PageSize
    BY <1>9, FS_Interval
  <2> QED
    BY <2>1, <2>2, PageHasLength DEF PageLength
<1> QED
  BY <1>7, <1>9, <1>11, <1>12

-----------------------------------------------------------------------------
(***************************************************************************)
(* The walk through a feed: history or changes.                            *)
(***************************************************************************)
IsFeed(r) == r.endpoint \in {"history", "changes"}

\* The events in front of e.
InFront(v, r, e) == {y \in Subject(v, r) : At(v, y) > At(v, e)}

\* No other event of the feed has the time of e.
Untied(v, r, e) == \A d \in Subject(v, r) \ {e} : At(v, d) # At(v, e)

LEMMA EventTime ==
    ASSUME NEW v \in Version, NEW bound \in Nat, EventsBefore(v, bound + 1),
           NEW e \in EventsOf(v, Id)
    PROVE  /\ e[1] \in Id /\ e[2] \in 1 .. Len(v.history[e[1]])
           /\ e = <<e[1], e[2]>>
           /\ At(v, e) = v.history[e[1]][e[2]].at
           /\ At(v, e) \in 0 .. bound
<1>1. \A id \in Id : v.history[id] \in Seq(Event)
  BY DEF Version
<1>2. PICK id \in Id : \E n \in 1 .. Len(v.history[id]) : e = <<id, n>>
  BY <1>1 DEF EventsOf
<1>3. PICK n \in 1 .. Len(v.history[id]) : e = <<id, n>>
  BY <1>2
<1>4. v.history[id][n] \in Event
  BY <1>1, ElementOfSeq
<1>5. v.history[id][n].at \in Nat
  BY <1>4 DEF Event
<1>6. v.history[id][n].at < bound + 1
  BY DEF EventsBefore
<1> QED
  BY <1>3, <1>5, <1>6 DEF At

LEMMA EventsAreFinite == \A v \in Version : IsFiniteSet(EventsOf(v, Id))
<1> SUFFICES ASSUME NEW v \in Version PROVE IsFiniteSet(EventsOf(v, Id))
  OBVIOUS
<1> DEFINE own == [id \in Id |-> {<<id, n>> : n \in DOMAIN v.history[id]}]
           T == {own[id] : id \in Id}
<1>1. IsFiniteSet(T)
  <2>1. own \in Surjection(Id, T)
    BY Fun_IsSurj
  <2> QED
    BY <2>1, FS_Surjection, ReadApiAssumption
<1>2. ASSUME NEW id \in Id PROVE IsFiniteSet(own[id])
  <2> DEFINE f == [n \in 1 .. Len(v.history[id]) |-> <<id, n>>]
  <2>1. v.history[id] \in Seq(Event)
    BY DEF Version
  <2>2. IsFiniteSet(1 .. Len(v.history[id]))
    BY <2>1, FS_Interval
  <2>3. own[id] = {<<id, n>> : n \in 1 .. Len(v.history[id])}
    BY <2>1
  <2>4. f \in Surjection(1 .. Len(v.history[id]), own[id])
    BY <2>3, Fun_IsSurj
  <2> QED
    BY <2>2, <2>4, FS_Surjection
<1>3. IsFiniteSet(UNION T)
  BY <1>1, <1>2, FS_UNION
<1>4. EventsOf(v, Id) = UNION T
  BY DEF EventsOf
<1> QED
  BY <1>3, <1>4

\* A feed holds events of the database.
LEMMA FeedIsOfEvents ==
    ASSUME NEW v \in Version, NEW r, IsFeed(r)
    PROVE  /\ Subject(v, r) \in SUBSET EventsOf(v, Id)
           /\ IsFiniteSet(Subject(v, r))
<1>1. CASE r.endpoint = "history"
  <2>1. Subject(v, r) = EventsOf(v, {r.arg} \intersect Id)
    BY <1>1 DEF Subject
  <2>2. Subject(v, r) \in SUBSET EventsOf(v, Id)
    BY <2>1 DEF EventsOf
  <2> QED
    BY <2>2, EventsAreFinite, FS_Subset
<1>2. CASE r.endpoint = "changes"
  <2>1. Subject(v, r) = Changes(v, r.arg)
    BY <1>2 DEF Subject
  <2>2. Subject(v, r) \in SUBSET EventsOf(v, Id)
    BY <2>1 DEF Changes, EventsOf, Known
  <2> QED
    BY <2>2, EventsAreFinite, FS_Subset
<1> QED
  BY <1>1, <1>2 DEF IsFeed

\* Versions keep the events of those before, and what they add is newer.
LEMMA FeedGrows ==
    ASSUME NEW u \in Version, NEW w \in Version, NEW bound \in Nat,
           EventsBefore(u, bound + 1), EventsBefore(w, bound + 1),
           Continues(u, w), KnownByEvents(u), KnownByEvents(w), NEW r, IsFeed(r)
    PROVE  /\ Subject(u, r) \subseteq Subject(w, r)
           /\ \A e \in Subject(u, r) : At(w, e) = At(u, e)
           /\ \A e \in Subject(u, r), d \in Subject(w, r) \ Subject(u, r) : At(w, d) > At(u, e)
<1>0. \A id \in Id : u.history[id] \in Seq(Event) /\ w.history[id] \in Seq(Event)
  BY DEF Version
<1>1. ASSUME NEW e \in EventsOf(u, Id)
      PROVE  e \in EventsOf(w, Id) /\ At(w, e) = At(u, e)
  <2>1. /\ e[1] \in Id /\ e[2] \in 1 .. Len(u.history[e[1]]) /\ e = <<e[1], e[2]>>
        /\ At(u, e) = u.history[e[1]][e[2]].at
    BY EventTime
  <2>2. e[2] \in 1 .. Len(w.history[e[1]]) /\ w.history[e[1]][e[2]] = u.history[e[1]][e[2]]
    BY <1>0, <2>1 DEF Continues
  <2> QED
    BY <1>0, <2>1, <2>2 DEF EventsOf, At
<1>2. ASSUME NEW e \in EventsOf(u, Id), NEW d \in EventsOf(w, Id), d \notin EventsOf(u, Id)
      PROVE  At(w, d) > At(u, e)
  <2>1. /\ e[1] \in Id /\ e[2] \in 1 .. Len(u.history[e[1]]) /\ At(u, e) \in Nat
        /\ At(u, e) = u.history[e[1]][e[2]].at
    BY EventTime
  <2>2. /\ d[1] \in Id /\ d[2] \in 1 .. Len(w.history[d[1]]) /\ d = <<d[1], d[2]>>
        /\ At(w, d) = w.history[d[1]][d[2]].at /\ At(w, d) \in Nat
    BY EventTime
  <2>3. d[2] \notin 1 .. Len(u.history[d[1]])
    BY <1>0, <1>2, <2>2 DEF EventsOf
  <2>4. d[2] \in Len(u.history[d[1]]) + 1 .. Len(w.history[d[1]])
    BY <1>0, <2>2, <2>3
  <2>5. EventsBefore(u, At(w, d))
    BY <2>2, <2>4 DEF Continues
  <2>6. At(u, e) < At(w, d)
    BY <2>1, <2>5 DEF EventsBefore
  <2> QED
    BY <2>1, <2>2, <2>6
<1>3. \A v \in {u, w} : \A e \in EventsOf(v, Id) : e \in EventsOf(v, Known(v))
  <2> SUFFICES ASSUME NEW v \in {u, w}, NEW e \in EventsOf(v, Id)
               PROVE  e \in EventsOf(v, Known(v))
    OBVIOUS
  <2>1. v \in Version /\ EventsBefore(v, bound + 1) /\ KnownByEvents(v)
    OBVIOUS
  <2>2. /\ e[1] \in Id /\ e[2] \in 1 .. Len(v.history[e[1]]) /\ e = <<e[1], e[2]>>
        /\ v.history[e[1]] \in Seq(Event)
    BY <1>0, <2>1, EventTime
  <2>3. e[1] \in Known(v)
    BY <2>1, <2>2 DEF KnownByEvents, Known
  <2> QED
    BY <2>2, <2>3 DEF EventsOf
<1>4. \A v \in {u, w} : \A e : e \in Subject(v, r) <=>
          /\ e \in EventsOf(v, Id)
          /\ r.endpoint = "history" => e[1] = r.arg
          /\ r.endpoint = "changes" => At(v, e) >= r.arg
  <2> SUFFICES ASSUME NEW v \in {u, w}, NEW e
               PROVE  e \in Subject(v, r) <=>
                          /\ e \in EventsOf(v, Id)
                          /\ r.endpoint = "history" => e[1] = r.arg
                          /\ r.endpoint = "changes" => At(v, e) >= r.arg
    OBVIOUS
  <2>1. CASE r.endpoint = "history"
    <3>1. Subject(v, r) = EventsOf(v, {r.arg} \intersect Id)
      BY <2>1 DEF Subject
    <3> QED
      BY <2>1, <3>1 DEF EventsOf
  <2>2. CASE r.endpoint = "changes"
    <3>1. Subject(v, r) = {d \in EventsOf(v, Known(v)) : At(v, d) >= r.arg}
      BY <2>2 DEF Subject, Changes
    <3>2. EventsOf(v, Known(v)) \subseteq EventsOf(v, Id)
      BY DEF EventsOf, Known
    <3> QED
      BY <1>3, <2>2, <3>1, <3>2
  <2> QED
    BY <2>1, <2>2 DEF IsFeed
<1>5. \A e \in Subject(u, r) : e \in EventsOf(u, Id) /\ e \in Subject(w, r) /\ At(w, e) = At(u, e)
  BY <1>1, <1>4
<1>6. \A d \in Subject(w, r) : d \in EventsOf(w, Id) /\ (d \in EventsOf(u, Id) => d \in Subject(u, r))
  BY <1>1, <1>4
<1> QED
  BY <1>2, <1>5, <1>6

\* More events come in front of an event, and none of its time.
LEMMA InFrontGrows ==
    ASSUME NEW u \in Version, NEW w \in Version, NEW bound \in Nat,
           EventsBefore(u, bound + 1), EventsBefore(w, bound + 1),
           Continues(u, w), KnownByEvents(u), KnownByEvents(w), NEW r, IsFeed(r),
           NEW e \in Subject(u, r)
    PROVE  /\ e \in Subject(w, r)
           /\ Untied(u, r, e) => Untied(w, r, e)
           /\ Cardinality(InFront(u, r, e)) \in Nat /\ Cardinality(InFront(w, r, e)) \in Nat
           /\ Cardinality(InFront(u, r, e)) <= Cardinality(InFront(w, r, e))
<1>1. /\ Subject(u, r) \subseteq Subject(w, r)
      /\ \A d \in Subject(u, r) : At(w, d) = At(u, d)
      /\ \A d \in Subject(w, r) \ Subject(u, r) : At(w, d) > At(u, e)
  BY FeedGrows
<1>2. At(u, e) \in Nat
  BY FeedIsOfEvents, EventTime
<1>3. \A d \in Subject(w, r) : At(w, d) \in Nat
  BY FeedIsOfEvents, EventTime
<1>4. InFront(u, r, e) \in SUBSET InFront(w, r, e)
  BY <1>1 DEF InFront
<1>5. InFront(w, r, e) \in SUBSET Subject(w, r) /\ IsFiniteSet(Subject(w, r))
  BY FeedIsOfEvents DEF InFront
<1>6. IsFiniteSet(InFront(w, r, e)) /\ IsFiniteSet(InFront(u, r, e))
  BY <1>4, <1>5, FS_Subset
<1>7. Untied(u, r, e) => Untied(w, r, e)
  <2> SUFFICES ASSUME Untied(u, r, e), NEW d \in Subject(w, r) \ {e}
               PROVE  At(w, d) # At(w, e)
    BY DEF Untied
  <2>1. At(w, e) = At(u, e)
    BY <1>1
  <2>2. CASE d \in Subject(u, r)
    BY <1>1, <2>1, <2>2 DEF Untied
  <2>3. CASE d \notin Subject(u, r)
    BY <1>1, <1>2, <1>3, <2>1, <2>3
  <2> QED
    BY <2>2, <2>3
<1> QED
  BY <1>1, <1>4, <1>6, <1>7, FS_Subset, FS_CardinalityType

\* What a page of a feed holds of an event that is not tied, and how many.
LEMMA PageOfFeed ==
    ASSUME NEW v \in Version, NEW bound \in Nat, EventsBefore(v, bound + 1),
           NEW r, IsFeed(r), r.offset \in Nat, NEW P \in PagesOf(v, r),
           NEW e \in Subject(v, r), Untied(v, r, e),
           Cardinality(InFront(v, r, e)) >= r.offset
    PROVE  /\ Cardinality(InFront(v, r, e)) < r.offset + PageSize => e \in P
           /\ Cardinality(InFront(v, r, e)) >= r.offset + PageSize => Cardinality(P) = PageSize
<1>1. \A x \in Subject(v, r) : At(v, x) \in Nat
  BY FeedIsOfEvents, EventTime
<1>2. \A x, y \in Subject(v, r) : Before(v, r, x, y) <=> At(v, x) > At(v, y)
  BY DEF Before, NewerFirst, IsFeed
<1>3. Ordered(v, r)
  BY <1>1, <1>2 DEF Ordered
<1>4. Alone(v, r, e)
  BY <1>1, <1>2 DEF Alone, Untied
<1>5. RowsAhead(v, r, e) = InFront(v, r, e)
  BY <1>2 DEF RowsAhead, InFront
<1> QED
  BY <1>3, <1>4, <1>5, FeedIsOfEvents, PageHolds

Walking == request # None /\ IsFeed(request)

\* The places that the pages read so far reach to.
Extent == request.offset + (IF Len(reads) = Len(Todo) THEN PageSize ELSE 0)

\* What the walk counted and has not shown is behind the places it has read,
\* now that events have come in front of it.
NothingPassed ==
    \A e \in Subject(versions[from], request) : Untied(versions[from], request, e) =>
        /\ e \in seen \/ Cardinality(InFront(Latest, request, e)) >= Extent
        /\ Len(reads) = Len(Todo) /\ page # PageSize => e \in seen

WalkInv ==
    Walking =>
        /\ request.offset \in Nat
        /\ Answered => Len(reads) = Len(Todo)
        /\ from = 0 => request.offset = 0 /\ Len(reads) + 1 < Len(Todo)
        /\ from # 0 => NothingPassed

\* A feed is counted, then its page is read, and nothing after it.
LEMMA FeedStatements ==
    ASSUME NEW r, IsFeed(r), NEW todo, todo = Statements[r.endpoint]
    PROVE  /\ Len(todo) \in {2, 3}
           /\ todo[Len(todo)] = "page" /\ todo[Len(todo) - 1] = "count"
           /\ \A k \in 1 .. Len(todo) : /\ todo[k] = "page" => k = Len(todo)
                                        /\ todo[k] = "count" => k = Len(todo) - 1
<1>1. CASE r.endpoint = "history"
  <2>1. todo = <<"row", "count", "page">>
    BY <1>1 DEF Statements, HistorySelects
  <2> QED
    BY <2>1
<1>2. CASE r.endpoint = "changes"
  <2>1. todo = <<"count", "page">>
    BY <1>2 DEF Statements, ChangesSelects
  <2> QED
    BY <2>1
<1> QED
  BY <1>1, <1>2 DEF IsFeed

\* Runs that commit during a walk.
LEMMA RunWalkInv ==
    ASSUME DbInv, CallInv, HistoryInv, WalkInv, DbInv', HistoryInv', UNCHANGED callVars,
           Len(versions') >= Len(versions),
           \A k \in 1 .. Len(versions) : versions'[k] = versions[k]
    PROVE  WalkInv'
<1>1. /\ Todo' = Todo /\ request' = request /\ reads' = reads /\ page' = page /\ from' = from
      /\ seen' = seen /\ response' = response
  BY DEF callVars, Todo
<1>2. Walking' = Walking /\ Extent' = Extent /\ Answered' = Answered
  BY <1>1 DEF Walking, Extent, Answered
<1>3. ASSUME Walking, from # 0 PROVE NothingPassed'
  <2>1. from \in 1 .. Len(versions) /\ versions'[from] = versions[from]
    BY <1>3 DEF CallInv
  <2>2. IsFeed(request)
    BY <1>3 DEF Walking
  <2> DEFINE i == Len(versions)
             j == Len(versions')
             u == versions[i]
             w == versions'[j]
  <2>3. i \in Nat \ {0} /\ j \in Nat \ {0} /\ i <= j
    BY DEF DbInv
  <2>4. /\ Latest = u /\ Latest' = w
    BY DEF Latest
  <2>5. /\ versions[from] \in Version /\ u \in Version /\ w \in Version
        /\ clock' \in Nat
    BY <2>1, <2>3, ElementOfSeq DEF DbInv
  <2>6. u = versions'[i] /\ i \in 1 .. j /\ j \in 1 .. j /\ from \in 1 .. j
    BY <2>1, <2>3
  <2>7. /\ EventsBefore(u, clock' + 1) /\ EventsBefore(w, clock' + 1)
        /\ EventsBefore(versions[from], clock' + 1)
        /\ KnownByEvents(u) /\ KnownByEvents(w) /\ KnownByEvents(versions[from])
        /\ Continues(u, w) /\ Continues(versions[from], u)
    <3>1. \A k \in 1 .. j : KnownByEvents(versions'[k]) /\ EventsBefore(versions'[k], clock' + 1)
      BY DEF HistoryInv, KnownByEvents, EventsBefore
    <3>2. \A k, l \in 1 .. j : k <= l => Continues(versions'[k], versions'[l])
      BY DEF HistoryInv, Continues, EventsBefore
    <3> QED
      BY <2>1, <2>3, <2>6, <3>1, <3>2
  <2> HIDE DEF u, w, i, j
  <2>8. ASSUME NEW e \in Subject(versions[from], request), Untied(versions[from], request, e)
        PROVE  /\ Cardinality(InFront(u, request, e)) \in Nat
               /\ Cardinality(InFront(w, request, e)) \in Nat
               /\ Cardinality(InFront(u, request, e)) <= Cardinality(InFront(w, request, e))
    <3>1. e \in Subject(u, request)
      BY <2>2, <2>5, <2>7, InFrontGrows
    <3> QED
      BY <2>2, <2>5, <2>7, <3>1, InFrontGrows
  <2>9. Extent \in Nat
    BY <1>3, ReadApiAssumption DEF Extent, WalkInv
  <2>10. ASSUME NEW e \in Subject(versions[from], request), Untied(versions[from], request, e)
         PROVE  /\ e \in seen \/ Cardinality(InFront(w, request, e)) >= Extent
                /\ Len(reads) = Len(Todo) /\ page # PageSize => e \in seen
    <3>1. /\ e \in seen \/ Cardinality(InFront(u, request, e)) >= Extent
          /\ Len(reads) = Len(Todo) /\ page # PageSize => e \in seen
      BY <1>3, <2>4, <2>10 DEF WalkInv, NothingPassed
    <3> QED
      BY <2>8, <2>9, <2>10, <3>1
  <2>11. \A e \in Subject(versions'[from'], request') : Untied(versions'[from'], request', e) =>
           /\ e \in seen' \/ Cardinality(InFront(Latest', request', e)) >= Extent'
           /\ Len(reads') = Len(Todo') /\ page' # PageSize => e \in seen'
    BY <1>1, <1>2, <2>1, <2>4, <2>10
  <2> QED
    BY <2>11 DEF NothingPassed, Subject, Untied, InFront, EventsOf, At, Found, Changes, Known
<1> QED
  BY <1>1, <1>2, <1>3 DEF WalkInv

\* The SELECTs of a walk.
LEMMA SelectWalkInv ==
    DbInv /\ CallInv /\ HistoryInv /\ WalkInv /\ Select => WalkInv'
<1> SUFFICES ASSUME DbInv, CallInv, HistoryInv, WalkInv, Select PROVE WalkInv'
  OBVIOUS
<1> DEFINE l == Len(versions)
           next == Len(reads) + 1
<1>1. /\ reads' = Append(reads, l)
      /\ from' = IF from = 0 /\ Todo[next] = "count" THEN l ELSE from
      /\ Len(reads) < Len(Todo)
      /\ request # None /\ response = None
      /\ UNCHANGED <<versions, request, response>>
  BY DEF Select, Snapshot, AtHandler, dbVars
<1>2. /\ Todo[next] = "page" =>
           \E P \in PagesOf(versions[l], request) :
               page' = Cardinality(P) /\ seen' = seen \union P
      /\ Todo[next] # "page" => UNCHANGED <<page, seen>>
  BY DEF Select, Snapshot
<1>3. /\ reads \in Seq(1 .. l) /\ l \in Nat \ {0} /\ from \in 0 .. l
      /\ Latest = versions[l] /\ Latest \in Version /\ clock \in Nat
      /\ EventsBefore(Latest, clock + 1) /\ KnownByEvents(Latest)
  <2>1. l \in Nat \ {0} /\ l \in 1 .. l /\ Latest = versions[l]
    BY DEF DbInv, Latest
  <2>2. versions[l] \in Version
    BY <2>1, ElementOfSeq DEF DbInv
  <2> QED
    BY <2>1, <2>2 DEF DbInv, CallInv, HistoryInv
<1>4. Len(reads') = next /\ Len(reads) \in Nat /\ Todo' = Todo /\ Latest' = Latest
  BY <1>1, <1>3 DEF Todo, Latest
<1>5. Answered' = FALSE /\ (Walking' <=> Walking)
  BY <1>1 DEF Answered, Walking
<1> SUFFICES ASSUME Walking
             PROVE  /\ request.offset \in Nat
                    /\ from' = 0 => request.offset = 0 /\ next + 1 < Len(Todo)
                    /\ from' # 0 => NothingPassed'
  BY <1>1, <1>4, <1>5 DEF WalkInv
<1>6. IsFeed(request) /\ request.offset \in Nat /\ PageSize \in Nat \ {0}
  BY ReadApiAssumption DEF Walking, WalkInv
<1>7. /\ Len(Todo) \in {2, 3} /\ Todo[Len(Todo)] = "page" /\ Todo[Len(Todo) - 1] = "count"
      /\ next \in 1 .. Len(Todo)
      /\ Todo[next] = "page" => next = Len(Todo)
      /\ Todo[next] = "count" => next = Len(Todo) - 1
  <2>1. Todo = Statements[request.endpoint]
    BY DEF Todo
  <2>2. /\ Len(Todo) \in {2, 3} /\ Todo[Len(Todo)] = "page" /\ Todo[Len(Todo) - 1] = "count"
        /\ \A k \in 1 .. Len(Todo) : /\ Todo[k] = "page" => k = Len(Todo)
                                     /\ Todo[k] = "count" => k = Len(Todo) - 1
    BY <1>6, <2>1, FeedStatements
  <2>3. next \in 1 .. Len(Todo)
    <3>1. Len(reads) \in Nat /\ Len(Todo) \in Nat /\ Len(reads) < Len(Todo)
      BY <1>1, <1>4, <2>2
    <3> QED
      BY <3>1
  <2> QED
    BY <2>2, <2>3
<1>8. from' = 0 => request.offset = 0 /\ next + 1 < Len(Todo)
  <2> SUFFICES ASSUME from' = 0 PROVE request.offset = 0 /\ next + 1 < Len(Todo)
    OBVIOUS
  <2>1. from = 0 /\ Todo[next] # "count"
    BY <1>1, <1>3
  <2>2. request.offset = 0 /\ next < Len(Todo)
    BY <2>1 DEF WalkInv, Walking
  <2> QED
    BY <1>4, <1>7, <2>1, <2>2
<1>9. CASE Todo[next] # "page" /\ from = 0 /\ from' # 0
  <2>1. next # Len(Todo) /\ request.offset = 0
    BY <1>7, <1>9 DEF WalkInv, Walking
  <2>2. Extent' = 0
    BY <1>1, <1>4, <2>1 DEF Extent
  <2>3. \A e \in Subject(versions'[from'], request') : Cardinality(InFront(Latest', request', e)) >= 0
    <3> SUFFICES ASSUME NEW e \in Subject(Latest, request)
                 PROVE  Cardinality(InFront(Latest, request, e)) >= 0
      BY <1>1, <1>3, <1>4, <1>9
    <3>1. InFront(Latest, request, e) \in SUBSET Subject(Latest, request)
      BY DEF InFront
    <3>2. IsFiniteSet(InFront(Latest, request, e))
      BY <1>3, <1>6, <3>1, FeedIsOfEvents, FS_Subset
    <3> QED
      BY <3>2, FS_CardinalityType
  <2>4. \A e \in Subject(versions'[from'], request') : Untied(versions'[from'], request', e) =>
           /\ e \in seen' \/ Cardinality(InFront(Latest', request', e)) >= Extent'
           /\ Len(reads') = Len(Todo') /\ page' # PageSize => e \in seen'
    BY <1>4, <2>1, <2>2, <2>3
  <2>5. NothingPassed'
    BY <2>4 DEF NothingPassed, Subject, Untied, InFront, EventsOf, At, Found, Changes, Known
  <2> QED
    BY <1>6, <1>8, <2>5
<1>10. CASE Todo[next] # "page" /\ from # 0
  <2>1. next # Len(Todo) /\ from' = from
    BY <1>1, <1>7, <1>10
  <2>2. Extent' = Extent /\ UNCHANGED <<page, seen>>
    BY <1>1, <1>2, <1>4, <1>10, <2>1 DEF Extent
  <2>3. NothingPassed
    BY <1>10 DEF WalkInv
  <2>4. \A e \in Subject(versions'[from'], request') : Untied(versions'[from'], request', e) =>
           /\ e \in seen' \/ Cardinality(InFront(Latest', request', e)) >= Extent'
           /\ Len(reads') = Len(Todo') /\ page' # PageSize => e \in seen'
    BY <1>1, <1>4, <2>1, <2>2, <2>3 DEF NothingPassed
  <2>5. NothingPassed'
    BY <2>4 DEF NothingPassed, Subject, Untied, InFront, EventsOf, At, Found, Changes, Known
  <2> QED
    BY <1>6, <1>8, <2>5
<1>11. CASE Todo[next] = "page"
  <2>1. next = Len(Todo) /\ from # 0 /\ from' = from /\ from \in 1 .. l
    <3>1. next = Len(Todo)
      BY <1>7, <1>11
    <3>2. from # 0
      BY <1>4, <3>1 DEF WalkInv
    <3> QED
      BY <1>1, <1>3, <3>1, <3>2
  <2>2. NothingPassed /\ Extent = request.offset /\ Extent' = request.offset + PageSize
    BY <1>1, <1>4, <2>1 DEF WalkInv, Extent
  <2>3. PICK P \in PagesOf(Latest, request) : page' = Cardinality(P) /\ seen' = seen \union P
    BY <1>2, <1>3, <1>11
  <2> DEFINE u == versions[from]
  <2>4. /\ u \in Version /\ EventsBefore(u, clock + 1) /\ KnownByEvents(u)
        /\ Continues(u, Latest)
    <3>1. u \in Version
      BY <2>1, ElementOfSeq DEF DbInv
    <3> QED
      BY <1>3, <2>1, <3>1 DEF HistoryInv
  <2>5. ASSUME NEW e \in Subject(u, request), Untied(u, request, e)
        PROVE  /\ e \in seen' \/ Cardinality(InFront(Latest, request, e)) >= Extent'
               /\ page' # PageSize => e \in seen'
    <3> DEFINE n == Cardinality(InFront(Latest, request, e))
    <3>1. e \in Subject(Latest, request) /\ Untied(Latest, request, e) /\ n \in Nat
      BY <1>3, <1>6, <2>4, <2>5, InFrontGrows
    <3>2. CASE e \in seen
      BY <2>3, <3>2
    <3>3. CASE e \notin seen
      <4>1. n >= request.offset
        BY <2>2, <2>5, <3>3 DEF NothingPassed
      <4>2. /\ n < request.offset + PageSize => e \in P
            /\ n >= request.offset + PageSize => Cardinality(P) = PageSize
        BY <1>3, <1>6, <2>3, <3>1, <4>1, PageOfFeed
      <4> HIDE DEF n
      <4>3. n < request.offset + PageSize \/ n >= request.offset + PageSize
        BY <1>6, <3>1
      <4> QED
        BY <2>2, <2>3, <4>2, <4>3 DEF n
    <3> QED
      BY <3>2, <3>3
  <2>6. \A e \in Subject(versions'[from'], request') : Untied(versions'[from'], request', e) =>
           /\ e \in seen' \/ Cardinality(InFront(Latest', request', e)) >= Extent'
           /\ Len(reads') = Len(Todo') /\ page' # PageSize => e \in seen'
    BY <1>1, <1>4, <2>1, <2>5
  <2>7. NothingPassed'
    BY <2>6 DEF NothingPassed, Subject, Untied, InFront, EventsOf, At, Found, Changes, Known
  <2> QED
    BY <1>6, <1>8, <2>7
<1> QED
  BY <1>6, <1>8, <1>9, <1>10, <1>11, <1>1

LEMMA StepWalkInv ==
    /\ DbInv /\ CallInv /\ HistoryInv /\ WalkInv /\ [Next]_vars
    /\ DbInv' /\ HistoryInv'
    => WalkInv'
<1> SUFFICES ASSUME DbInv, CallInv, HistoryInv, WalkInv, [Next]_vars, DbInv', HistoryInv'
             PROVE  WalkInv'
  OBVIOUS
<1>1. CASE Begin \/ Commit \/ UNCHANGED vars
  <2>1. UNCHANGED callVars
    BY <1>1 DEF Begin, Commit, vars, callVars
  <2>2. /\ Len(versions') >= Len(versions)
        /\ \A k \in 1 .. Len(versions) : versions'[k] = versions[k]
    <3>1. \/ versions' = versions
          \/ \E w : versions' = Append(versions, w)
      BY <1>1 DEF Begin, Commit, vars
    <3> QED
      BY <3>1 DEF DbInv
  <2> QED
    BY <2>1, <2>2, RunWalkInv
<1>2. CASE Select
  BY <1>2, SelectWalkInv
<1>3. CASE /\ UNCHANGED <<versions, request, reads, page, seen, from>>
           /\ Walking /\ Answered' => Len(reads) = Len(Todo)
  <2>1. /\ Todo' = Todo /\ Walking' = Walking /\ Extent' = Extent /\ Latest' = Latest
    BY <1>3 DEF Todo, Walking, Extent, Latest
  <2>2. NothingPassed' = NothingPassed
    BY <1>3, <2>1
    DEF NothingPassed, Subject, Untied, InFront, EventsOf, At, Found, Changes, Known
  <2> QED
    BY <1>3, <2>1, <2>2 DEF WalkInv
<1>4. CASE Ask
  <2>1. PICK e \in Endpoint : \E arg : Send(e, arg, 0)
    BY <1>4 DEF Ask
  <2>2. request'.offset = 0 /\ reads' = <<>> /\ response' = None
    BY <2>1 DEF Send
  <2>3. from' = 0 /\ Answered' = FALSE /\ Len(reads') = 0
    BY <1>4, <2>2 DEF Ask, NothingShown, Answered
  <2>4. Walking' => Len(Todo') \in {2, 3}
    <3>1. Todo' = Statements[request'.endpoint]
      BY DEF Todo
    <3>2. Walking' => IsFeed(request')
      BY DEF Walking
    <3> QED
      BY <3>1, <3>2, FeedStatements
  <2> QED
    BY <2>2, <2>3, <2>4 DEF WalkInv
<1>5. CASE TurnAway
  <2>1. request' = None
    BY <1>5 DEF TurnAway
  <2> QED
    BY <2>1 DEF WalkInv, Walking
<1>6. CASE AskNextPage
  <2>1. /\ Answered /\ request # None /\ page = PageSize
        /\ request' = [endpoint |-> request.endpoint, arg |-> request.arg,
                        offset |-> request.offset + PageSize]
        /\ reads' = <<>> /\ response' = None
        /\ UNCHANGED <<versions, page, seen, from>>
    BY <1>6 DEF AskNextPage, LastPageFull, Answered, Send, CallInv, dbVars, walkVars
  <2>2. /\ Answered' = FALSE /\ Len(reads') = 0 /\ Latest' = Latest
        /\ request'.endpoint = request.endpoint /\ request'.arg = request.arg
        /\ request'.offset = request.offset + PageSize
    BY <2>1 DEF Answered, Latest
  <2>3. IsFeed(request') = IsFeed(request) /\ Todo' = Todo
    BY <2>2 DEF IsFeed, Todo
  <2>4. ASSUME Walking' PROVE /\ request'.offset \in Nat /\ from' # 0 /\ NothingPassed'
    <3>1. Walking /\ IsFeed(request) /\ PageSize \in Nat
      BY <2>1, <2>3, <2>4, ReadApiAssumption DEF Walking
    <3>2. Todo = Statements[request.endpoint]
      BY DEF Todo
    <3>3. Len(reads) = Len(Todo) /\ Len(Todo) \in {2, 3} /\ request.offset \in Nat
      BY <2>1, <3>1, <3>2, FeedStatements DEF WalkInv
    <3>4. from # 0 /\ NothingPassed
      BY <3>1, <3>3 DEF WalkInv
    <3>5. Extent = request.offset + PageSize /\ Extent' = request'.offset
      BY <2>2, <2>3, <3>1, <3>3 DEF Extent
    <3>6. /\ \A v : Subject(v, request') = Subject(v, request)
          /\ \A v, e : Untied(v, request', e) <=> Untied(v, request, e)
          /\ \A v, e : InFront(v, request', e) = InFront(v, request, e)
      <4>1. \A v : Subject(v, request') = Subject(v, request)
        BY <2>2 DEF Subject
      <4> QED
        BY <4>1 DEF Untied, InFront
    <3>7. \A e \in Subject(versions'[from'], request') : Untied(versions'[from'], request', e) =>
             /\ e \in seen' \/ Cardinality(InFront(Latest', request', e)) >= Extent'
             /\ Len(reads') = Len(Todo') /\ page' # PageSize => e \in seen'
      BY <2>1, <2>2, <2>3, <3>3, <3>4, <3>5, <3>6 DEF NothingPassed
    <3>8. NothingPassed'
      BY <3>7 DEF NothingPassed, Subject, Untied, InFront, EventsOf, At, Found, Changes, Known
    <3> QED
      BY <2>1, <2>2, <3>1, <3>3, <3>4, <3>8
  <2>5. Walking' =>
          /\ request'.offset \in Nat
          /\ Answered' => Len(reads') = Len(Todo')
          /\ from' = 0 => request'.offset = 0 /\ Len(reads') + 1 < Len(Todo')
          /\ from' # 0 => NothingPassed'
    BY <2>2, <2>4
  <2> QED
    BY <2>5 DEF WalkInv
<1>7. ASSUME \/ AnswerPreflight \/ PassLayer \/ RefuseRequest \/ RedisAway \/ DatabaseAway
             \/ RefuseBadRequest \/ AnswerNotFound \/ Answer
      PROVE  /\ UNCHANGED <<versions, request, reads, page, seen, from>>
             /\ Walking /\ Answered' => Len(reads) = Len(Todo)
  <2>1. UNCHANGED <<versions, request, reads, page, seen, from>>
    BY <1>7 DEF AnswerPreflight, PassLayer, RefuseRequest, RedisAway, DatabaseAway,
                RefuseBadRequest, AnswerNotFound, Answer, Respond, Raise, dbVars, walkVars
  <2>2. CASE AnswerPreflight
    BY <2>1, <2>2 DEF AnswerPreflight, Walking, IsFeed
  <2>3. CASE PassLayer
    <3>1. ~Answered'
      BY <2>3 DEF PassLayer, PassCors, AtLayer, Answered
    <3> QED
      BY <2>1, <3>1
  <2>4. CASE RefuseRequest \/ RedisAway \/ DatabaseAway \/ RefuseBadRequest \/ AnswerNotFound
    <3>1. response'.status # 200
      BY <2>4 DEF RefuseRequest, RedisAway, DatabaseAway, RefuseBadRequest, AnswerNotFound,
                  Respond, Raise
    <3> QED
      BY <2>1, <3>1 DEF Answered
  <2>5. CASE Answer
    BY <2>1, <2>5 DEF Answer
  <2> QED
    BY <1>7, <2>2, <2>3, <2>4, <2>5
<1> QED
  BY <1>1, <1>2, <1>3, <1>4, <1>5, <1>6, <1>7 DEF Next

\* A client that walks a feed page by page, newest first, sees every event its
\* first page counted but for ties, however many runs commit between the
\* pages and between the count and the page: what comes in pushes back the
\* events that are still to be shown and never forward.
THEOREM SpecEventWalkMissesOnlyTies == Spec => []EventWalkMissesOnlyTies
<1>1. Init => WalkInv
  BY DEF Init, WalkInv, Walking
<1>2. DbInv /\ CallInv /\ WalkInv => EventWalkMissesOnlyTies
  <2> SUFFICES ASSUME DbInv, CallInv, WalkInv, Walked, request.endpoint \in {"history", "changes"},
                      NEW e \in Subject(versions[from], request) \ seen
               PROVE  \E d \in Subject(versions[from], request) \ {e} :
                          At(versions[from], d) = At(versions[from], e)
    BY DEF EventWalkMissesOnlyTies
  <2>1. Walking /\ Answered /\ page # PageSize
    BY DEF Walked, Answered, LastPageFull, CallInv, Walking, IsFeed
  <2>2. Len(reads) = Len(Todo) /\ Len(reads) \in Nat
    BY <2>1 DEF WalkInv, CallInv
  <2>3. from # 0 /\ NothingPassed
    BY <2>1, <2>2 DEF WalkInv
  <2>4. ~Untied(versions[from], request, e)
    BY <2>1, <2>2, <2>3 DEF NothingPassed
  <2> QED
    BY <2>4 DEF Untied
<1> QED
  BY <1>1, <1>2, InitDbInv, StepDbInv, InitCallInv, StepCallInv, InitHistoryInv, StepHistoryInv,
     StepWalkInv, PTL DEF Spec


-----------------------------------------------------------------------------
(***************************************************************************)
(* The walk through the list.                                              *)
(***************************************************************************)
\* A page of the list is read between its count and its date.
LEMMA ListStatements ==
    ASSUME NEW todo, todo = Statements["list"]
    PROVE  Len(todo) = 3 /\ todo[1] = "count" /\ todo[2] = "page" /\ todo[3] = "dated"
<1> DEFINE data == <<"count", "page">>
           date == <<"dated">>
<1>1. /\ data \in Seq(Name) /\ Len(data) = 2 /\ data[1] = "count" /\ data[2] = "page"
      /\ date \in Seq(Name) /\ Len(date) = 1 /\ date[1] = "dated"
  BY DEF Name
<1>2. todo = data \o date
  BY DEF Statements, ListSelects, ThenDated
<1> HIDE DEF data, date
<1>3. Len(data \o date) = 3 /\ \A k \in 1 .. 3 :
          (data \o date)[k] = IF k <= 2 THEN data[k] ELSE date[k - 2]
  BY <1>1, ConcatProperties
<1> QED
  BY <1>1, <1>2, <1>3

\* Names are in order.
LEMMA ListOrdered ==
    ASSUME NEW v \in Version, NEW r, r.endpoint = "list"
    PROVE  /\ Subject(v, r) = Found(v, r.arg) /\ Subject(v, r) \in SUBSET Id
           /\ IsFiniteSet(Subject(v, r))
           /\ Ordered(v, r)
<1>1. Subject(v, r) = Found(v, r.arg) /\ Subject(v, r) \in SUBSET Id
  BY DEF Subject, Found, Known
<1>2. IsFiniteSet(Subject(v, r))
  BY <1>1, ReadApiAssumption, FS_Subset
<1> DEFINE word(x) == v.mirror[x].content.name.word
           caps(x) == v.mirror[x].content.name.caps
<1>3. ASSUME NEW x \in Subject(v, r) PROVE word(x) \in Nat /\ caps(x) \in BOOLEAN
  <2>1. x \in Id /\ v.mirror[x] # None
    BY <1>1 DEF Found, Known
  <2>2. v.mirror[x] \in [content: Content, listed: BOOLEAN]
    BY <2>1 DEF Version, Entry
  <2>3. v.mirror[x].content \in Content
    BY <2>2
  <2> QED
    BY <2>3, ReadApiAssumption
<1>4. \A x, y \in Subject(v, r) :
          Before(v, r, x, y) <=> \/ word(x) < word(y)
                                 \/ word(x) = word(y) /\ caps(x) /\ ~caps(y)
  BY DEF Before, NameBefore
<1>5. Ordered(v, r)
  <2> HIDE DEF word, caps
  <2> QED
    BY <1>3, <1>4 DEF Ordered
<1> QED
  BY <1>1, <1>2, <1>5

\* Every version from the one the walk's first page counted finds id, under a
\* name no other row has ...
Steady(vs, first, r, id) ==
    \A k \in first .. Len(vs) : id \in Subject(vs[k], r) /\ Alone(vs[k], r, id)

\* ... and no row ahead of it goes away, or none comes.
NoneLeave(vs, first, r, id) ==
    \A j, k \in first .. Len(vs) :
        j < k => RowsAhead(vs[j], r, id) \subseteq RowsAhead(vs[k], r, id)

NoneCome(vs, first, r, id) ==
    \A j, k \in first .. Len(vs) :
        j < k => RowsAhead(vs[k], r, id) \subseteq RowsAhead(vs[j], r, id)

Rank(vs, r, id) == Cardinality(RowsAhead(vs[Len(vs)], r, id))

\* A row that none ahead leaves is shown or behind the places read, and shown
\* once the walk ends; one that none overtakes is shown once, and when it is
\* shown the places read have passed it.
Kept(vs, first, r, places, ended, shown, again) ==
    \A id \in Id : Steady(vs, first, r, id) =>
        /\ NoneLeave(vs, first, r, id) => /\ id \in shown \/ Rank(vs, r, id) >= places
                                          /\ ended => id \in shown
        /\ NoneCome(vs, first, r, id) => /\ id \notin again
                                         /\ id \in shown => Rank(vs, r, id) < places

Listing == request # None /\ request.endpoint = "list"

PlacesRead == request.offset + (IF Len(reads) >= 2 THEN PageSize ELSE 0)

Ended == Len(reads) >= 2 /\ page # PageSize

ListInv ==
    Listing =>
        /\ request.offset \in Nat
        /\ Answered => Len(reads) = 3
        /\ from = 0 => request.offset = 0 /\ Len(reads) = 0 /\ seen = {} /\ twice = {}
        /\ from # 0 => Kept(versions, from, request, PlacesRead, Ended, seen, twice)

LEMMA KeptNext ==
    ASSUME Kept(versions', from', request', PlacesRead', Ended', seen', twice')
    PROVE  Kept(versions, from, request, PlacesRead, Ended, seen, twice)'
BY DEF Kept, Steady, NoneLeave, NoneCome, Rank, Alone, RowsAhead, Subject, Before, NameBefore,
       NewerFirst, At, EventsOf, Found, Changes, Known, Active, HasStatus

LEMMA KeptWhile ==
    ASSUME NEW vs, NEW first, NEW r, NEW places, NEW ended, NEW shown, NEW again,
           Kept(vs, first, r, places, ended, shown, again), NEW sooner, sooner => ended
    PROVE  Kept(vs, first, r, places, sooner, shown, again)
BY DEF Kept

\* The rank of a row, in a version the walk may read.
LEMMA RankType ==
    ASSUME NEW v \in Version, NEW r, r.endpoint = "list", NEW id
    PROVE  IsFiniteSet(RowsAhead(v, r, id)) /\ Cardinality(RowsAhead(v, r, id)) \in Nat
<1>1. RowsAhead(v, r, id) \in SUBSET Subject(v, r)
  BY DEF RowsAhead
<1> QED
  BY <1>1, ListOrdered, FS_Subset, FS_CardinalityType

\* Runs that commit during a walk.
LEMMA KeptByRuns ==
    ASSUME NEW vs \in Seq(Version), NEW ws \in Seq(Version), Len(vs) <= Len(ws),
           \A k \in 1 .. Len(vs) : ws[k] = vs[k],
           NEW first \in 1 .. Len(vs), NEW r, r.endpoint = "list",
           NEW places \in Nat, NEW ended, NEW shown, NEW again,
           Kept(vs, first, r, places, ended, shown, again)
    PROVE  Kept(ws, first, r, places, ended, shown, again)
<1> SUFFICES ASSUME NEW id \in Id, Steady(ws, first, r, id)
             PROVE  /\ NoneLeave(ws, first, r, id) =>
                           /\ id \in shown \/ Rank(ws, r, id) >= places
                           /\ ended => id \in shown
                    /\ NoneCome(ws, first, r, id) =>
                           /\ id \notin again
                           /\ id \in shown => Rank(ws, r, id) < places
  BY DEF Kept
<1> DEFINE l == Len(vs)
           m == Len(ws)
<1>1. /\ l \in Nat /\ m \in Nat /\ l <= m /\ l \in first .. m /\ m \in first .. m
      /\ ws[l] = vs[l] /\ first .. l \subseteq first .. m
      /\ \A k \in first .. l : ws[k] = vs[k]
  OBVIOUS
<1>2. /\ Steady(vs, first, r, id)
      /\ NoneLeave(ws, first, r, id) => NoneLeave(vs, first, r, id)
      /\ NoneCome(ws, first, r, id) => NoneCome(vs, first, r, id)
  BY <1>1 DEF Steady, NoneLeave, NoneCome
<1>3. vs[l] \in Version /\ ws[m] \in Version
  BY <1>1, ElementOfSeq
<1>4. /\ Rank(vs, r, id) \in Nat /\ Rank(ws, r, id) \in Nat
      /\ IsFiniteSet(RowsAhead(vs[l], r, id)) /\ IsFiniteSet(RowsAhead(ws[m], r, id))
  BY <1>3, RankType DEF Rank
<1>5. ASSUME NoneLeave(ws, first, r, id) PROVE Rank(vs, r, id) <= Rank(ws, r, id)
  <2>1. CASE l = m
    BY <1>1, <1>4, <2>1 DEF Rank
  <2>2. CASE l < m
    <3>1. RowsAhead(vs[l], r, id) \in SUBSET RowsAhead(ws[m], r, id)
      BY <1>1, <1>5, <2>2 DEF NoneLeave
    <3> QED
      BY <1>4, <3>1, FS_Subset DEF Rank
  <2> QED
    BY <1>1, <2>1, <2>2
<1>6. ASSUME NoneCome(ws, first, r, id) PROVE Rank(ws, r, id) <= Rank(vs, r, id)
  <2>1. CASE l = m
    BY <1>1, <1>4, <2>1 DEF Rank
  <2>2. CASE l < m
    <3>1. RowsAhead(ws[m], r, id) \in SUBSET RowsAhead(vs[l], r, id)
      BY <1>1, <1>6, <2>2 DEF NoneCome
    <3> QED
      BY <1>4, <3>1, FS_Subset DEF Rank
  <2> QED
    BY <1>1, <2>1, <2>2
<1>7. /\ NoneLeave(vs, first, r, id) => /\ id \in shown \/ Rank(vs, r, id) >= places
                                        /\ ended => id \in shown
      /\ NoneCome(vs, first, r, id) => /\ id \notin again
                                       /\ id \in shown => Rank(vs, r, id) < places
  BY <1>2 DEF Kept
<1> QED
  BY <1>2, <1>4, <1>5, <1>6, <1>7

\* A page that is read.
LEMMA KeptByPage ==
    ASSUME NEW vs \in Seq(Version), NEW first \in 1 .. Len(vs),
           NEW r, r.endpoint = "list", r.offset \in Nat,
           NEW shown, NEW again, Kept(vs, first, r, r.offset, FALSE, shown, again),
           NEW P \in PagesOf(vs[Len(vs)], r)
    PROVE  Kept(vs, first, r, r.offset + PageSize, Cardinality(P) # PageSize,
                shown \union P, again \union (shown \intersect P))
<1> DEFINE l == Len(vs)
           v == vs[l]
<1> SUFFICES ASSUME NEW id \in Id, Steady(vs, first, r, id)
             PROVE  /\ NoneLeave(vs, first, r, id) =>
                           /\ id \in shown \/ id \in P \/ Rank(vs, r, id) >= r.offset + PageSize
                           /\ Cardinality(P) # PageSize => id \in shown \/ id \in P
                    /\ NoneCome(vs, first, r, id) =>
                           /\ id \notin again /\ ~(id \in shown /\ id \in P)
                           /\ id \in shown \/ id \in P =>
                                  Rank(vs, r, id) < r.offset + PageSize
  BY DEF Kept
<1>1. l \in first .. l /\ v \in Version
  BY ElementOfSeq
<1>2. id \in Subject(v, r) /\ Alone(v, r, id)
  BY <1>1 DEF Steady
<1>3. /\ Rank(vs, r, id) \in Nat
      /\ id \in P <=> Rank(vs, r, id) >= r.offset /\ Rank(vs, r, id) < r.offset + PageSize
      /\ Rank(vs, r, id) >= r.offset + PageSize => Cardinality(P) = PageSize
  <2>1. IsFiniteSet(Subject(v, r)) /\ Ordered(v, r)
    BY <1>1, ListOrdered
  <2> HIDE DEF v
  <2>2. /\ Cardinality(RowsAhead(v, r, id)) \in Nat
        /\ id \in P <=> /\ Cardinality(RowsAhead(v, r, id)) >= r.offset
                        /\ Cardinality(RowsAhead(v, r, id)) < r.offset + PageSize
        /\ Cardinality(RowsAhead(v, r, id)) >= r.offset + PageSize => Cardinality(P) = PageSize
    BY <1>2, <2>1, PageHolds DEF v
  <2> QED
    BY <2>2 DEF Rank, v
<1>4. /\ NoneLeave(vs, first, r, id) => id \in shown \/ Rank(vs, r, id) >= r.offset
      /\ NoneCome(vs, first, r, id) => /\ id \notin again
                                       /\ id \in shown => Rank(vs, r, id) < r.offset
  BY DEF Kept
<1>5. PageSize \in Nat
  BY ReadApiAssumption
<1> QED
  BY <1>3, <1>4, <1>5

LEMMA StepListInv ==
    DbInv /\ DbInv' /\ CallInv /\ ListInv /\ [Next]_vars => ListInv'
<1> SUFFICES ASSUME DbInv, DbInv', CallInv, ListInv, [Next]_vars PROVE ListInv'
  OBVIOUS
<1>0. /\ versions \in Seq(Version) /\ versions' \in Seq(Version) /\ Len(versions) \in Nat \ {0}
      /\ reads \in Seq(1 .. Len(versions)) /\ Len(reads) \in Nat
      /\ from \in 0 .. Len(versions) /\ PageSize \in Nat
  BY ReadApiAssumption DEF DbInv, CallInv
<1>1. CASE Begin \/ Commit \/ UNCHANGED vars
  <2>1. /\ UNCHANGED <<request, reads, page, seen, twice, from, response>>
    BY <1>1 DEF Begin, Commit, vars, callVars
  <2>2. /\ Len(versions) <= Len(versions')
        /\ \A k \in 1 .. Len(versions) : versions'[k] = versions[k]
    <3>1. \/ versions' = versions
          \/ \E w : versions' = Append(versions, w)
      BY <1>1 DEF Begin, Commit, vars
    <3> QED
      BY <1>0, <3>1
  <2>3. /\ Listing' = Listing /\ PlacesRead' = PlacesRead /\ Ended' = Ended
        /\ Answered' = Answered
    BY <2>1 DEF Listing, PlacesRead, Ended, Answered
  <2>4. ASSUME Listing, from # 0
        PROVE  Kept(versions, from, request, PlacesRead, Ended, seen, twice)'
    <3>1. Kept(versions, from, request, PlacesRead, Ended, seen, twice)
      BY <2>4 DEF ListInv
    <3>2. PlacesRead \in Nat /\ request.endpoint = "list" /\ from \in 1 .. Len(versions)
      BY <1>0, <2>4 DEF PlacesRead, ListInv, Listing
    <3>3. Kept(versions', from, request, PlacesRead, Ended, seen, twice)
      BY <1>0, <2>2, <3>1, <3>2, KeptByRuns
    <3>4. Kept(versions', from', request', PlacesRead', Ended', seen', twice')
      BY <2>1, <2>3, <3>3
    <3> QED
      BY <3>4, KeptNext
  <2> QED
    BY <2>1, <2>3, <2>4 DEF ListInv
<1>2. CASE Select /\ Listing
  <2> DEFINE l == Len(versions)
  <2>1. /\ reads' = Append(reads, l) /\ Len(reads) < Len(Todo)
        /\ from' = IF from = 0 /\ Todo[Len(reads) + 1] = "count" THEN l ELSE from
        /\ IF Todo[Len(reads) + 1] = "page"
           THEN \E P \in PagesOf(versions[l], request) :
                    /\ page' = Cardinality(P)
                    /\ seen' = seen \union P
                    /\ twice' = twice \union (seen \intersect P)
           ELSE UNCHANGED <<page, seen, twice>>
        /\ response' = None /\ UNCHANGED <<versions, request>>
    BY <1>2 DEF Select, Snapshot, AtHandler, dbVars
  <2>2. Len(Todo) = 3 /\ Todo[1] = "count" /\ Todo[2] = "page" /\ Todo[3] = "dated"
    <3>1. Todo = Statements["list"]
      BY <1>2 DEF Todo, Listing
    <3> QED
      BY <3>1, ListStatements
  <2>3. Len(reads) \in 0 .. 2 /\ Len(reads') = Len(reads) + 1
    <3>1. Len(reads) < 3 /\ reads' = Append(reads, l)
      BY <2>1, <2>2
    <3>2. l \in 1 .. l /\ reads \in Seq(1 .. l) /\ Len(reads) \in Nat
      BY <1>0
    <3> HIDE DEF l
    <3>3. Len(Append(reads, l)) = Len(reads) + 1
      BY <3>2, AppendProperties
    <3>4. Len(reads) \in 0 .. 2
      <4>1. \A n \in Nat : n < 3 => n \in 0 .. 2
        OBVIOUS
      <4> QED
        BY <3>1, <3>2, <4>1, Zenon
    <3>5. Len(reads') = Len(reads) + 1
      BY <3>1, <3>3, Zenon
    <3> QED
      BY <3>4, <3>5
  <2>4. /\ Answered' = FALSE /\ Listing' = Listing
        /\ request.endpoint = "list" /\ request.offset \in Nat
    BY <1>2, <2>1 DEF Answered, Listing, ListInv
  <2>5. PlacesRead' = request.offset + (IF Len(reads) + 1 >= 2 THEN PageSize ELSE 0)
    BY <2>1, <2>3 DEF PlacesRead
  <2>6. from' # 0
    BY <1>0, <1>2, <2>1, <2>2, <2>3 DEF ListInv
  <2>7. Kept(versions', from', request', PlacesRead', Ended', seen', twice')
    <3>1. CASE Len(reads) = 0 /\ from = 0
      <4>1. /\ request.offset = 0 /\ seen' = {} /\ twice' = {} /\ PlacesRead' = 0
            /\ from' = l
        <5>1. request.offset = 0 /\ seen = {} /\ twice = {}
          BY <1>2, <3>1 DEF ListInv
        <5>2. Todo[Len(reads) + 1] = "count"
          BY <2>2, <3>1
        <5> QED
          BY <2>1, <2>5, <3>1, <5>1, <5>2
      <4>2. \A id : Rank(versions, request, id) >= 0
        <5>1. versions[l] \in Version
          BY <1>0, ElementOfSeq
        <5> QED
          BY <2>4, <5>1, RankType DEF Rank
      <4>3. ~Ended'
        BY <2>3, <3>1 DEF Ended
      <4>4. Kept(versions, from', request, 0, Ended', {}, {})
        BY <4>2, <4>3 DEF Kept
      <4> QED
        BY <2>1, <4>1, <4>4
    <3>2. CASE Len(reads) = 0 /\ from # 0
      <4>1. Kept(versions, from, request, PlacesRead, Ended, seen, twice)
        BY <1>2, <3>2 DEF ListInv
      <4>2. /\ PlacesRead' = PlacesRead /\ Ended' = Ended /\ from' = from
            /\ UNCHANGED <<seen, twice>>
        BY <2>1, <2>2, <2>3, <2>5, <3>2 DEF Ended, PlacesRead
      <4> QED
        BY <2>1, <4>1, <4>2
    <3>3. CASE Len(reads) = 1
      <4>1. from # 0 /\ from' = from /\ from \in 1 .. l
        BY <1>0, <1>2, <2>1, <2>2, <3>3 DEF ListInv
      <4>2. PlacesRead = request.offset
        BY <2>4, <3>3 DEF PlacesRead
      <4>3. Kept(versions, from, request, request.offset, FALSE, seen, twice)
        BY <1>2, <4>1, <4>2, KeptWhile DEF ListInv
      <4>4. PICK P \in PagesOf(versions[l], request) :
                /\ page' = Cardinality(P) /\ seen' = seen \union P
                /\ twice' = twice \union (seen \intersect P)
        BY <2>1, <2>2, <3>3
      <4>5. Kept(versions, from, request, request.offset + PageSize, Cardinality(P) # PageSize,
                 seen \union P, twice \union (seen \intersect P))
        BY <1>0, <2>4, <4>1, <4>3, KeptByPage
      <4>6. PlacesRead' = request.offset + PageSize /\ (Ended' => Cardinality(P) # PageSize)
        BY <2>3, <2>5, <3>3, <4>4 DEF Ended
      <4>7. Kept(versions, from, request, request.offset + PageSize, Ended',
                 seen \union P, twice \union (seen \intersect P))
        BY <4>5, <4>6, KeptWhile
      <4> QED
        BY <2>1, <4>1, <4>4, <4>6, <4>7
    <3>4. CASE Len(reads) = 2
      <4>1. from # 0
        BY <1>2, <3>4 DEF ListInv
      <4>2. Kept(versions, from, request, PlacesRead, Ended, seen, twice)
        BY <1>2, <4>1 DEF ListInv
      <4>3. /\ PlacesRead' = PlacesRead /\ Ended' = Ended /\ from' = from
            /\ UNCHANGED <<seen, twice>>
        BY <2>1, <2>2, <2>3, <2>5, <3>4, <4>1 DEF Ended, PlacesRead
      <4> QED
        BY <2>1, <4>2, <4>3
    <3> QED
      BY <2>3, <3>1, <3>2, <3>3, <3>4
  <2> QED
    BY <2>1, <2>4, <2>6, <2>7, KeptNext DEF ListInv
<1>3. CASE Select /\ ~Listing
  BY <1>3 DEF Select, Listing, ListInv
<1>4. CASE Ask
  <2>1. PICK e \in Endpoint : \E arg : Send(e, arg, 0)
    BY <1>4 DEF Ask
  <2>2. request'.offset = 0 /\ reads' = <<>> /\ response' = None
    BY <2>1 DEF Send
  <2>3. from' = 0 /\ seen' = {} /\ twice' = {} /\ Answered' = FALSE /\ Len(reads') = 0
    BY <1>4, <2>2 DEF Ask, NothingShown, Answered
  <2> QED
    BY <2>2, <2>3 DEF ListInv
<1>5. CASE TurnAway
  <2>1. request' = None
    BY <1>5 DEF TurnAway
  <2> QED
    BY <2>1 DEF ListInv, Listing
<1>6. CASE AskNextPage
  <2>1. /\ Answered /\ request # None /\ page = PageSize
        /\ request' = [endpoint |-> request.endpoint, arg |-> request.arg,
                        offset |-> request.offset + PageSize]
        /\ reads' = <<>> /\ response' = None
        /\ UNCHANGED <<versions, page, seen, twice, from>>
    BY <1>6 DEF AskNextPage, LastPageFull, Answered, Send, CallInv, dbVars, walkVars
  <2>2. /\ Answered' = FALSE /\ Len(reads') = 0
        /\ request'.endpoint = request.endpoint /\ request'.arg = request.arg
        /\ request'.offset = request.offset + PageSize
    BY <2>1 DEF Answered
  <2>3. ASSUME Listing'
        PROVE  /\ request'.offset \in Nat /\ from' # 0
               /\ Kept(versions, from, request, PlacesRead, Ended, seen, twice)'
    <3>1. Listing
      BY <2>1, <2>2, <2>3 DEF Listing
    <3>2. /\ request.offset \in Nat /\ Len(reads) = 3 /\ from # 0
          /\ Kept(versions, from, request, PlacesRead, Ended, seen, twice)
      <4>1. request.offset \in Nat /\ Len(reads) = 3
        BY <2>1, <3>1 DEF ListInv
      <4>2. from # 0
        BY <3>1, <4>1 DEF ListInv
      <4> QED
        BY <3>1, <4>1, <4>2 DEF ListInv
    <3>3. /\ PlacesRead = request.offset + PageSize
          /\ PlacesRead' = request.offset + PageSize /\ (Ended' => Ended)
      BY <1>0, <2>1, <2>2, <3>2 DEF PlacesRead, Ended
    <3>4. /\ \A v : Subject(v, request') = Subject(v, request)
          /\ \A v, x, y : Before(v, request', x, y) <=> Before(v, request, x, y)
      BY <2>2 DEF Subject, Before
    <3>5. /\ \A v, x : RowsAhead(v, request', x) = RowsAhead(v, request, x)
          /\ \A v, x : Alone(v, request', x) <=> Alone(v, request, x)
      BY <3>4 DEF RowsAhead, Alone
    <3>6. \A id : /\ Steady(versions, from, request', id) <=> Steady(versions, from, request, id)
                  /\ NoneLeave(versions, from, request', id)
                         <=> NoneLeave(versions, from, request, id)
                  /\ NoneCome(versions, from, request', id)
                         <=> NoneCome(versions, from, request, id)
                  /\ Rank(versions, request', id) = Rank(versions, request, id)
      BY <3>4, <3>5 DEF Steady, NoneLeave, NoneCome, Rank
    <3>7. Kept(versions, from, request', request.offset + PageSize, Ended', seen, twice)
      BY <3>2, <3>3, <3>6 DEF Kept
    <3>8. Kept(versions', from', request', PlacesRead', Ended', seen', twice')
      BY <2>1, <3>3, <3>7
    <3> QED
      BY <1>0, <2>1, <2>2, <3>2, <3>8, KeptNext
  <2> QED
    BY <2>2, <2>3 DEF ListInv
<1>7. ASSUME \/ AnswerPreflight \/ PassLayer \/ RefuseRequest \/ RedisAway \/ DatabaseAway
             \/ RefuseBadRequest \/ AnswerNotFound \/ Answer
      PROVE  ListInv'
  <2>1. UNCHANGED <<versions, request, reads, page, seen, twice, from>>
    BY <1>7 DEF AnswerPreflight, PassLayer, RefuseRequest, RedisAway, DatabaseAway,
                RefuseBadRequest, AnswerNotFound, Answer, Respond, Raise, dbVars, walkVars
  <2>2. Listing /\ Answered' => Len(reads) = 3
    <3>1. CASE AnswerPreflight
      BY <3>1 DEF AnswerPreflight, Listing
    <3>2. CASE PassLayer
      BY <3>2 DEF PassLayer, PassCors, AtLayer, Answered
    <3>3. CASE RefuseRequest \/ RedisAway \/ DatabaseAway \/ RefuseBadRequest \/ AnswerNotFound
      <4>1. response'.status # 200
        BY <3>3 DEF RefuseRequest, RedisAway, DatabaseAway, RefuseBadRequest, AnswerNotFound,
                    Respond, Raise
      <4> QED
        BY <4>1 DEF Answered
    <3>4. CASE Answer
      <4>1. Listing => Todo = Statements["list"]
        BY DEF Todo, Listing
      <4> QED
        BY <3>4, <4>1, ListStatements DEF Answer
    <3> QED
      BY <1>7, <3>1, <3>2, <3>3, <3>4
  <2>3. Listing' = Listing /\ PlacesRead' = PlacesRead /\ Ended' = Ended
    BY <2>1 DEF Listing, PlacesRead, Ended
  <2>4. ASSUME Listing, from # 0
        PROVE  Kept(versions, from, request, PlacesRead, Ended, seen, twice)'
    <3>1. Kept(versions', from', request', PlacesRead', Ended', seen', twice')
      BY <2>1, <2>3, <2>4 DEF ListInv
    <3> QED
      BY <3>1, KeptNext
  <2> QED
    BY <2>1, <2>2, <2>3, <2>4 DEF ListInv
<1> QED
  BY <1>1, <1>2, <1>3, <1>4, <1>5, <1>6, <1>7 DEF Next

\* A client that walks the list by OFFSET misses a flagger whose name stands
\* and is its own only if one listed before it went away in between, and is
\* shown it twice only if one came, however many runs commit between the
\* pages.
THEOREM SpecListWalkSlipsOnlyByChange == Spec => []ListWalkSlipsOnlyByChange
<1>1. Init => ListInv
  BY DEF Init, ListInv, Listing
<1>2. DbInv /\ CallInv /\ ListInv => ListWalkSlipsOnlyByChange
  <2> SUFFICES ASSUME DbInv, CallInv, ListInv, Walked, request.endpoint = "list",
                      NEW id \in Id, SteadilyFound(id)
               PROVE  /\ id \notin seen =>
                             \E j, k \in from .. Len(versions) :
                                 j < k /\ ~(Ahead(j, id) \subseteq Ahead(k, id))
                      /\ id \in twice =>
                             \E j, k \in from .. Len(versions) :
                                 j < k /\ ~(Ahead(k, id) \subseteq Ahead(j, id))
    BY DEF ListWalkSlipsOnlyByChange
  <2>1. Listing /\ Answered /\ page # PageSize
    BY DEF Walked, Answered, LastPageFull, CallInv, Listing
  <2>2. Ended /\ Kept(versions, from, request, PlacesRead, Ended, seen, twice)
    <3>1. Len(reads) = 3
      BY <2>1 DEF ListInv
    <3>2. from # 0
      BY <2>1, <3>1 DEF ListInv
    <3> QED
      BY <2>1, <3>1, <3>2 DEF ListInv, Ended
  <2>3. /\ \A k : Subject(versions[k], request) = Found(versions[k], request.arg)
        /\ \A k, x, y : Before(versions[k], request, x, y) <=> NameBefore(versions[k], x, y)
    BY DEF Subject, Before
  <2>4. \A k : RowsAhead(versions[k], request, id) = Ahead(k, id)
    BY <2>3 DEF RowsAhead, Ahead
  <2>5. Steady(versions, from, request, id)
    BY <2>3 DEF SteadilyFound, Steady, Alone
  <2>6. /\ NoneLeave(versions, from, request, id) => id \in seen
        /\ NoneCome(versions, from, request, id) => id \notin twice
    BY <2>2, <2>5 DEF Kept
  <2> QED
    BY <2>4, <2>6 DEF NoneLeave, NoneCome
<1> QED
  BY <1>1, <1>2, InitDbInv, StepDbInv, InitCallInv, StepCallInv, StepListInv, PTL DEF Spec

(***************************************************************************)
(* The counts of an answer                                                 *)
(***************************************************************************)
\* What a listing that normalizes says: both countries are countries, and an
\* area is listed once or not at all.
LEMMA ContentCounts ==
    ASSUME NEW c \in Content
    PROVE  /\ c.country \in Country /\ c.dsc \in Country
           /\ \A a : Cardinality({k \in DOMAIN c.areas : c.areas[k] = a})
                         = IF a \in ToSet(c.areas) THEN 1 ELSE 0
<1>1. PICK raw \in RawRow : Normalizes(raw) /\ c = NormalizeRow(raw)
  BY DEF Content
<1>2. c.country \in Country /\ c.dsc \in Country /\ c.areas = NormalizeAreas(raw.areas)
  BY <1>1, ReadApiAssumption
  DEF Normalizes, NormalizeRow, DscCountry, ExtractDscCountryCode
<1>3. raw.areas \in Seq(ToSet(raw.areas))
  BY ReadApiAssumption
<1> DEFINE labels == raw.areas
           areas == NormalizeAreas(labels)
<1>4. Collected(areas, [k \in DOMAIN labels |-> AreaOf(labels[k])], DOMAIN labels)
  BY <1>3, NormalizeAreasOnce
<1> HIDE DEF labels, areas
<1>5. /\ DOMAIN areas = 1 .. Len(areas) /\ Len(areas) \in Nat
      /\ \A p, q \in 1 .. Len(areas) : p < q => areas[p] # areas[q]
  BY <1>4, LenProperties DEF Collected
<1>6. ASSUME NEW a
      PROVE  Cardinality({k \in DOMAIN areas : areas[k] = a})
                 = IF a \in ToSet(areas) THEN 1 ELSE 0
  <2>1. CASE a \in ToSet(areas)
    <3>1. PICK p \in DOMAIN areas : areas[p] = a
      BY <2>1 DEF ToSet
    <3>2. {k \in DOMAIN areas : areas[k] = a} = {p}
      BY <1>5, <3>1
    <3> QED
      BY <2>1, <3>2, FS_Singleton
  <2>2. CASE a \notin ToSet(areas)
    <3>1. {k \in DOMAIN areas : areas[k] = a} = {}
      BY <2>2 DEF ToSet
    <3> QED
      BY <2>2, <3>1, FS_EmptySet
  <2> QED
    BY <2>1, <2>2
<1> QED
  BY <1>2, <1>6 DEF areas, labels

\* The rows of the active flaggers.
LEMMA ActiveRows ==
    ASSUME NEW v \in Version
    PROVE  /\ Active(v) \in SUBSET Id /\ IsFiniteSet(Active(v))
           /\ \A id \in Active(v) : v.mirror[id].content \in Content
<1>1. Active(v) \in SUBSET Id
  BY DEF Active, Known
<1>2. IsFiniteSet(Active(v))
  BY <1>1, ReadApiAssumption, FS_Subset
<1>3. ASSUME NEW id \in Active(v) PROVE v.mirror[id].content \in Content
  <2>1. id \in Id /\ v.mirror[id] # None
    BY DEF Active, Known
  <2>2. v.mirror[id] \in [content: Content, listed: BOOLEAN]
    BY <2>1 DEF Version, Entry
  <2> QED
    BY <2>2
<1> QED
  BY <1>1, <1>2, <1>3

\* The count of an area by rows of its arrays is one by flaggers.
LEMMA ByAreaCountsFlaggers ==
    ASSUME NEW v \in Version, NEW a
    PROVE  ByArea(v, a) = Cardinality({id \in Active(v) : a \in ToSet(v.mirror[id].content.areas)})
<1> DEFINE S == Active(v)
           B == [id \in S |-> IF a \in ToSet(v.mirror[id].content.areas) THEN {id} ELSE {}]
           rows(id) == Cardinality({k \in DOMAIN v.mirror[id].content.areas :
                                        v.mirror[id].content.areas[k] = a})
           m == [id \in S |-> Cardinality(B[id])]
           Solves(g) == g = [s \in SUBSET S |->
               IF s = {} THEN 0
               ELSE rows(CHOOSE x \in s : TRUE) + g[s \ {CHOOSE x \in s : TRUE}]]
           iter == CHOOSE g : Solves(g)
<1>1. ByArea(v, a) = iter[S]
  BY Zenon DEF ByArea, MapThenSumSet, MapThenFoldSet
<1>2. ASSUME NEW id \in S
      PROVE  /\ IsFiniteSet(B[id]) /\ Cardinality(B[id]) \in Nat
             /\ Cardinality(B[id]) = IF a \in ToSet(v.mirror[id].content.areas) THEN 1 ELSE 0
  <2>1. CASE a \in ToSet(v.mirror[id].content.areas)
    <3>1. B[id] = {id}
      BY <2>1
    <3>2. IsFiniteSet({id}) /\ Cardinality({id}) = 1
      BY FS_Singleton
    <3> HIDE DEF B
    <3> QED
      BY <2>1, <3>1, <3>2
  <2>2. CASE a \notin ToSet(v.mirror[id].content.areas)
    <3>1. B[id] = {}
      BY <2>2
    <3>2. IsFiniteSet({}) /\ Cardinality({}) = 0
      BY FS_EmptySet
    <3> HIDE DEF B
    <3> QED
      BY <2>2, <3>1, <3>2
  <2> QED
    BY <2>1, <2>2
<1>3. ASSUME NEW id \in S PROVE rows(id) = Cardinality(B[id])
  <2>1. v.mirror[id].content \in Content
    BY ActiveRows
  <2> HIDE DEF B
  <2> QED
    BY <1>2, <2>1, ContentCounts
<1>4. UNION {B[id] : id \in S} = {id \in S : a \in ToSet(v.mirror[id].content.areas)}
  OBVIOUS
<1>5. IsFiniteSet(S) /\ Disjoint(B, S)
  <2>1. \A x, y \in S : x # y => B[x] \intersect B[y] = {}
    OBVIOUS
  <2> HIDE DEF B, S
  <2> QED
    BY <1>2, <2>1, ActiveRows DEF Disjoint, S
<1> HIDE DEF B, rows, S
<1>6. m \in [S -> Nat] /\ \A id \in S : m[id] = Cardinality(B[id]) /\ rows(id) = m[id]
  BY <1>2, <1>3
<1> HIDE DEF m
<1>7. PICK g : Sums(g, m, S)
  BY <1>5, <1>6, SumHasSolution
<1>8. \A f : Solves(f) <=> Sums(f, m, S)
  <2>1. \A s \in SUBSET S : s # {} => rows(CHOOSE x \in s : TRUE) = m[CHOOSE x \in s : TRUE]
    BY <1>6
  <2> QED
    BY <2>1 DEF Sums
<1>9. Sums(iter, m, S)
  <2> HIDE DEF Solves
  <2>1. Solves(iter)
    BY <1>7, <1>8
  <2> QED
    BY <1>8, <2>1
<1> HIDE DEF iter
<1>10. iter[S] = Cardinality(UNION {B[id] : id \in S})
  BY <1>5, <1>6, <1>9, SumOfDisjointSets
<1> QED
  BY <1>1, <1>4, <1>10 DEF S

\* /v1/stats and the list agree: an area counts as many flaggers as the filter
\* on it finds, however many labels of it a flagger lists.
THEOREM SpecAreaCountsAgreeWithFilter == Spec => []AreaCountsAgreeWithFilter
<1>1. DbInv => AreaCountsAgreeWithFilter
  <2> SUFFICES ASSUME DbInv, NEW q \in Query, NEW a \in q.area
               PROVE  ByArea(Latest, a)
                          = Cardinality(Found(Latest, [q EXCEPT !.status = "active",
                                !.country = {}, !.dsc = None, !.after = None,
                                !.before = None, !.area = {a}, !.word = None]))
    BY DEF AreaCountsAgreeWithFilter
  <2> DEFINE alone == [q EXCEPT !.status = "active", !.country = {}, !.dsc = None,
                                !.after = None, !.before = None, !.area = {a}, !.word = None]
             v == Latest
  <2>1. v \in Version
    BY DEF DbInv, Latest
  <2>2. /\ alone.status = "active" /\ alone.country = {} /\ alone.dsc = None
        /\ alone.after = None /\ alone.before = None /\ alone.area = {a} /\ alone.word = None
    <3>1. q = [status |-> q.status, country |-> q.country, dsc |-> q.dsc, after |-> q.after,
               before |-> q.before, area |-> q.area, word |-> q.word]
      BY ReadApiAssumption
    <3> QED
      BY <3>1
  <2> HIDE DEF alone, v
  <2>3. Found(v, alone) = {id \in Active(v) : a \in ToSet(v.mirror[id].content.areas)}
    BY <2>2 DEF Found, HasStatus, Active
  <2>4. ByArea(v, a) = Cardinality(Found(v, alone))
    BY <2>1, <2>3, ByAreaCountsFlaggers
  <2> QED
    BY <2>4 DEF alone, v
<1> QED
  BY <1>1, InitDbInv, StepDbInv, PTL DEF Spec

\* Classes that share out a finite set have as many elements together.
LEMMA ClassesAddUp ==
    ASSUME NEW A, IsFiniteSet(A), NEW B \in [Country -> SUBSET A],
           \A c, d \in Country : c # d => B[c] \intersect B[d] = {},
           A = UNION {B[c] : c \in Country},
           NEW f, f = [c \in Country |-> Cardinality(B[c])]
    PROVE  SumOf(f) = Cardinality(A)
<1> DEFINE iter == CHOOSE g : Sums(g, f, DOMAIN f)
<1>1. SumOf(f) = iter[DOMAIN f]
  BY Zenon DEF SumOf, MapThenSumSet, MapThenFoldSet, Sums
<1>2. ASSUME NEW c \in Country
      PROVE  IsFiniteSet(B[c]) /\ Cardinality(B[c]) \in Nat
  <2>1. B[c] \in SUBSET A
    OBVIOUS
  <2> QED
    BY <2>1, FS_Subset, FS_CardinalityType
<1>3. IsFiniteSet(Country) /\ Disjoint(B, Country)
  BY <1>2, ReadApiAssumption DEF Disjoint
<1>4. /\ DOMAIN f = Country /\ f \in [Country -> Nat]
      /\ \A c \in Country : f[c] = Cardinality(B[c])
  BY <1>2
<1>5. \E g : Sums(g, f, Country)
  BY <1>3, <1>4, SumHasSolution
<1>6. Sums(iter, f, Country)
  BY <1>4, <1>5
<1> HIDE DEF iter
<1>7. iter[Country] = Cardinality(UNION {B[c] : c \in Country})
  BY <1>3, <1>4, <1>6, SumOfDisjointSets
<1> QED
  BY <1>1, <1>4, <1>7

\* Every active flagger has one country and one country of its DSC.
LEMMA CountsAddUp ==
    ASSUME NEW v \in Version
    PROVE  /\ SumOf(ByCountry(v)) = Cardinality(Active(v))
           /\ SumOf(ByDsc(v)) = Cardinality(Active(v))
<1> DEFINE A == Active(v)
           ofCountry == [c \in Country |-> {id \in A : v.mirror[id].content.country = c}]
           ofDsc == [c \in Country |-> {id \in A : v.mirror[id].content.dsc = c}]
<1>1. IsFiniteSet(A)
  BY ActiveRows
<1>2. \A id \in A : /\ v.mirror[id].content.country \in Country
                    /\ v.mirror[id].content.dsc \in Country
  BY ActiveRows, ContentCounts
<1>3. SumOf(ByCountry(v)) = Cardinality(A)
  <2>1. /\ ofCountry \in [Country -> SUBSET A]
        /\ \A c, d \in Country : c # d => ofCountry[c] \intersect ofCountry[d] = {}
        /\ A = UNION {ofCountry[c] : c \in Country}
    BY <1>2
  <2>2. ByCountry(v) = [c \in Country |-> Cardinality(ofCountry[c])]
    BY DEF ByCountry
  <2> HIDE DEF ofCountry, A
  <2> QED
    BY <1>1, <2>1, <2>2, ClassesAddUp
<1>4. SumOf(ByDsc(v)) = Cardinality(A)
  <2>1. /\ ofDsc \in [Country -> SUBSET A]
        /\ \A c, d \in Country : c # d => ofDsc[c] \intersect ofDsc[d] = {}
        /\ A = UNION {ofDsc[c] : c \in Country}
    BY <1>2
  <2>2. ByDsc(v) = [c \in Country |-> Cardinality(ofDsc[c])]
    BY DEF ByDsc
  <2> HIDE DEF ofDsc, A
  <2> QED
    BY <1>1, <2>1, <2>2, ClassesAddUp
<1> QED
  BY <1>3, <1>4

\* Sets that differ by few elements differ little in size.
LEMMA CloseWhenFewDiffer ==
    ASSUME NEW A, NEW B, NEW D, IsFiniteSet(A), IsFiniteSet(B), IsFiniteSet(D),
           A \subseteq B \union D, B \subseteq A \union D
    PROVE  /\ Cardinality(A) \in Nat /\ Cardinality(B) \in Nat /\ Cardinality(D) \in Nat
           /\ Close(Cardinality(A), Cardinality(B), Cardinality(D))
<1>1. ASSUME NEW X, NEW Y, IsFiniteSet(X), IsFiniteSet(Y), X \subseteq Y \union D
      PROVE  Cardinality(X) <= Cardinality(Y) + Cardinality(D)
  <2>1. /\ IsFiniteSet(Y \union D)
        /\ Cardinality(Y \union D)
               = Cardinality(Y) + Cardinality(D) - Cardinality(Y \intersect D)
    BY <1>1, FS_Union
  <2>2. Cardinality(X) <= Cardinality(Y \union D)
    BY <1>1, <2>1, FS_Subset
  <2>3. IsFiniteSet(Y \intersect D)
    BY <1>1, FS_Intersection
  <2> QED
    BY <1>1, <2>1, <2>2, <2>3, FS_CardinalityType
<1> QED
  BY <1>1, FS_CardinalityType DEF Close

\* Two versions agree on the flaggers that did not change in between.
LEMMA FewDiffer ==
    ASSUME NEW i, NEW j, NEW q
    PROVE  LET D == Changed(i, j)
               u == versions[i]
               w == versions[j]
           IN  /\ IsFiniteSet(D)
               /\ Close(Cardinality(Active(w)), Cardinality(Active(u)), Cardinality(D))
               /\ /\ Cardinality(Found(u, q)) \in Nat /\ Cardinality(Found(w, q)) \in Nat
                  /\ Cardinality(D) \in Nat
               /\ Close(Cardinality(Found(w, q)), Cardinality(Found(u, q)), Cardinality(D))
<1> DEFINE D == Changed(i, j)
           u == versions[i]
           w == versions[j]
<1>1. /\ D \in SUBSET Id
      /\ Active(u) \in SUBSET Id /\ Active(w) \in SUBSET Id
      /\ Found(u, q) \in SUBSET Id /\ Found(w, q) \in SUBSET Id
  BY DEF Changed, Active, Found, Known
<1>2. Active(w) \subseteq Active(u) \union D /\ Active(u) \subseteq Active(w) \union D
  BY DEF Changed, Active, Known
<1>3. Found(w, q) \subseteq Found(u, q) \union D /\ Found(u, q) \subseteq Found(w, q) \union D
  BY DEF Changed, Found, HasStatus, Active, Known
<1> HIDE DEF D, u, w
<1>4. /\ IsFiniteSet(D) /\ IsFiniteSet(Active(u)) /\ IsFiniteSet(Active(w))
      /\ IsFiniteSet(Found(u, q)) /\ IsFiniteSet(Found(w, q))
  BY <1>1, ReadApiAssumption, FS_Subset
<1>5. Close(Cardinality(Active(w)), Cardinality(Active(u)), Cardinality(D))
  BY <1>2, <1>4, CloseWhenFewDiffer
<1>6. /\ Cardinality(Found(w, q)) \in Nat /\ Cardinality(Found(u, q)) \in Nat
      /\ Cardinality(D) \in Nat
      /\ Close(Cardinality(Found(w, q)), Cardinality(Found(u, q)), Cardinality(D))
  BY <1>3, <1>4, CloseWhenFewDiffer
<1> QED
  BY <1>4, <1>5, <1>6 DEF D, u, w

\* A window takes from n places what is left of them behind its offset.
LEMMA WindowLength ==
    ASSUME NEW n \in Nat, NEW offset \in Nat, NEW first \in {1, offset + 1}
    PROVE  Cardinality((first .. n) \intersect (offset + 1 .. offset + PageSize))
               = IF n <= offset THEN 0
                 ELSE IF n <= offset + PageSize THEN n - offset ELSE PageSize
<1>0. PageSize \in Nat
  BY ReadApiAssumption
<1>1. CASE n <= offset
  <2>1. (first .. n) \intersect (offset + 1 .. offset + PageSize) = {}
    BY <1>0, <1>1
  <2> QED
    BY <1>1, <2>1, FS_EmptySet
<1>2. CASE ~(n <= offset) /\ n <= offset + PageSize
  <2>1. (first .. n) \intersect (offset + 1 .. offset + PageSize) = offset + 1 .. n
    BY <1>0, <1>2
  <2>2. Cardinality(offset + 1 .. n) = n - offset
    BY <1>2, FS_Interval
  <2> QED
    BY <1>2, <2>1, <2>2
<1>3. CASE ~(n <= offset) /\ ~(n <= offset + PageSize)
  <2>1. (first .. n) \intersect (offset + 1 .. offset + PageSize)
            = offset + 1 .. offset + PageSize
    BY <1>0, <1>3
  <2>2. Cardinality(offset + 1 .. offset + PageSize) = PageSize
    BY <1>0, FS_Interval
  <2> QED
    BY <1>3, <2>1, <2>2
<1> QED
  BY <1>1, <1>2, <1>3

\* A 200 comes after the last SELECT, and a page of the list is as long as the
\* version it was read from has it.
AnswerInv ==
    /\ Answered => request.endpoint = "preflight" \/ Len(reads) = Len(Todo)
    /\ Listing /\ Len(reads) >= 2 => page = PageLength(versions[reads[2]], request)

LEMMA PageLengthNext ==
    ASSUME page' = PageLength(versions'[reads'[2]], request')
    PROVE  (page = PageLength(versions[reads[2]], request))'
BY DEF PageLength, Subject, Window, Found, Changes, EventsOf, At, Known, Active, HasStatus

LEMMA StepAnswerInv ==
    DbInv /\ CallInv /\ ListInv /\ AnswerInv /\ [Next]_vars => AnswerInv'
<1> SUFFICES ASSUME DbInv, CallInv, ListInv, AnswerInv, [Next]_vars PROVE AnswerInv'
  OBVIOUS
<1>0. /\ versions \in Seq(Version) /\ Len(versions) \in Nat \ {0}
      /\ reads \in Seq(1 .. Len(versions)) /\ Len(reads) \in Nat
  BY DEF DbInv, CallInv
<1>1. CASE Begin \/ Commit \/ UNCHANGED vars
  <2>1. UNCHANGED <<request, reads, page, response>>
    BY <1>1 DEF Begin, Commit, vars, callVars
  <2>2. \A k \in 1 .. Len(versions) : versions'[k] = versions[k]
    <3>1. \/ versions' = versions
          \/ \E w : versions' = Append(versions, w)
      BY <1>1 DEF Begin, Commit, vars
    <3> QED
      BY <1>0, <3>1
  <2>3. ASSUME Listing', Len(reads') >= 2
        PROVE  (page = PageLength(versions[reads[2]], request))'
    <3>1. page = PageLength(versions[reads[2]], request)
      BY <2>1, <2>3 DEF AnswerInv, Listing
    <3>2. reads[2] \in 1 .. Len(versions)
      BY <1>0, <2>1, <2>3, ElementOfSeq
    <3>3. page' = PageLength(versions'[reads'[2]], request')
      BY <2>1, <2>2, <3>1, <3>2
    <3> QED
      BY <3>3, PageLengthNext
  <2>4. Answered' => request'.endpoint = "preflight" \/ Len(reads') = Len(Todo')
    BY <2>1 DEF Answered, Todo, AnswerInv
  <2> QED
    BY <2>3, <2>4 DEF AnswerInv
<1>2. CASE Select
  <2> DEFINE l == Len(versions)
  <2>1. /\ reads' = Append(reads, l) /\ Len(reads) < Len(Todo)
        /\ IF Todo[Len(reads) + 1] = "page"
           THEN \E P \in PagesOf(versions[l], request) : page' = Cardinality(P)
           ELSE page' = page
        /\ response' = None /\ UNCHANGED <<versions, request>>
    BY <1>2 DEF Select, Snapshot, AtHandler, dbVars
  <2>2. Len(reads') = Len(reads) + 1 /\ reads'[Len(reads) + 1] = l
        /\ \A k \in 1 .. Len(reads) : reads'[k] = reads[k]
    <3>1. l \in 1 .. l /\ reads \in Seq(1 .. l)
      BY <1>0
    <3> HIDE DEF l
    <3> QED
      BY <2>1, <3>1, AppendProperties
  <2>3. ASSUME Listing', Len(reads') >= 2
        PROVE  (page = PageLength(versions[reads[2]], request))'
    <3>1. Listing /\ Len(Todo) = 3 /\ Todo[2] = "page" /\ Todo[3] = "dated"
      <4>1. Listing /\ Todo = Statements["list"]
        BY <2>1, <2>3 DEF Listing, Todo
      <4> QED
        BY <4>1, ListStatements
    <3>2. CASE Len(reads) = 1
      <4>1. PICK P \in PagesOf(versions[l], request) : page' = Cardinality(P)
        BY <2>1, <3>1, <3>2
      <4>2. versions[l] \in Version
        BY <1>0, ElementOfSeq
      <4>3. Cardinality(P) = PageLength(versions[l], request)
        BY <3>1, <4>2, ListOrdered, PageHasLength DEF Listing
      <4>4. page' = PageLength(versions'[reads'[2]], request')
        BY <2>1, <2>2, <3>2, <4>1, <4>3
      <4> QED
        BY <4>4, PageLengthNext
    <3>3. CASE Len(reads) = 2
      <4>1. page' = page /\ reads'[2] = reads[2]
        BY <2>1, <2>2, <3>1, <3>3
      <4>2. page = PageLength(versions[reads[2]], request)
        BY <3>1, <3>3 DEF AnswerInv
      <4>3. page' = PageLength(versions'[reads'[2]], request')
        BY <2>1, <4>1, <4>2
      <4> QED
        BY <4>3, PageLengthNext
    <3>4. Len(reads) = 1 \/ Len(reads) = 2
      <4>1. Len(reads) < 3
        BY <2>1, <3>1
      <4>2. Len(reads) + 1 >= 2
        BY <2>2, <2>3
      <4>3. \A n \in Nat : n < 3 /\ n + 1 >= 2 => n = 1 \/ n = 2
        OBVIOUS
      <4> QED
        BY <1>0, <4>1, <4>2, <4>3, Zenon
    <3> QED
      BY <3>2, <3>3, <3>4
  <2>4. ~Answered'
    BY <2>1 DEF Answered
  <2> QED
    BY <2>3, <2>4 DEF AnswerInv
<1>3. CASE Ask \/ AskNextPage \/ TurnAway
  <2>1. reads' = <<>> /\ response' = None
    BY <1>3 DEF Ask, AskNextPage, TurnAway, Send
  <2>2. Len(reads') = 0 /\ ~Answered'
    BY <2>1 DEF Answered
  <2> QED
    BY <2>2 DEF AnswerInv
<1>4. ASSUME \/ AnswerPreflight \/ PassLayer \/ RefuseRequest \/ RedisAway \/ DatabaseAway
             \/ RefuseBadRequest \/ AnswerNotFound \/ Answer
      PROVE  AnswerInv'
  <2>1. UNCHANGED <<versions, request, reads, page>>
    BY <1>4 DEF AnswerPreflight, PassLayer, RefuseRequest, RedisAway, DatabaseAway,
                RefuseBadRequest, AnswerNotFound, Answer, Respond, Raise, dbVars, walkVars
  <2>2. Answered' => request.endpoint = "preflight" \/ Len(reads) = Len(Todo)
    <3>1. CASE AnswerPreflight
      BY <3>1 DEF AnswerPreflight
    <3>2. CASE PassLayer
      BY <3>2 DEF PassLayer, PassCors, AtLayer, Answered
    <3>3. CASE RefuseRequest \/ RedisAway \/ DatabaseAway \/ RefuseBadRequest \/ AnswerNotFound
      <4>1. response'.status # 200
        BY <3>3 DEF RefuseRequest, RedisAway, DatabaseAway, RefuseBadRequest, AnswerNotFound,
                    Respond, Raise
      <4> QED
        BY <4>1 DEF Answered
    <3>4. CASE Answer
      BY <3>4 DEF Answer
    <3> QED
      BY <1>4, <3>1, <3>2, <3>3, <3>4
  <2>3. ASSUME Listing', Len(reads') >= 2
        PROVE  (page = PageLength(versions[reads[2]], request))'
    <3>1. page' = PageLength(versions'[reads'[2]], request')
      BY <2>1, <2>3 DEF AnswerInv, Listing
    <3> QED
      BY <3>1, PageLengthNext
  <2>4. Todo' = Todo
    BY <2>1 DEF Todo
  <2> QED
    BY <2>1, <2>2, <2>3, <2>4 DEF AnswerInv
<1> QED
  BY <1>1, <1>2, <1>3, <1>4 DEF Next

\* The SELECTs of GET /v1/stats.
LEMMA StatsStatements ==
    ASSUME NEW todo, todo = Statements["stats"]
    PROVE  /\ Len(todo) = 5 /\ todo[1] = "total" /\ todo[2] = "by_country"
           /\ todo[3] = "by_dsc" /\ todo[4] = "by_area" /\ todo[5] = "dated"
<1> DEFINE data == <<"total", "by_country", "by_dsc", "by_area">>
           date == <<"dated">>
<1>1. /\ data \in Seq(Name) /\ Len(data) = 4 /\ data[1] = "total" /\ data[2] = "by_country"
      /\ data[3] = "by_dsc" /\ data[4] = "by_area"
      /\ date \in Seq(Name) /\ Len(date) = 1 /\ date[1] = "dated"
  BY DEF Name
<1>2. todo = data \o date
  BY DEF Statements, StatsSelects, ThenDated
<1> HIDE DEF data, date
<1>3. /\ Len(data \o date) = Len(data) + Len(date)
      /\ \A k \in 1 .. Len(data) + Len(date) :
             (data \o date)[k] = IF k <= Len(data) THEN data[k] ELSE date[k - Len(data)]
  BY <1>1, ConcatProperties
<1> QED
  BY <1>1, <1>2, <1>3

\* The counts of one answer come from SELECTs of their own.  They disagree by
\* no more than the flaggers that changed in between: the countries and the
\* DSC countries of GET /v1/stats share out its total, and a page of the list
\* is as long as its total allows.
THEOREM SpecAnswersAddUp == Spec => []AnswersAddUp
<1>1. Init => ListInv /\ AnswerInv
  BY DEF Init, ListInv, AnswerInv, Listing, Answered
<1>2. DbInv /\ CallInv /\ ListInv /\ AnswerInv => AnswersAddUp
  <2> SUFFICES ASSUME DbInv, CallInv, ListInv, AnswerInv, Answered PROVE AnswersAddUp
    BY DEF AnswersAddUp
  <2>0. /\ reads \in Seq(1 .. Len(versions)) /\ DOMAIN reads = 1 .. Len(reads)
        /\ \A k \in 1 .. Len(reads) : versions[reads[k]] \in Version
    <3>1. reads \in Seq(1 .. Len(versions)) /\ versions \in Seq(Version)
      BY DEF CallInv, DbInv
    <3>2. \A k \in 1 .. Len(reads) : reads[k] \in 1 .. Len(versions)
      BY <3>1, ElementOfSeq
    <3> QED
      BY <3>1, <3>2, ElementOfSeq, LenProperties
  <2>1. ASSUME request.endpoint = "stats"
        PROVE  LET total   == Cardinality(Active(versions[ReadBy("total")]))
                   slack(name) == Cardinality(Changed(ReadBy("total"), ReadBy(name)))
               IN  /\ Close(SumOf(ByCountry(versions[ReadBy("by_country")])), total,
                            slack("by_country"))
                   /\ Close(SumOf(ByDsc(versions[ReadBy("by_dsc")])), total, slack("by_dsc"))
    <3>1. /\ Len(Todo) = 5 /\ Todo[1] = "total" /\ Todo[2] = "by_country"
          /\ Todo[3] = "by_dsc" /\ Todo[4] = "by_area" /\ Todo[5] = "dated"
      BY <2>1, StatsStatements DEF Todo
    <3>2. DOMAIN reads = 1 .. 5 /\ Len(reads) = 5
      BY <2>0, <2>1, <3>1 DEF AnswerInv
    <3>3. ReadBy("total") = reads[1] /\ ReadBy("by_country") = reads[2] /\ ReadBy("by_dsc") = reads[3]
      BY <3>1, <3>2 DEF ReadBy
    <3>4. versions[reads[2]] \in Version /\ versions[reads[3]] \in Version
      BY <2>0, <3>2
    <3>5. /\ SumOf(ByCountry(versions[reads[2]])) = Cardinality(Active(versions[reads[2]]))
          /\ SumOf(ByDsc(versions[reads[3]])) = Cardinality(Active(versions[reads[3]]))
      BY <3>4, CountsAddUp
    <3>6. \A k : Close(Cardinality(Active(versions[k])), Cardinality(Active(versions[reads[1]])),
                       Cardinality(Changed(reads[1], k)))
      BY FewDiffer
    <3> QED
      BY <3>3, <3>5, <3>6
  <2>2. ASSUME request.endpoint = "list"
        PROVE  LET total == Cardinality(Found(versions[ReadBy("count")], request.arg))
                   due   == Cardinality(((request.offset + 1)..total)
                                \intersect ((request.offset + 1)..(request.offset + PageSize)))
               IN  Close(page, due, Cardinality(Changed(ReadBy("count"), ReadBy("page"))))
    <3> DEFINE q == request.arg
               offset == request.offset
               i == reads[1]
               j == reads[2]
               m == Cardinality(Found(versions[i], q))
               n == Cardinality(Found(versions[j], q))
               slack == Cardinality(Changed(i, j))
               part(k) == IF k <= offset THEN 0
                          ELSE IF k <= offset + PageSize THEN k - offset ELSE PageSize
    <3>1. Len(Todo) = 3 /\ Todo[1] = "count" /\ Todo[2] = "page" /\ Todo[3] = "dated"
      BY <2>2, ListStatements DEF Todo
    <3>2. DOMAIN reads = 1 .. 3 /\ Len(reads) = 3
      BY <2>0, <2>2, <3>1 DEF AnswerInv
    <3>3. ReadBy("count") = i /\ ReadBy("page") = j
      BY <3>1, <3>2 DEF ReadBy
    <3>4. Listing /\ offset \in Nat /\ PageSize \in Nat
      <4>1. Listing
        BY <2>2 DEF Listing, Answered, CallInv
      <4> QED
        BY <4>1, ReadApiAssumption DEF ListInv
    <3>5. m \in Nat /\ n \in Nat /\ slack \in Nat /\ Close(n, m, slack)
      BY FewDiffer
    <3>6. page = part(n)
      <4>1. page = PageLength(versions[j], request)
        BY <3>2, <3>4 DEF AnswerInv
      <4>2. Subject(versions[j], request) = Found(versions[j], q)
        BY <2>2 DEF Subject
      <4>3. PageLength(versions[j], request)
                = Cardinality((1 .. n) \intersect (offset + 1 .. offset + PageSize))
        BY <4>2 DEF PageLength, Window
      <4> HIDE DEF n, offset
      <4> QED
        BY <3>4, <3>5, <4>1, <4>3, WindowLength
    <3>7. Cardinality((offset + 1 .. m) \intersect (offset + 1 .. offset + PageSize)) = part(m)
      <4> HIDE DEF m, offset
      <4> QED
        BY <3>4, <3>5, WindowLength
    <3>8. Close(part(n), part(m), slack)
      <4> HIDE DEF m, n, offset, slack
      <4> QED
        BY <3>4, <3>5 DEF Close
    <3> QED
      BY <3>3, <3>6, <3>7, <3>8
  <2> QED
    BY <2>1, <2>2 DEF AnswersAddUp
<1> QED
  BY <1>1, <1>2, InitDbInv, StepDbInv, InitCallInv, StepCallInv, StepListInv, StepAnswerInv,
     PTL DEF Spec
=============================================================================
