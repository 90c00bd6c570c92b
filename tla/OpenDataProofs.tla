--------------------------- MODULE OpenDataProofs ---------------------------
(***************************************************************************)
(* Proofs about OpenData, for any Jobs, any register and any faults: type  *)
(* correctness, that the open-data branch only moves forward even when     *)
(* Jobs overlap, and, when they do not, that every commit of it is of one  *)
(* moment and a push leaves it current.                                    *)
(***************************************************************************)
EXTENDS OpenData, TLAPS, SequenceTheorems

(***************************************************************************)
(* Steps                                                                   *)
(***************************************************************************)
\* What the steps of one Job's pods are.
JobStep(j) == CreateJob(j) \/ Advance(j) \/ Kill(j) \/ Evict(j)

\* A Job does not touch another one's pod, clone or process.
LEMMA OthersStay ==
    ASSUME TypeOK, NEW j \in Job, JobStep(j), NEW k \in Job \ {j}
    PROVE  /\ job'[k] = job[k] /\ retries'[k] = retries[k] /\ pc'[k] = pc[k]
           /\ clone'[k] = clone[k] /\ ahead'[k] = ahead[k] /\ files'[k] = files[k]
           /\ changed'[k] = changed[k] /\ code'[k] = code[k]
           /\ table'[k] = table[k] /\ log'[k] = log[k]
<1> USE DEF TypeOK, Goto, repo, locals, Write, MayTear, ForgetLocals, ForgetVolume, CountRetry,
            EndJob
<1>1. CASE CreateJob(j)
  BY <1>1 DEF CreateJob
<1>2. CASE Clone(j) \/ Ingest(j) \/ IngestFails(j) \/ SelectRows(j) \/ SelectEvents(j)
  BY <1>2 DEF Clone, Ingest, IngestFails, SelectRows, SelectEvents
<1>3. CASE WriteJson(j) \/ WriteCsv(j) \/ WriteChangelog(j) \/ ExportFails(j)
  BY <1>3 DEF WriteJson, WriteCsv, WriteChangelog, ExportFails
<1>4. CASE Gate(j) \/ Commit(j) \/ Push(j) \/ PushFails(j)
  BY <1>4 DEF Gate, Commit, Push, PushFails
<1>5. CASE Exit(j)
  BY <1>5 DEF Exit
<1>6. CASE Kill(j) \/ Evict(j)
  BY <1>6 DEF Kill, Evict
<1> QED
  BY <1>1, <1>2, <1>3, <1>4, <1>5, <1>6 DEF JobStep, Advance

(***************************************************************************)
(* Type correctness                                                        *)
(***************************************************************************)
\* A pod belongs to an active Job, which has a retry left.
PodsOfActiveJobs ==
    \A j \in Job : /\ pc[j] # "none" => job[j] = "active" /\ retries[j] <= BackoffLimit
                   /\ job[j] = "idle" => retries[j] = 0

TypeInv == TypeOK /\ PodsOfActiveJobs

\* An export of one moment that has been is an export.
LEMMA WholeIsExport == \A n \in 0 .. MaxVersion : Whole(n) \in Export
BY OpenDataAssumption DEF Whole, Export, Torn

LEMMA InitTypeInv == Init => TypeInv
<1> SUFFICES ASSUME Init PROVE TypeInv
  OBVIOUS
<1>1. Whole(0) \in Export /\ 0 \in 0 .. MaxVersion /\ 0 \in 0 .. BackoffLimit + 1
  BY WholeIsExport, OpenDataAssumption
<1>2. <<Whole(0)>> \in Seq(Export) /\ <<Whole(0)>> # <<>> /\ <<>> \in Seq(Export)
  BY <1>1
<1> QED
  BY <1>1, <1>2, OpenDataAssumption DEF Init, TypeInv, TypeOK, PodsOfActiveJobs

\* The branches that can be made from one are sequences of exports.
LEMMA BranchType ==
    ASSUME TypeOK, NEW j \in Job
    PROVE  /\ clone[j] \o ahead[j] \in Seq(Export)
           /\ Append(ahead[j], files[j]) \in Seq(Export)
           /\ clone[j] # <<>> => clone[j] \o ahead[j] # <<>>
           /\ Last(remote) \in Export
<1>1. /\ clone[j] \in Seq(Export) /\ ahead[j] \in Seq(Export) /\ files[j] \in Export
      /\ remote \in Seq(Export) /\ remote # <<>>
  BY DEF TypeOK
<1>2. Last(remote) \in Export
  BY <1>1 DEF Last
<1>3. clone[j] \o ahead[j] \in Seq(Export) /\ Append(ahead[j], files[j]) \in Seq(Export)
  BY <1>1
<1>4. clone[j] # <<>> => clone[j] \o ahead[j] # <<>>
  BY <1>1
<1> QED
  BY <1>1, <1>2, <1>3, <1>4

\* What ends a container or a pod keeps the types.
LEMMA RestartTypeInv ==
    ASSUME TypeInv, NEW j \in Job, Exit(j) \/ Kill(j) \/ Evict(j)
    PROVE  TypeInv'
<1>0. /\ TypeOK /\ pc[j] # "none" /\ retries[j] \in 0 .. BackoffLimit
      /\ BackoffLimit \in Nat /\ Whole(0) \in Export /\ 0 \in 0 .. MaxVersion
      /\ <<>> \in Seq(Export) /\ Torn \in 0 .. Torn
  <2>1. pc[j] # "none"
    BY DEF Exit, Kill, Evict, Stage
  <2>2. TypeOK /\ BackoffLimit \in Nat /\ 0 \in 0 .. MaxVersion /\ Torn \in 0 .. Torn
    BY OpenDataAssumption DEF TypeInv, Torn
  <2>3. retries[j] \in 0 .. BackoffLimit
    BY <2>1, <2>2 DEF TypeInv, TypeOK, PodsOfActiveJobs
  <2> QED
    BY <2>1, <2>2, <2>3, WholeIsExport
<1>1. /\ retries' \in [Job -> 0 .. BackoffLimit + 1]
      /\ pc'[j] # "none" => retries'[j] <= BackoffLimit /\ job'[j] = job[j]
      /\ pc'[j] = "none" => job'[j] # "idle"
      /\ job' \in [Job -> {"idle", "active", "complete", "failed"}]
      /\ pc' \in [Job -> Stage \union {"none"}]
  <2>0. /\ retries \in [Job -> 0 .. BackoffLimit + 1]
        /\ job \in [Job -> {"idle", "active", "complete", "failed"}]
        /\ pc \in [Job -> Stage \union {"none"}]
        /\ retries[j] + 1 \in 0 .. BackoffLimit + 1
        /\ "ingest" \in Stage /\ "clone" \in Stage
    BY <1>0 DEF TypeOK, Stage
  <2>1. CASE GivenUp(j) /\ EndJob(j, "failed") /\ CountRetry(j)
    BY <2>0, <2>1 DEF EndJob, Goto, CountRetry
  <2>2. CASE /\ ~GivenUp(j) /\ CountRetry(j) /\ job' = job
             /\ (Goto(j, "ingest") \/ Goto(j, "clone"))
    <3>1. retries[j] + 1 <= BackoffLimit
      BY <1>0, <2>2 DEF GivenUp
    <3> QED
      BY <2>0, <2>2, <3>1 DEF Goto, CountRetry
  <2>3. CASE EndJob(j, "complete") /\ retries' = retries
    BY <2>0, <2>3 DEF EndJob, Goto
  <2> QED
    BY <2>1, <2>2, <2>3 DEF Exit, Kill, Evict
<1>8. \/ ForgetVolume(j)
      \/ /\ UNCHANGED <<clone, ahead>>
         /\ UNCHANGED files \/ (pc[j] \in File /\ Write(j, pc[j], Torn))
  <2>1. CASE Exit(j)
    <3>1. ForgetVolume(j) \/ UNCHANGED <<job, repo>>
      BY <2>1 DEF Exit, EndJob
    <3> QED
      BY <3>1 DEF repo
  <2>2. CASE Kill(j)
    <3>1. ForgetVolume(j) \/ (MayTear(j) /\ UNCHANGED <<job, clone, ahead>>)
      BY <2>2 DEF Kill, EndJob
    <3> QED
      BY <3>1 DEF MayTear
  <2>3. CASE Evict(j)
    BY <2>3 DEF Evict, EndJob
  <2> QED
    BY <2>1, <2>2, <2>3
<1>9. clone \in [Job -> Seq(Export)] /\ ahead \in [Job -> Seq(Export)] /\ files \in [Job -> Export]
  BY <1>0 DEF TypeOK
<1>2. files' \in [Job -> Export]
  <2>1. CASE UNCHANGED files
    BY <1>9, <2>1
  <2>2. CASE ForgetVolume(j)
    BY <1>0, <1>9, <2>2 DEF ForgetVolume
  <2>3. CASE pc[j] \in File /\ Write(j, pc[j], Torn)
    BY <1>0, <1>9, <2>3 DEF Write, Export
  <2> QED
    BY <1>8, <2>1, <2>2, <2>3
<1>3. clone' \in [Job -> Seq(Export)] /\ ahead' \in [Job -> Seq(Export)]
  <2>1. CASE UNCHANGED <<clone, ahead>>
    BY <1>9, <2>1
  <2>2. CASE ForgetVolume(j)
    BY <1>0, <1>9, <2>2 DEF ForgetVolume
  <2> QED
    BY <1>8, <2>1, <2>2
<1>4. /\ version' = version /\ remote' = remote
      /\ changed' \in [Job -> BOOLEAN] /\ code' \in [Job -> 0 .. 2]
      /\ table' \in [Job -> 0 .. MaxVersion] /\ log' \in [Job -> 0 .. MaxVersion]
  <2>1. version' = version /\ remote' = remote /\ ForgetLocals(j)
    BY DEF Exit, Kill, Evict
  <2>2. changed' \in [Job -> BOOLEAN]
    BY <1>0, <2>1 DEF ForgetLocals, TypeOK
  <2>3. code' \in [Job -> 0 .. 2]
    BY <1>0, <2>1 DEF ForgetLocals, TypeOK
  <2>4. table' \in [Job -> 0 .. MaxVersion] /\ log' \in [Job -> 0 .. MaxVersion]
    BY <1>0, <2>1 DEF ForgetLocals, TypeOK
  <2> QED
    BY <2>1, <2>2, <2>3, <2>4
<1>5. TypeOK'
  BY <1>0, <1>1, <1>2, <1>3, <1>4 DEF TypeOK
<1>6. \A k \in Job \ {j} : job'[k] = job[k] /\ retries'[k] = retries[k] /\ pc'[k] = pc[k]
  BY <1>0, OthersStay DEF JobStep, Advance
<1>7. PodsOfActiveJobs'
  BY <1>0, <1>1, <1>6 DEF PodsOfActiveJobs, TypeInv
<1> QED
  BY <1>5, <1>7 DEF TypeInv

\* Every step keeps the types.
LEMMA StepTypeInv == TypeInv /\ [Next]_vars => TypeInv'
<1> SUFFICES ASSUME TypeInv, [Next]_vars PROVE TypeInv'
  OBVIOUS
<1>0. TypeOK /\ PodsOfActiveJobs
  BY DEF TypeInv
<1>1. ASSUME NEW j \in Job, CreateJob(j) PROVE TypeInv'
  <2>1. TypeOK'
    BY <1>0, <1>1 DEF CreateJob, Goto, Stage, TypeOK, repo, locals
  <2>2. PodsOfActiveJobs'
    BY <1>0, <1>1, OpenDataAssumption
    DEF CreateJob, Goto, Stage, TypeOK, PodsOfActiveJobs
  <2> QED
    BY <2>1, <2>2 DEF TypeInv
<1>2. ASSUME NEW j \in Job, Exit(j) \/ Kill(j) \/ Evict(j) PROVE TypeInv'
  BY <1>2, RestartTypeInv
<1>3. ASSUME NEW j \in Job, pc[j] \in Stage, Advance(j), ~Exit(j) PROVE TypeInv'
  <2>0. Export # {} /\ 0 .. MaxVersion \subseteq 0 .. Torn /\ Torn \in 0 .. Torn
    BY WholeIsExport, OpenDataAssumption DEF Torn
  <2>1. /\ job' = job /\ retries' = retries
        /\ \E stage \in Stage : pc' = [pc EXCEPT ![j] = stage]
    BY <1>3 DEF Advance, Clone, Ingest, IngestFails, SelectRows, SelectEvents, WriteJson,
           WriteCsv, WriteChangelog, ExportFails, Gate, Commit, Push, PushFails, Goto, Stage
  <2>2. pc' \in [Job -> Stage \union {"none"}]
    BY <1>0, <2>1 DEF TypeOK
  <2>3. PodsOfActiveJobs'
    BY <1>0, <1>3, <2>1 DEF PodsOfActiveJobs, TypeOK, Stage
  <2>4. TypeOK'
    <3>1. CASE Clone(j)
      BY <1>0, <2>2, <2>1, <3>1, BranchType DEF Clone, TypeOK, locals
    <3>2. CASE Ingest(j) \/ IngestFails(j)
      <4>1. version' \in 0 .. MaxVersion
        BY <1>0, <3>2, OpenDataAssumption DEF Ingest, IngestFails, TypeOK
      <4>2. code' \in [Job -> 0 .. 2]
        <5>1. code \in [Job -> 0 .. 2]
          BY <1>0 DEF TypeOK
        <5>2. PICK c \in 0 .. 2 : code' = [code EXCEPT ![j] = c]
          BY <3>2 DEF Ingest, IngestFails
        <5> QED
          BY <5>1, <5>2
      <4>3. changed' = changed \/ changed' = [changed EXCEPT ![j] = version' # version]
        BY <3>2 DEF Ingest, IngestFails
      <4>4. (version' # version) \in BOOLEAN /\ changed \in [Job -> BOOLEAN]
        BY <1>0 DEF TypeOK
      <4>5. changed' \in [Job -> BOOLEAN]
        BY <4>3, <4>4, Zenon
      <4> QED
        BY <1>0, <2>1, <2>2, <3>2, <4>1, <4>2, <4>5 DEF Ingest, IngestFails, TypeOK, repo
    <3>3. CASE SelectRows(j) \/ SelectEvents(j)
      BY <1>0, <2>1, <2>2, <3>3 DEF SelectRows, SelectEvents, TypeOK, repo
    <3>4. CASE WriteJson(j) \/ WriteCsv(j) \/ WriteChangelog(j) \/ ExportFails(j)
      <4>1. \/ UNCHANGED files
            \/ \E f \in File, n \in 0 .. Torn : files' = [files EXCEPT ![j][f] = n]
        BY <1>0, <2>0, <3>4
        DEF WriteJson, WriteCsv, WriteChangelog, ExportFails, MayTear, Write, TypeOK, File
      <4>2. files' \in [Job -> Export]
        <5>1. CASE UNCHANGED files
          BY <1>0, <5>1 DEF TypeOK
        <5>2. ASSUME NEW f \in File, NEW n \in 0 .. Torn, files' = [files EXCEPT ![j][f] = n]
              PROVE  files' \in [Job -> Export]
          <6>1. [files[j] EXCEPT ![f] = n] \in Export
            BY <1>0, <5>2 DEF TypeOK, Export
          <6> QED
            BY <1>0, <5>2, <6>1 DEF TypeOK
        <5> QED
          BY <4>1, <5>1, <5>2
      <4> QED
        BY <1>0, <2>1, <2>2, <3>4, <4>2
        DEF WriteJson, WriteCsv, WriteChangelog, ExportFails, TypeOK, locals
    <3>5. CASE Gate(j) \/ PushFails(j)
      BY <1>0, <2>1, <2>2, <3>5 DEF Gate, PushFails, TypeOK, repo, locals
    <3>6. CASE Commit(j)
      <4>1. ahead' \in [Job -> Seq(Export)]
        <5>1. ahead \in [Job -> Seq(Export)] /\ Append(ahead[j], files[j]) \in Seq(Export)
          BY <1>0, BranchType DEF TypeOK
        <5>2. ahead' = ahead \/ ahead' = [ahead EXCEPT ![j] = Append(ahead[j], files[j])]
          BY <3>6 DEF Commit
        <5> QED
          BY <5>1, <5>2
      <4> QED
        BY <1>0, <2>1, <2>2, <3>6, <4>1 DEF Commit, TypeOK, locals
    <3>7. CASE Push(j)
      BY <1>0, <2>1, <2>2, <3>7, BranchType DEF Push, TypeOK, locals
    <3> QED
      BY <1>3, <3>1, <3>2, <3>3, <3>4, <3>5, <3>6, <3>7 DEF Advance
  <2> QED
    BY <2>3, <2>4 DEF TypeInv
<1>4. ASSUME NEW j \in Job, Advance(j) PROVE pc[j] \in Stage
  BY <1>4 DEF Advance, Clone, Ingest, IngestFails, SelectRows, SelectEvents, WriteJson,
         WriteCsv, WriteChangelog, ExportFails, Gate, Commit, Push, PushFails, Exit, Stage, File
<1>5. CASE UNCHANGED vars
  BY <1>0, <1>5 DEF vars, repo, locals, TypeInv, TypeOK, PodsOfActiveJobs
<1> QED
  BY <1>1, <1>2, <1>3, <1>4, <1>5 DEF Next, AllOver

\* The state of the publication is well typed: no retry beyond the Job's
\* backoffLimit is ever made, and only exports are committed.
THEOREM SpecTypeOK == Spec => []TypeOK
<1>1. TypeInv => TypeOK
  BY DEF TypeInv
<1> QED
  BY <1>1, InitTypeInv, StepTypeInv, PTL DEF Spec

(***************************************************************************)
(* The branch moves forward.  A pod exports what it reads after it cloned, *)
(* so none of its files is older than the head it commits on, and it can   *)
(* push only while that head is still the branch's.                        *)
(***************************************************************************)
NotNewer(tree, n) == \A f \in File : tree[f] <= n

\* The commits added to base differ from the ones before them, and none has a
\* file of an earlier moment.
Onward(base, added) ==
    LET branch == base \o added
    IN  \A i \in Len(base) + 1 .. Len(branch) :
            /\ branch[i] # branch[i - 1]
            /\ \A f \in File : branch[i - 1][f] <= branch[i][f]

\* The files that the run has written by the time it is at a stage.
Written(stage) ==
    {f \in File : \/ f = "json" /\ stage \in {"csv", "changelog", "gate", "commit"}
                  \/ f = "csv" /\ stage \in {"changelog", "gate", "commit"}
                  \/ f = "changelog" /\ stage \in {"gate", "commit"}}

PodForward(j) ==
    /\ pc[j] \in Stage \ {"clone"} =>
           /\ clone[j] # <<>>
           /\ Onward(clone[j], ahead[j])
           /\ NotNewer(HeadTree(j), version)
    /\ pc[j] \in {"events"} \union File =>
           table[j] <= version /\ NotNewer(HeadTree(j), table[j])
    /\ pc[j] \in File => log[j] <= version /\ NotNewer(HeadTree(j), log[j])
    /\ \A f \in Written(pc[j]) : HeadTree(j)[f] <= files[j][f] /\ files[j][f] <= version

ForwardInv == NotNewer(Last(remote), version) /\ \A j \in Job : PodForward(j)

\* A branch with a commit has a head.
LEMMA LastOfBranch ==
    ASSUME NEW base \in Seq(Export), NEW added \in Seq(Export), base # <<>>
    PROVE  Last(base \o added) \in Export
<1>1. base \o added \in Seq(Export) /\ Len(base \o added) = Len(base) + Len(added)
  OBVIOUS
<1>2. Len(base) \in Nat \ {0} /\ Len(added) \in Nat
  OBVIOUS
<1>3. Len(base \o added) \in 1 .. Len(base \o added)
  BY <1>1, <1>2
<1> QED
  BY <1>1, <1>3, ElementOfSeq DEF Last

\* A branch with commits added has the head of those.
LEMMA LastOfAdded ==
    ASSUME NEW base \in Seq(Export), NEW added \in Seq(Export), added # <<>>
    PROVE  Last(base \o added) = Last(added)
<1>1. Len(added) \in 1 .. Len(added) /\ Len(base \o added) = Len(base) + Len(added)
  OBVIOUS
<1>2. (base \o added)[Len(base) + Len(added)] = added[Len(added)]
  BY <1>1
<1> QED
  BY <1>1, <1>2 DEF Last

\* The head of a clone is an export.
LEMMA HeadTreeType ==
    ASSUME TypeOK, NEW j \in Job, clone[j] # <<>>
    PROVE  HeadTree(j) \in Export /\ \A f \in File : HeadTree(j)[f] \in Nat
<1>1. clone[j] \in Seq(Export) /\ ahead[j] \in Seq(Export)
  BY DEF TypeOK
<1>2. HeadTree(j) \in Export
  BY <1>1, LastOfBranch DEF HeadTree
<1> QED
  BY <1>2, OpenDataAssumption DEF Export, Torn

\* A commit that differs from the head and is not older keeps the commits of a
\* clone onward, and is its head.
LEMMA OnwardAppend ==
    ASSUME NEW base \in Seq(Export), NEW added \in Seq(Export), NEW tree \in Export,
           base # <<>>, Onward(base, added),
           tree # Last(base \o added),
           \A f \in File : Last(base \o added)[f] <= tree[f]
    PROVE  Onward(base, Append(added, tree)) /\ Last(base \o Append(added, tree)) = tree
<1> DEFINE old == base \o added
           new == base \o Append(added, tree)
<1>1. /\ new \in Seq(Export) /\ Len(new) = Len(old) + 1 /\ Len(old) \in Nat
      /\ Len(old) >= Len(base) /\ Len(base) \in Nat \ {0}
      /\ new[Len(new)] = tree
      /\ \A i \in 1 .. Len(old) : new[i] = old[i]
  OBVIOUS
<1>2. Last(old) = old[Len(old)]
  BY DEF Last
<1>3. ASSUME NEW i \in Len(base) + 1 .. Len(new)
      PROVE  new[i] # new[i - 1] /\ \A f \in File : new[i - 1][f] <= new[i][f]
  <2>1. CASE i = Len(new)
    <3>1. i - 1 = Len(old) /\ Len(old) \in 1 .. Len(old)
      BY <1>1, <2>1
    <3> QED
      BY <1>1, <1>2, <2>1, <3>1
  <2>2. CASE i # Len(new)
    <3>1. i \in Len(base) + 1 .. Len(old) /\ i \in 1 .. Len(old) /\ i - 1 \in 1 .. Len(old)
      BY <1>1, <2>2
    <3>2. old[i] # old[i - 1] /\ \A f \in File : old[i - 1][f] <= old[i][f]
      BY <3>1 DEF Onward
    <3> QED
      BY <1>1, <3>1, <3>2
  <2> QED
    BY <2>1, <2>2
<1>4. Onward(base, Append(added, tree))
  BY <1>3 DEF Onward
<1> QED
  BY <1>1, <1>4 DEF Last

\* A clone without commits of its own is onward, and its head is the clone's.
LEMMA OnwardEmpty ==
    ASSUME NEW base \in Seq(Export), base # <<>>
    PROVE  Onward(base, <<>>) /\ Last(base \o <<>>) = Last(base)
<1>1. base \o <<>> = base
  OBVIOUS
<1> QED
  BY <1>1 DEF Onward, Last

LEMMA InitForwardInv == Init => ForwardInv
<1> SUFFICES ASSUME Init PROVE ForwardInv
  OBVIOUS
<1>1. Last(remote) = Whole(0)
  BY DEF Init, Last
<1>2. NotNewer(Last(remote), version)
  BY <1>1 DEF Init, NotNewer, Whole
<1>3. \A j \in Job : PodForward(j)
  BY DEF Init, PodForward, Stage, File, Written
<1> QED
  BY <1>2, <1>3 DEF ForwardInv

\* Only ingests change the database, and they make a new version of it.
LEMMA VersionGrows ==
    ASSUME TypeOK, [Next]_vars
    PROVE  version \in Nat /\ version' \in Nat /\ version <= version'
<1>1. version \in Nat
  BY OpenDataAssumption DEF TypeOK
<1>2. version' = version \/ version' = version + 1
  BY DEF Next, CreateJob, Advance, Clone, Ingest, IngestFails, SelectRows, SelectEvents,
         WriteJson, WriteCsv, WriteChangelog, ExportFails, Gate, Commit, Push, PushFails, Exit,
         Kill, Evict, AllOver, vars
<1> QED
  BY <1>1, <1>2

\* A pod that stays as it is stays forward.
LEMMA SamePodForward ==
    ASSUME TypeOK, [Next]_vars, NEW k \in Job, PodForward(k),
           pc'[k] = pc[k], clone'[k] = clone[k], ahead'[k] = ahead[k], files'[k] = files[k],
           table'[k] = table[k], log'[k] = log[k]
    PROVE  PodForward(k)'
<1>1. version \in Nat /\ version' \in Nat /\ version <= version'
  BY VersionGrows
<1>2. HeadTree(k)' = HeadTree(k)
  BY DEF HeadTree
<1>3. /\ table[k] \in Nat /\ log[k] \in Nat /\ files[k] \in Export
      /\ \A f \in File : files[k][f] \in Nat
  BY OpenDataAssumption DEF TypeOK, Export, Torn
<1>4. clone[k] # <<>> => \A f \in File : HeadTree(k)[f] \in Nat
  BY HeadTreeType
<1>5. pc'[k] \in Stage \ {"clone"} =>
          /\ clone'[k] # <<>>
          /\ Onward(clone[k], ahead[k])
          /\ NotNewer(HeadTree(k), version')
  BY <1>1, <1>4 DEF PodForward, NotNewer
<1>6. pc'[k] \in {"events"} \union File =>
          table'[k] <= version' /\ NotNewer(HeadTree(k), table'[k])
  BY <1>1, <1>3 DEF PodForward
<1>7. pc'[k] \in File => log'[k] <= version' /\ NotNewer(HeadTree(k), log'[k])
  BY <1>1, <1>3 DEF PodForward
<1>8. \A f \in Written(pc'[k]) :
          HeadTree(k)[f] <= files'[k][f] /\ files'[k][f] <= version'
  BY <1>1, <1>3 DEF PodForward, Written
<1> QED
  BY <1>2, <1>5, <1>6, <1>7, <1>8 DEF PodForward, NotNewer, Onward, Written

\* What a run does before it commits keeps its pod forward.
LEMMA ExportForward ==
    ASSUME TypeInv, [Next]_vars, NEW j \in Job, PodForward(j),
           \/ Ingest(j) \/ IngestFails(j) \/ SelectRows(j) \/ SelectEvents(j)
           \/ WriteJson(j) \/ WriteCsv(j) \/ WriteChangelog(j) \/ ExportFails(j)
           \/ Gate(j) \/ PushFails(j)
    PROVE  PodForward(j)'
<1>0. /\ TypeOK /\ version \in Nat /\ version' \in Nat /\ version <= version'
  BY VersionGrows DEF TypeInv
<1>1. /\ clone' = clone /\ ahead' = ahead /\ pc[j] \in Stage \ {"clone"}
      /\ pc \in [Job -> Stage \union {"none"}]
  BY <1>0
  DEF Ingest, IngestFails, SelectRows, SelectEvents, WriteJson, WriteCsv, WriteChangelog,
      ExportFails, Gate, PushFails, Stage, File, repo, TypeOK
<1>2. /\ HeadTree(j)' = HeadTree(j) /\ clone[j] # <<>> /\ Onward(clone[j], ahead[j])
      /\ NotNewer(HeadTree(j), version)
  BY <1>1 DEF HeadTree, PodForward
<1>3. \A f \in File : HeadTree(j)[f] \in Nat
  BY <1>0, <1>2, HeadTreeType
<1>4. NotNewer(HeadTree(j), version')
  BY <1>0, <1>2, <1>3 DEF NotNewer
<1>5. /\ table \in [Job -> 0 .. MaxVersion] /\ log \in [Job -> 0 .. MaxVersion]
      /\ files \in [Job -> [File -> 0 .. Torn]]
  BY <1>0 DEF TypeOK, Export
<1>6. PodForward(j)' <=>
        /\ pc'[j] \in {"events"} \union File =>
               table'[j] <= version' /\ NotNewer(HeadTree(j), table'[j])
        /\ pc'[j] \in File => log'[j] <= version' /\ NotNewer(HeadTree(j), log'[j])
        /\ \A f \in Written(pc'[j]) :
               HeadTree(j)[f] <= files'[j][f] /\ files'[j][f] <= version'
  BY <1>1, <1>2, <1>4 DEF PodForward, NotNewer, Onward, Written
<1>7. CASE pc'[j] \in {"select", "exit"}
  BY <1>6, <1>7 DEF Written, File
<1>8. CASE SelectRows(j)
  BY <1>0, <1>1, <1>2, <1>5, <1>6, <1>8 DEF SelectRows, Goto, Written, File
<1>9. CASE SelectEvents(j)
  <2>1. /\ pc'[j] = "json" /\ log'[j] = version /\ version' = version /\ table' = table
        /\ pc[j] = "events"
    BY <1>1, <1>5, <1>9 DEF SelectEvents, Goto
  <2> QED
    BY <1>0, <1>2, <1>6, <2>1 DEF PodForward, Written, File
<1>10. CASE WriteJson(j)
  <2>1. /\ pc[j] = "json" /\ pc'[j] = "csv" /\ version' = version /\ table' = table /\ log' = log
        /\ files'[j]["json"] = table[j]
    BY <1>1, <1>5, <1>10 DEF WriteJson, Write, Goto, locals, File
  <2> QED
    BY <1>0, <1>2, <1>6, <2>1 DEF PodForward, Written, File, NotNewer
<1>11. CASE WriteCsv(j)
  <2>1. /\ pc[j] = "csv" /\ pc'[j] = "changelog" /\ version' = version
        /\ table' = table /\ log' = log
        /\ files'[j]["csv"] = table[j] /\ files'[j]["json"] = files[j]["json"]
    BY <1>1, <1>5, <1>11 DEF WriteCsv, Write, Goto, locals, File
  <2> QED
    BY <1>0, <1>2, <1>6, <2>1 DEF PodForward, Written, File, NotNewer
<1>12. CASE WriteChangelog(j)
  <2>1. /\ pc[j] = "changelog" /\ pc'[j] = "gate" /\ version' = version
        /\ files'[j]["changelog"] = log[j]
        /\ files'[j]["json"] = files[j]["json"] /\ files'[j]["csv"] = files[j]["csv"]
    BY <1>1, <1>5, <1>12 DEF WriteChangelog, Write, Goto, File
  <2> QED
    BY <1>0, <1>2, <1>6, <2>1 DEF PodForward, Written, File, NotNewer
<1>13. CASE Gate(j)
  <2>1. pc[j] = "gate" /\ pc'[j] \in {"commit", "exit"} /\ version' = version /\ files' = files
    BY <1>1, <1>13 DEF Gate, Goto, repo
  <2> QED
    BY <1>0, <1>2, <1>6, <2>1 DEF PodForward, Written, File
<1>14. CASE Ingest(j) \/ IngestFails(j) \/ ExportFails(j) \/ PushFails(j)
  BY <1>1, <1>7, <1>14 DEF Ingest, IngestFails, ExportFails, PushFails, Goto
<1> QED
  BY <1>8, <1>9, <1>10, <1>11, <1>12, <1>13, <1>14

\* A pod that is gone, or about to clone, has nothing to commit.
LEMMA NoPodForward ==
    ASSUME NEW j \in Job, pc'[j] \in {"none", "clone"}
    PROVE  PodForward(j)'
BY DEF PodForward, Stage, File, Written

\* A container that starts again has the commits of the pod's clone.
LEMMA RestartForward ==
    ASSUME TypeInv, NEW j \in Job, PodForward(j),
           pc[j] \in Stage \ {"clone"}, pc'[j] = "ingest",
           clone' = clone, ahead' = ahead, version' = version
    PROVE  PodForward(j)'
<1>1. HeadTree(j)' = HeadTree(j)
  BY DEF HeadTree
<1> QED
  BY <1>1 DEF PodForward, Stage, File, Written, NotNewer, Onward

\* A commit is not older than the head it is made on.
LEMMA CommitForward ==
    ASSUME TypeInv, NEW j \in Job, PodForward(j), Commit(j)
    PROVE  PodForward(j)'
<1>0. /\ clone[j] \in Seq(Export) /\ ahead[j] \in Seq(Export) /\ files[j] \in Export
      /\ pc[j] = "commit" /\ pc \in [Job -> Stage \union {"none"}]
      /\ ahead \in [Job -> Seq(Export)]
      /\ clone' = clone /\ version' = version
  BY DEF TypeInv, TypeOK, Commit, locals
<1>1. /\ clone[j] # <<>> /\ Onward(clone[j], ahead[j]) /\ NotNewer(HeadTree(j), version)
      /\ \A f \in File : HeadTree(j)[f] <= files[j][f] /\ files[j][f] <= version
  BY <1>0 DEF PodForward, Stage, File, Written
<1>2. CASE files[j] = HeadTree(j)
  <2>1. pc'[j] = "exit" /\ ahead' = ahead
    BY <1>0, <1>2 DEF Commit, Goto
  <2>2. HeadTree(j)' = HeadTree(j)
    BY <1>0, <2>1 DEF HeadTree
  <2> QED
    BY <1>0, <1>1, <2>1, <2>2 DEF PodForward, Stage, File, Written, NotNewer, Onward
<1>3. CASE files[j] # HeadTree(j)
  <2>1. pc'[j] = "push" /\ ahead'[j] = Append(ahead[j], files[j])
    BY <1>0, <1>3 DEF Commit, Goto
  <2>2. /\ Onward(clone[j], Append(ahead[j], files[j]))
        /\ Last(clone[j] \o Append(ahead[j], files[j])) = files[j]
    BY <1>0, <1>1, <1>3, OnwardAppend DEF HeadTree
  <2>3. HeadTree(j)' = files[j] /\ Onward(clone'[j], ahead'[j])
    BY <1>0, <2>1, <2>2 DEF HeadTree
  <2> QED
    BY <1>0, <1>1, <2>1, <2>3 DEF PodForward, Stage, File, Written, NotNewer, Onward
<1> QED
  BY <1>2, <1>3

\* A new clone is forward, and so is one that has just been pushed.
LEMMA FreshCloneForward ==
    ASSUME NEW j \in Job, NEW base \in Seq(Export), base # <<>>,
           clone'[j] = base, ahead'[j] = <<>>, pc'[j] \in {"ingest", "exit"},
           NotNewer(Last(base), version')
    PROVE  PodForward(j)'
<1>1. Onward(base, <<>>) /\ Last(base \o <<>>) = Last(base)
  BY OnwardEmpty
<1>2. HeadTree(j)' = Last(base)
  BY <1>1 DEF HeadTree
<1> QED
  BY <1>1, <1>2 DEF PodForward, Stage, File, Written, NotNewer, Onward

\* Every step keeps the branch and the pods forward.
LEMMA StepForwardInv == TypeInv /\ ForwardInv /\ [Next]_vars => ForwardInv'
<1> SUFFICES ASSUME TypeInv, ForwardInv, [Next]_vars PROVE ForwardInv'
  OBVIOUS
<1>0. /\ TypeOK /\ version \in Nat /\ version' \in Nat /\ version <= version'
      /\ remote \in Seq(Export) /\ remote # <<>> /\ Last(remote) \in Export
      /\ \A f \in File : Last(remote)[f] \in Nat
  <2>1. /\ TypeOK /\ version \in Nat /\ version' \in Nat /\ version <= version'
    BY VersionGrows DEF TypeInv
  <2>2. remote \in Seq(Export) /\ remote # <<>> /\ Last(remote) \in Export
    BY <2>1 DEF TypeOK, Last
  <2> QED
    BY <2>1, <2>2, OpenDataAssumption DEF Export, Torn
<1>1. NotNewer(Last(remote), version')
  BY <1>0 DEF ForwardInv, NotNewer
<1>2. ASSUME NEW j \in Job, JobStep(j) PROVE ForwardInv'
  <2>1. \A k \in Job \ {j} : PodForward(k)'
    BY <1>0, <1>2, OthersStay, SamePodForward DEF ForwardInv
  <2>2. PodForward(j) /\ pc \in [Job -> Stage \union {"none"}]
    BY <1>0 DEF ForwardInv, TypeOK
  <2>3. CASE remote' = remote /\ PodForward(j)'
    BY <1>1, <2>1, <2>3 DEF ForwardInv, NotNewer
  <2>4. CASE CreateJob(j)
    <3>1. pc'[j] = "clone" /\ remote' = remote
      BY <2>2, <2>4 DEF CreateJob, Goto
    <3> QED
      BY <2>3, <3>1, NoPodForward
  <2>5. CASE Clone(j)
    <3>1. /\ pc'[j] = "ingest" /\ remote' = remote
          /\ clone'[j] = remote /\ ahead'[j] = <<>>
      BY <1>0, <2>5 DEF Clone, Goto, TypeOK
    <3> QED
      BY <1>0, <1>1, <2>3, <3>1, FreshCloneForward
  <2>6. CASE \/ Ingest(j) \/ IngestFails(j) \/ SelectRows(j) \/ SelectEvents(j)
             \/ WriteJson(j) \/ WriteCsv(j) \/ WriteChangelog(j) \/ ExportFails(j)
             \/ Gate(j) \/ PushFails(j)
    <3>1. remote' = remote
      BY <2>6 DEF Ingest, IngestFails, SelectRows, SelectEvents, WriteJson, WriteCsv,
             WriteChangelog, ExportFails, Gate, PushFails
    <3> QED
      BY <2>2, <2>3, <2>6, <3>1, ExportForward
  <2>7. CASE Commit(j)
    <3>1. remote' = remote
      BY <2>7 DEF Commit
    <3> QED
      BY <2>2, <2>3, <2>7, <3>1, CommitForward
  <2>8. CASE Push(j)
    <3>1. /\ pc[j] = "push" /\ pc'[j] = "exit" /\ version' = version
          /\ remote' = clone[j] \o ahead[j] /\ clone'[j] = remote' /\ ahead'[j] = <<>>
      BY <1>0, <2>2, <2>8 DEF Push, Goto, TypeOK
    <3>2. clone[j] # <<>> /\ NotNewer(Last(remote'), version')
      BY <2>2, <3>1 DEF PodForward, Stage, HeadTree
    <3>3. remote' \in Seq(Export) /\ remote' # <<>>
      BY <1>0, <3>1, <3>2, BranchType
    <3>4. PodForward(j)'
      BY <3>1, <3>2, <3>3, FreshCloneForward
    <3> QED
      BY <2>1, <3>2, <3>4 DEF ForwardInv, NotNewer
  <2>9. CASE Exit(j) \/ Kill(j) \/ Evict(j)
    <3>1. remote' = remote /\ version' = version
      BY <2>9 DEF Exit, Kill, Evict
    <3>2. \/ pc'[j] \in {"none", "clone"}
          \/ /\ pc'[j] = "ingest" /\ pc[j] \in Stage \ {"clone"}
             /\ clone' = clone /\ ahead' = ahead
      BY <2>2, <2>9 DEF Exit, Kill, Evict, EndJob, Goto, Stage, repo
    <3> QED
      BY <2>2, <2>3, <3>1, <3>2, NoPodForward, RestartForward
  <2> QED
    BY <1>2, <2>4, <2>5, <2>6, <2>7, <2>8, <2>9 DEF JobStep, Advance
<1>3. CASE UNCHANGED vars
  <2>1. \A k \in Job : PodForward(k)'
    BY <1>0, <1>3, SamePodForward DEF vars, repo, locals, ForwardInv
  <2> QED
    BY <1>1, <1>3, <2>1 DEF vars, ForwardInv, NotNewer
<1> QED
  BY <1>2, <1>3 DEF Next, AllOver, JobStep

\* The open-data branch only moves forward, with any number of Jobs that
\* overlap in any way and any faults: commits are only ever added to it, each
\* differs from the one before, and no file in it is of an earlier moment.
THEOREM SpecHistoryMovesForward == Spec => HistoryMovesForward
<1> DEFINE Moves == /\ SubSeq(remote', 1, Len(remote)) = remote
                    /\ \A i \in Len(remote) + 1 .. Len(remote') :
                         /\ remote'[i] # remote'[i - 1]
                         /\ \A f \in File : remote'[i - 1][f] <= remote'[i][f]
<1>1. TypeInv /\ ForwardInv /\ [Next]_vars => Moves
  <2> SUFFICES ASSUME TypeInv, ForwardInv, [Next]_vars PROVE Moves
    OBVIOUS
  <2>0. TypeOK /\ remote \in Seq(Export)
    BY DEF TypeInv, TypeOK
  <2>1. CASE remote' = remote
    BY <2>0, <2>1, SubSeqFull
  <2>2. ASSUME NEW j \in Job, Push(j) PROVE Moves
    <3>1. /\ remote = clone[j] /\ remote' = clone[j] \o ahead[j] /\ ahead[j] \in Seq(Export)
          /\ Onward(clone[j], ahead[j])
      BY <2>0, <2>2 DEF Push, ForwardInv, PodForward, Stage, TypeOK
    <3>2. SubSeq(remote', 1, Len(remote)) = remote
      <4>1. SubSeq(remote \o ahead[j], 1, Len(remote)) = SubSeq(remote, 1, Len(remote))
        <5>1. remote # <<>> /\ Len(remote) \in 1 .. Len(remote) /\ 1 \in 1 .. Len(remote)
          BY <2>0 DEF TypeOK
        <5> QED
          BY <2>0, <3>1, <5>1, SubSeqOfConcat1
      <4> QED
        BY <2>0, <3>1, <4>1, SubSeqFull
    <3> QED
      BY <3>1, <3>2 DEF Onward
  <2> QED
    BY <2>1, <2>2
    DEF Next, CreateJob, Advance, Clone, Ingest, IngestFails, SelectRows, SelectEvents,
        WriteJson, WriteCsv, WriteChangelog, ExportFails, Gate, Commit, PushFails, Exit,
        Kill, Evict, AllOver, vars
<1>2. TypeInv /\ ForwardInv /\ [Next]_vars => [Moves]_vars
  BY <1>1
<1> QED
  BY <1>2, InitTypeInv, StepTypeInv, InitForwardInv, StepForwardInv, PTL
  DEF Spec, HistoryMovesForward

(***************************************************************************)
(* When Jobs do not overlap, a commit is of one moment: nothing changes    *)
(* the database between the two SELECTs of an export and the push.         *)
(***************************************************************************)
\* The database as it was at some moment, and no torn file.
IsWhole(tree) == \E n \in 0 .. version : tree = Whole(n)

LocalWhole(j) ==
    /\ pc[j] \in {"events"} \union File => table[j] = version
    /\ pc[j] \in File => log[j] = version
    /\ \A f \in Written(pc[j]) : files[j][f] = version
    /\ \A i \in 1 .. Len(ahead[j]) : IsWhole(ahead[j][i])
    /\ pc[j] = "push" => ahead[j] # <<>> /\ Last(ahead[j]) = Whole(version)

PodWhole(j) ==
    /\ pc[j] # "none" => \A k \in Job : pc[k] # "none" => k = j
    /\ LocalWhole(j)

WholeInv == PublishedIsWhole /\ \A j \in Job : PodWhole(j)

LEMMA InitWholeInv == Init => WholeInv
<1> SUFFICES ASSUME Init PROVE WholeInv
  OBVIOUS
<1>1. PublishedIsWhole
  BY DEF Init, PublishedIsWhole
<1>2. \A j \in Job : PodWhole(j)
  BY DEF Init, PodWhole, LocalWhole, File, Written
<1> QED
  BY <1>1, <1>2 DEF WholeInv

\* What was the database at some moment has been so ever since.
LEMMA WholeStays ==
    ASSUME TypeOK, [Next]_vars, NEW tree, IsWhole(tree)
    PROVE  \E n \in 0 .. version' : tree = Whole(n)
<1>1. version \in Nat /\ version' \in Nat /\ version <= version'
  BY VersionGrows
<1>2. PICK n \in 0 .. version : tree = Whole(n)
  BY DEF IsWhole
<1>3. n \in 0 .. version'
  BY <1>1, <1>2
<1> QED
  BY <1>2, <1>3

\* Where no Job overlaps another, the other ones have no pod.
LEMMA OtherPodsWhole ==
    ASSUME ~Overlap, TypeInv, WholeInv, [Next]_vars, NEW j \in Job, JobStep(j),
           NEW k \in Job \ {j}
    PROVE  pc[k] = "none" /\ PodWhole(k)'
<1>0. TypeOK
  BY DEF TypeInv
<1>1. pc[j] # "none" \/ CreateJob(j)
  BY DEF JobStep, Advance, Clone, Ingest, IngestFails, SelectRows, SelectEvents, WriteJson,
         WriteCsv, WriteChangelog, ExportFails, Gate, Commit, Push, PushFails, Exit, Kill, Evict,
         Stage, File
<1>2. pc[k] = "none"
  <2>1. CASE pc[j] # "none"
    BY <2>1 DEF WholeInv, PodWhole, LocalWhole
  <2>2. CASE CreateJob(j)
    BY <2>2 DEF CreateJob, TypeInv, PodsOfActiveJobs
  <2> QED
    BY <1>1, <2>1, <2>2
<1>3. pc'[k] = "none" /\ ahead'[k] = ahead[k] /\ files'[k] = files[k]
  BY <1>0, <1>2, OthersStay
<1>4. \A i \in 1 .. Len(ahead[k]) : \E n \in 0 .. version' : ahead[k][i] = Whole(n)
  BY <1>0, WholeStays DEF WholeInv, PodWhole, LocalWhole
<1>5. Written("none") = {}
  BY DEF Written
<1> QED
  BY <1>2, <1>3, <1>4, <1>5 DEF PodWhole, LocalWhole, File, Written, IsWhole

\* All that a clone is ahead by stays whole until it is pushed.
LEMMA AheadStaysWhole ==
    ASSUME TypeInv, [Next]_vars, NEW j \in Job, PodWhole(j),
           ahead'[j] = ahead[j] \/ ahead'[j] = <<>>
    PROVE  \A i \in 1 .. Len(ahead'[j]) : \E n \in 0 .. version' : ahead'[j][i] = Whole(n)
<1>1. CASE ahead'[j] = ahead[j]
  BY <1>1, WholeStays DEF PodWhole, LocalWhole, TypeInv
<1>2. CASE ahead'[j] = <<>>
  BY <1>2
<1> QED
  BY <1>1, <1>2

\* The steps of a run that change nothing but its own variables.
LEMMA ExportWhole ==
    ASSUME TypeInv, [Next]_vars, NEW j \in Job, PodWhole(j),
           \/ SelectRows(j) \/ SelectEvents(j)
           \/ WriteJson(j) \/ WriteCsv(j) \/ WriteChangelog(j) \/ Gate(j)
    PROVE  LocalWhole(j)'
<1>0. /\ table \in [Job -> 0 .. MaxVersion] /\ log \in [Job -> 0 .. MaxVersion]
      /\ files \in [Job -> [File -> 0 .. Torn]] /\ pc \in [Job -> Stage \union {"none"}]
  BY DEF TypeInv, TypeOK, Export
<1>1. version' = version /\ ahead' = ahead
  BY DEF SelectRows, SelectEvents, WriteJson, WriteCsv, WriteChangelog, Gate, repo
<1>2. \A i \in 1 .. Len(ahead'[j]) : \E n \in 0 .. version' : ahead'[j][i] = Whole(n)
  BY <1>1, AheadStaysWhole
<1>3. LocalWhole(j)' <=>
        /\ pc'[j] \in {"events"} \union File => table'[j] = version
        /\ pc'[j] \in File => log'[j] = version
        /\ \A f \in Written(pc'[j]) : files'[j][f] = version
        /\ pc'[j] = "push" => ahead'[j] # <<>> /\ Last(ahead'[j]) = Whole(version)
  BY <1>1, <1>2 DEF LocalWhole, Written, IsWhole, Last
<1>4. CASE SelectRows(j)
  BY <1>0, <1>3, <1>4 DEF SelectRows, Goto, Written, File
<1>5. CASE SelectEvents(j)
  <2>1. pc[j] = "events" /\ pc'[j] = "json" /\ log'[j] = version /\ table' = table
    BY <1>0, <1>5 DEF SelectEvents, Goto
  <2> QED
    BY <1>3, <2>1 DEF PodWhole, LocalWhole, Written, File
<1>6. CASE WriteJson(j)
  <2>1. /\ pc[j] = "json" /\ pc'[j] = "csv" /\ table' = table /\ log' = log
        /\ files'[j]["json"] = table[j]
    BY <1>0, <1>6 DEF WriteJson, Write, Goto, locals, File
  <2> QED
    BY <1>3, <2>1 DEF PodWhole, LocalWhole, Written, File
<1>7. CASE WriteCsv(j)
  <2>1. /\ pc[j] = "csv" /\ pc'[j] = "changelog" /\ table' = table /\ log' = log
        /\ files'[j]["csv"] = table[j] /\ files'[j]["json"] = files[j]["json"]
    BY <1>0, <1>7 DEF WriteCsv, Write, Goto, locals, File
  <2> QED
    BY <1>3, <2>1 DEF PodWhole, LocalWhole, Written, File
<1>8. CASE WriteChangelog(j)
  <2>1. /\ pc[j] = "changelog" /\ pc'[j] = "gate"
        /\ files'[j]["changelog"] = log[j]
        /\ files'[j]["json"] = files[j]["json"] /\ files'[j]["csv"] = files[j]["csv"]
    BY <1>0, <1>8 DEF WriteChangelog, Write, Goto, File
  <2> QED
    BY <1>3, <2>1 DEF PodWhole, LocalWhole, Written, File
<1>9. CASE Gate(j)
  <2>1. pc[j] = "gate" /\ pc'[j] \in {"commit", "exit"} /\ files' = files
    BY <1>0, <1>9 DEF Gate, Goto, repo
  <2> QED
    BY <1>3, <2>1 DEF PodWhole, LocalWhole, Written, File
<1> QED
  BY <1>4, <1>5, <1>6, <1>7, <1>8, <1>9

\* What is committed is the tables as they are.
LEMMA CommitWhole ==
    ASSUME TypeInv, [Next]_vars, NEW j \in Job, PodWhole(j), Commit(j)
    PROVE  LocalWhole(j)'
<1>0. /\ ahead[j] \in Seq(Export) /\ files[j] \in [File -> 0 .. Torn]
      /\ pc[j] = "commit" /\ pc \in [Job -> Stage \union {"none"}]
      /\ ahead \in [Job -> Seq(Export)] /\ version' = version /\ version \in Nat
  BY VersionGrows DEF TypeInv, TypeOK, Commit, locals, Export
<1>1. CASE files[j] = HeadTree(j)
  <2>1. pc'[j] = "exit" /\ ahead' = ahead
    BY <1>0, <1>1 DEF Commit, Goto
  <2>2. \A i \in 1 .. Len(ahead'[j]) : \E n \in 0 .. version' : ahead'[j][i] = Whole(n)
    BY <2>1, AheadStaysWhole
  <2> QED
    BY <2>1, <2>2 DEF LocalWhole, File, Written, IsWhole
<1>2. CASE files[j] # HeadTree(j)
  <2>1. pc'[j] = "push" /\ ahead'[j] = Append(ahead[j], files[j])
    BY <1>0, <1>2 DEF Commit, Goto
  <2>2. files[j] = Whole(version)
    BY <1>0 DEF PodWhole, LocalWhole, Written, File, Whole
  <2>3. /\ ahead'[j] # <<>> /\ Last(ahead'[j]) = Whole(version)
        /\ \A i \in 1 .. Len(ahead'[j]) : i \in 1 .. Len(ahead[j]) \/ i = Len(ahead'[j])
        /\ \A i \in 1 .. Len(ahead[j]) : ahead'[j][i] = ahead[j][i]
    <3> DEFINE a == ahead[j]
               b == ahead'[j]
               e == files[j]
    <3>1. a \in Seq(Export) /\ e \in Export /\ b = Append(a, e) /\ e = Whole(version)
      BY <1>0, <2>1, <2>2 DEF Export
    <3> HIDE DEF a, b, e
    <3>2. /\ Len(b) = Len(a) + 1 /\ Len(a) \in Nat /\ b[Len(b)] = e
          /\ \A i \in 1 .. Len(a) : b[i] = a[i]
      BY <3>1, AppendProperties
    <3>3. b # <<>> /\ Last(b) = e
      BY <3>2 DEF Last
    <3>4. \A i \in 1 .. Len(b) : i \in 1 .. Len(a) \/ i = Len(b)
      BY <3>2
    <3> QED
      BY <3>1, <3>2, <3>3, <3>4 DEF a, b, e
  <2>4. \A i \in 1 .. Len(ahead'[j]) : \E n \in 0 .. version' : ahead'[j][i] = Whole(n)
    BY <1>0, <2>3 DEF PodWhole, LocalWhole, IsWhole, Last
  <2> QED
    BY <1>0, <2>1, <2>3, <2>4 DEF LocalWhole, File, Written, IsWhole, Last
<1> QED
  BY <1>1, <1>2

\* The other steps leave the pod before its first SELECT or at its end.
LEMMA IdleWhole ==
    ASSUME TypeInv, [Next]_vars, NEW j \in Job, PodWhole(j),
           \/ CreateJob(j) \/ Clone(j) \/ Ingest(j) \/ IngestFails(j) \/ ExportFails(j)
           \/ Push(j) \/ PushFails(j) \/ Exit(j) \/ Kill(j) \/ Evict(j)
    PROVE  LocalWhole(j)'
<1>0. pc \in [Job -> Stage \union {"none"}] /\ ahead \in [Job -> Seq(Export)]
  BY DEF TypeInv, TypeOK
<1>1. pc'[j] \in {"none", "clone", "ingest", "select", "exit"}
  BY <1>0
  DEF CreateJob, Clone, Ingest, IngestFails, ExportFails, Push, PushFails, Exit, Kill, Evict,
      Goto, EndJob
<1>2. ahead'[j] = ahead[j] \/ ahead'[j] = <<>>
  BY <1>0
  DEF CreateJob, Clone, Ingest, IngestFails, ExportFails, Push, PushFails, Exit, Kill, Evict,
      EndJob, ForgetVolume, repo
<1>3. \A i \in 1 .. Len(ahead'[j]) : \E n \in 0 .. version' : ahead'[j][i] = Whole(n)
  BY <1>2, AheadStaysWhole
<1> QED
  BY <1>1, <1>3 DEF LocalWhole, File, Written, IsWhole

\* Every step keeps the branch and the pods whole.
LEMMA StepWholeInv == ~Overlap /\ TypeInv /\ WholeInv /\ [Next]_vars => WholeInv'
<1> SUFFICES ASSUME ~Overlap, TypeInv, WholeInv, [Next]_vars PROVE WholeInv'
  OBVIOUS
<1>0. TypeOK /\ pc \in [Job -> Stage \union {"none"}]
  BY DEF TypeInv, TypeOK
<1>1. remote' = remote => PublishedIsWhole'
  BY <1>0, WholeStays DEF WholeInv, PublishedIsWhole, IsWhole
<1>2. ASSUME NEW j \in Job, JobStep(j) PROVE WholeInv'
  <2>1. \A k \in Job \ {j} : pc[k] = "none" /\ PodWhole(k)' /\ pc'[k] = "none"
    BY <1>0, <1>2, OtherPodsWhole, OthersStay
  <2>2. PodWhole(j)
    BY DEF WholeInv
  <2>3. LocalWhole(j)'
    BY <1>2, <2>2, ExportWhole, CommitWhole, IdleWhole DEF JobStep, Advance
  <2>4. PodWhole(j)'
    BY <2>1, <2>3 DEF PodWhole
  <2>5. PublishedIsWhole'
    <3>1. CASE remote' = remote
      BY <1>1, <3>1
    <3>2. CASE Push(j)
      <4>1. /\ remote' = remote \o ahead[j] /\ remote \in Seq(Export) /\ ahead[j] \in Seq(Export)
        BY <1>0, <3>2 DEF Push, TypeOK
      <4>2. \A i \in 1 .. Len(remote) : \E n \in 0 .. version' : remote[i] = Whole(n)
        BY <1>0, WholeStays DEF WholeInv, PublishedIsWhole, IsWhole
      <4>3. \A i \in 1 .. Len(ahead[j]) : \E n \in 0 .. version' : ahead[j][i] = Whole(n)
        BY <1>0, <2>2, WholeStays DEF PodWhole, LocalWhole
      <4>4. ASSUME NEW i \in 1 .. Len(remote')
            PROVE  \E n \in 0 .. version' : remote'[i] = Whole(n)
        <5>1. CASE i \in 1 .. Len(remote)
          BY <4>1, <4>2, <5>1
        <5>2. CASE i \notin 1 .. Len(remote)
          <6>1. i - Len(remote) \in 1 .. Len(ahead[j]) /\ remote'[i] = ahead[j][i - Len(remote)]
            BY <4>1, <5>2
          <6> QED
            BY <4>3, <6>1
        <5> QED
          BY <5>1, <5>2
      <4> QED
        BY <4>4 DEF PublishedIsWhole
    <3> QED
      BY <1>2, <3>1, <3>2
      DEF JobStep, CreateJob, Advance, Clone, Ingest, IngestFails, SelectRows, SelectEvents,
          WriteJson, WriteCsv, WriteChangelog, ExportFails, Gate, Commit, PushFails, Exit, Kill,
          Evict
  <2> QED
    BY <2>1, <2>4, <2>5 DEF WholeInv
<1>3. CASE UNCHANGED vars
  BY <1>1, <1>3
  DEF vars, repo, locals, WholeInv, PodWhole, LocalWhole, IsWhole, Written
<1> QED
  BY <1>2, <1>3 DEF Next, AllOver, JobStep

\* Consumers of dsa-data never pull a torn file, nor files of different
\* moments, whichever containers and pods die between two writes, as long as
\* Jobs do not overlap.
THEOREM SpecPublishedIsWhole ==
    ASSUME ~Overlap
    PROVE  Spec => []PublishedIsWhole
<1>1. WholeInv => PublishedIsWhole
  BY DEF WholeInv
<1>2. TypeInv /\ WholeInv /\ [Next]_vars => WholeInv'
  BY StepWholeInv
<1> QED
  BY <1>1, <1>2, InitTypeInv, StepTypeInv, InitWholeInv, PTL DEF Spec

\* After a push the branch is current, with whatever earlier runs failed to
\* push, as long as Jobs do not overlap.
THEOREM SpecPushedIsCurrent ==
    ASSUME ~Overlap
    PROVE  Spec => PushedIsCurrent
<1> DEFINE Current == \A j \in Job : pc[j] = "push" /\ remote' # remote =>
                          Last(remote') = Whole(version)
<1>1. TypeInv /\ WholeInv /\ [Next]_vars => WholeInv'
  BY StepWholeInv
<1>2. TypeInv /\ WholeInv /\ [Next]_vars => Current
  <2> SUFFICES ASSUME TypeInv, WholeInv, [Next]_vars, remote' # remote
               PROVE  Last(remote') = Whole(version)
    OBVIOUS
  <2>1. PICK k \in Job : Push(k)
    BY DEF Next, CreateJob, Advance, Clone, Ingest, IngestFails, SelectRows, SelectEvents,
           WriteJson, WriteCsv, WriteChangelog, ExportFails, Gate, Commit, PushFails, Exit, Kill,
           Evict, AllOver, vars
  <2>2. /\ remote' = clone[k] \o ahead[k] /\ ahead[k] # <<>> /\ Last(ahead[k]) = Whole(version)
        /\ clone[k] \in Seq(Export) /\ ahead[k] \in Seq(Export)
    BY <2>1 DEF Push, WholeInv, PodWhole, LocalWhole, TypeInv, TypeOK
  <2>3. Last(clone[k] \o ahead[k]) = Last(ahead[k])
    BY <2>2, LastOfAdded
  <2> QED
    BY <2>2, <2>3
<1>3. TypeInv /\ WholeInv /\ [Next]_vars => [Current]_vars
  BY <1>2
<1> QED
  BY <1>1, <1>3, InitTypeInv, StepTypeInv, InitWholeInv, PTL DEF Spec, PushedIsCurrent

=============================================================================
