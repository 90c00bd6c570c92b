-------------------------- MODULE DeploymentProofs --------------------------
(***************************************************************************)
(* Theorems about Deployment, for every number of commits, whatever        *)
(* migrations they bring, whatever their tags are called, and for every    *)
(* number of tags to keep and of runs at a time.                           *)
(***************************************************************************)
EXTENDS Deployment, FiniteSetTheorems, TLAPS

-----------------------------------------------------------------------------
(***************************************************************************)
(* The steps of a run, by their places.                                    *)
(***************************************************************************)
\* The places of a run that has got through the step of that name, to its end.
PushedSha == 3..12
PushedLatest == 4..12
SawMigration == 7..12
SawRollout == 10..12

LEMMA StepPlaces ==
    /\ DOMAIN Steps = 1..11 /\ Absent = 0 /\ Done = 12 /\ Failed = 13
    /\ Steps[1] = "ci" /\ Steps[2] = "push_sha" /\ Steps[3] = "push_latest"
    /\ Steps[4] = "delete_job" /\ Steps[5] = "apply_job" /\ Steps[6] = "wait_job"
    /\ Steps[7] = "apply" /\ Steps[8] = "set_image" /\ Steps[9] = "wait_rollout"
    /\ Steps[10] = "list_tags" /\ Steps[11] = "delete_tags"
<1>1. Len(Steps) = 11 /\ DOMAIN Steps = 1..11
  BY DEF Steps
<1> QED
  BY <1>1 DEF Steps, Absent, Done, Failed

\* A run at a step is at its place.
LEMMA AtPlace ==
    ASSUME NEW c, NEW name, At(c, name)
    PROVE  /\ name = "ci"           => step[c] = 1
           /\ name = "push_sha"     => step[c] = 2
           /\ name = "push_latest"  => step[c] = 3
           /\ name = "delete_job"   => step[c] = 4
           /\ name = "apply_job"    => step[c] = 5
           /\ name = "wait_job"     => step[c] = 6
           /\ name = "apply"        => step[c] = 7
           /\ name = "set_image"    => step[c] = 8
           /\ name = "wait_rollout" => step[c] = 9
           /\ name = "list_tags"    => step[c] = 10
           /\ name = "delete_tags"  => step[c] = 11
<1>1. step[c] \in 1..11 /\ Steps[step[c]] = name
  BY StepPlaces DEF At
<1>2. \/ step[c] = 1 \/ step[c] = 2 \/ step[c] = 3 \/ step[c] = 4 \/ step[c] = 5 \/ step[c] = 6
      \/ step[c] = 7 \/ step[c] = 8 \/ step[c] = 9 \/ step[c] = 10 \/ step[c] = 11
  BY <1>1
<1> QED
  BY <1>1, <1>2, StepPlaces

\* A run that has got through the wait for its migration.
LEMMA PastWait ==
    ASSUME NEW c, step[c] \in 0..13, Past(c, "wait_job")
    PROVE  step[c] \in SawMigration
<1>0. step[c] \in 0..13 /\ step[c] # 13
  BY StepPlaces DEF Past
<1>1. PICK k \in 1..11 : Steps[k] = "wait_job" /\ k < step[c]
  BY StepPlaces DEF Past
<1>2. k = 6
  <2>1. \/ k = 1 \/ k = 2 \/ k = 3 \/ k = 4 \/ k = 5 \/ k = 6
        \/ k = 7 \/ k = 8 \/ k = 9 \/ k = 10 \/ k = 11
    OBVIOUS
  <2> QED
    BY <1>1, <2>1, StepPlaces
<1> QED
  BY <1>0, <1>1, <1>2 DEF SawMigration

-----------------------------------------------------------------------------
(***************************************************************************)
(* Types.  A Job that runs has the code it started from, because the tag   *)
(* latest names an image as soon as it is there.                           *)
(***************************************************************************)
LatestNamed == Floating \in tags => latest # None

JobHasCode == job # None /\ job.status \in {"running", "complete"} => job.code # None

TypeInv == TypeOK /\ LatestNamed /\ JobHasCode

\* The constants are what they are taken for.
LEMMA Values ==
    /\ MaxCommits \in Nat /\ Commit = 1..MaxCommits /\ Commit \subseteq Nat \ {0}
    /\ Floating = 0 /\ Floating \notin Commit /\ Tag = {0} \union Commit
    /\ Revision \in [Commit -> Nat] /\ Rank \in [Commit -> Nat] /\ Keep \in Nat \ {0}
    /\ None \notin Tag /\ None \notin Commit /\ None \notin Pod /\ None \notin MigrationJob
  BY DeploymentAssumption DEF Commit, Floating, Tag

\* A run goes on to the next place.
LEMMA ProceedType ==
    ASSUME step \in [Commit -> Absent..Failed], NEW c \in Commit, Active(c), Proceed(c)
    PROVE  /\ step' \in [Commit -> Absent..Failed]
           /\ step'[c] = step[c] + 1
           /\ \A d \in Commit \ {c} : step'[d] = step[d]
<1>1. step[c] \in 1..11 /\ Absent..Failed = 0..13
  BY StepPlaces DEF Active
<1>2. step[c] + 1 \in 0..13
  BY <1>1
<1> QED
  BY <1>1, <1>2 DEF Proceed

\* A run that begins is at its first step, whatever it was at.
LEMMA BeginType ==
    ASSUME step \in [Commit -> Absent..Failed], serial \in BOOLEAN, NEW c \in Commit, Begin(c)
    PROVE  /\ step' \in [Commit -> Absent..Failed]
           /\ step'[c] = 1
           /\ \A d \in Commit \ {c} : step'[d] = step[d]
           /\ serial' \in BOOLEAN
           /\ serial' => serial /\ \A d \in Commit : ~Active(d)
<1>1. 1 \in Absent..Failed
  BY StepPlaces
<1> QED
  BY <1>1 DEF Begin

\* A run that is lost or gives up is at no step any more.
LEMMA FailedType ==
    ASSUME step \in [Commit -> Absent..Failed], NEW c \in Commit,
           step' = [step EXCEPT ![c] = Failed]
    PROVE  /\ step' \in [Commit -> Absent..Failed]
           /\ step'[c] = 13
           /\ \A d \in Commit \ {c} : step'[d] = step[d]
<1>1. Failed \in Absent..Failed /\ Failed = 13
  BY StepPlaces
<1> QED
  BY <1>1

\* A run at a step is active.
LEMMA AtIsActive ==
    ASSUME NEW c, NEW name, At(c, name)
    PROVE  Active(c)
  BY DEF At, Active

\* What a template and its pods are after a change of the template.
LEMMA TemplateType ==
    ASSUME TypeOK, NEW tag \in Tag, Template(tag)
    PROVE  /\ spec' = tag
           /\ new' \in Pod \union {None} /\ old' \in Pod \union {None}
           /\ old' # None => ~IsReady(new')
<1>1. [tag |-> tag, code |-> None] \in Pod
  BY DEF Pod
<1>2. Survivor \in Pod \union {None}
  BY DEF TypeOK, Survivor
<1>3. CASE tag = spec
  BY <1>3 DEF TypeOK, Template, IsReady
<1>4. CASE tag # spec /\ Survivor # None /\ Survivor.tag = tag
  BY <1>2, <1>4 DEF TypeOK, Template, IsReady
<1>5. CASE tag # spec /\ ~(Survivor # None /\ Survivor.tag = tag)
  <2>1. new' = [tag |-> tag, code |-> None] /\ old' = Survivor /\ spec' = tag
    BY <1>5 DEF Template
  <2>2. ~IsReady(new')
    BY <2>1 DEF IsReady
  <2> QED
    BY <1>1, <1>2, <2>1, <2>2
<1> QED
  BY <1>3, <1>4, <1>5

\* A container that starts runs what its tag names.
LEMMA StartedType ==
    ASSUME TypeInv, NEW pod \in Pod \union {None}, MayStart(pod)
    PROVE  /\ pod \in Pod
           /\ Started(pod) \in Pod /\ Started(pod).tag = pod.tag
           /\ Started(pod).code \in Commit
           /\ Started(pod).code = IF pod.tag = Floating THEN latest ELSE pod.tag
<1>1. pod \in Pod /\ pod.tag \in Tag /\ pod.tag \in tags
  BY DEF MayStart, Pod
<1>2. pod.tag = Floating => latest \in Commit
  BY <1>1 DEF TypeInv, TypeOK, LatestNamed
<1>3. pod.tag # Floating => pod.tag \in Commit
  BY <1>1, Values
<1>4. (IF pod.tag = Floating THEN latest ELSE pod.tag) \in Commit
  BY <1>2, <1>3
<1> QED
  BY <1>1, <1>4 DEF Started, Pod

LEMMA InitTypeInv == Init => TypeInv
<1> SUFFICES ASSUME Init PROVE TypeInv
  OBVIOUS
<1>1. 0 \in Absent..Failed /\ Absent = 0
  BY StepPlaces
<1>2. Floating \notin {} /\ 0 \in 0..MaxCommits /\ 0 \in Nat
  BY Values
<1> QED
  BY <1>1, <1>2, Values DEF Init, TypeInv, TypeOK, LatestNamed, JobHasCode

LEMMA StepTypeInv == TypeInv /\ [Next]_vars => TypeInv'
<1> SUFFICES ASSUME TypeInv, [Next]_vars PROVE TypeInv'
  OBVIOUS
<1>0. /\ step \in [Commit -> Absent..Failed] /\ pushed \in 0..MaxCommits /\ serial \in BOOLEAN
      /\ retired \in [Commit -> SUBSET Commit] /\ TypeOK
  BY DEF TypeInv, TypeOK
<1> USE DEF TypeInv, LatestNamed, JobHasCode, workflow, registry, database, api
<1>1. CASE Push
  <2>1. pushed + 1 \in Commit /\ pushed' \in 0..MaxCommits
    BY <1>0, <1>1, Values DEF Push
  <2>2. step' \in [Commit -> Absent..Failed] /\ serial' \in BOOLEAN
    BY <1>0, <1>1, <2>1, BeginType DEF Push
  <2> QED
    BY <1>1, <2>1, <2>2 DEF Push, TypeOK, IsReady
<1>2. CASE Dispatch
  <2>1. pushed \in Commit
    BY <1>0, <1>2, Values DEF Dispatch
  <2>2. step' \in [Commit -> Absent..Failed] /\ serial' \in BOOLEAN
    BY <1>0, <1>2, <2>1, BeginType DEF Dispatch
  <2> QED
    BY <1>2, <2>2 DEF Dispatch, TypeOK, IsReady
<1>3. ASSUME NEW c \in Commit, Lose(c) PROVE TypeInv'
  <2>1. step' \in [Commit -> Absent..Failed]
    BY <1>0, <1>3, FailedType DEF Lose
  <2> QED
    BY <1>3, <2>1 DEF Lose, TypeOK, IsReady
<1>4. ASSUME NEW c \in Commit, PassCI(c) PROVE TypeInv'
  BY <1>0, <1>4, AtIsActive, ProceedType DEF PassCI, TypeOK, IsReady
<1>5. ASSUME NEW c \in Commit, PushSha(c) PROVE TypeInv'
  <2>1. step' \in [Commit -> Absent..Failed]
    BY <1>0, <1>5, AtIsActive, ProceedType DEF PushSha
  <2>2. tags' \subseteq Tag /\ (Floating \in tags' => Floating \in tags)
    BY <1>5, Values DEF PushSha, TypeOK
  <2> QED
    BY <1>5, <2>1, <2>2 DEF PushSha, TypeOK, IsReady
<1>6. ASSUME NEW c \in Commit, PushLatest(c) PROVE TypeInv'
  <2>1. step' \in [Commit -> Absent..Failed]
    BY <1>0, <1>6, AtIsActive, ProceedType DEF PushLatest
  <2>2. tags' \subseteq Tag /\ latest' \in Commit /\ latest' # None
    BY <1>6, Values DEF PushLatest, TypeOK, Tag
  <2> QED
    BY <1>6, <2>1, <2>2 DEF PushLatest, TypeOK, IsReady
<1>7. ASSUME NEW c \in Commit, DeleteJob(c) PROVE TypeInv'
  <2>1. step' \in [Commit -> Absent..Failed]
    BY <1>0, <1>7, AtIsActive, ProceedType DEF DeleteJob
  <2>2. orphans' \subseteq Commit /\ job' = None
    <3>1. job # None /\ job.status = "running" => job.code \in Commit
      BY DEF TypeOK, MigrationJob
    <3> QED
      BY <1>7, <3>1 DEF DeleteJob, TypeOK
  <2> QED
    BY <1>7, <2>1, <2>2 DEF DeleteJob, TypeOK, IsReady
<1>8. ASSUME NEW c \in Commit, ApplyJob(c) PROVE TypeInv'
  <2>1. step' \in [Commit -> Absent..Failed]
    BY <1>0, <1>8, AtIsActive, ProceedType DEF ApplyJob
  <2>2. /\ job' \in MigrationJob \union {None}
        /\ job' = job \/ job'.status = "pending"
    BY <1>8 DEF ApplyJob, TypeOK, MigrationJob
  <2> QED
    BY <1>8, <2>1, <2>2 DEF ApplyJob, TypeOK, IsReady
<1>9. CASE StartMigration
  <2>1. latest \in Commit
    BY <1>9 DEF StartMigration, TypeOK
  <2>2. job' \in MigrationJob /\ job'.code # None
    BY <1>9, <2>1, Values DEF StartMigration, MigrationJob
  <2> QED
    BY <1>9, <2>2 DEF StartMigration, TypeOK, IsReady
<1>10. CASE Migrate
  <2>1. job \in MigrationJob /\ job.code \in Commit
    BY <1>10 DEF Migrate, TypeOK, MigrationJob
  <2>2. job' \in MigrationJob /\ job'.code = job.code
    BY <1>10, <2>1 DEF Migrate, MigrationJob
  <2>3. schema' \in Nat
    BY <1>10, <2>1, Values DEF Migrate, Upgrade
  <2> QED
    BY <1>10, <2>1, <2>2, <2>3, Values DEF Migrate, TypeOK, IsReady
<1>11. CASE MigrationFails
  <2>1. job' \in MigrationJob /\ job'.status \in {"pending", "failed"}
    BY <1>11 DEF MigrationFails, MigrationJob
  <2> QED
    BY <1>11, <2>1 DEF MigrationFails, TypeOK, IsReady
<1>12. ASSUME NEW c \in Commit, OrphanEnds(c) PROVE TypeInv'
  <2>1. schema' \in Nat /\ orphans' \subseteq Commit
    BY <1>12, Values DEF OrphanEnds, Upgrade, TypeOK
  <2> QED
    BY <1>12, <2>1 DEF OrphanEnds, TypeOK, IsReady
<1>13. ASSUME NEW c \in Commit, SeeMigration(c) PROVE TypeInv'
  BY <1>0, <1>13, AtIsActive, ProceedType DEF SeeMigration, TypeOK, IsReady
<1>14. ASSUME NEW c \in Commit, TimeOut(c) PROVE TypeInv'
  <2>1. step' \in [Commit -> Absent..Failed]
    BY <1>0, <1>14, FailedType DEF TimeOut
  <2> QED
    BY <1>14, <2>1 DEF TimeOut, TypeOK, IsReady
<1>15. ASSUME NEW c \in Commit, ApplyManifests(c) PROVE TypeInv'
  <2>1. step' \in [Commit -> Absent..Failed]
    BY <1>0, <1>15, AtIsActive, ProceedType DEF ApplyManifests
  <2>2. Floating \in Tag
    BY Values
  <2>3. /\ spec' = Floating /\ new' \in Pod \union {None} /\ old' \in Pod \union {None}
        /\ old' # None => ~IsReady(new')
    BY <1>0, <1>15, <2>2, TemplateType DEF ApplyManifests
  <2> QED
    BY <1>15, <2>1, <2>2, <2>3 DEF ApplyManifests, TypeOK, IsReady
<1>16. ASSUME NEW c \in Commit, SetImage(c) PROVE TypeInv'
  <2>1. step' \in [Commit -> Absent..Failed]
    BY <1>0, <1>16, AtIsActive, ProceedType DEF SetImage
  <2>2. c \in Tag
    BY Values
  <2>3. /\ spec' = c /\ new' \in Pod \union {None} /\ old' \in Pod \union {None}
        /\ old' # None => ~IsReady(new')
    BY <1>0, <1>16, <2>2, TemplateType DEF SetImage
  <2> QED
    BY <1>16, <2>1, <2>2, <2>3 DEF SetImage, TypeOK, IsReady
<1>17. ASSUME NEW c \in Commit, SeeRollout(c) PROVE TypeInv'
  BY <1>0, <1>17, AtIsActive, ProceedType DEF SeeRollout, TypeOK, IsReady
<1>18. CASE StartNew
  <2>1. new' \in Pod /\ old' = None
    BY <1>18, StartedType DEF StartNew, TypeOK
  <2> QED
    BY <1>18, <2>1 DEF StartNew, TypeOK, IsReady
<1>19. CASE StartOld
  <2>1. old' \in Pod /\ old # None
    BY <1>19, StartedType DEF StartOld, TypeOK, MayStart
  <2> QED
    BY <1>19, <2>1 DEF StartOld, TypeOK, IsReady
<1>20. CASE StopNew
  <2>1. new' \in Pod /\ new'.code = None
    BY <1>20 DEF StopNew, Stopped, TypeOK, IsReady, Pod
  <2> QED
    BY <1>20, <2>1 DEF StopNew, TypeOK, IsReady
<1>21. CASE StopOld
  <2>1. old' \in Pod /\ old # None
    BY <1>21 DEF StopOld, Stopped, TypeOK, IsReady, Pod
  <2> QED
    BY <1>21, <2>1 DEF StopOld, TypeOK, IsReady
<1>22. ASSUME NEW c \in Commit, ListTags(c) PROVE TypeInv'
  <2>1. step' \in [Commit -> Absent..Failed]
    BY <1>0, <1>22, AtIsActive, ProceedType DEF ListTags
  <2>2. Retired(Listed) \subseteq Commit
    BY Values DEF Retired, Listed, TypeOK
  <2>3. retired' \in [Commit -> SUBSET Commit]
    BY <1>0, <1>22, <2>2 DEF ListTags
  <2> QED
    BY <1>22, <2>1, <2>3 DEF ListTags, TypeOK, IsReady
<1>23. ASSUME NEW c \in Commit, DeleteTag(c) PROVE TypeInv'
  <2>1. retired' \in [Commit -> SUBSET Commit] /\ tags' \subseteq tags
    BY <1>0, <1>23 DEF DeleteTag
  <2> QED
    BY <1>23, <2>1 DEF DeleteTag, TypeOK, IsReady
<1>24. ASSUME NEW c \in Commit, Finish(c) PROVE TypeInv'
  BY <1>0, <1>24, AtIsActive, ProceedType DEF Finish, TypeOK, IsReady
<1>25. CASE UNCHANGED vars
  BY <1>25 DEF vars, TypeOK, IsReady
<1> QED
  BY <1>1, <1>2, <1>3, <1>4, <1>5, <1>6, <1>7, <1>8, <1>9, <1>10, <1>11, <1>12, <1>13,
     <1>14, <1>15, <1>16, <1>17, <1>18, <1>19, <1>20, <1>21, <1>22, <1>23, <1>24, <1>25
  DEF Next, Advance

LEMMA AlwaysTypeInv == Spec => []TypeInv
  BY InitTypeInv, StepTypeInv, PTL DEF Spec

\* The registry, the Job, the schema, the template and its pods keep their
\* types, and a pod of an earlier template is kept only while the one of this
\* template is not ready: however runs overlap and whatever is lost.
THEOREM SpecTypeOK == Spec => []TypeOK
<1>1. TypeInv => TypeOK
  BY DEF TypeInv
<1> QED
  BY <1>1, AlwaysTypeInv, PTL

-----------------------------------------------------------------------------
(***************************************************************************)
(* What holds however runs overlap.                                        *)
(***************************************************************************)
\* Exactly the commits that were pushed have had a run.
RunsOfPushed == \A c \in Commit : c <= pushed <=> step[c] # Absent

LatestPushed == latest # None => latest <= pushed

TagsPushed == \A c \in Commit : c \in tags => c <= pushed

\* A pod runs the image of its tag, and no image of a commit to come.
OfItsTag(pod) ==
    pod # None /\ pod.code # None =>
        /\ pod.code <= pushed
        /\ pod.tag # Floating => pod.code = pod.tag

\* The pod of the template has the template's tag.
NewIsOfSpec ==
    /\ spec = None => new = None
    /\ spec # None => new # None /\ new.tag = spec
    /\ new = None => old = None

\* A Job that is complete has brought the schema to its code.
CompleteMigrated == job # None /\ job.status = "complete" => Revision[job.code] <= schema

OrderInv ==
    /\ RunsOfPushed
    /\ LatestPushed /\ TagsPushed
    /\ OfItsTag(new) /\ OfItsTag(old)
    /\ NewIsOfSpec
    /\ CompleteMigrated

\* The run of c takes one step, or is given up.
Moves(c) == Active(c) /\ (Proceed(c) \/ step' = [step EXCEPT ![c] = Failed])

LEMMA MovesType ==
    ASSUME TypeInv, NEW c \in Commit, Moves(c)
    PROVE  /\ step[c] \in 1..11
           /\ step'[c] = step[c] + 1 \/ step'[c] = 13
           /\ \A d \in Commit \ {c} : step'[d] = step[d]
<1>1. step \in [Commit -> Absent..Failed] /\ step[c] \in 1..11
  BY StepPlaces DEF TypeInv, TypeOK, Moves, Active
<1> QED
  BY <1>1, ProceedType, FailedType DEF Moves

\* What each action does to the runs.
LEMMA MovesOfActions ==
    ASSUME NEW c \in Commit
    PROVE  /\ Lose(c) \/ PassCI(c) \/ PushSha(c) \/ PushLatest(c) \/ DeleteJob(c)
              \/ ApplyJob(c) \/ SeeMigration(c) \/ TimeOut(c) \/ ApplyManifests(c)
              \/ SetImage(c) \/ SeeRollout(c) \/ ListTags(c) \/ Finish(c)
              => Moves(c) /\ pushed' = pushed /\ serial' = serial
           /\ DeleteTag(c) \/ OrphanEnds(c)
              => step' = step /\ pushed' = pushed /\ serial' = serial
  BY AtIsActive
  DEF Moves, Lose, PassCI, PushSha, PushLatest, DeleteJob, ApplyJob, SeeMigration, TimeOut,
      ApplyManifests, SetImage, SeeRollout, ListTags, Finish, DeleteTag, OrphanEnds, workflow

\* A change of the template keeps what is said of the pods.
LEMMA TemplateOrder ==
    ASSUME TypeInv, OfItsTag(new), OfItsTag(old), NewIsOfSpec, NEW tag \in Tag, Template(tag),
           pushed' = pushed
    PROVE  OfItsTag(new)' /\ OfItsTag(old)' /\ NewIsOfSpec'
<1>1. spec' = tag /\ tag # None
  BY Values DEF Template
<1>2. OfItsTag(Survivor)
  BY DEF Survivor, OfItsTag
<1>3. CASE tag = spec
  BY <1>1, <1>3 DEF Template, NewIsOfSpec, OfItsTag
<1>4. CASE tag # spec /\ Survivor # None /\ Survivor.tag = tag
  <2>1. new' = Survivor /\ old' = None
    BY <1>4 DEF Template
  <2> QED
    BY <1>1, <1>2, <1>4, <2>1 DEF NewIsOfSpec, OfItsTag
<1>5. CASE tag # spec /\ ~(Survivor # None /\ Survivor.tag = tag)
  <2>1. new' = [tag |-> tag, code |-> None] /\ old' = Survivor
    BY <1>5 DEF Template
  <2>2. new' \in Pod
    BY <2>1 DEF Pod
  <2>3. new' # None /\ new'.tag = tag /\ new'.code = None
    BY <2>1, <2>2, Values
  <2> QED
    BY <1>1, <1>2, <2>1, <2>3 DEF NewIsOfSpec, OfItsTag
<1> QED
  BY <1>3, <1>4, <1>5

\* A container that starts runs the image of its tag.
LEMMA StartedOrder ==
    ASSUME TypeInv, OrderInv, NEW pod \in Pod \union {None}, MayStart(pod)
    PROVE  OfItsTag(Started(pod))
<1>1. /\ Started(pod).tag = pod.tag /\ Started(pod).code \in Commit
      /\ Started(pod).code = IF pod.tag = Floating THEN latest ELSE pod.tag
      /\ pod \in Pod /\ pod.tag \in Tag
  BY StartedType DEF Pod
<1>2. CASE pod.tag = Floating
  BY <1>1, <1>2, Values DEF OrderInv, LatestPushed, OfItsTag
<1>3. CASE pod.tag # Floating
  <2>1. pod.tag \in Commit /\ pod.tag \in tags
    BY <1>1, <1>3, Values DEF MayStart
  <2>2. pod.tag <= pushed
    BY <2>1 DEF OrderInv, TagsPushed, TypeInv
  <2> QED
    BY <1>1, <1>3, <2>2 DEF OfItsTag
<1> QED
  BY <1>2, <1>3

\* The schema never goes back.
LEMMA SchemaGrows ==
    ASSUME TypeInv, [Next]_vars
    PROVE  schema' \in Nat /\ schema <= schema'
<1>1. schema' \in Nat
  BY StepTypeInv DEF TypeInv, TypeOK
<1>2. schema \in Nat
  BY DEF TypeInv, TypeOK
<1>3. CASE schema' = schema
  BY <1>2, <1>3
<1>4. CASE Migrate
  BY <1>1, <1>2, <1>4 DEF Migrate, Upgrade
<1>5. CASE \E c \in Commit : OrphanEnds(c)
  BY <1>1, <1>2, <1>3, <1>5 DEF OrphanEnds, Upgrade
<1>6. schema' = schema \/ Migrate \/ \E c \in Commit : OrphanEnds(c)
  BY DEF Next, Advance, Push, Dispatch, Lose, PassCI, PushSha, PushLatest, DeleteJob,
         ApplyJob, StartMigration, MigrationFails, SeeMigration, TimeOut, ApplyManifests,
         SetImage, SeeRollout, StartNew, StartOld, StopNew, StopOld, ListTags, DeleteTag,
         Finish, vars, database
<1> QED
  BY <1>1, <1>3, <1>4, <1>5, <1>6

LEMMA InitOrderInv == Init => OrderInv
  BY StepPlaces, Values
  DEF Init, OrderInv, RunsOfPushed, LatestPushed, TagsPushed, OfItsTag, NewIsOfSpec,
      CompleteMigrated

\* A run that takes a step is one of a commit that was pushed.
LEMMA MovesKeepRuns ==
    ASSUME TypeInv, RunsOfPushed, NEW c \in Commit, Moves(c), pushed' = pushed
    PROVE  RunsOfPushed'
<1>1. step[c] # Absent /\ step'[c] # Absent /\ \A d \in Commit \ {c} : step'[d] = step[d]
  BY MovesType, StepPlaces
<1> QED
  BY <1>1 DEF RunsOfPushed

\* So is a run that begins.
LEMMA BeginKeepsRuns ==
    ASSUME TypeInv, RunsOfPushed, NEW c \in Commit, Begin(c),
           \/ c = pushed + 1 /\ pushed' = pushed + 1
           \/ c = pushed /\ pushed' = pushed
    PROVE  RunsOfPushed'
<1>1. /\ step'[c] = 1 /\ Absent = 0
      /\ \A d \in Commit \ {c} : step'[d] = step[d]
  BY BeginType, StepPlaces DEF TypeInv, TypeOK
<1>2. pushed \in Nat /\ Commit \subseteq Nat
  BY Values DEF TypeInv, TypeOK
<1> QED
  BY <1>1, <1>2 DEF RunsOfPushed

\* The schema is never taken back, so what it was brought to it stays at.
LEMMA StepCompleteMigrated ==
    ASSUME TypeInv, CompleteMigrated, [Next]_vars
    PROVE  CompleteMigrated'
<1>1. schema \in Nat /\ schema' \in Nat /\ schema <= schema'
  BY SchemaGrows DEF TypeInv, TypeOK
<1>2. CASE job' = job
  <2>1. job # None /\ job.status = "complete" => Revision[job.code] \in Nat
    BY Values DEF TypeInv, TypeOK, JobHasCode, MigrationJob
  <2> QED
    BY <1>1, <1>2, <2>1 DEF CompleteMigrated
<1>3. CASE Migrate
  <2>1. job'.code = job.code /\ Revision[job.code] \in Nat
    BY <1>3, Values DEF Migrate, TypeInv, TypeOK, JobHasCode, MigrationJob
  <2> QED
    BY <1>3, <2>1 DEF Migrate, Upgrade, CompleteMigrated
<1>4. CASE \E c \in Commit : DeleteJob(c)
  BY <1>4 DEF DeleteJob, CompleteMigrated
<1>5. CASE \E c \in Commit : ApplyJob(c)
  BY <1>2, <1>5 DEF ApplyJob, CompleteMigrated
<1>6. CASE StartMigration \/ MigrationFails
  BY <1>6 DEF StartMigration, MigrationFails, CompleteMigrated
<1>7. \/ job' = job \/ Migrate \/ StartMigration \/ MigrationFails
      \/ \E c \in Commit : DeleteJob(c) \/ ApplyJob(c)
  BY DEF Next, Advance, Push, Dispatch, Lose, PassCI, PushSha, PushLatest, OrphanEnds,
         SeeMigration, TimeOut, ApplyManifests, SetImage, SeeRollout, StartNew, StartOld,
         StopNew, StopOld, ListTags, DeleteTag, Finish, vars, database
<1> QED
  BY <1>2, <1>3, <1>4, <1>5, <1>6, <1>7

LEMMA StepOrderInv == TypeInv /\ OrderInv /\ [Next]_vars => OrderInv'
<1> SUFFICES ASSUME TypeInv, OrderInv, [Next]_vars PROVE OrderInv'
  OBVIOUS
<1>0. CompleteMigrated'
  BY StepCompleteMigrated DEF OrderInv
<1> USE DEF OrderInv, LatestPushed, TagsPushed, workflow, registry, database, api
<1>1. CASE Push
  <2>1. pushed \in Nat /\ pushed + 1 \in Commit
    BY <1>1, Values DEF Push, TypeInv, TypeOK
  <2>2. RunsOfPushed'
    BY <1>1, <2>1, BeginKeepsRuns DEF Push
  <2>3. OfItsTag(new)' /\ OfItsTag(old)' /\ NewIsOfSpec'
    <3>1. /\ new # None /\ new.code # None => new.code \in Nat
          /\ old # None /\ old.code # None => old.code \in Nat
      BY Values DEF TypeInv, TypeOK, Pod
    <3> QED
      BY <1>1, <2>1, <3>1 DEF Push, OfItsTag, NewIsOfSpec
  <2>4. LatestPushed' /\ TagsPushed'
    BY <1>1, <2>1, Values DEF Push, TypeInv, TypeOK
  <2> QED
    BY <1>0, <2>2, <2>3, <2>4
<1>2. CASE Dispatch
  <2>1. pushed \in Commit
    BY <1>2, Values DEF Dispatch, TypeInv, TypeOK
  <2>2. RunsOfPushed'
    BY <1>2, <2>1, BeginKeepsRuns DEF Dispatch
  <2> QED
    BY <1>0, <1>2, <2>2 DEF Dispatch, OfItsTag, NewIsOfSpec
<1>3. ASSUME NEW c \in Commit,
             \/ Lose(c) \/ PassCI(c) \/ PushSha(c) \/ PushLatest(c) \/ DeleteJob(c)
             \/ ApplyJob(c) \/ SeeMigration(c) \/ TimeOut(c) \/ ApplyManifests(c)
             \/ SetImage(c) \/ SeeRollout(c) \/ ListTags(c) \/ Finish(c)
      PROVE  OrderInv'
  <2>1. Moves(c) /\ pushed' = pushed
    BY <1>3, MovesOfActions
  <2>2. RunsOfPushed'
    BY <2>1, MovesKeepRuns
  <2>3. c <= pushed
    <3>1. step[c] \in 1..11
      BY <2>1, MovesType
    <3>2. step[c] # Absent
      BY <3>1, StepPlaces
    <3> QED
      BY <3>2, Values DEF RunsOfPushed, TypeInv, TypeOK
  <2>4. LatestPushed' /\ TagsPushed'
    <3>1. CASE PushSha(c)
      BY <2>1, <2>3, <3>1 DEF PushSha
    <3>2. CASE PushLatest(c)
      BY <2>1, <2>3, <3>2, Values DEF PushLatest
    <3>3. CASE UNCHANGED registry
      BY <2>1, <3>3
    <3> QED
      BY <1>3, <3>1, <3>2, <3>3
      DEF Lose, PassCI, DeleteJob, ApplyJob, SeeMigration, TimeOut, ApplyManifests, SetImage,
          SeeRollout, ListTags, Finish
  <2>5. OfItsTag(new)' /\ OfItsTag(old)' /\ NewIsOfSpec'
    <3>1. CASE ApplyManifests(c)
      BY <2>1, <3>1, TemplateOrder, Values DEF ApplyManifests
    <3>2. CASE SetImage(c)
      BY <2>1, <3>2, TemplateOrder, Values DEF SetImage
    <3>3. CASE UNCHANGED api
      BY <2>1, <3>3 DEF OfItsTag, NewIsOfSpec
    <3> QED
      BY <1>3, <3>1, <3>2, <3>3
      DEF Lose, PassCI, PushSha, PushLatest, DeleteJob, ApplyJob, SeeMigration, TimeOut,
          SeeRollout, ListTags, Finish
  <2> QED
    BY <1>0, <2>2, <2>4, <2>5
<1>4. ASSUME NEW c \in Commit, DeleteTag(c) \/ OrphanEnds(c) PROVE OrderInv'
  <2>1. tags' \subseteq tags
    BY <1>4 DEF DeleteTag, OrphanEnds
  <2> QED
    BY <1>0, <1>4, <2>1 DEF DeleteTag, OrphanEnds, RunsOfPushed, OfItsTag, NewIsOfSpec
<1>5. CASE StartMigration \/ Migrate \/ MigrationFails \/ UNCHANGED vars
  BY <1>0, <1>5
  DEF StartMigration, Migrate, MigrationFails, vars, RunsOfPushed, OfItsTag, NewIsOfSpec
<1>6. CASE StartNew \/ StartOld \/ StopNew \/ StopOld
  <2>1. RunsOfPushed' /\ LatestPushed' /\ TagsPushed' /\ pushed' = pushed
    BY <1>6 DEF StartNew, StartOld, StopNew, StopOld, RunsOfPushed
  <2>2. CASE StartNew
    <3>1. /\ OfItsTag(Started(new)) /\ new # None
          /\ Started(new) \in Pod /\ Started(new).tag = new.tag
      BY <2>2, StartedOrder, StartedType DEF StartNew, MayStart, TypeInv, TypeOK
    <3> QED
      BY <1>0, <2>1, <2>2, <3>1, Values DEF StartNew, OfItsTag, NewIsOfSpec
  <2>3. CASE StartOld
    <3>1. OfItsTag(Started(old)) /\ old # None
      BY <2>3, StartedOrder DEF StartOld, MayStart, TypeInv, TypeOK
    <3> QED
      BY <1>0, <2>1, <2>3, <3>1 DEF StartOld, OfItsTag, NewIsOfSpec
  <2>4. CASE StopNew
    <3>1. new' \in Pod /\ new'.tag = new.tag /\ new'.code = None /\ new # None
      BY <2>4 DEF StopNew, Stopped, IsReady, TypeInv, TypeOK, Pod
    <3> QED
      BY <1>0, <2>1, <2>4, <3>1, Values DEF StopNew, OfItsTag, NewIsOfSpec
  <2>5. CASE StopOld
    <3>1. old' \in Pod /\ old'.code = None /\ old # None
      BY <2>5 DEF StopOld, Stopped, IsReady, TypeInv, TypeOK, Pod
    <3> QED
      BY <1>0, <2>1, <2>5, <3>1, Values DEF StopOld, OfItsTag, NewIsOfSpec
  <2> QED
    BY <1>6, <2>2, <2>3, <2>4, <2>5
<1> QED
  BY <1>1, <1>2, <1>3, <1>4, <1>5, <1>6 DEF Next, Advance

LEMMA AlwaysOrderInv == Spec => [](TypeInv /\ OrderInv)
  BY InitTypeInv, StepTypeInv, InitOrderInv, StepOrderInv, PTL DEF Spec

-----------------------------------------------------------------------------
(***************************************************************************)
(* What holds as long as runs have come one at a time: the migration.      *)
(***************************************************************************)
OnlyNewest == \A c \in Commit : Active(c) => c = pushed

\* latest stays as the newest run has pushed it.
LatestIsOwn == \A c \in Commit : c = pushed /\ step[c] \in PushedLatest => latest = c

\* So the Job it applies, the old one being gone, starts from its own image.
JobIsOwn ==
    \A c \in Commit :
        /\ step[c] = 5 => job = None
        /\ step[c] = 6 /\ job # None /\ job.code # None => job.code = c

SawItsMigration == \A c \in Commit : step[c] \in SawMigration => Revision[c] <= schema

MigrationInv == OnlyNewest /\ LatestIsOwn /\ JobIsOwn /\ SawItsMigration

\* The run of c begins, of a push or of a dispatch.
Begins(c) ==
    /\ Begin(c)
    /\ \/ c = pushed + 1 /\ pushed' = pushed + 1
       \/ c = pushed /\ pushed' = pushed /\ step[c] \in {Done, Failed}
    /\ UNCHANGED <<retired, registry, database, api>>

LEMMA ActivePlace == \A c : Active(c) <=> step[c] \in 1..11
  BY StepPlaces DEF Active

\* Every step is one of a run, of the migrations Job, of a pod, or none.
LEMMA NextCases ==
    ASSUME TypeInv, [Next]_vars
    PROVE  \/ \E c \in Commit : Begins(c) \/ Advance(c) \/ Lose(c) \/ OrphanEnds(c)
           \/ StartMigration \/ Migrate \/ MigrationFails
           \/ StartNew \/ StartOld \/ StopNew \/ StopOld
           \/ UNCHANGED vars
<1>1. CASE Push
  <2>1. pushed + 1 \in Commit
    BY <1>1, Values DEF Push, TypeInv, TypeOK
  <2> QED
    BY <1>1, <2>1 DEF Push, Begins
<1>2. CASE Dispatch
  <2>1. pushed \in Commit
    BY <1>2, Values DEF Dispatch, TypeInv, TypeOK
  <2> QED
    BY <1>2, <2>1 DEF Dispatch, Begins
<1> QED
  BY <1>1, <1>2 DEF Next

\* At each of them at most one run begins, goes on or is given up.
LEMMA RunsChange ==
    ASSUME TypeInv, [Next]_vars
    PROVE  \/ \E c \in Commit : Begins(c)
           \/ /\ pushed' = pushed /\ serial' = serial
              /\ \/ \E c \in Commit : Moves(c)
                 \/ step' = step
<1>1. CASE \E c \in Commit : Advance(c) \/ Lose(c) \/ OrphanEnds(c)
  BY <1>1, MovesOfActions DEF Advance
<1>2. CASE UNCHANGED workflow
  BY <1>2 DEF workflow
<1> QED
  BY <1>1, <1>2, NextCases
  DEF StartMigration, Migrate, MigrationFails, StartNew, StartOld, StopNew, StopOld, vars

\* As long as runs have come one at a time, they have all along, and one that
\* begins finds no other under way.
LEMMA SerialStays ==
    ASSUME TypeInv, [Next]_vars, serial'
    PROVE  /\ serial
           /\ \A c \in Commit : Begins(c) => /\ step'[c] = 1
                                             /\ \A d \in Commit : step[d] \notin 1..11
                                             /\ \A d \in Commit \ {c} : step'[d] = step[d]
<1>1. ASSUME NEW c \in Commit, Begins(c)
      PROVE  /\ serial /\ step'[c] = 1
             /\ \A d \in Commit : step[d] \notin 1..11
             /\ \A d \in Commit \ {c} : step'[d] = step[d]
  BY <1>1, BeginType, ActivePlace DEF Begins, TypeInv, TypeOK
<1>2. CASE serial' = serial
  BY <1>1, <1>2
<1> QED
  BY <1>1, <1>2, RunsChange

\* A step of a run is one of the newest commit's.
LEMMA NewestMoves ==
    ASSUME TypeInv, OnlyNewest, NEW c \in Commit, Moves(c)
    PROVE  /\ c = pushed /\ step[c] \in 1..11
           /\ step'[c] = step[c] + 1 \/ step'[c] = 13
           /\ \A d \in Commit \ {c} : step'[d] = step[d] /\ step[d] \notin 1..11
<1>1. c = pushed /\ \A d \in Commit : step[d] \in 1..11 => d = c
  BY ActivePlace DEF OnlyNewest, Moves
<1> QED
  BY <1>1, MovesType

LEMMA StepOnlyNewest ==
    ASSUME TypeInv, OnlyNewest, [Next]_vars, serial'
    PROVE  OnlyNewest'
<1> SUFFICES ASSUME NEW d \in Commit, step'[d] \in 1..11 PROVE d = pushed'
  BY StepPlaces DEF OnlyNewest, Active
<1>1. CASE \E c \in Commit : Begins(c)
  <2>1. PICK c \in Commit : Begins(c)
    BY <1>1
  <2>2. d = c
    BY <2>1, SerialStays
  <2> QED
    BY <2>1, <2>2 DEF Begins
<1>2. CASE pushed' = pushed /\ \E c \in Commit : Moves(c)
  BY <1>2, NewestMoves
<1>3. CASE pushed' = pushed /\ step' = step
  BY <1>3, ActivePlace DEF OnlyNewest
<1> QED
  BY <1>1, <1>2, <1>3, RunsChange

\* The place of a run at which each action takes it.
LEMMA PlaceOfActions ==
    ASSUME NEW c \in Commit
    PROVE  /\ PassCI(c) => step[c] = 1
           /\ PushSha(c) => step[c] = 2
           /\ PushLatest(c) => step[c] = 3
           /\ DeleteJob(c) => step[c] = 4
           /\ ApplyJob(c) => step[c] = 5
           /\ SeeMigration(c) => step[c] = 6
           /\ ApplyManifests(c) => step[c] = 7
           /\ SetImage(c) => step[c] = 8
           /\ SeeRollout(c) => step[c] = 9
           /\ ListTags(c) => step[c] = 10
           /\ DeleteTag(c) \/ Finish(c) => step[c] = 11
           /\ TimeOut(c) => step[c] \in {6, 9}
  BY AtPlace
  DEF PassCI, PushSha, PushLatest, DeleteJob, ApplyJob, SeeMigration, TimeOut,
      ApplyManifests, SetImage, SeeRollout, ListTags, DeleteTag, Finish

\* A run that is lost or gives up has failed.
LEMMA GivenUp ==
    ASSUME TypeInv, NEW c \in Commit, Lose(c) \/ TimeOut(c)
    PROVE  step'[c] = 13 /\ \A d \in Commit \ {c} : step'[d] = step[d]
  BY FailedType DEF Lose, TimeOut, TypeInv, TypeOK

LEMMA StepLatestIsOwn ==
    ASSUME TypeInv, OnlyNewest, LatestIsOwn, [Next]_vars, serial'
    PROVE  LatestIsOwn'
<1> SUFFICES ASSUME NEW d \in Commit, d = pushed', step'[d] \in 4..12 PROVE latest' = d
  BY DEF LatestIsOwn, PushedLatest
<1> USE DEF LatestIsOwn, PushedLatest
<1>1. CASE \E c \in Commit : Begins(c)
  BY <1>1, SerialStays DEF Begins
<1>2. CASE \E c \in Commit : PushLatest(c)
  <2>1. PICK c \in Commit : PushLatest(c)
    BY <1>2
  <2>2. Moves(c) /\ pushed' = pushed /\ latest' = c
    BY <2>1, MovesOfActions DEF PushLatest
  <2> QED
    BY <2>2, NewestMoves
<1>3. CASE /\ pushed' = pushed /\ latest' = latest
           /\ \E c \in Commit : Moves(c) /\ (step[c] # 3 \/ step'[c] = 13)
  BY <1>3, NewestMoves
<1>4. CASE UNCHANGED <<step, pushed, latest>>
  BY <1>4
<1>5. ASSUME NEW c \in Commit, Lose(c) \/ Advance(c) \/ OrphanEnds(c), ~PushLatest(c)
      PROVE  /\ pushed' = pushed /\ latest' = latest
             /\ step' = step \/ (Moves(c) /\ (step[c] # 3 \/ step'[c] = 13))
  <2>1. latest' = latest
    BY <1>5 DEF Advance, Lose, PassCI, PushSha, DeleteJob, ApplyJob, SeeMigration, TimeOut,
        ApplyManifests, SetImage, SeeRollout, ListTags, DeleteTag, Finish, OrphanEnds, registry
  <2>2. CASE Lose(c) \/ TimeOut(c)
    BY <2>1, <2>2, MovesOfActions, GivenUp
  <2>3. CASE DeleteTag(c) \/ OrphanEnds(c)
    BY <2>1, <2>3, MovesOfActions
  <2>4. CASE \/ PassCI(c) \/ PushSha(c) \/ DeleteJob(c) \/ ApplyJob(c) \/ SeeMigration(c)
             \/ ApplyManifests(c) \/ SetImage(c) \/ SeeRollout(c) \/ ListTags(c) \/ Finish(c)
    <3>1. step[c] # 3
      BY <2>4, PlaceOfActions
    <3> QED
      BY <2>1, <2>4, <3>1, MovesOfActions
  <2> QED
    BY <1>5, <2>2, <2>3, <2>4 DEF Advance
<1>6. CASE \E c \in Commit : Advance(c) \/ Lose(c) \/ OrphanEnds(c)
  <2>1. PICK c \in Commit : Advance(c) \/ Lose(c) \/ OrphanEnds(c)
    BY <1>6
  <2>2. CASE ~PushLatest(c)
    BY <1>3, <1>4, <1>5, <2>1, <2>2
  <2> QED
    BY <1>2, <2>2
<1>7. CASE UNCHANGED <<workflow, registry>>
  BY <1>4, <1>7 DEF workflow, registry
<1> QED
  BY <1>1, <1>6, <1>7, NextCases
  DEF StartMigration, Migrate, MigrationFails, StartNew, StartOld, StopNew, StopOld, vars

LEMMA StepJobIsOwn ==
    ASSUME TypeInv, OnlyNewest, LatestIsOwn, JobIsOwn, [Next]_vars, serial'
    PROVE  JobIsOwn'
<1> SUFFICES ASSUME NEW d \in Commit
             PROVE  /\ step'[d] = 5 => job' = None
                    /\ step'[d] = 6 /\ job' # None /\ job'.code # None => job'.code = d
  BY DEF JobIsOwn
<1> DEFINE Own == /\ step'[d] = 5 => job' = None
                  /\ step'[d] = 6 /\ job' # None /\ job'.code # None => job'.code = d
<1>1. ASSUME NEW c \in Commit, Begins(c) PROVE Own
  BY <1>1, SerialStays
<1>2. ASSUME NEW c \in Commit, DeleteJob(c) PROVE Own
  BY <1>2 DEF DeleteJob
<1>3. ASSUME NEW c \in Commit, ApplyJob(c) PROVE Own
  <2>1. Moves(c) /\ step[c] = 5 /\ job = None
    BY <1>3, MovesOfActions, PlaceOfActions DEF JobIsOwn
  <2>2. step'[d] # 5
    BY <2>1, NewestMoves
  <2>3. job' = [status |-> "pending", code |-> None]
    BY <1>3, <2>1 DEF ApplyJob
  <2> QED
    BY <2>2, <2>3
<1>4. ASSUME NEW c \in Commit, job' = job, Moves(c), step[c] \notin {4, 5} \/ step'[c] = 13
      PROVE  Own
  BY <1>4, NewestMoves DEF JobIsOwn
<1>5. ASSUME NEW c \in Commit, Advance(c) \/ Lose(c) \/ OrphanEnds(c),
             ~DeleteJob(c), ~ApplyJob(c)
      PROVE  Own
  <2>1. job' = job
    BY <1>5 DEF Advance, Lose, PassCI, PushSha, PushLatest, SeeMigration, TimeOut,
        ApplyManifests, SetImage, SeeRollout, ListTags, DeleteTag, Finish, OrphanEnds, database
  <2>2. CASE Lose(c) \/ TimeOut(c)
    BY <1>4, <2>1, <2>2, MovesOfActions, GivenUp
  <2>3. CASE DeleteTag(c) \/ OrphanEnds(c)
    BY <2>1, <2>3, MovesOfActions DEF JobIsOwn
  <2>4. CASE \/ PassCI(c) \/ PushSha(c) \/ PushLatest(c) \/ SeeMigration(c)
             \/ ApplyManifests(c) \/ SetImage(c) \/ SeeRollout(c) \/ ListTags(c) \/ Finish(c)
    <3>1. step[c] \notin {4, 5}
      BY <2>4, PlaceOfActions
    <3> QED
      BY <1>4, <2>1, <2>4, <3>1, MovesOfActions
  <2> QED
    BY <1>5, <2>2, <2>3, <2>4 DEF Advance
<1>6. CASE StartMigration
  <2>1. step' = step /\ job' = [status |-> "running", code |-> latest] /\ job # None
    BY <1>6 DEF StartMigration, workflow
  <2>2. step[d] = 6 => latest = d
    BY ActivePlace DEF OnlyNewest, LatestIsOwn, PushedLatest
  <2> QED
    BY <2>1, <2>2 DEF JobIsOwn
<1>7. CASE Migrate
  <2>1. step' = step /\ job # None /\ job'.code = job.code
    BY <1>7 DEF Migrate, workflow, TypeInv, TypeOK, MigrationJob
  <2> QED
    BY <2>1 DEF JobIsOwn
<1>8. CASE MigrationFails
  <2>1. step' = step /\ job # None /\ job'.code = None
    BY <1>8 DEF MigrationFails, workflow
  <2> QED
    BY <2>1 DEF JobIsOwn
<1>9. CASE UNCHANGED <<workflow, database>>
  BY <1>9 DEF JobIsOwn, workflow, database
<1> QED
  BY <1>1, <1>2, <1>3, <1>5, <1>6, <1>7, <1>8, <1>9, NextCases
  DEF StartNew, StartOld, StopNew, StopOld, vars

\* The Job the run has seen complete has brought the schema to its commit, and
\* the schema is never taken back.
LEMMA StepSawItsMigration ==
    ASSUME TypeInv, CompleteMigrated, OnlyNewest, JobIsOwn, SawItsMigration, [Next]_vars, serial'
    PROVE  SawItsMigration'
<1> SUFFICES ASSUME NEW d \in Commit, step'[d] \in 7..12 PROVE Revision[d] <= schema'
  BY DEF SawItsMigration, SawMigration
<1>1. CASE step[d] \in 7..12
  <2>1. Revision[d] \in Nat /\ schema \in Nat /\ schema' \in Nat /\ schema <= schema'
    BY SchemaGrows, Values DEF TypeInv, TypeOK
  <2> QED
    BY <1>1, <2>1 DEF SawItsMigration, SawMigration
<1>2. CASE SeeMigration(d)
  <2>1. step[d] = 6 /\ Complete /\ schema' = schema
    BY <1>2, PlaceOfActions DEF SeeMigration, database
  <2>2. job.code = d
    BY <2>1 DEF JobIsOwn, Complete, TypeInv, JobHasCode
  <2> QED
    BY <2>1, <2>2 DEF CompleteMigrated, Complete
<1>3. ASSUME NEW c \in Commit, Begins(c) PROVE step[d] \in 7..12
  BY <1>3, SerialStays
<1>4. ASSUME NEW c \in Commit, Advance(c) \/ Lose(c) \/ OrphanEnds(c)
      PROVE  step[d] \in 7..12 \/ SeeMigration(d)
  <2>1. CASE Lose(c) \/ TimeOut(c)
    BY <2>1, GivenUp
  <2>2. CASE DeleteTag(c) \/ OrphanEnds(c)
    BY <2>2, MovesOfActions
  <2>3. CASE \/ PassCI(c) \/ PushSha(c) \/ PushLatest(c) \/ DeleteJob(c) \/ ApplyJob(c)
             \/ ApplyManifests(c) \/ SetImage(c) \/ SeeRollout(c) \/ ListTags(c) \/ Finish(c)
    <3>1. step[c] # 6
      BY <2>3, PlaceOfActions
    <3>2. Moves(c)
      BY <2>3, MovesOfActions
    <3> QED
      BY <3>1, <3>2, NewestMoves
  <2>4. CASE SeeMigration(c)
    <3>1. Moves(c)
      BY <2>4, MovesOfActions
    <3> QED
      BY <2>4, <3>1, NewestMoves
  <2> QED
    BY <1>4, <2>1, <2>2, <2>3, <2>4 DEF Advance
<1>5. CASE UNCHANGED workflow
  BY <1>1, <1>5 DEF workflow
<1> QED
  BY <1>1, <1>2, <1>3, <1>4, <1>5, NextCases
  DEF StartMigration, Migrate, MigrationFails, StartNew, StartOld, StopNew, StopOld, vars

LEMMA StepMigrationInv ==
    ASSUME TypeInv, OrderInv, MigrationInv, [Next]_vars, serial'
    PROVE  MigrationInv'
  BY StepOnlyNewest, StepLatestIsOwn, StepJobIsOwn, StepSawItsMigration
  DEF MigrationInv, OrderInv

-----------------------------------------------------------------------------
(***************************************************************************)
(* ... and the rollout.                                                    *)
(***************************************************************************)
TagMigrated(tag) == tag \in Commit => Revision[tag] <= schema

TagsMigrated ==
    /\ TagMigrated(spec)
    /\ new # None => TagMigrated(new.tag)
    /\ old # None => TagMigrated(old.tag)

\* What the run of c has set, as far as it has come.
RolledOut ==
    \A c \in Commit :
        /\ step[c] = 8 => spec = Floating
        /\ step[c] = 9 => spec = c
        /\ c = pushed /\ step[c] \in SawRollout => spec = c /\ old = None

\* Something may start from latest.
FloatingThere ==
    \/ spec = Floating
    \/ new # None /\ new.tag = Floating
    \/ old # None /\ old.tag = Floating

\* It is there because of a run that has migrated the schema and is either
\* still under way or lost; latest has not gone back since.
LeftBy(c) ==
    /\ c <= pushed /\ Revision[c] <= schema
    /\ latest # None /\ c <= latest
    /\ c = pushed \/ step[c] = Failed
    /\ step[c] # Done

FloatingIsLeft == FloatingThere => \E c \in Commit : LeftBy(c)

\* What runs from latest is migrated, or a run before it was lost.
CodeExcused(code) ==
    Revision[code] <= schema \/ \E c \in Commit : c < code /\ step[c] = Failed

Excused(pod) == pod # None /\ pod.code # None /\ pod.tag = Floating => CodeExcused(pod.code)

RolloutInv ==
    /\ TagsMigrated
    /\ RolledOut
    /\ FloatingIsLeft
    /\ Excused(new) /\ Excused(old)

SerialInv == serial => MigrationInv /\ RolloutInv

\* What is of the template after a change of it.
LEMMA TemplateTags ==
    ASSUME TypeInv, NewIsOfSpec, NEW tag \in Tag, Template(tag)
    PROVE  /\ spec' = tag /\ new' # None /\ new'.tag = tag
           /\ new'.code # None => new' = new \/ new' = old
           /\ old' # None => old' = new \/ old' = old
<1>1. spec' = tag /\ tag # None
  BY Values DEF Template
<1>2. CASE tag = spec
  BY <1>1, <1>2 DEF Template, NewIsOfSpec
<1>3. CASE tag # spec /\ Survivor # None /\ Survivor.tag = tag
  BY <1>1, <1>3 DEF Template, Survivor
<1>4. CASE tag # spec /\ ~(Survivor # None /\ Survivor.tag = tag)
  <2>1. new' = [tag |-> tag, code |-> None] /\ old' = Survivor
    BY <1>4 DEF Template
  <2>2. new' \in Pod /\ new'.tag = tag /\ new'.code = None
    BY <2>1 DEF Pod
  <2>3. old' # None => old' = new \/ old' = old
    BY <2>1 DEF Survivor
  <2> QED
    BY <1>1, <1>4, <2>2, <2>3, Values
<1> QED
  BY <1>2, <1>3, <1>4

\* A pod keeps its tag when its container starts or stops.
LEMMA PodsKeepTags ==
    ASSUME TypeInv, NewIsOfSpec, StartNew \/ StartOld \/ StopNew \/ StopOld
    PROVE  /\ spec' = spec
           /\ new # None /\ new' # None /\ new'.tag = new.tag
           /\ old' # None => old # None /\ old'.tag = old.tag
<1>1. CASE StartNew
  BY <1>1, StartedType, Values DEF StartNew, TypeInv, TypeOK, MayStart
<1>2. CASE StartOld
  BY <1>2, StartedType, Values DEF StartOld, TypeInv, TypeOK, MayStart, NewIsOfSpec
<1>3. CASE StopNew
  <2>1. new' \in Pod /\ new'.tag = new.tag /\ new # None
    BY <1>3 DEF StopNew, Stopped, IsReady, TypeInv, TypeOK, Pod
  <2> QED
    BY <1>3, <2>1, Values DEF StopNew
<1>4. CASE StopOld
  <2>1. old'.tag = old.tag /\ old # None
    BY <1>4 DEF StopOld, Stopped, IsReady, TypeInv, TypeOK, Pod
  <2> QED
    BY <1>4, <2>1 DEF StopOld, NewIsOfSpec
<1> QED
  BY <1>1, <1>2, <1>3, <1>4

\* What was migrated stays so.
LEMMA StaysMigrated ==
    ASSUME TypeInv, [Next]_vars, NEW c \in Commit, Revision[c] <= schema
    PROVE  Revision[c] <= schema'
<1>1. Revision[c] \in Nat /\ schema \in Nat /\ schema' \in Nat /\ schema <= schema'
  BY SchemaGrows, Values DEF TypeInv, TypeOK
<1> QED
  BY <1>1

LEMMA StepTagsMigrated ==
    ASSUME TypeInv, NewIsOfSpec, SawItsMigration, TagsMigrated, [Next]_vars
    PROVE  TagsMigrated'
<1>1. \A t \in Commit : TagMigrated(t) => Revision[t] <= schema'
  BY StaysMigrated DEF TagMigrated
<1>2. CASE UNCHANGED api
  BY <1>1, <1>2 DEF TagsMigrated, TagMigrated, api
<1>3. ASSUME NEW c \in Commit, ApplyManifests(c) PROVE TagsMigrated'
  <2>1. /\ spec' = Floating /\ new' # None /\ new'.tag = Floating
        /\ old' # None => old' = new \/ old' = old
    BY <1>3, TemplateTags, Values DEF ApplyManifests
  <2> QED
    BY <1>1, <2>1, Values DEF TagsMigrated, TagMigrated
<1>4. ASSUME NEW c \in Commit, SetImage(c) PROVE TagsMigrated'
  <2>1. /\ spec' = c /\ new' # None /\ new'.tag = c
        /\ old' # None => old' = new \/ old' = old
    BY <1>4, TemplateTags, Values DEF SetImage
  <2>2. TagMigrated(c)
    BY <1>4, PlaceOfActions DEF SawItsMigration, SawMigration, TagMigrated
  <2> QED
    BY <1>1, <2>1, <2>2, Values DEF TagsMigrated, TagMigrated
<1>5. CASE StartNew \/ StartOld \/ StopNew \/ StopOld
  BY <1>1, <1>5, PodsKeepTags DEF TagsMigrated, TagMigrated
<1> QED
  BY <1>2, <1>3, <1>4, <1>5, NextCases
  DEF Begins, Advance, Lose, PassCI, PushSha, PushLatest, DeleteJob, ApplyJob, SeeMigration,
      TimeOut, SeeRollout, ListTags, DeleteTag, Finish, OrphanEnds, StartMigration, Migrate,
      MigrationFails, vars

LEMMA StepRolledOut ==
    ASSUME TypeInv, NewIsOfSpec, OnlyNewest, RolledOut, [Next]_vars, serial'
    PROVE  RolledOut'
<1> DEFINE Rolled(d) == /\ step'[d] = 8 => spec' = Floating
                        /\ step'[d] = 9 => spec' = d
                        /\ d = pushed' /\ step'[d] \in 10..12 => spec' = d /\ old' = None
<1> SUFFICES ASSUME NEW d \in Commit PROVE Rolled(d)
  BY DEF RolledOut, SawRollout
<1> USE DEF RolledOut, SawRollout
<1>1. ASSUME NEW c \in Commit, Begins(c) PROVE Rolled(d)
  BY <1>1, SerialStays DEF Begins
<1>2. ASSUME NEW c \in Commit, ApplyManifests(c) PROVE Rolled(d)
  <2>1. Moves(c) /\ step[c] = 7 /\ spec' = Floating /\ pushed' = pushed
    BY <1>2, MovesOfActions, PlaceOfActions, TemplateTags, Values DEF ApplyManifests
  <2> QED
    BY <2>1, NewestMoves
<1>3. ASSUME NEW c \in Commit, SetImage(c) PROVE Rolled(d)
  <2>1. Moves(c) /\ step[c] = 8 /\ spec' = c /\ pushed' = pushed
    BY <1>3, MovesOfActions, PlaceOfActions, TemplateTags, Values DEF SetImage
  <2> QED
    BY <2>1, NewestMoves
<1>4. ASSUME NEW c \in Commit, SeeRollout(c) PROVE Rolled(d)
  <2>1. Moves(c) /\ step[c] = 9 /\ spec' = c /\ old' = None /\ pushed' = pushed
    BY <1>4, MovesOfActions, PlaceOfActions DEF SeeRollout, api
  <2> QED
    BY <2>1, NewestMoves
<1>5. ASSUME NEW c \in Commit, pushed' = pushed, UNCHANGED api, Moves(c),
             step[c] \notin {7, 8, 9} \/ step'[c] = 13
      PROVE  Rolled(d)
  BY <1>5, NewestMoves DEF api
<1>6. CASE pushed' = pushed /\ step' = step /\ UNCHANGED api
  BY <1>6 DEF api
<1>7. ASSUME NEW c \in Commit, Advance(c) \/ Lose(c) \/ OrphanEnds(c),
             ~ApplyManifests(c), ~SetImage(c), ~SeeRollout(c)
      PROVE  Rolled(d)
  <2>1. UNCHANGED api /\ pushed' = pushed
    BY <1>7 DEF Advance, Lose, PassCI, PushSha, PushLatest, DeleteJob, ApplyJob, SeeMigration,
        TimeOut, ListTags, DeleteTag, Finish, OrphanEnds, workflow
  <2>2. CASE Lose(c) \/ TimeOut(c)
    BY <1>5, <2>1, <2>2, MovesOfActions, GivenUp
  <2>3. CASE DeleteTag(c) \/ OrphanEnds(c)
    BY <1>6, <2>1, <2>3, MovesOfActions
  <2>4. CASE \/ PassCI(c) \/ PushSha(c) \/ PushLatest(c) \/ DeleteJob(c) \/ ApplyJob(c)
             \/ SeeMigration(c) \/ ListTags(c) \/ Finish(c)
    <3>1. step[c] \notin {7, 8, 9}
      BY <2>4, PlaceOfActions
    <3>2. Moves(c)
      BY <2>4, MovesOfActions
    <3> QED
      BY <1>5, <2>1, <3>1, <3>2
  <2> QED
    BY <1>7, <2>2, <2>3, <2>4 DEF Advance
<1>8. CASE StartNew \/ StartOld \/ StopNew \/ StopOld
  <2>1. pushed' = pushed /\ step' = step
    BY <1>8 DEF StartNew, StartOld, StopNew, StopOld, workflow
  <2> QED
    BY <1>8, <2>1, PodsKeepTags
<1>9. CASE UNCHANGED <<workflow, api>>
  BY <1>6, <1>9 DEF workflow
<1> QED
  BY <1>1, <1>2, <1>3, <1>4, <1>7, <1>8, <1>9, NextCases
  DEF StartMigration, Migrate, MigrationFails, vars

\* A run that failed stays so once a later commit is pushed.
LEMMA StaysFailed ==
    ASSUME TypeInv, OnlyNewest, [Next]_vars, serial',
           NEW c \in Commit, step[c] = 13, c < pushed
    PROVE  step'[c] = 13
<1>0. pushed \in Nat
  BY Values DEF TypeInv, TypeOK
<1>1. ASSUME NEW d \in Commit, Begins(d) PROVE step'[c] = 13
  <2>1. c # d
    BY <1>0, <1>1, Values DEF Begins
  <2> QED
    BY <1>1, <2>1, SerialStays
<1>2. ASSUME NEW d \in Commit, Moves(d) PROVE step'[c] = 13
  BY <1>2, NewestMoves
<1> QED
  BY <1>1, <1>2, RunsChange

\* A run goes to its end by Finish.
LEMMA OnlyFinishEnds ==
    ASSUME TypeInv, OnlyNewest, [Next]_vars, serial', NEW c \in Commit,
           step[c] # 12, step'[c] = 12
    PROVE  Finish(c)
<1>1. ASSUME NEW d \in Commit, Begins(d) PROVE FALSE
  BY <1>1, SerialStays
<1>2. ASSUME NEW d \in Commit, Advance(d) \/ Lose(d) \/ OrphanEnds(d), ~Finish(d)
      PROVE  FALSE
  <2>1. CASE Lose(d) \/ TimeOut(d)
    BY <2>1, GivenUp
  <2>2. CASE DeleteTag(d) \/ OrphanEnds(d)
    BY <2>2, MovesOfActions
  <2>3. CASE \/ PassCI(d) \/ PushSha(d) \/ PushLatest(d) \/ DeleteJob(d) \/ ApplyJob(d)
             \/ SeeMigration(d) \/ ApplyManifests(d) \/ SetImage(d) \/ SeeRollout(d) \/ ListTags(d)
    <3>1. step[d] # 11
      BY <2>3, PlaceOfActions
    <3>2. Moves(d)
      BY <2>3, MovesOfActions
    <3> QED
      BY <3>1, <3>2, NewestMoves
  <2> QED
    BY <1>2, <2>1, <2>2, <2>3 DEF Advance
<1>3. ASSUME NEW d \in Commit, Finish(d) PROVE Finish(c)
  <2>1. Moves(d)
    BY <1>3, MovesOfActions
  <2>2. c = d
    BY <2>1, NewestMoves
  <2> QED
    BY <1>3, <2>2
<1>4. step' # step
  OBVIOUS
<1>5. \E d \in Commit : Advance(d) \/ Lose(d) \/ OrphanEnds(d)
  BY <1>1, <1>4, NextCases
  DEF StartMigration, Migrate, MigrationFails, StartNew, StartOld, StopNew, StopOld, vars, workflow
<1> QED
  BY <1>2, <1>3, <1>5

\* latest changes to the newest commit's image, and no earlier one's.
LEMMA LatestGrows ==
    ASSUME TypeInv, OrderInv, OnlyNewest, [Next]_vars, latest # None
    PROVE  latest' # None /\ latest <= latest'
<1>1. latest \in Nat /\ latest \in Commit /\ latest <= pushed
  BY Values DEF TypeInv, TypeOK, OrderInv, LatestPushed
<1>2. CASE latest' = latest
  BY <1>1, <1>2, Values
<1>3. ASSUME NEW c \in Commit, PushLatest(c) PROVE latest' = pushed /\ latest' # None
  <2>1. Moves(c) /\ latest' = c
    BY <1>3, MovesOfActions DEF PushLatest
  <2> QED
    BY <2>1, NewestMoves, Values
<1>4. latest' = latest \/ \E c \in Commit : PushLatest(c)
  BY NextCases
  DEF Begins, Advance, Lose, PassCI, PushSha, DeleteJob, ApplyJob, SeeMigration, TimeOut,
      ApplyManifests, SetImage, SeeRollout, ListTags, DeleteTag, Finish, OrphanEnds,
      StartMigration, Migrate, MigrationFails, StartNew, StartOld, StopNew, StopOld, vars, registry
<1> QED
  BY <1>1, <1>2, <1>3, <1>4

\* The run that left latest in the template answers for it until it succeeds.
LEMMA LeftByStays ==
    ASSUME TypeInv, OrderInv, OnlyNewest, [Next]_vars, serial',
           NEW c \in Commit, LeftBy(c), ~Finish(c)
    PROVE  LeftBy(c)'
<1>0. /\ pushed \in Nat /\ c \in Nat /\ latest \in Nat /\ latest \in Commit
      /\ Failed = 13 /\ Done = 12 /\ step[c] \in 0..13
  BY Values, StepPlaces DEF TypeInv, TypeOK, LeftBy
<1>1. Revision[c] <= schema' /\ latest' # None /\ c <= latest'
  <2>1. latest' \in Nat /\ latest' # None /\ latest <= latest'
    BY LatestGrows, StepTypeInv, Values DEF LeftBy, TypeInv, TypeOK
  <2> QED
    BY <1>0, <2>1, StaysMigrated DEF LeftBy
<1>2. step'[c] # 12
  BY <1>0, OnlyFinishEnds DEF LeftBy
<1>3. c <= pushed'
  <2>1. ASSUME NEW d \in Commit, Begins(d) PROVE pushed' = pushed \/ pushed' = pushed + 1
    BY <2>1 DEF Begins
  <2>2. pushed' = pushed \/ pushed' = pushed + 1
    BY <2>1, RunsChange
  <2>3. c <= pushed
    BY DEF LeftBy
  <2> QED
    BY <1>0, <2>2, <2>3
<1>4. CASE step[c] = 13 /\ c < pushed
  <2>1. step'[c] = 13
    BY <1>4, StaysFailed
  <2> QED
    BY <1>0, <1>1, <1>2, <1>4, <1>3, <2>1 DEF LeftBy
<1>5. CASE c = pushed
  <2>1. c = pushed' \/ step'[c] = 13
    <3>1. ASSUME NEW d \in Commit, Begins(d), pushed' # pushed PROVE step'[c] = 13
      <4>1. d # c /\ step'[c] = step[c] /\ step[c] \notin 1..11
        BY <1>0, <1>5, <3>1, SerialStays DEF Begins
      <4>2. step[c] # 0
        BY <1>0, <1>5, StepPlaces DEF OrderInv, RunsOfPushed
      <4> QED
        BY <1>0, <4>1, <4>2 DEF LeftBy
    <3> QED
      BY <1>5, <3>1, RunsChange
  <2> QED
    BY <1>0, <1>1, <1>2, <1>3, <2>1 DEF LeftBy
<1> QED
  BY <1>0, <1>4, <1>5 DEF LeftBy

LEMMA StepFloatingIsLeft ==
    ASSUME TypeInv, OrderInv, MigrationInv, RolledOut, FloatingIsLeft, [Next]_vars, serial'
    PROVE  FloatingIsLeft'
<1> SUFFICES ASSUME FloatingThere' PROVE \E c \in Commit : LeftBy(c)'
  BY DEF FloatingIsLeft
<1>0. NewIsOfSpec /\ OnlyNewest
  BY DEF OrderInv, MigrationInv
<1>1. ASSUME NEW c \in Commit, ApplyManifests(c) PROVE LeftBy(c)'
  <2>1. c = pushed /\ step[c] = 7
    BY <1>0, <1>1, MovesOfActions, NewestMoves, PlaceOfActions
  <2>2. Revision[c] <= schema /\ latest = c
    BY <2>1 DEF MigrationInv, SawItsMigration, SawMigration, LatestIsOwn, PushedLatest
  <2>3. LeftBy(c) /\ ~Finish(c)
    BY <2>1, <2>2, PlaceOfActions, StepPlaces, Values DEF LeftBy
  <2> QED
    BY <1>0, <2>3, LeftByStays
<1>2. ASSUME NEW c \in Commit, Finish(c) PROVE FALSE
  <2>1. c = pushed /\ step[c] = 11
    BY <1>0, <1>2, MovesOfActions, NewestMoves, PlaceOfActions
  <2>2. spec = c /\ old = None
    BY <2>1 DEF RolledOut, SawRollout
  <2>3. new.tag = c
    BY <1>0, <2>2, Values DEF NewIsOfSpec
  <2> QED
    BY <1>2, <2>2, <2>3, Values DEF Finish, FloatingThere, api
<1>3. CASE FloatingThere /\ \A c \in Commit : ~Finish(c)
  BY <1>0, <1>3, LeftByStays DEF FloatingIsLeft
<1>4. ASSUME NEW c \in Commit, SetImage(c) PROVE FloatingThere
  <2>1. /\ spec' = c /\ new' # None /\ new'.tag = c
        /\ old' # None => old' = new \/ old' = old
    BY <1>0, <1>4, TemplateTags, Values DEF SetImage
  <2> QED
    BY <2>1, Values DEF FloatingThere
<1>5. CASE StartNew \/ StartOld \/ StopNew \/ StopOld
  <2>1. FloatingThere
    BY <1>0, <1>5, PodsKeepTags DEF FloatingThere
  <2>2. step' = step
    BY <1>5 DEF StartNew, StartOld, StopNew, StopOld, workflow
  <2> QED
    BY <1>2, <1>3, <2>1
<1>6. CASE UNCHANGED api
  <2>1. FloatingThere
    BY <1>6 DEF FloatingThere, api
  <2> QED
    BY <1>2, <1>3, <2>1
<1> QED
  BY <1>1, <1>2, <1>3, <1>4, <1>5, <1>6, NextCases
  DEF Begins, Advance, Lose, PassCI, PushSha, PushLatest, DeleteJob, ApplyJob, SeeMigration,
      TimeOut, SeeRollout, ListTags, DeleteTag, OrphanEnds, StartMigration, Migrate,
      MigrationFails, vars

\* Code that is excused stays so.
LEMMA StaysExcused ==
    ASSUME TypeInv, OnlyNewest, [Next]_vars, serial',
           NEW code \in Commit, CodeExcused(code), code <= pushed
    PROVE  CodeExcused(code)'
<1>1. CASE Revision[code] <= schema
  BY <1>1, StaysMigrated DEF CodeExcused
<1>2. CASE \E c \in Commit : c < code /\ step[c] = Failed
  <2>1. PICK c \in Commit : c < code /\ step[c] = 13
    BY <1>2, StepPlaces
  <2>2. c < pushed
    BY <2>1, Values DEF TypeInv, TypeOK
  <2>3. step'[c] = 13
    BY <2>1, <2>2, StaysFailed
  <2> QED
    BY <2>1, <2>3, StepPlaces DEF CodeExcused
<1> QED
  BY <1>1, <1>2 DEF CodeExcused

\* A container that starts from latest, left there by a run: its own, which has
\* migrated the schema, or one before it, which was lost.
LEMMA StartedExcused ==
    ASSUME TypeInv, OrderInv, FloatingIsLeft, FloatingThere
    PROVE  CodeExcused(latest)
<1>1. PICK c \in Commit : LeftBy(c)
  BY DEF FloatingIsLeft
<1>2. latest \in Commit /\ latest <= pushed /\ c <= latest
  BY <1>1 DEF LeftBy, TypeInv, TypeOK, OrderInv, LatestPushed
<1>3. CASE c = latest
  BY <1>1, <1>3 DEF LeftBy, CodeExcused
<1>4. CASE c # latest
  <2>1. c < latest /\ c # pushed
    BY <1>2, <1>4, Values DEF TypeInv, TypeOK
  <2> QED
    BY <1>1, <2>1 DEF LeftBy, CodeExcused
<1> QED
  BY <1>3, <1>4

LEMMA StepExcused ==
    ASSUME TypeInv, OrderInv, MigrationInv, FloatingIsLeft, Excused(new), Excused(old),
           [Next]_vars, serial'
    PROVE  Excused(new)' /\ Excused(old)'
<1>0. NewIsOfSpec /\ OnlyNewest /\ OfItsTag(new) /\ OfItsTag(old)
  BY DEF OrderInv, MigrationInv
<1>1. ASSUME NEW pod, pod \in {new, old}, pod # None, pod.code # None, pod.tag = Floating
      PROVE  CodeExcused(pod.code)'
  <2>1. CodeExcused(pod.code) /\ pod.code <= pushed /\ pod.code \in Commit
    BY <1>0, <1>1 DEF Excused, OfItsTag, TypeInv, TypeOK, Pod
  <2> QED
    BY <1>0, <2>1, StaysExcused
<1>2. ASSUME NEW pod, pod = None \/ pod.code = None \/ pod \in {new, old}
      PROVE  pod # None /\ pod.code # None /\ pod.tag = Floating => CodeExcused(pod.code)'
  BY <1>1, <1>2
<1>3. ASSUME NEW tag \in Tag, Template(tag) PROVE Excused(new)' /\ Excused(old)'
  BY <1>0, <1>2, <1>3, TemplateTags DEF Excused, CodeExcused
<1>4. ASSUME NEW c \in Commit, ApplyManifests(c) \/ SetImage(c)
      PROVE  Excused(new)' /\ Excused(old)'
  BY <1>3, <1>4, Values DEF ApplyManifests, SetImage
<1>5. CASE UNCHANGED api
  BY <1>2, <1>5 DEF Excused, CodeExcused, api
<1>6. ASSUME NEW pod \in {new, old}, MayStart(pod), pod.tag = Floating
      PROVE  \A code : code = latest => CodeExcused(code)'
  <2>1. FloatingThere /\ latest \in Commit
    BY <1>6, StartedType DEF FloatingThere, TypeInv, TypeOK, MayStart
  <2>2. CodeExcused(latest) /\ latest <= pushed
    BY <2>1, StartedExcused, Values DEF OrderInv, LatestPushed
  <2> QED
    BY <1>0, <2>1, <2>2, StaysExcused
<1>7. CASE StartNew
  <2>1. /\ MayStart(new) /\ new'.tag = new.tag /\ old' = None
        /\ new.tag = Floating => new'.code = latest
    BY <1>7, StartedType DEF StartNew, TypeInv, TypeOK
  <2> QED
    BY <1>6, <2>1 DEF Excused, CodeExcused
<1>8. CASE StartOld
  <2>1. /\ MayStart(old) /\ old'.tag = old.tag /\ new' = new
        /\ old.tag = Floating => old'.code = latest
    BY <1>8, StartedType DEF StartOld, TypeInv, TypeOK
  <2> QED
    BY <1>2, <1>6, <2>1 DEF Excused, CodeExcused
<1>9. CASE StopNew
  <2>1. new'.code = None /\ old' = old
    BY <1>9 DEF StopNew, Stopped, IsReady, TypeInv, TypeOK, Pod
  <2> QED
    BY <1>2, <2>1 DEF Excused, CodeExcused
<1>10. CASE StopOld
  <2>1. old'.code = None /\ new' = new
    BY <1>10 DEF StopOld, Stopped, IsReady, TypeInv, TypeOK, Pod
  <2> QED
    BY <1>2, <2>1 DEF Excused, CodeExcused
<1> QED
  BY <1>4, <1>5, <1>7, <1>8, <1>9, <1>10, NextCases
  DEF Begins, Advance, Lose, PassCI, PushSha, PushLatest, DeleteJob, ApplyJob, SeeMigration,
      TimeOut, SeeRollout, ListTags, DeleteTag, Finish, OrphanEnds, StartMigration, Migrate,
      MigrationFails, vars

LEMMA InitSerialInv == Init => SerialInv
<1> SUFFICES ASSUME Init PROVE MigrationInv /\ RolloutInv
  BY DEF SerialInv
<1>1. \A c \in Commit : step[c] = 0
  BY StepPlaces DEF Init
<1>2. MigrationInv
  BY <1>1, StepPlaces
  DEF MigrationInv, OnlyNewest, Active, LatestIsOwn, PushedLatest, JobIsOwn, SawItsMigration,
      SawMigration
<1>3. RolledOut
  BY <1>1 DEF RolledOut, SawRollout
<1>4. TagsMigrated /\ FloatingIsLeft /\ Excused(new) /\ Excused(old)
  BY Values DEF Init, TagsMigrated, TagMigrated, FloatingIsLeft, FloatingThere, Excused
<1> QED
  BY <1>2, <1>3, <1>4 DEF RolloutInv

LEMMA StepSerialInv == TypeInv /\ OrderInv /\ SerialInv /\ [Next]_vars => SerialInv'
<1> SUFFICES ASSUME TypeInv, OrderInv, SerialInv, [Next]_vars, serial'
             PROVE  MigrationInv' /\ RolloutInv'
  BY DEF SerialInv
<1>1. MigrationInv /\ RolloutInv
  BY SerialStays DEF SerialInv
<1>2. MigrationInv'
  BY <1>1, StepMigrationInv
<1>3. OnlyNewest /\ SawItsMigration /\ NewIsOfSpec
  BY <1>1 DEF MigrationInv, OrderInv
<1>4. TagsMigrated' /\ RolledOut'
  BY <1>1, <1>3, StepTagsMigrated, StepRolledOut DEF RolloutInv
<1>5. FloatingIsLeft'
  BY <1>1, StepFloatingIsLeft DEF RolloutInv
<1>6. Excused(new)' /\ Excused(old)'
  BY <1>1, StepExcused DEF RolloutInv
<1> QED
  BY <1>2, <1>4, <1>5, <1>6 DEF RolloutInv

LEMMA AlwaysSerialInv == Spec => [](TypeInv /\ OrderInv /\ SerialInv)
  BY InitTypeInv, StepTypeInv, InitOrderInv, StepOrderInv, InitSerialInv, StepSerialInv, PTL
  DEF Spec

\* The schema comes before the code while runs do not overlap: a run that has
\* seen its migration finds the database at its own commit's migration, and a
\* pod serves with code ahead of the schema only if it started from latest
\* where a lost run had left it.
THEOREM SpecMigratedFirst == Spec => []MigratedFirst
<1>1. TypeInv /\ OrderInv /\ SerialInv => MigratedFirst
  <2> SUFFICES ASSUME TypeInv, OrderInv, MigrationInv, RolloutInv
               PROVE  PicksUpNewSchema /\ ServedNeverAhead
    BY DEF SerialInv, MigratedFirst
  <2>1. PicksUpNewSchema
    <3> SUFFICES ASSUME NEW c \in Commit, Past(c, "wait_job") PROVE Revision[c] <= schema
      BY DEF PicksUpNewSchema
    <3>1. step[c] \in 0..13
      BY StepPlaces DEF TypeInv, TypeOK
    <3>2. step[c] \in SawMigration
      BY <3>1, PastWait
    <3> QED
      BY <3>2 DEF MigrationInv, SawItsMigration
  <2>2. ServedNeverAhead
    <3> SUFFICES ASSUME NEW pod \in {new, old}, IsReady(pod), Revision[pod.code] > schema
                 PROVE  /\ pod.tag = Floating
                        /\ \E c \in Commit : c < pod.code /\ step[c] = Failed
      BY DEF ServedNeverAhead, Ready
    <3>1. /\ pod # None /\ pod.code # None /\ OfItsTag(pod) /\ Excused(pod)
          /\ TagMigrated(pod.tag)
      BY DEF IsReady, OrderInv, RolloutInv, TagsMigrated
    <3>2. pod.code \in Commit /\ Revision[pod.code] \in Nat /\ schema \in Nat
      BY <3>1, Values DEF TypeInv, TypeOK, Pod
    <3>3. ~(Revision[pod.code] <= schema)
      BY <3>2
    <3>4. pod.tag = Floating
      BY <3>1, <3>2, <3>3 DEF OfItsTag, TagMigrated
    <3> QED
      BY <3>1, <3>3, <3>4 DEF Excused, CodeExcused
  <2> QED
    BY <2>1, <2>2
<1> QED
  BY <1>1, AlwaysSerialInv, PTL

\* Pushing to main deploys, while runs do not overlap: after a success of the
\* newest commit's run the API is on that commit's image.
THEOREM SpecNewestIsDeployed == Spec => []NewestIsDeployed
<1>1. TypeInv /\ SerialInv => NewestIsDeployed
  <2> SUFFICES ASSUME TypeInv, RolloutInv, pushed > 0, step[pushed] = Done PROVE spec = pushed
    BY DEF SerialInv, NewestIsDeployed
  <2>1. pushed \in Commit /\ step[pushed] \in SawRollout
    BY StepPlaces, Values DEF TypeInv, TypeOK, SawRollout
  <2> QED
    BY <2>1 DEF RolloutInv, RolledOut
<1> QED
  BY <1>1, AlwaysSerialInv, PTL

-----------------------------------------------------------------------------
(***************************************************************************)
(* The cleanup, however runs overlap.  A tag that a run has on its list    *)
(* has Keep others after it, and whoever deletes one of these has Keep     *)
(* others after that one: so the list is right when it is used, too.       *)
(***************************************************************************)
Behind(t) == {u \in Listed : Place(u) > Place(t)}

RetiredBehind == \A c \in Commit : \A t \in retired[c] : Cardinality(Behind(t)) >= Keep

\* A tag that was pushed is there, or Keep others are.
Kept(c) == c \in tags \/ Cardinality(Listed) >= Keep

PushedIsKept == \A c \in Commit : step[c] \in PushedSha \/ spec = c => Kept(c)

LatestIsThere ==
    /\ \A c \in Commit : step[c] \in PushedLatest => Floating \in tags
    /\ spec # None => Floating \in tags

CleanupInv == RetiredBehind /\ PushedIsKept /\ LatestIsThere

\* The tags behind another are a finite set of them.
LEMMA BehindIsListed ==
    ASSUME TypeInv, NEW t \in Commit
    PROVE  /\ IsFiniteSet(Listed) /\ Cardinality(Listed) \in Nat
           /\ Behind(t) \subseteq Listed \ {t}
           /\ IsFiniteSet(Behind(t)) /\ Cardinality(Behind(t)) \in Nat
           /\ Cardinality(Behind(t)) <= Cardinality(Listed \ {t})
           /\ Cardinality(Listed \ {t}) <= Cardinality(Listed)
<1>1. IsFiniteSet(Commit) /\ Listed \subseteq Commit
  BY FS_Interval, Values DEF Listed, TypeInv, TypeOK
<1>2. IsFiniteSet(Listed) /\ IsFiniteSet(Listed \ {t})
  BY <1>1, FS_Subset
<1>3. Behind(t) \subseteq Listed \ {t}
  <2>1. Place(t) \in Nat
    BY Values DEF Place
  <2> QED
    BY <2>1 DEF Behind
<1> QED
  BY <1>2, <1>3, FS_Subset, FS_CardinalityType

\* As long as no tag goes, what there is of them only grows.
LEMMA GrowingTags ==
    ASSUME TypeInv, TypeInv', tags \subseteq tags', NEW t \in Commit
    PROVE  /\ Cardinality(Behind(t)) <= Cardinality(Behind(t)')
           /\ Cardinality(Listed) <= Cardinality(Listed')
           /\ Kept(t) => Kept(t)'
<1>1. Behind(t) \subseteq Behind(t)' /\ Listed \subseteq Listed'
  BY DEF Behind, Listed
<1>2. IsFiniteSet(Behind(t)') /\ IsFiniteSet(Listed')
  <2>1. IsFiniteSet(Commit) /\ Listed' \subseteq Commit
    BY FS_Interval, Values DEF Listed, TypeInv, TypeOK
  <2>2. Behind(t)' \subseteq Listed'
    BY DEF Behind
  <2> QED
    BY <2>1, <2>2, FS_Subset
<1>3. Cardinality(Behind(t)) <= Cardinality(Behind(t)') /\ Cardinality(Listed) <= Cardinality(Listed')
  BY <1>1, <1>2, FS_Subset
<1>4. /\ Cardinality(Listed) \in Nat /\ Cardinality(Listed') \in Nat /\ Keep \in Nat
  BY <1>2, BehindIsListed, FS_CardinalityType, Values
<1> QED
  BY <1>3, <1>4 DEF Kept

\* A tag that is deleted has Keep others behind it, which stay.
LEMMA DeleteLeavesBehind ==
    ASSUME TypeInv, TypeInv', NEW t \in Commit, Cardinality(Behind(t)) >= Keep,
           tags' = tags \ {t}
    PROVE  /\ Cardinality(Listed') >= Keep
           /\ \A u \in Commit : Cardinality(Behind(u)) >= Keep => Cardinality(Behind(u)') >= Keep
<1>1. /\ IsFiniteSet(Listed') /\ Cardinality(Listed') \in Nat /\ Keep \in Nat
      /\ Cardinality(Behind(t)) \in Nat
  <2>1. IsFiniteSet(Commit) /\ Listed' \subseteq Commit
    BY FS_Interval, Values DEF Listed, TypeInv, TypeOK
  <2> QED
    BY <2>1, BehindIsListed, FS_Subset, FS_CardinalityType, Values
<1>2. Listed' = Listed \ {t} /\ \A u \in Commit : Place(u) \in Nat
  BY Values DEF Listed, Place
<1>3. Behind(t) \subseteq Listed' /\ \A u \in Commit : Behind(u)' \subseteq Listed'
  BY <1>2, BehindIsListed DEF Behind
<1>4. Cardinality(Listed') >= Keep
  <2>1. Cardinality(Behind(t)) <= Cardinality(Listed')
    BY <1>1, <1>3, FS_Subset
  <2> QED
    BY <1>1, <2>1
<1>5. ASSUME NEW u \in Commit, Cardinality(Behind(u)) >= Keep
      PROVE  Cardinality(Behind(u)') >= Keep
  <2>1. IsFiniteSet(Behind(u)') /\ Cardinality(Behind(u)') \in Nat
    BY <1>1, <1>3, FS_Subset, FS_CardinalityType
  <2>2. CASE t \notin Behind(u)
    <3>1. Behind(u)' = Behind(u)
      BY <1>2, <2>2 DEF Behind
    <3> QED
      BY <1>5, <3>1
  <2>3. CASE t \in Behind(u)
    <3>1. Place(t) > Place(u) /\ \A v \in Listed : v \in Commit
      BY <2>3, Values DEF Behind, Listed, TypeInv, TypeOK
    <3>2. Behind(t) \subseteq Behind(u)'
      BY <1>2, <1>3, <3>1 DEF Behind
    <3>3. Cardinality(Behind(t)) <= Cardinality(Behind(u)')
      BY <2>1, <3>2, FS_Subset
    <3> QED
      BY <1>1, <2>1, <3>3
  <2> QED
    BY <2>2, <2>3
<1> QED
  BY <1>4, <1>5

\* Whatever a step does to the registry, what was enough still is.
LEMMA StaysEnough ==
    ASSUME TypeInv, TypeInv', RetiredBehind, [Next]_vars, NEW u \in Commit
    PROVE  /\ Cardinality(Behind(u)) >= Keep => Cardinality(Behind(u)') >= Keep
           /\ Kept(u) => Kept(u)'
           /\ Floating \in tags => Floating \in tags'
<1>1. CASE tags \subseteq tags'
  <2>1. Cardinality(Behind(u)) \in Nat /\ Keep \in Nat /\ Cardinality(Behind(u)') \in Nat
    <3>1. IsFiniteSet(Commit) /\ Listed' \subseteq Commit
      BY FS_Interval, Values DEF Listed, TypeInv, TypeOK
    <3>2. Behind(u)' \subseteq Commit
      BY <3>1 DEF Behind
    <3> QED
      BY <3>1, <3>2, BehindIsListed, FS_Subset, FS_CardinalityType, Values
  <2> QED
    BY <1>1, <2>1, GrowingTags
<1>2. ASSUME NEW c \in Commit, DeleteTag(c), ~(tags \subseteq tags')
      PROVE  /\ Cardinality(Behind(u)) >= Keep => Cardinality(Behind(u)') >= Keep
             /\ Kept(u)'
             /\ Floating \in tags => Floating \in tags'
  <2>1. PICK t \in retired[c] : tags' = tags \ {t}
    BY <1>2 DEF DeleteTag
  <2>2. t \in Commit /\ Cardinality(Behind(t)) >= Keep
    BY <2>1 DEF RetiredBehind, TypeInv, TypeOK
  <2> QED
    BY <2>1, <2>2, DeleteLeavesBehind, Values DEF Kept
<1>3. tags \subseteq tags' \/ \E c \in Commit : DeleteTag(c)
  BY NextCases
  DEF Begins, Advance, Lose, PassCI, PushSha, PushLatest, DeleteJob, ApplyJob, SeeMigration,
      TimeOut, ApplyManifests, SetImage, SeeRollout, ListTags, Finish, OrphanEnds,
      StartMigration, Migrate, MigrationFails, StartNew, StartOld, StopNew, StopOld, vars, registry
<1> QED
  BY <1>1, <1>2, <1>3

LEMMA StepRetiredBehind ==
    ASSUME TypeInv, TypeInv', RetiredBehind, [Next]_vars
    PROVE  RetiredBehind'
<1> SUFFICES ASSUME NEW c \in Commit, NEW t \in retired'[c]
             PROVE  Cardinality(Behind(t)') >= Keep
  BY DEF RetiredBehind, Behind, Listed
<1>1. t \in Commit
  BY DEF TypeInv, TypeOK
<1>2. CASE t \in retired[c]
  BY <1>1, <1>2, StaysEnough DEF RetiredBehind
<1>3. CASE ListTags(c)
  <2>1. t \in Retired(Listed) /\ tags' = tags
    BY <1>3 DEF ListTags, TypeInv, TypeOK, registry
  <2>2. Cardinality(Behind(t)) >= Keep /\ Behind(t)' = Behind(t)
    BY <2>1 DEF Retired, Behind, Listed
  <2> QED
    BY <2>2
<1>4. ASSUME NEW d \in Commit, Lose(d) \/ Advance(d) \/ OrphanEnds(d)
      PROVE  t \in retired[c] \/ ListTags(c)
  BY <1>4
  DEF Advance, Lose, PassCI, PushSha, PushLatest, DeleteJob, ApplyJob, SeeMigration, TimeOut,
      ApplyManifests, SetImage, SeeRollout, ListTags, DeleteTag, Finish, OrphanEnds, workflow,
      TypeInv, TypeOK
<1> QED
  BY <1>2, <1>3, <1>4, NextCases
  DEF Begins, StartMigration, Migrate, MigrationFails, StartNew, StartOld, StopNew, StopOld,
      vars, workflow

\* A run gets past its pushes by pushing.
LEMMA PastItsPushes ==
    ASSUME TypeInv, [Next]_vars, NEW c \in Commit
    PROVE  /\ step'[c] \in 3..12 => step[c] \in 3..12 \/ PushSha(c)
           /\ step'[c] \in 4..12 => step[c] \in 4..12 \/ PushLatest(c)
<1> DEFINE Arrives == /\ step'[c] \in 3..12 => step[c] \in 3..12 \/ PushSha(c)
                      /\ step'[c] \in 4..12 => step[c] \in 4..12 \/ PushLatest(c)
<1>1. ASSUME NEW d \in Commit, Begins(d) PROVE Arrives
  BY <1>1, BeginType DEF Begins, TypeInv, TypeOK
<1>2. ASSUME NEW d \in Commit, Moves(d), d # c PROVE Arrives
  BY <1>2, MovesType
<1>3. ASSUME Advance(c) PROVE Arrives
  <2>1. CASE TimeOut(c)
    BY <2>1, GivenUp
  <2>2. CASE DeleteTag(c)
    BY <2>2, MovesOfActions
  <2>3. CASE PushSha(c)
    <3>1. Moves(c) /\ step[c] = 2
      BY <2>3, MovesOfActions, PlaceOfActions
    <3> QED
      BY <2>3, <3>1, MovesType
  <2>4. CASE PushLatest(c)
    <3>1. Moves(c) /\ step[c] = 3
      BY <2>4, MovesOfActions, PlaceOfActions
    <3> QED
      BY <2>4, <3>1, MovesType
  <2>5. CASE \/ PassCI(c) \/ DeleteJob(c) \/ ApplyJob(c) \/ SeeMigration(c)
             \/ ApplyManifests(c) \/ SetImage(c) \/ SeeRollout(c) \/ ListTags(c) \/ Finish(c)
    <3>1. step[c] \notin {2, 3}
      BY <2>5, PlaceOfActions
    <3>2. Moves(c)
      BY <2>5, MovesOfActions
    <3> QED
      BY <3>1, <3>2, MovesType
  <2> QED
    BY <1>3, <2>1, <2>2, <2>3, <2>4, <2>5 DEF Advance
<1>4. ASSUME NEW d \in Commit, Advance(d) \/ Lose(d) \/ OrphanEnds(d) PROVE Arrives
  <2>1. CASE step' = step
    BY <2>1
  <2>2. CASE Lose(d)
    BY <2>2, GivenUp
  <2>3. CASE d # c /\ Moves(d)
    BY <1>2, <2>3
  <2>4. step' = step \/ Moves(d)
    BY <1>4, MovesOfActions DEF Advance
  <2>5. OrphanEnds(d) => step' = step
    BY MovesOfActions
  <2> QED
    BY <1>3, <1>4, <2>1, <2>2, <2>3, <2>4, <2>5
<1>5. CASE UNCHANGED workflow
  BY <1>5 DEF workflow
<1> QED
  BY <1>1, <1>4, <1>5, NextCases
  DEF StartMigration, Migrate, MigrationFails, StartNew, StartOld, StopNew, StopOld, vars

\* The template names Floating or the commit of the run that has set it.
LEMMA TemplateChanges ==
    ASSUME TypeInv, NewIsOfSpec, [Next]_vars, spec' # spec
    PROVE  \E c \in Commit : /\ ApplyManifests(c) \/ SetImage(c)
                             /\ step[c] \in {7, 8}
                             /\ spec' = Floating \/ spec' = c
<1>1. ASSUME NEW c \in Commit, ApplyManifests(c) \/ SetImage(c)
      PROVE  step[c] \in {7, 8} /\ (spec' = Floating \/ spec' = c)
  BY <1>1, PlaceOfActions DEF ApplyManifests, SetImage, Template
<1>2. \E c \in Commit : ApplyManifests(c) \/ SetImage(c)
  BY NextCases
  DEF Begins, Advance, Lose, PassCI, PushSha, PushLatest, DeleteJob, ApplyJob, SeeMigration,
      TimeOut, SeeRollout, ListTags, DeleteTag, Finish, OrphanEnds, StartMigration, Migrate,
      MigrationFails, StartNew, StartOld, StopNew, StopOld, vars, api
<1> QED
  BY <1>1, <1>2

LEMMA InitCleanupInv == Init => CleanupInv
<1> SUFFICES ASSUME Init PROVE CleanupInv
  OBVIOUS
<1>1. /\ \A c \in Commit : step[c] = 0 /\ retired[c] = {} /\ spec # c
      /\ spec = None
  BY StepPlaces, Values DEF Init
<1> QED
  BY <1>1 DEF CleanupInv, RetiredBehind, PushedIsKept, LatestIsThere, PushedSha, PushedLatest

LEMMA StepCleanupInv == TypeInv /\ OrderInv /\ CleanupInv /\ [Next]_vars => CleanupInv'
<1> SUFFICES ASSUME TypeInv, OrderInv, CleanupInv, [Next]_vars PROVE CleanupInv'
  OBVIOUS
<1>0. TypeInv' /\ NewIsOfSpec /\ RetiredBehind
  BY StepTypeInv DEF OrderInv, CleanupInv
<1>1. RetiredBehind'
  BY <1>0, StepRetiredBehind
<1>2. ASSUME NEW c \in Commit, step'[c] \in 3..12 \/ spec' = c PROVE Kept(c)'
  <2>1. CASE step[c] \in 3..12 \/ spec = c
    BY <1>0, <2>1, StaysEnough DEF CleanupInv, PushedIsKept, PushedSha
  <2>2. CASE PushSha(c)
    BY <2>2 DEF PushSha, Kept
  <2>3. CASE spec' = c /\ spec # c
    <3>1. step[c] \in 3..12
      BY <1>0, <2>3, TemplateChanges, Values
    <3> QED
      BY <2>1, <3>1
  <2> QED
    BY <1>2, <2>1, <2>2, <2>3, PastItsPushes
<1>3. ASSUME NEW c \in Commit, step'[c] \in 4..12 PROVE Floating \in tags'
  <2>1. CASE step[c] \in 4..12
    BY <1>0, <2>1, StaysEnough DEF CleanupInv, LatestIsThere, PushedLatest
  <2>2. CASE PushLatest(c)
    BY <2>2 DEF PushLatest
  <2> QED
    BY <1>3, <2>1, <2>2, PastItsPushes
<1>4. ASSUME spec' # None PROVE Floating \in tags'
  <2>1. PICK c \in Commit : spec # None \/ step[c] \in {7, 8}
    <3>1. CASE spec = spec'
      BY <1>4, <3>1, DeploymentAssumption DEF Commit
    <3>2. CASE spec # spec'
      BY <1>0, <3>2, TemplateChanges
    <3> QED
      BY <3>1, <3>2
  <2>2. Floating \in tags
    BY <2>1 DEF CleanupInv, LatestIsThere, PushedLatest
  <2> QED
    BY <1>0, <2>1, <2>2, StaysEnough
<1> QED
  BY <1>1, <1>2, <1>3, <1>4
  DEF CleanupInv, PushedIsKept, LatestIsThere, PushedSha, PushedLatest

\* However cleanups overlap and whatever else they delete, the API's tag is
\* missing only when as many tags as are to be kept are there, and the tag
\* latest, which the CronJobs start from, is never deleted.
THEOREM SpecCleanupLeavesEnough == Spec => []CleanupLeavesEnough
<1>1. TypeInv /\ CleanupInv => CleanupLeavesEnough
  <2> SUFFICES ASSUME TypeInv, CleanupInv PROVE CleanupLeavesEnough
    OBVIOUS
  <2>1. spec \notin {None, Floating} => spec \in Commit /\ Kept(spec)
    BY Values DEF TypeInv, TypeOK, CleanupInv, PushedIsKept
  <2> QED
    BY <2>1 DEF CleanupInv, LatestIsThere, CleanupLeavesEnough, Kept, Listed
<1>2. Spec => [](TypeInv /\ OrderInv /\ CleanupInv)
  BY InitTypeInv, StepTypeInv, InitOrderInv, StepOrderInv, InitCleanupInv, StepCleanupInv, PTL
  DEF Spec
<1> QED
  BY <1>1, <1>2, PTL
=============================================================================
