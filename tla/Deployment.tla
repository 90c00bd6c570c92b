----------------------------- MODULE Deployment -----------------------------
(***************************************************************************)
(* The deployment of a push to main (.github/workflows/deploy.yml): a run  *)
(* of the workflow pushes an image under two tags, migrates the schema     *)
(* with a Job, applies the manifests, rolls the API out and removes old    *)
(* tags.  The workflow sets no concurrency group, so runs may overlap, and *)
(* a run may be lost after any step.  Beside it the cluster starts and     *)
(* restarts the API's pods from whatever a tag names at that moment.       *)
(*                                                                         *)
(* A commit is its place on main.  A tag sha-<short> is named by its       *)
(* commit, the tag latest is Floating.                                     *)
(***************************************************************************)
EXTENDS Naturals, Sequences, FiniteSets

CONSTANTS
    None,        \* nothing there
    MaxCommits,  \* bound: commits pushed
    Overlap,     \* bound: runs of the workflow at a time
    Revision,    \* the migration each commit's code ends with
    Rank,        \* the place of each commit's tag in the order of sort
    Keep         \* tags the cleanup leaves

Commit == 1..MaxCommits

Floating == 0

Tag == {Floating} \union Commit

Pod == [tag : Tag, code : Commit \union {None}]

MigrationJob ==
    [status : {"pending", "running", "complete", "failed"}, code : Commit \union {None}]

ASSUME DeploymentAssumption ==
    /\ MaxCommits \in Nat \ {0}
    /\ Overlap \in Nat \ {0}
    /\ Keep \in Nat \ {0}
    /\ Revision \in [Commit -> Nat]
    /\ Rank \in [Commit -> Nat \ {0}]
    /\ \A c, d \in Commit : Rank[c] = Rank[d] => c = d
    /\ None \notin Tag /\ None \notin Pod /\ None \notin MigrationJob

VARIABLES
    pushed,   \* commits on main
    step,     \* where each commit's run of the workflow is
    retired,  \* the tags each run still has to delete
    serial,   \* no run has started beside another yet
    tags,     \* tags in the registry
    latest,   \* the commit whose image Floating names
    job,      \* the migrations Job
    orphans,  \* images whose alembic runs on although its Job is deleted
    schema,   \* the migration the database is at
    spec,     \* the tag in the Deployment's template
    new,      \* the pod of this template
    old       \* the pod of an earlier template that still serves

workflow == <<pushed, step, retired, serial>>
registry == <<tags, latest>>
database == <<job, orphans, schema>>
api == <<spec, new, old>>
vars == <<workflow, registry, database, api>>

-----------------------------------------------------------------------------
(***************************************************************************)
(* The workflow.                                                           *)
(***************************************************************************)
\* Mutant of Steps: the image is rolled out before the migration.
StepsMigrateLast ==
    <<"ci", "push_sha", "push_latest", "apply", "set_image",
      "delete_job", "apply_job", "wait_job", "wait_rollout", "list_tags", "delete_tags">>

\* Mutant of Steps: the manifests are applied over the image that was set.
StepsApplyLast ==
    <<"ci", "push_sha", "push_latest", "delete_job", "apply_job", "wait_job",
      "set_image", "apply", "wait_rollout", "list_tags", "delete_tags">>

Steps ==
    <<"ci", "push_sha", "push_latest", "delete_job", "apply_job", "wait_job",
      "apply", "set_image", "wait_rollout", "list_tags", "delete_tags">>

Absent == 0
Done == Len(Steps) + 1
Failed == Len(Steps) + 2

At(c, name) == step[c] \in DOMAIN Steps /\ Steps[step[c]] = name

Active(c) == step[c] \in DOMAIN Steps

\* The run of c has got through the step named.
Past(c, name) == step[c] # Failed /\ \E k \in DOMAIN Steps : Steps[k] = name /\ k < step[c]

\* No concurrency group: a run starts whether or not another is under way.
Begin(c) ==
    /\ Cardinality({d \in Commit : Active(d)}) < Overlap
    /\ step' = [step EXCEPT ![c] = 1]
    /\ serial' = (serial /\ \A d \in Commit : ~Active(d))

Proceed(c) == step' = [step EXCEPT ![c] = @ + 1]

Init ==
    /\ pushed = 0
    /\ step = [c \in Commit |-> Absent]
    /\ retired = [c \in Commit |-> {}]
    /\ serial = TRUE
    /\ tags = {}
    /\ latest = None
    /\ job = None
    /\ orphans = {}
    /\ schema = 0
    /\ spec = None
    /\ new = None
    /\ old = None

Push ==
    /\ pushed < MaxCommits
    /\ pushed' = pushed + 1
    /\ Begin(pushed + 1)
    /\ UNCHANGED <<retired, registry, database, api>>

\* workflow_dispatch on main.
Dispatch ==
    /\ pushed > 0 /\ step[pushed] \in {Done, Failed}
    /\ Begin(pushed)
    /\ UNCHANGED <<pushed, retired, registry, database, api>>

\* A step fails, the run is cancelled, the runner is lost.
Lose(c) ==
    /\ Active(c)
    /\ step' = [step EXCEPT ![c] = Failed]
    /\ retired' = [retired EXCEPT ![c] = {}]
    /\ UNCHANGED <<pushed, serial, registry, database, api>>

PassCI(c) ==
    /\ At(c, "ci")
    /\ Proceed(c)
    /\ UNCHANGED <<pushed, retired, serial, registry, database, api>>

PushSha(c) ==
    /\ At(c, "push_sha")
    /\ tags' = tags \union {c}
    /\ Proceed(c)
    /\ UNCHANGED <<pushed, retired, serial, latest, database, api>>

PushLatest(c) ==
    /\ At(c, "push_latest")
    /\ tags' = tags \union {Floating}
    /\ latest' = c
    /\ Proceed(c)
    /\ UNCHANGED <<pushed, retired, serial, database, api>>

-----------------------------------------------------------------------------
(***************************************************************************)
(* The migration.                                                          *)
(***************************************************************************)
\* The Job's pod may outlive the Job for its grace period.
DeleteJob(c) ==
    /\ At(c, "delete_job")
    /\ job' = None
    /\ orphans' = IF job # None /\ job.status = "running"
                  THEN orphans \union {job.code} ELSE orphans
    /\ Proceed(c)
    /\ UNCHANGED <<pushed, retired, serial, registry, schema, api>>

\* A Job of that name that is there again is left as it is.
ApplyJob(c) ==
    /\ At(c, "apply_job")
    /\ job' = IF job = None THEN [status |-> "pending", code |-> None] ELSE job
    /\ Proceed(c)
    /\ UNCHANGED <<pushed, retired, serial, registry, orphans, schema, api>>

\* The container pulls Floating anew for every attempt.
StartMigration ==
    /\ job # None /\ job.status = "pending"
    /\ Floating \in tags
    /\ job' = [status |-> "running", code |-> latest]
    /\ UNCHANGED <<workflow, registry, orphans, schema, api>>

\* alembic upgrade head, in one transaction; a database that is at a migration
\* the image does not have is an error.
Upgrade(code) ==
    /\ schema <= Revision[code]
    /\ schema' = Revision[code]

Migrate ==
    /\ job # None /\ job.status = "running"
    /\ Upgrade(job.code)
    /\ job' = [job EXCEPT !.status = "complete"]
    /\ UNCHANGED <<workflow, registry, orphans, api>>

\* backoffLimit: how many attempts fail before the Job does is left open.
MigrationFails ==
    /\ job # None /\ job.status = "running"
    /\ \E s \in {"pending", "failed"} : job' = [status |-> s, code |-> None]
    /\ UNCHANGED <<workflow, registry, orphans, schema, api>>

OrphanEnds(code) ==
    /\ code \in orphans
    /\ orphans' = orphans \ {code}
    /\ Upgrade(code) \/ UNCHANGED schema
    /\ UNCHANGED <<workflow, registry, job, api>>

\* Mutant of Complete: the run does not wait.
CompleteUnseen == job # None

\* Whoever applied the Job: it is awaited by its name.
Complete == job # None /\ job.status = "complete"

SeeMigration(c) ==
    /\ At(c, "wait_job")
    /\ Complete
    /\ Proceed(c)
    /\ UNCHANGED <<pushed, retired, serial, registry, database, api>>

TimeOut(c) ==
    /\ At(c, "wait_job") \/ At(c, "wait_rollout")
    /\ step' = [step EXCEPT ![c] = Failed]
    /\ UNCHANGED <<pushed, retired, serial, registry, database, api>>

-----------------------------------------------------------------------------
(***************************************************************************)
(* The rollout: one replica, maxSurge 1, maxUnavailable 0.                 *)
(***************************************************************************)
\* A pod with code is ready: /v1/health asks the database for no more than a 1.
IsReady(pod) == pod # None /\ pod.code # None

Ready == {pod \in {new, old} : IsReady(pod)}

\* The pod that serves until one of the next template is ready.
Survivor == IF IsReady(new) THEN new ELSE IF IsReady(old) THEN old ELSE None

\* A template that has not changed rolls nothing out, and a pod of the
\* template returned to is taken back.
Template(tag) ==
    /\ spec' = tag
    /\ IF tag = spec
       THEN UNCHANGED <<new, old>>
       ELSE IF Survivor # None /\ Survivor.tag = tag
       THEN new' = Survivor /\ old' = None
       ELSE new' = [tag |-> tag, code |-> None] /\ old' = Survivor

\* The manifest names Floating, whatever image was set before.
ApplyManifests(c) ==
    /\ At(c, "apply")
    /\ Template(Floating)
    /\ Proceed(c)
    /\ UNCHANGED <<pushed, retired, serial, registry, database>>

SetImage(c) ==
    /\ At(c, "set_image")
    /\ Template(c)
    /\ Proceed(c)
    /\ UNCHANGED <<pushed, retired, serial, registry, database>>

\* The status is of the Deployment's template, whoever wrote it.
SeeRollout(c) ==
    /\ At(c, "wait_rollout")
    /\ IsReady(new) /\ old = None
    /\ Proceed(c)
    /\ UNCHANGED <<pushed, retired, serial, registry, database, api>>

\* imagePullPolicy Always: the tag is resolved whenever a container starts.
Started(pod) == [pod EXCEPT !.code = IF pod.tag = Floating THEN latest ELSE pod.tag]

MayStart(pod) == pod # None /\ pod.code = None /\ pod.tag \in tags

StartNew ==
    /\ MayStart(new)
    /\ new' = Started(new)
    /\ old' = None
    /\ UNCHANGED <<workflow, registry, database, spec>>

StartOld ==
    /\ MayStart(old)
    /\ old' = Started(old)
    /\ UNCHANGED <<workflow, registry, database, spec, new>>

\* The container is killed, or its node is lost.
Stopped(pod) == [pod EXCEPT !.code = None]

StopNew ==
    /\ IsReady(new)
    /\ new' = Stopped(new)
    /\ UNCHANGED <<workflow, registry, database, spec, old>>

StopOld ==
    /\ IsReady(old)
    /\ old' = Stopped(old)
    /\ UNCHANGED <<workflow, registry, database, spec, new>>

-----------------------------------------------------------------------------
(***************************************************************************)
(* The cleanup.                                                            *)
(***************************************************************************)
\* Mutant of Listed: without grep '^sha-'.
ListedAll == tags

Listed == tags \ {Floating}

\* latest sorts before sha-...
Place(t) == IF t = Floating THEN 0 ELSE Rank[t]

\* Mutant of Retired: head -n Keep, the first and not all but the last.
RetiredFirst(S) == {t \in S : Cardinality({u \in S : Place(u) < Place(t)}) < Keep}

\* sort | head -n -Keep: all but the last Keep.
Retired(S) == {t \in S : Cardinality({u \in S : Place(u) > Place(t)}) >= Keep}

ListTags(c) ==
    /\ At(c, "list_tags")
    /\ retired' = [retired EXCEPT ![c] = Retired(Listed)]
    /\ Proceed(c)
    /\ UNCHANGED <<pushed, serial, registry, database, api>>

\* || true: a tag that could not be deleted is passed over.
DeleteTag(c) ==
    /\ At(c, "delete_tags")
    /\ \E t \in retired[c] :
           /\ retired' = [retired EXCEPT ![c] = @ \ {t}]
           /\ tags' \in {tags, tags \ {t}}
    /\ UNCHANGED <<pushed, step, serial, latest, database, api>>

Finish(c) ==
    /\ At(c, "delete_tags")
    /\ retired[c] = {}
    /\ Proceed(c)
    /\ UNCHANGED <<pushed, retired, serial, registry, database, api>>

-----------------------------------------------------------------------------
Advance(c) ==
    \/ PassCI(c) \/ PushSha(c) \/ PushLatest(c)
    \/ DeleteJob(c) \/ ApplyJob(c) \/ SeeMigration(c) \/ TimeOut(c)
    \/ ApplyManifests(c) \/ SetImage(c) \/ SeeRollout(c)
    \/ ListTags(c) \/ DeleteTag(c) \/ Finish(c)

Next ==
    \/ Push \/ Dispatch
    \/ \E c \in Commit : Advance(c) \/ Lose(c) \/ OrphanEnds(c)
    \/ StartMigration \/ Migrate \/ MigrationFails
    \/ StartNew \/ StartOld \/ StopNew \/ StopOld

Spec == Init /\ [][Next]_vars

-----------------------------------------------------------------------------
(***************************************************************************)
(* Properties.                                                             *)
(***************************************************************************)
\* The state has its types; a pod of an earlier template is kept only while
\* the one of this template is not ready.
TypeOK ==
    /\ pushed \in 0..MaxCommits
    /\ step \in [Commit -> Absent..Failed]
    /\ retired \in [Commit -> SUBSET Commit]
    /\ serial \in BOOLEAN
    /\ tags \subseteq Tag
    /\ latest \in Commit \union {None}
    /\ job \in MigrationJob \union {None}
    /\ orphans \subseteq Commit
    /\ schema \in Nat
    /\ spec \in Tag \union {None}
    /\ new \in Pod \union {None}
    /\ old \in Pod \union {None}
    /\ old # None => ~IsReady(new)

\* "The manifest pins image:latest which we just pushed, so it picks up the
\* new schema": a run that has seen its migration complete finds the database
\* at the migration of its own commit, or beyond.  The scraper and the
\* watchdog, which start from Floating, are ahead of the database only while
\* the run that pushed their image has not got that far.
PicksUpNewSchema == \A c \in Commit : Past(c, "wait_job") => Revision[c] <= schema

\* The API does not serve with code whose migration is missing, unless a run
\* was lost with the manifest's Floating tag in the template, and a pod was
\* started from it after a later push.
ServedNeverAhead ==
    \A pod \in Ready :
        Revision[pod.code] > schema => /\ pod.tag = Floating
                                       /\ \E c \in Commit : c < pod.code /\ step[c] = Failed

\* The schema comes before the code, for runs that see their migration and for
\* pods that serve, whatever is lost in between, while runs do not overlap.
MigratedFirst == serial => PicksUpNewSchema /\ ServedNeverAhead

\* "Pushing to main auto-deploys": when the run of the newest commit has
\* succeeded and no other is under way, the API is on that commit's image.
NewestIsDeployed ==
    (serial /\ pushed > 0 /\ step[pushed] = Done /\ \A c \in Commit : ~Active(c)) => spec = pushed

\* "Garbage-collect old image tags (keeps the most recent 5)": the tag the
\* API runs from is not deleted by the run that has just rolled it out.
DeployedTagIsKept ==
    \A c \in Commit : (spec = c /\ pushed = c /\ step[c] = Done) => c \in tags

\* However cleanups overlap, the API's tag is missing only when as many tags
\* as are to be kept are there: what is lost is the choice, not the number.
\* And the CronJobs, once applied, find the tag they are started from.
CleanupLeavesEnough ==
    /\ (spec \notin {None, Floating} /\ spec \notin tags)
           => Cardinality(tags \ {Floating}) >= Keep
    /\ spec # None => Floating \in tags
=============================================================================
