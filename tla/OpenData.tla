------------------------------ MODULE OpenData ------------------------------
(***************************************************************************)
(* The open-data repository: export_all (apps/scraper/export.py) and       *)
(* publish_changes (apps/scraper/publish.py), as run_ingest calls them     *)
(* after its transaction, in the Jobs of k8s/scraper-cronjob.yaml.         *)
(*                                                                         *)
(* A Job's pod clones the remote once, in its init container.  The scraper *)
(* container may be restarted in the pod, on the same clone.  The database *)
(* is a version number here: the number of runs that changed it (each adds *)
(* an event, so two versions never export to the same changelog).          *)
(***************************************************************************)
EXTENDS Naturals, Sequences, SequencesExt

CONSTANTS
    Job,           \* Jobs that may be created, each once
    Overlap,       \* may Jobs overlap (a manual Job beside the CronJob's)?
    Faults,        \* the faults that may occur, a subset of Fault
    BackoffLimit,  \* backoffLimit of the Job
    MaxVersion     \* bound: how often the register changes

Fault == {"kill", "evict", "ingest", "export", "push"}

ASSUME OpenDataAssumption ==
    /\ Overlap \in BOOLEAN
    /\ Faults \subseteq Fault
    /\ BackoffLimit \in Nat
    /\ MaxVersion \in Nat

\* The files under data/, in the order export_all writes them.
File == {"json", "csv", "changelog"}
Torn == MaxVersion + 1        \* content of a file whose write was cut short
Export == [File -> 0 .. Torn]
Whole(n) == [f \in File |-> n]

VARIABLES
    version,  \* database: how many runs have changed the two tables
    remote,   \* commits of dsa-data's branch, the initial one first
    job,      \* "idle", "active", "complete" or "failed", per Job
    retries,  \* containers and pods of the Job that have failed
    pc,       \* where the Job's pod is
    clone,    \* the pod's clone: commits it was cloned with or has pushed
    ahead,    \* the clone's commits since then
    files,    \* the clone's working tree under data/
    changed,  \* local to run_ingest: had_changes
    code,     \* local: the exit code the run will end with
    table,    \* local to export_all: version of tf_rows
    log       \* local to export_all: version of event_rows

repo == <<clone, ahead, files>>
locals == <<changed, code, table, log>>
vars == <<version, remote, job, retries, pc, repo, locals>>

Stage == {"clone", "ingest", "select", "events", "json", "csv", "changelog",
          "gate", "commit", "push", "exit"}

-----------------------------------------------------------------------------
Init ==
    /\ version = 0
    /\ remote = <<Whole(0)>>
    /\ job = [j \in Job |-> "idle"]
    /\ retries = [j \in Job |-> 0]
    /\ pc = [j \in Job |-> "none"]
    /\ clone = [j \in Job |-> <<>>]
    /\ ahead = [j \in Job |-> <<>>]
    /\ files = [j \in Job |-> Whole(0)]
    /\ changed = [j \in Job |-> FALSE]
    /\ code = [j \in Job |-> 0]
    /\ table = [j \in Job |-> 0]
    /\ log = [j \in Job |-> 0]

Goto(j, stage) == pc' = [pc EXCEPT ![j] = stage]

\* The tree of the clone's HEAD.
HeadTree(j) == Last(clone[j] \o ahead[j])

\* concurrencyPolicy: Forbid keeps the CronJob from overlapping itself; a Job
\* created by hand is not subject to it.
CreateJob(j) ==
    /\ job[j] = "idle"
    /\ Overlap \/ \A k \in Job : job[k] # "active"
    /\ job' = [job EXCEPT ![j] = "active"]
    /\ Goto(j, "clone")
    /\ UNCHANGED <<version, remote, retries, repo, locals>>

\* The init container: git clone into the pod's empty volume.
Clone(j) ==
    /\ pc[j] = "clone"
    /\ clone' = [clone EXCEPT ![j] = remote]
    /\ ahead' = [ahead EXCEPT ![j] = <<>>]
    /\ files' = [files EXCEPT ![j] = Last(remote)]
    /\ Goto(j, "ingest")
    /\ UNCHANGED <<version, remote, job, retries, locals>>

\* run_ingest up to and including its transaction (see Ingest): it changes
\* the tables or finds nothing new, and is a success or partial ...
Ingest(j) ==
    /\ pc[j] = "ingest"
    /\ \/ version < MaxVersion /\ version' = version + 1
       \/ version' = version
    /\ changed' = [changed EXCEPT ![j] = version' # version]
    /\ \E c \in {0, 2} : code' = [code EXCEPT ![j] = c]
    /\ Goto(j, "select")
    /\ UNCHANGED <<remote, job, retries, repo, table, log>>

\* ... or it fails, or is killed, and the container exits with a 1.
IngestFails(j) ==
    /\ pc[j] = "ingest"
    /\ "ingest" \in Faults
    /\ code' = [code EXCEPT ![j] = 1]
    /\ Goto(j, "exit")
    /\ UNCHANGED <<version, remote, job, retries, repo, changed, table, log>>

-----------------------------------------------------------------------------
(***************************************************************************)
(* export_all: two SELECTs, each of its own snapshot, and three writes.    *)
(***************************************************************************)
SelectRows(j) ==
    /\ pc[j] = "select"
    /\ table' = [table EXCEPT ![j] = version]
    /\ Goto(j, "events")
    /\ UNCHANGED <<version, remote, job, retries, repo, changed, code, log>>

\* Mutant of SelectEvents: the log is read from a snapshot older than the run.
SelectEventsEarly(j) ==
    /\ pc[j] = "events"
    /\ log' = [log EXCEPT ![j] = IF changed[j] THEN version - 1 ELSE version]
    /\ Goto(j, "json")
    /\ UNCHANGED <<version, remote, job, retries, repo, changed, code, table>>

SelectEvents(j) ==
    /\ pc[j] = "events"
    /\ log' = [log EXCEPT ![j] = version]
    /\ Goto(j, "json")
    /\ UNCHANGED <<version, remote, job, retries, repo, changed, code, table>>

Write(j, f, n) == files' = [files EXCEPT ![j][f] = n]

WriteJson(j) ==
    /\ pc[j] = "json"
    /\ Write(j, "json", table[j])
    /\ Goto(j, "csv")
    /\ UNCHANGED <<version, remote, job, retries, clone, ahead, locals>>

WriteCsv(j) ==
    /\ pc[j] = "csv"
    /\ Write(j, "csv", table[j])
    /\ Goto(j, "changelog")
    /\ UNCHANGED <<version, remote, job, retries, clone, ahead, locals>>

WriteChangelog(j) ==
    /\ pc[j] = "changelog"
    /\ Write(j, "changelog", log[j])
    /\ Goto(j, "gate")
    /\ UNCHANGED <<version, remote, job, retries, clone, ahead, locals>>

\* The file being written when the process dies or the disk is full.
MayTear(j) ==
    \/ UNCHANGED files
    \/ pc[j] \in File /\ Write(j, pc[j], Torn)

\* Mutant of ExportFails: the exception is swallowed inside export_all.
ExportFailsUnseen(j) ==
    /\ "export" \in Faults
    /\ pc[j] \in {"select", "events"} \union File
    /\ MayTear(j)
    /\ Goto(j, "gate")
    /\ UNCHANGED <<version, remote, job, retries, clone, ahead, locals>>

\* An exception of export_all is logged and nothing is published.
ExportFails(j) ==
    /\ "export" \in Faults
    /\ pc[j] \in {"select", "events"} \union File
    /\ MayTear(j)
    /\ Goto(j, "exit")
    /\ UNCHANGED <<version, remote, job, retries, clone, ahead, locals>>

-----------------------------------------------------------------------------
(***************************************************************************)
(* publish_changes                                                         *)
(***************************************************************************)

\* Mutant of Gate: the run's changes are tested the wrong way round.
GateInverted(j) ==
    /\ pc[j] = "gate"
    /\ Goto(j, IF changed[j] THEN "exit" ELSE "commit")
    /\ UNCHANGED <<version, remote, job, retries, repo, locals>>

\* Only a run that changed the tables publishes.
Gate(j) ==
    /\ pc[j] = "gate"
    /\ Goto(j, IF changed[j] THEN "commit" ELSE "exit")
    /\ UNCHANGED <<version, remote, job, retries, repo, locals>>

\* _has_local_changes, git add, git commit.
Commit(j) ==
    /\ pc[j] = "commit"
    /\ \/ /\ files[j] # HeadTree(j)
          /\ ahead' = [ahead EXCEPT ![j] = Append(@, files[j])]
          /\ Goto(j, "push")
       \/ /\ files[j] = HeadTree(j)
          /\ Goto(j, "exit")
          /\ UNCHANGED ahead
    /\ UNCHANGED <<version, remote, job, retries, clone, files, locals>>

\* Mutant of Push: git push --force.
PushForced(j) ==
    /\ pc[j] = "push"
    /\ remote' = clone[j] \o ahead[j]
    /\ clone' = [clone EXCEPT ![j] = remote']
    /\ ahead' = [ahead EXCEPT ![j] = <<>>]
    /\ Goto(j, "exit")
    /\ UNCHANGED <<version, job, retries, files, locals>>

\* git push takes every commit the remote lacks, but only on top of the head
\* the clone knows.
Push(j) ==
    /\ pc[j] = "push"
    /\ remote = clone[j]
    /\ remote' = clone[j] \o ahead[j]
    /\ clone' = [clone EXCEPT ![j] = remote']
    /\ ahead' = [ahead EXCEPT ![j] = <<>>]
    /\ Goto(j, "exit")
    /\ UNCHANGED <<version, job, retries, files, locals>>

\* The push is rejected (not a fast-forward) or does not get through: the
\* PublishError is logged, the commit stays in the clone.
PushFails(j) ==
    /\ pc[j] = "push"
    /\ remote # clone[j] \/ "push" \in Faults
    /\ Goto(j, "exit")
    /\ UNCHANGED <<version, remote, job, retries, repo, locals>>

-----------------------------------------------------------------------------
(***************************************************************************)
(* The Job: exit code 0 completes it; otherwise the container is restarted *)
(* in its pod (restartPolicy: OnFailure) until backoffLimit.               *)
(***************************************************************************)

\* The process is gone, and what run_ingest and export_all held.
ForgetLocals(j) ==
    /\ changed' = [changed EXCEPT ![j] = FALSE]
    /\ code' = [code EXCEPT ![j] = 0]
    /\ table' = [table EXCEPT ![j] = 0]
    /\ log' = [log EXCEPT ![j] = 0]

\* The pod is gone, and the emptyDir volume with its clone.
ForgetVolume(j) ==
    /\ clone' = [clone EXCEPT ![j] = <<>>]
    /\ ahead' = [ahead EXCEPT ![j] = <<>>]
    /\ files' = [files EXCEPT ![j] = Whole(0)]

\* Mutant of GivenUp: one retry too many.
GivenUpLate(j) == retries[j] > BackoffLimit

\* One more container or pod of the Job has failed; is the Job given up?
GivenUp(j) == retries[j] = BackoffLimit

CountRetry(j) == retries' = [retries EXCEPT ![j] = @ + 1]

EndJob(j, outcome) ==
    /\ job' = [job EXCEPT ![j] = outcome]
    /\ Goto(j, "none")
    /\ ForgetVolume(j)

Exit(j) ==
    /\ pc[j] = "exit"
    /\ \/ code[j] = 0 /\ EndJob(j, "complete") /\ UNCHANGED retries
       \/ code[j] # 0 /\ GivenUp(j) /\ EndJob(j, "failed") /\ CountRetry(j)
       \/ /\ code[j] # 0 /\ ~GivenUp(j)
          /\ CountRetry(j)
          /\ Goto(j, "ingest")
          /\ UNCHANGED <<job, repo>>
    /\ ForgetLocals(j)
    /\ UNCHANGED <<version, remote>>

\* The container is killed (out of memory): the pod and its clone remain.
Kill(j) ==
    /\ "kill" \in Faults
    /\ pc[j] \in Stage \ {"clone"}
    /\ \/ GivenUp(j) /\ EndJob(j, "failed")
       \/ /\ ~GivenUp(j)
          /\ Goto(j, "ingest")
          /\ MayTear(j)
          /\ UNCHANGED <<job, clone, ahead>>
    /\ CountRetry(j)
    /\ ForgetLocals(j)
    /\ UNCHANGED <<version, remote>>

\* The pod is lost with its node: the next one makes a new clone.
Evict(j) ==
    /\ "evict" \in Faults
    /\ pc[j] \in Stage
    /\ \/ GivenUp(j) /\ EndJob(j, "failed")
       \/ ~GivenUp(j) /\ Goto(j, "clone") /\ ForgetVolume(j) /\ UNCHANGED job
    /\ CountRetry(j)
    /\ ForgetLocals(j)
    /\ UNCHANGED <<version, remote>>

\* Every Job has been created and has ended.
AllOver ==
    /\ \A j \in Job : job[j] \in {"complete", "failed"}
    /\ UNCHANGED vars

\* What a pod does by itself.
Advance(j) ==
    \/ Clone(j) \/ Ingest(j) \/ IngestFails(j)
    \/ SelectRows(j) \/ SelectEvents(j)
    \/ WriteJson(j) \/ WriteCsv(j) \/ WriteChangelog(j) \/ ExportFails(j)
    \/ Gate(j) \/ Commit(j) \/ Push(j) \/ PushFails(j) \/ Exit(j)

Next ==
    \/ \E j \in Job : CreateJob(j) \/ Advance(j) \/ Kill(j) \/ Evict(j)
    \/ AllOver

Spec == Init /\ [][Next]_vars

\* The kubelet restarts containers and every step of one is bounded.
FairSpec == Spec /\ \A j \in Job : WF_vars(Advance(j))

-----------------------------------------------------------------------------
TypeOK ==
    /\ version \in 0 .. MaxVersion
    /\ remote \in Seq(Export) /\ remote # <<>>
    /\ job \in [Job -> {"idle", "active", "complete", "failed"}]
    /\ retries \in [Job -> 0 .. BackoffLimit + 1]
    /\ pc \in [Job -> Stage \union {"none"}]
    /\ clone \in [Job -> Seq(Export)]
    /\ ahead \in [Job -> Seq(Export)]
    /\ files \in [Job -> Export]
    /\ changed \in [Job -> BOOLEAN]
    /\ code \in [Job -> 0 .. 2]
    /\ table \in [Job -> 0 .. MaxVersion]
    /\ log \in [Job -> 0 .. MaxVersion]

\* Consumers of dsa-data never pull a torn file, nor a JSON, a CSV and a
\* changelog of different moments, although containers die between two
\* writes and restart on the same working tree (export_all, then git add).
\* Only when Jobs do not overlap: a run that commits between the two SELECTs
\* of another one's export_all makes a commit of two moments.
PublishedIsWhole ==
    \A i \in 1 .. Len(remote) : \E n \in 0 .. version : remote[i] = Whole(n)

\* Every new commit of the branch is of a later moment than the one before:
\* no stale export overwrites a later one and no commit is empty, even with
\* overlapping Jobs ("idempotent re-runs shouldn't fill the dsa-data history
\* with empty commits", apps/scraper/ingest.py:296).
HistoryMovesForward ==
    [][/\ SubSeq(remote', 1, Len(remote)) = remote
       /\ \A i \in Len(remote) + 1 .. Len(remote') :
            /\ remote'[i] # remote'[i - 1]
            /\ \A f \in File : remote'[i - 1][f] <= remote'[i][f]]_vars

\* After a push the branch holds the tables as they are, with whatever
\* earlier runs failed to push, when Jobs do not overlap.
PushedIsCurrent ==
    [][\A j \in Job : pc[j] = "push" /\ remote' # remote => Last(remote') = Whole(version)]_vars

\* A run that has changes to publish pushes them, or its failure shows: the
\* container has failed and counts as a retry, or the process reaches its end
\* with a commit that the clone is still ahead by.  When Jobs do not overlap
\* (run_ingest's gate, publish_changes, backoffLimit).
ChangesArePublished ==
    \A j \in Job : \A n \in 0 .. BackoffLimit :
        pc[j] = "gate" /\ changed[j] /\ retries[j] = n ~>
            \/ Last(remote) = Whole(version)
            \/ retries[j] > n
            \/ pc[j] = "exit" /\ ahead[j] # <<>>

\* "a stale dsa-data dir is recoverable on next run"
\* (apps/scraper/ingest.py:293): a run that exports and then finds nothing to
\* publish leaves an open-data branch that is current.
NothingToPublishMeansCurrent ==
    [][\A j \in Job : pc[j] = "gate" /\ pc'[j] = "exit" => Last(remote) = Whole(version)]_vars
=============================================================================
