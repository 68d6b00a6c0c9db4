----------------------------- MODULE ObjectOutbox -----------------------------
(* The object clean-up outbox (backend/app/services/object_cleanup.py) with    *)
(* its clients: image, avatar and shop media uploads, staged uploads, deletions *)
(* and the image side of the workbook import. The object store and PostgreSQL   *)
(* do not share a transaction; a job row, committed before an object is stored  *)
(* or together with the removal of its reference, makes an unused object go.    *)
EXTENDS Naturals, FiniteSets

CONSTANTS
    Threads,      \* request threads
    Workers,      \* runs of retry-object-cleanup
    Mortal,       \* the threads and workers that may die
    Keys,         \* object keys; a key is drawn at random for every upload
    StagedKeys,   \* the keys of the staging area
    Slots,        \* bound: job rows that are open or worked on at one time
    Quota,        \* open expiry jobs a staged upload tolerates (_STAGING_MAX_*)
    Reattach,     \* keys a workbook may name again after their image is deleted
    Prompt,       \* a live request or worker is done with a job within its grace,
                  \* and nobody cancels a staged upload that has yet to answer
    StorageFaults, \* the storage calls that may fail
    None

Procs == Threads \cup Workers

ASSUME OutboxAssumption ==
    /\ Threads \cap Workers = {} /\ Mortal \subseteq Procs
    /\ None \notin Procs \cup Keys \cup Slots
    /\ IsFiniteSet(Slots)
    /\ StagedKeys \subseteq Keys
    /\ Reattach \subseteq Keys \ StagedKeys
    /\ Quota \in Nat
    /\ Prompt \in BOOLEAN
    /\ StorageFaults \subseteq {"put", "copy", "delete"}

VARIABLES
    objects,  \* the keys that are stored
    refs,     \* the keys committed rows refer to (image, avatar, shop media)
    shown,    \* the keys of Reattach that a row has referred to (history)
    jobs,     \* the rows of object_cleanup_jobs
    quota,    \* holder of the advisory lock of staged uploads
    calls     \* the request or worker run every process is executing

vars == <<objects, refs, shown, jobs, quota, calls>>

Open == {"intent", "pending", "processing", "failed"}

\* A completed row nobody works on stands for the next new row. due: past
\* not_before and past the grace of its status; expiry: made by a staged upload.
FreeSlot == [status |-> "completed", key |-> None, due |-> FALSE, expiry |-> FALSE]

\* key and job of an upload, source of an import, job of a run; todo: jobs still
\* to run; claimed: they were claimed, so the loaded row already says "processing".
IdleCall == [pc |-> "idle", key |-> None, job |-> None, source |-> None,
             todo |-> {}, claimed |-> FALSE]

Init ==
    /\ objects = {} /\ refs = {} /\ shown = {}
    /\ jobs = [j \in Slots |-> FreeSlot]
    /\ quota = None
    /\ calls = [p \in Procs |-> IdleCall]

-----------------------------------------------------------------------------
(* Rows and keys.                                                            *)

OpenJobs(k) == {j \in Slots : jobs[j].status \in Open /\ jobs[j].key = k}

ExpiryJobs == {j \in Slots : jobs[j].status \in Open /\ jobs[j].expiry}

Held(p) == calls[p].todo \cup ({calls[p].job} \ {None})

Free == {j \in Slots : jobs[j].status = "completed" /\ \A p \in Procs : j \notin Held(p)}

\* uuid4 draws a key nothing knows.
Fresh(k) ==
    /\ k \notin objects \cup refs \cup shown
    /\ OpenJobs(k) = {}
    /\ \A p \in Procs : /\ k \notin {calls[p].key, calls[p].source}
                        /\ \A j \in Held(p) : jobs[j].key # k

Row(k, status, due) == [status |-> status, key |-> k, due |-> due, expiry |-> FALSE]

Completed(row) == [row EXCEPT !.status = "completed", !.due = FALSE]

\* Mutant: a status the table does not allow.
RequeuedAsRetry(row) == [row EXCEPT !.status = "retry", !.due = TRUE]

Requeued(row) == [row EXCEPT !.status = "pending", !.due = TRUE]

\* One pending row for every key, in slots that are free.
Enqueued(table, slotOf) ==
    [j \in Slots |->
        IF \E k \in DOMAIN slotOf : slotOf[k] = j
        THEN Row(CHOOSE k \in DOMAIN slotOf : slotOf[k] = j, "pending", TRUE)
        ELSE table[j]]

Placements(keys) ==
    {f \in [keys -> Free] : \A k1, k2 \in keys : f[k1] = f[k2] => k1 = k2}

Refer(keys) == refs' = keys /\ shown' = shown \cup (keys \cap Reattach)

At(p, pc) == calls[p].pc = pc

Goto(p, pc) == calls' = [calls EXCEPT ![p].pc = pc]

EndCall(p) == calls' = [calls EXCEPT ![p] = IdleCall]

\* run_object_cleanup_jobs on rows this very session has written or claimed.
Run(p, todo, claimed) ==
    calls' = [calls EXCEPT ![p] =
        IF todo = {} THEN IdleCall
        ELSE [IdleCall EXCEPT !.pc = "run", !.todo = todo, !.claimed = claimed]]

-----------------------------------------------------------------------------
(* Upload: the intent is committed before the object is stored.              *)

UploadIntent(p, k) ==
    /\ At(p, "idle") /\ p \in Threads
    /\ k \notin StagedKeys /\ Fresh(k)
    /\ \E j \in Free :
          /\ jobs' = [jobs EXCEPT ![j] = Row(k, "intent", FALSE)]
          /\ calls' = [calls EXCEPT ![p] =
                 [IdleCall EXCEPT !.pc = "put", !.key = k, !.job = j]]
    /\ UNCHANGED <<objects, refs, shown, quota>>

\* The store may fail before or after it has taken the object.
Put(p, next) ==
    /\ \/ objects' = objects \cup {calls[p].key} /\ next
       \/ /\ "put" \in StorageFaults
          /\ objects' \in {objects, objects \cup {calls[p].key}}
          /\ Goto(p, "abandon")
    /\ UNCHANGED <<refs, shown, jobs, quota>>

UploadPut(p) == At(p, "put") /\ Put(p, Goto(p, "attach"))

\* Reference, completed intent and the job of what is replaced, in one commit.
\* What the worker may have made of the intent is not looked at.
Attach(p) ==
    /\ At(p, "attach")
    /\ \E old \in {{}} \cup {{k} : k \in refs} : \E slotOf \in Placements(old) :
          /\ Refer((refs \ old) \cup {calls[p].key})
          /\ jobs' = Enqueued([jobs EXCEPT ![calls[p].job] = Completed(@)], slotOf)
          /\ Run(p, {slotOf[k] : k \in old}, FALSE)
    /\ UNCHANGED <<objects, quota>>

\* The product is gone, a limit is reached, or the commit fails.
AttachFails(p) ==
    /\ At(p, "attach")
    /\ Goto(p, "abandon")
    /\ UNCHANGED <<objects, refs, shown, jobs, quota>>

\* Rollback; the row is read again ...
Abandon(p) ==
    /\ At(p, "abandon")
    /\ IF jobs[calls[p].job].status = "completed" THEN EndCall(p) ELSE Goto(p, "requeue")
    /\ UNCHANGED <<objects, refs, shown, jobs, quota>>

\* ... becomes due, and is run at once.
AbandonRequeue(p) ==
    /\ At(p, "requeue")
    /\ jobs' = [jobs EXCEPT ![calls[p].job] = Requeued(@)]
    /\ Run(p, {calls[p].job}, FALSE)
    /\ UNCHANGED <<objects, refs, shown, quota>>

Upload(p) ==
    \/ \E k \in Keys : UploadIntent(p, k)
    \/ UploadPut(p) \/ Attach(p) \/ AttachFails(p) \/ Abandon(p) \/ AbandonRequeue(p)

-----------------------------------------------------------------------------
(* Staged upload and its cancellation.                                       *)

\* Mutant: the count and the insertion are not under one lock.
StageCountUnlocked(p) ==
    /\ At(p, "idle") /\ p \in Threads
    /\ Cardinality(ExpiryJobs) < Quota
    /\ Goto(p, "stage")
    /\ UNCHANGED <<objects, refs, shown, jobs, quota>>

\* Open expiry jobs are counted under a transaction-scoped advisory lock.
StageCount(p) ==
    /\ At(p, "idle") /\ p \in Threads
    /\ quota = None
    /\ Cardinality(ExpiryJobs) < Quota
    /\ quota' = p
    /\ Goto(p, "stage")
    /\ UNCHANGED <<objects, refs, shown, jobs>>

StageCommit(p) ==
    /\ At(p, "stage")
    /\ \E k \in StagedKeys, j \in Free :
          /\ Fresh(k)
          /\ jobs' = [jobs EXCEPT ![j] = [Row(k, "pending", FALSE) EXCEPT !.expiry = TRUE]]
          /\ calls' = [calls EXCEPT ![p] =
                 [IdleCall EXCEPT !.pc = "stage_put", !.key = k, !.job = j]]
    /\ quota' = IF quota = p THEN None ELSE quota
    /\ UNCHANGED <<objects, refs, shown>>

StagePut(p) == At(p, "stage_put") /\ Put(p, EndCall(p))

BeingStaged(k) == \E q \in Procs : At(q, "stage_put") /\ calls[q].key = k

\* The expiry row is completed and a new one takes over, in one commit; whether the
\* key is stored is not looked at. With Prompt it is not the key of an upload that
\* has yet to answer, which could be known from the list of jobs only.
StageCancel(p, k) ==
    /\ At(p, "idle") /\ p \in Threads
    /\ Prompt => ~BeingStaged(k)
    /\ \E j \in Free :
          /\ jobs' = [i \in Slots |->
                 IF i = j THEN Row(k, "pending", TRUE)
                 ELSE IF i \in OpenJobs(k) \cap ExpiryJobs THEN Completed(jobs[i])
                 ELSE jobs[i]]
          /\ Run(p, {j}, FALSE)
    /\ UNCHANGED <<objects, refs, shown, quota>>

Staging(p) ==
    \/ StageCount(p) \/ StageCommit(p) \/ StagePut(p)
    \/ \E k \in StagedKeys : StageCancel(p, k)

-----------------------------------------------------------------------------
(* Deletion of images, products or media: references and jobs in one commit. *)

\* run: a category's media are left to the worker, everything else is run here.
Delete(p, keys, run) ==
    /\ At(p, "idle") /\ p \in Threads
    /\ keys # {} /\ keys \subseteq refs
    /\ Refer(refs \ keys)
    /\ \E slotOf \in Placements(keys) :
          /\ jobs' = Enqueued(jobs, slotOf)
          /\ IF run THEN Run(p, {slotOf[k] : k \in keys}, FALSE) ELSE UNCHANGED calls
    /\ UNCHANGED <<objects, quota>>

-----------------------------------------------------------------------------
(* Workbook import of one image: a staged object is copied to a new key, or a *)
(* stored key the workbook names is referred to again.                       *)

ImportIntent(p, s, k) ==
    /\ At(p, "idle") /\ p \in Threads
    /\ s \in StagedKeys \cap objects
    /\ k \notin StagedKeys /\ Fresh(k)
    /\ \E j \in Free :
          /\ jobs' = [jobs EXCEPT ![j] = Row(k, "intent", FALSE)]
          /\ calls' = [calls EXCEPT ![p] =
                 [IdleCall EXCEPT !.pc = "copy", !.key = k, !.job = j, !.source = s]]
    /\ UNCHANGED <<objects, refs, shown, quota>>

\* The second validation pass or the copy may find the source gone.
ImportCopy(p) ==
    /\ At(p, "copy")
    /\ \/ /\ calls[p].source \in objects
          /\ objects' = objects \cup {calls[p].key}
          /\ Goto(p, "promote")
       \/ /\ calls[p].source \notin objects
          /\ UNCHANGED objects
          /\ Goto(p, "import_failed")
       \/ /\ "copy" \in StorageFaults /\ calls[p].source \in objects
          /\ objects' \in {objects, objects \cup {calls[p].key}}
          /\ Goto(p, "import_failed")
    /\ UNCHANGED <<refs, shown, jobs, quota>>

\* Mutant: the expiry of the source is ended and nothing takes over.
ImportPromoteForgets(p) ==
    /\ At(p, "promote")
    /\ Refer(refs \cup {calls[p].key})
    /\ jobs' = [i \in Slots |->
           IF i = calls[p].job \/ i \in OpenJobs(calls[p].source) \cap ExpiryJobs
           THEN Completed(jobs[i]) ELSE jobs[i]]
    /\ EndCall(p)
    /\ UNCHANGED <<objects, quota>>

\* One commit; the deletion of the source is left to the worker.
ImportPromote(p) ==
    /\ At(p, "promote")
    /\ Refer(refs \cup {calls[p].key})
    /\ \E new \in Free :
          jobs' = [i \in Slots |->
              IF i = new THEN Row(calls[p].source, "pending", TRUE)
              ELSE IF i = calls[p].job \/ i \in OpenJobs(calls[p].source) \cap ExpiryJobs
                   THEN Completed(jobs[i])
              ELSE jobs[i]]
    /\ EndCall(p)
    /\ UNCHANGED <<objects, quota>>

ImportConflicts(p) ==
    /\ At(p, "promote")
    /\ Goto(p, "import_failed")
    /\ UNCHANGED <<objects, refs, shown, jobs, quota>>

\* Rollback; the intent becomes due for the worker.
ImportFail(p) ==
    /\ At(p, "import_failed")
    /\ jobs' = [jobs EXCEPT ![calls[p].job] =
           IF @.status = "completed" THEN @ ELSE Requeued(@)]
    /\ EndCall(p)
    /\ UNCHANGED <<objects, refs, shown, quota>>

\* A canonical key no image has now: the workbook pass finds it stored ...
ReattachStat(p, k) ==
    /\ At(p, "idle") /\ p \in Threads
    /\ k \in (shown \cap objects) \ refs
    /\ calls' = [calls EXCEPT ![p] = [IdleCall EXCEPT !.pc = "reattach", !.key = k]]
    /\ UNCHANGED <<objects, refs, shown, jobs, quota>>

\* ... and the image row is committed; no clean-up job of the key is looked at.
ReattachCommit(p) ==
    /\ At(p, "reattach")
    /\ Refer(refs \cup {calls[p].key})
    /\ EndCall(p)
    /\ UNCHANGED <<objects, jobs, quota>>

Import(p) ==
    \/ \E s \in StagedKeys, k \in Keys : ImportIntent(p, s, k)
    \/ ImportCopy(p) \/ ImportPromote(p) \/ ImportConflicts(p) \/ ImportFail(p)
    \/ \E k \in Reattach : ReattachStat(p, k)
    \/ ReattachCommit(p)

-----------------------------------------------------------------------------
(* Running jobs (run_object_cleanup_jobs).                                   *)

\* A row that was not claimed is set to processing, whatever it says by now.
RunStart(p, j) ==
    /\ At(p, "run") /\ ~calls[p].claimed /\ j \in calls[p].todo
    /\ jobs' = [jobs EXCEPT ![j].status = "processing", ![j].due = FALSE]
    /\ calls' = [calls EXCEPT ![p].pc = "check", ![p].job = j, ![p].todo = @ \ {j}]
    /\ UNCHANGED <<objects, refs, shown, quota>>

RunCheck(p, j) ==
    /\ \/ At(p, "check") /\ calls[p].job = j
       \/ At(p, "run") /\ calls[p].claimed /\ j \in calls[p].todo
    /\ calls' = [calls EXCEPT
           ![p].pc = IF jobs[j].key \in refs THEN "done" ELSE "delete",
           ![p].job = j, ![p].todo = @ \ {j}]
    /\ UNCHANGED <<objects, refs, shown, jobs, quota>>

\* Deleting what is gone is a success.
RunDelete(p) ==
    /\ At(p, "delete")
    /\ objects' = objects \ {jobs[calls[p].job].key}
    /\ Goto(p, "done")
    /\ UNCHANGED <<refs, shown, jobs, quota>>

\* The error may be raised before or after the effect.
RunDeleteFails(p) ==
    /\ At(p, "delete")
    /\ "delete" \in StorageFaults
    /\ objects' \in {objects, objects \ {jobs[calls[p].job].key}}
    /\ Goto(p, "failed")
    /\ UNCHANGED <<refs, shown, jobs, quota>>

NextJob(p) ==
    calls' = [calls EXCEPT ![p] =
        IF @.todo = {} THEN IdleCall ELSE [@ EXCEPT !.pc = "run", !.job = None]]

\* Mutant: a deletion that failed completes the job too.
RunFinishAlways(p) ==
    /\ At(p, "done") \/ At(p, "failed")
    /\ jobs' = [jobs EXCEPT ![calls[p].job] = Completed(@)]
    /\ NextJob(p)
    /\ UNCHANGED <<objects, refs, shown, quota>>

\* A failed job is not due again until its backoff is over.
RunFinish(p) ==
    /\ At(p, "done") \/ At(p, "failed")
    /\ jobs' = [jobs EXCEPT ![calls[p].job] =
           IF At(p, "done") THEN Completed(@) ELSE [@ EXCEPT !.status = "failed", !.due = FALSE]]
    /\ NextJob(p)
    /\ UNCHANGED <<objects, refs, shown, quota>>

-----------------------------------------------------------------------------
(* Claims (retryable_cleanup_jobs): the worker and the administrator's retry. *)

\* Mutant: the grace and the schedule of a job are not looked at.
ClaimableAtOnce(j) == jobs[j].status \in Open

\* Mutant: a claim its holder left behind is not taken over.
ClaimableOnce(j) == jobs[j].status \in {"intent", "pending", "failed"} /\ jobs[j].due

Claimable(j) == jobs[j].status \in Open /\ jobs[j].due

\* A stale claim is taken over without an UPDATE, its row holding the same values
\* already: it stays due.
Claim(p, taken) ==
    /\ At(p, "idle")
    /\ jobs' = [j \in Slots |->
           IF j \in taken /\ jobs[j].status # "processing"
           THEN [jobs[j] EXCEPT !.status = "processing", !.due = FALSE]
           ELSE jobs[j]]
    /\ Run(p, taken, TRUE)
    /\ UNCHANGED <<objects, refs, shown, quota>>

\* SKIP LOCKED leaves out rows that another transaction is writing.
WorkerClaim(p, taken) ==
    /\ p \in Workers
    /\ taken # {} /\ \A j \in taken : Claimable(j)
    /\ Claim(p, taken)

\* The administrator need not wait for the backoff of a failed job.
AdminRetry(p, j) ==
    /\ p \in Threads
    /\ Claimable(j) \/ jobs[j].status = "failed"
    /\ Claim(p, {j})

Cleaning(p) ==
    \/ \E j \in Slots : RunStart(p, j) \/ RunCheck(p, j) \/ AdminRetry(p, j)
    \/ RunDelete(p) \/ RunDeleteFails(p) \/ RunFinish(p)
    \/ \E taken \in SUBSET Slots : WorkerClaim(p, taken)

-----------------------------------------------------------------------------
(* Time and crashes.                                                         *)

\* A schedule, a backoff or a grace runs out; with Prompt, not while a live
\* request or worker is still busy with the job.
Ripen(j) ==
    /\ jobs[j].status \in Open /\ ~jobs[j].due
    /\ Prompt => \A p \in Procs : j \notin Held(p)
    /\ jobs' = [jobs EXCEPT ![j].due = TRUE]
    /\ UNCHANGED <<objects, refs, shown, quota, calls>>

\* What was not committed is lost; the advisory lock goes with the transaction.
Crash(p) ==
    /\ p \in Mortal /\ ~At(p, "idle")
    /\ EndCall(p)
    /\ quota' = IF quota = p THEN None ELSE quota
    /\ UNCHANGED <<objects, refs, shown, jobs>>

Next ==
    \/ \E p \in Procs : Upload(p) \/ Staging(p) \/ Import(p) \/ Cleaning(p) \/ Crash(p)
    \/ \E p \in Procs, keys \in SUBSET Keys, run \in BOOLEAN : Delete(p, keys, run)
    \/ \E j \in Slots : Ripen(j)

Spec == Init /\ [][Next]_vars

-----------------------------------------------------------------------------
(* Fairness. A request that is not killed is executed to its end, time passes, *)
(* the cleanup-worker container runs retry-object-cleanup again and again and  *)
(* is not passed over for ever by SKIP LOCKED, and a deletion that is tried    *)
(* again and again succeeds at last.                                           *)

Continue(p) ==
    \/ UploadPut(p) \/ Attach(p) \/ AttachFails(p) \/ Abandon(p) \/ AbandonRequeue(p)
    \/ StageCommit(p) \/ StagePut(p)
    \/ ImportCopy(p) \/ ImportPromote(p) \/ ImportConflicts(p) \/ ImportFail(p)
    \/ ReattachCommit(p)
    \/ \E j \in Slots : RunStart(p, j) \/ RunCheck(p, j)
    \/ RunDelete(p) \/ RunDeleteFails(p) \/ RunFinish(p)

RecoveringSpec ==
    /\ Spec
    /\ \A p \in Procs : WF_vars(Continue(p))
    /\ \A j \in Slots :
          /\ WF_vars(Ripen(j))
          /\ SF_vars(\E p \in Workers, taken \in SUBSET Slots :
                         j \in taken /\ WorkerClaim(p, taken))
          /\ SF_vars(\E p \in Procs : calls[p].job = j /\ RunDelete(p))

-----------------------------------------------------------------------------
(* Properties.                                                               *)

\* Every variable has its type: stored, referenced and shown keys, one row per
\* slot, and one call per process that holds known rows and keys only
\* (models/object_cleanup_job.py and the local state of the handlers).
TypeOK ==
    /\ objects \subseteq Keys /\ refs \subseteq Keys /\ shown \subseteq Reattach
    /\ jobs \in [Slots -> [status : Open \cup {"completed"}, key : Keys \cup {None},
                           due : BOOLEAN, expiry : BOOLEAN]]
    /\ quota \in Threads \cup {None}
    /\ calls \in [Procs ->
          [pc : {"idle", "put", "attach", "abandon", "requeue", "stage", "stage_put", "copy",
                 "promote", "import_failed", "reattach", "run", "check", "delete", "done",
                 "failed"},
           key : Keys \cup {None}, job : Slots \cup {None}, source : Keys \cup {None},
           todo : SUBSET Slots, claimed : BOOLEAN]]

\* Whatever fails or dies in between, an object nothing refers to has an open job
\* (or is being removed by one), so that clean-up can always find it: the purpose
\* of the intents committed before a put or a copy and of the jobs committed with
\* the removal of a reference.
NothingLeaks == \A k \in objects \ refs : OpenJobs(k) # {}

\* A committed image, avatar or media row names an object that is stored: no
\* clean-up run, however it interleaves with uploads, replacements, retries and
\* imports, takes away an object between its attachment and its use.
NothingDangles == refs \subseteq objects

\* Concurrent staged uploads never exceed the quota of open expiry jobs that
\* upload_staged_product_image enforces by counting under an advisory lock.
StagingWithinQuota == Cardinality(ExpiryJobs) <= Quota

\* An object that is not referred to is removed at last, or referred to, though
\* requests die at any point and deletions fail: intents, failed jobs and claims
\* left behind come due again and a worker takes them over.
UnusedIsRemoved ==
    \A k \in Keys : k \in objects \ refs ~> (k \notin objects \/ k \in refs)

\* "Never delete a key that is currently referenced" (run_object_cleanup_jobs).
NeverDeletesReferenced == [][\A k \in objects \ objects' : k \notin refs]_vars

=============================================================================
