------------------------------ MODULE Promotion ------------------------------
(* The promotion of an approved release to the production host              *)
(* (scripts/promote_production.py) and the retry of its audit.              *)
(*                                                                          *)
(* An attempt takes the host lock, runs the preflight, opens a Deployment   *)
(* record at GitHub and a journal on the host, and then changes production: *)
(* a verified backup of the database, a tag that keeps the previous image,  *)
(* the finalizer (tests, image build, new container), the checks of what    *)
(* runs.  Every write of the journal and every call to GitHub may fail, a   *)
(* call may be carried out and its answer lost, the finalizer may time out, *)
(* and the process may die between any two steps, with a finalizer running. *)
(* The lock is the operating system's: it goes with the process.  Assumed:  *)
(* nobody runs the finalizer by hand, which takes no lock, and an operator  *)
(* rolls back between promotions only.                                      *)

EXTENDS Integers

CONSTANTS
    Attempts,   \* invocations of the promotion
    Nobody,     \* holds no lock
    Versions,   \* release versions
    Target,     \* Target[a]: the release a promotes
    Original,   \* the image that runs at first
    Fallback    \* the owner-approved rebuild of an earlier release

VARIABLES
    approved,   \* the release of the newest valid approval, at most one
    fit,        \* the published releases on main whose newest checks pass
    checkout,   \* the release the stable checkout is at
    deployed,   \* the image of the running container
    lock,       \* the attempt whose process holds production.lock
    pc,         \* pc[a]: the next step of a's process
    journal,    \* journal[a]: the stage in a's journal file
    image,      \* image[a]: the deployed image its journal names, at most one
    status,     \* status[a]: the latest status of a's GitHub Deployment
    previous,   \* previous[a]: the image that ran at a's preflight, at most one
    backup,     \* backup[a]: its backup of the database is verified
    rollback,   \* rollback[a]: the image its rollback tag keeps, at most one
    finalizer,  \* finalizer[a]: the process tree of its finalizer
    stray       \* attempts that ended while their finalizer may be running

world == <<approved, fit, checkout>>
evidence == <<previous, backup, rollback>>
vars == <<world, deployed, lock, pc, journal, image, status, evidence, finalizer, stray>>

Image == [by : Attempts \cup {Nobody}, version : Versions]

ConstantsOK ==
    /\ Nobody \notin Attempts
    /\ Versions \subseteq Nat
    /\ Target \in [Attempts -> Versions]
    /\ Original \in Image /\ Original.by = Nobody
    /\ Fallback \in Image /\ Fallback.by = Nobody

\* The steps of a promotion before it has verified what runs: a failure of
\* one of them is a failed promotion.
Mutating == {"announce", "backup", "backed", "retain", "tagged", "launch", "wait",
             "health", "inspect"}
Auditing == {"audit", "auditReport", "auditClose"}
Locations == {"idle", "preflight", "create", "journal", "done", "report", "close"}
               \cup Mutating \cup Auditing

Verified == {"health-verified", "audit-pending", "deployment-recorded"}
Ended == {"failure", "finalizer-cleanup-required", "deployment-recorded"}
Stages == {"none", "deployment-created", "backup-verified", "finalizer-running"}
            \cup Verified \cup Ended

\* The finalizer tests, replaces the container, and checks what runs.
Alive == {"checking", "replaced"}

TypeOK ==
    /\ approved \in SUBSET Versions
    /\ fit \in SUBSET Versions
    /\ checkout \in Versions
    /\ deployed \in Image
    /\ lock \in Attempts \cup {Nobody}
    /\ pc \in [Attempts -> Locations]
    /\ journal \in [Attempts -> Stages]
    /\ image \in [Attempts -> SUBSET Image]
    /\ status \in [Attempts -> {"none", "created", "in_progress", "failure", "success"}]
    /\ previous \in [Attempts -> SUBSET Image]
    /\ backup \in [Attempts -> BOOLEAN]
    /\ rollback \in [Attempts -> SUBSET Image]
    /\ finalizer \in [Attempts -> Alive \cup {"none", "ok", "bad", "stopped"}]
    /\ stray \in SUBSET Attempts

Init ==
    /\ approved = {}
    /\ fit = {}
    /\ checkout \in Versions
    /\ deployed = Original
    /\ lock = Nobody
    /\ pc = [a \in Attempts |-> "idle"]
    /\ journal = [a \in Attempts |-> "none"]
    /\ image = [a \in Attempts |-> {}]
    /\ status = [a \in Attempts |-> "none"]
    /\ previous = [a \in Attempts |-> {}]
    /\ backup = [a \in Attempts |-> FALSE]
    /\ rollback = [a \in Attempts |-> {}]
    /\ finalizer = [a \in Attempts |-> "none"]
    /\ stray = {}

Goes(a, l) == pc' = [pc EXCEPT ![a] = l]
Writes(a, stage) == journal' = [journal EXCEPT ![a] = stage]
Posts(a, s) == status' = [status EXCEPT ![a] = s]

\* The process of a ends, and the lock with it.
Leaves(a) == Goes(a, "done") /\ lock' = Nobody

-----------------------------------------------------------------------------
(* Before production is touched.                                            *)

\* A second holder of the lock is turned away.
Begin(a) ==
    /\ pc[a] = "idle"
    /\ lock = Nobody
    /\ lock' = a
    /\ Goes(a, "preflight")
    /\ UNCHANGED <<world, deployed, journal, image, status, evidence, finalizer, stray>>

\* The newest approval is for this release and valid, the release and its
\* checks are as approved, the checkout is at it, it is newer than what runs,
\* and the running image, or else the approved fallback, can be kept.
Preflight(a) ==
    /\ pc[a] = "preflight"
    /\ approved = {Target[a]}
    /\ Target[a] \in fit
    /\ checkout = Target[a]
    /\ Target[a] > deployed.version
    /\ previous' = [previous EXCEPT ![a] = {deployed}]
    /\ Goes(a, "create")
    /\ UNCHANGED <<world, deployed, lock, journal, image, status, backup, rollback,
                   finalizer, stray>>

\* The preflight refuses, or the deployment cannot be created (or is created
\* and the answer lost), or the first journal cannot be written.  A known
\* deployment without a journal is reported as failed, if that can be.
StopsEarly(a) ==
    /\ pc[a] \in {"preflight", "create", "journal"}
    /\ Leaves(a)
    /\ \/ UNCHANGED status
       \/ pc[a] = "create" /\ Posts(a, "created")
       \/ pc[a] = "journal" /\ Posts(a, "failure")
    /\ UNCHANGED <<world, deployed, journal, image, evidence, finalizer, stray>>

CreateDeployment(a) ==
    /\ pc[a] = "create"
    /\ Posts(a, "created")
    /\ Goes(a, "journal")
    /\ UNCHANGED <<world, deployed, lock, journal, image, evidence, finalizer, stray>>

FirstJournal(a) ==
    /\ pc[a] = "journal"
    /\ Writes(a, "deployment-created")
    /\ Goes(a, "announce")
    /\ UNCHANGED <<world, deployed, lock, image, status, evidence, finalizer, stray>>

-----------------------------------------------------------------------------
(* The change of production.                                                *)

\* The status in_progress and the path of the backup in the journal; if one of
\* the two fails, or the answer is lost, the promotion fails from here.
Announce(a) ==
    /\ pc[a] = "announce"
    /\ Posts(a, "in_progress")
    /\ Goes(a, "backup") \/ UNCHANGED pc
    /\ UNCHANGED <<world, deployed, lock, journal, image, evidence, finalizer, stray>>

\* An online copy, checked and restored to scratch storage.
BackUp(a) ==
    /\ pc[a] = "backup"
    /\ backup' = [backup EXCEPT ![a] = TRUE]
    /\ Goes(a, "backed")
    /\ UNCHANGED <<world, deployed, lock, journal, image, status, previous, rollback,
                   finalizer, stray>>

JournalBackup(a) ==
    /\ pc[a] = "backed"
    /\ Writes(a, "backup-verified")
    /\ Goes(a, "retain")
    /\ UNCHANGED <<world, deployed, lock, image, status, evidence, finalizer, stray>>

\* A tag keeps the image of the preflight, or the fallback when that image can
\* no longer be inspected.
Retain(a) ==
    /\ pc[a] = "retain"
    /\ \E kept \in previous[a] \cup {Fallback} :
         rollback' = [rollback EXCEPT ![a] = {kept}]
    /\ Goes(a, "tagged")
    /\ UNCHANGED <<world, deployed, lock, journal, image, status, previous, backup,
                   finalizer, stray>>

JournalFinalizer(a) ==
    /\ pc[a] = "tagged"
    /\ Writes(a, "finalizer-running")
    /\ Goes(a, "launch")
    /\ UNCHANGED <<world, deployed, lock, image, status, evidence, finalizer, stray>>

Launch(a) ==
    /\ pc[a] = "launch"
    /\ finalizer' = [finalizer EXCEPT ![a] = "checking"]
    /\ Goes(a, "wait")
    /\ UNCHANGED <<world, deployed, lock, journal, image, status, evidence, stray>>

FinalizerDone(a) ==
    /\ pc[a] = "wait"
    /\ finalizer[a] = "ok"
    /\ Goes(a, "health")
    /\ UNCHANGED <<world, deployed, lock, journal, image, status, evidence, finalizer, stray>>

\* /health reports the approved version, and the runtime state is current.
Health(a) ==
    /\ pc[a] = "health"
    /\ deployed.version = Target[a]
    /\ Goes(a, "inspect")
    /\ UNCHANGED <<world, deployed, lock, journal, image, status, evidence, finalizer, stray>>

\* The image of the container is read and journalled as the verified one.
Inspect(a) ==
    /\ pc[a] = "inspect"
    /\ image' = [image EXCEPT ![a] = {deployed}]
    /\ Writes(a, "health-verified")
    /\ Goes(a, "report")
    /\ UNCHANGED <<world, deployed, lock, status, evidence, finalizer, stray>>

\* A step failed: an exit code, a check, a write or a call.  The journal and
\* the status say so if they can be reached.
Fails(a) ==
    /\ pc[a] \in Mutating
    /\ finalizer[a] \notin Alive
    /\ Leaves(a)
    /\ Writes(a, "failure") \/ UNCHANGED journal
    /\ Posts(a, "failure") \/ UNCHANGED status
    /\ UNCHANGED <<world, deployed, image, evidence, finalizer, stray>>

\* The finalizer has run for an hour and its process tree is stopped.
TimesOut(a) ==
    /\ pc[a] = "wait"
    /\ finalizer[a] \in Alive
    /\ finalizer' = [finalizer EXCEPT ![a] = "stopped"]
    /\ UNCHANGED <<world, deployed, lock, pc, journal, image, status, evidence, stray>>

\* It cannot be confirmed that the tree was stopped: GitHub keeps in_progress.
CleanupUncertain(a) ==
    /\ pc[a] = "wait"
    /\ finalizer[a] \in Alive
    /\ Leaves(a)
    /\ Writes(a, "finalizer-cleanup-required") \/ UNCHANGED journal
    /\ stray' = stray \cup {a}
    /\ UNCHANGED <<world, deployed, image, status, evidence, finalizer>>

\* The success is reported.  The call may fail, or its answer may be lost: the
\* journal then says audit-pending, if it can be written.
Report(a) ==
    /\ pc[a] = "report"
    /\ \/ Posts(a, "success") /\ Goes(a, "close") /\ UNCHANGED <<lock, journal>>
       \/ /\ Posts(a, "success") \/ UNCHANGED status
          /\ Writes(a, "audit-pending") \/ UNCHANGED journal
          /\ Leaves(a)
    /\ UNCHANGED <<world, deployed, image, evidence, finalizer, stray>>

Close(a) ==
    /\ pc[a] \in {"close", "auditClose"}
    /\ Writes(a, "deployment-recorded") \/ UNCHANGED journal
    /\ Leaves(a)
    /\ UNCHANGED <<world, deployed, image, status, evidence, finalizer, stray>>

-----------------------------------------------------------------------------
(* The retry of the audit.                                                  *)

AuditBegin(a) ==
    /\ pc[a] = "done"
    /\ lock = Nobody
    /\ journal[a] # "none"
    /\ lock' = a
    /\ Goes(a, "audit")
    /\ UNCHANGED <<world, deployed, journal, image, status, evidence, finalizer, stray>>

\* The checkout, the running version and the running image are still those of
\* the verified promotion; a status that arrived after all is not posted again.
AuditCheck(a) ==
    /\ pc[a] = "audit"
    /\ checkout = Target[a]
    /\ journal[a] \in {"health-verified", "audit-pending"}
    /\ deployed.version = Target[a]
    /\ image[a] = {deployed}
    /\ Goes(a, IF status[a] = "success" THEN "auditClose" ELSE "auditReport")
    /\ UNCHANGED <<world, deployed, lock, journal, image, status, evidence, finalizer, stray>>

AuditReport(a) ==
    /\ pc[a] = "auditReport"
    /\ Posts(a, "success")
    /\ Goes(a, "auditClose")
    /\ UNCHANGED <<world, deployed, lock, journal, image, evidence, finalizer, stray>>

AuditStops(a) ==
    /\ pc[a] \in Auditing
    /\ Leaves(a)
    /\ \/ UNCHANGED status
       \/ pc[a] = "auditReport" /\ Posts(a, "success")
    /\ UNCHANGED <<world, deployed, journal, image, evidence, finalizer, stray>>

-----------------------------------------------------------------------------
(* The finalizer, the host and the operator.                                *)

\* Finalize Backend.cmd: the tests, the new container of the checkout's
\* version, and the comparison of the two.
FinalizerReplaces(a) ==
    /\ finalizer[a] = "checking"
    /\ finalizer' = [finalizer EXCEPT ![a] = "replaced"]
    /\ deployed' = [by |-> a, version |-> checkout]
    /\ UNCHANGED <<world, lock, pc, journal, image, status, evidence, stray>>

FinalizerEnds(a) ==
    /\ finalizer[a] \in Alive
    /\ \/ finalizer' = [finalizer EXCEPT ![a] = "bad"]
       \/ /\ finalizer[a] = "replaced"
          /\ deployed.version = checkout
          /\ finalizer' = [finalizer EXCEPT ![a] = "ok"]
    /\ UNCHANGED <<world, deployed, lock, pc, journal, image, status, evidence, stray>>

\* The process dies, whatever it was at; its finalizer may live on.
Crash(a) ==
    /\ lock = a
    /\ Leaves(a)
    /\ stray' = IF finalizer[a] \in Alive THEN stray \cup {a} ELSE stray
    /\ UNCHANGED <<world, deployed, journal, image, status, evidence, finalizer>>

\* Releases, checks, approvals (which expire, are superseded, and fall with
\* every commit on main) and the checkout change at any time.
WorldChanges ==
    /\ approved' \in {{}} \cup {{v} : v \in Versions}
    /\ fit' \in SUBSET Versions
    /\ checkout' \in Versions
    /\ UNCHANGED <<deployed, lock, pc, journal, image, status, evidence, finalizer, stray>>

\* The operator recreates the container from a kept image, between promotions.
Rollback ==
    /\ lock = Nobody
    /\ \E a \in Attempts : deployed' \in rollback[a]
    /\ UNCHANGED <<world, lock, pc, journal, image, status, evidence, finalizer, stray>>

Promote(a) ==
    \/ Begin(a) \/ Preflight(a) \/ StopsEarly(a) \/ CreateDeployment(a) \/ FirstJournal(a)
    \/ Announce(a) \/ BackUp(a) \/ JournalBackup(a) \/ Retain(a) \/ JournalFinalizer(a)
    \/ Launch(a) \/ FinalizerDone(a) \/ Health(a) \/ Inspect(a) \/ Fails(a) \/ TimesOut(a)
    \/ CleanupUncertain(a) \/ Report(a) \/ Close(a)

RetryAudit(a) == AuditBegin(a) \/ AuditCheck(a) \/ AuditReport(a) \/ AuditStops(a)

Next ==
    \/ \E a \in Attempts : \/ Promote(a) \/ RetryAudit(a)
                           \/ FinalizerReplaces(a) \/ FinalizerEnds(a) \/ Crash(a)
    \/ WorldChanges \/ Rollback

Spec == Init /\ [][Next]_vars

-----------------------------------------------------------------------------

\* No finalizer starts before the backup is verified, an image to roll back to
\* is kept, and the journal says that a finalizer runs: whatever fails or dies
\* afterwards, the operator finds both.
BackedUpFirst ==
    \A a \in Attempts :
        finalizer[a] # "none" =>
            /\ backup[a]
            /\ rollback[a] # {} /\ rollback[a] \subseteq previous[a] \cup {Fallback}
            /\ journal[a] \notin {"none", "deployment-created", "backup-verified"}

\* Two finalizers run side by side only if the process of one has died or could
\* not stop it.
OneFinalizer ==
    \A a, b \in Attempts :
        finalizer[a] \in Alive /\ finalizer[b] \in Alive => a = b \/ a \in stray \/ b \in stray

\* Journal and GitHub agree on the outcome as far as they say one: success only
\* with a verified journal, failure never with one.
RecordsAgree ==
    \A a \in Attempts :
        /\ status[a] = "success" => journal[a] \in Verified
        /\ journal[a] = "deployment-recorded" => status[a] = "success"
        /\ status[a] = "failure" => journal[a] \notin Verified

\* Without a finalizer gone astray, the image a journal names as verified was
\* built by that promotion and is of the approved version.
VerifiedImage ==
    stray = {} =>
        \A a \in Attempts :
            journal[a] \in Verified => image[a] = {[by |-> a, version |-> Target[a]]}

\* Without a finalizer gone astray, what a finalizer is about to replace is
\* the image of the preflight, which the rollback tag keeps (if not the fallback).
RollbackIsPrevious ==
    stray = {} =>
        \A a \in Attempts : finalizer[a] = "checking" => previous[a] = {deployed}

\* A journal that says failure, cleanup required or recorded says so for ever:
\* neither a later promotion nor a retry of the audit rewrites it.
EndedForGood ==
    [][\A a \in Attempts : journal[a] \in Ended => journal'[a] = journal[a]]_vars

Record == INSTANCE DeploymentRecord
            WITH verified <- {a \in Attempts : journal[a] \in Verified}

\* GitHub's records keep what DeploymentRecord promises.
ImplementsRecord == Record!Spec
=============================================================================
