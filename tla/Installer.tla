------------------------------ MODULE Installer ------------------------------
(***************************************************************************)
(* Activation of a signed release on the appliance, its rollback, and the  *)
(* quarantine of state the new release cannot read (install.rs).           *)
(*                                                                         *)
(* The disk survives; the operation in progress does not: the installer    *)
(* runs under an SSH session and dies with it.  Any step may also fail,    *)
(* and only some failures are undone.  The agent of the old release keeps  *)
(* serving meanwhile.                                                      *)
(*                                                                         *)
(* A release is a name.  The files it brings are two: "config" (agent and  *)
(* executor configuration, units, AppArmor profiles) and "catalogs" (the   *)
(* models and engines).  Signature and manifest checks precede everything  *)
(* and change nothing; they are left out.                                  *)
(***************************************************************************)
EXTENDS Integers, FiniteSets

CONSTANTS
  Releases,     \* the signed releases
  StateRows,    \* rows of the instances table
  Readable      \* per release, the rows its agent can decode

NoRelease == "none"
Torn == "torn"
Names == Releases \union {NoRelease}

ASSUME InstallerAssumption ==
  Readable \in [Releases -> SUBSET StateRows] /\ NoRelease \notin Releases

VARIABLES
  dirs,       \* complete release directories
  link,       \* the symlinks current and previous
  policy,     \* per group of files, the release they were written from
  identity,   \* how many of the identity files exist, in the order of writing
  units,      \* the release each service runs
  dbrows,     \* per row: stopped, running, or deleted
  backups,    \* the rows that a verified backup holds
  job,        \* the operation in progress
  report      \* what the last operation answered

installerVars == <<dirs, link, policy, identity, units, dbrows, backups, job, report>>
disk == <<dirs, link, policy, identity>>
database == <<dbrows, backups>>

\* ca-key, ca-cert, server-key, server-chain, bootstrap-admin.credential
CaCert == 2
AllFiles == 5

NoJob == [at |-> "idle"]
NoReport == [st |-> "none"]

InstallerInit ==
  /\ dirs = {}
  /\ link = [current |-> NoRelease, previous |-> NoRelease]
  /\ policy = [config |-> NoRelease, catalogs |-> NoRelease]
  /\ identity = 0
  /\ units = [executor |-> NoRelease, agent |-> NoRelease]
  /\ dbrows = [i \in StateRows |-> "stopped"] /\ backups = {}
  /\ job = NoJob /\ report = NoReport

-----------------------------------------------------------------------------
(* Steps.                                                                   *)

At(kind, step) == job.at = step /\ job.kind = kind
Goto(step) == job' = [job EXCEPT !.at = step]

Answer(st, changed) ==
  /\ job' = NoJob
  /\ report' = [st |-> st, kind |-> job.kind, rel |-> job.rel, changed |-> changed, from |-> job.snap.link.current]

\* An error return that undoes nothing.
Gives(step, outcome) == \/ Goto(step) /\ UNCHANGED report /\ outcome
                        \/ Answer("failed", FALSE) /\ UNCHANGED <<disk, units, database>>

Snapshot == [link |-> link, policy |-> policy, identity |-> identity, dirs |-> dirs]

-----------------------------------------------------------------------------
(* activate_from_files: quarantine_incompatible_state.                      *)

Activate(r) ==
  /\ job = NoJob
  /\ job' = [kind |-> "install", rel |-> r, snap |-> Snapshot, ids |-> {},
             at |-> IF link.current = NoRelease THEN "release" ELSE "inspect"]
  /\ report' = NoReport
  /\ UNCHANGED <<disk, units, database>>

\* Mutant: the transaction comes before the backup.
InspectNoBackup ==
  /\ At("install", "inspect")
  /\ LET ids == {i \in StateRows : dbrows[i] # "deleted" /\ i \notin Readable[job.rel]}
     IN  IF \E i \in ids : dbrows[i] = "running" THEN Answer("failed", FALSE)
         ELSE /\ job' = [job EXCEPT !.ids = ids, !.at = IF ids = {} THEN "validate" ELSE "purge"]
              /\ UNCHANGED report
  /\ UNCHANGED <<disk, units, database>>

\* incompatible_instance_ids: reads, outside of a transaction.
Inspect ==
  /\ At("install", "inspect")
  /\ LET ids == {i \in StateRows : dbrows[i] # "deleted" /\ i \notin Readable[job.rel]}
     IN  IF \E i \in ids : dbrows[i] = "running" THEN Answer("failed", FALSE)
         ELSE /\ job' = [job EXCEPT !.ids = ids, !.at = IF ids = {} THEN "validate" ELSE "backup"]
              /\ UNCHANGED report
  /\ UNCHANGED <<disk, units, database>>

\* backup_incompatible_state
BackupRows ==
  /\ At("install", "backup")
  /\ Gives("purge", backups' = backups \union {i \in StateRows : dbrows[i] # "deleted"}
                    /\ UNCHANGED <<disk, units, dbrows>>)

\* apply_state_quarantine: one transaction over the rows found before.
Purge ==
  /\ At("install", "purge")
  /\ Gives("validate", dbrows' = [i \in StateRows |-> IF i \in job.ids THEN "deleted" ELSE dbrows[i]]
                       /\ UNCHANGED <<disk, units, backups>>)

\* validate_rollback_state: running instances must have an installed engine,
\* the database a verified backup.
Validate ==
  /\ At("install", "validate")
  /\ Gives("release", UNCHANGED <<disk, units, database>>)

-----------------------------------------------------------------------------
(* install_release_with_integration                                         *)

\* existing_bootstrap_material: the CA certificate and the token.
Material == identity = AllFiles

\* The early return of a release that the link already names.
AlreadyActive(r) == r \in dirs /\ link.current = r

CheckRelease ==
  /\ At("install", "release")
  /\ IF AlreadyActive(job.rel)
     THEN IF Material THEN Goto("unchanged") /\ UNCHANGED report ELSE Answer("failed", FALSE)
     ELSE job' = [job EXCEPT !.at = "stage", !.snap = Snapshot] /\ UNCHANGED report
  /\ UNCHANGED <<disk, units, database>>

\* Everything is written and synced in a stage directory, then renamed.
Stage ==
  /\ At("install", "stage")
  /\ Gives("config", dirs' = dirs \union {job.rel} /\ UNCHANGED <<link, policy, identity, units, database>>)

\* write_policy_assets, over write_synced: a file is truncated before it is
\* written, so an error or a death can leave it torn.
WriteFiles(group, next) ==
  \/ policy' = [policy EXCEPT ![group] = job.rel] /\ Goto(next) /\ UNCHANGED report
  \/ policy' = [policy EXCEPT ![group] = Torn] /\ Answer("failed", FALSE)
  \/ policy' = [policy EXCEPT ![group] = Torn] /\ job' = NoJob /\ UNCHANGED report

WritePolicy ==
  /\ \/ At("install", "config") /\ WriteFiles("config", "catalogs")
     \/ At("install", "catalogs") /\ WriteFiles("catalogs", "identity")
  /\ UNCHANGED <<dirs, link, identity, units, database>>

\* ensure_local_identity: all of it unless the CA certificate is there.
EnsureIdentity ==
  /\ At("install", "identity")
  /\ IF identity < CaCert THEN identity' = 1 /\ Goto("keys") /\ UNCHANGED report
     ELSE IF Material THEN Goto("previous") /\ UNCHANGED <<identity, report>>
     ELSE Answer("failed", FALSE) /\ UNCHANGED identity
  /\ UNCHANGED <<dirs, link, policy, units, database>>

\* A failed write may leave its file there, truncated.
WriteKeys ==
  /\ At("install", "keys")
  /\ \/ identity' = identity + 1 /\ UNCHANGED report
        /\ Goto(IF identity + 1 = AllFiles THEN "previous" ELSE "keys")
     \/ identity' \in {identity, identity + 1} /\ Answer("failed", FALSE)
  /\ UNCHANGED <<dirs, link, policy, units, database>>

\* The release being replaced, read at the start, becomes the previous one.
LinkPrevious ==
  /\ At("install", "previous")
  /\ Gives("current", /\ link' = IF job.snap.link.current = NoRelease THEN link
                                 ELSE [link EXCEPT !.previous = job.snap.link.current]
                      /\ UNCHANGED <<dirs, policy, identity, units, database>>)

LinkCurrent ==
  /\ At("install", "current")
  /\ Gives("executor", link' = [link EXCEPT !.current = job.rel]
                       /\ UNCHANGED <<dirs, policy, identity, units, database>>)

\* Mutant: an agent that does not come up is not noticed.
RestartsUnchecked(kind, undo, next) ==
  /\ \/ /\ At(kind, "executor")
        /\ \/ units' = [units EXCEPT !.executor = link.current] /\ Goto("agent")
           \/ units' \in {units, [units EXCEPT !.executor = NoRelease]} /\ Goto(undo)
     \/ /\ At(kind, "agent")
        /\ \E r \in {link.current, NoRelease} : units' = [units EXCEPT !.agent = r] /\ Goto(next)
  /\ UNCHANGED <<disk, database, report>>

\* apply_host_integration ends with restart_control_plane; an error of either
\* is what TransactionSnapshot::restore undoes.
Restarts(kind, undo, next) ==
  /\ \/ /\ At(kind, "executor")
        /\ \/ units' = [units EXCEPT !.executor = link.current] /\ Goto("agent")
           \/ units' \in {units, [units EXCEPT !.executor = NoRelease]} /\ Goto(undo)
     \/ /\ At(kind, "agent")
        /\ \/ units' = [units EXCEPT !.agent = link.current] /\ Goto(next)
           \/ units' = [units EXCEPT !.agent = NoRelease] /\ Goto(undo)
  /\ UNCHANGED <<disk, database, report>>

Integrate == Restarts("install", "unlink", "protect")

\* activate_from_files goes on, after the early return too: actions that were
\* not approved are refused as they stand; a protected stack that changed rolls
\* the release back, if it can be, and the activation is refused.
Protect ==
  /\ At("install", "protect") \/ At("install", "unchanged")
  /\ \/ Answer("applied", job.at = "protect")
     \/ Answer("failed", FALSE)
     \/ /\ link.previous \in dirs /\ link.previous # link.current
        /\ job' = [job EXCEPT !.kind = "refused", !.at = "catalogs", !.snap = Snapshot]
        /\ UNCHANGED report
  /\ UNCHANGED <<disk, units, database>>

-----------------------------------------------------------------------------
(* TransactionSnapshot::restore                                             *)

\* Mutant: the failed release is removed before the link is restored.
UnlinkRemovesRelease ==
  /\ At("install", "unlink")
  /\ dirs' = job.snap.dirs /\ Goto("relink")
  /\ UNCHANGED <<link, policy, identity, units, database, report>>

Unlink ==
  /\ At("install", "unlink")
  /\ link' = [link EXCEPT !.current = NoRelease] /\ Goto("relink")
  /\ UNCHANGED <<dirs, policy, identity, units, database, report>>

\* A link is removed, then made again: current, then previous.
Relink ==
  /\ \/ /\ At("install", "relink") /\ Goto("unprevious")
        /\ link' = [link EXCEPT !.current = job.snap.link.current]
     \/ /\ At("install", "unprevious") /\ Goto("reprevious")
        /\ link' = [link EXCEPT !.previous = NoRelease]
     \/ /\ At("install", "reprevious") /\ Goto("restore")
        /\ link' = [link EXCEPT !.previous = job.snap.link.previous]
  /\ UNCHANGED <<dirs, policy, identity, units, database, report>>

\* Then the files and the directory; services are not restarted.
RestoreFiles ==
  /\ At("install", "restore")
  /\ policy' = job.snap.policy /\ identity' = job.snap.identity /\ Goto("remove")
  /\ UNCHANGED <<dirs, link, units, database, report>>

RemoveRelease ==
  /\ At("install", "remove")
  /\ dirs' = job.snap.dirs /\ Answer("failed", FALSE)
  /\ UNCHANGED <<link, policy, identity, units, database>>

-----------------------------------------------------------------------------
(* rollback_release; kind "refused" is the rollback of Protect, whose own   *)
(* result is ignored.                                                       *)

RollbackKinds == {"rollback", "refused"}
Target == job.snap.link.previous
RollbackEnds(kind) == Answer(IF kind = "rollback" THEN "applied" ELSE "failed", kind = "rollback")

\* checked_release_link of both links, validate_rollback_state.
Rollback ==
  /\ job = NoJob
  /\ {link.current, link.previous} \subseteq dirs /\ link.current # link.previous
  /\ job' = [kind |-> "rollback", rel |-> link.previous, snap |-> Snapshot, ids |-> {}, at |-> "catalogs"]
  /\ report' = NoReport
  /\ UNCHANGED <<disk, units, database>>

\* materialize_release_catalogs
RollbackCatalogs(kind) ==
  /\ At(kind, "catalogs")
  /\ \/ policy' = [policy EXCEPT !.catalogs = Target] /\ Goto("current") /\ UNCHANGED report
     \/ \E c \in {Torn, link.current} : policy' = [policy EXCEPT !.catalogs = c] /\ Answer("failed", FALSE)
  /\ UNCHANGED <<dirs, link, identity, units, database>>

\* Two renames, each of them atomic.
RollbackLinks(kind) ==
  \/ /\ At(kind, "current")
     /\ Gives("previous", link' = [link EXCEPT !.current = Target]
                          /\ UNCHANGED <<dirs, policy, identity, units, database>>)
  \/ /\ At(kind, "previous")
     /\ Gives("executor", link' = [link EXCEPT !.previous = job.snap.link.current]
                          /\ UNCHANGED <<dirs, policy, identity, units, database>>)

\* restart_control_plane failed: links and catalogs as they were.
RollbackUndo(kind) ==
  \/ /\ At(kind, "undo") /\ Goto("undo2")
     /\ link' = [link EXCEPT !.current = job.snap.link.current]
     /\ UNCHANGED <<dirs, policy, identity, units, database, report>>
  \/ /\ At(kind, "undo2") /\ Goto("undo3")
     /\ link' = [link EXCEPT !.previous = job.snap.link.previous]
     /\ UNCHANGED <<dirs, policy, identity, units, database, report>>
  \/ /\ At(kind, "undo3") /\ Answer("failed", FALSE)
     /\ \E c \in {Torn, link.current} : policy' = [policy EXCEPT !.catalogs = c]
     /\ UNCHANGED <<dirs, link, identity, units, database>>

RollbackDone(kind) ==
  /\ At(kind, "done") /\ RollbackEnds(kind)
  /\ UNCHANGED <<disk, units, database>>

RollbackStep(kind) ==
  \/ RollbackCatalogs(kind) \/ RollbackLinks(kind) \/ Restarts(kind, "undo", "done")
  \/ RollbackUndo(kind) \/ RollbackDone(kind)

-----------------------------------------------------------------------------
(* The rest of the appliance.                                               *)

\* The session ends and the installer with it.
InstallerDies ==
  /\ job # NoJob /\ job' = NoJob
  /\ UNCHANGED <<disk, units, database, report>>

\* systemd starts what the link names.
HostReboots ==
  /\ job' = NoJob
  /\ units' = [u \in DOMAIN units |-> link.current]
  /\ UNCHANGED <<disk, database, report>>

\* The running agent serves or stops an instance it can read.
AgentMoves(i) ==
  /\ units.agent \in Releases /\ i \in Readable[units.agent] /\ dbrows[i] # "deleted"
  /\ dbrows' = [dbrows EXCEPT ![i] = IF @ = "running" THEN "stopped" ELSE "running"]
  /\ UNCHANGED <<disk, units, backups, job, report>>

InstallerNext ==
  \/ \E r \in Releases : Activate(r)
  \/ Inspect \/ BackupRows \/ Purge \/ Validate
  \/ CheckRelease \/ Stage \/ WritePolicy \/ EnsureIdentity \/ WriteKeys \/ LinkPrevious \/ LinkCurrent
  \/ Integrate \/ Protect \/ Unlink \/ Relink \/ RestoreFiles \/ RemoveRelease
  \/ Rollback \/ \E kind \in RollbackKinds : RollbackStep(kind)
  \/ InstallerDies \/ HostReboots \/ \E i \in StateRows : AgentMoves(i)

InstallerSpec == InstallerInit /\ [][InstallerNext]_installerVars

-----------------------------------------------------------------------------
(* Properties.                                                              *)

\* Both links name complete, verified releases or nothing, through deaths in
\* the middle of an activation, of a rollback and of the undoing of either.
LinksAreComplete == {link.current, link.previous} \subseteq dirs \union {NoRelease}

\* The release named by the report is the active one: link, catalogs and both
\* services.
Coherent(r) ==
  /\ link.current = r /\ policy.catalogs = r /\ units = [executor |-> r, agent |-> r]

\* An operation that reports a change left links, catalogs and services of one
\* release behind, and the way back to the release it replaced, whatever an
\* earlier failed or interrupted operation had left there.
ChangedReleaseRuns ==
  job = NoJob /\ report.st = "applied" /\ report.changed =>
    /\ Coherent(report.rel)
    /\ report.from # NoRelease => link.previous = report.from
    /\ Material

\* "agent and executor versions differ from the signed candidate"
\* (update-spark.py, of every upgrade reported applied): also one that
\* reports no change runs the release it names.
AppliedReleaseRuns ==
  job = NoJob /\ report.st = "applied" => Coherent(report.rel)

\* A row is deleted from the state only when a backup holds it.
QuarantinedIsBackedUp == \A i \in StateRows : dbrows[i] = "deleted" => i \in backups

\* "upgrade_quarantines_only_stopped_incompatible_state" (a test of install.rs):
\* the quarantine deletes no instance that shall run.
QuarantinesOnlyStopped ==
  [][\A i \in StateRows : dbrows'[i] = "deleted" => dbrows[i] # "running"]_installerVars

\* What installs, upgrades and rollbacks promise, together.
InstallsAreSound == LinksAreComplete /\ ChangedReleaseRuns /\ QuarantinedIsBackedUp
=============================================================================
