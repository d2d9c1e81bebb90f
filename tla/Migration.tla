----------------------------- MODULE Migration -----------------------------
(* The journaled in-place migration of a legacy appliance (sy-spark) to the *)
(* current one (sparkplane): migration/journal.rs, runner.rs, host.rs,      *)
(* fence.rs and the command flows of cli.rs.                                *)
(*                                                                          *)
(* One root process at a time (the lock of cli.rs) stages a transaction and *)
(* runs the eight steps, recovers an interrupted one, or resumes opening    *)
(* traffic.  Each step is the sequence of host actions host.rs performs;    *)
(* the process may die between any two of them, the host may reboot at any  *)
(* moment, and both appliances, the engines and the clients move by         *)
(* themselves.  A failed command or save ends the process, so a death       *)
(* before or after the action stands for every failure of it.               *)
(*                                                                          *)
(* Abstractions: one running instance; the database is a version number;    *)
(* the agent and executor units of an appliance start and stop together;    *)
(* guard files and the daemon-reload after them are one action; the files   *)
(* Relocate moves are the seven groups of Items.                            *)
EXTENDS Naturals, Sequences, FiniteSets

CONSTANTS
    MaxFaults,       \* deaths of the migration process
    MaxReboots,
    MaxWrites,       \* writes of the legacy agent to its database
    MaxGeneration,   \* generations the legacy agent gives its engine
    RestartPolicies  \* restart policies the legacy engine may have

ASSUME BoundsAssumption ==
    /\ {MaxFaults, MaxReboots, MaxWrites, MaxGeneration} \subseteq Nat
    /\ RestartPolicies # {}
    /\ RestartPolicies \subseteq {"no", "unless-stopped"}

VARIABLES
    work,      \* the transaction directory: none, active, opened
    disk,      \* migration.json (a missing file reads as Fresh)
    mem,       \* the journal in the running process
    proc,      \* where the process is
    todo,      \* host actions left in the current step
    record,    \* generation of the engine in record.json
    plan,      \* generation the running process expects
    fence,     \* nft table: none, new (new connections rejected), sealed
    guards,    \* units with the drop-in that requires the permit
    permit,    \* /run/sparkplane-migration-permit
    up,        \* appliances whose services run
    enabled,   \* appliances systemd starts at boot
    legacy,    \* the legacy engine container
    current,   \* the current engine container
    moved,     \* items Relocate has moved
    version,   \* writes in the legacy database
    snap,      \* writes in the candidate database
    drift,     \* the inventory differs from the plan's digest
    client,    \* appliance an outside client is connected to
    faults, reboots

journalVars == <<work, disk, mem, record, plan>>
procVars    == <<proc, todo>>
gateVars    == <<fence, guards, permit>>
unitVars    == <<up, enabled>>
engineVars  == <<legacy, current>>
dataVars    == <<moved, version, snap, drift>>
envVars     == <<faults, reboots>>
hostVars    == <<gateVars, unitVars, engineVars, dataVars, client>>
vars        == <<journalVars, procVars, hostVars, envVars>>

Units == {"legacy", "current"}

Steps == <<"FenceTraffic", "Drain", "StopLegacyServices", "Snapshot",
           "StopLegacyEngine", "Relocate", "Activate", "Qualify">>

\* The groups of files and accounts Relocate moves, in the order apply moves
\* them, and the order undo puts them back in.
ActivateOrder == <<"original", "candidate", "data", "emergency",
                   "user", "group", "publication">>
RestoreOrder  == <<"publication", "user", "group", "emergency",
                   "data", "candidate", "original">>
Items == {ActivateOrder[i] : i \in 1 .. Len(ActivateOrder)}

-----------------------------------------------------------------------------
(* The programs of host.rs: the commands, checks and file operations each    *)
(* step of the migration and each step of its recovery is made of.          *)

ActionNames ==
    {"RequireUnfenced", "InstallGuards", "Fence", "Permit", "AwaitDrained", "Seal",
     "LegacyHealthy", "Measure", "VerifySources", "StopOld", "Prepare", "StopEngine",
     "Move", "StartNew", "CurrentHealthy", "RemoveEngine", "Unfence", "RemoveGuards",
     "Unpermit", "StartOld", "RestoreEngine", "Restore", "StopNew", "RemoveCurrent",
     "EnsureFence", "DisableOld", "EnableNew"}

ApplyLeavesEngine ==
    [FenceTraffic       |-> <<"RequireUnfenced", "InstallGuards", "Fence", "Permit">>,
     Drain              |-> <<"AwaitDrained", "Seal", "LegacyHealthy", "Measure">>,
     StopLegacyServices |-> <<"VerifySources", "StopOld">>,
     Snapshot           |-> <<"VerifySources", "Prepare">>,
     StopLegacyEngine   |-> <<>>,
     Relocate           |-> <<"Move">>,
     Activate           |-> <<"StartNew">>,
     Qualify            |-> <<"CurrentHealthy", "Measure", "RemoveEngine",
                              "CurrentHealthy">>]

ApplySnapshotsFirst ==
    [ApplyLeavesEngine EXCEPT
        !.StopLegacyServices = <<"VerifySources", "Prepare", "StopOld">>,
        !.Snapshot = <<"VerifySources">>,
        !.StopLegacyEngine = <<"StopEngine">>]

Apply ==
    [FenceTraffic       |-> <<"RequireUnfenced", "InstallGuards", "Fence", "Permit">>,
     Drain              |-> <<"AwaitDrained", "Seal", "LegacyHealthy", "Measure">>,
     StopLegacyServices |-> <<"VerifySources", "StopOld">>,
     Snapshot           |-> <<"VerifySources", "Prepare">>,
     StopLegacyEngine   |-> <<"StopEngine">>,
     Relocate           |-> <<"Move">>,
     Activate           |-> <<"StartNew">>,
     Qualify            |-> <<"CurrentHealthy", "Measure", "RemoveEngine",
                              "CurrentHealthy">>]

ReleaseFence == <<"Unfence", "RemoveGuards", "Unpermit">>

UndoKeepsServices ==
    [FenceTraffic       |-> <<"LegacyHealthy">> \o ReleaseFence,
     Drain              |-> <<>>,
     StopLegacyServices |-> <<"StartOld", "LegacyHealthy">>,
     Snapshot           |-> <<>>,
     StopLegacyEngine   |-> <<"RestoreEngine">>,
     Relocate           |-> <<"Restore">>,
     Activate           |-> <<"RemoveCurrent">>,
     Qualify            |-> <<>>]

UndoForgetsServices ==
    [UndoKeepsServices EXCEPT
        !.StopLegacyServices = <<"LegacyHealthy">>,
        !.Activate = <<"StopNew", "RemoveCurrent">>]

Undo ==
    [FenceTraffic       |-> <<"LegacyHealthy">> \o ReleaseFence,
     Drain              |-> <<>>,
     StopLegacyServices |-> <<"StartOld", "LegacyHealthy">>,
     Snapshot           |-> <<>>,
     StopLegacyEngine   |-> <<"RestoreEngine">>,
     Relocate           |-> <<"Restore">>,
     Activate           |-> <<"StopNew", "RemoveCurrent">>,
     Qualify            |-> <<>>]

RestoreFence == <<"InstallGuards", "EnsureFence", "Seal", "Permit">>

OpenTrafficKeepsOld == <<"EnableNew", "CurrentHealthy">> \o ReleaseFence

OpenTraffic == <<"DisableOld", "EnableNew", "CurrentHealthy">> \o ReleaseFence

-----------------------------------------------------------------------------
(* The journal.                                                             *)

Fresh == [done |-> 0, pending |-> FALSE, committed |-> FALSE, rolling |-> FALSE]

Journal == [done : 0 .. Len(Steps), pending : BOOLEAN,
            committed : BOOLEAN, rolling : BOOLEAN]

\* Save writes the whole state through a rename, so the disk holds the old or
\* the new record.
Save(j) == /\ mem' = j
           /\ disk' = j

Outstanding(j) == j.pending \/ j.done > 0

\* Mutant: an interrupted step is not undone.
UndoOfCompleted(j) == IF j.pending \/ j.done = 0 THEN <<>> ELSE Undo[Steps[j.done]]

\* The step recovery undoes next: the interrupted one, then the last one.
UndoOf(j) == IF j.pending THEN Undo[Steps[j.done + 1]]
             ELSE IF j.done > 0 THEN Undo[Steps[j.done]]
             ELSE <<>>

Undone(j) == IF j.pending THEN [j EXCEPT !.pending = FALSE]
             ELSE [j EXCEPT !.done = @ - 1]

RestoredCheckpoint(j) ==
    /\ ~j.committed
    /\ j.rolling
    /\ ~j.pending
    /\ j.done <= 3

Exit == /\ proc' = "idle"
        /\ todo' = <<>>
        /\ mem' = Fresh
        /\ plan' = 0

Init ==
    /\ work = "none" /\ disk = Fresh /\ mem = Fresh /\ record = 0 /\ plan = 0
    /\ proc = "idle" /\ todo = <<>>
    /\ fence = "none" /\ guards = {} /\ permit = FALSE
    /\ up = {"legacy"} /\ enabled = {"legacy"}
    /\ legacy = [state |-> "running", gen |-> 0] /\ current = "absent"
    /\ moved = {} /\ version = 0 /\ snap = 0 /\ drift = FALSE
    /\ client = "none"
    /\ faults = 0 /\ reboots = 0

-----------------------------------------------------------------------------
(* The commands of cli.rs.                                                  *)

\* --yes: preflight, then the transaction directory appears by one rename.
Stage ==
    /\ proc = "idle"
    /\ work = "none"
    /\ moved = {} /\ current = "absent" /\ legacy.state = "running"
    /\ fence = "none"
    /\ work' = "active"
    /\ Save(Fresh)
    /\ record' = legacy.gen
    /\ plan' = legacy.gen
    /\ proc' = "run" /\ todo' = <<>>
    /\ drift' = FALSE
    /\ UNCHANGED <<gateVars, unitVars, engineVars, moved, version, snap,
                   client, envVars>>

BeginStepUnsaved ==
    /\ proc = "run" /\ todo = <<>>
    /\ mem.done < Len(Steps)
    /\ mem' = [mem EXCEPT !.pending = TRUE]
    /\ proc' = "apply"
    /\ todo' = Apply[Steps[mem.done + 1]]
    /\ UNCHANGED <<work, disk, record, plan, hostVars, envVars>>

BeginStep ==
    /\ proc = "run" /\ todo = <<>>
    /\ mem.done < Len(Steps)
    /\ Save([mem EXCEPT !.pending = TRUE])
    /\ proc' = "apply"
    /\ todo' = Apply[Steps[mem.done + 1]]
    /\ UNCHANGED <<work, record, plan, hostVars, envVars>>

FinishStepPending ==
    /\ proc = "apply" /\ todo = <<>>
    /\ Save([mem EXCEPT !.done = @ + 1])
    /\ proc' = "run" /\ todo' = <<>>
    /\ UNCHANGED <<work, record, plan, hostVars, envVars>>

FinishStep ==
    /\ proc = "apply" /\ todo = <<>>
    /\ Save([mem EXCEPT !.done = @ + 1, !.pending = FALSE])
    /\ proc' = "run" /\ todo' = <<>>
    /\ UNCHANGED <<work, record, plan, hostVars, envVars>>

Commit ==
    /\ proc = "run" /\ todo = <<>>
    /\ mem.done = Len(Steps)
    /\ Save([mem EXCEPT !.committed = TRUE])
    /\ proc' = "open" /\ todo' = OpenTraffic
    /\ UNCHANGED <<work, record, plan, hostVars, envVars>>

\* opened.json.
Opened ==
    /\ proc = "open" /\ todo = <<>>
    /\ work' = "opened"
    /\ Exit
    /\ UNCHANGED <<disk, record, hostVars, envVars>>

\* --recover, with or without a signed approval of the replaced engine.
Recover(approved) ==
    /\ proc = "idle"
    /\ work # "none"
    /\ ~disk.committed
    /\ approved => /\ RestoredCheckpoint(disk)
                   /\ legacy.state = "running"
                   /\ legacy.gen > record
    /\ Save(disk)
    /\ plan' = IF approved THEN legacy.gen ELSE record
    /\ proc' = "refence" /\ todo' = RestoreFence
    /\ UNCHANGED <<work, record, hostVars, envVars>>

BeginRollback ==
    /\ proc = "refence" /\ todo = <<>>
    /\ ~mem.committed
    /\ Save([mem EXCEPT !.rolling = TRUE])
    /\ proc' = "undo" /\ todo' = UndoOf(mem)
    /\ UNCHANGED <<work, record, plan, hostVars, envVars>>

UndoneStep ==
    /\ proc = "undo" /\ todo = <<>>
    /\ Outstanding(mem)
    /\ Save(Undone(mem))
    /\ todo' = UndoOf(mem')
    /\ UNCHANGED <<work, record, plan, proc, hostVars, envVars>>

RolledBack ==
    /\ proc = "undo" /\ todo = <<>>
    /\ ~Outstanding(mem)
    /\ Save([mem EXCEPT !.rolling = FALSE])
    /\ proc' = "archive" /\ todo' = <<>>
    /\ UNCHANGED <<work, record, plan, hostVars, envVars>>

Archive ==
    /\ proc = "archive"
    /\ work' = "none"
    /\ disk' = Fresh
    /\ record' = 0
    /\ Exit
    /\ UNCHANGED <<hostVars, envVars>>

ResumeAnew ==
    /\ proc = "idle"
    /\ work = "active"
    /\ disk.committed
    /\ Save(Fresh)
    /\ plan' = record
    /\ proc' = "reopen" /\ todo' = RestoreFence \o <<"StartNew">>
    /\ UNCHANGED <<work, record, hostVars, envVars>>

\* --resume: fence again, start the current services, open traffic.
Resume ==
    /\ proc = "idle"
    /\ work = "active"
    /\ disk.committed
    /\ Save(disk)
    /\ plan' = record
    /\ proc' = "reopen" /\ todo' = RestoreFence \o <<"StartNew">>
    /\ UNCHANGED <<work, record, hostVars, envVars>>

BeginOpening ==
    /\ proc = "reopen" /\ todo = <<>>
    /\ proc' = "open" /\ todo' = OpenTraffic
    /\ UNCHANGED <<journalVars, hostVars, envVars>>

-----------------------------------------------------------------------------
(* The host actions the programs are made of.                               *)

Do(action) == /\ todo # <<>>
              /\ Head(todo) = action
              /\ todo' = Tail(todo)
              /\ UNCHANGED <<journalVars, proc, envVars>>

\* The first item of an order that is still in S, as the loops of storage.rs,
\* publication.rs and fence.rs find it.
FirstOf(order, S) ==
    order[CHOOSE i \in 1 .. Len(order) :
            /\ order[i] \in S
            /\ \A j \in 1 .. i - 1 : order[j] \notin S]

LegacyReady  == /\ "legacy" \in up
                /\ legacy.state = "running"
                /\ legacy.gen = plan
CurrentReady == "current" \in up /\ current = "ready"

\* Checks: they change nothing, and end the process when they fail.
CheckPasses(action) ==
    CASE action = "RequireUnfenced" -> fence = "none"
      [] action = "AwaitDrained"    -> client = "none"
      [] action = "VerifySources"   -> ~drift
      [] action = "LegacyHealthy"   -> LegacyReady
      [] action = "CurrentHealthy"  -> CurrentReady
      [] action = "Measure"         -> TRUE
      [] OTHER                      -> FALSE

Check ==
    /\ todo # <<>>
    /\ CheckPasses(Head(todo))
    /\ todo' = Tail(todo)
    /\ UNCHANGED <<journalVars, proc, hostVars, envVars>>

\* A check that fails, a deadline that expires, a measurement that regressed.
Refuse ==
    /\ todo # <<>>
    /\ \/ /\ Head(todo) \in {"RequireUnfenced", "AwaitDrained", "VerifySources",
                             "LegacyHealthy", "CurrentHealthy"}
          /\ ~CheckPasses(Head(todo))
       \/ Head(todo) = "Measure"
       \/ /\ Head(todo) = "RemoveEngine"
          /\ legacy.state # "removed"
          /\ legacy.gen # plan
    /\ Exit
    /\ UNCHANGED <<work, disk, record, hostVars, envVars>>

\* One guard file at a time, legacy units first.
GuardOrder == <<"legacy", "current">>

InstallGuard ==
    /\ todo # <<>> /\ Head(todo) = "InstallGuards"
    /\ guards # Units
    /\ guards' = guards \union {FirstOf(GuardOrder, Units \ guards)}
    /\ UNCHANGED <<journalVars, procVars, fence, permit, unitVars, engineVars,
                   dataVars, client, envVars>>

RemoveGuard ==
    /\ todo # <<>> /\ Head(todo) = "RemoveGuards"
    /\ guards # {}
    /\ guards' = guards \ {FirstOf(GuardOrder, guards)}
    /\ UNCHANGED <<journalVars, procVars, fence, permit, unitVars, engineVars,
                   dataVars, client, envVars>>

GuardsDone ==
    /\ \/ Do("InstallGuards") /\ guards = Units
       \/ Do("RemoveGuards") /\ guards = {}
    /\ UNCHANGED hostVars

\* Fence rejects new connections; Seal rejects the established ones too.
SetFence ==
    /\ \/ Do("Fence") /\ fence' = "new"
       \/ Do("EnsureFence") /\ fence' = IF fence = "none" THEN "new" ELSE fence
       \/ Do("Unfence") /\ fence' = "none"
    /\ UNCHANGED <<guards, permit, unitVars, engineVars, dataVars, client>>

Seal ==
    /\ Do("Seal")
    /\ fence' = "sealed"
    /\ client' = "none"
    /\ UNCHANGED <<guards, permit, unitVars, engineVars, dataVars>>

SetPermit ==
    /\ \/ Do("Permit") /\ permit' = TRUE
       \/ Do("Unpermit") /\ permit' = FALSE
    /\ UNCHANGED <<fence, guards, unitVars, engineVars, dataVars, client>>

\* systemd starts a guarded unit only when the permit exists.
MayStart(u) == u \notin guards \/ permit

StartUnits(action, u) ==
    /\ Do(action)
    /\ up' = IF MayStart(u) THEN up \union {u} ELSE up
    /\ UNCHANGED <<gateVars, enabled, engineVars, dataVars, client>>

StopUnits(action, u) ==
    /\ Do(action)
    /\ up' = up \ {u}
    /\ client' = IF client = u THEN "none" ELSE client
    /\ UNCHANGED <<gateVars, enabled, engineVars, dataVars>>

SetEnabled ==
    /\ \/ Do("DisableOld") /\ enabled' = enabled \ {"legacy"}
       \/ Do("EnableNew") /\ enabled' = enabled \union {"current"}
    /\ UNCHANGED <<gateVars, up, engineVars, dataVars, client>>

\* Storage::prepare stages the candidate database from the legacy one.
Prepare ==
    /\ Do("Prepare")
    /\ snap' = version
    /\ UNCHANGED <<gateVars, unitVars, engineVars, moved, version, drift, client>>

\* Docker actions are bound to the container of the plan.
StopEngine ==
    /\ Do("StopEngine")
    /\ legacy' = IF legacy.state = "running" /\ legacy.gen = plan
                 THEN [legacy EXCEPT !.state = "stopped"] ELSE legacy
    /\ UNCHANGED <<gateVars, unitVars, current, dataVars, client>>

RestoreEngine ==
    /\ Do("RestoreEngine")
    /\ legacy' = IF legacy.state = "stopped" /\ legacy.gen = plan
                 THEN [legacy EXCEPT !.state = "running"] ELSE legacy
    /\ UNCHANGED <<gateVars, unitVars, current, dataVars, client>>

RemoveEngine ==
    /\ Do("RemoveEngine")
    /\ legacy.state = "removed" \/ legacy.gen = plan
    /\ legacy' = [legacy EXCEPT !.state = "removed"]
    /\ UNCHANGED <<gateVars, unitVars, current, dataVars, client>>

RemoveCurrent ==
    /\ Do("RemoveCurrent")
    /\ current' = "absent"
    /\ UNCHANGED <<gateVars, unitVars, legacy, dataVars, client>>

\* Relocate moves one group at a time and puts one back at a time.
MoveItem ==
    /\ todo # <<>> /\ Head(todo) = "Move"
    /\ moved # Items
    /\ moved' = moved \union {FirstOf(ActivateOrder, Items \ moved)}
    /\ UNCHANGED <<journalVars, procVars, gateVars, unitVars, engineVars,
                   version, snap, drift, client, envVars>>

RestoreItem ==
    /\ todo # <<>> /\ Head(todo) = "Restore"
    /\ moved # {}
    /\ moved' = moved \ {FirstOf(RestoreOrder, moved)}
    /\ UNCHANGED <<journalVars, procVars, gateVars, unitVars, engineVars,
                   version, snap, drift, client, envVars>>

MovesDone ==
    /\ \/ Do("Move") /\ moved = Items
       \/ Do("Restore") /\ moved = {}
    /\ UNCHANGED hostVars

-----------------------------------------------------------------------------
(* Faults and the outside world.                                            *)

Die ==
    /\ proc # "idle"
    /\ faults < MaxFaults
    /\ faults' = faults + 1
    /\ Exit
    /\ UNCHANGED <<work, disk, record, hostVars, reboots>>

\* The fence and the permit are volatile; the guards, the enablement and the
\* files are not.  A legacy engine with the restart policy "no" stays down.
Reboot ==
    /\ reboots < MaxReboots
    /\ reboots' = reboots + 1
    /\ Exit
    /\ fence' = "none"
    /\ permit' = FALSE
    /\ up' = enabled \ guards
    /\ \E policy \in RestartPolicies :
         legacy' = IF legacy.state = "running" /\ policy = "no"
                   THEN [legacy EXCEPT !.state = "stopped"] ELSE legacy
    /\ current' = IF current = "starting" THEN "stopped" ELSE current
    /\ client' = "none"
    /\ UNCHANGED <<work, disk, record, guards, enabled, dataVars, faults>>

\* The legacy agent replaces an absent engine with a new generation.
LegacyReplacesEngine ==
    /\ "legacy" \in up
    /\ legacy.state = "removed"
    /\ legacy.gen < MaxGeneration
    /\ legacy' = [state |-> "running", gen |-> legacy.gen + 1]
    /\ drift' = TRUE
    /\ UNCHANGED <<journalVars, procVars, gateVars, unitVars, current, moved,
                   version, snap, client, envVars>>

CurrentStartsEngine ==
    /\ "current" \in up
    /\ \/ current = "absent" /\ current' = "starting"
       \/ current = "starting" /\ current' = "ready"
    /\ UNCHANGED <<journalVars, procVars, gateVars, unitVars, legacy, dataVars,
                   client, envVars>>

LegacyWrites ==
    /\ "legacy" \in up
    /\ version < MaxWrites
    /\ version' = version + 1
    /\ drift' \in IF client = "legacy" THEN {drift, TRUE} ELSE {drift}
    /\ UNCHANGED <<journalVars, procVars, gateVars, unitVars, engineVars, moved,
                   snap, client, envVars>>

ClientConnects(u) ==
    /\ client = "none"
    /\ u \in up
    /\ fence = "none"
    /\ client' = u
    /\ UNCHANGED <<journalVars, procVars, gateVars, unitVars, engineVars, dataVars,
                   envVars>>

ClientLeaves ==
    /\ client # "none"
    /\ client' = "none"
    /\ UNCHANGED <<journalVars, procVars, gateVars, unitVars, engineVars, dataVars,
                   envVars>>

-----------------------------------------------------------------------------
HostAction ==
    \/ Check \/ InstallGuard \/ RemoveGuard \/ GuardsDone \/ SetFence \/ Seal
    \/ SetPermit \/ StartUnits("StartOld", "legacy") \/ StartUnits("StartNew", "current")
    \/ StopUnits("StopOld", "legacy") \/ StopUnits("StopNew", "current") \/ SetEnabled
    \/ Prepare \/ StopEngine \/ RestoreEngine \/ RemoveEngine \/ RemoveCurrent
    \/ MoveItem \/ RestoreItem \/ MovesDone

JournalAction ==
    \/ BeginStep \/ FinishStep \/ Commit \/ Opened \/ BeginRollback \/ UndoneStep
    \/ RolledBack \/ Archive \/ BeginOpening

Command == Stage \/ (\E approved \in BOOLEAN : Recover(approved)) \/ Resume

Environment ==
    \/ Die \/ Reboot \/ LegacyReplacesEngine \/ CurrentStartsEngine \/ LegacyWrites
    \/ (\E u \in Units : ClientConnects(u)) \/ ClientLeaves

Next == HostAction \/ JournalAction \/ Refuse \/ Command \/ Environment

Spec == Init /\ [][Next]_vars

\* A running process goes on, an operator recovers or resumes what is
\* unfinished and has the replaced engine approved when that is possible, and
\* each agent brings up the engine it wants.  Nothing is assumed of staging,
\* clients, deaths and reboots.
FairSpec ==
    /\ Spec
    /\ WF_vars(HostAction \/ JournalAction \/ Refuse)
    /\ WF_vars(Recover(FALSE))
    /\ SF_vars(Recover(TRUE))
    /\ WF_vars(Resume)
    /\ WF_vars(LegacyReplacesEngine)
    /\ WF_vars(CurrentStartsEngine)

-----------------------------------------------------------------------------
(* Properties.                                                              *)

TypeOK ==
    /\ work \in {"none", "active", "opened"}
    /\ disk \in Journal /\ mem \in Journal
    /\ proc \in {"idle", "run", "apply", "open", "refence", "reopen", "undo", "archive"}
    /\ todo \in Seq(ActionNames)
    /\ record \in 0 .. MaxGeneration /\ plan \in 0 .. MaxGeneration
    /\ fence \in {"none", "new", "sealed"}
    /\ guards \subseteq Units /\ permit \in BOOLEAN
    /\ up \subseteq Units /\ enabled \subseteq Units
    /\ legacy \in [state : {"running", "stopped", "removed"}, gen : 0 .. MaxGeneration]
    /\ current \in {"absent", "starting", "ready", "stopped"}
    /\ moved \subseteq Items
    /\ version \in 0 .. MaxWrites /\ snap \in 0 .. MaxWrites /\ drift \in BOOLEAN
    /\ client \in Units \union {"none"}
    /\ faults \in 0 .. MaxFaults /\ reboots \in 0 .. MaxReboots

StepNo(s) == CHOOSE i \in 1 .. Len(Steps) : Steps[i] = s

\* The journal on disk says that step s was begun and not undone.
Begun(s) == disk.done + (IF disk.pending THEN 1 ELSE 0) >= StepNo(s)

\* "An unfinished action must be recovered, never skipped" (journal.rs): what a
\* step does to the host is found there only while the durable journal names
\* the step, so recovery reaches it whatever interrupted the process.
EffectsAreJournaled ==
    /\ moved # {} => Begun("Relocate")
    /\ "current" \in up \/ current # "absent" => Begun("Activate")
    /\ legacy.state = "removed" => Begun("StopLegacyServices")
    /\ enabled # {"legacy"} => disk.committed

\* A control plane runs only on its own complete layout: never the legacy
\* services over a half-moved data directory, never the current ones before the
\* last item is in place, and never both at once, reboots included.
ServicesMatchLayout ==
    /\ "legacy" \in up => moved = {}
    /\ "current" \in up => moved = Items

\* The two appliances share one machine's memory: their engines never run at
\* the same time.
OneEngine == ~(legacy.state = "running" /\ current \in {"starting", "ready"})

\* The host is one appliance at a time, its services and its engine.
OneAppliance == ServicesMatchLayout /\ OneEngine

\* Commit keeps every write of the legacy agent: the candidate database was
\* staged after the last of them.
CommitKeepsEveryWrite == disk.committed => snap = version

\* Whatever interrupted the process, the
\* validation of Journal::open accepts the record found on disk.
JournalReadable ==
    /\ disk.pending => disk.done < Len(Steps)
    /\ disk.committed => /\ disk.done = Len(Steps)
                         /\ ~disk.pending
                         /\ ~disk.rolling

\* The journal can be read, and names every effect found on the host.
JournalIsFaithful == JournalReadable /\ EffectsAreJournaled

\* "committed migrations cannot restore stale state" (Journal::recover): once
\* the commit is durable it stays so, and no later command, death or reboot
\* moves a file of the current layout back.
CommitIsFinal ==
    [][disk.committed => disk'.committed /\ moved' = moved]_vars

\* A recovery that reports success (the transaction directory archived by
\* --recover) has put the legacy appliance's files, accounts and boot
\* configuration back and left nothing of the current one.
ArchivedIsRestored ==
    [][work # "none" /\ work' = "none" =>
         /\ moved = {}
         /\ current = "absent"
         /\ "current" \notin up
         /\ enabled = {"legacy"}]_vars

Outside == INSTANCE Cutover WITH
    Legacy <- "legacy", Current <- "current",
    open <- {u \in up : fence = "none"},
    decided <- disk.committed

\* What outside clients see is a one-way cutover (Cutover): the door closes
\* before the decision, and after it opens only to the current appliance.
ImplementsCutover == Outside!Spec

\* "Restore an interrupted pre-commit transaction" and "Finish opening traffic
\* after a committed transaction" (cli.rs): every staged transaction is
\* eventually archived or opened.
Settles == work = "active" ~> work # "active"

\* The same of a host that is not rebooted, whatever interrupts the process
\* itself (journal.rs recover, cli.rs --resume).
SettlesWithoutReboot == [](reboots = 0) => Settles

\* What tests/migration_host.rs asserts after a recovery: with no transaction
\* in progress the appliance is neither fenced nor guarded.
RecoveredIsUnfenced == work = "none" => fence = "none" /\ guards = {}
=============================================================================
