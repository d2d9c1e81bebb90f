-------------------------- MODULE InstanceLifecycle --------------------------
(***************************************************************************)
(* The lifecycle of one managed instance: the HTTP handlers and background *)
(* tasks of the agent (agent.rs), the durable instance row and operations  *)
(* (state.rs), the reconciliation pass (agent.rs, reconcile.rs) and the    *)
(* containers the root executor drives through Docker (executor.rs).       *)
(*                                                                         *)
(* Every await of a task is a step boundary.  The agent may be killed at   *)
(* any of them: tasks, routes and the admission lease are lost, the row,   *)
(* the operations and the containers stay, and an executor call that was   *)
(* in flight still runs to its end, because the executor does not watch    *)
(* the connection while a handler runs.                                    *)
(***************************************************************************)
EXTENDS Operations, Integers, Sequences, FiniteSets

CONSTANTS
  Serve, Stop, Cancel,   \* one task identifier per HTTP request of each kind
  RestartLimit,          \* RESTART_FAILURE_LIMIT
  MaxGen,                \* bound on generations (u64 in the code)
  MaxFaults              \* bound on crashes, failed calls and engine deaths

ASSUME LifecycleAssumption ==
  /\ RestartLimit \in Nat \ {0} /\ MaxGen \in Nat \ {0} /\ MaxFaults \in Nat
  /\ Serve \intersect Stop = {} /\ Serve \intersect Cancel = {} /\ Stop \intersect Cancel = {}
  /\ "none" \notin Serve \union Stop \union Cancel
  /\ "reconciler" \notin Serve \union Stop \union Cancel

VARIABLES
  row,      \* the instance row; gen = 0 while there is none
  ops,      \* the operations on this instance, oldest first
  ctr,      \* the container of each generation
  route,    \* the RouteRegistry entry of the instance
  lease,    \* the holder of the high-memory transition lease
  task,     \* the handlers and the tasks they spawn
  rec,      \* the reconciliation loop and its snapshots
  phase,    \* "import", "tail", "reconcile" during startup, then "up" or "degraded"
  orphans,  \* executor calls that outlived the agent that made them
  journal,  \* emergency records of the root executor, by generation
  probed,   \* <<generation, process>> that passed the semantic probe (history)
  faults    \* faults so far

vars == <<row, ops, ctr, route, lease, task, rec, phase, orphans, journal, probed, faults>>

Gen == 1 .. MaxGen
Task == Serve \union Stop \union Cancel

Observed == {"absent", "creating", "healthy", "degraded", "failed", "stopping"}

\* The healthy flag and the endpoint of the row are written together with
\* observed by every writer: both hold exactly when observed = "healthy".
NoInstance == [gen |-> 0, desired |-> "stopped", observed |-> "absent",
               failures |-> 0, suppressed |-> FALSE, quarantine |-> FALSE]
NoContainer == [st |-> "none", auto |-> FALSE, proc |-> 0]
NoRoute == [st |-> "none", gen |-> 0, proc |-> 0]
NewTask == [pc |-> "new", op |-> 0, gen |-> 0, proc |-> 0]
IdleRec == [pc |-> "idle", row |-> NoInstance, seen |-> NoContainer,
            ops |-> <<>>, kind |-> "none", op |-> 0]

Init ==
  /\ row = NoInstance
  /\ ops = <<>>
  /\ ctr = [g \in Gen |-> NoContainer]
  /\ route = NoRoute
  /\ lease = "none"
  /\ task = [t \in Task |-> NewTask]
  /\ rec = IdleRec
  /\ phase = "up"
  /\ orphans = {}
  /\ journal = [g \in Gen |-> "none"]
  /\ probed = {}
  /\ faults = 0

-----------------------------------------------------------------------------
(* The row commands of state.rs, one transaction each.                      *)

\* begin_serve, for a row that is not running or is suppressed.
BegunRow(r) ==
  [NoInstance EXCEPT !.gen = r.gen + 1, !.desired = "running", !.observed = "creating"]

\* Mutant: a healthy observation restores the running intent.
ObservedRowRevives(r, o) ==
  IF o = "healthy"
  THEN [r EXCEPT !.observed = o, !.desired = "running", !.failures = 0, !.suppressed = FALSE]
  ELSE [r EXCEPT !.observed = o]

\* set_instance_observed, for a row of the caller's generation.
ObservedRow(r, o) ==
  IF o = "healthy"
  THEN [r EXCEPT !.observed = o, !.failures = 0, !.suppressed = FALSE]
  ELSE [r EXCEPT !.observed = o]

\* begin_stop: acts on the current row, whatever its generation.
StoppingRow(r) ==
  IF r.gen = 0 THEN r
  ELSE [r EXCEPT !.desired = "stopped",
                 !.observed = IF @ = "absent" THEN @ ELSE "stopping"]

\* record_restart_failure: n failures of this generation are in the window.
FailedRow(r, n) ==
  [r EXCEPT !.failures = n, !.suppressed = n >= RestartLimit,
            !.observed = IF n >= RestartLimit THEN "failed" ELSE "degraded"]

\* mark_quarantine
QuarantinedRow(r) == [r EXCEPT !.quarantine = TRUE, !.observed = "failed"]

\* import_emergency, for a record of the current generation.
SuppressedRow(r) == [r EXCEPT !.observed = "failed", !.suppressed = TRUE]

SetObserved(g, o) == row' = IF row.gen = g THEN ObservedRow(row, o) ELSE row

-----------------------------------------------------------------------------
(* Operations: accept_operation and transition.                             *)

\* gen and reused are history: the generation the operation began, stopped or
\* reused, 0 while it has none.
NewOp(kind) == [kind |-> kind, st |-> "accepted", gen |-> 0, reused |-> FALSE]
Move(i, next) == ops' = [ops EXCEPT ![i].st = TransitionTo(@, next)]
OpCancelled(t) == ops[task[t].op].st = "cancelled"

(* RouteRegistry: mark_warming and publish replace the entry whatever it    *)
(* is, drain removes it only when the generation matches.                   *)
MarkWarming(g) == route' = [st |-> "warming", gen |-> g, proc |-> 0]
Publish(g, p) == route' = [st |-> "healthy", gen |-> g, proc |-> p]
Drain(g) == route' = IF route.gen = g THEN NoRoute ELSE route

(* TransitionLease: dropping a lease clears the holder only if it is ours.  *)
Release(t) == lease' = IF lease = t THEN "none" ELSE lease

-----------------------------------------------------------------------------
(* The executor's calls.  A fault is a call that answers with an error      *)
(* (Docker, the protocol or a deadline) and may leave part of its effect.   *)

Fault == faults < MaxFaults /\ faults' = faults + 1
NoFault == UNCHANGED faults

Started(c) == [st |-> "running", auto |-> FALSE, proc |-> c.proc + 1]
Removed(c) == [c EXCEPT !.st = "none", !.auto = FALSE]
Halted(c) == [c EXCEPT !.st = "exited", !.auto = FALSE]

\* start: create under the unique name of the generation, then start.
StartOk(g) == ctr[g].st = "none" /\ ctr' = [ctr EXCEPT ![g] = Started(@)] /\ NoFault
StartErr(g) ==
  \/ ctr[g].st # "none" /\ UNCHANGED ctr /\ NoFault
  \/ ctr[g].st = "none" /\ Fault /\ (UNCHANGED ctr \/ ctr' = [ctr EXCEPT ![g] = Started(@)])

\* stop: restart policy off, docker stop, remove; a missing container is Ok.
StopOk(g) == ctr' = [ctr EXCEPT ![g] = Removed(@)] /\ NoFault
StopErr(g) ==
  /\ Fault
  /\ \/ UNCHANGED ctr
     \/ ctr[g].st # "none" /\ \E c \in {Halted(ctr[g]), Removed(ctr[g])} : ctr' = [ctr EXCEPT ![g] = c]

\* promote_restart and disable_restart
PromoteOk(g) == ctr[g].st # "none" /\ ctr' = [ctr EXCEPT ![g].auto = TRUE] /\ NoFault
PromoteErr(g) ==
  \/ ctr[g].st = "none" /\ UNCHANGED ctr /\ NoFault
  \/ ctr[g].st # "none" /\ Fault /\ (UNCHANGED ctr \/ ctr' = [ctr EXCEPT ![g].auto = TRUE])
Disabled(g) == IF ctr[g].st = "none" THEN ctr ELSE [ctr EXCEPT ![g].auto = FALSE]

\* reconcile_scan for the expected generation (0: none): any other managed
\* container loses its restart policy and is reported as evidence; it is
\* neither stopped nor removed.
Unexpected(exp) == { g \in Gen : ctr[g].st # "none" /\ g # exp }
Scanned(exp) ==
  [g \in Gen |-> IF g \in Unexpected(exp) THEN [ctr[g] EXCEPT !.auto = FALSE] ELSE ctr[g]]
Expected(r) == IF r.desired = "running" THEN r.gen ELSE 0

\* reconcile_quarantine clears the mark of a row whose evidence is gone; then
\* mark_quarantine runs if the lease is free.
ScannedRow(exp) ==
  LET evidence == Unexpected(exp)
      cleared == [row EXCEPT !.quarantine = @ /\ row.gen \in evidence]
  IN IF lease = "none" /\ row.gen \in evidence THEN QuarantinedRow(cleared) ELSE cleared

-----------------------------------------------------------------------------
(* serve_instance: the handler.  A request that admission or the lease      *)
(* rejects changes nothing and is not a step.                               *)

Goto(t, pc) == task' = [task EXCEPT ![t].pc = pc]
At(t, pc) == task[t].pc = pc
Finish(t) == Goto(t, "done") /\ Release(t)

ServeAcquire(t) ==
  /\ At(t, "new") /\ phase = "up" /\ lease = "none"
  /\ lease' = t
  /\ Goto(t, "accept")
  /\ UNCHANGED <<row, ops, ctr, route, rec, phase, orphans, journal, probed, faults>>

ServeAccept(t) ==
  /\ At(t, "accept")
  /\ ops' = Append(ops, NewOp("serve"))
  /\ task' = [task EXCEPT ![t].pc = "begin", ![t].op = Len(ops) + 1]
  /\ UNCHANGED <<row, ctr, route, lease, rec, phase, orphans, journal, probed, faults>>

\* begin_serve: a new generation.
ServeBegin(t) ==
  /\ At(t, "begin")
  /\ row.gen < MaxGen
  /\ row.desired = "stopped" \/ row.suppressed
  /\ row' = BegunRow(row)
  /\ task' = [task EXCEPT ![t].pc = "spawn", ![t].gen = row.gen + 1]
  /\ ops' = [ops EXCEPT ![task[t].op].gen = row.gen + 1]
  /\ UNCHANGED <<ctr, route, lease, rec, phase, orphans, journal, probed, faults>>

\* begin_serve: the running instance has the requested identity and is reused
\* (complete_reused_serve), or it has not, and the operation stays accepted.
ServeReuse(t) ==
  /\ At(t, "begin")
  /\ row.desired = "running" /\ ~ row.suppressed
  /\ Goto(t, "reuse")
  /\ ops' = [ops EXCEPT ![task[t].op].gen = row.gen, ![task[t].op].reused = TRUE]
  /\ UNCHANGED <<row, ctr, route, lease, rec, phase, orphans, journal, probed, faults>>

\* complete_reused_serve: two transitions whose answers are ignored.
ServeReused(t) ==
  /\ \/ At(t, "reuse") /\ Move(task[t].op, "running") /\ Goto(t, "reused") /\ UNCHANGED lease
     \/ At(t, "reused") /\ Move(task[t].op, "succeeded") /\ Finish(t)
  /\ UNCHANGED <<row, ctr, route, rec, phase, orphans, journal, probed, faults>>

ServeConflict(t) ==
  /\ At(t, "begin")
  /\ row.desired = "running" /\ ~ row.suppressed
  /\ Finish(t)
  /\ UNCHANGED <<row, ops, ctr, route, rec, phase, orphans, journal, probed, faults>>

\* Mutant: the lease ends with the handler instead of moving to the task.
ServeSpawnDropsLease(t) ==
  /\ At(t, "spawn")
  /\ MarkWarming(task[t].gen)
  /\ Goto(t, "claim")
  /\ Release(t)
  /\ UNCHANGED <<row, ops, ctr, rec, phase, orphans, journal, probed, faults>>

ServeSpawn(t) ==
  /\ At(t, "spawn")
  /\ MarkWarming(task[t].gen)
  /\ Goto(t, "claim")
  /\ UNCHANGED <<row, ops, ctr, lease, rec, phase, orphans, journal, probed, faults>>

\* The client disconnects and the handler is dropped at one of its awaits.
HandlerDropped(t) ==
  /\ \/ t \in Serve /\ task[t].pc \in {"accept", "begin", "reuse", "reused", "spawn"}
     \/ t \in Stop /\ task[t].pc \in {"begin", "absent", "settle", "drain"}
     \/ t \in Cancel /\ task[t].pc \in {"commit", "read"}
  /\ Fault
  /\ Finish(t)
  /\ UNCHANGED <<row, ops, ctr, route, rec, phase, orphans, journal, probed>>

-----------------------------------------------------------------------------
(* run_serve                                                                *)

\* The two transitions to Running; an operation that was cancelled or settled
\* meanwhile answers Conflict and the task returns without a cleanup.
ServeClaim(t) ==
  \E next \in {<<"claim", "check1">>, <<"create", "start">>} :
    /\ At(t, next[1])
    /\ Move(task[t].op, "running")
    /\ IF LegalTransition(ops[task[t].op].st, "running")
       THEN Goto(t, next[2]) /\ UNCHANGED lease
       ELSE Finish(t)
    /\ UNCHANGED <<row, ctr, route, rec, phase, orphans, journal, probed, faults>>

\* serve_cancelled, between the stages.
ServeCheck(t) ==
  \E next \in {<<"check1", "prepare">>, <<"check2", "create">>,
                <<"check3", "wait">>, <<"check4", "promote">>} :
    /\ At(t, next[1])
    /\ Goto(t, IF OpCancelled(t) THEN "undo1" ELSE next[2])
    /\ UNCHANGED <<row, ops, ctr, route, lease, rec, phase, orphans, journal, probed, faults>>

ServePrepare(t) ==
  /\ At(t, "prepare")
  /\ \/ Goto(t, "check2") /\ NoFault
     \/ Goto(t, "fail1") /\ Fault
  /\ UNCHANGED <<row, ops, ctr, route, lease, rec, phase, orphans, journal, probed>>

ServeStart(t) ==
  /\ At(t, "start") /\ t \in Serve
  /\ \/ /\ StartOk(task[t].gen)
        /\ task' = [task EXCEPT ![t].pc = "check3", ![t].proc = ctr[task[t].gen].proc + 1]
     \/ StartErr(task[t].gen) /\ Goto(t, "fail1")
  /\ UNCHANGED <<row, ops, route, lease, rec, phase, orphans, journal, probed>>

ProcessUp(g, p) == ctr[g].st = "running" /\ ctr[g].proc = p

\* wait_until_engine_ready with its ReadinessInterrupt; proc = 0: not ready.
ServeWait(t) ==
  /\ At(t, "wait")
  /\ LET g == task[t].gen IN
     \/ ProcessUp(g, task[t].proc) /\ NoFault /\ Goto(t, "stopped")
     \/ /\ \/ /\ OpCancelled(t) \/ row.desired = "stopped" \/ ~ ProcessUp(g, task[t].proc)
              /\ NoFault
           \/ Fault
        /\ task' = [task EXCEPT ![t].pc = "stopped", ![t].proc = 0]
  /\ UNCHANGED <<row, ops, ctr, route, lease, rec, phase, orphans, journal, probed>>

\* instance_stopped: the task returns and leaves the rest to the stop.
ServeStopped(t) ==
  /\ At(t, "stopped")
  /\ IF row.desired = "stopped" THEN Finish(t) ELSE Goto(t, "ready") /\ UNCHANGED lease
  /\ UNCHANGED <<row, ops, ctr, route, rec, phase, orphans, journal, probed, faults>>

\* operation_cancelled, then the readiness verdict.
ServeReady(t) ==
  /\ At(t, "ready")
  /\ Goto(t, IF OpCancelled(t) THEN "undo1"
             ELSE IF task[t].proc = 0 THEN "fail1" ELSE "probe")
  /\ UNCHANGED <<row, ops, ctr, route, lease, rec, phase, orphans, journal, probed, faults>>

ServeProbe(t) ==
  /\ At(t, "probe") /\ t \in Serve
  /\ LET g == task[t].gen  up == ProcessUp(g, task[t].proc) IN
     \/ up /\ NoFault /\ probed' = probed \union {<<g, task[t].proc>>} /\ Goto(t, "check4")
     \/ ((~ up /\ NoFault) \/ Fault) /\ UNCHANGED probed /\ Goto(t, "fail1")
  /\ UNCHANGED <<row, ops, ctr, route, lease, rec, phase, orphans, journal>>

ServePromote(t) ==
  /\ At(t, "promote") /\ t \in Serve
  /\ \/ PromoteOk(task[t].gen) /\ Goto(t, "healthy")
     \/ PromoteErr(task[t].gen) /\ Goto(t, "fail1")
  /\ UNCHANGED <<row, ops, route, lease, rec, phase, orphans, journal, probed>>

ServeHealthy(t) ==
  /\ At(t, "healthy")
  /\ SetObserved(task[t].gen, "healthy")
  /\ Goto(t, IF row.gen = task[t].gen THEN "publish" ELSE "fail1")
  /\ UNCHANGED <<ops, ctr, route, lease, rec, phase, orphans, journal, probed, faults>>

ServePublish(t) ==
  /\ At(t, "publish")
  /\ Publish(task[t].gen, task[t].proc)
  /\ Goto(t, "succeed")
  /\ UNCHANGED <<row, ops, ctr, lease, rec, phase, orphans, journal, probed, faults>>

ServeSucceed(t) ==
  /\ At(t, "succeed")
  /\ Move(task[t].op, "succeeded")
  /\ Goto(t, "list")
  /\ UNCHANGED <<row, ctr, route, lease, rec, phase, orphans, journal, probed, faults>>

\* The closing reconcile_once runs under the task's own lease: it lists, scans
\* and re-evaluates the quarantine, and every lease it asks for is busy.
ServeList(t) ==
  /\ At(t, "list")
  /\ task' = [task EXCEPT ![t].pc = "scan", ![t].gen = Expected(row)]
  /\ UNCHANGED <<row, ops, ctr, route, lease, rec, phase, orphans, journal, probed, faults>>

ServeScan(t) ==
  /\ At(t, "scan")
  /\ \/ ctr' = Scanned(task[t].gen) /\ row' = ScannedRow(task[t].gen) /\ NoFault
     \/ UNCHANGED <<ctr, row>> /\ Fault
  /\ Finish(t)
  /\ UNCHANGED <<ops, route, rec, phase, orphans, journal, probed>>

-----------------------------------------------------------------------------
(* fail_serve: drain, stop the generation, begin_stop, record the failure.  *)
FailDrain(t) ==
  /\ At(t, "fail1")
  /\ Drain(task[t].gen)
  /\ Goto(t, "fail2")
  /\ UNCHANGED <<row, ops, ctr, lease, rec, phase, orphans, journal, probed, faults>>

(* cancel_prehealth_serve, by run_serve or spawned by the cancel handler:   *)
(* begin_stop, stop the generation, mark it absent.  Errors are ignored.    *)
CleanupStop(t) ==
  \E next \in {<<"fail2", "fail3">>, <<"undo2", "undo3">>} :
    /\ At(t, next[1])
    /\ StopOk(task[t].gen) \/ StopErr(task[t].gen)
    /\ Goto(t, next[2])
    /\ UNCHANGED <<row, ops, route, lease, rec, phase, orphans, journal, probed>>

\* Mutant: fail_serve stops the container and keeps the intent.
CleanupIntentKept(t) ==
  \E next \in {<<"fail3", "fail4">>, <<"undo1", "undo2">>} :
    /\ At(t, next[1])
    /\ row' = IF next[1] = "fail3" THEN row ELSE StoppingRow(row)
    /\ Goto(t, next[2])
    /\ UNCHANGED <<ops, ctr, route, lease, rec, phase, orphans, journal, probed, faults>>

CleanupIntent(t) ==
  \E next \in {<<"fail3", "fail4">>, <<"undo1", "undo2">>} :
    /\ At(t, next[1])
    /\ row' = StoppingRow(row)
    /\ Goto(t, next[2])
    /\ UNCHANGED <<ops, ctr, route, lease, rec, phase, orphans, journal, probed, faults>>

FailDone(t) ==
  /\ \/ /\ At(t, "fail4") /\ SetObserved(task[t].gen, "failed")
        /\ Goto(t, "fail5") /\ UNCHANGED <<ops, lease>>
     \/ At(t, "fail5") /\ Move(task[t].op, "failed") /\ Finish(t) /\ UNCHANGED row
  /\ UNCHANGED <<ctr, route, rec, phase, orphans, journal, probed, faults>>

UndoDone(t) ==
  /\ At(t, "undo3")
  /\ SetObserved(task[t].gen, "absent")
  /\ Finish(t)
  /\ UNCHANGED <<ops, ctr, route, rec, phase, orphans, journal, probed, faults>>

-----------------------------------------------------------------------------
(* stop_instance and run_stop.  Neither takes the lease.                    *)
StopAccept(t) ==
  /\ At(t, "new") /\ phase = "up" /\ row.gen > 0
  /\ ops' = Append(ops, NewOp("stop"))
  /\ task' = [task EXCEPT ![t].pc = "begin", ![t].op = Len(ops) + 1]
  /\ UNCHANGED <<row, ctr, route, lease, rec, phase, orphans, journal, probed, faults>>

StopBegin(t) ==
  /\ At(t, "begin")
  /\ row' = StoppingRow(row)
  /\ task' = [task EXCEPT ![t].gen = row.gen,
                          ![t].pc = IF row.observed = "absent" /\ ~ row.quarantine
                                    THEN "absent" ELSE "drain"]
  /\ ops' = [ops EXCEPT ![task[t].op].gen = row.gen]
  /\ UNCHANGED <<ctr, route, lease, rec, phase, orphans, journal, probed, faults>>

\* complete_absent_stop, by the handler itself: Running, then Succeeded.
StopAbsent(t) ==
  /\ At(t, "absent")
  /\ Drain(task[t].gen)
  /\ Move(task[t].op, "running")
  /\ Goto(t, "settle")
  /\ UNCHANGED <<row, ctr, lease, rec, phase, orphans, journal, probed, faults>>

StopDrain(t) ==
  /\ At(t, "drain")
  /\ Drain(task[t].gen)
  /\ Move(task[t].op, "running")
  /\ Goto(t, "stop")
  /\ UNCHANGED <<row, ctr, lease, rec, phase, orphans, journal, probed, faults>>

\* stop_exact_generation: the call, then inspections until the deadline.
StopCall(t) ==
  /\ At(t, "stop")
  /\ \/ StopOk(task[t].gen) /\ Goto(t, "gone")
     \/ StopErr(task[t].gen) /\ Goto(t, "inspect")
  /\ UNCHANGED <<row, ops, route, lease, rec, phase, orphans, journal, probed>>

StopInspect(t) ==
  /\ At(t, "inspect")
  /\ LET g == task[t].gen IN
     \/ ctr[g].st = "none" /\ UNCHANGED ctr /\ NoFault /\ Goto(t, "gone")
     \/ ctr[g].st = "exited" /\ StopOk(g) /\ Goto(t, "gone")
     \/ /\ ctr[g].st = "exited" /\ StopErr(g)
        /\ Goto(t, "kept") \/ (ctr'[g].st = "none" /\ Goto(t, "gone"))
     \/ ctr[g].st = "running" /\ UNCHANGED ctr /\ NoFault /\ Goto(t, "kept")
     \/ UNCHANGED ctr /\ Fault /\ Goto(t, "kept")
  /\ UNCHANGED <<row, ops, route, lease, rec, phase, orphans, journal, probed>>

StopGone(t) ==
  /\ At(t, "gone")
  /\ SetObserved(task[t].gen, "absent")
  /\ Goto(t, "settle")
  /\ UNCHANGED <<ops, ctr, route, lease, rec, phase, orphans, journal, probed, faults>>

StopSettle(t) ==
  /\ At(t, "settle")
  /\ Move(task[t].op, "succeeded")
  /\ Goto(t, "done")
  /\ UNCHANGED <<row, ctr, route, lease, rec, phase, orphans, journal, probed, faults>>

StopKept(t) ==
  /\ At(t, "kept")
  /\ Move(task[t].op, "failed")
  /\ Goto(t, "done")
  /\ UNCHANGED <<row, ctr, route, lease, rec, phase, orphans, journal, probed, faults>>

-----------------------------------------------------------------------------
(* cancel_operation: commit the cancellation, then clean up the instance    *)
(* the operation names, whatever its generation is by now.                  *)
CancelRead(t) ==
  /\ At(t, "new") /\ phase = "up"
  /\ \E i \in DOMAIN ops :
       /\ ops[i].st \in Active
       /\ task' = [task EXCEPT ![t].pc = "commit", ![t].op = i]
  /\ UNCHANGED <<row, ops, ctr, route, lease, rec, phase, orphans, journal, probed, faults>>

CancelCommit(t) ==
  /\ At(t, "commit")
  /\ Move(task[t].op, "cancelled")
  /\ LET op == ops[task[t].op] IN
     Goto(t, IF op.kind = "serve" /\ op.st \in Active \union {"cancelled"}
             THEN "read" ELSE "done")
  /\ UNCHANGED <<row, ctr, route, lease, rec, phase, orphans, journal, probed, faults>>

CancelTarget(t) ==
  /\ At(t, "read")
  /\ IF row.gen > 0 /\ row.observed # "healthy"
     THEN /\ Drain(row.gen)
          /\ task' = [task EXCEPT ![t].pc = "undo1", ![t].gen = row.gen]
     ELSE Goto(t, "done") /\ UNCHANGED route
  /\ UNCHANGED <<row, ops, ctr, lease, rec, phase, orphans, journal, probed, faults>>

-----------------------------------------------------------------------------
(* reconcile_once, from the reconciliation loop and at startup.             *)

\* reconcile.rs: decide.  Observation is the container of the expected
\* generation; the agent never reports an ambiguous one.
Decide(desired, seen, suppressed) ==
  CASE desired = "stopped" /\ seen.st = "none" -> "MarkAbsent"
    [] desired = "stopped" /\ seen.st # "none" -> "StopExact"
    [] desired = "running" /\ seen.st = "none" -> IF suppressed THEN "KeepSuppressed" ELSE "RestartExact"
    [] desired = "running" /\ seen.st = "running" -> IF suppressed THEN "StopExact" ELSE "PublishExact"
    [] desired = "running" /\ seen.st = "exited" ->
         IF suppressed THEN "StopExact" ELSE "DisableAndRecordFailure"

RecAt(pc) == rec.pc = pc
RecGoto(pc) == rec' = [rec EXCEPT !.pc = pc] /\ UNCHANGED phase
RecFinish(kind) == rec' = [rec EXCEPT !.pc = "finish", !.kind = kind] /\ UNCHANGED phase
RecGen == rec.row.gen

\* The pass ends, complete or aborted by an error; the loop ignores which.
RecReturn ==
  /\ rec' = IdleRec
  /\ phase' = IF phase = "reconcile" THEN "up" ELSE phase
RecEnd == RecReturn /\ Release("reconciler")

RecList ==
  /\ RecAt("idle") /\ phase \in {"up", "reconcile"}
  /\ rec' = [rec EXCEPT !.pc = "scan", !.row = row]
  /\ UNCHANGED <<row, ops, ctr, route, lease, task, phase, orphans, journal, probed, faults>>

RecScan ==
  /\ RecAt("scan")
  /\ LET exp == Expected(rec.row) IN
     \/ /\ ctr' = Scanned(exp) /\ row' = ScannedRow(exp) /\ NoFault
        /\ rec' = [rec EXCEPT !.pc = "decide",
                              !.seen = IF exp = 0 THEN NoContainer ELSE ctr[exp]]
        /\ UNCHANGED phase
     \/ UNCHANGED <<ctr, row>> /\ Fault /\ RecReturn
  /\ UNCHANGED <<ops, route, lease, task, orphans, journal, probed>>

\* list_operation_summaries, try_acquire and decide, for the row as it was
\* listed before the scan.
RecDecide ==
  /\ RecAt("decide")
  /\ LET action == Decide(rec.row.desired, rec.seen, rec.row.suppressed) IN
     IF RecGen = 0 \/ lease # "none" \/ action = "KeepSuppressed"
     THEN RecReturn /\ UNCHANGED lease
     ELSE /\ lease' = "reconciler"
          /\ rec' = [rec EXCEPT !.ops = [i \in DOMAIN ops |-> ops[i].st],
                !.pc = CASE action = "StopExact" -> "stop"
                         [] action = "MarkAbsent" -> "absent"
                         [] action = "PublishExact" -> "running"
                         [] action \in {"RestartExact", "DisableAndRecordFailure"} -> "restart"]
          /\ UNCHANGED phase
  /\ UNCHANGED <<row, ops, ctr, route, task, orphans, journal, probed, faults>>

\* StopExact, and the removal of an exited generation before it is recreated.
RecStop ==
  \E next \in {<<"stop", "absent">>, <<"reap", "failure">>} :
    /\ RecAt(next[1])
    /\ \/ StopOk(RecGen) /\ RecGoto(next[2]) /\ UNCHANGED lease
       \/ StopErr(RecGen) /\ RecEnd
    /\ UNCHANGED <<row, ops, route, task, orphans, journal, probed>>

\* Mutant: the route of an absent instance is not drained.
RecAbsentKeepsRoute ==
  /\ RecAt("absent")
  /\ IF row.gen = RecGen
     THEN SetObserved(RecGen, "absent") /\ RecFinish("stop") /\ UNCHANGED lease
     ELSE UNCHANGED row /\ RecEnd
  /\ UNCHANGED <<ops, ctr, route, task, orphans, journal, probed, faults>>

RecAbsent ==
  /\ RecAt("absent")
  /\ IF row.gen = RecGen
     THEN SetObserved(RecGen, "absent") /\ Drain(RecGen) /\ RecFinish("stop") /\ UNCHANGED lease
     ELSE UNCHANGED <<row, route>> /\ RecEnd
  /\ UNCHANGED <<ops, ctr, task, orphans, journal, probed, faults>>

RecRestart ==
  /\ RecAt("restart")
  /\ MarkWarming(RecGen)
  /\ RecGoto("allow")
  /\ UNCHANGED <<row, ops, ctr, lease, task, orphans, journal, probed, faults>>

\* persistent_restart_allowed; a closed admission ends the pass.
RecAllow ==
  /\ RecAt("allow")
  /\ \/ NoFault /\ RecGoto(IF rec.seen.st = "none" THEN "failure" ELSE "reap") /\ UNCHANGED lease
     \/ Fault /\ RecEnd
  /\ UNCHANGED <<row, ops, ctr, route, task, orphans, journal, probed>>

\* Mutant: the failure is recorded without comparing generations.
RecFailureAnyGeneration ==
  /\ RecAt("failure")
  /\ \E n \in 1 .. row.failures + 1 :
       /\ row' = FailedRow(row, n)
       /\ IF \/ n >= RestartLimit \/ row.quarantine
             \/ \A i \in DOMAIN rec.ops : ops[i].kind # "serve"
          THEN RecEnd
          ELSE RecGoto("prepare") /\ UNCHANGED lease
  /\ UNCHANGED <<ops, ctr, route, task, orphans, journal, probed, faults>>

\* record_restart_failure before the restart.  The window of the failures is
\* left open: n counts those that are still in it, this one included.
RecFailure ==
  /\ RecAt("failure")
  /\ \/ row.gen # RecGen /\ UNCHANGED row /\ RecEnd
     \/ /\ row.gen = RecGen
        /\ \E n \in 1 .. row.failures + 1 :
             /\ row' = FailedRow(row, n)
             /\ IF \/ n >= RestartLimit \/ row.quarantine
                   \/ \A i \in DOMAIN rec.ops : ops[i].kind # "serve"
                THEN RecEnd
                ELSE RecGoto("prepare") /\ UNCHANGED lease
  /\ UNCHANGED <<ops, ctr, route, task, orphans, journal, probed, faults>>

RecPrepare ==
  /\ RecAt("prepare")
  /\ \/ NoFault /\ RecGoto("start") /\ UNCHANGED lease
     \/ Fault /\ RecEnd
  /\ UNCHANGED <<row, ops, ctr, route, task, orphans, journal, probed>>

RecStart ==
  /\ RecAt("start")
  /\ \/ /\ StartOk(RecGen) /\ UNCHANGED <<phase, lease>>
        /\ rec' = [rec EXCEPT !.pc = "running", !.seen = Started(ctr[RecGen])]
     \/ StartErr(RecGen) /\ RecEnd
  /\ UNCHANGED <<row, ops, route, task, orphans, journal, probed>>

\* Mutants: the published process is not compared with the observed one; a
\* container that already restarts by itself is published without a probe.
RecRunningAnyProcess ==
  /\ RecAt("running")
  /\ IF rec.seen.auto /\ route.st = "healthy" /\ route.gen = RecGen
     THEN RecFinish("serve") /\ UNCHANGED route
     ELSE MarkWarming(RecGen) /\ RecGoto("admit")
  /\ UNCHANGED <<row, ops, ctr, lease, task, orphans, journal, probed, faults>>

RecRunningUnprobed ==
  /\ RecAt("running")
  /\ MarkWarming(RecGen)
  /\ RecGoto(IF rec.seen.auto THEN "healthy" ELSE "admit")
  /\ UNCHANGED <<row, ops, ctr, lease, task, orphans, journal, probed, faults>>

\* reconcile_running_engine: nothing to do for the exact published process.
RecRunning ==
  /\ RecAt("running")
  /\ IF rec.seen.auto /\ route = [st |-> "healthy", gen |-> RecGen, proc |-> rec.seen.proc]
     THEN RecFinish("serve") /\ UNCHANGED route
     ELSE MarkWarming(RecGen) /\ RecGoto("admit")
  /\ UNCHANGED <<row, ops, ctr, lease, task, orphans, journal, probed, faults>>

\* persistent_restart_allowed again: admitted, deferred, or no answer.
RecAdmit ==
  /\ RecAt("admit")
  /\ \/ NoFault /\ RecGoto("probe") /\ UNCHANGED <<ctr, lease>>
     \/ /\ Fault /\ RecFinish("serve") /\ UNCHANGED lease
        /\ ctr' = IF rec.seen.auto THEN Disabled(RecGen) ELSE ctr
     \/ Fault /\ RecEnd /\ UNCHANGED ctr
  /\ UNCHANGED <<row, ops, route, task, orphans, journal, probed>>

RecProbe ==
  /\ RecAt("probe")
  /\ LET up == ProcessUp(RecGen, rec.seen.proc) IN
     \/ /\ up /\ NoFault /\ probed' = probed \union {<<RecGen, rec.seen.proc>>}
        /\ RecGoto(IF rec.seen.auto THEN "healthy" ELSE "promote") /\ UNCHANGED ctr
     \/ /\ (~ up /\ NoFault) \/ Fault
        /\ ctr' = Disabled(RecGen) /\ UNCHANGED probed /\ RecGoto("unready")
  /\ UNCHANGED <<row, ops, route, lease, task, orphans, journal>>

RecUnready ==
  /\ RecAt("unready")
  /\ \/ row.gen # RecGen /\ UNCHANGED row /\ RecEnd
     \/ /\ row.gen = RecGen /\ RecFinish("serve") /\ UNCHANGED lease
        /\ \E n \in 1 .. row.failures + 1 : row' = FailedRow(row, n)
  /\ UNCHANGED <<ops, ctr, route, task, orphans, journal, probed, faults>>

RecPromote ==
  /\ RecAt("promote")
  /\ \/ PromoteOk(RecGen) /\ RecGoto("healthy") /\ UNCHANGED lease
     \/ PromoteErr(RecGen) /\ RecEnd
  /\ UNCHANGED <<row, ops, route, task, orphans, journal, probed>>

RecHealthy ==
  /\ RecAt("healthy")
  /\ SetObserved(RecGen, "healthy")
  /\ IF row.gen = RecGen THEN RecGoto("publish") /\ UNCHANGED lease ELSE RecEnd
  /\ UNCHANGED <<ops, ctr, route, task, orphans, journal, probed, faults>>

RecPublish ==
  /\ RecAt("publish")
  /\ Publish(RecGen, rec.seen.proc)
  /\ RecFinish("serve")
  /\ UNCHANGED <<row, ops, ctr, lease, task, orphans, journal, probed, faults>>

\* complete_recovered_operation: the newest operation of the kind that was
\* unfinished when the operations were listed, if the row and the route of
\* this moment show its goal.
Newest(S) == CHOOSE i \in S : \A j \in S : j <= i
Unfinished(kind) == { i \in DOMAIN rec.ops : ops[i].kind = kind /\ rec.ops[i] \in Active }
Recovered(kind) ==
  \/ /\ kind = "serve" /\ row.desired = "running" /\ row.observed = "healthy"
     /\ route.st = "healthy" /\ route.gen = row.gen
  \/ /\ kind = "stop" /\ row.desired = "stopped" /\ row.observed = "absent"
     /\ route.st = "none"

RecCheck ==
  /\ RecAt("finish")
  /\ IF Unfinished(rec.kind) # {} /\ Recovered(rec.kind)
     THEN /\ rec' = [rec EXCEPT !.pc = "complete", !.op = Newest(Unfinished(rec.kind))]
          /\ UNCHANGED <<phase, lease>>
     ELSE RecEnd
  /\ UNCHANGED <<row, ops, ctr, route, task, orphans, journal, probed, faults>>

\* Its two transitions, whose answers are ignored.
RecComplete ==
  /\ \/ /\ RecAt("complete") /\ RecGoto("succeed") /\ UNCHANGED lease
        /\ IF rec.ops[rec.op] = "accepted" THEN Move(rec.op, "running") ELSE UNCHANGED ops
     \/ RecAt("succeed") /\ Move(rec.op, "succeeded") /\ RecEnd
  /\ UNCHANGED <<row, ctr, route, task, orphans, journal, probed, faults>>

-----------------------------------------------------------------------------
(* Docker, the root memory guard, the crash of the agent and its startup.   *)

EngineDies(g) ==
  /\ ctr[g].st = "running"
  /\ Fault
  /\ ctr' = [ctr EXCEPT ![g].st = "exited"]
  /\ UNCHANGED <<row, ops, route, lease, task, rec, phase, orphans, journal, probed>>

\* The restart policy unless-stopped brings back an exited container.
DockerRestarts(g) ==
  /\ ctr[g].st = "exited" /\ ctr[g].auto
  /\ ctr' = [ctr EXCEPT ![g].st = "running", ![g].proc = @ + 1]
  /\ UNCHANGED <<row, ops, route, lease, task, rec, phase, orphans, journal, probed, faults>>

\* The guard journals its decision, disables the restart policy and kills the
\* control group of the victim.
Emergency(g) ==
  /\ ctr[g].st = "running"
  /\ Fault
  /\ ctr' = [ctr EXCEPT ![g] = Halted(@)]
  /\ journal' = [journal EXCEPT ![g] = "written"]
  /\ UNCHANGED <<row, ops, route, lease, task, rec, phase, orphans, probed>>

\* The executor call a task or the reconciler waits for at each of these steps.
CallAt == [start |-> "start", promote |-> "promote", stop |-> "stop",
           fail2 |-> "stop", undo2 |-> "stop", reap |-> "stop"]
InFlight ==
  { [call |-> CallAt[task[t].pc], gen |-> task[t].gen] :
      t \in { x \in Task : task[x].pc \in DOMAIN CallAt } }
  \union IF rec.pc \in DOMAIN CallAt THEN {[call |-> CallAt[rec.pc], gen |-> RecGen]} ELSE {}

Crash ==
  /\ Fault
  /\ orphans' = orphans \union InFlight
  /\ task' = [t \in Task |-> IF At(t, "new") THEN task[t] ELSE [NewTask EXCEPT !.pc = "done"]]
  /\ rec' = IdleRec
  /\ lease' = "none"
  /\ route' = NoRoute
  /\ phase' = "import"
  /\ UNCHANGED <<row, ops, ctr, journal, probed>>

OrphanRuns(o) ==
  /\ o \in orphans
  /\ orphans' = orphans \ {o}
  /\ \/ o.call = "start" /\ StartOk(o.gen)
     \/ o.call = "stop" /\ StopOk(o.gen)
     \/ o.call = "promote" /\ PromoteOk(o.gen)
     \/ UNCHANGED ctr /\ NoFault
  /\ UNCHANGED <<row, ops, route, lease, task, rec, phase, journal, probed>>

\* import_emergency at startup: the row, then (a transaction each) the active
\* operations whose target is the instance identifier.  Stop operations carry
\* the identifier; serve operations carry the name.
BootImport(g) ==
  /\ phase = "import" /\ journal[g] = "written"
  /\ journal' = [journal EXCEPT ![g] = "imported"]
  /\ IF row.gen = g THEN row' = SuppressedRow(row) /\ phase' = "tail"
                    ELSE UNCHANGED <<row, phase>>
  /\ UNCHANGED <<ops, ctr, route, lease, task, rec, orphans, probed, faults>>

BootTail ==
  /\ phase = "tail"
  /\ ops' = [i \in DOMAIN ops |->
       IF ops[i].kind = "stop" /\ ops[i].st \in Active
       THEN [ops[i] EXCEPT !.st = "failed"] ELSE ops[i]]
  /\ phase' = "import"
  /\ UNCHANGED <<row, ctr, route, lease, task, rec, orphans, journal, probed, faults>>

\* The records cannot be read: the agent serves without an executor.  Mutations
\* are refused and nothing reconciles until the agent is restarted.
BootDegraded ==
  /\ phase = "import"
  /\ Fault
  /\ phase' = "degraded"
  /\ UNCHANGED <<row, ops, ctr, route, lease, task, rec, orphans, journal, probed>>

BootImported ==
  /\ phase = "import" /\ \A g \in Gen : journal[g] # "written"
  /\ phase' = "reconcile"
  /\ UNCHANGED <<row, ops, ctr, route, lease, task, rec, orphans, journal, probed, faults>>

-----------------------------------------------------------------------------
ServeStep(t) ==
  \/ ServeAccept(t) \/ ServeBegin(t) \/ ServeReuse(t) \/ ServeReused(t) \/ ServeConflict(t)
  \/ ServeSpawn(t) \/ ServeClaim(t) \/ ServeCheck(t) \/ ServePrepare(t) \/ ServeStart(t)
  \/ ServeWait(t) \/ ServeStopped(t) \/ ServeReady(t) \/ ServeProbe(t) \/ ServePromote(t)
  \/ ServeHealthy(t) \/ ServePublish(t) \/ ServeSucceed(t) \/ ServeList(t) \/ ServeScan(t)
  \/ FailDrain(t) \/ FailDone(t)

CleanupStep(t) == CleanupStop(t) \/ CleanupIntent(t) \/ UndoDone(t)

StopStep(t) ==
  \/ StopBegin(t) \/ StopAbsent(t) \/ StopDrain(t) \/ StopCall(t) \/ StopInspect(t)
  \/ StopGone(t) \/ StopSettle(t) \/ StopKept(t)

CancelStep(t) == CancelCommit(t) \/ CancelTarget(t)

RecStep ==
  \/ RecList \/ RecScan \/ RecDecide \/ RecStop \/ RecAbsent \/ RecRestart \/ RecAllow
  \/ RecFailure \/ RecPrepare \/ RecStart \/ RecRunning \/ RecAdmit \/ RecProbe
  \/ RecUnready \/ RecPromote \/ RecHealthy \/ RecPublish \/ RecCheck \/ RecComplete

BootStep == BootTail \/ BootImported \/ \E g \in Gen : BootImport(g)

Next ==
  \/ \E t \in Serve : ServeAcquire(t) \/ ServeStep(t)
  \/ \E t \in Stop : StopAccept(t) \/ StopStep(t)
  \/ \E t \in Cancel : CancelRead(t) \/ CancelStep(t)
  \/ \E t \in Task : CleanupStep(t) \/ HandlerDropped(t)
  \/ RecStep
  \/ \E g \in Gen : EngineDies(g) \/ DockerRestarts(g) \/ Emergency(g)
  \/ Crash \/ BootDegraded
  \/ \E o \in orphans : OrphanRuns(o)
  \/ BootStep

Spec == Init /\ [][Next]_vars

\* Spawned tasks are polled until they return and every executor call has a
\* deadline; the loop ticks every RECONCILE_INTERVAL; startup runs to its end;
\* Docker honours unless-stopped.  Requests, faults and crashes are not fair.
Fairness ==
  /\ \A t \in Serve : WF_vars(ServeStep(t) \/ CleanupStep(t))
  /\ \A t \in Stop : WF_vars(StopStep(t))
  /\ \A t \in Cancel : WF_vars(CancelStep(t) \/ CleanupStep(t))
  /\ WF_vars(RecStep)
  /\ WF_vars(BootStep)
  /\ \A g \in Gen : WF_vars(DockerRestarts(g))

FairSpec == Spec /\ Fairness

-----------------------------------------------------------------------------
ServePc == {"new", "accept", "begin", "reuse", "reused", "spawn", "claim", "check1", "prepare",
            "check2", "create", "start", "check3", "wait", "stopped", "ready", "probe",
            "check4", "promote", "healthy", "publish", "succeed", "list", "scan", "done"}
CleanupPc == {"fail1", "fail2", "fail3", "fail4", "fail5", "undo1", "undo2", "undo3"}
StopPc == {"new", "begin", "absent", "drain", "stop", "inspect", "gone", "kept", "settle", "done"}
CancelPc == {"new", "commit", "read", "undo1", "undo2", "undo3", "done"}
RecPc == {"idle", "scan", "decide", "stop", "absent", "restart", "allow", "reap", "failure",
          "prepare", "start", "running", "admit", "probe", "unready", "promote", "healthy",
          "publish", "finish", "complete", "succeed"}

Row == [gen: 0 .. MaxGen, desired: {"running", "stopped"}, observed: Observed,
        failures: Nat, suppressed: BOOLEAN, quarantine: BOOLEAN]
Container == [st: {"none", "running", "exited"}, auto: BOOLEAN, proc: Nat]

TypeOK ==
  /\ row \in Row
  /\ ops \in Seq([kind: {"serve", "stop"}, st: OpState, gen: 0 .. MaxGen,
                 reused: BOOLEAN])
  /\ ctr \in [Gen -> Container]
  /\ route \in [st: {"none", "warming", "healthy"}, gen: 0 .. MaxGen, proc: Nat]
  /\ lease \in Serve \union {"none", "reconciler"}
  /\ task \in [Task -> [pc: ServePc \union CleanupPc \union StopPc \union CancelPc,
                       op: Nat, gen: 0 .. MaxGen, proc: Nat]]
  /\ rec \in [pc: RecPc, row: Row, seen: Container, ops: Seq(OpState),
             kind: {"none", "serve", "stop"}, op: Nat]
  /\ phase \in {"import", "tail", "reconcile", "up", "degraded"}
  /\ orphans \subseteq [call: {"start", "stop", "promote"}, gen: 0 .. MaxGen]
  /\ journal \in [Gen -> {"none", "written", "imported"}]
  /\ probed \subseteq Gen \X Nat
  /\ faults \in 0 .. MaxFaults

(* The single high-memory start lease: whoever works on a start (a serve    *)
(* request from its admission until its task ends, the reconciler from its  *)
(* decision until the pass ends) holds it, so two of them never overlap,    *)
(* whatever handlers were dropped, tasks failed or leases released before.  *)
StartsHoldTheLease ==
  /\ \A t \in Serve : task[t].pc \notin {"new", "done"} => lease = t
  /\ rec.pc \notin {"idle", "scan", "decide"} => lease = "reconciler"

(* A container is created by a living agent only for the generation the     *)
(* row is at, under the lease, and never while restart is suppressed; the   *)
(* snapshots the reconciler decides on are older than that.                 *)
StartsAreAuthorised ==
  [][\A g \in Gen :
       (ctr[g].st = "none" /\ ctr'[g].st = "running" /\ orphans' = orphans) =>
         (lease # "none" /\ row.gen = g /\ ~ row.suppressed)]_vars

(* The gateway forwards only to a process that passed the semantic probe:   *)
(* a published route names a generation and a process of which some task    *)
(* of this or an earlier agent saw the probe succeed.                       *)
PublishedProcessWasProbed ==
  route.st = "healthy" => <<route.gen, route.proc>> \in probed

(* A stopped instance comes back only through a new generation: no late     *)
(* task, cleanup, reconciliation or startup turns the intent of an          *)
(* existing generation back to running, and generations never go back.      *)
IntentNeedsNewGeneration ==
  [][/\ row.gen <= row'.gen
     /\ (row.desired = "stopped" /\ row'.desired = "running") => row'.gen = row.gen + 1]_vars

(* A start that failed is not retried behind the user's back: as long as no *)
(* newer generation is requested, the intent of a generation whose serve    *)
(* operation failed is stopped, so that reconciliation leaves it alone.     *)
FailedServeLeavesStoppedIntent ==
  \A i \in DOMAIN ops :
    (ops[i].kind = "serve" /\ ops[i].st = "failed" /\ ops[i].gen = row.gen) =>
      row.desired = "stopped"

(* Stopped intent drains the route: the gateway stops forwarding to a       *)
(* stopped instance even when a late publication overtakes the stop.        *)
StoppedIsDrained == row.desired = "stopped" ~> (route.st = "none" \/ row.desired = "running")

(* Running intent converges: a wanted instance ends up healthy in the row   *)
(* and published for the process that runs, or restart is suppressed, or    *)
(* the intent changes, or the agent started without its executor.           *)
Serving ==
  /\ row.observed = "healthy"
  /\ route.st = "healthy" /\ route.gen = row.gen /\ ProcessUp(route.gen, route.proc)
RunningConverges ==
  row.desired = "running" ~>
    (Serving \/ row.suppressed \/ row.desired = "stopped" \/ phase = "degraded")

(* docs/reference/cli.md: "Persist stopped intent, drain, and remove one    *)
(* instance."  A stopped instance eventually has no container, unless it is *)
(* wanted again.                                                            *)
StoppedIsRemoved ==
  row.desired = "stopped" ~>
    ((\A g \in Gen : ctr[g].st = "none") \/ row.desired = "running")

(* "operation recovered by exact reconciliation": a serve operation that is *)
(* recorded as succeeded began a generation that passed the semantic probe, *)
(* or was answered with the running instance.                               *)
SucceededServeWasProbed ==
  \A i \in DOMAIN ops :
    (ops[i].kind = "serve" /\ ops[i].st = "succeeded") =>
      (ops[i].reused \/ \E pair \in probed : pair[1] = ops[i].gen)

(* "only the operation owner or bootstrap administrator may cancel it": the *)
(* cleanup of a cancelled serve operation changes the intent of the         *)
(* generation that operation began, and of no other.                        *)
CancelStopsOnlyItsGeneration ==
  [][\A t \in Cancel :
       (At(t, "undo1") /\ task'[t].pc = "undo2" /\ row.desired = "running") =>
         ops[task[t].op].gen = row.gen]_vars
=============================================================================
