------------------------------ MODULE Admission ------------------------------
(***************************************************************************)
(* Admission of instances to the unified memory (resources.rs and the      *)
(* serve handler of agent.rs).  The handler reads the executor's resource  *)
(* snapshot and the declared envelopes, asks the executor for the storage, *)
(* and only then evaluates and takes the transition lease: what it         *)
(* evaluates may be stale.  What protects it is time: a snapshot older     *)
(* than max_snapshot_age_ms is refused, and the lease is kept for as long  *)
(* as an engine takes to start.                                            *)
(*                                                                         *)
(* Time is a tick; ages saturate just past the limits they are compared    *)
(* with.  Disk, pressure, swap and the guard's heartbeat can only refuse.  *)
(***************************************************************************)
EXTENDS Integers, FiniteSets, FiniteSetsExt

CONSTANTS
  Models,      \* the instances that can be served, one model each
  Envelope,    \* per instance, its cold start peak
  Handlers,    \* serve requests at a time
  MemTotal,    \* memory of the host
  Reserve,     \* system_reserve_bytes
  MaxAge,      \* max_snapshot_age_ms
  MinStart     \* the least time from the lease to a healthy engine

Nobody == "nobody"

ASSUME AdmissionAssumption ==
  /\ IsFiniteSet(Models) /\ Nobody \notin Handlers
  /\ Envelope \in [Models -> Nat \ {0}]
  /\ {MemTotal, Reserve, MaxAge, MinStart} \subseteq Nat /\ Reserve <= MemTotal
  /\ MaxAge < MinStart

VARIABLES
  wanted,    \* the instances whose row says running
  resident,  \* the instances whose engine holds its memory
  sample,    \* the executor's last sample: memory available and its age
  holder,    \* of the transition lease
  handler,   \* the serve requests
  orphaned   \* instances that are wanted by a serve that was cancelled (history)

admissionVars == <<wanted, resident, sample, holder, handler, orphaned>>

NewHandler == [at |-> "new"]

Bytes(set) == MapThenSumSet(LAMBDA i : Envelope[i], set)
Capacity == MemTotal - Reserve
Available == MemTotal - Bytes(resident)

AdmissionInit ==
  /\ wanted = {} /\ resident = {}
  /\ sample = [free |-> MemTotal, age |-> 0]
  /\ holder = Nobody
  /\ handler = [h \in Handlers |-> NewHandler]
  /\ orphaned = {}

-----------------------------------------------------------------------------
(* Time and telemetry.                                                      *)

Older(age, limit) == IF age > limit THEN age ELSE age + 1

Tick ==
  /\ sample' = [sample EXCEPT !.age = Older(@, MaxAge)]
  /\ handler' = [h \in Handlers |->
       CASE handler[h].at \in {"snapshot", "storage"} -> [handler[h] EXCEPT !.snap.age = Older(@, MaxAge)]
         [] handler[h].at = "starting" -> [handler[h] EXCEPT !.age = Older(@, MinStart)]
         [] OTHER -> handler[h]]
  /\ UNCHANGED <<wanted, resident, holder, orphaned>>

\* ProcfsHostSampler::sample, by the guard's loop.
TakeSample ==
  /\ sample' = [free |-> Available, age |-> 0]
  /\ UNCHANGED <<wanted, resident, holder, handler, orphaned>>

-----------------------------------------------------------------------------
(* The serve handler.                                                       *)

Set(h, to) == handler' = [handler EXCEPT ![h] = to]

ReadSnapshot(h, i) ==
  /\ handler[h].at = "new"
  /\ Set(h, [at |-> "snapshot", inst |-> i, snap |-> sample])
  /\ UNCHANGED <<wanted, resident, sample, holder, orphaned>>

\* desired_resource_envelopes
ReadDesired(h) ==
  /\ handler[h].at = "snapshot"
  /\ Set(h, [at |-> "storage", inst |-> handler[h].inst, snap |-> handler[h].snap, desired |-> wanted])
  /\ UNCHANGED <<wanted, resident, sample, holder, orphaned>>

Replaced(q) == IF q.inst \in q.desired THEN Envelope[q.inst] ELSE 0

Less(a, b) == IF a > b THEN a - b ELSE 0

\* Mutant: the age of the snapshot is not looked at.
AdmittedAtAnyAge(q) ==
  /\ Bytes(q.desired \union {q.inst}) <= Capacity
  /\ q.snap.free - Less(Envelope[q.inst], Replaced(q)) >= Reserve

\* evaluate_admission
Admitted(q) ==
  /\ q.snap.age <= MaxAge
  /\ Bytes(q.desired \union {q.inst}) <= Capacity
  /\ q.snap.free - Less(Envelope[q.inst], Replaced(q)) >= Reserve

\* The storage is known: evaluate and try_acquire, with no await between.
Decide(h) ==
  /\ handler[h].at = "storage"
  /\ \/ /\ Admitted(handler[h]) /\ holder = Nobody
        /\ holder' = h /\ Set(h, [at |-> "lease", inst |-> handler[h].inst, cancelled |-> FALSE])
     \/ Set(h, NewHandler) /\ UNCHANGED holder
  /\ UNCHANGED <<wanted, resident, sample, orphaned>>

\* cancel_operation once the operation is accepted.  A cancel that finds no row
\* stops nothing; one that finds it stops it later (StopWanted).
CancelServe(h) ==
  /\ handler[h].at \in {"lease", "starting"} /\ ~handler[h].cancelled
  /\ handler[h].inst \notin resident
  /\ Set(h, [handler[h] EXCEPT !.cancelled = TRUE])
  /\ orphaned' = orphaned \union ({handler[h].inst} \intersect wanted)
  /\ UNCHANGED <<wanted, resident, sample, holder>>

\* begin_serve: a wanted instance is reused or refused, and the lease is
\* dropped with the handler.
BeginServe(h) ==
  /\ handler[h].at = "lease"
  /\ LET i == handler[h].inst
     IN  \/ /\ i \notin wanted
            /\ wanted' = wanted \union {i}
            /\ orphaned' = IF handler[h].cancelled THEN orphaned \union {i} ELSE orphaned
            /\ Set(h, [at |-> "starting", inst |-> i, age |-> 0, cancelled |-> handler[h].cancelled])
            /\ UNCHANGED holder
         \/ Set(h, NewHandler) /\ holder' = Nobody /\ UNCHANGED <<wanted, orphaned>>
  /\ UNCHANGED <<resident, sample>>

\* run_serve cannot make a cancelled operation running and returns: the row
\* stays as begin_serve left it.
ServeReturns(h) ==
  /\ handler[h].at = "starting" /\ handler[h].cancelled
  /\ Set(h, NewHandler) /\ holder' = Nobody
  /\ UNCHANGED <<wanted, resident, sample, orphaned>>

\* run_serve: an engine that becomes healthy takes its time; a failed or
\* cancelled serve is stopped; either way the lease goes with the task.
Loads(h) ==
  /\ handler[h].at = "starting" /\ ~handler[h].cancelled /\ handler[h].inst \in wanted \ resident
  /\ resident' = resident \union {handler[h].inst}
  /\ UNCHANGED <<wanted, sample, holder, handler, orphaned>>

ServeEnds(h) ==
  /\ handler[h].at = "starting" /\ ~handler[h].cancelled
  /\ LET i == handler[h].inst
     IN  \/ handler[h].age >= MinStart /\ i \in resident /\ UNCHANGED <<wanted, resident>>
         \/ wanted' = wanted \ {i} /\ resident' = resident \ {i}
  /\ Set(h, NewHandler) /\ holder' = Nobody
  /\ UNCHANGED <<sample, orphaned>>

-----------------------------------------------------------------------------
(* Around it.                                                               *)

\* stop takes no lease; the memory is freed later.
StopWanted(i) ==
  /\ i \in wanted /\ wanted' = wanted \ {i} /\ orphaned' = orphaned \ {i}
  /\ UNCHANGED <<resident, sample, holder, handler>>

Freed(i) ==
  /\ i \in resident \ wanted /\ resident' = resident \ {i}
  /\ UNCHANGED <<wanted, sample, holder, handler, orphaned>>

\* The agent restarts; the rows and the engines stay.  A reboot also empties
\* the memory.
AgentDies ==
  /\ handler' = [h \in Handlers |-> NewHandler] /\ holder' = Nobody
  /\ resident' \in {resident, {}}
  /\ UNCHANGED <<wanted, sample, orphaned>>

\* Reconciliation under its lease: persistent_set_fits_reboot_envelope.
Restore(i) ==
  /\ holder = Nobody /\ i \in wanted \ resident
  /\ sample.age <= MaxAge /\ Bytes(wanted) <= Capacity
  /\ resident' = resident \union {i}
  /\ UNCHANGED <<wanted, sample, holder, handler, orphaned>>

AdmissionNext ==
  \/ Tick \/ TakeSample \/ AgentDies
  \/ \E h \in Handlers, i \in Models : ReadSnapshot(h, i)
  \/ \E h \in Handlers : ReadDesired(h) \/ Decide(h) \/ CancelServe(h) \/ BeginServe(h)
                            \/ ServeReturns(h) \/ Loads(h) \/ ServeEnds(h)
  \/ \E i \in Models : StopWanted(i) \/ Freed(i) \/ Restore(i)

AdmissionSpec == AdmissionInit /\ [][AdmissionNext]_admissionVars

-----------------------------------------------------------------------------
(* Properties.                                                              *)

\* The cold start peaks of the instances that shall run fit the memory without
\* the reserve, although the handlers evaluate envelopes they read before they
\* held the lease: as long as no engine starts within the age a snapshot may
\* have, and but for an instance whose serve was cancelled.
OvercommitNeedsCancel == Bytes(wanted \ orphaned) <= Capacity

\* "the agent will refuse the serve rather than overcommit"
\* (docs/how-to/serve-a-model-on-spark.md)
NeverOvercommitted == Bytes(wanted) <= Capacity
=============================================================================
