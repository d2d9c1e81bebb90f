----------------------- MODULE InstanceLifecycleProofs -----------------------
(***************************************************************************)
(* Proofs about the lifecycle of one instance for any number of requests,  *)
(* generations, faults and crashes.                                        *)
(***************************************************************************)
EXTENDS InstanceLifecycle, TLAPS

(* Replacing one element keeps a sequence a sequence: how the model changes *)
(* the operation records.                                                   *)
LEMMA ReplacedInSeq ==
  ASSUME NEW S, NEW q \in Seq(S), NEW i \in 1 .. Len(q), NEW e \in S
  PROVE  [q EXCEPT ![i] = e] \in Seq(S)
BY SMT, SMTT(30)

(* A function on 1 .. n is a sequence, as the records that a restart        *)
(* rewrites are.                                                            *)
LEMMA FunctionIsSeq ==
  ASSUME NEW S, NEW n \in Nat, NEW q \in [1 .. n -> S]
  PROVE  q \in Seq(S)
BY SMT, SMTT(30)

-----------------------------------------------------------------------------
(* Who acts in a step, and which variables each actor's actions leave alone. *)

ServeActs(t) == ServeAcquire(t) \/ ServeStep(t) \/ CleanupStep(t) \/ HandlerDropped(t)

OtherActs(t) ==
  \/ t \in Stop /\ (StopAccept(t) \/ StopStep(t))
  \/ t \in Cancel /\ (CancelRead(t) \/ CancelStep(t))
  \/ CleanupStep(t) \/ HandlerDropped(t)

Outside ==
  \/ \E g \in Gen : EngineDies(g) \/ DockerRestarts(g) \/ Emergency(g)
  \/ \E o \in orphans : OrphanRuns(o)

(* Every step is one of a serve request, of a stop or cancel request, of    *)
(* the pass, of Docker or an orphaned call, a crash or a step of startup.   *)
LEMMA Actors ==
  ASSUME [Next]_vars
  PROVE  \/ \E t \in Serve : ServeActs(t)
         \/ \E t \in Stop \union Cancel : OtherActs(t)
         \/ RecStep \/ Outside \/ Crash \/ BootDegraded \/ BootStep \/ UNCHANGED vars
  BY Zenon DEF Next, ServeActs, OtherActs, Outside, Task

\* The actions of a serve request that change the row, the operations, the
\* containers, the route or the history of probes.
ServeFrame(t) ==
  /\ \/ UNCHANGED row \/ ServeBegin(t) \/ ServeHealthy(t) \/ FailDone(t) \/ ServeScan(t)
     \/ CleanupIntent(t) \/ UndoDone(t)
  /\ \/ UNCHANGED ops \/ ServeAccept(t) \/ ServeBegin(t) \/ ServeReuse(t) \/ ServeReused(t)
     \/ ServeClaim(t) \/ ServeSucceed(t) \/ FailDone(t)
  /\ UNCHANGED ctr \/ ServeStart(t) \/ ServePromote(t) \/ ServeScan(t) \/ CleanupStop(t)
  /\ UNCHANGED route \/ ServeSpawn(t) \/ ServePublish(t) \/ FailDrain(t)
  /\ UNCHANGED probed \/ ServeProbe(t)

(* serve_instance, run_serve, fail_serve and cancel_prehealth_serve change  *)
(* nothing else.                                                            *)
LEMMA ServeFrames ==
  ASSUME NEW t \in Serve, ServeActs(t)
  PROVE  ServeFrame(t)
<1>1. ASSUME ServeAcquire(t) \/ ServeAccept(t) \/ ServeBegin(t) \/ ServeReuse(t) PROVE ServeFrame(t)
  BY <1>1, Zenon DEF ServeFrame, ServeAcquire, ServeAccept, ServeBegin, ServeReuse
<1>2. ASSUME ServeReused(t) \/ ServeConflict(t) \/ ServeSpawn(t) \/ ServeClaim(t) PROVE ServeFrame(t)
  BY <1>2, Zenon DEF ServeFrame, ServeReused, ServeConflict, ServeSpawn, ServeClaim
<1>3. ASSUME ServeCheck(t) \/ ServePrepare(t) \/ ServeStart(t) \/ ServeWait(t) PROVE ServeFrame(t)
  BY <1>3, Zenon DEF ServeFrame, ServeCheck, ServePrepare, ServeStart, ServeWait
<1>4. ASSUME ServeStopped(t) \/ ServeReady(t) \/ ServeProbe(t) \/ ServePromote(t) PROVE ServeFrame(t)
  BY <1>4, Zenon DEF ServeFrame, ServeStopped, ServeReady, ServeProbe, ServePromote
<1>5. ASSUME ServeHealthy(t) \/ ServePublish(t) \/ ServeSucceed(t) \/ ServeList(t) PROVE ServeFrame(t)
  BY <1>5, Zenon DEF ServeFrame, ServeHealthy, ServePublish, ServeSucceed, ServeList
<1>6. ASSUME ServeScan(t) \/ FailDrain(t) \/ FailDone(t) PROVE ServeFrame(t)
  BY <1>6, Zenon DEF ServeFrame, ServeScan, FailDrain, FailDone
<1>7. ASSUME CleanupStop(t) \/ CleanupIntent(t) \/ UndoDone(t) \/ HandlerDropped(t)
      PROVE  ServeFrame(t)
  BY <1>7, Zenon DEF ServeFrame, CleanupStop, CleanupIntent, UndoDone, HandlerDropped
<1> QED
  BY <1>1, <1>2, <1>3, <1>4, <1>5, <1>6, <1>7, Zenon DEF ServeActs, ServeStep, CleanupStep

\* The same for a stop or a cancel request.
OtherFrame(t) ==
  /\ UNCHANGED row \/ StopBegin(t) \/ StopGone(t) \/ CleanupIntent(t) \/ UndoDone(t)
  /\ \/ UNCHANGED ops
     \/ t \in Stop /\ (StopAccept(t) \/ StopBegin(t) \/ StopKept(t))
     \/ StopAbsent(t) \/ StopDrain(t) \/ StopSettle(t) \/ CancelCommit(t)
  /\ UNCHANGED ctr \/ StopCall(t) \/ StopInspect(t) \/ CleanupStop(t)
  /\ UNCHANGED route \/ StopAbsent(t) \/ StopDrain(t) \/ CancelTarget(t)
  /\ UNCHANGED probed

(* stop_instance, run_stop, cancel_operation and the cleanup it spawns      *)
(* change nothing else.                                                     *)
LEMMA OtherFrames ==
  ASSUME NEW t \in Stop \union Cancel, OtherActs(t)
  PROVE  OtherFrame(t)
<1>1. ASSUME t \in Stop, StopAccept(t) \/ StopBegin(t) \/ StopKept(t) PROVE OtherFrame(t)
  BY <1>1, Zenon DEF OtherFrame, StopAccept, StopBegin, StopKept
<1>2. ASSUME StopAbsent(t) \/ StopDrain(t) \/ StopSettle(t) PROVE OtherFrame(t)
  BY <1>2, Zenon DEF OtherFrame, StopAbsent, StopDrain, StopSettle
<1>3. ASSUME StopCall(t) \/ StopInspect(t) \/ StopGone(t) PROVE OtherFrame(t)
  BY <1>3, Zenon DEF OtherFrame, StopCall, StopInspect, StopGone
<1>4. ASSUME CancelRead(t) \/ CancelCommit(t) \/ CancelTarget(t) PROVE OtherFrame(t)
  BY <1>4, Zenon DEF OtherFrame, CancelRead, CancelCommit, CancelTarget
<1>5. ASSUME CleanupStop(t) \/ CleanupIntent(t) \/ UndoDone(t) \/ HandlerDropped(t)
      PROVE  OtherFrame(t)
  BY <1>5, Zenon DEF OtherFrame, CleanupStop, CleanupIntent, UndoDone, HandlerDropped
<1> QED
  BY <1>1, <1>2, <1>3, <1>4, <1>5, Zenon DEF OtherActs, StopStep, CancelStep, CleanupStep

\* The same for the pass.
RecFrame ==
  /\ UNCHANGED row \/ RecScan \/ RecAbsent \/ RecFailure \/ RecUnready \/ RecHealthy
  /\ UNCHANGED ops \/ RecComplete
  /\ \/ UNCHANGED ctr \/ RecScan \/ RecStop \/ RecStart \/ RecAdmit \/ RecProbe \/ RecPromote
  /\ UNCHANGED route \/ RecAbsent \/ RecRestart \/ RecRunning \/ RecPublish
  /\ UNCHANGED probed \/ RecProbe

(* reconcile_once changes nothing else.                                     *)
LEMMA RecFrames ==
  ASSUME RecStep
  PROVE  RecFrame
<1>1. ASSUME RecList \/ RecScan \/ RecDecide \/ RecStop PROVE RecFrame
  BY <1>1, Zenon DEF RecFrame, RecList, RecScan, RecDecide, RecStop
<1>2. ASSUME RecAbsent \/ RecRestart \/ RecAllow \/ RecFailure PROVE RecFrame
  BY <1>2, Zenon DEF RecFrame, RecAbsent, RecRestart, RecAllow, RecFailure
<1>3. ASSUME RecPrepare \/ RecStart \/ RecRunning \/ RecAdmit PROVE RecFrame
  BY <1>3, Zenon DEF RecFrame, RecPrepare, RecStart, RecRunning, RecAdmit
<1>4. ASSUME RecProbe \/ RecUnready \/ RecPromote \/ RecHealthy PROVE RecFrame
  BY <1>4, Zenon DEF RecFrame, RecProbe, RecUnready, RecPromote, RecHealthy
<1>5. ASSUME RecPublish \/ RecCheck \/ RecComplete PROVE RecFrame
  BY <1>5, Zenon DEF RecFrame, RecPublish, RecCheck, RecComplete
<1> QED
  BY <1>1, <1>2, <1>3, <1>4, <1>5, Zenon DEF RecStep

\* And for Docker, the memory guard, a crash and startup.
OutsideFrame ==
  /\ UNCHANGED row \/ (phase = "import" /\ row' = SuppressedRow(row))
  /\ UNCHANGED ops \/ BootTail
  /\ UNCHANGED ctr \/ Outside
  /\ UNCHANGED probed
  /\ UNCHANGED <<route, task, rec>> \/ Crash

(* Only a crash touches the route, a request or the pass.                   *)
LEMMA Bystanders ==
  ASSUME Outside \/ BootDegraded \/ BootStep \/ UNCHANGED vars
  PROVE  UNCHANGED <<route, task, rec>>
<1>1. ASSUME Outside PROVE UNCHANGED <<route, task, rec>>
  BY <1>1, Zenon DEF Outside, EngineDies, DockerRestarts, Emergency, OrphanRuns
<1>2. ASSUME BootDegraded \/ UNCHANGED vars PROVE UNCHANGED <<route, task, rec>>
  BY <1>2, Zenon DEF BootDegraded, vars
<1>3. ASSUME BootStep PROVE UNCHANGED <<route, task, rec>>
  BY <1>3, Zenon DEF BootStep, BootTail, BootImported, BootImport
<1> QED
  BY <1>1, <1>2, <1>3, Zenon

(* None of them changes anything else.                                      *)
LEMMA OutsideFrames ==
  ASSUME Outside \/ Crash \/ BootDegraded \/ BootStep \/ UNCHANGED vars
  PROVE  OutsideFrame
<1>1. ASSUME Outside PROVE UNCHANGED <<row, ops, probed>>
  BY <1>1, Zenon DEF Outside, EngineDies, DockerRestarts, Emergency, OrphanRuns
<1>2. ASSUME Crash \/ BootDegraded \/ UNCHANGED vars PROVE UNCHANGED <<row, ops, ctr, probed>>
  BY <1>2, Zenon DEF Crash, BootDegraded, vars
<1>3. ASSUME BootStep
      PROVE  /\ UNCHANGED row \/ (phase = "import" /\ row' = SuppressedRow(row))
             /\ UNCHANGED ops \/ BootTail
             /\ UNCHANGED <<ctr, probed>>
  BY <1>3, Zenon DEF BootStep, BootTail, BootImported, BootImport
<1> QED
  BY <1>1, <1>2, <1>3, Bystanders, Zenon DEF OutsideFrame

-----------------------------------------------------------------------------
(* The row.                                                                 *)

(* What a step may do to the instance row: one of the row commands of       *)
(* state.rs, by one of its callers.                                         *)
RowChange ==
  \/ UNCHANGED row
  \/ \E t \in Serve : ServeBegin(t)
  \/ \E o \in {"healthy", "failed", "absent"} : row' = ObservedRow(row, o)
  \/ row' = StoppingRow(row)
  \/ \E exp : row' = ScannedRow(exp)
  \/ RecFailure /\ row.gen = RecGen /\ \E n \in 1 .. row.failures + 1 : row' = FailedRow(row, n)
  \/ RecUnready /\ \E n \in 1 .. row.failures + 1 : row' = FailedRow(row, n)
  \/ phase = "import" /\ row' = SuppressedRow(row)

(* Every step of the lifecycle changes the row in one of these ways.        *)
LEMMA RowMoves == [Next]_vars => RowChange
<1> SUFFICES ASSUME [Next]_vars PROVE RowChange
  BY Zenon
<1>1. ASSUME UNCHANGED row PROVE RowChange
  BY <1>1, Zenon DEF RowChange
<1>2. ASSUME NEW o \in {"healthy", "failed", "absent"}, NEW g, SetObserved(g, o) PROVE RowChange
  BY <1>2, Zenon DEF RowChange, SetObserved
<1>3. ASSUME row' = StoppingRow(row) PROVE RowChange
  BY <1>3, Zenon DEF RowChange
<1>4. ASSUME NEW exp, row' = ScannedRow(exp) PROVE RowChange
  BY <1>4, Zenon DEF RowChange
<1>5. ASSUME NEW t \in Serve, ServeActs(t) PROVE RowChange
  <2>1. CASE ServeBegin(t)
    BY <2>1, Zenon DEF RowChange
  <2>2. CASE ServeHealthy(t)
    BY <1>2, <2>2, Zenon DEF ServeHealthy
  <2>3. CASE FailDone(t)
    BY <1>1, <1>2, <2>3, Zenon DEF FailDone
  <2>4. CASE ServeScan(t)
    BY <1>1, <1>4, <2>4, Zenon DEF ServeScan
  <2>5. CASE CleanupIntent(t)
    BY <1>3, <2>5, Zenon DEF CleanupIntent
  <2>6. CASE UndoDone(t)
    BY <1>2, <2>6, Zenon DEF UndoDone
  <2> QED
    BY <1>1, <1>5, <2>1, <2>2, <2>3, <2>4, <2>5, <2>6, ServeFrames, ZenonT(40) DEF ServeFrame
<1>6. ASSUME NEW t \in Stop \union Cancel, OtherActs(t) PROVE RowChange
  <2>1. CASE StopBegin(t) \/ CleanupIntent(t)
    BY <1>3, <2>1, Zenon DEF StopBegin, CleanupIntent
  <2>2. CASE StopGone(t) \/ UndoDone(t)
    BY <1>2, <2>2, Zenon DEF StopGone, UndoDone
  <2> QED
    BY <1>1, <1>6, <2>1, <2>2, OtherFrames, Zenon DEF OtherFrame
<1>7. ASSUME RecStep PROVE RowChange
  <2>1. CASE RecScan
    BY <1>1, <1>4, <2>1, Zenon DEF RecScan
  <2>2. CASE RecAbsent \/ RecHealthy
    BY <1>1, <1>2, <2>2, Zenon DEF RecAbsent, RecHealthy
  <2>3. CASE RecFailure
    BY <2>3, Zenon DEF RecFailure, RowChange
  <2>4. CASE RecUnready
    BY <2>4, Zenon DEF RecUnready, RowChange
  <2> QED
    BY <1>1, <1>7, <2>1, <2>2, <2>3, <2>4, RecFrames, Zenon DEF RecFrame
<1>8. CASE Outside \/ Crash \/ BootDegraded \/ BootStep \/ UNCHANGED vars
  BY <1>8, OutsideFrames, Zenon DEF OutsideFrame, RowChange
<1> QED
  BY <1>5, <1>6, <1>7, <1>8, Actors, Zenon

(* No row command but begin_serve moves the generation or restores the      *)
(* running intent.                                                          *)
LEMMA RowCommands ==
  ASSUME row \in Row, RowChange
  PROVE  /\ row' \in Row
         /\ \/ \E t \in Serve : ServeBegin(t)
            \/ row'.gen = row.gen /\ row'.desired \in {row.desired, "stopped"}
<1> USE LifecycleAssumption DEF Row, Observed
<1>1. ASSUME UNCHANGED row
      PROVE  row' \in Row /\ row'.gen = row.gen /\ row'.desired = row.desired
  BY <1>1, Zenon
<1>2. ASSUME NEW t \in Serve, ServeBegin(t) PROVE row' \in Row
  <2>1. row' = BegunRow(row) /\ row.gen < MaxGen
    BY <1>2, Zenon DEF ServeBegin
  <2>2. row.gen + 1 \in 0 .. MaxGen
    BY <2>1, SMT, SMTT(30)
  <2> QED
    BY <2>1, <2>2, Zenon DEF BegunRow, NoInstance
<1>3. ASSUME NEW o \in {"healthy", "failed", "absent"}, row' = ObservedRow(row, o)
      PROVE  row' \in Row /\ row'.gen = row.gen /\ row'.desired = row.desired
  BY <1>3, Zenon DEF ObservedRow
<1>4. ASSUME row' = StoppingRow(row)
      PROVE  row' \in Row /\ row'.gen = row.gen /\ row'.desired \in {row.desired, "stopped"}
  BY <1>4, Zenon DEF StoppingRow
<1>5. ASSUME NEW exp, row' = ScannedRow(exp)
      PROVE  row' \in Row /\ row'.gen = row.gen /\ row'.desired = row.desired
  <2> DEFINE mark == row.quarantine /\ row.gen \in Unexpected(exp)
             cleared == [row EXCEPT !.quarantine = mark]
  <2>1. mark \in BOOLEAN
    BY Zenon
  <2> HIDE DEF mark
  <2>2. cleared \in Row /\ cleared.gen = row.gen /\ cleared.desired = row.desired
    BY <2>1, Zenon
  <2>3. row' \in {cleared, QuarantinedRow(cleared)}
    BY <1>5, Zenon DEF ScannedRow, mark
  <2> HIDE DEF cleared
  <2> QED
    BY <2>2, <2>3, ZenonT(40) DEF QuarantinedRow
<1>6. ASSUME NEW n \in 1 .. row.failures + 1, row' = FailedRow(row, n)
      PROVE  row' \in Row /\ row'.gen = row.gen /\ row'.desired = row.desired
  <2>1. n \in Nat /\ (n >= RestartLimit) \in BOOLEAN
    BY SMT, SMTT(30)
  <2> QED
    BY <1>6, <2>1, Zenon DEF FailedRow
<1>7. ASSUME row' = SuppressedRow(row)
      PROVE  row' \in Row /\ row'.gen = row.gen /\ row'.desired = row.desired
  BY <1>7, Zenon DEF SuppressedRow
<1> QED
  BY <1>1, <1>2, <1>3, <1>4, <1>5, <1>6, <1>7, ZenonT(40) DEF RowChange

-----------------------------------------------------------------------------
(* The control of a serve request: its handler, its task, its cleanup.      *)

Place == ServePc \union CleanupPc \union StopPc \union CancelPc
TaskRecord == [pc: Place, op: Nat, gen: 0 .. MaxGen, proc: Nat]
TaskType == task \in [Task -> TaskRecord]

\* The types the proofs need.  rec.op is left open: complete_recovered_operation
\* looks for the newest operation, and that a finite set has a greatest element
\* is an induction.
RecType ==
  /\ rec = [pc |-> rec.pc, row |-> rec.row, seen |-> rec.seen, ops |-> rec.ops,
            kind |-> rec.kind, op |-> rec.op]
  /\ rec.pc \in RecPc /\ rec.row \in Row /\ rec.seen \in Container
OpRecord == [kind: {"serve", "stop"}, st: OpState, gen: 0 .. MaxGen, reused: BOOLEAN]
Types ==
  /\ row \in Row /\ ops \in Seq(OpRecord) /\ ctr \in [Gen -> Container]
  /\ TaskType /\ RecType

(* Goto moves one task and keeps what it carries.                           *)
LEMMA GotoMoves ==
  ASSUME TaskType, NEW t \in Task, NEW pc \in Place, Goto(t, pc)
  PROVE  /\ TaskType'
         /\ task'[t].pc = pc /\ task'[t].op = task[t].op
         /\ task'[t].gen = task[t].gen /\ task'[t].proc = task[t].proc
         /\ \A x \in Task \ {t} : task'[x] = task[x]
  BY Zenon DEF TaskType, TaskRecord, Goto

\* From the new generation on, a serve request has one, and so has the pass
\* that took the lease.
BeforeGeneration == {"new", "accept", "begin", "reuse", "reused", "scan", "done"}
GenKnown ==
  /\ \A t \in Serve : task[t].pc \notin BeforeGeneration => task[t].gen \in Gen
  /\ rec.pc \notin {"idle", "scan", "decide"} => RecGen \in Gen

\* Where a serve request goes from each place.
ServeEdge(from, to) ==
  \/ from = "new" /\ to = "accept"
  \/ from = "accept" /\ to = "begin"
  \/ from = "begin" /\ to \in {"spawn", "reuse"}
  \/ from = "reuse" /\ to = "reused"
  \/ from = "spawn" /\ to = "claim"
  \/ from = "claim" /\ to = "check1"
  \/ from = "check1" /\ to \in {"prepare", "undo1"}
  \/ from = "prepare" /\ to \in {"check2", "fail1"}
  \/ from = "check2" /\ to \in {"create", "undo1"}
  \/ from = "create" /\ to = "start"
  \/ from = "start" /\ to \in {"check3", "fail1"}
  \/ from = "check3" /\ to \in {"wait", "undo1"}
  \/ from = "wait" /\ to = "stopped"
  \/ from = "stopped" /\ to = "ready"
  \/ from = "ready" /\ to \in {"undo1", "fail1", "probe"}
  \/ from = "probe" /\ to \in {"check4", "fail1"}
  \/ from = "check4" /\ to \in {"promote", "undo1"}
  \/ from = "promote" /\ to \in {"healthy", "fail1"}
  \/ from = "healthy" /\ to \in {"publish", "fail1"}
  \/ from = "publish" /\ to = "succeed"
  \/ from = "succeed" /\ to = "list"
  \/ from = "list" /\ to = "scan"
  \/ from = "fail1" /\ to = "fail2"
  \/ from = "fail2" /\ to = "fail3"
  \/ from = "fail3" /\ to = "fail4"
  \/ from = "fail4" /\ to = "fail5"
  \/ from = "undo1" /\ to = "undo2"
  \/ from = "undo2" /\ to = "undo3"
  \/ from \notin {"new", "done"} /\ to = "done"

\* A step of the serve request t: what it does to the tasks and the lease.
ServeMoved(t) ==
  /\ TaskType'
  /\ \A x \in Task \ {t} : task'[x] = task[x]
  /\ ServeEdge(task[t].pc, task'[t].pc)
  /\ task'[t].op = task[t].op \/ (task[t].pc = "accept" /\ task'[t].pc = "begin")
  /\ task'[t].gen = task[t].gen \/ task'[t].pc \in {"spawn", "scan"}
  /\ task'[t].pc = "spawn" => (row.gen < MaxGen /\ task'[t].gen = row.gen + 1)
  /\ task'[t].proc = task[t].proc \/ task[t].pc \in {"start", "wait"}
  /\ IF task'[t].pc = "done" THEN Release(t)
     ELSE IF task[t].pc = "new" THEN lease = "none" /\ lease' = t /\ phase = "up"
     ELSE UNCHANGED lease
  /\ UNCHANGED <<rec, phase, orphans, journal>>


(* The control flow of serve_instance, run_serve, fail_serve and            *)
(* cancel_prehealth_serve.                                                  *)
LEMMA ServeMoves ==
  ASSUME Types, GenKnown, NEW t \in Serve, ServeActs(t)
  PROVE  ServeMoved(t)
<1>0. t \in Task /\ TaskType
  BY Zenon DEF Types, Task
<1>1. ASSUME NEW pc \in Place, Goto(t, pc), pc \notin {"done", "spawn"}, task[t].pc # "new",
             ServeEdge(task[t].pc, pc), UNCHANGED <<lease, rec, phase, orphans, journal>>
      PROVE  ServeMoved(t)
  BY <1>0, <1>1, GotoMoves, Zenon DEF ServeMoved
<1>2. ASSUME Finish(t), task[t].pc \notin {"new", "done"}, UNCHANGED <<rec, phase, orphans, journal>>
      PROVE  ServeMoved(t)
  <2>1. "done" \in Place
    BY Zenon DEF Place, ServePc
  <2> QED
    BY <1>0, <1>2, <2>1, GotoMoves, Zenon DEF ServeMoved, Finish, ServeEdge
<1>3. ServePc \subseteq Place /\ CleanupPc \subseteq Place
  BY Zenon  DEF Place
<1> USE DEF ServePc, CleanupPc, At
<1>4. CASE ServeAcquire(t)
  <2>1. Goto(t, "accept") /\ "accept" \in Place
    BY <1>3, <1>4, Zenon DEF ServeAcquire
  <2> QED
    BY <1>0, <1>4, <2>1, GotoMoves, Zenon DEF ServeMoved, ServeAcquire, ServeEdge
<1>5. CASE ServeAccept(t)
  <2>1. /\ task' = [task EXCEPT ![t].pc = "begin", ![t].op = Len(ops) + 1]
        /\ task[t].pc = "accept" /\ UNCHANGED <<lease, rec, phase, orphans, journal>>
    BY <1>5, Zenon DEF ServeAccept
  <2>2. Len(ops) + 1 \in Nat /\ "begin" \in Place
    BY <1>3, SMT, SMTT(30) DEF Types
  <2>3. /\ TaskType' /\ task'[t].pc = "begin" /\ task'[t].gen = task[t].gen
        /\ task'[t].proc = task[t].proc /\ \A x \in Task \ {t} : task'[x] = task[x]
    BY <1>0, <2>1, <2>2, ZenonT(40) DEF TaskType, TaskRecord
  <2>4. ServeEdge("accept", "begin")
    BY Zenon  DEF ServeEdge
  <2> QED
    BY <2>1, <2>3, <2>4, Zenon DEF ServeMoved
<1>6. CASE ServeBegin(t)
  <2>1. /\ task' = [task EXCEPT ![t].pc = "spawn", ![t].gen = row.gen + 1] /\ row.gen < MaxGen
        /\ task[t].pc = "begin" /\ UNCHANGED <<lease, rec, phase, orphans, journal>>
    BY <1>6, Zenon DEF ServeBegin
  <2>2. row.gen + 1 \in 0 .. MaxGen /\ "spawn" \in Place
    BY <1>3, <2>1, LifecycleAssumption, SMT, SMTT(30) DEF Types, Row
  <2>3. /\ TaskType' /\ task'[t].pc = "spawn" /\ task'[t].gen = row.gen + 1
        /\ task'[t].op = task[t].op /\ task'[t].proc = task[t].proc
        /\ \A x \in Task \ {t} : task'[x] = task[x]
    BY <1>0, <2>1, <2>2, Zenon DEF TaskType, TaskRecord
  <2>4. ServeEdge("begin", "spawn")
    BY Zenon  DEF ServeEdge
  <2> QED
    BY <2>1, <2>3, <2>4, Zenon DEF ServeMoved
<1>7. CASE ServeReuse(t)
  BY <1>1, <1>3, <1>7, Zenon DEF ServeReuse, ServeEdge
<1>8. CASE ServeReused(t)
  BY <1>1, <1>2, <1>3, <1>8, Zenon DEF ServeReused, ServeEdge
<1>9. CASE ServeConflict(t)
  BY <1>2, <1>9, Zenon DEF ServeConflict
<1>10. CASE ServeSpawn(t)
  BY <1>1, <1>3, <1>10, Zenon DEF ServeSpawn, ServeEdge
<1>11. CASE ServeClaim(t)
  BY <1>1, <1>2, <1>3, <1>11, SMT, SMTT(30) DEF ServeClaim, ServeEdge
<1>12. CASE ServeCheck(t)
  BY <1>1, <1>3, <1>12, SMT, SMTT(30) DEF ServeCheck, ServeEdge
<1>13. CASE ServePrepare(t)
  BY <1>1, <1>3, <1>13, Zenon DEF ServePrepare, ServeEdge
<1>14. CASE ServeStart(t)
  <2>1. CASE Goto(t, "fail1")
    BY <1>1, <1>3, <1>14, <2>1, ZenonT(40) DEF ServeStart, ServeEdge
  <2>2. CASE task' = [task EXCEPT ![t].pc = "check3", ![t].proc = ctr[task[t].gen].proc + 1]
    <3>1. task[t].pc = "start" /\ UNCHANGED <<lease, rec, phase, orphans, journal>>
      BY <1>14, Zenon DEF ServeStart
    <3>2. task[t].gen \in Gen
      BY <3>1, Zenon DEF GenKnown, BeforeGeneration
    <3>3. ctr[task[t].gen] \in Container
      BY <3>2, Zenon DEF Types
    <3>4. ctr[task[t].gen].proc + 1 \in Nat /\ "check3" \in Place
      BY <1>3, <3>3, SMT, SMTT(30) DEF Container
    <3>5. /\ TaskType' /\ task'[t].pc = "check3" /\ task'[t].gen = task[t].gen
          /\ task'[t].op = task[t].op /\ \A x \in Task \ {t} : task'[x] = task[x]
      BY <1>0, <2>2, <3>4, ZenonT(40) DEF TaskType, TaskRecord
    <3>6. ServeEdge("start", "check3")
      BY Zenon  DEF ServeEdge
    <3> QED
      BY <3>1, <3>5, <3>6, Zenon DEF ServeMoved
  <2> QED
    BY <1>14, <2>1, <2>2, Zenon DEF ServeStart
<1>15. CASE ServeWait(t)
  <2>1. CASE Goto(t, "stopped")
    BY <1>1, <1>3, <1>15, <2>1, Zenon DEF ServeWait, ServeEdge
  <2>2. CASE task' = [task EXCEPT ![t].pc = "stopped", ![t].proc = 0]
    <3>1. task[t].pc = "wait" /\ UNCHANGED <<lease, rec, phase, orphans, journal>>
      BY <1>15, Zenon DEF ServeWait
    <3>2. /\ TaskType' /\ task'[t].pc = "stopped" /\ task'[t].gen = task[t].gen
          /\ task'[t].op = task[t].op /\ \A x \in Task \ {t} : task'[x] = task[x]
      <4>1. 0 \in Nat /\ "stopped" \in Place
        BY <1>3, Zenon
      <4> QED
        BY <1>0, <2>2, <4>1, ZenonT(40) DEF TaskType, TaskRecord
    <3>3. ServeEdge("wait", "stopped")
      BY Zenon  DEF ServeEdge
    <3> QED
      BY <3>1, <3>2, <3>3, Zenon DEF ServeMoved
  <2> QED
    BY <1>15, <2>1, <2>2, Zenon DEF ServeWait
<1>16. CASE ServeStopped(t)
  BY <1>1, <1>2, <1>3, <1>16, Zenon DEF ServeStopped, ServeEdge
<1>17. CASE ServeReady(t)
  BY <1>1, <1>3, <1>17, Zenon DEF ServeReady, ServeEdge
<1>18. CASE ServeProbe(t)
  BY <1>1, <1>3, <1>18, Zenon DEF ServeProbe, ServeEdge
<1>19. CASE ServePromote(t)
  BY <1>1, <1>3, <1>19, ZenonT(40) DEF ServePromote, ServeEdge
<1>20. CASE ServeHealthy(t)
  BY <1>1, <1>3, <1>20, Zenon DEF ServeHealthy, ServeEdge
<1>21. CASE ServePublish(t)
  BY <1>1, <1>3, <1>21, Zenon DEF ServePublish, ServeEdge
<1>22. CASE ServeSucceed(t)
  BY <1>1, <1>3, <1>22, Zenon DEF ServeSucceed, ServeEdge
<1>23. CASE ServeList(t)
  <2>1. Expected(row) \in 0 .. MaxGen /\ "scan" \in Place
    BY <1>3, LifecycleAssumption, SMT, SMTT(30) DEF Expected, Types, Row
  <2>2. /\ task' = [task EXCEPT ![t].pc = "scan", ![t].gen = Expected(row)]
        /\ task[t].pc = "list" /\ UNCHANGED <<lease, rec, phase, orphans, journal>>
    BY <1>23, Zenon DEF ServeList
  <2>3. /\ TaskType' /\ task'[t].pc = "scan" /\ task'[t].op = task[t].op
        /\ task'[t].proc = task[t].proc /\ \A x \in Task \ {t} : task'[x] = task[x]
    BY <1>0, <2>1, <2>2, ZenonT(40) DEF TaskType, TaskRecord
  <2>4. ServeEdge("list", "scan")
    BY Zenon  DEF ServeEdge
  <2> QED
    BY <2>2, <2>3, <2>4, ZenonT(40) DEF ServeMoved
<1>24. CASE ServeScan(t)
  BY <1>2, <1>24, Zenon DEF ServeScan
<1>25. CASE FailDrain(t)
  BY <1>1, <1>3, <1>25, Zenon DEF FailDrain, ServeEdge
<1>26. CASE FailDone(t)
  BY <1>1, <1>2, <1>3, <1>26, ZenonT(40) DEF FailDone, ServeEdge
<1>27. CASE CleanupStop(t)
  BY <1>1, <1>3, <1>27, SMT, SMTT(30) DEF CleanupStop, ServeEdge
<1>28. CASE CleanupIntent(t)
  BY <1>1, <1>3, <1>28, SMT, SMTT(30) DEF CleanupIntent, ServeEdge
<1>29. CASE UndoDone(t)
  BY <1>2, <1>29, Zenon DEF UndoDone
<1>30. CASE HandlerDropped(t)
  BY <1>2, <1>30, Zenon DEF HandlerDropped
<1> QED
  BY <1>4, <1>5, <1>6, <1>7, <1>8, <1>9, <1>10, <1>11, <1>12, <1>13, <1>14, <1>15, <1>16,
     <1>17, <1>18, <1>19, <1>20, <1>21, <1>22, <1>23, <1>24, <1>25, <1>26, <1>27, <1>28,
     <1>29, <1>30, Zenon
     DEF ServeActs, ServeStep, CleanupStep

-----------------------------------------------------------------------------
(* The control of stop and cancel requests.                                 *)

\* A step of the stop or cancel request t.
OtherMoved(t) ==
  /\ TaskType'
  /\ \A x \in Task \ {t} : task'[x] = task[x]
  /\ task[t].pc # "done" /\ task'[t].pc # "new"
  /\ task'[t].op = task[t].op \/ task[t].pc = "new"
  /\ UNCHANGED lease \/ Release(t)
  /\ UNCHANGED <<rec, phase, orphans, journal>>

(* The control flow of stop_instance, run_stop and cancel_operation.        *)
LEMMA OtherMoves ==
  ASSUME Types, NEW t \in Stop \union Cancel, OtherActs(t)
  PROVE  OtherMoved(t)
<1>0. t \in Task /\ TaskType
  BY Zenon  DEF Types, Task
<1>1. ASSUME NEW pc \in Place, Goto(t, pc), pc # "new", task[t].pc # "done",
             UNCHANGED lease \/ Release(t), UNCHANGED <<rec, phase, orphans, journal>>
      PROVE  OtherMoved(t)
  BY <1>0, <1>1, GotoMoves, Zenon DEF OtherMoved
<1>2. StopPc \subseteq Place /\ CancelPc \subseteq Place /\ CleanupPc \subseteq Place
  BY Zenon DEF Place
<1>3. row.gen \in 0 .. MaxGen /\ Len(ops) + 1 \in Nat /\ \A i \in DOMAIN ops : i \in Nat
  BY SMT, SMTT(30) DEF Types, Row
<1> USE DEF StopPc, CancelPc, CleanupPc, At
<1>4. CASE StopAccept(t)
  <2>1. /\ task' = [task EXCEPT ![t].pc = "begin", ![t].op = Len(ops) + 1]
        /\ task[t].pc = "new" /\ UNCHANGED <<lease, rec, phase, orphans, journal>>
    BY <1>4, Zenon DEF StopAccept
  <2> QED
    BY <1>0, <1>2, <1>3, <2>1, ZenonT(40) DEF OtherMoved, TaskType, TaskRecord
<1>5. CASE StopBegin(t)
  <2>1. PICK pc \in {"absent", "drain"} : task' = [task EXCEPT ![t].gen = row.gen, ![t].pc = pc]
    BY <1>5, Zenon DEF StopBegin
  <2>2. task[t].pc = "begin" /\ UNCHANGED <<lease, rec, phase, orphans, journal>>
    BY <1>5, Zenon DEF StopBegin
  <2> QED
    BY <1>0, <1>2, <1>3, <2>1, <2>2, ZenonT(40) DEF OtherMoved, TaskType, TaskRecord
<1>6. CASE StopAbsent(t) \/ StopDrain(t) \/ StopGone(t) \/ StopSettle(t) \/ StopKept(t)
  BY <1>1, <1>2, <1>6, Zenon DEF StopAbsent, StopDrain, StopGone, StopSettle, StopKept
<1>7. CASE StopCall(t)
  BY <1>1, <1>2, <1>7, Zenon DEF StopCall
<1>8. CASE StopInspect(t)
  BY <1>1, <1>2, <1>8, Zenon DEF StopInspect
<1>9. CASE CancelRead(t)
  <2>1. PICK i \in DOMAIN ops : task' = [task EXCEPT ![t].pc = "commit", ![t].op = i]
    BY <1>9, Zenon DEF CancelRead
  <2>2. task[t].pc = "new" /\ UNCHANGED <<lease, rec, phase, orphans, journal>>
    BY <1>9, Zenon DEF CancelRead
  <2> QED
    BY <1>0, <1>2, <1>3, <2>1, <2>2, ZenonT(40) DEF OtherMoved, TaskType, TaskRecord
<1>10. CASE CancelCommit(t)
  BY <1>1, <1>2, <1>10, Zenon DEF CancelCommit
<1>11. CASE CancelTarget(t)
  <2>1. task[t].pc = "read" /\ UNCHANGED <<lease, rec, phase, orphans, journal>>
    BY <1>11, Zenon DEF CancelTarget
  <2>2. CASE task' = [task EXCEPT ![t].pc = "undo1", ![t].gen = row.gen]
    BY <1>0, <1>2, <1>3, <2>1, <2>2, ZenonT(40) DEF OtherMoved, TaskType, TaskRecord
  <2>3. CASE Goto(t, "done")
    BY <1>1, <1>2, <2>1, <2>3, Zenon
  <2> QED
    BY <1>11, <2>2, <2>3, Zenon DEF CancelTarget
<1>12. CASE CleanupStop(t) \/ CleanupIntent(t)
  BY <1>1, <1>2, <1>12, SMT, SMTT(30) DEF CleanupStop, CleanupIntent
<1>13. CASE UndoDone(t) \/ HandlerDropped(t)
  BY <1>1, <1>2, <1>13, ZenonT(40) DEF UndoDone, HandlerDropped, Finish
<1> QED
  BY <1>4, <1>5, <1>6, <1>7, <1>8, <1>9, <1>10, <1>11, <1>12, <1>13, ZenonT(40)
     DEF OtherActs, StopStep, CancelStep, CleanupStep

-----------------------------------------------------------------------------
(* The control of the reconciliation pass.                                  *)

Unleased == {"idle", "scan", "decide"}

\* Where the pass goes from each place, unless it ends.
RecEdge(from, to) ==
  \/ from = "idle" /\ to = "scan"
  \/ from = "scan" /\ to = "decide"
  \/ from = "decide" /\ to \in {"stop", "absent", "running", "restart"}
  \/ from = "stop" /\ to = "absent"
  \/ from = "reap" /\ to = "failure"
  \/ from = "absent" /\ to = "finish"
  \/ from = "restart" /\ to = "allow"
  \/ from = "allow" /\ to \in {"failure", "reap"}
  \/ from = "failure" /\ to = "prepare"
  \/ from = "prepare" /\ to = "start"
  \/ from = "start" /\ to = "running"
  \/ from = "running" /\ to \in {"finish", "admit"}
  \/ from = "admit" /\ to \in {"probe", "finish"}
  \/ from = "probe" /\ to \in {"healthy", "promote", "unready"}
  \/ from = "unready" /\ to = "finish"
  \/ from = "promote" /\ to = "healthy"
  \/ from = "healthy" /\ to = "publish"
  \/ from = "publish" /\ to = "finish"
  \/ from = "finish" /\ to = "complete"
  \/ from = "complete" /\ to = "succeed"

\* The pass ends, complete or aborted.
RecOver ==
  /\ rec.pc # "idle" /\ RecReturn
  /\ IF rec.pc \in Unleased THEN UNCHANGED lease ELSE Release("reconciler")

\* The pass goes on.
RecOn ==
  /\ RecEdge(rec.pc, rec'.pc)
  /\ rec'.row = IF rec.pc = "idle" THEN row ELSE rec.row
  /\ rec'.seen = rec.seen \/ rec.pc \in {"scan", "start"}
  /\ IF rec.pc = "decide" THEN lease = "none" /\ lease' = "reconciler" /\ RecGen # 0
                          ELSE UNCHANGED lease
  /\ IF rec.pc = "idle" THEN phase \in {"up", "reconcile"} ELSE TRUE
  /\ UNCHANGED phase

RecMoved == RecType' /\ (RecOver \/ RecOn) /\ UNCHANGED <<task, orphans, journal>>

(* Every pass starts from a state of these types.                           *)
LEMMA IdleRecType == ASSUME rec' = IdleRec PROVE RecType' /\ rec'.pc = "idle"
<1>1. NoInstance \in Row /\ NoContainer \in Container
  BY LifecycleAssumption, SMT, SMTT(30) DEF NoInstance, Row, Observed, NoContainer, Container
<1> QED
  BY <1>1, Zenon DEF RecType, IdleRec, RecPc

(* RecGoto and RecFinish keep the snapshots.                                *)
LEMMA RecGotoMoves ==
  ASSUME RecType, NEW pc \in RecPc,
         \/ RecGoto(pc)
         \/ pc = "finish" /\ \E kind \in {"serve", "stop"} : RecFinish(kind)
  PROVE  RecType' /\ rec'.pc = pc /\ rec'.row = rec.row /\ rec'.seen = rec.seen /\ UNCHANGED phase
  BY ZenonT(40)  DEF RecType, RecGoto, RecFinish

(* The control flow of reconcile_once.                                      *)
LEMMA RecMoves ==
  ASSUME Types, GenKnown, RecStep
  PROVE  RecMoved
<1> USE DEF RecMoved
<1>0. RecType
  BY Zenon  DEF Types
<1>1. ASSUME RecReturn, rec.pc \in {"scan", "decide"}, UNCHANGED <<lease, task, orphans, journal>>
      PROVE  RecMoved
  BY <1>1, IdleRecType, Zenon DEF RecReturn, RecOver, Unleased
<1>2. ASSUME RecEnd, rec.pc \notin Unleased, UNCHANGED <<task, orphans, journal>>
      PROVE  RecMoved
  BY <1>2, IdleRecType, Zenon DEF RecEnd, RecReturn, RecOver, Unleased
<1>3. ASSUME NEW pc \in RecPc, RecGoto(pc), RecEdge(rec.pc, pc), rec.pc \notin Unleased,
             UNCHANGED <<lease, task, orphans, journal>>
      PROVE  RecMoved
  BY <1>0, <1>3, RecGotoMoves, Zenon DEF RecOn, Unleased
<1>4. ASSUME NEW kind \in {"serve", "stop"}, RecFinish(kind), RecEdge(rec.pc, "finish"),
             rec.pc \notin Unleased, UNCHANGED <<lease, task, orphans, journal>>
      PROVE  RecMoved
  <2>1. "finish" \in RecPc
    BY Zenon DEF RecPc
  <2> QED
    BY <1>0, <1>4, <2>1, RecGotoMoves, Zenon DEF RecOn, Unleased
<1> USE DEF RecPc, RecAt, Unleased
<1>5. CASE RecList
  <2>1. /\ rec' = [rec EXCEPT !.pc = "scan", !.row = row] /\ rec.pc = "idle" /\ row \in Row
        /\ phase \in {"up", "reconcile"} /\ UNCHANGED <<lease, task, phase, orphans, journal>>
    BY <1>5, Zenon DEF RecList, Types
  <2> QED
    BY <1>0, <2>1, Zenon DEF RecType, RecOn, RecEdge
<1>6. CASE RecScan
  <2>1. rec.pc = "scan" /\ UNCHANGED <<lease, task, orphans, journal>>
    BY <1>6, Zenon DEF RecScan
  <2>2. CASE RecReturn
    BY <1>1, <2>1, <2>2, Zenon
  <2>3. ASSUME NEW seen, seen = IF Expected(rec.row) = 0 THEN NoContainer ELSE ctr[Expected(rec.row)],
               rec' = [rec EXCEPT !.pc = "decide", !.seen = seen], UNCHANGED phase
        PROVE  RecMoved
    <3>1. Expected(rec.row) \in Gen \union {0}
      BY <1>0, SMT, SMTT(30) DEF RecType, Row, Expected, Gen
    <3>2. seen \in Container
      BY <2>3, <3>1, Zenon DEF Types, NoContainer, Container
    <3> QED
      BY <1>0, <2>1, <2>3, <3>2, Zenon DEF RecType, RecOn, RecEdge
  <2> QED
    BY <1>6, <2>2, <2>3, Zenon DEF RecScan
<1>7. CASE RecDecide
  <2>1. rec.pc = "decide" /\ UNCHANGED <<task, orphans, journal>>
    BY <1>7, Zenon DEF RecDecide
  <2>2. CASE RecReturn /\ UNCHANGED lease
    BY <1>1, <2>1, <2>2, Zenon
  <2>3. CASE ~(RecReturn /\ UNCHANGED lease)
    <3> DEFINE action == Decide(rec.row.desired, rec.seen, rec.row.suppressed)
               to == CASE action = "StopExact" -> "stop"
                       [] action = "MarkAbsent" -> "absent"
                       [] action = "PublishExact" -> "running"
                       [] action \in {"RestartExact", "DisableAndRecordFailure"} -> "restart"
               listed == [i \in DOMAIN ops |-> ops[i].st]
    <3>1. /\ RecGen # 0 /\ lease = "none" /\ action # "KeepSuppressed" /\ lease' = "reconciler"
          /\ rec' = [rec EXCEPT !.ops = listed, !.pc = to] /\ UNCHANGED phase
      BY <1>7, <2>3, Zenon DEF RecDecide
    <3>2. rec.row.desired \in {"running", "stopped"} /\ rec.seen.st \in {"none", "running", "exited"}
      BY <1>0, Zenon DEF RecType, Row, Container
    <3>3. action \in {"MarkAbsent", "StopExact", "KeepSuppressed", "RestartExact", "PublishExact",
                      "DisableAndRecordFailure"}
      BY <3>2, Zenon DEF Decide
    <3> HIDE DEF action
    <3>4. to \in {"stop", "absent", "running", "restart"}
      BY <3>1, <3>3, Zenon
    <3> HIDE DEF to, listed
    <3> QED
      BY <1>0, <2>1, <3>1, <3>4, Zenon DEF RecType, RecOn, RecEdge
  <2> QED
    BY <2>2, <2>3, Zenon
<1>8. CASE RecStop
  BY <1>2, <1>3, <1>8, SMT, SMTT(30) DEF RecStop, RecEdge
<1>9. CASE RecAbsent
  BY <1>2, <1>4, <1>9, Zenon DEF RecAbsent, RecEdge
<1>10. CASE RecRestart
  BY <1>3, <1>10, Zenon DEF RecRestart, RecEdge
<1>11. CASE RecAllow
  BY <1>2, <1>3, <1>11, Zenon DEF RecAllow, RecEdge
<1>12. CASE RecFailure
  BY <1>2, <1>3, <1>12, Zenon DEF RecFailure, RecEdge
<1>13. CASE RecPrepare
  BY <1>2, <1>3, <1>13, ZenonT(40) DEF RecPrepare, RecEdge
<1>14. CASE RecStart
  <2>1. rec.pc = "start" /\ UNCHANGED <<task, orphans, journal>>
    BY <1>14, Zenon DEF RecStart
  <2>2. CASE RecEnd
    BY <1>2, <2>1, <2>2, Zenon
  <2>3. ASSUME rec' = [rec EXCEPT !.pc = "running", !.seen = Started(ctr[RecGen])],
               UNCHANGED <<phase, lease>>
        PROVE  RecMoved
    <3>1. ctr[RecGen] \in Container
      BY <2>1, Zenon DEF GenKnown, Types
    <3>2. Started(ctr[RecGen]) \in Container
      BY <3>1, SMT, SMTT(30) DEF Started, Container
    <3> QED
      BY <1>0, <2>1, <2>3, <3>2, Zenon DEF RecType, RecOn, RecEdge
  <2> QED
    BY <1>14, <2>2, <2>3, ZenonT(40) DEF RecStart
<1>15. CASE RecRunning
  BY <1>3, <1>4, <1>15, Zenon DEF RecRunning, RecEdge
<1>16. CASE RecAdmit
  BY <1>2, <1>3, <1>4, <1>16, Zenon DEF RecAdmit, RecEdge
<1>17. CASE RecProbe
  BY <1>3, <1>17, Zenon DEF RecProbe, RecEdge
<1>18. CASE RecUnready
  BY <1>2, <1>4, <1>18, Zenon DEF RecUnready, RecEdge
<1>19. CASE RecPromote
  BY <1>2, <1>3, <1>19, Zenon DEF RecPromote, RecEdge
<1>20. CASE RecHealthy
  BY <1>2, <1>3, <1>20, ZenonT(40) DEF RecHealthy, RecEdge
<1>21. CASE RecPublish
  BY <1>4, <1>21, Zenon DEF RecPublish, RecEdge
<1>22. CASE RecCheck
  <2>1. rec.pc = "finish" /\ UNCHANGED <<task, orphans, journal>>
    BY <1>22, Zenon DEF RecCheck
  <2>2. CASE RecEnd
    BY <1>2, <2>1, <2>2, ZenonT(40)
  <2>3. ASSUME NEW op, rec' = [rec EXCEPT !.pc = "complete", !.op = op], UNCHANGED <<phase, lease>>
        PROVE  RecMoved
    BY <1>0, <2>1, <2>3, ZenonT(40) DEF RecType, RecOn, RecEdge
  <2> QED
    BY <1>22, <2>2, <2>3, ZenonT(40) DEF RecCheck
<1>23. CASE RecComplete
  BY <1>2, <1>3, <1>23, Zenon DEF RecComplete, RecEdge
<1> QED
  BY <1>5, <1>6, <1>7, <1>8, <1>9, <1>10, <1>11, <1>12, <1>13, <1>14, <1>15, <1>16, <1>17,
     <1>18, <1>19, <1>20, <1>21, <1>22, <1>23, Zenon
     DEF RecStep

-----------------------------------------------------------------------------
(* The containers.                                                          *)

CtrType == ctr \in [Gen -> Container]

\* No container appears and none is started from nothing.
NothingStarts == \A g \in Gen : ctr[g].st = "none" => ctr'[g].st # "running"

(* What the executor does to a container record.                            *)
LEMMA ContainerChanges ==
  ASSUME NEW c \in Container
  PROVE  /\ Started(c) \in Container /\ Removed(c) \in Container /\ Halted(c) \in Container
         /\ \A auto \in BOOLEAN : /\ [c EXCEPT !.auto = auto] \in Container
                                  /\ [c EXCEPT !.auto = auto].st = c.st
         /\ Removed(c).st = "none" /\ Halted(c).st = "exited"
<1> USE DEF Container
<1>1. Started(c) \in Container
  BY SMT, SMTT(30) DEF Started
<1>2. Removed(c) \in Container /\ Removed(c).st = "none"
  BY Zenon  DEF Removed
<1>3. Halted(c) \in Container /\ Halted(c).st = "exited"
  BY Zenon  DEF Halted
<1>4. ASSUME NEW auto \in BOOLEAN
      PROVE  [c EXCEPT !.auto = auto] \in Container /\ [c EXCEPT !.auto = auto].st = c.st
  BY Zenon
<1> QED
  BY <1>1, <1>2, <1>3, <1>4, Zenon

(* A change of one container.                                               *)
LEMMA OneContainer ==
  ASSUME CtrType, NEW g, NEW c, g \in Gen => c \in Container, ctr' = [ctr EXCEPT ![g] = c]
  PROVE  CtrType' /\ \A x \in Gen : ctr'[x] = IF x = g THEN c ELSE ctr[x]
  BY Zenon  DEF CtrType

(* A start touches the container of its generation only.                    *)
LEMMA StartCalls ==
  ASSUME CtrType, NEW g, StartOk(g) \/ StartErr(g)
  PROVE  CtrType' /\ \A x \in Gen \ {g} : ctr'[x] = ctr[x]
<1>1. g \in Gen => Started(ctr[g]) \in Container
  BY ContainerChanges, Zenon DEF CtrType
<1>2. UNCHANGED ctr \/ ctr' = [ctr EXCEPT ![g] = Started(ctr[g])]
  BY Zenon DEF StartOk, StartErr
<1> QED
  BY <1>1, <1>2, OneContainer, Zenon DEF CtrType

(* No other call of the executor starts anything.                           *)
LEMMA OtherCalls ==
  ASSUME CtrType,
         \E g : \/ StopOk(g) \/ StopErr(g) \/ PromoteOk(g) \/ PromoteErr(g)
                \/ ctr' = Disabled(g) \/ ctr' = Scanned(g)
  PROVE  CtrType' /\ NothingStarts
<1>1. PICK g : \/ StopOk(g) \/ StopErr(g) \/ PromoteOk(g) \/ PromoteErr(g)
               \/ ctr' = Disabled(g) \/ ctr' = Scanned(g)
  BY Zenon
<1>2. CASE ctr' = Scanned(g)
  <2>1. ASSUME NEW x \in Gen PROVE ctr'[x] \in Container /\ ctr'[x].st = ctr[x].st
    <3>1. ctr[x] \in Container
      BY Zenon DEF CtrType
    <3>2. ctr'[x] \in {ctr[x], [ctr[x] EXCEPT !.auto = FALSE]}
      BY <1>2, Zenon DEF Scanned
    <3> QED
      BY <3>1, <3>2, ContainerChanges, ZenonT(40)
  <2>2. ctr' = [x \in Gen |-> ctr'[x]]
    BY <1>2, Zenon DEF Scanned
  <2>3. CtrType'
    BY <2>1, <2>2, Zenon DEF CtrType
  <2> QED
    BY <2>1, <2>3, Zenon DEF NothingStarts
<1>3. ASSUME NEW c \in {Removed(ctr[g]), Halted(ctr[g]), [ctr[g] EXCEPT !.auto = TRUE],
                         [ctr[g] EXCEPT !.auto = FALSE]},
             ctr' = [ctr EXCEPT ![g] = c]
      PROVE  CtrType' /\ NothingStarts
  <2>1. g \in Gen => c \in Container /\ (c.st = ctr[g].st \/ c.st # "running")
    <3> SUFFICES ASSUME g \in Gen PROVE c \in Container /\ (c.st = ctr[g].st \/ c.st # "running")
      BY Zenon
    <3>1. ctr[g] \in Container
      BY Zenon DEF CtrType
    <3> QED
      BY <1>3, <3>1, ContainerChanges, ZenonT(40)
  <2>2. CtrType' /\ \A x \in Gen : ctr'[x] = IF x = g THEN c ELSE ctr[x]
    BY <1>3, <2>1, OneContainer, ZenonT(40)
  <2> QED
    BY <2>1, <2>2, Zenon DEF NothingStarts
<1>4. ASSUME UNCHANGED ctr PROVE CtrType' /\ NothingStarts
  BY <1>4, Zenon DEF CtrType, NothingStarts
<1>5. CASE ctr' # Scanned(g)
  <2>1. \/ UNCHANGED ctr
        \/ \E c \in {Removed(ctr[g]), Halted(ctr[g]), [ctr[g] EXCEPT !.auto = TRUE],
                     [ctr[g] EXCEPT !.auto = FALSE]} : ctr' = [ctr EXCEPT ![g] = c]
    BY <1>1, <1>5, Zenon DEF StopOk, StopErr, PromoteOk, PromoteErr, Disabled
  <2> QED
    BY <1>3, <1>4, <2>1, Zenon
<1> QED
  BY <1>2, <1>5, Zenon

\* Who creates a container: a serve request or the pass, at its start step, or
\* a call that outlived its agent.
StartsBySomeone ==
  \/ \E t \in Serve : At(t, "start") /\ \A x \in Gen \ {task[t].gen} : ctr'[x] = ctr[x]
  \/ RecAt("start") /\ \A x \in Gen \ {RecGen} : ctr'[x] = ctr[x]
  \/ orphans' # orphans

(* Every step keeps the types of the containers, and creates one only so.   *)
LEMMA CtrMoves ==
  ASSUME CtrType, [Next]_vars
  PROVE  CtrType' /\ (NothingStarts \/ StartsBySomeone)
<1> DEFINE Goal == CtrType' /\ (NothingStarts \/ StartsBySomeone)
<1>1. ASSUME UNCHANGED ctr PROVE Goal
  BY <1>1, Zenon DEF CtrType, NothingStarts
<1>2. ASSUME \E g : \/ StopOk(g) \/ StopErr(g) \/ PromoteOk(g) \/ PromoteErr(g)
                    \/ ctr' = Disabled(g) \/ ctr' = Scanned(g)
      PROVE  Goal
  BY <1>2, OtherCalls, Zenon
<1> HIDE DEF Goal
<1>3. ASSUME NEW t \in Serve, ServeActs(t) PROVE Goal
  <2>1. CASE ServeStart(t)
    BY <2>1, StartCalls, Zenon DEF ServeStart, StartsBySomeone, Goal
  <2>2. CASE ServePromote(t) \/ ServeScan(t) \/ CleanupStop(t)
    BY <1>1, <1>2, <2>2, Zenon DEF ServePromote, ServeScan, CleanupStop
  <2> QED
    BY <1>1, <1>3, <2>1, <2>2, ServeFrames, Zenon DEF ServeFrame
<1>4. ASSUME NEW t \in Stop \union Cancel, OtherActs(t) PROVE Goal
  <2>1. CASE StopCall(t) \/ StopInspect(t) \/ CleanupStop(t)
    BY <1>1, <1>2, <2>1, Zenon DEF StopCall, StopInspect, CleanupStop
  <2> QED
    BY <1>1, <1>4, <2>1, OtherFrames, Zenon DEF OtherFrame
<1>5. ASSUME RecStep PROVE Goal
  <2>1. CASE RecStart
    BY <2>1, StartCalls, Zenon DEF RecStart, StartsBySomeone, Goal
  <2>2. CASE RecScan \/ RecStop \/ RecPromote
    BY <1>1, <1>2, <2>2, ZenonT(40) DEF RecScan, RecStop, RecPromote
  <2>3. CASE RecAdmit \/ RecProbe
    BY <1>1, <1>2, <2>3, Zenon DEF RecAdmit, RecProbe
  <2> QED
    BY <1>1, <1>5, <2>1, <2>2, <2>3, RecFrames, ZenonT(40) DEF RecFrame
<1>6. ASSUME NEW g \in Gen, EngineDies(g) \/ DockerRestarts(g) \/ Emergency(g) PROVE Goal
  <2> DEFINE dead == [ctr[g] EXCEPT !.st = "exited"]
             again == [ctr[g] EXCEPT !.st = "running", !.proc = ctr[g].proc + 1]
  <2>1. ctr[g] \in Container /\ ctr[g].st # "none"
    BY <1>6, Zenon DEF CtrType, EngineDies, DockerRestarts, Emergency
  <2>2. dead \in Container
    BY <2>1, Zenon DEF Container
  <2>3. again \in Container
    <3>1. ctr[g].proc + 1 \in Nat
      BY <2>1, SMT, SMTT(30) DEF Container
    <3> QED
      BY <2>1, <3>1, Zenon DEF Container
  <2>4. Halted(ctr[g]) \in Container
    BY <2>1, ContainerChanges, Zenon
  <2>5. PICK c \in {dead, again, Halted(ctr[g])} : ctr' = [ctr EXCEPT ![g] = c]
    BY <1>6, Zenon DEF EngineDies, DockerRestarts, Emergency
  <2> HIDE DEF dead, again
  <2>6. CtrType' /\ \A x \in Gen : ctr'[x] = IF x = g THEN c ELSE ctr[x]
    BY <2>2, <2>3, <2>4, <2>5, OneContainer, ZenonT(40)
  <2> QED
    BY <2>1, <2>6, Zenon DEF Goal, NothingStarts
<1>7. ASSUME NEW o \in orphans, OrphanRuns(o) PROVE Goal
  <2>1. orphans' # orphans
    BY <1>7, Zenon DEF OrphanRuns
  <2>2. CtrType'
    BY <1>7, StartCalls, OtherCalls, Zenon DEF OrphanRuns, CtrType
  <2> QED
    BY <2>1, <2>2, Zenon DEF Goal, StartsBySomeone
<1>8. ASSUME Outside \/ Crash \/ BootDegraded \/ BootStep \/ UNCHANGED vars PROVE Goal
  <2>1. CASE Outside
    BY <1>6, <1>7, <2>1, Zenon DEF Outside
  <2> QED
    BY <1>1, <1>8, <2>1, OutsideFrames, ZenonT(40) DEF OutsideFrame
<1> QED
  BY <1>3, <1>4, <1>5, <1>8, Actors, ZenonT(40) DEF Goal

-----------------------------------------------------------------------------
(* The inductive invariants.                                                *)

\* During startup no request of the old agent is alive, and before the first
\* pass none runs.
BootQuiet ==
  /\ phase # "up" => \A t \in Serve : task[t].pc \in {"new", "done"}
  /\ phase \in {"import", "tail", "degraded"} => rec.pc = "idle"

ControlInv == Types /\ GenKnown /\ StartsHoldTheLease /\ BootQuiet

\* Between the new generation and the start call nobody moves the row on or
\* suppresses it.
Starting == {"spawn", "claim", "check1", "prepare", "check2", "create", "start"}
StartInv ==
  /\ \A t \in Serve : task[t].pc \in Starting => (row.gen = task[t].gen /\ ~ row.suppressed)
  /\ rec.pc \in {"prepare", "start"} => (row.gen = RecGen /\ ~ row.suppressed)

\* A probe result travels with the process it is about until it is published.
ProbeInv ==
  /\ PublishedProcessWasProbed
  /\ \A t \in Serve : task[t].pc \in {"check4", "promote", "healthy", "publish"} =>
                         <<task[t].gen, task[t].proc>> \in probed
  /\ rec.pc \in {"promote", "healthy", "publish"} => <<RecGen, rec.seen.proc>> \in probed

\* The operations belong to the requests that created them, and a serve
\* operation fails only after its cleanup stopped the intent.
OpsInv ==
  /\ row.gen = 0 => row.desired = "stopped"
  /\ \A i \in DOMAIN ops : ops[i].gen <= row.gen
  /\ \A t \in Serve : task[t].pc \notin {"new", "accept", "done"} =>
       (task[t].op \in DOMAIN ops /\ ops[task[t].op].kind = "serve" /\ ops[task[t].op].st # "failed")
  /\ \A t \in Stop : task[t].pc \notin {"new", "done"} =>
       (task[t].op \in DOMAIN ops /\ ops[task[t].op].kind = "stop")
  /\ \A t \in Serve : task[t].pc \in {"fail4", "fail5"} =>
       (ops[task[t].op].gen = row.gen => row.desired = "stopped")

(* The control of all actors together: their types, the single lease and    *)
(* the quiet startup.                                                       *)
LEMMA ControlStep ==
  ASSUME ControlInv, [Next]_vars
  PROVE  TaskType' /\ RecType' /\ GenKnown' /\ StartsHoldTheLease' /\ BootQuiet'
<1> DEFINE Goal == TaskType' /\ RecType' /\ GenKnown' /\ StartsHoldTheLease' /\ BootQuiet'
<1>0. /\ Types /\ TaskType /\ RecType /\ GenKnown /\ StartsHoldTheLease /\ BootQuiet
      /\ Serve \subseteq Task /\ "none" \notin Serve /\ "reconciler" \notin Task
      /\ \A t \in Serve : t \notin Stop \union Cancel
  BY LifecycleAssumption, Zenon DEF ControlInv, Types, Task
<1>1. ASSUME UNCHANGED <<task, rec, lease, phase>> PROVE Goal
  BY <1>0, <1>1, Zenon DEF TaskType, RecType, GenKnown, RecGen, StartsHoldTheLease, BootQuiet
<1>2. ASSUME NEW t \in Serve, ServeActs(t) PROVE Goal
  <2>1. ServeMoved(t)
    BY <1>0, <1>2, ServeMoves, Zenon
  <2>2. /\ TaskType' /\ RecType' /\ UNCHANGED <<rec, phase>>
        /\ \A x \in Task \ {t} : task'[x] = task[x]
    BY <1>0, <2>1, Zenon DEF ServeMoved, RecType
  <2>3. /\ task[t].pc # "done" /\ task'[t].pc # "new" /\ (task[t].pc = "new" => task'[t].pc # "done")
        /\ task'[t].pc \notin BeforeGeneration \cup {"spawn"} => task[t].pc \notin BeforeGeneration
    <3>1. ServeEdge(task[t].pc, task'[t].pc)
      BY <2>1, Zenon DEF ServeMoved
    <3> QED
      BY <3>1, Zenon DEF ServeEdge, BeforeGeneration
  <2>4. task'[t].pc \notin BeforeGeneration => task'[t].gen \in Gen
    <3>1. CASE task'[t].pc = "spawn"
      <4>1. row.gen < MaxGen /\ task'[t].gen = row.gen + 1
        BY <2>1, <3>1, Zenon DEF ServeMoved
      <4>2. row.gen \in 0 .. MaxGen
        BY <1>0, Zenon DEF Types, Row
      <4> QED
        BY <4>1, <4>2, LifecycleAssumption, SMT, SMTT(30) DEF Gen
    <3>2. CASE task'[t].pc # "spawn"
      <4>1. task'[t].gen = task[t].gen \/ task'[t].pc = "scan"
        BY <2>1, <3>2, Zenon DEF ServeMoved
      <4>2. task[t].pc \notin BeforeGeneration => task[t].gen \in Gen
        BY <1>0, Zenon DEF GenKnown
      <4>3. "scan" \in BeforeGeneration
        BY Zenon DEF BeforeGeneration
      <4> QED
        BY <2>3, <3>2, <4>1, <4>2, <4>3, Zenon
    <3> QED
      BY <3>1, <3>2, Zenon
  <2>5. GenKnown'
    BY <1>0, <2>2, <2>4, Zenon DEF GenKnown, RecGen
  <2>6. /\ task'[t].pc = "done" => Release(t)
        /\ task'[t].pc # "done" /\ task[t].pc = "new" => lease = "none" /\ lease' = t /\ phase = "up"
        /\ task'[t].pc # "done" /\ task[t].pc # "new" => lease' = lease
    BY <2>1, Zenon DEF ServeMoved
  <2>7. lease = "none" \/ lease = t
    BY <1>0, <2>3, <2>6, Zenon DEF StartsHoldTheLease
  <2>8. task'[t].pc # "done" => lease' = t
    BY <1>0, <2>3, <2>6, Zenon DEF StartsHoldTheLease
  <2>9. StartsHoldTheLease'
    BY <1>0, <2>2, <2>6, <2>7, <2>8, ZenonT(40) DEF StartsHoldTheLease, Release
  <2>10. phase = "up"
    BY <1>0, <2>3, <2>6, ZenonT(40) DEF BootQuiet
  <2> QED
    BY <2>2, <2>5, <2>9, <2>10, Zenon DEF BootQuiet
<1>3. ASSUME NEW t \in Stop \union Cancel, OtherActs(t) PROVE Goal
  <2>1. OtherMoved(t)
    BY <1>0, <1>3, OtherMoves, Zenon
  <2>2. TaskType' /\ RecType' /\ UNCHANGED <<rec, phase>> /\ (UNCHANGED lease \/ Release(t))
    BY <1>0, <2>1, Zenon DEF OtherMoved, RecType
  <2>3. \A x \in Serve : task'[x] = task[x]
    BY <1>0, <1>3, <2>1, ZenonT(40) DEF OtherMoved
  <2>4. GenKnown' /\ BootQuiet'
    BY <1>0, <2>2, <2>3, Zenon DEF GenKnown, RecGen, BootQuiet
  <2>5. t \in Task
    BY Zenon  DEF Task
  <2>6. StartsHoldTheLease'
    BY <1>0, <2>2, <2>3, <2>5, Zenon DEF StartsHoldTheLease, Release
  <2> QED
    BY <2>2, <2>4, <2>6, ZenonT(40)
<1>4. ASSUME RecStep PROVE Goal
  <2>1. RecMoved
    BY <1>0, <1>4, RecMoves, Zenon
  <2>2. TaskType' /\ RecType' /\ UNCHANGED task
    BY <1>0, <2>1, Zenon DEF RecMoved, TaskType
  <2>3. CASE RecOver
    BY <1>0, <2>2, <2>3, IdleRecType, Zenon
       DEF RecOver, RecReturn, Release, GenKnown, StartsHoldTheLease, BootQuiet, Unleased
  <2>4. CASE RecOn
    <3>1. rec.row.gen \in 0 .. MaxGen
      BY <1>0, Zenon DEF RecType, Row
    <3>2. rec'.pc \notin Unleased => rec'.row = rec.row /\ rec'.row.gen \in Gen
      BY <1>0, <2>4, <3>1, SMT, SMTT(30) DEF RecOn, RecEdge, GenKnown, RecGen, Unleased, Gen
    <3>3. GenKnown'
      BY <1>0, <2>2, <3>2, Zenon DEF GenKnown, RecGen, Unleased
    <3>4. StartsHoldTheLease'
      BY <1>0, <2>2, <2>4, Zenon DEF RecOn, RecEdge, StartsHoldTheLease
    <3>5. BootQuiet'
      BY <1>0, <2>2, <2>4, Zenon DEF RecOn, RecEdge, BootQuiet
    <3> QED
      BY <2>2, <3>3, <3>4, <3>5, Zenon
  <2> QED
    BY <2>1, <2>3, <2>4, Zenon DEF RecMoved
<1>5. ASSUME Outside PROVE Goal
  BY <1>1, <1>5, Zenon DEF Outside, EngineDies, DockerRestarts, Emergency, OrphanRuns
<1>6. ASSUME Crash PROVE Goal
  <2>1. /\ task' = [t \in Task |-> IF At(t, "new") THEN task[t] ELSE [NewTask EXCEPT !.pc = "done"]]
        /\ rec' = IdleRec /\ lease' = "none"
    BY <1>6, Zenon DEF Crash
  <2>2. [NewTask EXCEPT !.pc = "done"] \in TaskRecord
    BY LifecycleAssumption, SMT, SMTT(30) DEF NewTask, TaskRecord, Place, ServePc
  <2>3. TaskType' /\ \A t \in Task : task'[t].pc \in {"new", "done"}
    BY <1>0, <2>1, <2>2, Zenon DEF TaskType, At, NewTask
  <2>4. RecType' /\ rec'.pc = "idle"
    BY <2>1, IdleRecType, Zenon
  <2> QED
    BY <1>0, <2>3, <2>4, ZenonT(40) DEF GenKnown, BeforeGeneration, StartsHoldTheLease, BootQuiet
<1>7. ASSUME BootDegraded \/ BootStep PROVE Goal
  <2>1. /\ UNCHANGED <<task, rec, lease>> /\ phase \in {"import", "tail"}
    BY <1>7, Zenon DEF BootDegraded, BootStep, BootTail, BootImported, BootImport
  <2>2. TaskType' /\ RecType' /\ GenKnown' /\ StartsHoldTheLease'
    BY <1>0, <2>1, Zenon DEF TaskType, RecType, GenKnown, RecGen, StartsHoldTheLease
  <2>3. BootQuiet'
    BY <1>0, <2>1, Zenon DEF BootQuiet
  <2> QED
    BY <2>2, <2>3, Zenon
<1>8. ASSUME UNCHANGED vars PROVE Goal
  BY <1>1, <1>8, Zenon DEF vars
<1> QED
  BY <1>2, <1>3, <1>4, <1>5, <1>6, <1>7, <1>8, Actors, ZenonT(40)

-----------------------------------------------------------------------------
(* The operations.                                                          *)

\* What a step may do to the operations of the instance.
OpsChange ==
  \/ UNCHANGED ops
  \/ \E kind \in {"serve", "stop"} : ops' = Append(ops, NewOp(kind))
  \/ \E i : \E next \in OpState \ {"failed"} : Move(i, next)
  \/ \E t \in Serve : ServeBegin(t) \/ ServeReuse(t)
  \/ \E t \in Serve : At(t, "fail5") /\ Move(task[t].op, "failed") /\ Goto(t, "done") /\ UNCHANGED row
  \/ \E t \in Stop : StopBegin(t) \/ StopKept(t)
  \/ BootTail

(* Every step changes the operations in one of these ways.                  *)
LEMMA OpsMoves == ASSUME [Next]_vars PROVE OpsChange
<1> DEFINE Others == {"accepted", "running", "succeeded", "cancelled"}
<1>0. Others = OpState \ {"failed"}
  BY Zenon  DEF OpState
<1>1. ASSUME \E i : \E next \in Others : Move(i, next) PROVE OpsChange
  BY <1>0, <1>1, Zenon DEF OpsChange
<1>2. ASSUME UNCHANGED ops PROVE OpsChange
  BY <1>2, Zenon DEF OpsChange
<1>3. ASSUME NEW t \in Serve, ServeActs(t) PROVE OpsChange
  <2>1. CASE ServeAccept(t) \/ ServeBegin(t) \/ ServeReuse(t)
    BY <2>1, Zenon DEF ServeAccept, OpsChange
  <2>2. CASE ServeReused(t) \/ ServeClaim(t) \/ ServeSucceed(t)
    BY <1>1, <2>2, Zenon DEF ServeReused, ServeClaim, ServeSucceed
  <2>3. CASE FailDone(t)
    BY <1>2, <2>3, Zenon DEF FailDone, OpsChange, Finish
  <2> QED
    BY <1>2, <1>3, <2>1, <2>2, <2>3, ServeFrames, ZenonT(40) DEF ServeFrame
<1>4. ASSUME NEW t \in Stop \union Cancel, OtherActs(t) PROVE OpsChange
  <2>1. CASE t \in Stop /\ (StopAccept(t) \/ StopBegin(t) \/ StopKept(t))
    BY <2>1, Zenon DEF StopAccept, OpsChange
  <2>2. CASE StopAbsent(t) \/ StopDrain(t) \/ StopSettle(t) \/ CancelCommit(t)
    BY <1>1, <2>2, Zenon DEF StopAbsent, StopDrain, StopSettle, CancelCommit
  <2> QED
    BY <1>2, <1>4, <2>1, <2>2, OtherFrames, Zenon DEF OtherFrame
<1>5. ASSUME RecStep PROVE OpsChange
  <2>1. CASE RecComplete
    BY <1>1, <1>2, <2>1, Zenon DEF RecComplete
  <2> QED
    BY <1>2, <1>5, <2>1, RecFrames, ZenonT(40) DEF RecFrame
<1>6. CASE Outside \/ Crash \/ BootDegraded \/ BootStep \/ UNCHANGED vars
  BY <1>6, OutsideFrames, Zenon DEF OutsideFrame, OpsChange
<1> QED
  BY <1>3, <1>4, <1>5, <1>6, Actors, Zenon

(* A change of one operation record keeps the type and all the others.      *)
LEMMA OneOp ==
  ASSUME ops \in Seq(OpRecord), NEW i, NEW r, i \in DOMAIN ops => r \in OpRecord,
         ops' = [ops EXCEPT ![i] = r]
  PROVE  /\ ops' \in Seq(OpRecord) /\ DOMAIN ops' = DOMAIN ops
         /\ \A j \in DOMAIN ops : ops'[j] = IF j = i THEN r ELSE ops[j]
<1>1. CASE i \in DOMAIN ops
  <2>1. i \in 1 .. Len(ops) /\ DOMAIN ops = 1 .. Len(ops)
    BY <1>1, SMT, SMTT(30)
  <2>2. [ops EXCEPT ![i] = r] \in Seq(OpRecord)
    BY <1>1, <2>1, ReplacedInSeq, Zenon
  <2> QED
    BY <1>1, <2>1, <2>2, Zenon
<1>2. CASE i \notin DOMAIN ops
  <2>1. ops' = ops
    BY <1>2, SMT, SMTT(30)
  <2> QED
    BY <1>2, <2>1, Zenon
<1> QED
  BY <1>1, <1>2, Zenon

\* The same for each operation i there was.
OpAfter(i) ==
  /\ i \in DOMAIN ops' /\ ops'[i].kind = ops[i].kind
  /\ \/ ops'[i].gen = ops[i].gen
     \/ \E t \in Serve : /\ ServeBegin(t) \/ ServeReuse(t)
                         /\ i = task[t].op /\ ops'[i].gen = row'.gen /\ ops'[i].st = ops[i].st
     \/ \E t \in Stop : StopBegin(t) /\ i = task[t].op /\ ops'[i].gen = row'.gen
  /\ ops'[i].st = "failed" =>
       \/ ops[i].st = "failed"
       \/ ops[i].kind = "stop"
       \/ \E t \in Serve : /\ At(t, "fail5") /\ i = task[t].op /\ Goto(t, "done")
                           /\ ops'[i].gen = ops[i].gen /\ UNCHANGED row
       \/ \E t \in Stop : StopKept(t) /\ i = task[t].op

OpsAfter ==
  /\ ops' \in Seq(OpRecord)
  /\ \A i \in DOMAIN ops : OpAfter(i)
  /\ \A i \in DOMAIN ops' \ DOMAIN ops : ops'[i].st = "accepted" /\ ops'[i].gen = 0

(* The changes, operation by operation.                                     *)
LEMMA OpsStep == ASSUME Types, [Next]_vars PROVE OpsAfter
<1>0. ops \in Seq(OpRecord) /\ row \in Row /\ row' \in Row
  BY RowMoves, RowCommands, Zenon DEF Types
<1>1. \A i \in DOMAIN ops : ops[i] \in OpRecord
  BY <1>0, SMT, SMTT(30)
<1>2. CASE UNCHANGED ops
  BY <1>0, <1>2, Zenon DEF OpsAfter, OpAfter
<1>3. ASSUME NEW kind \in {"serve", "stop"}, ops' = Append(ops, NewOp(kind)) PROVE OpsAfter
  <2>1. NewOp(kind) \in OpRecord /\ NewOp(kind).st = "accepted" /\ NewOp(kind).gen = 0
    BY LifecycleAssumption, SMT, SMTT(30) DEF NewOp, OpRecord, OpState
  <2>2. /\ ops' \in Seq(OpRecord) /\ DOMAIN ops' = 1 .. Len(ops) + 1 /\ DOMAIN ops = 1 .. Len(ops)
        /\ \A i \in DOMAIN ops : ops'[i] = ops[i]
        /\ ops'[Len(ops) + 1] = NewOp(kind)
    BY <1>0, <1>3, <2>1, SMT, SMTT(30)
  <2>3. \A i \in DOMAIN ops' \ DOMAIN ops : i = Len(ops) + 1
    BY <1>0, <2>2, SMT, SMTT(30)
  <2>4. DOMAIN ops \subseteq DOMAIN ops'
    BY <1>0, <2>2, SMT, SMTT(30)
  <2> QED
    BY <2>1, <2>2, <2>3, <2>4, ZenonT(40) DEF OpsAfter, OpAfter
<1>4. ASSUME NEW i, NEW next \in OpState, Move(i, next)
      PROVE  /\ ops' \in Seq(OpRecord) /\ DOMAIN ops' = DOMAIN ops
             /\ \A j \in DOMAIN ops : /\ ops'[j].kind = ops[j].kind /\ ops'[j].gen = ops[j].gen
                                      /\ ops'[j].st = ops[j].st \/ (j = i /\ ops'[j].st = next)
  <2> DEFINE st == TransitionTo(ops[i].st, next)
             r == [ops[i] EXCEPT !.st = st]
  <2>1. ops' = [ops EXCEPT ![i] = r]
    BY <1>4, Zenon DEF Move
  <2>2. st \in {ops[i].st, next}
    BY Zenon DEF TransitionTo
  <2> HIDE DEF st
  <2>3. i \in DOMAIN ops => /\ r \in OpRecord /\ r.kind = ops[i].kind /\ r.gen = ops[i].gen /\ r.st = st
    BY <1>1, <1>4, <2>2, Zenon DEF OpRecord
  <2> HIDE DEF r
  <2>4. /\ ops' \in Seq(OpRecord) /\ DOMAIN ops' = DOMAIN ops
        /\ \A j \in DOMAIN ops : ops'[j] = IF j = i THEN r ELSE ops[j]
    BY <1>0, <2>1, <2>3, OneOp, Zenon
  <2> QED
    BY <2>2, <2>3, <2>4, ZenonT(40)
<1>5. ASSUME NEW i, NEW next \in OpState \ {"failed"}, Move(i, next) PROVE OpsAfter
  <2>1. /\ ops' \in Seq(OpRecord) /\ DOMAIN ops' = DOMAIN ops
        /\ \A j \in DOMAIN ops : /\ ops'[j].kind = ops[j].kind /\ ops'[j].gen = ops[j].gen
                                 /\ ops'[j].st = ops[j].st \/ (j = i /\ ops'[j].st = next)
    BY <1>4, <1>5, ZenonT(40)
  <2>2. ASSUME NEW x \in DOMAIN ops PROVE OpAfter(x)
    BY <1>5, <2>1, Zenon DEF OpAfter
  <2> QED
    BY <2>1, <2>2, Zenon DEF OpsAfter
<1>6. ASSUME NEW t \in Serve, At(t, "fail5"), Move(task[t].op, "failed"), Goto(t, "done"), UNCHANGED row
      PROVE  OpsAfter
  <2>1. "failed" \in OpState
    BY Zenon  DEF OpState
  <2>2. /\ ops' \in Seq(OpRecord) /\ DOMAIN ops' = DOMAIN ops
        /\ \A j \in DOMAIN ops : /\ ops'[j].kind = ops[j].kind /\ ops'[j].gen = ops[j].gen
                                 /\ ops'[j].st = ops[j].st \/ (j = task[t].op /\ ops'[j].st = "failed")
    BY <1>4, <1>6, <2>1, ZenonT(40)
  <2>3. ASSUME NEW x \in DOMAIN ops PROVE OpAfter(x)
    BY <1>6, <2>2, Zenon DEF OpAfter
  <2> QED
    BY <2>2, <2>3, Zenon DEF OpsAfter
<1>7. ASSUME NEW t \in Stop, StopKept(t) PROVE OpsAfter
  <2>1. "failed" \in OpState /\ Move(task[t].op, "failed")
    BY <1>7, Zenon DEF OpState, StopKept
  <2>2. /\ ops' \in Seq(OpRecord) /\ DOMAIN ops' = DOMAIN ops
        /\ \A j \in DOMAIN ops : /\ ops'[j].kind = ops[j].kind /\ ops'[j].gen = ops[j].gen
                                 /\ ops'[j].st = ops[j].st \/ (j = task[t].op /\ ops'[j].st = "failed")
    BY <1>4, <2>1, ZenonT(40)
  <2>3. ASSUME NEW x \in DOMAIN ops PROVE OpAfter(x)
    BY <1>7, <2>2, Zenon DEF OpAfter
  <2> QED
    BY <2>2, <2>3, Zenon DEF OpsAfter
<1>8. ASSUME NEW i, NEW reused \in BOOLEAN, NEW r,
             r = [ops[i] EXCEPT !.gen = row'.gen, !.reused = reused]
                  \/ r = [ops[i] EXCEPT !.gen = row'.gen],
             ops' = [ops EXCEPT ![i] = r]
      PROVE  /\ ops' \in Seq(OpRecord) /\ DOMAIN ops' = DOMAIN ops
             /\ \A j \in DOMAIN ops : /\ ops'[j].kind = ops[j].kind /\ ops'[j].st = ops[j].st
                                      /\ ops'[j].gen = ops[j].gen \/ (j = i /\ ops'[j].gen = row'.gen)
  <2>1. row'.gen \in 0 .. MaxGen
    BY <1>0, Zenon DEF Row
  <2>2. i \in DOMAIN ops => /\ r \in OpRecord /\ r.kind = ops[i].kind /\ r.gen = row'.gen
                            /\ r.st = ops[i].st
    BY <1>1, <1>8, <2>1, ZenonT(40) DEF OpRecord
  <2>3. /\ ops' \in Seq(OpRecord) /\ DOMAIN ops' = DOMAIN ops
        /\ \A j \in DOMAIN ops : ops'[j] = IF j = i THEN r ELSE ops[j]
    BY <1>0, <1>8, <2>2, OneOp, ZenonT(40)
  <2> QED
    BY <2>2, <2>3, Zenon
<1>9. ASSUME NEW t \in Serve, ServeBegin(t) PROVE OpsAfter
  <2>1. row'.gen = row.gen + 1
    BY <1>9, Zenon DEF ServeBegin, BegunRow, NoInstance
  <2>2. ops' = [ops EXCEPT ![task[t].op] = [ops[task[t].op] EXCEPT !.gen = row'.gen]]
    BY <1>9, <2>1, Zenon DEF ServeBegin
  <2>3. /\ ops' \in Seq(OpRecord) /\ DOMAIN ops' = DOMAIN ops
        /\ \A j \in DOMAIN ops : /\ ops'[j].kind = ops[j].kind /\ ops'[j].st = ops[j].st
                                 /\ ops'[j].gen = ops[j].gen \/ (j = task[t].op /\ ops'[j].gen = row'.gen)
    BY <1>8, <2>2, Zenon
  <2>4. ASSUME NEW x \in DOMAIN ops PROVE OpAfter(x)
    BY <1>9, <2>3, Zenon DEF OpAfter
  <2> QED
    BY <2>3, <2>4, Zenon DEF OpsAfter
<1>10. ASSUME NEW t \in Serve, ServeReuse(t) PROVE OpsAfter
  <2>1. /\ row' = row
        /\ ops' = [ops EXCEPT ![task[t].op].gen = row.gen, ![task[t].op].reused = TRUE]
    BY <1>10, Zenon DEF ServeReuse
  <2>2. ops' = [ops EXCEPT ![task[t].op] = [ops[task[t].op] EXCEPT !.gen = row'.gen, !.reused = TRUE]]
    BY <1>0, <2>1, ZenonT(40)
  <2>3. /\ ops' \in Seq(OpRecord) /\ DOMAIN ops' = DOMAIN ops
        /\ \A j \in DOMAIN ops : /\ ops'[j].kind = ops[j].kind /\ ops'[j].st = ops[j].st
                                 /\ ops'[j].gen = ops[j].gen \/ (j = task[t].op /\ ops'[j].gen = row'.gen)
    BY <1>8, <2>2, Zenon
  <2>4. ASSUME NEW x \in DOMAIN ops PROVE OpAfter(x)
    BY <1>10, <2>3, ZenonT(40) DEF OpAfter
  <2> QED
    BY <2>3, <2>4, Zenon DEF OpsAfter
<1>11. ASSUME NEW t \in Stop, StopBegin(t) PROVE OpsAfter
  <2>1. row' = StoppingRow(row)
    BY <1>11, Zenon DEF StopBegin
  <2>2. row'.gen = row.gen
    BY <1>0, <2>1, Zenon DEF StoppingRow, Row
  <2>3. ops' = [ops EXCEPT ![task[t].op] = [ops[task[t].op] EXCEPT !.gen = row'.gen]]
    BY <1>11, <2>2, Zenon DEF StopBegin
  <2>4. /\ ops' \in Seq(OpRecord) /\ DOMAIN ops' = DOMAIN ops
        /\ \A j \in DOMAIN ops : /\ ops'[j].kind = ops[j].kind /\ ops'[j].st = ops[j].st
                                 /\ ops'[j].gen = ops[j].gen \/ (j = task[t].op /\ ops'[j].gen = row'.gen)
    BY <1>8, <2>3, Zenon
  <2>5. ASSUME NEW x \in DOMAIN ops PROVE OpAfter(x)
    BY <1>11, <2>4, ZenonT(40) DEF OpAfter
  <2> QED
    BY <2>4, <2>5, Zenon DEF OpsAfter
<1>12. ASSUME BootTail PROVE OpsAfter
  <2>1. ops' = [i \in DOMAIN ops |-> IF ops[i].kind = "stop" /\ ops[i].st \in Active
                                    THEN [ops[i] EXCEPT !.st = "failed"] ELSE ops[i]]
    BY <1>12, Zenon DEF BootTail
  <2>2. DOMAIN ops' = DOMAIN ops
    BY <2>1, Zenon
  <2>3. \A i \in DOMAIN ops : /\ ops'[i] \in OpRecord /\ ops'[i].kind = ops[i].kind
                              /\ ops'[i].gen = ops[i].gen
                              /\ ops'[i].st = ops[i].st \/ ops[i].kind = "stop"
    BY <1>1, <2>1, ZenonT(40) DEF OpRecord, OpState
  <2>4. ops' \in [1 .. Len(ops) -> OpRecord]
    BY <1>0, <2>1, <2>3, SMT, SMTT(30)
  <2>5. ops' \in Seq(OpRecord)
    BY <1>0, <2>4, FunctionIsSeq, SMT, SMTT(30)
  <2> QED
    BY <2>2, <2>3, <2>5, ZenonT(40) DEF OpsAfter, OpAfter
<1> QED
  BY <1>2, <1>3, <1>5, <1>6, <1>7, <1>9, <1>10, <1>11, <1>12, OpsMoves, ZenonT(40) DEF OpsChange

-----------------------------------------------------------------------------
(* The control invariant is inductive.                                      *)

(* No request, container, operation or pass in the first state.             *)
LEMMA ControlInit == Init => ControlInv
<1> SUFFICES ASSUME Init PROVE ControlInv
  BY Zenon
<1> USE LifecycleAssumption DEF Init
<1>1. row \in Row /\ NoContainer \in Container
  BY SMT, SMTT(30) DEF NoInstance, Row, Observed, NoContainer, Container
<1>2. ops \in Seq(OpRecord) /\ ctr \in [Gen -> Container]
  BY <1>1, SMT, SMTT(30)
<1>3. NewTask \in TaskRecord
  BY SMT, SMTT(30)  DEF NewTask, TaskRecord, Place, ServePc
<1>4. TaskType /\ \A t \in Task : task[t].pc = "new"
  BY <1>3, Zenon DEF TaskType, NewTask
<1>5. RecType /\ rec.pc = "idle"
  BY <1>1, Zenon DEF RecType, IdleRec, RecPc
<1>6. Serve \subseteq Task
  BY Zenon DEF Task
<1> QED
  BY <1>1, <1>2, <1>4, <1>5, <1>6, Zenon
     DEF ControlInv, Types, GenKnown, BeforeGeneration, StartsHoldTheLease, BootQuiet

(* Every step keeps it.                                                     *)
LEMMA ControlInvStep == ControlInv /\ [Next]_vars => ControlInv'
<1> SUFFICES ASSUME ControlInv, [Next]_vars PROVE ControlInv'
  BY Zenon
<1>1. Types /\ CtrType
  BY Zenon DEF ControlInv, Types, CtrType
<1>2. row' \in Row
  BY <1>1, RowMoves, RowCommands, ZenonT(40) DEF Types
<1>3. ops' \in Seq(OpRecord)
  BY <1>1, OpsStep, ZenonT(40) DEF OpsAfter
<1>4. CtrType'
  BY <1>1, CtrMoves, Zenon
<1> QED
  BY <1>2, <1>3, <1>4, ControlStep, Zenon DEF ControlInv, Types, CtrType

(* The high-memory start lease has one holder, and every start holds it.    *)
THEOREM LeaseAlwaysHeld == Spec => []StartsHoldTheLease
<1>1. ControlInv => StartsHoldTheLease
  BY Zenon DEF ControlInv
<1> QED
  BY <1>1, ControlInit, ControlInvStep, PTL DEF Spec

(* No step gives an old generation its running intent back, and no step     *)
(* takes the generation back.                                               *)
THEOREM IntentAlwaysNeedsNewGeneration == Spec => IntentNeedsNewGeneration
<1> DEFINE Kept == /\ row.gen <= row'.gen
                   /\ (row.desired = "stopped" /\ row'.desired = "running") => row'.gen = row.gen + 1
<1>1. ASSUME ControlInv, [Next]_vars PROVE [Kept]_vars
  <2>1. row \in Row /\ row.gen \in Int
    BY <1>1, SMT, SMTT(30) DEF ControlInv, Types, Row
  <2>2. \/ \E t \in Serve : ServeBegin(t)
        \/ row'.gen = row.gen /\ row'.desired \in {row.desired, "stopped"}
    BY <1>1, <2>1, RowMoves, RowCommands, Zenon
  <2>3. (\E t \in Serve : ServeBegin(t)) => row'.gen = row.gen + 1
    BY Zenon  DEF ServeBegin, BegunRow, NoInstance
  <2> QED
    BY <2>1, <2>2, <2>3, SMT, SMTT(30)
<1> QED
  BY <1>1, ControlInit, ControlInvStep, PTL DEF Spec, IntentNeedsNewGeneration

-----------------------------------------------------------------------------
(* A start finds the row as it was authorised.                              *)

(* Only a new generation, the failure counter and the import of emergencies *)
(* can move the row on or suppress it.                                      *)
LEMMA RowKeeps ==
  ASSUME row \in Row, RowChange
  PROVE  \/ \E t \in Serve : ServeBegin(t)
         \/ RecFailure \/ RecUnready
         \/ phase = "import"
         \/ row'.gen = row.gen /\ (row'.suppressed => row.suppressed)
<1> USE DEF Row
<1>1. ASSUME NEW o \in {"healthy", "failed", "absent"}, row' = ObservedRow(row, o)
      PROVE  row'.gen = row.gen /\ (row'.suppressed => row.suppressed)
  BY <1>1, Zenon DEF ObservedRow
<1>2. ASSUME row' = StoppingRow(row)
      PROVE  row'.gen = row.gen /\ (row'.suppressed => row.suppressed)
  BY <1>2, Zenon DEF StoppingRow
<1>3. ASSUME NEW exp, row' = ScannedRow(exp)
      PROVE  row'.gen = row.gen /\ (row'.suppressed => row.suppressed)
  <2> DEFINE mark == row.quarantine /\ row.gen \in Unexpected(exp)
             cleared == [row EXCEPT !.quarantine = mark]
  <2>1. row' \in {cleared, QuarantinedRow(cleared)}
    BY <1>3, Zenon DEF ScannedRow
  <2> HIDE DEF mark
  <2> QED
    BY <2>1, Zenon DEF QuarantinedRow
<1> QED
  BY <1>1, <1>2, <1>3, Zenon DEF RowChange

Probed == {"check4", "promote", "healthy", "publish"}

(* From where a serve request gets to the places that matter.               *)
LEMMA ServeEdgesInto ==
  ASSUME NEW from, NEW to, ServeEdge(from, to)
  PROVE  /\ from # "done" /\ (from = "new" => to = "accept")
         /\ to \in Starting \ {"spawn"} => from \in Starting
         /\ to = "spawn" => from = "begin"
         /\ to \in Probed => from \in Probed \/ (from = "probe" /\ to = "check4")
         /\ to \in {"fail4", "fail5"} => from \in {"fail3", "fail4"}
  BY Zenon  DEF ServeEdge, Starting, Probed

(* Which actions a serve request takes at the places that matter.           *)
LEMMA ServePlaces ==
  ASSUME NEW t \in Serve, ServeActs(t)
  PROVE  /\ task[t].pc = "accept" => ServeAccept(t) \/ HandlerDropped(t)
         /\ task[t].pc = "begin" =>
              ServeBegin(t) \/ ServeReuse(t) \/ ServeConflict(t) \/ HandlerDropped(t)
         /\ task[t].pc = "probe" => ServeProbe(t)
         /\ task[t].pc = "fail3" => CleanupIntent(t)
<1> DEFINE Elsewhere == task[t].pc \notin {"accept", "begin", "probe", "fail3"}
<1>1. ASSUME ServeAcquire(t) \/ ServeReused(t) \/ ServeSpawn(t) PROVE Elsewhere
  <2>1. At(t, "new") \/ At(t, "reuse") \/ At(t, "reused") \/ At(t, "spawn")
    BY <1>1, Zenon DEF ServeAcquire, ServeReused, ServeSpawn
  <2> QED
    BY <2>1, Zenon DEF At
<1>2. ASSUME ServeClaim(t) PROVE Elsewhere
  BY <1>2, SMT, SMTT(30) DEF At, ServeClaim
<1>3. ASSUME ServeCheck(t) PROVE Elsewhere
  BY <1>3, SMT, SMTT(30) DEF At, ServeCheck
<1>4. ASSUME ServePrepare(t) \/ ServeStart(t) \/ ServeWait(t) PROVE Elsewhere
  <2>1. At(t, "prepare") \/ At(t, "start") \/ At(t, "wait")
    BY <1>4, Zenon DEF ServePrepare, ServeStart, ServeWait
  <2> QED
    BY <2>1, Zenon DEF At
<1>5. ASSUME ServeStopped(t) \/ ServeReady(t) \/ ServePromote(t) PROVE Elsewhere
  <2>1. At(t, "stopped") \/ At(t, "ready") \/ At(t, "promote")
    BY <1>5, Zenon DEF ServeStopped, ServeReady, ServePromote
  <2> QED
    BY <2>1, Zenon DEF At
<1>6. ASSUME ServeHealthy(t) \/ ServePublish(t) \/ ServeSucceed(t) PROVE Elsewhere
  <2>1. At(t, "healthy") \/ At(t, "publish") \/ At(t, "succeed")
    BY <1>6, Zenon DEF ServeHealthy, ServePublish, ServeSucceed
  <2> QED
    BY <2>1, ZenonT(40) DEF At
<1>7. ASSUME ServeList(t) \/ ServeScan(t) \/ FailDrain(t) PROVE Elsewhere
  <2>1. At(t, "list") \/ At(t, "scan") \/ At(t, "fail1")
    BY <1>7, Zenon DEF ServeList, ServeScan, FailDrain
  <2> QED
    BY <2>1, Zenon DEF At
<1>8. ASSUME FailDone(t) \/ UndoDone(t) PROVE Elsewhere
  <2>1. At(t, "fail4") \/ At(t, "fail5") \/ At(t, "undo3")
    BY <1>8, Zenon DEF FailDone, UndoDone
  <2> QED
    BY <2>1, Zenon DEF At
<1>9. ASSUME CleanupStop(t) PROVE Elsewhere
  BY <1>9, SMT, SMTT(30) DEF At, CleanupStop
<1>10. /\ ServeAccept(t) => task[t].pc = "accept"
       /\ ServeBegin(t) \/ ServeReuse(t) \/ ServeConflict(t) => task[t].pc = "begin"
       /\ ServeProbe(t) => task[t].pc = "probe"
  BY Zenon  DEF At, ServeAccept, ServeBegin, ServeReuse, ServeConflict, ServeProbe
<1>11. CleanupIntent(t) => task[t].pc \notin {"accept", "begin", "probe"}
  BY SMT, SMTT(30)  DEF At, CleanupIntent
<1>12. HandlerDropped(t) => task[t].pc \notin {"probe", "fail3"}
  BY LifecycleAssumption, Zenon DEF HandlerDropped
<1> HIDE DEF Elsewhere
<1>13. \/ Elsewhere \/ ServeAccept(t) \/ ServeBegin(t) \/ ServeReuse(t) \/ ServeConflict(t)
       \/ ServeProbe(t) \/ CleanupIntent(t) \/ HandlerDropped(t)
  BY <1>1, <1>2, <1>3, <1>4, <1>5, <1>6, <1>7, <1>8, <1>9, ZenonT(40) DEF ServeActs, ServeStep, CleanupStep
<1> QED
  BY <1>10, <1>11, <1>12, <1>13, ZenonT(40) DEF Elsewhere

(* And the pass.                                                            *)
LEMMA RecPlaces ==
  ASSUME RecStep
  PROVE  /\ rec.pc = "failure" => RecFailure
         /\ rec.pc = "probe" => RecProbe
<1> DEFINE Elsewhere == rec.pc \notin {"failure", "probe"}
<1>1. ASSUME RecList \/ RecScan \/ RecDecide \/ RecStop \/ RecAbsent \/ RecRestart PROVE Elsewhere
  BY <1>1, SMT, SMTT(30) DEF RecAt, RecList, RecScan, RecDecide, RecStop, RecAbsent, RecRestart
<1>2. ASSUME RecAllow \/ RecPrepare \/ RecStart \/ RecRunning \/ RecAdmit \/ RecUnready PROVE Elsewhere
  BY <1>2, Zenon DEF RecAt, RecAllow, RecPrepare, RecStart, RecRunning, RecAdmit, RecUnready
<1>3. ASSUME RecPromote \/ RecHealthy \/ RecPublish \/ RecCheck \/ RecComplete PROVE Elsewhere
  BY <1>3, Zenon DEF RecAt, RecPromote, RecHealthy, RecPublish, RecCheck, RecComplete
<1>4. (RecFailure => rec.pc = "failure") /\ (RecProbe => rec.pc = "probe")
  BY Zenon  DEF RecAt, RecFailure, RecProbe
<1> QED
  BY <1>1, <1>2, <1>3, <1>4, ZenonT(40) DEF RecStep

(* A serve request reaches its start only through begin_serve.              *)
LEMMA ServeEntersStarting ==
  ASSUME ControlInv, [Next]_vars, NEW t \in Serve, task'[t].pc \in Starting
  PROVE  \/ task[t].pc \in Starting /\ task'[t].gen = task[t].gen
         \/ ServeBegin(t)
<1>0. Types /\ GenKnown /\ t \in Task /\ t \notin Stop \union Cancel
  BY LifecycleAssumption, Zenon DEF ControlInv, Task
<1>1. CASE UNCHANGED task
  BY <1>1, Zenon
<1>2. ASSUME NEW x \in Serve, ServeActs(x)
      PROVE  (task[t].pc \in Starting /\ task'[t].gen = task[t].gen) \/ ServeBegin(t)
  <2>1. ServeMoved(x)
    BY <1>0, <1>2, ServeMoves, Zenon
  <2>2. CASE x # t
    BY <1>0, <2>1, <2>2, ZenonT(40) DEF ServeMoved
  <2>3. CASE x = t
    <3>1. task'[t].pc # "spawn" => task[t].pc \in Starting /\ task'[t].gen = task[t].gen
      <4>1. /\ ServeEdge(task[t].pc, task'[t].pc)
            /\ task'[t].gen = task[t].gen \/ task'[t].pc \in {"spawn", "scan"}
        BY <2>1, <2>3, ZenonT(40) DEF ServeMoved
      <4>2. "scan" \notin Starting
        BY Zenon DEF Starting
      <4> QED
        BY <4>1, <4>2, ServeEdgesInto, ZenonT(40)
    <3>2. task'[t].pc = "spawn" => task[t].pc = "begin"
      <4>1. ServeEdge(task[t].pc, task'[t].pc)
        BY <2>1, <2>3, Zenon DEF ServeMoved
      <4> QED
        BY <4>1, ServeEdgesInto, Zenon
    <3>3. task[t].pc = "begin" /\ task'[t].pc = "spawn" => ServeBegin(t)
      <4>1. ASSUME NEW pc, Goto(t, pc), pc # "spawn" PROVE task'[t].pc # "spawn"
        BY <1>0, <4>1, Zenon DEF Goto, Types, TaskType, TaskRecord
      <4> SUFFICES ASSUME task[t].pc = "begin", task'[t].pc = "spawn", ~ServeBegin(t) PROVE FALSE
        BY Zenon
      <4>2. ServeReuse(t) \/ ServeConflict(t) \/ HandlerDropped(t)
        BY <1>2, <2>3, ServePlaces, ZenonT(40)
      <4> QED
        BY <4>1, <4>2, Zenon DEF ServeReuse, ServeConflict, HandlerDropped, Finish
    <3> QED
      BY <3>1, <3>2, <3>3, Zenon
  <2> QED
    BY <2>2, <2>3, Zenon
<1>3. ASSUME NEW x \in Stop \union Cancel, OtherActs(x) PROVE task'[t] = task[t]
  BY <1>0, <1>3, OtherMoves, Zenon DEF OtherMoved
<1>4. ASSUME Crash PROVE task'[t].pc \in {"new", "done"}
  BY <1>0, <1>4, Zenon DEF Crash, At, NewTask
<1>5. ASSUME RecStep PROVE UNCHANGED task
  BY <1>0, <1>5, RecMoves, Zenon DEF RecMoved
<1>6. ASSUME Outside \/ BootDegraded \/ BootStep \/ UNCHANGED vars PROVE UNCHANGED task
  BY <1>6, Bystanders, Zenon
<1>7. task'[t].pc \notin {"new", "done"}
  BY Zenon DEF Starting
<1> QED
  BY <1>1, <1>2, <1>3, <1>4, <1>5, <1>6, <1>7, Actors, ZenonT(40)

(* Only the pass itself moves the pass; a crash ends it.                    *)
LEMMA RecChange ==
  ASSUME ControlInv, [Next]_vars
  PROVE  (RecStep /\ RecMoved) \/ (Crash /\ rec'.pc = "idle") \/ UNCHANGED rec
<1>0. Types /\ GenKnown
  BY Zenon  DEF ControlInv
<1>1. ASSUME NEW x \in Serve, ServeActs(x) PROVE UNCHANGED rec
  BY <1>0, <1>1, ServeMoves, Zenon DEF ServeMoved
<1>2. ASSUME NEW x \in Stop \union Cancel, OtherActs(x) PROVE UNCHANGED rec
  BY <1>0, <1>2, OtherMoves, Zenon DEF OtherMoved
<1>3. ASSUME Crash PROVE rec'.pc = "idle"
  BY <1>3, Zenon DEF Crash, IdleRec
<1>4. ASSUME Outside \/ BootDegraded \/ BootStep \/ UNCHANGED vars PROVE UNCHANGED rec
  BY <1>4, Bystanders, Zenon
<1> QED
  BY <1>0, <1>1, <1>2, <1>3, <1>4, Actors, RecMoves, ZenonT(40)

(* The pass reaches its start only through a failure that was recorded for  *)
(* the current generation and did not suppress the restart.                 *)
LEMMA RecEntersStart ==
  ASSUME ControlInv, [Next]_vars, rec'.pc \in {"prepare", "start"}
  PROVE  /\ rec'.row = rec.row
         /\ \/ rec.pc \in {"prepare", "start"}
            \/ row'.gen = RecGen /\ ~ row'.suppressed
<1>0. Types /\ row \in Row
  BY Zenon DEF ControlInv, Types
<1>1. CASE UNCHANGED rec
  BY <1>1, Zenon
<1>2. CASE RecStep /\ RecMoved
  <2>1. RecOn
    BY <1>2, IdleRecType, Zenon DEF RecMoved, RecOver, RecReturn
  <2>2. rec'.row = rec.row /\ rec.pc \in {"prepare", "failure"}
    BY <2>1, Zenon DEF RecOn, RecEdge
  <2>3. CASE rec.pc = "failure"
    <3>1. RecFailure
      BY <1>2, <2>3, RecPlaces, Zenon
    <3>2. ~RecEnd
      BY IdleRecType, Zenon DEF RecEnd, RecReturn
    <3>3. row.gen = RecGen /\ \E n \in 1 .. row.failures + 1 : row' = FailedRow(row, n) /\ ~(n >= RestartLimit)
      BY <3>1, <3>2, Zenon DEF RecFailure
    <3> QED
      BY <1>0, <2>2, <3>3, Zenon DEF FailedRow, Row
  <2> QED
    BY <2>2, <2>3, Zenon
<1> QED
  BY <1>1, <1>2, RecChange, Zenon

(* While a request or the pass is about to start, the row stays at its      *)
(* generation and unsuppressed.                                             *)
LEMMA StartInvStep == ControlInv /\ StartInv /\ [Next]_vars => StartInv'
<1> SUFFICES ASSUME ControlInv, StartInv, [Next]_vars PROVE StartInv'
  BY Zenon
<1>0. /\ row \in Row /\ StartsHoldTheLease /\ BootQuiet /\ "none" \notin Serve /\ "reconciler" \notin Serve
  BY LifecycleAssumption, Zenon DEF ControlInv, Types
<1> DEFINE Kept == row'.gen = row.gen /\ (row'.suppressed => row.suppressed)
<1>1. ASSUME Kept \/ ~(\E t \in Serve : task[t].pc \in Starting)
      PROVE  \A t \in Serve : task'[t].pc \in Starting => row'.gen = task'[t].gen /\ ~ row'.suppressed
  <2> SUFFICES ASSUME NEW t \in Serve, task'[t].pc \in Starting
               PROVE  row'.gen = task'[t].gen /\ ~ row'.suppressed
    BY Zenon
  <2>1. CASE ServeBegin(t)
    <3>1. task'[t].gen = row.gen + 1
      BY <2>1, Zenon DEF ServeBegin, ControlInv, Types, TaskType, TaskRecord, Task
    <3>2. row' = BegunRow(row)
      BY <2>1, Zenon DEF ServeBegin
    <3> QED
      BY <3>1, <3>2, ZenonT(40) DEF BegunRow, NoInstance
  <2>2. CASE task[t].pc \in Starting /\ task'[t].gen = task[t].gen
    BY <1>1, <2>2, Zenon DEF StartInv
  <2> QED
    BY <2>1, <2>2, ServeEntersStarting, Zenon
<1>2. ASSUME Kept \/ rec.pc \notin {"prepare", "start"}
      PROVE  rec'.pc \in {"prepare", "start"} => row'.gen = RecGen' /\ ~ row'.suppressed
  <2> SUFFICES ASSUME rec'.pc \in {"prepare", "start"}
               PROVE  row'.gen = RecGen' /\ ~ row'.suppressed
    BY Zenon
  <2>1. RecGen' = RecGen
    BY RecEntersStart, Zenon DEF RecGen
  <2>2. rec.pc \in {"prepare", "start"} \/ (row'.gen = RecGen /\ ~ row'.suppressed)
    BY RecEntersStart, Zenon
  <2>3. rec.pc \in {"prepare", "start"} => (row.gen = RecGen /\ ~ row.suppressed)
    BY Zenon  DEF StartInv
  <2> QED
    BY <1>2, <2>1, <2>2, <2>3, Zenon
<1> HIDE DEF Kept
<1>3. CASE Kept
  BY <1>1, <1>2, <1>3, ZenonT(40) DEF StartInv
<1>4. CASE \E t \in Serve : ServeBegin(t)
  <2>1. PICK t \in Serve : ServeBegin(t)
    BY <1>4, Zenon
  <2>2. task[t].pc = "begin"
    BY <2>1, Zenon DEF ServeBegin, At
  <2>3. lease = t
    BY <1>0, <2>2, ZenonT(40) DEF StartsHoldTheLease
  <2>4. \A x \in Serve : task[x].pc \notin Starting
    BY <1>0, <2>2, <2>3, ZenonT(40) DEF StartsHoldTheLease, Starting
  <2>5. rec.pc \notin {"prepare", "start"}
    BY <1>0, <2>3, Zenon DEF StartsHoldTheLease
  <2> QED
    BY <1>1, <1>2, <2>4, <2>5, ZenonT(40) DEF StartInv
<1>5. CASE RecFailure \/ RecUnready
  <2>1. rec.pc \in {"failure", "unready"}
    BY <1>5, Zenon DEF RecFailure, RecUnready, RecAt
  <2>2. lease = "reconciler"
    BY <1>0, <2>1, ZenonT(40) DEF StartsHoldTheLease
  <2>3. \A x \in Serve : task[x].pc \notin Starting
    BY <1>0, <2>2, ZenonT(40) DEF StartsHoldTheLease, Starting
  <2> QED
    BY <1>1, <1>2, <2>1, <2>3, ZenonT(40) DEF StartInv
<1>6. CASE phase = "import"
  <2>1. \A x \in Serve : task[x].pc \notin Starting
    BY <1>0, <1>6, ZenonT(40) DEF BootQuiet, Starting
  <2>2. rec.pc = "idle"
    BY <1>0, <1>6, ZenonT(40) DEF BootQuiet
  <2> QED
    BY <1>1, <1>2, <2>1, <2>2, ZenonT(40) DEF StartInv
<1> QED
  BY <1>0, <1>3, <1>4, <1>5, <1>6, RowMoves, RowKeeps, ZenonT(40) DEF Kept

(* A living agent creates a container only under the lease, for the         *)
(* generation the row is at, and never while restart is suppressed.         *)
THEOREM StartsAlwaysAuthorised == Spec => StartsAreAuthorised
<1> DEFINE Authorised ==
      \A g \in Gen :
        (ctr[g].st = "none" /\ ctr'[g].st = "running" /\ orphans' = orphans) =>
          (lease # "none" /\ row.gen = g /\ ~ row.suppressed)
<1>1. Init => StartInv
  BY SMT, SMTT(30)  DEF Init, StartInv, Starting, NewTask, Task, IdleRec
<1>2. ASSUME ControlInv, StartInv, [Next]_vars PROVE Authorised
  <2>1. CtrType /\ StartsHoldTheLease /\ "none" \notin Serve
    BY <1>2, LifecycleAssumption, Zenon DEF ControlInv, Types, CtrType
  <2> SUFFICES ASSUME NEW g \in Gen, ctr[g].st = "none", ctr'[g].st = "running", orphans' = orphans
               PROVE  lease # "none" /\ row.gen = g /\ ~ row.suppressed
    BY Zenon
  <2>2. StartsBySomeone /\ ctr'[g] # ctr[g]
    BY <1>2, <2>1, CtrMoves, ZenonT(40) DEF NothingStarts
  <2>3. CASE \E t \in Serve : At(t, "start") /\ \A x \in Gen \ {task[t].gen} : ctr'[x] = ctr[x]
    BY <1>2, <2>1, <2>2, <2>3, ZenonT(40) DEF StartInv, StartsHoldTheLease, At, Starting
  <2>4. CASE RecAt("start") /\ \A x \in Gen \ {RecGen} : ctr'[x] = ctr[x]
    BY <1>2, <2>1, <2>2, <2>4, ZenonT(40) DEF StartInv, StartsHoldTheLease, RecAt
  <2> QED
    BY <2>2, <2>3, <2>4, Zenon DEF StartsBySomeone
<1>3. ControlInv /\ StartInv /\ [Next]_vars => [Authorised]_vars
  BY <1>2, Zenon
<1> QED
  BY <1>1, <1>3, ControlInit, ControlInvStep, StartInvStep, PTL DEF Spec, StartsAreAuthorised

-----------------------------------------------------------------------------
(* Only probed processes are published.                                     *)

(* Who publishes a route.                                                   *)
LEMMA RouteMoves ==
  ASSUME [Next]_vars
  PROVE  \/ UNCHANGED route \/ route'.st # "healthy"
         \/ \E t \in Serve : ServePublish(t)
         \/ RecPublish
<1> DEFINE Quiet == UNCHANGED route \/ route'.st # "healthy"
<1>0. ASSUME NEW g, Drain(g) \/ MarkWarming(g) PROVE Quiet
  BY <1>0, SMT, SMTT(30) DEF Drain, MarkWarming, NoRoute
<1> HIDE DEF Quiet
<1>1. ASSUME UNCHANGED route PROVE Quiet
  BY <1>1, Zenon DEF Quiet
<1>2. ASSUME NEW t \in Serve, ServeActs(t) PROVE Quiet \/ ServePublish(t)
  <2>1. CASE ServeSpawn(t) \/ FailDrain(t)
    BY <1>0, <2>1, Zenon DEF ServeSpawn, FailDrain
  <2> QED
    BY <1>1, <1>2, <2>1, ServeFrames, ZenonT(40) DEF ServeFrame
<1>3. ASSUME NEW t \in Stop \union Cancel, OtherActs(t) PROVE Quiet
  <2>1. CASE StopAbsent(t) \/ StopDrain(t) \/ CancelTarget(t)
    BY <1>0, <1>1, <2>1, ZenonT(40) DEF StopAbsent, StopDrain, CancelTarget
  <2> QED
    BY <1>1, <1>3, <2>1, OtherFrames, ZenonT(40) DEF OtherFrame
<1>4. ASSUME RecStep PROVE Quiet \/ RecPublish
  <2>1. CASE RecAbsent \/ RecRestart \/ RecRunning
    BY <1>0, <1>1, <2>1, ZenonT(40) DEF RecAbsent, RecRestart, RecRunning
  <2> QED
    BY <1>1, <1>4, <2>1, RecFrames, ZenonT(40) DEF RecFrame
<1>5. ASSUME Crash PROVE Quiet
  BY <1>5, ZenonT(40) DEF Crash, NoRoute, Quiet
<1>6. ASSUME Outside \/ Crash \/ BootDegraded \/ BootStep \/ UNCHANGED vars PROVE Quiet
  BY <1>1, <1>5, <1>6, OutsideFrames, ZenonT(40) DEF OutsideFrame
<1> QED
  BY <1>2, <1>3, <1>4, <1>6, Actors, ZenonT(40) DEF Quiet

(* The history of probes only grows.                                        *)
LEMMA ProbedGrows == ASSUME [Next]_vars PROVE probed \subseteq probed'
<1>1. ASSUME NEW t \in Serve, ServeActs(t) PROVE UNCHANGED probed \/ ServeProbe(t)
  BY <1>1, ServeFrames, ZenonT(40) DEF ServeFrame
<1>2. ASSUME NEW t \in Stop \union Cancel, OtherActs(t) PROVE UNCHANGED probed
  BY <1>2, OtherFrames, ZenonT(40) DEF OtherFrame
<1>3. ASSUME RecStep PROVE UNCHANGED probed \/ RecProbe
  BY <1>3, RecFrames, ZenonT(40) DEF RecFrame
<1>4. ASSUME Outside \/ Crash \/ BootDegraded \/ BootStep \/ UNCHANGED vars PROVE UNCHANGED probed
  BY <1>4, OutsideFrames, ZenonT(40) DEF OutsideFrame
<1>5. ASSUME (\E t \in Serve : ServeProbe(t)) \/ RecProbe PROVE probed \subseteq probed'
  BY <1>5, ZenonT(40) DEF ServeProbe, RecProbe
<1> QED
  BY <1>1, <1>2, <1>3, <1>4, <1>5, Actors, ZenonT(40)

(* A serve request gets past its probe only with the probe's success.       *)
LEMMA ServeEntersProbed ==
  ASSUME ControlInv, [Next]_vars, NEW t \in Serve, task'[t].pc \in Probed
  PROVE  /\ task'[t].gen = task[t].gen /\ task'[t].proc = task[t].proc
         /\ task[t].pc \in Probed \/ <<task[t].gen, task[t].proc>> \in probed'
<1>0. Types /\ GenKnown /\ t \in Task /\ t \notin Stop \union Cancel
  BY LifecycleAssumption, ZenonT(40) DEF ControlInv, Task
<1> DEFINE Goal == /\ task'[t].gen = task[t].gen /\ task'[t].proc = task[t].proc
                   /\ task[t].pc \in Probed \/ <<task[t].gen, task[t].proc>> \in probed'
<1>1. ASSUME task'[t] = task[t] PROVE Goal
  BY <1>1, ZenonT(40)
<1>2. ASSUME NEW x \in Serve, ServeActs(x) PROVE Goal
  <2>1. ServeMoved(x)
    BY <1>0, <1>2, ServeMoves, ZenonT(40)
  <2>2. CASE x # t
    BY <1>0, <1>1, <2>1, <2>2, ZenonT(40) DEF ServeMoved
  <2>3. CASE x = t
    <3>1. /\ task'[t].gen = task[t].gen /\ task'[t].proc = task[t].proc
          /\ task[t].pc \in Probed \/ (task[t].pc = "probe" /\ task'[t].pc = "check4")
      <4>1. /\ ServeEdge(task[t].pc, task'[t].pc)
            /\ task'[t].gen = task[t].gen \/ task'[t].pc \in {"spawn", "scan"}
            /\ task'[t].proc = task[t].proc \/ task[t].pc \in {"start", "wait"}
        BY <2>1, <2>3, ZenonT(40) DEF ServeMoved
      <4>2. task[t].pc \in Probed \/ (task[t].pc = "probe" /\ task'[t].pc = "check4")
        BY <4>1, ServeEdgesInto, ZenonT(40)
      <4> QED
        BY <4>1, <4>2, ZenonT(40) DEF Probed
    <3>2. ASSUME task[t].pc = "probe", task'[t].pc = "check4"
          PROVE  <<task[t].gen, task[t].proc>> \in probed'
      <4>1. ServeProbe(t)
        BY <1>2, <2>3, <3>2, ServePlaces, ZenonT(40)
      <4>2. ~Goto(t, "fail1")
        BY <1>0, <3>2, ZenonT(40) DEF Goto, Types, TaskType, TaskRecord
      <4> QED
        BY <4>1, <4>2, Zenon DEF ServeProbe
    <3> QED
      BY <3>1, <3>2, ZenonT(40)
  <2> QED
    BY <2>2, <2>3, ZenonT(40)
<1>3. ASSUME NEW x \in Stop \union Cancel, OtherActs(x) PROVE task'[t] = task[t]
  BY <1>0, <1>3, OtherMoves, ZenonT(40) DEF OtherMoved
<1>4. ASSUME Crash PROVE task'[t].pc \in {"new", "done"}
  BY <1>0, <1>4, ZenonT(40) DEF Crash, At, NewTask
<1>5. ASSUME RecStep PROVE task'[t] = task[t]
  BY <1>0, <1>5, RecMoves, ZenonT(40) DEF RecMoved
<1>6. ASSUME Outside \/ BootDegraded \/ BootStep \/ UNCHANGED vars PROVE task'[t] = task[t]
  BY <1>6, Bystanders, ZenonT(40)
<1>7. task'[t].pc \notin {"new", "done"}
  BY Zenon DEF Probed
<1> HIDE DEF Goal
<1>8. Goal
  BY <1>1, <1>2, <1>3, <1>4, <1>5, <1>6, <1>7, Actors, ZenonT(40)
<1> QED
  BY <1>8, ZenonT(40) DEF Goal

(* So does the pass.                                                        *)
LEMMA RecEntersProbed ==
  ASSUME ControlInv, [Next]_vars, rec'.pc \in {"promote", "healthy", "publish"}
  PROVE  /\ rec'.row = rec.row /\ rec'.seen = rec.seen
         /\ \/ rec.pc \in {"promote", "healthy", "publish"}
            \/ <<RecGen, rec.seen.proc>> \in probed'
<1>0. RecType
  BY Zenon DEF ControlInv, Types
<1>1. CASE UNCHANGED rec
  BY <1>1, Zenon
<1>2. CASE RecStep /\ RecMoved
  <2>1. RecOn
    BY <1>2, IdleRecType, ZenonT(40) DEF RecMoved, RecOver, RecReturn
  <2>2. /\ rec'.row = rec.row /\ rec'.seen = rec.seen
        /\ rec.pc \in {"promote", "healthy", "publish"} \/ (rec.pc = "probe" /\ rec'.pc # "unready")
    BY <2>1, Zenon DEF RecOn, RecEdge
  <2>3. CASE rec.pc = "probe"
    <3>1. RecProbe
      BY <1>2, <2>3, RecPlaces, ZenonT(40)
    <3>2. ~RecGoto("unready")
      BY <1>0, ZenonT(40) DEF RecGoto, RecType
    <3> QED
      BY <2>2, <3>1, <3>2, ZenonT(40) DEF RecProbe
  <2> QED
    BY <2>2, <2>3, ZenonT(40)
<1> QED
  BY <1>1, <1>2, RecChange, ZenonT(40)

(* The result of a probe travels with the process it is about.              *)
LEMMA ProbeInvStep == ControlInv /\ ProbeInv /\ [Next]_vars => ProbeInv'
<1> SUFFICES ASSUME ControlInv, ProbeInv, [Next]_vars PROVE ProbeInv'
  BY Zenon
<1>0. probed \subseteq probed'
  BY ProbedGrows, Zenon
<1>1. ASSUME NEW t \in Serve, task'[t].pc \in Probed
      PROVE  <<task'[t].gen, task'[t].proc>> \in probed'
  BY <1>0, <1>1, ServeEntersProbed, ZenonT(40) DEF ProbeInv, Probed
<1>2. ASSUME rec'.pc \in {"promote", "healthy", "publish"}
      PROVE  <<rec'.row.gen, rec'.seen.proc>> \in probed'
  BY <1>0, <1>2, RecEntersProbed, ZenonT(40) DEF ProbeInv, RecGen
<1>3. PublishedProcessWasProbed'
  <2>1. CASE UNCHANGED route
    BY <1>0, <2>1, Zenon DEF ProbeInv, PublishedProcessWasProbed
  <2>2. CASE route'.st # "healthy"
    BY <2>2, Zenon DEF PublishedProcessWasProbed
  <2>3. ASSUME NEW t \in Serve, ServePublish(t) PROVE PublishedProcessWasProbed'
    <3>1. task[t].pc = "publish" /\ route' = [st |-> "healthy", gen |-> task[t].gen, proc |-> task[t].proc]
      BY <2>3, Zenon DEF ServePublish, Publish, At
    <3> QED
      BY <1>0, <3>1, Zenon DEF ProbeInv, PublishedProcessWasProbed
  <2>4. CASE RecPublish
    <3>1. rec.pc = "publish" /\ route' = [st |-> "healthy", gen |-> RecGen, proc |-> rec.seen.proc]
      BY <2>4, ZenonT(40) DEF RecPublish, Publish, RecAt
    <3> QED
      BY <1>0, <3>1, ZenonT(40) DEF ProbeInv, PublishedProcessWasProbed
  <2> QED
    BY <2>1, <2>2, <2>3, <2>4, RouteMoves, ZenonT(40)
<1> QED
  BY <1>1, <1>2, <1>3, ZenonT(40) DEF ProbeInv, Probed, RecGen

(* The gateway forwards only to processes that passed the semantic probe.   *)
THEOREM PublishedAlwaysProbed == Spec => []PublishedProcessWasProbed
<1>1. Init => ProbeInv
  BY SMT, SMTT(30)  DEF Init, ProbeInv, PublishedProcessWasProbed, NoRoute, NewTask, IdleRec, Task
<1>2. ProbeInv => PublishedProcessWasProbed
  BY Zenon  DEF ProbeInv
<1> QED
  BY <1>1, <1>2, ControlInit, ControlInvStep, ProbeInvStep, PTL DEF Spec

-----------------------------------------------------------------------------
(* A failed serve leaves a stopped intent.                                  *)

(* While a serve request acts, every other one is idle.                     *)
LEMMA ServeActsAlone ==
  ASSUME ControlInv, NEW t \in Serve, task[t].pc \notin {"new", "done"}
  PROVE  \A x \in Serve : x # t => task[x].pc \in {"new", "done"}
  BY Zenon  DEF ControlInv, StartsHoldTheLease

(* What a step does to a serve request, as far as its operation matters.    *)
ServeAfter(t) ==
  \/ task'[t] = task[t]
  \/ task'[t].pc \in {"new", "accept", "done"}
  \/ ServeAccept(t)
  \/ /\ task'[t].op = task[t].op /\ task[t].pc \notin {"new", "accept", "done"}
     /\ task'[t].pc \in {"fail4", "fail5"} =>
          \/ task[t].pc \in {"fail4", "fail5"}
          \/ row' = StoppingRow(row) /\ UNCHANGED ops

(* Every step is one of these to every serve request.                       *)
LEMMA ServeStepAfter ==
  ASSUME ControlInv, [Next]_vars, NEW t \in Serve
  PROVE  ServeAfter(t)
<1>0. Types /\ GenKnown /\ t \in Task /\ t \notin Stop \union Cancel
  BY LifecycleAssumption, Zenon DEF ControlInv, Task
<1>2. ASSUME NEW x \in Serve, ServeActs(x) PROVE ServeAfter(t)
  <2>1. ServeMoved(x)
    BY <1>0, <1>2, ServeMoves, ZenonT(40)
  <2>2. CASE x # t
    BY <1>0, <2>1, <2>2, ZenonT(40) DEF ServeMoved, ServeAfter
  <2>3. CASE x = t
    <3> ServeMoved(t)
      BY <2>1, <2>3, Zenon
    <3>0. ServeEdge(task[t].pc, task'[t].pc)
      BY Zenon  DEF ServeMoved
    <3>1. task[t].pc = "new" => task'[t].pc = "accept"
      BY <3>0, ServeEdgesInto, Zenon
    <3>2. CASE task[t].pc = "accept"
      <4>1. ServeAccept(t) \/ HandlerDropped(t)
        BY <1>2, <2>3, <3>2, ServePlaces, ZenonT(40)
      <4>2. HandlerDropped(t) => task'[t].pc = "done"
        BY <1>0, ZenonT(40) DEF HandlerDropped, Finish, Goto, Types, TaskType, TaskRecord
      <4> QED
        BY <4>1, <4>2, Zenon DEF ServeAfter
    <3>3. CASE task[t].pc \notin {"new", "accept"}
      <4>1. /\ task[t].pc # "done"
            /\ task'[t].pc \in {"fail4", "fail5"} => task[t].pc \in {"fail3", "fail4"}
        BY <3>0, ServeEdgesInto, SMT, SMTT(30)
      <4>2. task'[t].op = task[t].op
        <5>1. task'[t].op = task[t].op \/ (task[t].pc = "accept" /\ task'[t].pc = "begin")
          BY Zenon  DEF ServeMoved
        <5> QED
          BY <3>3, <5>1, Zenon
      <4>3. task[t].pc = "fail3" => row' = StoppingRow(row) /\ UNCHANGED ops
        BY <1>2, <2>3, ServePlaces, Zenon DEF CleanupIntent
      <4> QED
        BY <3>3, <4>1, <4>2, <4>3, Zenon DEF ServeAfter
    <3> QED
      BY <3>1, <3>2, <3>3, Zenon DEF ServeAfter
  <2> QED
    BY <2>2, <2>3, Zenon
<1>3. ASSUME NEW x \in Stop \union Cancel, OtherActs(x) PROVE task'[t] = task[t]
  BY <1>0, <1>3, OtherMoves, Zenon DEF OtherMoved
<1>4. ASSUME Crash PROVE task'[t].pc \in {"new", "done"}
  BY <1>0, <1>4, Zenon DEF Crash, At, NewTask
<1>5. ASSUME RecStep PROVE task'[t] = task[t]
  BY <1>0, <1>5, RecMoves, Zenon DEF RecMoved
<1>6. ASSUME Outside \/ BootDegraded \/ BootStep \/ UNCHANGED vars PROVE task'[t] = task[t]
  BY <1>6, Bystanders, Zenon
<1> QED
  BY <1>2, <1>3, <1>4, <1>5, <1>6, Actors, Zenon DEF ServeAfter

(* What a step does to a stop request, as far as its operation matters.     *)
LEMMA StopStepAfter ==
  ASSUME ControlInv, [Next]_vars, NEW t \in Stop
  PROVE  \/ task'[t] = task[t]
         \/ task'[t].pc \in {"new", "done"}
         \/ StopAccept(t)
         \/ task'[t].op = task[t].op /\ task[t].pc \notin {"new", "done"}
<1>0. Types /\ GenKnown /\ t \in Task /\ t \notin Serve /\ t \notin Cancel
  BY LifecycleAssumption, Zenon DEF ControlInv, Task
<1>1. ASSUME NEW x \in Serve, ServeActs(x) PROVE task'[t] = task[t]
  BY <1>0, <1>1, ServeMoves, ZenonT(40) DEF ServeMoved
<1>2. ASSUME NEW x \in Stop \union Cancel, OtherActs(x)
      PROVE  \/ task'[t] = task[t]
             \/ StopAccept(t)
             \/ task'[t].op = task[t].op /\ task[t].pc \notin {"new", "done"}
  <2>1. OtherMoved(x)
    BY <1>0, <1>2, OtherMoves, ZenonT(40)
  <2>2. CASE x # t
    BY <1>0, <2>1, <2>2, ZenonT(40) DEF OtherMoved
  <2>3. CASE x = t
    <3>1. task[t].pc = "new" => StopAccept(t)
      BY <1>0, <1>2, <2>3, SMT, SMTT(30) DEF OtherActs, At, StopStep, StopBegin, StopAbsent, StopDrain, StopCall,
         StopInspect, StopGone, StopSettle, StopKept, CleanupStep, CleanupStop, CleanupIntent,
         UndoDone, HandlerDropped
    <3> QED
      BY <2>1, <2>3, <3>1, ZenonT(40) DEF OtherMoved
  <2> QED
    BY <2>2, <2>3, Zenon
<1>3. ASSUME Crash PROVE task'[t].pc \in {"new", "done"}
  BY <1>0, <1>3, Zenon DEF Crash, At, NewTask
<1>4. ASSUME RecStep PROVE task'[t] = task[t]
  BY <1>0, <1>4, RecMoves, Zenon DEF RecMoved
<1>5. ASSUME Outside \/ BootDegraded \/ BootStep \/ UNCHANGED vars PROVE task'[t] = task[t]
  BY <1>5, Bystanders, Zenon
<1> QED
  BY <1>1, <1>2, <1>3, <1>4, <1>5, Actors, ZenonT(40)

(* A serve operation gets its generation at begin_serve and fails at the    *)
(* end of fail_serve; nothing else touches either.                          *)
LEMMA ServeOpAfter ==
  ASSUME ControlInv, OpsInv, [Next]_vars, NEW i \in DOMAIN ops, ops[i].kind = "serve"
  PROVE  /\ i \in DOMAIN ops' /\ ops'[i].kind = "serve"
         /\ \/ ops'[i].gen = ops[i].gen
            \/ \E t \in Serve : /\ At(t, "begin") /\ i = task[t].op
                               /\ ops'[i].gen = row'.gen /\ ops'[i].st = ops[i].st
         /\ ops'[i].st = "failed" =>
              \/ ops[i].st = "failed"
              \/ \E t \in Serve : /\ At(t, "fail5") /\ i = task[t].op /\ Goto(t, "done")
                                 /\ ops'[i].gen = ops[i].gen /\ UNCHANGED row
<1>1. OpAfter(i)
  BY OpsStep, Zenon DEF OpsAfter, ControlInv
<1>2. ASSUME NEW t \in Stop, StopBegin(t) \/ StopKept(t) PROVE i # task[t].op
  <2>1. task[t].pc \in {"begin", "kept"}
    BY <1>2, Zenon DEF StopBegin, StopKept, At
  <2> QED
    BY <2>1, Zenon DEF OpsInv
<1>3. \A t \in Serve : ServeBegin(t) \/ ServeReuse(t) => At(t, "begin")
  BY Zenon  DEF ServeBegin, ServeReuse
<1> QED
  BY <1>1, <1>2, <1>3, Zenon DEF OpAfter

\* The intent of a serve operation that failed, or is about to.
FailInv == OpsInv /\ FailedServeLeavesStoppedIntent

(* Every step keeps it.                                                     *)
LEMMA FailInvStep == ControlInv /\ FailInv /\ [Next]_vars => FailInv'
<1> SUFFICES ASSUME ControlInv, FailInv, [Next]_vars PROVE FailInv'
  BY Zenon
<1>0. /\ Types /\ row \in Row /\ row.gen \in Int /\ OpsInv /\ ops \in Seq(OpRecord)
      /\ ops' \in Seq(OpRecord) /\ row' \in Row /\ row'.gen \in Int
  BY ControlInvStep, SMT, SMTT(30) DEF ControlInv, FailInv, Types, Row
<1>1. \/ (\E t \in Serve : ServeBegin(t)) /\ row'.gen = row.gen + 1
      \/ row'.gen = row.gen /\ row'.desired \in {row.desired, "stopped"}
  <2>1. (\E t \in Serve : ServeBegin(t)) => row'.gen = row.gen + 1
    BY Zenon  DEF ServeBegin, BegunRow, NoInstance
  <2> QED
    BY <1>0, <2>1, RowMoves, RowCommands, Zenon
<1>2. row'.gen = 0 => row'.desired = "stopped"
  <2>1. row.gen >= 0
    BY <1>0, SMT, SMTT(30) DEF Row
  <2> QED
    BY <1>0, <1>1, <2>1, SMT, SMTT(30) DEF OpsInv
<1>3. \A i \in DOMAIN ops' : ops'[i].gen <= row'.gen
  <2> SUFFICES ASSUME NEW i \in DOMAIN ops' PROVE ops'[i].gen <= row'.gen
    BY Zenon
  <2>1. row'.gen >= 0 /\ row'.gen >= row.gen
    BY <1>0, <1>1, SMT, SMTT(30) DEF Row
  <2>2. CASE i \in DOMAIN ops
    <3>1. ops'[i].gen = ops[i].gen \/ ops'[i].gen = row'.gen
      BY <1>0, <2>2, OpsStep, Zenon DEF OpsAfter, OpAfter
    <3>2. ops[i] \in OpRecord
      BY <1>0, <2>2, SMT, SMTT(30)
    <3>3. ops[i].gen <= row.gen /\ ops[i].gen \in Int
      BY <1>0, <2>2, <3>2, SMT, SMTT(30) DEF OpsInv, OpRecord
    <3> QED
      BY <1>0, <2>1, <3>1, <3>3, SMT, SMTT(30)
  <2>3. CASE i \notin DOMAIN ops
    BY <1>0, <2>1, <2>3, OpsStep, Zenon DEF OpsAfter
  <2> QED
    BY <2>2, <2>3, Zenon
<1>4. ASSUME NEW t \in Serve, task'[t].pc \notin {"new", "accept", "done"}
      PROVE  /\ task'[t].op \in DOMAIN ops' /\ ops'[task'[t].op].kind = "serve"
             /\ ops'[task'[t].op].st # "failed"
  <2>1. CASE ServeAccept(t)
    <3>1. ops' = Append(ops, NewOp("serve")) /\ task'[t].op = Len(ops) + 1
      BY <1>0, <2>1, Zenon DEF ServeAccept, Types, TaskType, TaskRecord, Task
    <3> QED
      BY <1>0, <3>1, SMT, SMTT(30) DEF NewOp
  <2>2. CASE task'[t].op = task[t].op /\ task[t].pc \notin {"new", "accept", "done"}
    <3>1. task[t].op \in DOMAIN ops /\ ops[task[t].op].kind = "serve" /\ ops[task[t].op].st # "failed"
      BY <1>0, <2>2, ZenonT(40) DEF OpsInv
    <3>2. ASSUME NEW x \in Serve, At(x, "fail5"), Goto(x, "done") PROVE FALSE
      <4>1. x = t
        BY <2>2, <3>2, ServeActsAlone, ZenonT(40) DEF At
      <4> QED
        BY <1>0, <1>4, <3>2, <4>1, ZenonT(40) DEF Goto, Types, TaskType, TaskRecord, Task
    <3> QED
      BY <1>0, <2>2, <3>1, <3>2, ServeOpAfter, ZenonT(40)
  <2>3. CASE task'[t] = task[t]
    BY <1>4, <2>2, <2>3, ZenonT(40)
  <2> QED
    BY <1>4, <2>1, <2>2, <2>3, ServeStepAfter, Zenon DEF ServeAfter
<1>5. ASSUME NEW t \in Stop, task'[t].pc \notin {"new", "done"}
      PROVE  task'[t].op \in DOMAIN ops' /\ ops'[task'[t].op].kind = "stop"
  <2>1. CASE StopAccept(t)
    <3>1. ops' = Append(ops, NewOp("stop")) /\ task'[t].op = Len(ops) + 1
      BY <1>0, <2>1, Zenon DEF StopAccept, Types, TaskType, TaskRecord, Task
    <3> QED
      BY <1>0, <3>1, SMT, SMTT(30) DEF NewOp
  <2>2. CASE task'[t].op = task[t].op /\ task[t].pc \notin {"new", "done"}
    <3>1. task[t].op \in DOMAIN ops /\ ops[task[t].op].kind = "stop"
      BY <1>0, <2>2, ZenonT(40) DEF OpsInv
    <3> QED
      BY <1>0, <2>2, <3>1, OpsStep, ZenonT(40) DEF OpsAfter, OpAfter
  <2>3. CASE task'[t] = task[t]
    BY <1>5, <2>2, <2>3, ZenonT(40)
  <2> QED
    BY <1>5, <2>1, <2>2, <2>3, StopStepAfter, ZenonT(40)
<1>6. ASSUME NEW t \in Serve, task'[t].pc \in {"fail4", "fail5"}
      PROVE  ops'[task'[t].op].gen = row'.gen => row'.desired = "stopped"
  <2>1. ASSUME row' = StoppingRow(row) PROVE row'.desired = "stopped"
    BY <1>0, <2>1, ZenonT(40) DEF StoppingRow, OpsInv, Row
  <2>2. CASE task'[t].op = task[t].op /\ task[t].pc \in {"fail4", "fail5"}
    <3>1. task[t].op \in DOMAIN ops /\ ops[task[t].op].kind = "serve"
      BY <1>0, <2>2, Zenon DEF OpsInv
    <3>2. ASSUME NEW x \in Serve, At(x, "begin") PROVE FALSE
      BY <2>2, <3>2, ServeActsAlone, ZenonT(40) DEF At
    <3>3. ops'[task[t].op].gen = ops[task[t].op].gen
      BY <1>0, <3>1, <3>2, ServeOpAfter, ZenonT(40)
    <3>4. row'.gen = row.gen /\ row'.desired \in {row.desired, "stopped"}
      BY <1>1, <3>2, Zenon DEF ServeBegin
    <3> QED
      BY <1>0, <2>2, <3>3, <3>4, ZenonT(40) DEF OpsInv
  <2>3. ServeAccept(t) => task'[t].pc = "begin"
    BY <1>0, ZenonT(40) DEF ServeAccept, Types, TaskType, TaskRecord, Task
  <2>4. CASE task'[t] = task[t]
    BY <1>6, <2>2, <2>4, Zenon
  <2> QED
    BY <1>6, <2>1, <2>2, <2>3, <2>4, ServeStepAfter, ZenonT(40) DEF ServeAfter
<1>7. FailedServeLeavesStoppedIntent'
  <2> SUFFICES ASSUME NEW i \in DOMAIN ops', ops'[i].kind = "serve", ops'[i].st = "failed",
                      ops'[i].gen = row'.gen
               PROVE  row'.desired = "stopped"
    BY Zenon  DEF FailedServeLeavesStoppedIntent
  <2>1. i \in DOMAIN ops /\ OpAfter(i)
    BY <1>0, OpsStep, Zenon DEF OpsAfter
  <2>2. ops[i].kind = "serve"
    BY <2>1, Zenon DEF OpAfter
  <2>3. ASSUME NEW t \in Serve, At(t, "fail5"), i = task[t].op, ops'[i].gen = ops[i].gen, UNCHANGED row
        PROVE  row'.desired = "stopped"
    BY <1>0, <2>3, Zenon DEF OpsInv, At
  <2>4. CASE ops[i].st = "failed"
    <3>1. ASSUME NEW t \in Serve, At(t, "begin"), i = task[t].op PROVE FALSE
      BY <1>0, <2>4, <3>1, ZenonT(40) DEF OpsInv, At
    <3>2. ops'[i].gen = ops[i].gen
      BY <1>0, <2>1, <2>2, <3>1, ServeOpAfter, ZenonT(40)
    <3>3. ops[i] \in OpRecord
      BY <1>0, <2>1, SMT, SMTT(30)
    <3>4. ops[i].gen <= row.gen /\ ops[i].gen \in Int
      <4>1. ops[i].gen <= row.gen
        BY <1>0, <2>1, Zenon DEF OpsInv
      <4> QED
        BY <3>3, <4>1, SMT, SMTT(30) DEF OpRecord
    <3>5. row'.gen = row.gen /\ row'.desired \in {row.desired, "stopped"}
      BY <1>0, <1>1, <3>2, <3>4, SMT, SMTT(30)
    <3> QED
      BY <2>1, <2>2, <2>4, <3>2, <3>5, ZenonT(40) DEF FailInv, FailedServeLeavesStoppedIntent
  <2> QED
    BY <1>0, <2>1, <2>2, <2>3, <2>4, ServeOpAfter, ZenonT(40)
<1> QED
  BY <1>2, <1>3, <1>4, <1>5, <1>6, <1>7, ZenonT(40) DEF FailInv, OpsInv

(* A start that failed is not retried behind the user's back.               *)
THEOREM FailedServeAlwaysStopped == Spec => []FailedServeLeavesStoppedIntent
<1>1. Init => FailInv
  BY SMT, SMTT(30)  DEF Init, FailInv, OpsInv, FailedServeLeavesStoppedIntent, NewTask, NoInstance, Task
<1>2. FailInv => FailedServeLeavesStoppedIntent
  BY Zenon DEF FailInv
<1> QED
  BY <1>1, <1>2, ControlInit, ControlInvStep, FailInvStep, PTL DEF Spec
=============================================================================
