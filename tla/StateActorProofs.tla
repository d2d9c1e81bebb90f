-------------------------- MODULE StateActorProofs --------------------------
(***************************************************************************)
(* Proofs about the database actor for any number of operations, tokens,   *)
(* crashes and retries.  The actor implements the operation ledger, so the *)
(* theorems about the ledger hold of it; and a revocation that is          *)
(* reported as succeeded is in force.                                      *)
(***************************************************************************)
EXTENDS StateActor, FiniteSetTheorems, TLAPS

-----------------------------------------------------------------------------
(* The operation ledger, for any set of operations, callers, kinds, keys    *)
(* and hashes and for event logs of any length.                             *)

(* The tables keep their types under every transaction of state.rs.         *)
LEMMA LedgerTypeInit == LedgerInit => LedgerTypeOK
  BY SMT, SMTT(30) DEF LedgerInit, LedgerTypeOK, OpState, IdemRow

(* A legal target state is a state of the operations table.                 *)
LEMMA LegalStates ==
  ASSUME NEW a, NEW b, LegalTransition(a, b)
  PROVE  a \in Active /\ b \in OpState
  BY Zenon DEF LegalTransition, LegalPairs, Active, OpState

(* Every transaction of the ledger keeps the types of the three tables.    *)
LEMMA LedgerTypeStep == LedgerTypeOK /\ [LedgerNext]_ledger => LedgerTypeOK'
<1> SUFFICES ASSUME LedgerTypeOK, [LedgerNext]_ledger PROVE LedgerTypeOK'
  BY Zenon
<1> USE DEF LedgerTypeOK
<1>1. ASSUME NEW id \in OpId, NEW slot \in Slot, NEW hash \in Hash,
             AcceptNew(id, slot, hash)
      PROVE  LedgerTypeOK'
  <2>1. "accepted" \in OpState
    BY Zenon DEF OpState
  <2>2. state' \in [OpId -> OpState \union {"absent"}]
    BY <1>1, <2>1, Zenon DEF AcceptNew
  <2>3. [slot |-> slot, hash |-> hash, op |-> id] \in IdemRow
    BY Zenon DEF IdemRow
  <2>4. idem' \subseteq IdemRow
    BY <1>1, <2>3, Zenon DEF AcceptNew
  <2>5. events' \in [OpId -> Seq(OpState)]
    BY <1>1, <2>1, SMT, SMTT(30) DEF AcceptNew
  <2> QED
    BY <2>2, <2>4, <2>5, Zenon
<1>2. ASSUME NEW id \in OpId, NEW next \in OpState, Transition(id, next)
      PROVE  LedgerTypeOK'
  <2>1. state' \in [OpId -> OpState \union {"absent"}]
    BY <1>2, Zenon DEF Transition
  <2>2. events' \in [OpId -> Seq(OpState)]
    BY <1>2, SMT, SMTT(30) DEF Transition
  <2> QED
    BY <1>2, <2>1, <2>2, Zenon DEF Transition
<1>3. CASE UNCHANGED ledger
  BY <1>3, Zenon DEF ledger
<1> QED
  BY <1>1, <1>2, <1>3, Zenon DEF LedgerNext

(* Type correctness of the ledger.                                          *)
THEOREM LedgerTypeCorrect == LedgerSpec => []LedgerTypeOK
  BY LedgerTypeInit, LedgerTypeStep, PTL DEF LedgerSpec

-----------------------------------------------------------------------------
(* The log of one operation, and the effect of appending to it.             *)
PathOK(log, last) ==
  /\ last = "absent" <=> log = <<>>
  /\ log # <<>> =>
       /\ log[1] = "accepted"
       /\ log[Len(log)] = last
       /\ \A i \in 1 .. Len(log) - 1 : LegalTransition(log[i], log[i + 1])

(* The log an acceptance writes is a path.                                  *)
LEMMA PathStart == PathOK(Append(<<>>, "accepted"), "accepted")
<1> DEFINE log == Append(<<>>, "accepted")
<1>1. log = <<"accepted">>
  BY SMT, SMTT(30)
<1>2. Len(log) = 1 /\ log[1] = "accepted" /\ log # <<>>
  BY <1>1, SMT, SMTT(30)
<1>3. (1 .. Len(log) - 1) = {}
  BY <1>2, SMT, SMTT(30)
<1> HIDE DEF log
<1> QED
  BY <1>2, <1>3, Zenon DEF PathOK, log

(* The event a legal transition appends extends a path to the next state.   *)
LEMMA PathExtend ==
  ASSUME NEW log \in Seq(OpState), NEW last, NEW next \in OpState,
         PathOK(log, last), LegalTransition(last, next)
  PROVE  PathOK(Append(log, next), next)
<1> DEFINE ext == Append(log, next)
<1>1. last \in Active
  BY LegalStates, Zenon
<1>2. log # <<>> /\ Len(log) \in Nat /\ Len(log) > 0
  BY <1>1, SMT, SMTT(30) DEF PathOK, Active
<1>3. /\ ext # <<>>
      /\ Len(ext) = Len(log) + 1
      /\ \A i \in 1 .. Len(log) : ext[i] = log[i]
      /\ ext[Len(log) + 1] = next
  BY <1>2, SMT, SMTT(30)
<1>4. next # "absent"
  BY Zenon DEF OpState
<1>5. ext[1] = "accepted"
  BY <1>2, <1>3, SMT, SMTT(30) DEF PathOK
<1>6. ASSUME NEW i \in 1 .. Len(ext) - 1
      PROVE  LegalTransition(ext[i], ext[i + 1])
  <2>1. CASE i = Len(log)
    BY <1>2, <1>3, <2>1, SMT, SMTT(30) DEF PathOK
  <2>2. CASE i # Len(log)
    <3>1. i \in 1 .. Len(log) - 1 /\ i \in 1 .. Len(log) /\ i + 1 \in 1 .. Len(log)
      BY <1>2, <1>3, <2>2, SMT, SMTT(30)
    <3>2. ext[i] = log[i] /\ ext[i + 1] = log[i + 1]
      BY <1>3, <3>1, Zenon
    <3> QED
      BY <1>2, <3>1, <3>2, Zenon DEF PathOK
  <2> QED
    BY <2>1, <2>2, Zenon
<1> HIDE DEF ext
<1> QED
  BY <1>3, <1>4, <1>5, <1>6, Zenon DEF PathOK, ext

(* LogIsLegalPath, operation by operation.                                  *)
LEMMA LogAsPaths == LogIsLegalPath <=> \A id \in OpId : PathOK(events[id], state[id])
  BY Zenon DEF LogIsLegalPath, PathOK

(* The empty tables of a new database are consistent.                       *)
LEMMA LogInit == LedgerInit => LogIsLegalPath
  BY Zenon DEF LedgerInit, LogIsLegalPath

(* accept_operation and transition keep row and log together.               *)
LEMMA LogStep ==
  LedgerTypeOK /\ LogIsLegalPath /\ [LedgerNext]_ledger => LogIsLegalPath'
<1> SUFFICES ASSUME LedgerTypeOK, LogIsLegalPath, [LedgerNext]_ledger
             PROVE  \A x \in OpId : PathOK(events'[x], state'[x])
  BY Zenon DEF LogIsLegalPath, PathOK
<1>0. \A x \in OpId : PathOK(events[x], state[x])
  BY LogAsPaths, Zenon
<1>1. ASSUME NEW id \in OpId, NEW slot \in Slot, NEW hash \in Hash,
             AcceptNew(id, slot, hash), NEW x \in OpId
      PROVE  PathOK(events'[x], state'[x])
  <2>1. CASE x = id
    <3>1. events[id] = <<>>
      BY <1>0, <1>1, Zenon DEF AcceptNew, PathOK
    <3>2. events'[x] = Append(<<>>, "accepted") /\ state'[x] = "accepted"
      BY <1>1, <2>1, <3>1, Zenon DEF AcceptNew, LedgerTypeOK
    <3> QED
      BY <3>2, PathStart, Zenon
  <2>2. CASE x # id
    BY <1>0, <1>1, <2>2, Zenon DEF AcceptNew, LedgerTypeOK
  <2> QED
    BY <2>1, <2>2, Zenon
<1>2. ASSUME NEW id \in OpId, NEW next \in OpState, Transition(id, next), NEW x \in OpId
      PROVE  PathOK(events'[x], state'[x])
  <2>1. CASE x = id
    <3>1. events'[x] = Append(events[id], next) /\ state'[x] = next
      BY <1>2, <2>1, Zenon DEF Transition, LedgerTypeOK
    <3>2. events[id] \in Seq(OpState) /\ PathOK(events[id], state[id])
      BY <1>0, Zenon DEF LedgerTypeOK
    <3>3. LegalTransition(state[id], next)
      BY <1>2, Zenon DEF Transition
    <3> QED
      BY <3>1, <3>2, <3>3, PathExtend, Zenon
  <2>2. CASE x # id
    BY <1>0, <1>2, <2>2, Zenon DEF Transition, LedgerTypeOK
  <2> QED
    BY <2>1, <2>2, Zenon
<1>3. CASE UNCHANGED ledger
  BY <1>0, <1>3, Zenon DEF ledger
<1> QED
  BY <1>1, <1>2, <1>3, Zenon DEF LedgerNext

(* The event log a client replays is always a legal path of operation       *)
(* states that ends in the state of the row.                                *)
THEOREM LogAlwaysLegal == LedgerSpec => []LogIsLegalPath
  BY LedgerTypeCorrect, LogInit, LogStep, PTL DEF LedgerSpec

-----------------------------------------------------------------------------
(* A new database has no requests.                                          *)
LEMMA RequestInit == LedgerInit => OneOperationPerRequest
  BY Zenon DEF LedgerInit, OneOperationPerRequest

(* accept_operation binds a new slot to a new operation; transition binds   *)
(* nothing.                                                                 *)
LEMMA RequestStep ==
  LedgerTypeOK /\ OneOperationPerRequest /\ [LedgerNext]_ledger
    => OneOperationPerRequest'
<1> SUFFICES ASSUME LedgerTypeOK, OneOperationPerRequest, [LedgerNext]_ledger
             PROVE  OneOperationPerRequest'
  BY Zenon
<1> USE DEF OneOperationPerRequest, LedgerTypeOK
<1>1. ASSUME NEW id \in OpId, NEW slot \in Slot, NEW hash \in Hash,
             AcceptNew(id, slot, hash)
      PROVE  OneOperationPerRequest'
  <2> DEFINE new == [slot |-> slot, hash |-> hash, op |-> id]
  <2>1. idem' = idem \union {new} /\ new.slot = slot /\ new.op = id
    BY <1>1, Zenon DEF AcceptNew
  <2>2. \A r \in idem : r.slot # slot /\ r.op # id
    BY <1>1, Zenon DEF AcceptNew, Prior
  <2>3. \A x \in OpId : state'[x] # "absent" <=> state[x] # "absent" \/ x = id
    BY <1>1, Zenon DEF AcceptNew
  <2> HIDE DEF new
  <2>4. \A r1, r2 \in idem' : (r1.slot = r2.slot \/ r1.op = r2.op) => r1 = r2
    BY <2>1, <2>2, ZenonT(40)
  <2>5. \A x \in OpId : state'[x] # "absent" <=> \E row \in idem' : row.op = x
    BY <2>1, <2>3, Zenon
  <2> QED
    BY <2>4, <2>5, Zenon
<1>2. ASSUME NEW id \in OpId, NEW next \in OpState, Transition(id, next)
      PROVE  OneOperationPerRequest'
  <2>1. state[id] # "absent" /\ next # "absent"
    BY <1>2, LegalStates, Zenon DEF Transition, Active, OpState
  <2>2. \A x \in OpId : state'[x] # "absent" <=> state[x] # "absent"
    BY <1>2, <2>1, Zenon DEF Transition
  <2> QED
    BY <1>2, <2>2, Zenon DEF Transition
<1>3. CASE UNCHANGED ledger
  BY <1>3, Zenon DEF ledger
<1> QED
  BY <1>1, <1>2, <1>3, Zenon DEF LedgerNext

(* A request identified by caller, kind and key is bound to exactly one     *)
(* operation, and every operation to one request.                           *)
THEOREM RequestsNeverDuplicated == LedgerSpec => []OneOperationPerRequest
  BY LedgerTypeCorrect, RequestInit, RequestStep, PTL DEF LedgerSpec

-----------------------------------------------------------------------------
(* What a step may never do: a terminal operation is immutable and an       *)
(* idempotency row is permanent.                                            *)
THEOREM TerminalOperationsImmutable == LedgerSpec => TerminalImmutable
<1> DEFINE Frozen == /\ \A id \in OpId : state[id] \in Terminal =>
                          state'[id] = state[id] /\ events'[id] = events[id]
                     /\ idem \subseteq idem'
<1>1. LedgerTypeOK /\ [LedgerNext]_ledger => [Frozen]_ledger
  <2> SUFFICES ASSUME LedgerTypeOK, LedgerNext PROVE Frozen
    BY Zenon
  <2> USE DEF LedgerTypeOK
  <2>1. ASSUME NEW id \in OpId, NEW slot \in Slot, NEW hash \in Hash,
               AcceptNew(id, slot, hash)
        PROVE  Frozen
    BY <2>1, Zenon DEF AcceptNew, Terminal
  <2>2. ASSUME NEW id \in OpId, NEW next \in OpState, Transition(id, next)
        PROVE  Frozen
    <3>1. state[id] \notin Terminal
      BY <2>2, LegalStates, Zenon DEF Transition, Active, Terminal
    <3> QED
      BY <2>2, <3>1, Zenon DEF Transition
  <2> QED
    BY <2>1, <2>2, Zenon DEF LedgerNext
<1> QED
  BY <1>1, LedgerTypeCorrect, PTL DEF LedgerSpec, TerminalImmutable

-----------------------------------------------------------------------------
(* The database actor.                                                      *)

(* A command that is not Idle has the fields of a command.                  *)
LEMMA CommandFields ==
  ASSUME TypeOK, cmd.name # "idle"
  PROVE  cmd \in [name: {"cancel", "create", "revoke"}, op: OpId,
                  pc: {"insert", "panel", "update", "running", "succeed", "audit"},
                  token: TokenId \union {NoToken}]
  BY SMT, SMTT(30) DEF TypeOK, Idle

(* Every command of the actor, every crash and every boot step is a         *)
(* transaction of the ledger or leaves the ledger alone.                    *)
LEMMA ActorStepIsLedgerStep == TypeOK /\ [Next]_vars => [LedgerNext]_ledger
<1> SUFFICES ASSUME TypeOK, [Next]_vars PROVE LedgerNext \/ UNCHANGED ledger
  BY Zenon
<1>1. ASSUME NEW id \in OpId, NEW slot \in Slot, NEW hash \in Hash,
             Accept(id, slot, hash) \/ CreateAccept(id, slot, hash) \/ RevokeAccept(id, slot, hash)
      PROVE  LedgerNext
  BY <1>1, Zenon DEF Accept, CreateAccept, RevokeAccept, LedgerNext
<1>2. ASSUME NEW id \in OpId, NEW next \in OpState, TaskTransition(id, next)
      PROVE  LedgerNext
  BY <1>2, Zenon DEF TaskTransition, LedgerNext
<1>3. ASSUME NEW id \in OpId, Cancel(id) PROVE LedgerNext
  BY <1>3, Zenon DEF Cancel, OpState, LedgerNext
<1>4. CASE CommandStep
  <2>1. ASSUME NEW t \in TokenId, CreateInsert(t) PROVE UNCHANGED ledger
    BY <2>1, Zenon DEF CreateInsert
  <2>2. CASE CreateOverloaded \/ CreatePanelScope \/ RevokeUpdate \/ RevokeNotFound \/ CommandAudit
    BY <2>2, Zenon DEF CreateOverloaded, CreatePanelScope, RevokeUpdate, RevokeNotFound, CommandAudit
  <2>3. ASSUME CommandRunning \/ CommandSucceed PROVE LedgerNext
    <3>1. cmd.op \in OpId
      BY <2>3, CommandFields, Zenon DEF CommandRunning, CommandSucceed
    <3>2. "running" \in OpState /\ "succeeded" \in OpState
      BY Zenon DEF OpState
    <3> QED
      BY <2>3, <3>1, <3>2, Zenon DEF CommandRunning, CommandSucceed, LedgerNext
  <2> QED
    BY <1>4, <2>1, <2>2, <2>3, Zenon DEF CommandStep
<1>5. CASE Crash
  BY <1>5, Zenon DEF Crash
<1>6. CASE BootStep
  <2>1. ASSUME NEW id \in OpId, BootInterrupt(id) PROVE LedgerNext
    <3>1. (IF state[id] = "accepted" THEN "running" ELSE "failed") \in OpState
      BY Zenon DEF OpState
    <3> QED
      BY <2>1, <3>1, Zenon DEF BootInterrupt, LedgerNext
  <2>2. ASSUME BootDone PROVE UNCHANGED ledger
    BY <2>2, Zenon DEF BootDone
  <2> QED
    BY <1>6, <2>1, <2>2, Zenon DEF BootStep
<1>7. CASE UNCHANGED vars
  BY <1>7, Zenon DEF vars, ledger
<1> QED
  BY <1>1, <1>2, <1>3, <1>4, <1>5, <1>6, <1>7, Zenon DEF Next

-----------------------------------------------------------------------------
(* A new database has the types of the actor's tables.                      *)
LEMMA ActorTypeInit == Init => TypeOK
  BY LedgerTypeInit, TokenLimitAssumption, SMT, SMTT(30) DEF Init, TypeOK, Idle

(* Every command keeps the types of the tables and of the command itself.   *)
LEMMA ActorTypeStep == TypeOK /\ [Next]_vars => TypeOK'
<1> SUFFICES ASSUME TypeOK, [Next]_vars PROVE TypeOK'
  BY Zenon
<1> DEFINE
      Command == [name: {"cancel", "create", "revoke"}, op: OpId,
                  pc: {"insert", "panel", "update", "running", "succeed", "audit"},
                  token: TokenId \union {NoToken}]
      AuditRows == {"operation.accept", "cancel", "create", "revoke"} \X OpId
<1>0. LedgerTypeOK'
  BY ActorStepIsLedgerStep, LedgerTypeStep, Zenon DEF TypeOK
<1>1. ASSUME NEW id \in OpId, NEW slot \in Slot, NEW hash \in Hash,
             Accept(id, slot, hash) \/ CreateAccept(id, slot, hash) \/ RevokeAccept(id, slot, hash)
      PROVE  TypeOK'
  <2>1. <<"operation.accept", id>> \in AuditRows
    BY Zenon
  <2>2. audit' \subseteq AuditRows
    BY <1>1, <2>1, Zenon DEF TypeOK, Accept, CreateAccept, RevokeAccept
  <2>3. cmd' \in {Idle} \union Command
    BY <1>1, SMT, SMTT(30) DEF TypeOK, Accept, CreateAccept, RevokeAccept
  <2> QED
    BY <1>0, <1>1, <2>2, <2>3, SMT, SMTT(30) DEF TypeOK, Accept, CreateAccept, RevokeAccept
<1>2. ASSUME NEW id \in OpId, NEW next \in OpState, TaskTransition(id, next)
      PROVE  TypeOK'
  BY <1>0, <1>2, Zenon DEF TypeOK, TaskTransition, tokenVars
<1>3. ASSUME NEW id \in OpId, Cancel(id) PROVE TypeOK'
  <2>1. cmd' \in Command
    BY <1>3, Zenon DEF Cancel
  <2> QED
    BY <1>0, <1>3, <2>1, Zenon DEF TypeOK, Cancel, tokenVars
<1>4. ASSUME CommandStep PROVE TypeOK'
  <2>1. cmd \in Command
    BY <1>4, CommandFields, Zenon DEF CommandStep, CreateInsert, CreateOverloaded, CreatePanelScope,
       RevokeUpdate, RevokeNotFound, CommandRunning, CommandSucceed, CommandAudit
  <2>2. ASSUME NEW t \in TokenId, CreateInsert(t) PROVE TypeOK'
    <3>1. cmd' \in Command
      BY <2>1, <2>2, Zenon DEF CreateInsert
    <3> QED
      BY <1>0, <2>2, <3>1, ZenonT(40) DEF TypeOK, CreateInsert
  <2>3. CASE CreateOverloaded \/ RevokeNotFound
    BY <1>0, <2>3, SMT, SMTT(30) DEF TypeOK, Idle, CreateOverloaded, RevokeNotFound, tokenVars
  <2>4. CASE CreatePanelScope
    <3>1. cmd' \in Command /\ cmd'.token = cmd.token
      BY <2>1, <2>4, Zenon DEF CreatePanelScope
    <3>2. cmd.token \in TokenId
      BY <2>4, Zenon DEF TypeOK, CreatePanelScope
    <3> QED
      BY <1>0, <2>4, <3>1, <3>2, Zenon DEF TypeOK, CreatePanelScope
  <2>5. CASE RevokeUpdate
    <3>1. cmd' \in Command
      BY <2>1, <2>5, Zenon DEF RevokeUpdate
    <3> QED
      BY <1>0, <2>5, <3>1, Zenon DEF TypeOK, RevokeUpdate
  <2>6. CASE CommandRunning
    <3>1. cmd' \in Command
      BY <2>1, <2>6, Zenon DEF CommandRunning
    <3> QED
      BY <1>0, <2>6, <3>1, Zenon DEF TypeOK, CommandRunning, tokenVars
  <2>7. CASE CommandSucceed
    <3>1. cmd' \in Command
      BY <2>1, <2>7, Zenon DEF CommandSucceed
    <3>2. result' \in [OpId -> TokenId \union {NoToken}]
      BY <2>1, <2>7, Zenon DEF TypeOK, CommandSucceed
    <3> QED
      BY <1>0, <2>7, <3>1, <3>2, Zenon DEF TypeOK, CommandSucceed
  <2>8. CASE CommandAudit
    <3>1. <<cmd.name, cmd.op>> \in AuditRows
      BY <2>1, Zenon
    <3>2. delivered' \subseteq TokenId
      BY <2>8, Zenon DEF TypeOK, CommandAudit
    <3>3. cmd'.name = "idle"
      BY <2>8, Zenon DEF CommandAudit, Idle
    <3> QED
      BY <1>0, <2>8, <3>1, <3>2, <3>3, ZenonT(40) DEF TypeOK, CommandAudit
  <2> QED
    BY <1>4, <2>2, <2>3, <2>4, <2>5, <2>6, <2>7, <2>8, Zenon DEF CommandStep
<1>5. CASE Crash
  BY <1>0, <1>5, TokenLimitAssumption, SMT, SMTT(30) DEF TypeOK, Idle, Crash, tokenVars
<1>6. CASE BootStep
  BY <1>0, <1>6, Zenon DEF TypeOK, BootStep, BootInterrupt, BootDone, tokenVars
<1>7. CASE UNCHANGED vars
  BY <1>0, <1>7, Zenon DEF TypeOK, vars
<1> QED
  BY <1>1, <1>2, <1>3, <1>4, <1>5, <1>6, <1>7, Zenon DEF Next

(* Type correctness of the actor.                                           *)
THEOREM ActorTypeCorrect == Spec => []TypeOK
  BY ActorTypeInit, ActorTypeStep, PTL DEF Spec

(* The database actor, with its multi-transaction commands, its crashes and *)
(* its boot, implements the operation ledger.                               *)
THEOREM ActorImplementsLedger == Spec => LedgerSpec
<1>1. Init => LedgerInit
  BY Zenon DEF Init
<1> QED
  BY <1>1, ActorStepIsLedgerStep, ActorTypeCorrect, PTL DEF Spec, LedgerSpec

(* So the log of every operation is a legal path that ends in its row,      *)
(* across crashes between the transactions of one command.                  *)
THEOREM ActorLogAlwaysLegal == Spec => []LogIsLegalPath
  BY ActorImplementsLedger, LogAlwaysLegal, PTL

(* And a retried request never runs under a second operation.               *)
THEOREM ActorRequestsNeverDuplicated == Spec => []OneOperationPerRequest
  BY ActorImplementsLedger, RequestsNeverDuplicated, PTL

(* And no command, crash or boot changes a terminal operation.              *)
THEOREM ActorTerminalImmutable == Spec => TerminalImmutable
  BY ActorImplementsLedger, TerminalOperationsImmutable, PTL

-----------------------------------------------------------------------------
(* The inductive invariant behind SucceededRevokeIsInForce: the token is    *)
(* revoked before the operation leaves accepted, so it is enough to know    *)
(* the command in progress and the operations that are running already.     *)
RevokeInv ==
  /\ \A id \in OpId :
       (state[id] \in {"running", "succeeded"} /\ KindOf(id) = "token.revoke") =>
         tokens[TargetOf(id)] = "revoked"
  /\ cmd # Idle => state[cmd.op] # "absent"
  /\ cmd.name = "create" => KindOf(cmd.op) = "token.create"
  /\ cmd.name = "revoke" =>
       /\ TargetOf(cmd.op) = cmd.token
       /\ cmd.pc # "update" => tokens[cmd.token] = "revoked"

(* No two rows share an operation, so CHOOSE finds the row.                 *)
LEMMA UniqueRow ==
  ASSUME NEW S, NEW row \in S, \A r1, r2 \in S : r1.op = r2.op => r1 = r2
  PROVE  (CHOOSE r \in S : r.op = row.op) = row
  BY Zenon

(* The kind and the hash of an accepted operation never change.             *)
LEMMA IdentityStable ==
  ASSUME OneOperationPerRequest, OneOperationPerRequest', idem \subseteq idem',
         NEW id \in OpId, state[id] # "absent"
  PROVE  KindOf(id)' = KindOf(id) /\ TargetOf(id)' = TargetOf(id)
<1>1. PICK row \in idem : row.op = id
  BY Zenon DEF OneOperationPerRequest
<1>2. (CHOOSE r \in idem : r.op = id) = row
  BY <1>1, UniqueRow, Zenon DEF OneOperationPerRequest
<1>3. (CHOOSE r \in idem' : r.op = id) = row
  BY <1>1, UniqueRow, ZenonT(40) DEF OneOperationPerRequest
<1> QED
  BY <1>2, <1>3, Zenon DEF KindOf, TargetOf

(* An operation just accepted has the kind and the hash of its request.     *)
LEMMA IdentityAccepted ==
  ASSUME OneOperationPerRequest', NEW id, NEW slot, NEW hash, AcceptNew(id, slot, hash)
  PROVE  KindOf(id)' = slot.kind /\ TargetOf(id)' = hash
<1> DEFINE row == [slot |-> slot, hash |-> hash, op |-> id]
<1>1. row \in idem' /\ row.op = id
  BY Zenon DEF AcceptNew
<1>2. (CHOOSE r \in idem' : r.op = id) = row
  BY <1>1, UniqueRow, Zenon DEF OneOperationPerRequest
<1>3. row.slot = slot /\ row.hash = hash
  BY Zenon
<1> HIDE DEF row
<1> QED
  BY <1>2, <1>3, Zenon DEF KindOf, TargetOf

(* Every step of the actor keeps RevokeInv.                                 *)
LEMMA RevokeStep ==
  /\ TypeOK /\ TypeOK' /\ OneOperationPerRequest /\ OneOperationPerRequest'
  /\ RevokeInv /\ [Next]_vars
  => RevokeInv'
<1> SUFFICES ASSUME TypeOK, TypeOK', OneOperationPerRequest, OneOperationPerRequest',
                    RevokeInv, [Next]_vars
             PROVE  RevokeInv'
  BY Zenon
<1> DEFINE InForce == \A id \in OpId :
             (state[id] \in {"running", "succeeded"} /\ KindOf(id) = "token.revoke") =>
               tokens[TargetOf(id)] = "revoked"
           Known(id) == state[id] # "absent"
<1>1. idem \subseteq idem'
  BY ActorStepIsLedgerStep, Zenon DEF LedgerNext, AcceptNew, Transition, ledger
<1>2. \A id \in OpId : Known(id) =>
        KindOf(id)' = KindOf(id) /\ TargetOf(id)' = TargetOf(id)
  BY <1>1, IdentityStable, Zenon
<1>3. ASSUME NEW id \in OpId, NEW slot \in Slot, NEW hash \in Hash,
             Accept(id, slot, hash) \/ CreateAccept(id, slot, hash) \/ RevokeAccept(id, slot, hash)
      PROVE  RevokeInv'
  <2>1. AcceptNew(id, slot, hash) /\ cmd = Idle /\ UNCHANGED tokens
    BY <1>3, Zenon DEF Accept, CreateAccept, RevokeAccept, ActorIdle
  <2>2. KindOf(id)' = slot.kind /\ TargetOf(id)' = hash
    BY <2>1, IdentityAccepted, Zenon
  <2>3. state'[id] = "accepted" /\ \A x \in OpId \ {id} : state'[x] = state[x]
    BY <2>1, SMT, SMTT(30) DEF AcceptNew, TypeOK, LedgerTypeOK
  <2>4. InForce'
    BY <1>2, <2>1, <2>3, ZenonT(40) DEF RevokeInv
  <2>5. CASE Accept(id, slot, hash)
    BY <2>1, <2>4, <2>5, Zenon DEF Accept, RevokeInv, Idle
  <2>6. CASE CreateAccept(id, slot, hash)
    BY <2>2, <2>3, <2>4, <2>6, Zenon DEF CreateAccept, RevokeInv
  <2>7. CASE RevokeAccept(id, slot, hash)
    BY <2>2, <2>3, <2>4, <2>7, Zenon DEF RevokeAccept, RevokeInv
  <2> QED
    BY <1>3, <2>5, <2>6, <2>7, Zenon
<1>4. ASSUME NEW id \in OpId, NEW next \in OpState, TaskTransition(id, next)
      PROVE  RevokeInv'
  <2>1. Known(id) /\ KindOf(id) # "token.revoke" /\ cmd = Idle /\ UNCHANGED <<tokens, cmd>>
    BY <1>4, LegalStates, Zenon DEF TaskTransition, ActorIdle, Transition, tokenVars, Active
  <2>2. \A x \in OpId \ {id} : state'[x] = state[x]
    BY <1>4, ZenonT(40) DEF TaskTransition, Transition, TypeOK, LedgerTypeOK
  <2>3. InForce'
    BY <1>2, <2>1, <2>2, ZenonT(40) DEF RevokeInv
  <2> QED
    BY <2>1, <2>3, Zenon DEF RevokeInv, Idle
<1>5. ASSUME NEW id \in OpId, Cancel(id) PROVE RevokeInv'
  <2>1. state'[id] = "cancelled" /\ \A x \in OpId \ {id} : state'[x] = state[x]
    BY <1>5, SMT, SMTT(30) DEF Cancel, Transition, TypeOK, LedgerTypeOK
  <2>2. InForce'
    BY <1>2, <1>5, <2>1, Zenon DEF RevokeInv, Cancel, tokenVars
  <2> QED
    BY <1>5, <2>1, <2>2, Zenon DEF RevokeInv, Cancel, Idle
<1>6. ASSUME CommandStep PROVE RevokeInv'
  <2>1. cmd.name # "idle"
    BY <1>6, Zenon DEF CommandStep, CreateInsert, CreateOverloaded, CreatePanelScope,
       RevokeUpdate, RevokeNotFound, CommandRunning, CommandSucceed, CommandAudit
  <2>2. PICK op \in OpId : op = cmd.op
    BY <2>1, CommandFields, Zenon
  <2>3. Known(op) /\ KindOf(op)' = KindOf(op) /\ TargetOf(op)' = TargetOf(op)
    BY <1>2, <2>1, <2>2, SMT, SMTT(30) DEF RevokeInv, Idle
  <2>4. \A x \in OpId : Known(x)' <=> Known(x)
    BY <1>6, <2>2, <2>3, ZenonT(40) DEF CommandStep, CreateInsert, CreateOverloaded, CreatePanelScope, RevokeUpdate,
       RevokeNotFound, CommandRunning, CommandSucceed, CommandAudit, ledger, Transition,
       TypeOK, LedgerTypeOK
  <2>5. ASSUME NEW t \in TokenId, CreateInsert(t) PROVE RevokeInv'
    <3>1. cmd'.name = "create" /\ cmd'.op = op /\ cmd' # Idle
      BY <2>2, <2>5, CommandFields, Zenon DEF CreateInsert, Idle
    <3>2. InForce'
      BY <1>2, <2>5, SMT, SMTT(30) DEF CreateInsert, RevokeInv, ledger, TypeOK
    <3>3. KindOf(op) = "token.create"
      BY <2>2, <2>5, Zenon DEF RevokeInv, CreateInsert
    <3> QED
      BY <2>3, <2>4, <3>1, <3>2, <3>3, Zenon DEF RevokeInv
  <2>6. CASE CreateOverloaded \/ RevokeNotFound \/ CommandAudit
    BY <1>2, <2>6, SMT, SMTT(30) DEF CreateOverloaded, RevokeNotFound, CommandAudit, RevokeInv, ledger, tokenVars, Idle
  <2>7. CASE CreatePanelScope
    <3>1. cmd'.name = "create" /\ cmd'.op = op /\ cmd' # Idle
      BY <2>2, <2>7, CommandFields, Zenon DEF CreatePanelScope, Idle
    <3>2. InForce'
      BY <1>2, <2>7, Zenon DEF CreatePanelScope, RevokeInv, ledger
    <3>3. KindOf(op) = "token.create"
      BY <2>2, <2>7, Zenon DEF RevokeInv, CreatePanelScope
    <3> QED
      BY <2>3, <2>4, <3>1, <3>2, <3>3, Zenon DEF RevokeInv
  <2>8. CASE RevokeUpdate
    <3>1. cmd'.name = "revoke" /\ cmd'.op = op /\ cmd' # Idle /\ cmd'.token = cmd.token
      BY <2>2, <2>8, CommandFields, Zenon DEF RevokeUpdate, Idle
    <3>2. cmd.token \in TokenId /\ TargetOf(op) = cmd.token
      BY <2>2, <2>8, Zenon DEF RevokeUpdate, TypeOK, RevokeInv
    <3>3. tokens'[cmd.token] = "revoked" /\ \A x \in TokenId \ {cmd.token} : tokens'[x] = tokens[x]
      BY <2>8, <3>2, ZenonT(40) DEF RevokeUpdate, TypeOK
    <3>4. ASSUME NEW x \in OpId, state'[x] \in {"running", "succeeded"}, KindOf(x)' = "token.revoke"
          PROVE  tokens'[TargetOf(x)'] = "revoked"
      <4>1. state[x] = state'[x] /\ KindOf(x) = "token.revoke" /\ TargetOf(x)' = TargetOf(x)
        BY <1>2, <2>8, <3>4, Zenon DEF RevokeUpdate, ledger
      <4>2. tokens[TargetOf(x)] = "revoked"
        BY <3>4, <4>1, Zenon DEF RevokeInv
      <4> QED
        BY <2>8, <3>2, <4>1, <4>2, SMT, SMTT(30) DEF RevokeUpdate, TypeOK
    <3> QED
      BY <2>3, <2>4, <3>1, <3>2, <3>3, <3>4, Zenon DEF RevokeInv
  <2>9. CASE CommandRunning \/ CommandSucceed
    <3>1. /\ cmd'.name = cmd.name /\ cmd'.op = op /\ cmd' # Idle /\ cmd'.token = cmd.token
          /\ cmd.name \in {"create", "revoke"} /\ cmd.pc # "update" /\ UNCHANGED tokens
      BY <2>2, <2>9, CommandFields, Zenon DEF CommandRunning, CommandSucceed, Idle, tokenVars
    <3>2. \A x \in OpId \ {op} : state'[x] = state[x]
      BY <2>2, <2>9, SMT, SMTT(30) DEF CommandRunning, CommandSucceed, Transition, TypeOK, LedgerTypeOK
    <3>3. KindOf(op) = "token.revoke" => tokens[TargetOf(op)] = "revoked"
      BY <2>2, <3>1, Zenon DEF RevokeInv
    <3>4. InForce'
      BY <1>2, <2>3, <2>4, <3>1, <3>2, <3>3, ZenonT(40) DEF RevokeInv
    <3>5. cmd.name = "create" => KindOf(op) = "token.create"
      BY <2>2, Zenon DEF RevokeInv
    <3>6. cmd.name = "revoke" => TargetOf(op) = cmd.token /\ tokens[cmd.token] = "revoked"
      BY <2>2, <3>1, Zenon DEF RevokeInv
    <3> QED
      BY <2>3, <2>4, <3>1, <3>4, <3>5, <3>6, Zenon DEF RevokeInv
  <2> QED
    BY <1>6, <2>5, <2>6, <2>7, <2>8, <2>9, Zenon DEF CommandStep
<1>7. CASE Crash
  BY <1>2, <1>7, Zenon DEF Crash, RevokeInv, tokenVars, ledger, Idle
<1>8. ASSUME BootStep PROVE RevokeInv'
  <2>1. UNCHANGED <<cmd, tokens>>
    BY <1>8, Zenon DEF BootStep, BootInterrupt, BootDone, tokenVars
  <2>2. \A x \in OpId : \/ state'[x] = state[x]
                        \/ KindOf(x) = "instance.recover" /\ Known(x) /\ state'[x] # "absent"
    BY <1>8, SMT, SMTT(30) DEF BootStep, BootInterrupt, BootDone, Transition, ledger, ActiveRecoveries, Active,
       TypeOK, LedgerTypeOK
  <2>3. InForce'
    BY <1>2, <2>1, <2>2, Zenon DEF RevokeInv
  <2>4. CASE cmd = Idle
    BY <2>1, <2>3, <2>4, Zenon DEF RevokeInv, Idle
  <2>5. CASE cmd # Idle
    <3>1. PICK op \in OpId : op = cmd.op
      BY <2>5, CommandFields, Zenon DEF TypeOK
    <3>2. Known(op) /\ KindOf(op)' = KindOf(op) /\ TargetOf(op)' = TargetOf(op)
      BY <1>2, <2>5, <3>1, Zenon DEF RevokeInv
    <3> QED
      BY <2>1, <2>2, <2>3, <3>1, <3>2, Zenon DEF RevokeInv
  <2> QED
    BY <2>4, <2>5, Zenon
<1>9. CASE UNCHANGED vars
  <2>1. UNCHANGED <<cmd, tokens, state, idem>>
    BY <1>9, Zenon DEF vars
  <2> QED
    BY <2>1, SMT, SMTT(30) DEF RevokeInv, KindOf, TargetOf
<1> QED
  BY <1>3, <1>4, <1>5, <1>6, <1>7, <1>8, <1>9, Zenon DEF Next

(* A revocation reported as succeeded is in force, for every number of      *)
(* tokens and operations and after any crash.                               *)
THEOREM RevocationsInForce == Spec => []SucceededRevokeIsInForce
<1>1. Init => RevokeInv
  BY SMT, SMTT(30)  DEF Init, LedgerInit, RevokeInv, Idle
<1>2. RevokeInv => SucceededRevokeIsInForce
  BY Zenon  DEF RevokeInv, SucceededRevokeIsInForce, Succeeded
<1> QED
  BY <1>1, <1>2, RevokeStep, ActorTypeCorrect, ActorRequestsNeverDuplicated, PTL DEF Spec

-----------------------------------------------------------------------------
(* What the command in progress knows of its operation: its kind, and that  *)
(* the operation has its final state when only the audit row is missing.    *)
CommandInv ==
  /\ phase = "boot" => cmd = Idle
  /\ cmd # Idle =>
       /\ state[cmd.op] # "absent"
       /\ cmd.name = "cancel" => cmd.pc = "audit" /\ state[cmd.op] = "cancelled"
       /\ cmd.name = "create" => KindOf(cmd.op) = "token.create"
       /\ cmd.name = "revoke" => KindOf(cmd.op) = "token.revoke"
       /\ cmd.name # "cancel" /\ cmd.pc = "audit" => state[cmd.op] = "succeeded"
       /\ cmd.pc # "audit" => state[cmd.op] \in Active

(* What create_token has committed so far: the token it inserted belongs to *)
(* no earlier creation, and carries the permission once that row is in.     *)
CreateInv ==
  /\ \A t \in panel : tokens[t] # "none"
  /\ cmd.name = "create" /\ cmd.pc # "insert" =>
       /\ tokens[cmd.token] # "none"
       /\ cmd.pc = "panel" => TargetOf(cmd.op) = "analytics"
       /\ cmd.pc \in {"running", "succeed"} =>
            (TargetOf(cmd.op) = "analytics" <=> cmd.token \in panel)
       /\ cmd.pc # "audit" => \A id \in Succeeded("token.create") : result[id] # cmd.token
       /\ cmd.pc = "audit" => result[cmd.op] = cmd.token
  /\ SucceededCreateIsComplete
  /\ DeliveredSecretIsAccounted

(* The operation whose audit row the command in progress will write.        *)
Pending == IF cmd = Idle THEN {} ELSE {cmd.op}

(* A crash turns the pending operation into a lost audit row; no other step *)
(* adds one.                                                                *)
AuditInv ==
  IsFiniteSet(Unaudited \ Pending) /\ Cardinality(Unaudited \ Pending) <= crashes

(* No step of the actor changes the kind or the hash of an operation.       *)
LEMMA IdentityKept ==
  ASSUME TypeOK, OneOperationPerRequest, OneOperationPerRequest', [Next]_vars
  PROVE  \A id \in OpId : state[id] # "absent" =>
           state'[id] # "absent" /\ KindOf(id)' = KindOf(id) /\ TargetOf(id)' = TargetOf(id)
<1>1. idem \subseteq idem'
  BY ActorStepIsLedgerStep, Zenon DEF LedgerNext, AcceptNew, Transition, ledger
<1>2. ASSUME NEW id \in OpId, state[id] # "absent" PROVE state'[id] # "absent"
  BY <1>1, <1>2, Zenon DEF OneOperationPerRequest
<1> QED
  BY <1>1, <1>2, IdentityStable, Zenon

(* The task of an operation and the boot never touch a token operation, and *)
(* never cancel one.                                                        *)
LEMMA TaskAndBootMoves ==
  ASSUME TypeOK, TypeOK', NEW id \in OpId, NEW next \in OpState,
         TaskTransition(id, next) \/ (BootInterrupt(id) /\ next = state'[id])
  PROVE  /\ state[id] \in Active /\ state'[id] = next /\ next # "cancelled"
         /\ KindOf(id) \notin {"token.create", "token.revoke"}
         /\ \A x \in OpId \ {id} : state'[x] = state[x]
         /\ UNCHANGED <<idem, phase, cmd, tokens, panel, result, audit, delivered, fresh, crashes>>
<1>1. CASE TaskTransition(id, next)
  BY <1>1, LegalStates, ZenonT(40) DEF TaskTransition, Transition, tokenVars, TypeOK, LedgerTypeOK
<1>2. CASE BootInterrupt(id) /\ next = state'[id]
  BY <1>2, ZenonT(40) DEF BootInterrupt, Transition, tokenVars, TypeOK, LedgerTypeOK, ActiveRecoveries
<1> QED
  BY <1>1, <1>2, Zenon

(* A command's step is taken while serving, in the middle of a command.     *)
LEMMA CommandStepInCommand ==
  ASSUME CommandStep
  PROVE  cmd.name # "idle" /\ cmd # Idle /\ phase = "up" /\ phase' = "up"
<1>1. cmd.name # "idle" /\ phase = "up"
  BY Zenon  DEF CommandStep, CreateInsert, CreateOverloaded, CreatePanelScope,
     RevokeUpdate, RevokeNotFound, CommandRunning, CommandSucceed, CommandAudit
<1>2. UNCHANGED phase
  BY Zenon  DEF CommandStep, CreateInsert, CreateOverloaded, CreatePanelScope,
     RevokeUpdate, RevokeNotFound, CommandRunning, CommandSucceed, CommandAudit
<1> QED
  BY <1>1, <1>2, SMT, SMTT(30) DEF Idle

(* Every step of the actor keeps CommandInv.                                *)
LEMMA CommandInvStep ==
  ASSUME TypeOK, TypeOK', OneOperationPerRequest, OneOperationPerRequest',
         CommandInv, [Next]_vars
  PROVE  CommandInv'
<1>1. \A id \in OpId : state[id] # "absent" =>
        state'[id] # "absent" /\ KindOf(id)' = KindOf(id) /\ TargetOf(id)' = TargetOf(id)
  BY IdentityKept, Zenon
<1>2. ASSUME NEW id \in OpId, NEW slot \in Slot, NEW hash \in Hash,
             Accept(id, slot, hash) \/ CreateAccept(id, slot, hash) \/ RevokeAccept(id, slot, hash)
      PROVE  CommandInv'
  <2>1. AcceptNew(id, slot, hash) /\ cmd = Idle /\ phase = "up" /\ phase' = "up"
    BY <1>2, Zenon DEF Accept, CreateAccept, RevokeAccept, ActorIdle
  <2>2. KindOf(id)' = slot.kind
    BY <2>1, IdentityAccepted, Zenon
  <2>3. state'[id] = "accepted"
    BY <2>1, ZenonT(40) DEF AcceptNew, TypeOK, LedgerTypeOK
  <2>4. CASE Accept(id, slot, hash)
    BY <2>1, <2>4, Zenon DEF Accept, CommandInv
  <2>5. CASE CreateAccept(id, slot, hash)
    BY <2>1, <2>2, <2>3, <2>5, Zenon DEF CreateAccept, CommandInv, Active
  <2>6. CASE RevokeAccept(id, slot, hash)
    BY <2>1, <2>2, <2>3, <2>6, Zenon DEF RevokeAccept, CommandInv, Active
  <2> QED
    BY <1>2, <2>4, <2>5, <2>6, Zenon
<1>3. ASSUME NEW id \in OpId, NEW next \in OpState, TaskTransition(id, next)
      PROVE  CommandInv'
  BY <1>3, Zenon DEF CommandInv, TaskTransition, ActorIdle
<1>4. ASSUME NEW id \in OpId, Cancel(id) PROVE CommandInv'
  <2>1. state'[id] = "cancelled" /\ phase' = "up"
    BY <1>4, ZenonT(40) DEF Cancel, ActorIdle, Transition, TypeOK, LedgerTypeOK
  <2> QED
    BY <1>4, <2>1, Zenon DEF CommandInv, Cancel
<1>5. ASSUME CommandStep PROVE CommandInv'
  <2>1. cmd.name # "idle" /\ cmd # Idle /\ phase = "up" /\ phase' = "up"
    BY <1>5, CommandStepInCommand, Zenon
  <2>2. PICK op \in OpId : op = cmd.op
    BY <2>1, CommandFields, Zenon
  <2>3. state'[op] # "absent" /\ KindOf(op)' = KindOf(op)
    BY <1>1, <2>1, <2>2, Zenon DEF CommandInv
  <2>4. CASE CreateOverloaded \/ RevokeNotFound \/ CommandAudit
    BY <2>1, <2>4, Zenon DEF CreateOverloaded, RevokeNotFound, CommandAudit, CommandInv
  <2>5. ASSUME NEW t \in TokenId, CreateInsert(t) PROVE CommandInv'
    <3>1. cmd'.name = "create" /\ cmd'.op = op /\ cmd'.pc # "audit"
      BY <2>2, <2>5, <2>1, CommandFields, Zenon DEF CreateInsert
    <3>2. UNCHANGED state /\ cmd.pc # "audit"
      BY <2>5, Zenon DEF CreateInsert, ledger
    <3> QED
      BY <2>1, <2>2, <2>3, <2>5, <3>1, <3>2, Zenon DEF CommandInv, CreateInsert
  <2>6. CASE CreatePanelScope \/ RevokeUpdate \/ CommandRunning
    <3>1. cmd'.name = cmd.name /\ cmd'.op = op /\ cmd'.pc # "audit" /\ cmd.name # "cancel"
      BY <2>2, <2>6, <2>1, CommandFields, Zenon DEF CreatePanelScope, RevokeUpdate, CommandRunning
    <3>2. cmd.pc # "audit" /\ (UNCHANGED state \/ state' = [state EXCEPT ![cmd.op] = "running"])
      BY <2>6, Zenon DEF CreatePanelScope, RevokeUpdate, CommandRunning, ledger, Transition
    <3>3. state'[op] \in Active
      BY <2>1, <2>2, <3>2, ZenonT(40) DEF CommandInv, Active, TypeOK, LedgerTypeOK
    <3> QED
      BY <2>1, <2>2, <2>3, <3>1, <3>3, Zenon DEF CommandInv
  <2>7. CASE CommandSucceed
    <3>1. cmd'.name = cmd.name /\ cmd'.op = op /\ cmd.name # "cancel"
      BY <2>2, <2>7, <2>1, CommandFields, Zenon DEF CommandSucceed
    <3>2. state'[op] = "succeeded" /\ cmd'.pc = "audit"
      BY <2>1, <2>2, <2>7, CommandFields, SMT, SMTT(30) DEF CommandSucceed, Transition, TypeOK, LedgerTypeOK
    <3> QED
      BY <2>1, <2>2, <2>3, <3>1, <3>2, Zenon DEF CommandInv
  <2> QED
    BY <1>5, <2>4, <2>5, <2>6, <2>7, Zenon DEF CommandStep
<1>6. CASE Crash
  BY <1>6, Zenon DEF Crash, CommandInv
<1>7. CASE BootStep
  BY <1>7, Zenon DEF BootStep, BootDone, BootInterrupt, CommandInv
<1>8. CASE UNCHANGED vars
  BY <1>8, Zenon DEF vars, CommandInv, KindOf
<1> QED
  BY <1>2, <1>3, <1>4, <1>5, <1>6, <1>7, <1>8, Zenon DEF Next

-----------------------------------------------------------------------------
(* Only CommandSucceed adds to the token operations that have succeeded, and *)
(* no step takes one away.                                                   *)
LEMMA SucceededKept ==
  ASSUME TypeOK, TypeOK', OneOperationPerRequest, OneOperationPerRequest', [Next]_vars,
         ~CommandSucceed, NEW kind \in {"token.create", "token.revoke"}
  PROVE  Succeeded(kind)' = Succeeded(kind)
<1>1. \A id \in OpId : state[id] # "absent" =>
        state'[id] # "absent" /\ KindOf(id)' = KindOf(id) /\ TargetOf(id)' = TargetOf(id)
  BY IdentityKept, Zenon
<1>2. SUFFICES ASSUME NEW x \in OpId
               PROVE  (state'[x] = "succeeded" /\ KindOf(x)' = kind)
                        <=> (state[x] = "succeeded" /\ KindOf(x) = kind)
  BY Zenon  DEF Succeeded
<1>3. SUFFICES \/ state'[x] = state[x]
               \/ state'[x] # "succeeded" /\ state[x] # "succeeded"
               \/ state[x] # "absent" /\ KindOf(x) # kind
  BY <1>1, Zenon
<1>4. ASSUME NEW id \in OpId, NEW slot \in Slot, NEW hash \in Hash,
             Accept(id, slot, hash) \/ CreateAccept(id, slot, hash) \/ RevokeAccept(id, slot, hash)
      PROVE  state'[x] = state[x] \/ (state'[x] # "succeeded" /\ state[x] # "succeeded")
  BY <1>4, SMT, SMTT(30) DEF Accept, CreateAccept, RevokeAccept, AcceptNew, TypeOK, LedgerTypeOK
<1>5. ASSUME NEW id \in OpId, NEW next \in OpState,
             TaskTransition(id, next) \/ (BootInterrupt(id) /\ next = state'[id])
      PROVE  state'[x] = state[x] \/ (state[x] # "absent" /\ KindOf(x) # kind)
  BY <1>5, TaskAndBootMoves, Zenon DEF Active
<1>6. ASSUME NEW id \in OpId, Cancel(id)
      PROVE  state'[x] = state[x] \/ (state'[x] # "succeeded" /\ state[x] # "succeeded")
  BY <1>6, ZenonT(40) DEF Cancel, Transition, Active, TypeOK, LedgerTypeOK
<1>7. ASSUME CommandRunning
      PROVE  state'[x] = state[x] \/ (state'[x] # "succeeded" /\ state[x] # "succeeded")
  <2>1. LegalTransition(state[cmd.op], "running") /\ state' = [state EXCEPT ![cmd.op] = "running"]
    BY <1>7, Zenon DEF CommandRunning, Transition
  <2>2. state[cmd.op] # "succeeded"
    BY <2>1, LegalStates, Zenon DEF Active
  <2> QED
    BY <2>1, <2>2, ZenonT(40) DEF TypeOK, LedgerTypeOK
<1>8. ASSUME \/ \E t \in TokenId : CreateInsert(t)
             \/ CreateOverloaded \/ CreatePanelScope \/ RevokeUpdate \/ RevokeNotFound
             \/ CommandAudit \/ Crash \/ BootDone \/ UNCHANGED vars
      PROVE  state'[x] = state[x]
  BY <1>8, Zenon DEF CreateInsert, CreateOverloaded, CreatePanelScope, RevokeUpdate, RevokeNotFound,
     CommandAudit, Crash, BootDone, vars, ledger
<1>9. ASSUME NEW id \in OpId, BootInterrupt(id) PROVE state'[id] \in OpState
  BY <1>9, ZenonT(40) DEF BootInterrupt, Transition, TypeOK, LedgerTypeOK, OpState
<1> QED
  BY <1>4, <1>5, <1>6, <1>7, <1>8, <1>9, ZenonT(40) DEF Next, CommandStep, BootStep

(* CommandSucceed adds the operation of the command.                        *)
LEMMA SucceededGrows ==
  ASSUME TypeOK, TypeOK', OneOperationPerRequest, OneOperationPerRequest', [Next]_vars,
         CommandInv, CommandSucceed, NEW kind \in {"token.create", "token.revoke"}
  PROVE  /\ cmd.op \in OpId
         /\ Succeeded(kind)' = Succeeded(kind) \union (IF KindOf(cmd.op) = kind THEN {cmd.op} ELSE {})
<1>1. \A id \in OpId : state[id] # "absent" =>
        state'[id] # "absent" /\ KindOf(id)' = KindOf(id) /\ TargetOf(id)' = TargetOf(id)
  BY IdentityKept, Zenon
<1>2. PICK op \in OpId : op = cmd.op
  BY CommandFields, Zenon DEF CommandSucceed
<1>3. state[op] # "absent"
  BY <1>2, SMT, SMTT(30) DEF CommandInv, CommandSucceed, Idle
<1>4. state'[op] = "succeeded" /\ \A x \in OpId \ {op} : state'[x] = state[x]
  BY <1>2, SMT, SMTT(30) DEF CommandSucceed, Transition, TypeOK, LedgerTypeOK
<1>5. ASSUME NEW x \in OpId
      PROVE  (state'[x] = "succeeded" /\ KindOf(x)' = kind)
                <=> (state[x] = "succeeded" /\ KindOf(x) = kind) \/ (x = op /\ KindOf(op) = kind)
  BY <1>1, <1>3, <1>4, Zenon
<1> QED
  BY <1>2, <1>5, Zenon DEF Succeeded

(* Every step of the actor keeps CreateInv.                                 *)
LEMMA CreateInvStep ==
  ASSUME TypeOK, TypeOK', OneOperationPerRequest, OneOperationPerRequest',
         CommandInv, CommandInv', CreateInv, [Next]_vars
  PROVE  CreateInv'
<1> DEFINE SC == Succeeded("token.create")
           Complete == SucceededCreateIsComplete /\ DeliveredSecretIsAccounted
<1>1. \A id \in OpId : state[id] # "absent" =>
        state'[id] # "absent" /\ KindOf(id)' = KindOf(id) /\ TargetOf(id)' = TargetOf(id)
  BY IdentityKept, Zenon
<1>2. \A id \in SC : id \in OpId /\ TargetOf(id)' = TargetOf(id)
  BY <1>1, Zenon DEF Succeeded
<1>3. ~CommandSucceed => SC' = SC
  BY SucceededKept, Zenon
<1>4. \A id \in SC : result[id] # NoToken /\ result[id] \in TokenId
  BY Zenon  DEF CreateInv, SucceededCreateIsComplete, TypeOK, Succeeded
<1>5. ASSUME ~CommandSucceed, UNCHANGED <<panel, result, delivered>>,
             \A t \in TokenId : tokens[t] # "none" => tokens'[t] # "none"
      PROVE  Complete' /\ \A t \in panel' : tokens'[t] # "none"
  <2>1. SucceededCreateIsComplete'
    BY <1>2, <1>3, <1>4, <1>5, Zenon DEF CreateInv, SucceededCreateIsComplete
  <2>2. DeliveredSecretIsAccounted'
    BY <1>3, <1>5, SMT, SMTT(30) DEF CreateInv, DeliveredSecretIsAccounted
  <2> QED
    BY <1>5, <2>1, <2>2, ZenonT(40) DEF CreateInv, TypeOK
<1>6. ASSUME NEW id \in OpId, NEW slot \in Slot, NEW hash \in Hash,
             Accept(id, slot, hash) \/ CreateAccept(id, slot, hash) \/ RevokeAccept(id, slot, hash)
      PROVE  CreateInv'
  <2>1. UNCHANGED <<tokens, panel, result, delivered>> /\ cmd = Idle /\ ~CommandSucceed
    BY <1>6, SMT, SMTT(30) DEF Accept, CreateAccept, RevokeAccept, ActorIdle, Idle, CommandSucceed
  <2>2. ~(cmd'.name = "create" /\ cmd'.pc # "insert")
    <3>1. CASE Accept(id, slot, hash)
      BY <2>1, <3>1, Zenon DEF Accept, Idle
    <3>2. CASE CreateAccept(id, slot, hash)
      BY <2>1, <3>2, Zenon DEF CreateAccept, Idle
    <3>3. CASE RevokeAccept(id, slot, hash)
      BY <2>1, <3>3, Zenon DEF RevokeAccept, Idle
    <3> QED
      BY <1>6, <3>1, <3>2, <3>3, Zenon
  <2> QED
    BY <1>5, <2>1, <2>2, Zenon DEF CreateInv
<1>7. ASSUME \/ \E id \in OpId, next \in OpState : TaskTransition(id, next)
             \/ \E id \in OpId : Cancel(id)
             \/ Crash \/ BootStep
      PROVE  CreateInv'
  <2>1. UNCHANGED <<tokens, panel, result, delivered>>
    BY <1>7, Zenon DEF TaskTransition, Cancel, Crash, BootStep, BootInterrupt, BootDone, tokenVars
  <2>2. ~CommandSucceed
    BY <1>7, SMT, SMTT(30) DEF TaskTransition, Cancel, Crash, BootStep, BootInterrupt, BootDone, ActorIdle,
       CommandSucceed, Idle, CommandInv
  <2>3. cmd'.name # "create"
    BY <1>7, SMT, SMTT(30) DEF TaskTransition, Cancel, Crash, BootStep, BootInterrupt, BootDone, ActorIdle,
       Idle, CommandInv
  <2> QED
    BY <1>5, <2>1, <2>2, <2>3, Zenon DEF CreateInv
<1>8. ASSUME CommandStep PROVE CreateInv'
  <2>1. cmd.name # "idle" /\ cmd # Idle
    BY <1>8, CommandStepInCommand, Zenon
  <2>2. PICK op \in OpId : op = cmd.op
    BY <2>1, CommandFields, Zenon
  <2>3. TargetOf(op)' = TargetOf(op)
    BY <1>1, <2>1, <2>2, Zenon DEF CommandInv
  <2>4. ASSUME NEW t \in TokenId, CreateInsert(t) PROVE CreateInv'
    <3>1. /\ cmd'.name = "create" /\ cmd'.op = op /\ cmd'.token = t
          /\ cmd'.pc = IF TargetOf(op) = "analytics" THEN "panel" ELSE "running"
      BY <2>1, <2>2, <2>4, CommandFields, Zenon DEF CreateInsert
    <3>2. ~CommandSucceed /\ UNCHANGED <<panel, result, delivered>> /\ tokens[t] = "none"
      BY <2>4, Zenon DEF CreateInsert, CommandSucceed
    <3>3. tokens'[t] = "active" /\ \A x \in TokenId : tokens[x] # "none" => tokens'[x] # "none"
      BY <2>4, ZenonT(40) DEF CreateInsert, TypeOK
    <3>4. t \notin panel /\ \A id \in SC : result[id] # t
      BY <3>2, Zenon DEF CreateInv, SucceededCreateIsComplete
    <3> QED
      BY <1>3, <1>5, <2>3, <3>1, <3>2, <3>3, <3>4, Zenon DEF CreateInv
  <2>5. CASE CreateOverloaded \/ RevokeNotFound
    <3>1. UNCHANGED <<tokens, panel, result, delivered>> /\ cmd'.name = "idle"
      BY <2>5, SMT, SMTT(30) DEF CreateOverloaded, RevokeNotFound, tokenVars, Idle
    <3>2. ~CommandSucceed
      BY <2>5, Zenon DEF CreateOverloaded, RevokeNotFound, CommandSucceed
    <3> QED
      BY <1>5, <3>1, <3>2, Zenon DEF CreateInv
  <2>6. CASE CreatePanelScope
    <3>1. /\ cmd'.name = "create" /\ cmd'.op = op /\ cmd'.token = cmd.token
          /\ cmd'.pc = "running"
      BY <2>1, <2>2, <2>6, CommandFields, Zenon DEF CreatePanelScope
    <3>2. /\ ~CommandSucceed /\ UNCHANGED <<tokens, result, delivered>>
          /\ panel' = panel \union {cmd.token}
      BY <2>6, Zenon DEF CreatePanelScope, CommandSucceed
    <3>3. /\ tokens[cmd.token] # "none" /\ TargetOf(op) = "analytics"
          /\ \A id \in SC : result[id] # cmd.token
      BY <2>2, <2>6, Zenon DEF CreateInv, CreatePanelScope
    <3>4. SucceededCreateIsComplete'
      BY <1>2, <1>3, <3>2, <3>3, ZenonT(40) DEF CreateInv, SucceededCreateIsComplete
    <3>5. DeliveredSecretIsAccounted'
      BY <1>3, <3>2, SMT, SMTT(30) DEF CreateInv, DeliveredSecretIsAccounted
    <3> QED
      BY <1>3, <2>3, <3>1, <3>2, <3>3, <3>4, <3>5, Zenon DEF CreateInv
  <2>7. CASE RevokeUpdate
    <3>1. cmd'.name = "revoke"
      BY <2>1, <2>7, CommandFields, Zenon DEF RevokeUpdate
    <3>2. ~CommandSucceed /\ UNCHANGED <<panel, result, delivered>>
      BY <2>7, Zenon DEF RevokeUpdate, CommandSucceed
    <3>3. \A x \in TokenId : tokens[x] # "none" => tokens'[x] # "none"
      BY <2>7, Zenon DEF RevokeUpdate, TypeOK
    <3> QED
      BY <1>5, <3>1, <3>2, <3>3, Zenon DEF CreateInv
  <2>8. CASE CommandRunning
    <3>1. /\ cmd'.name = cmd.name /\ cmd'.op = op /\ cmd'.token = cmd.token
          /\ cmd'.pc = "succeed" /\ cmd.pc = "running"
      BY <2>1, <2>2, <2>8, CommandFields, Zenon DEF CommandRunning
    <3>2. ~CommandSucceed /\ UNCHANGED <<tokens, panel, result, delivered>>
      BY <2>8, Zenon DEF CommandRunning, CommandSucceed, tokenVars
    <3>3. cmd.name = "create" =>
            /\ tokens[cmd.token] # "none"
            /\ TargetOf(op) = "analytics" <=> cmd.token \in panel
            /\ \A id \in SC : result[id] # cmd.token
      BY <2>2, <3>1, Zenon DEF CreateInv
    <3> QED
      BY <1>3, <1>5, <2>3, <3>1, <3>2, <3>3, Zenon DEF CreateInv
  <2>9. CASE CommandSucceed
    <3>1. /\ cmd'.name = cmd.name /\ cmd'.op = op /\ cmd'.token = cmd.token
          /\ cmd'.pc = "audit" /\ cmd.pc = "succeed" /\ cmd.name \in {"create", "revoke"}
      BY <2>1, <2>2, <2>9, CommandFields, ZenonT(40) DEF CommandSucceed
    <3>2. /\ UNCHANGED <<tokens, panel, delivered>>
          /\ result'[op] = cmd.token /\ \A x \in OpId \ {op} : result'[x] = result[x]
      BY <2>2, <2>9, Zenon DEF CommandSucceed, TypeOK
    <3>3. cmd.token \in TokenId /\ cmd.token # NoToken
      BY <3>1, NoTokenAssumption, Zenon DEF TypeOK
    <3>4. LegalTransition(state[op], "succeeded")
      BY <2>2, <2>9, Zenon DEF CommandSucceed, Transition
    <3>5. op \notin SC
      BY <3>4, LegalStates, Zenon DEF Active, Succeeded
    <3>6. CASE cmd.name = "revoke"
      <4>1. SC' = SC
        BY <2>1, <2>2, <2>9, <3>6, SucceededGrows, ZenonT(40) DEF CommandInv
      <4>2. \A id \in SC : result'[id] = result[id]
        BY <1>2, <3>2, <3>5, Zenon
      <4>3. SucceededCreateIsComplete'
        BY <1>2, <3>2, <4>1, <4>2, SMT, SMTT(30) DEF CreateInv, SucceededCreateIsComplete
      <4>4. DeliveredSecretIsAccounted'
        <5>1. delivered' = delivered /\ DeliveredSecretIsAccounted
          BY <3>2, Zenon DEF CreateInv
        <5> QED
          BY <4>1, <4>2, <5>1, SMT, SMTT(30) DEF DeliveredSecretIsAccounted
      <4> QED
        BY <3>1, <3>2, <3>6, <4>3, <4>4, Zenon DEF CreateInv
    <3>7. CASE cmd.name = "create"
      <4>1. SC' = SC \union {op}
        BY <2>1, <2>2, <2>9, <3>7, SucceededGrows, ZenonT(40) DEF CommandInv
      <4>2. \A id \in SC : result'[id] = result[id] /\ result[id] # cmd.token
        BY <1>2, <3>1, <3>2, <3>5, <3>7, ZenonT(40) DEF CreateInv
      <4>3. tokens[cmd.token] # "none" /\ (TargetOf(op) = "analytics" <=> cmd.token \in panel)
        BY <2>2, <3>1, <3>7, Zenon DEF CreateInv
      <4>4. SucceededCreateIsComplete'
        BY <1>2, <2>3, <3>2, <3>3, <4>1, <4>2, <4>3, ZenonT(40) DEF CreateInv, SucceededCreateIsComplete
      <4>5. DeliveredSecretIsAccounted'
        BY <3>2, <4>1, <4>2, SMT, SMTT(30) DEF CreateInv, DeliveredSecretIsAccounted
      <4> QED
        BY <3>1, <3>2, <3>7, <4>3, <4>4, <4>5, ZenonT(40) DEF CreateInv
    <3> QED
      BY <3>1, <3>6, <3>7, Zenon
  <2>10. CASE CommandAudit
    <3>1. /\ cmd'.name = "idle" /\ ~CommandSucceed /\ UNCHANGED <<tokens, panel, result>>
          /\ delivered' = IF cmd.name = "create" THEN delivered \union {cmd.token} ELSE delivered
      BY <2>10, Zenon DEF CommandAudit, Idle, CommandSucceed
    <3>2. cmd.name = "create" => op \in SC /\ result[op] = cmd.token
      BY <2>1, <2>2, <2>10, Zenon DEF CommandInv, CreateInv, CommandAudit, Succeeded
    <3>3. SucceededCreateIsComplete'
      BY <1>2, <1>3, <3>1, Zenon DEF CreateInv, SucceededCreateIsComplete
    <3>4. DeliveredSecretIsAccounted'
      BY <1>3, <3>1, <3>2, SMT, SMTT(30) DEF CreateInv, DeliveredSecretIsAccounted
    <3> QED
      BY <3>1, <3>3, <3>4, Zenon DEF CreateInv
  <2> QED
    BY <1>8, <2>4, <2>5, <2>6, <2>7, <2>8, <2>9, <2>10, Zenon DEF CommandStep
<1>9. CASE UNCHANGED vars
  <2>1. UNCHANGED <<cmd, tokens, panel, result, delivered, state, idem>>
    BY <1>9, Zenon DEF vars
  <2> QED
    BY <2>1, SMT, SMTT(30) DEF CreateInv, SucceededCreateIsComplete, DeliveredSecretIsAccounted, Succeeded,
       KindOf, TargetOf
<1> QED
  BY <1>6, <1>7, <1>8, <1>9, Zenon DEF Next

-----------------------------------------------------------------------------
(* The token table stays finite and within the limit.                       *)
LimitInv == IsFiniteSet(ActiveTokens) /\ ActiveTokensBounded

(* Only CreateInsert adds an active token, below the limit.                 *)
LEMMA LimitInvStep ==
  ASSUME TypeOK, TypeOK', LimitInv, [Next]_vars
  PROVE  LimitInv'
<1> USE DEF LimitInv, ActiveTokensBounded
<1>1. ASSUME NEW t \in TokenId, CreateInsert(t) PROVE LimitInv'
  <2>1. t \notin ActiveTokens /\ Cardinality(ActiveTokens) < MaxActiveTokens
    BY <1>1, Zenon DEF CreateInsert, ActiveTokens
  <2>2. ActiveTokens' = ActiveTokens \union {t}
    BY <1>1, SMT, SMTT(30) DEF CreateInsert, ActiveTokens, TypeOK
  <2>3. /\ IsFiniteSet(ActiveTokens \union {t})
        /\ Cardinality(ActiveTokens \union {t}) = Cardinality(ActiveTokens) + 1
    BY <2>1, FS_AddElement, Zenon
  <2>4. Cardinality(ActiveTokens) \in Nat
    BY FS_CardinalityType, Zenon
  <2> QED
    BY <2>1, <2>2, <2>3, <2>4, TokenLimitAssumption, SMT, SMTT(30)
<1>2. ASSUME \A t \in TokenId : ~CreateInsert(t) PROVE LimitInv'
  <2>1. ActiveTokens' \subseteq ActiveTokens
    <3>1. CASE RevokeUpdate
      BY <3>1, ZenonT(40) DEF RevokeUpdate, ActiveTokens, TypeOK
    <3>2. CASE ~RevokeUpdate
      <4>1. UNCHANGED tokens
        BY <1>2, <3>2, ZenonT(40) DEF Next, CommandStep, BootStep, Accept, CreateAccept, RevokeAccept,
           TaskTransition, Cancel, CreateOverloaded, CreatePanelScope, RevokeNotFound,
           CommandRunning, CommandSucceed, CommandAudit, Crash, BootInterrupt, BootDone,
           tokenVars, vars
      <4> QED
        BY <4>1, Zenon DEF ActiveTokens
    <3> QED
      BY <3>1, <3>2, Zenon
  <2>2. IsFiniteSet(ActiveTokens') /\ Cardinality(ActiveTokens') <= Cardinality(ActiveTokens)
    BY <2>1, FS_Subset, Zenon
  <2>3. Cardinality(ActiveTokens) \in Nat /\ Cardinality(ActiveTokens') \in Nat
    BY <2>2, FS_CardinalityType, Zenon
  <2> QED
    BY <2>2, <2>3, TokenLimitAssumption, SMT, SMTT(30)
<1> QED
  BY <1>1, <1>2, Zenon

(* The tokens table keeps its promise for every limit, number of tokens and *)
(* sequence of crashes between the transactions of create_token.            *)
THEOREM TokensAlwaysAccounted == Spec => []TokensAreAccounted
<1>1. Init => CommandInv
  BY Zenon  DEF Init, CommandInv
<1>2. Init => CreateInv
  BY SMT, SMTT(30) DEF Init, LedgerInit, CreateInv, SucceededCreateIsComplete, DeliveredSecretIsAccounted,
     Succeeded, Idle
<1>3. Init => LimitInv
  <2> SUFFICES ASSUME Init PROVE LimitInv
    BY Zenon
  <2>1. ActiveTokens = {}
    BY Zenon  DEF Init, ActiveTokens
  <2> QED
    BY <2>1, FS_EmptySet, TokenLimitAssumption, SMT, SMTT(30) DEF LimitInv, ActiveTokensBounded
<1>4. CreateInv /\ LimitInv => TokensAreAccounted
  BY Zenon DEF CreateInv, LimitInv, TokensAreAccounted
<1> QED
  BY <1>1, <1>2, <1>3, <1>4, CommandInvStep, CreateInvStep, LimitInvStep, ActorTypeCorrect,
     ActorRequestsNeverDuplicated, PTL DEF Spec

-----------------------------------------------------------------------------
(* RecoveriesSettledAtBoot is inductive: only Accept makes an operation      *)
(* active, and marks it fresh; a boot ends when no recovery is active.       *)
LEMMA RecoveriesSettledStep ==
  ASSUME TypeOK, TypeOK', OneOperationPerRequest, OneOperationPerRequest',
         RecoveriesSettledAtBoot, [Next]_vars
  PROVE  RecoveriesSettledAtBoot'
<1>1. \A id \in OpId : state[id] # "absent" => KindOf(id)' = KindOf(id)
  BY IdentityKept, Zenon
<1>2. ASSUME NEW id \in OpId, NEW slot \in Slot, NEW hash \in Hash,
             Accept(id, slot, hash) \/ CreateAccept(id, slot, hash) \/ RevokeAccept(id, slot, hash)
      PROVE  RecoveriesSettledAtBoot'
  <2>1. AcceptNew(id, slot, hash) /\ fresh' = fresh \union {id} /\ phase = "up"
    BY <1>2, Zenon DEF Accept, CreateAccept, RevokeAccept, ActorIdle
  <2>2. \A x \in OpId \ {id} : state'[x] = state[x]
    BY <2>1, ZenonT(40) DEF AcceptNew, TypeOK, LedgerTypeOK
  <2> QED
    BY <1>1, <2>1, <2>2, Zenon DEF RecoveriesSettledAtBoot, Active
<1>3. ASSUME UNCHANGED <<phase, fresh>>,
             \A x \in OpId : state'[x] \in Active => state[x] \in Active
      PROVE  RecoveriesSettledAtBoot'
  BY <1>1, <1>3, Zenon DEF RecoveriesSettledAtBoot, Active
<1>4. ASSUME \E id \in OpId, next \in OpState : Transition(id, next)
      PROVE  \A x \in OpId : state'[x] \in Active => state[x] \in Active
  <2>1. PICK id \in OpId, next \in OpState : Transition(id, next)
    BY <1>4, Zenon
  <2>2. state[id] \in Active
    BY <2>1, LegalStates, ZenonT(40) DEF Transition
  <2> QED
    BY <2>1, <2>2, ZenonT(40) DEF Transition, TypeOK, LedgerTypeOK
<1>5. ASSUME \/ \E id \in OpId, next \in OpState : TaskTransition(id, next)
             \/ \E id \in OpId : Cancel(id)
             \/ CommandStep
             \/ \E id \in OpId : BootInterrupt(id)
      PROVE  RecoveriesSettledAtBoot'
  <2>1. UNCHANGED <<phase, fresh>>
    BY <1>5, Zenon DEF TaskTransition, Cancel, CommandStep, CreateInsert, CreateOverloaded, CreatePanelScope,
       RevokeUpdate, RevokeNotFound, CommandRunning, CommandSucceed, CommandAudit, BootInterrupt
  <2>2. (\E id \in OpId, next \in OpState : Transition(id, next)) \/ UNCHANGED ledger
    <3>1. CASE CommandStep
      <4>1. cmd.op \in OpId
        BY <3>1, CommandStepInCommand, CommandFields, Zenon
      <4>2. "running" \in OpState /\ "succeeded" \in OpState
        BY Zenon DEF OpState
      <4> QED
        BY <3>1, <4>1, <4>2, ZenonT(40) DEF CommandStep, CreateInsert, CreateOverloaded, CreatePanelScope,
           RevokeUpdate, RevokeNotFound, CommandRunning, CommandSucceed, CommandAudit
    <3>2. \A id \in OpId : (IF state[id] = "accepted" THEN "running" ELSE "failed") \in OpState
      BY Zenon  DEF OpState
    <3> QED
      BY <1>5, <3>1, <3>2, Zenon DEF TaskTransition, Cancel, BootInterrupt, OpState
  <2> QED
    BY <1>3, <1>4, <2>1, <2>2, ZenonT(40) DEF ledger
<1>6. CASE Crash
  BY <1>6, Zenon DEF Crash, RecoveriesSettledAtBoot
<1>7. CASE BootDone
  BY <1>1, <1>7, Zenon DEF BootDone, RecoveriesSettledAtBoot, ActiveRecoveries, ledger, Active
<1>8. CASE UNCHANGED vars
  BY <1>3, <1>8, Zenon DEF vars
<1> QED
  BY <1>2, <1>5, <1>6, <1>7, <1>8, Zenon DEF Next, BootStep

(* interrupt_panel_recoveries leaves no recovery of an earlier process      *)
(* pending when the agent serves again, for every sequence of crashes,      *)
(* also those during the boot itself.                                       *)
THEOREM RecoveriesAlwaysSettled == Spec => []RecoveriesSettledAtBoot
<1>1. Init => RecoveriesSettledAtBoot
  BY Zenon  DEF Init, LedgerInit, RecoveriesSettledAtBoot, Active
<1> QED
  BY <1>1, RecoveriesSettledStep, ActorTypeCorrect, ActorRequestsNeverDuplicated, PTL DEF Spec

-----------------------------------------------------------------------------
(* What makes one operation unaudited.                                      *)
Lost(id) ==
  \/ state[id] = "cancelled" /\ <<"cancel", id>> \notin audit
  \/ id \in Succeeded("token.create") /\ <<"create", id>> \notin audit
  \/ id \in Succeeded("token.revoke") /\ <<"revoke", id>> \notin audit

(* Apart from a crash, no step adds to the lost audit rows: an operation    *)
(* that becomes unaudited is the pending one, and a command that ends has   *)
(* written its row or left its operation active.                            *)
LEMMA LostOnlyByCrash ==
  ASSUME TypeOK, TypeOK', OneOperationPerRequest, OneOperationPerRequest',
         CommandInv, [Next]_vars, ~Crash
  PROVE  Unaudited' \ Pending' \subseteq Unaudited \ Pending
<1> DEFINE SC == Succeeded("token.create")
           SR == Succeeded("token.revoke")
<1>1. /\ Unaudited = { id \in OpId : Lost(id) }
      /\ Unaudited' = { id \in OpId : Lost(id)' }
  BY Zenon  DEF Unaudited, Lost
<1>2. ~CommandSucceed => SC' = SC /\ SR' = SR
  BY SucceededKept, Zenon
<1>3. SUFFICES ASSUME NEW x \in OpId, Lost(x)', x \notin Pending'
               PROVE  Lost(x) /\ x \notin Pending
  BY <1>1, ZenonT(40)
<1>4. audit \subseteq audit'
  BY ZenonT(40)  DEF Next, CommandStep, BootStep, Accept, CreateAccept, RevokeAccept, TaskTransition, Cancel,
     CreateInsert, CreateOverloaded, CreatePanelScope, RevokeUpdate, RevokeNotFound,
     CommandRunning, CommandSucceed, CommandAudit, Crash, BootInterrupt, BootDone, tokenVars, vars
<1>5. ASSUME ~CommandSucceed, state'[x] = "cancelled" => state[x] = "cancelled" PROVE Lost(x)
  BY <1>2, <1>3, <1>4, <1>5, Zenon DEF Lost
<1>6. ASSUME NEW id \in OpId, NEW slot \in Slot, NEW hash \in Hash,
             Accept(id, slot, hash) \/ CreateAccept(id, slot, hash) \/ RevokeAccept(id, slot, hash)
      PROVE  Lost(x) /\ x \notin Pending
  <2>1. AcceptNew(id, slot, hash) /\ cmd = Idle /\ ~CommandSucceed
    BY <1>6, SMT, SMTT(30) DEF Accept, CreateAccept, RevokeAccept, ActorIdle, CommandSucceed, Idle
  <2>2. state'[x] = "cancelled" => state[x] = "cancelled"
    BY <2>1, ZenonT(40) DEF AcceptNew, TypeOK, LedgerTypeOK
  <2> QED
    BY <1>5, <2>1, <2>2, Zenon DEF Pending
<1>7. ASSUME NEW id \in OpId, NEW next \in OpState, TaskTransition(id, next)
      PROVE  Lost(x) /\ x \notin Pending
  <2>1. cmd = Idle /\ ~CommandSucceed
    BY <1>7, Zenon DEF TaskTransition, ActorIdle, CommandSucceed, Idle
  <2>2. state'[x] = "cancelled" => state[x] = "cancelled"
    BY <1>7, TaskAndBootMoves, Zenon
  <2> QED
    BY <1>5, <2>1, <2>2, ZenonT(40) DEF Pending
<1>8. ASSUME NEW id \in OpId, Cancel(id) PROVE Lost(x) /\ x \notin Pending
  <2>1. cmd = Idle /\ ~CommandSucceed /\ Pending' = {id}
    BY <1>8, Zenon DEF Cancel, ActorIdle, CommandSucceed, Idle, Pending
  <2>2. state'[x] = "cancelled" => state[x] = "cancelled"
    BY <1>3, <1>8, <2>1, ZenonT(40) DEF Cancel, Transition, TypeOK, LedgerTypeOK
  <2> QED
    BY <1>5, <2>1, <2>2, Zenon DEF Pending
<1>9. ASSUME CommandStep PROVE Lost(x) /\ x \notin Pending
  <2>1. cmd.name # "idle" /\ cmd # Idle
    BY <1>9, CommandStepInCommand, Zenon
  <2>2. PICK op \in OpId : op = cmd.op
    BY <2>1, CommandFields, Zenon
  <2>3. Pending = {op}
    BY <2>1, <2>2, Zenon DEF Pending
  <2>4. CASE CreateOverloaded \/ RevokeNotFound
    <3>1. UNCHANGED state /\ ~CommandSucceed /\ cmd.pc # "audit"
      BY <2>4, Zenon DEF CreateOverloaded, RevokeNotFound, ledger, CommandSucceed
    <3>2. Lost(x)
      BY <1>5, <3>1, Zenon
    <3>3. state[op] \in Active
      BY <2>1, <2>2, <3>1, Zenon DEF CommandInv
    <3>4. x # op
      BY <3>2, <3>3, Zenon DEF Lost, Succeeded, Active
    <3> QED
      BY <2>3, <3>2, <3>4, Zenon
  <2>5. ASSUME CommandAudit PROVE Lost(x) /\ x \notin Pending
    <3>1. /\ UNCHANGED <<state, idem>> /\ ~CommandSucceed
          /\ audit' = audit \union {<<cmd.name, op>>} /\ cmd.pc = "audit"
      BY <2>2, <2>5, Zenon DEF CommandAudit, ledger, CommandSucceed
    <3>2. Lost(x)
      BY <1>5, <3>1, Zenon
    <3>3. cmd \in [name: {"cancel", "create", "revoke"}, op: OpId,
                  pc: {"insert", "panel", "update", "running", "succeed", "audit"},
                  token: TokenId \union {NoToken}]
      BY <2>1, CommandFields, Zenon
    <3>4. cmd.name \in {"cancel", "create", "revoke"}
      BY <3>3, Zenon
    <3>5. ~Lost(op)'
      <4>1. UNCHANGED <<SC, SR>>
        BY <1>2, <3>1, Zenon
      <4>2. CASE cmd.name = "cancel"
        <5>1. state[op] = "cancelled"
          BY <2>1, <2>2, <4>2, Zenon DEF CommandInv
        <5> QED
          BY <3>1, <4>2, <5>1, Zenon DEF Lost, Succeeded
      <4>3. CASE cmd.name = "create"
        <5>1. state[op] = "succeeded" /\ KindOf(op) = "token.create"
          BY <2>1, <2>2, <3>1, <4>3, Zenon DEF CommandInv
        <5>2. op \notin SR
          BY <5>1, Zenon DEF Succeeded
        <5> QED
          BY <3>1, <4>1, <4>3, <5>1, <5>2, ZenonT(40) DEF Lost
      <4>4. CASE cmd.name = "revoke"
        <5>1. state[op] = "succeeded" /\ KindOf(op) = "token.revoke"
          BY <2>1, <2>2, <3>1, <4>4, ZenonT(40) DEF CommandInv
        <5>2. op \notin SC
          BY <5>1, Zenon DEF Succeeded
        <5> QED
          BY <3>1, <4>1, <4>4, <5>1, <5>2, ZenonT(40) DEF Lost
      <4> QED
        BY <3>4, <4>2, <4>3, <4>4, Zenon
    <3> QED
      BY <1>3, <2>3, <3>2, <3>5, Zenon
  <2>6. ASSUME \/ \E t \in TokenId : CreateInsert(t)
               \/ CreatePanelScope \/ RevokeUpdate \/ CommandRunning \/ CommandSucceed
        PROVE  Lost(x) /\ x \notin Pending
    <3>1. cmd'.op = op /\ cmd'.name # "idle"
      BY <2>1, <2>2, <2>6, CommandFields, ZenonT(40) DEF CreateInsert, CreatePanelScope, RevokeUpdate,
         CommandRunning, CommandSucceed
    <3>2. Pending' = {op}
      BY <3>1, SMT, SMTT(30) DEF Pending, Idle
    <3>3. x # op
      BY <1>3, <3>2, Zenon
    <3>4. state'[x] = state[x]
      BY <2>2, <2>6, <3>3, ZenonT(40) DEF CreateInsert, CreatePanelScope, RevokeUpdate, CommandRunning,
         CommandSucceed, Transition, ledger, TypeOK, LedgerTypeOK
    <3>5. CASE CommandSucceed
      <4>1. /\ SC' = SC \union (IF KindOf(op) = "token.create" THEN {op} ELSE {})
            /\ SR' = SR \union (IF KindOf(op) = "token.revoke" THEN {op} ELSE {})
        BY <2>2, <3>5, SucceededGrows, Zenon
      <4>2. (x \in SC' => x \in SC) /\ (x \in SR' => x \in SR)
        BY <3>3, <4>1, Zenon
      <4> QED
        BY <1>3, <1>4, <2>3, <3>3, <3>4, <4>2, Zenon DEF Lost
    <3> QED
      BY <1>5, <2>3, <3>3, <3>4, <3>5, Zenon
  <2> QED
    BY <1>9, <2>4, <2>5, <2>6, Zenon DEF CommandStep
<1>10. ASSUME BootStep PROVE Lost(x) /\ x \notin Pending
  <2>1. cmd = Idle /\ ~CommandSucceed
    BY <1>10, Zenon DEF BootStep, BootDone, BootInterrupt, CommandInv, CommandSucceed
  <2>2. state'[x] = "cancelled" => state[x] = "cancelled"
    BY <1>10, ZenonT(40) DEF BootStep, BootDone, BootInterrupt, Transition, ledger, TypeOK, LedgerTypeOK
  <2> QED
    BY <1>5, <2>1, <2>2, Zenon DEF Pending
<1>11. CASE UNCHANGED vars
  <2>1. UNCHANGED <<state, idem, cmd, audit>>
    BY <1>11, Zenon DEF vars
  <2>2. Lost(x)
    BY <1>3, <2>1, Zenon DEF Lost, Succeeded, KindOf
  <2> QED
    BY <1>3, <2>1, <2>2, Zenon DEF Pending
<1> QED
  BY <1>6, <1>7, <1>8, <1>9, <1>10, <1>11, ZenonT(40) DEF Next

(* One more element at most: a set whose remainder is finite.               *)
LEMMA AtMostOneMore ==
  ASSUME NEW S, NEW P, P = {} \/ (\E x : P = {x}), IsFiniteSet(S \ P)
  PROVE  /\ IsFiniteSet(S) /\ Cardinality(S) \in Nat /\ Cardinality(S \ P) \in Nat
         /\ Cardinality(S) <= Cardinality(S \ P) + (IF P = {} THEN 0 ELSE 1)
<1>1. CASE P = {}
  <2>1. S \ P = S
    BY <1>1, Zenon
  <2> QED
    BY <1>1, <2>1, FS_CardinalityType, SMT, SMTT(30)
<1>2. ASSUME NEW x, P = {x}
      PROVE  /\ IsFiniteSet(S) /\ Cardinality(S) \in Nat /\ Cardinality(S \ P) \in Nat
             /\ Cardinality(S) <= Cardinality(S \ P) + (IF P = {} THEN 0 ELSE 1)
  <2>1. /\ IsFiniteSet((S \ P) \union {x})
        /\ Cardinality((S \ P) \union {x}) = Cardinality(S \ P) + 1
    <3>1. x \notin S \ P
      BY <1>2, Zenon
    <3> QED
      BY <3>1, FS_AddElement, Zenon
  <2>2. S \in SUBSET ((S \ P) \union {x})
    BY <1>2, Zenon
  <2>3. IsFiniteSet(S) /\ Cardinality(S) <= Cardinality((S \ P) \union {x})
    BY <2>1, <2>2, FS_Subset, Zenon
  <2>4. Cardinality(S) \in Nat /\ Cardinality(S \ P) \in Nat
    BY <2>3, FS_CardinalityType, Zenon
  <2>5. P # {}
    BY <1>2, Zenon
  <2> QED
    BY <2>1, <2>3, <2>4, <2>5, Zenon
<1> QED
  BY <1>1, <1>2, Zenon

(* Every step of the actor keeps AuditInv.                                  *)
LEMMA AuditInvStep ==
  ASSUME TypeOK, TypeOK', OneOperationPerRequest, OneOperationPerRequest',
         CommandInv, AuditInv, [Next]_vars
  PROVE  AuditInv'
<1>1. crashes \in Nat /\ crashes' \in Nat
  BY TokenLimitAssumption, SMT, SMTT(30) DEF TypeOK
<1>2. Pending = {} \/ (\E x : Pending = {x})
  BY Zenon DEF Pending
<1>3. CASE Crash
  <2>1. Pending' = {} /\ Unaudited' = Unaudited /\ crashes' = crashes + 1
    BY <1>3, Zenon DEF Crash, Pending, Unaudited, Succeeded, KindOf, ledger, tokenVars
  <2>2. Unaudited' \ Pending' = Unaudited
    BY <2>1, Zenon
  <2>3. /\ IsFiniteSet(Unaudited) /\ Cardinality(Unaudited) \in Nat
        /\ Cardinality(Unaudited) <=
             Cardinality(Unaudited \ Pending) + (IF Pending = {} THEN 0 ELSE 1)
    BY <1>2, AtMostOneMore, Zenon DEF AuditInv
  <2>4. Cardinality(Unaudited \ Pending) \in Nat /\ Cardinality(Unaudited \ Pending) <= crashes
    BY FS_CardinalityType, Zenon DEF AuditInv
  <2> QED
    BY <1>1, <2>1, <2>2, <2>3, <2>4, SMT, SMTT(30) DEF AuditInv
<1>4. CASE ~Crash
  <2>1. Unaudited' \ Pending' \in SUBSET (Unaudited \ Pending)
    BY <1>4, LostOnlyByCrash, Zenon
  <2>2. /\ IsFiniteSet(Unaudited' \ Pending')
        /\ Cardinality(Unaudited' \ Pending') <= Cardinality(Unaudited \ Pending)
    BY <2>1, FS_Subset, ZenonT(40) DEF AuditInv
  <2>3. UNCHANGED crashes
    BY <1>4, ZenonT(40) DEF Next, CommandStep, BootStep, Accept, CreateAccept, RevokeAccept, TaskTransition,
       Cancel, CreateInsert, CreateOverloaded, CreatePanelScope, RevokeUpdate, RevokeNotFound,
       CommandRunning, CommandSucceed, CommandAudit, BootInterrupt, BootDone, vars
  <2>4. /\ Cardinality(Unaudited \ Pending) \in Nat
        /\ Cardinality(Unaudited' \ Pending') \in Nat
    BY <2>2, FS_CardinalityType, Zenon DEF AuditInv
  <2> QED
    BY <1>1, <2>2, <2>3, <2>4, SMT, SMTT(30) DEF AuditInv
<1> QED
  BY <1>3, <1>4, Zenon

(* Each crash loses at most one audit row, for every number of operations   *)
(* and crashes.                                                             *)
THEOREM UnauditedAlwaysBounded == Spec => []UnauditedBoundedByCrashes
<1>1. Init => CommandInv
  BY Zenon DEF Init, CommandInv
<1>2. Init => AuditInv
  <2> SUFFICES ASSUME Init PROVE AuditInv
    BY Zenon
  <2>1. Unaudited \ Pending = {}
    BY Zenon DEF Init, LedgerInit, Unaudited, Succeeded
  <2>2. crashes = 0
    BY Zenon DEF Init
  <2> QED
    BY <2>1, <2>2, FS_EmptySet, SMT, SMTT(30) DEF AuditInv
<1>3. TypeOK /\ AuditInv => UnauditedBoundedByCrashes
  <2> SUFFICES ASSUME TypeOK, AuditInv PROVE UnauditedBoundedByCrashes
    BY Zenon
  <2>1. Pending = {} \/ (\E x : Pending = {x})
    BY Zenon DEF Pending
  <2>2. Pending = {} <=> cmd = Idle
    BY Zenon DEF Pending
  <2>3. crashes \in Nat
    BY TokenLimitAssumption, SMT, SMTT(30) DEF TypeOK
  <2>4. /\ Cardinality(Unaudited) \in Nat /\ Cardinality(Unaudited \ Pending) \in Nat
        /\ Cardinality(Unaudited) <=
             Cardinality(Unaudited \ Pending) + (IF Pending = {} THEN 0 ELSE 1)
    BY <2>1, AtMostOneMore, Zenon DEF AuditInv
  <2> QED
    BY <2>2, <2>3, <2>4, SMT, SMTT(30) DEF AuditInv, UnauditedBoundedByCrashes
<1> QED
  BY <1>1, <1>2, <1>3, CommandInvStep, AuditInvStep, ActorTypeCorrect,
     ActorRequestsNeverDuplicated, PTL DEF Spec
=============================================================================
