----------------------------- MODULE StateActor -----------------------------
(***************************************************************************)
(* The database actor of the agent (state.rs): one thread that executes    *)
(* one command at a time over the operation ledger and the token tables.   *)
(*                                                                         *)
(* A command is a sequence of SQLite transactions.  No other command can   *)
(* run between two of them, but the agent can be killed there, and the     *)
(* next boot finds whatever was committed.  Token creation and revocation  *)
(* are modelled transaction by transaction, with the crash and the boot    *)
(* that follows it (open_connection, interrupt_panel_recoveries).          *)
(***************************************************************************)
EXTENDS OperationLedger, FiniteSets

CONSTANTS
  TokenId,          \* identifiers of created tokens
  MaxActiveTokens,  \* MAX_ACTIVE_TOKENS
  MaxCrashes        \* bound on agent crashes

ASSUME TokenLimitAssumption == MaxActiveTokens \in Nat /\ MaxCrashes \in Nat

NoToken == "no-token"

ASSUME NoTokenAssumption == NoToken \notin TokenId

VARIABLES
  phase,      \* "up": serving commands; "boot": open_connection is running
  cmd,        \* the command the actor is executing, or Idle
  tokens,     \* token_metadata: "none", "active" or "revoked"
  panel,      \* panel_token_scopes: tokens with the analytics permission
  result,     \* operations.result_json: the token_id, or NoToken
  audit,      \* audit rows <<action, operation>>
  delivered,  \* tokens whose secret was returned to a caller
  fresh,      \* operations accepted since the last boot (history)
  crashes     \* crashes so far

tokenVars == <<tokens, panel, result, audit, delivered>>
vars == <<state, idem, events, phase, cmd, tokens, panel, result, audit,
          delivered, fresh, crashes>>

Idle == [name |-> "idle"]

\* token.create bodies are told apart by the permission they ask for; the hash
\* of a token.revoke request is the hash of the token identifier.
CreateBody == {"plain", "analytics"}
OtherBody == "request"

KindOf(id) == (CHOOSE row \in idem : row.op = id).slot.kind
TargetOf(id) == (CHOOSE row \in idem : row.op = id).hash

Init ==
  /\ LedgerInit
  /\ phase = "up"
  /\ cmd = Idle
  /\ tokens = [t \in TokenId |-> "none"]
  /\ panel = {}
  /\ result = [id \in OpId |-> NoToken]
  /\ audit = {}
  /\ delivered = {}
  /\ fresh = {}
  /\ crashes = 0

ActorIdle == phase = "up" /\ cmd = Idle

-----------------------------------------------------------------------------
(* Single-transaction commands submitted by the agent's handlers.           *)

\* DbCommand::Accept for the kinds whose work the agent's tasks do.
Accept(id, slot, hash) ==
  /\ ActorIdle
  /\ hash = OtherBody
  /\ slot.kind \notin {"token.create", "token.revoke"}
  /\ AcceptNew(id, slot, hash)
  /\ fresh' = fresh \union {id}
  /\ audit' = audit \union {<<"operation.accept", id>>}
  /\ UNCHANGED <<phase, cmd, tokens, panel, result, delivered, crashes>>

\* DbCommand::Transition by the task of an operation accepted since the boot;
\* the tasks of earlier operations died with the agent.  Only the cancel
\* command writes Cancelled.
TaskTransition(id, next) ==
  /\ ActorIdle
  /\ next # "cancelled"
  /\ id \in fresh
  /\ KindOf(id) \notin {"token.create", "token.revoke"}
  /\ Transition(id, next)
  /\ UNCHANGED <<phase, cmd, tokenVars, fresh, crashes>>

\* cancel_operation: terminal rows are refused, the cancellation commits, and
\* the audit row is a transaction of its own.
Cancel(id) ==
  /\ ActorIdle
  /\ state[id] \in Active
  /\ Transition(id, "cancelled")
  /\ cmd' = [name |-> "cancel", op |-> id, pc |-> "audit", token |-> NoToken]
  /\ UNCHANGED <<phase, tokenVars, fresh, crashes>>

-----------------------------------------------------------------------------
(* create_token                                                             *)

CreateAccept(id, slot, body) ==
  /\ ActorIdle
  /\ slot.kind = "token.create"
  /\ body \in CreateBody
  /\ AcceptNew(id, slot, body)
  /\ audit' = audit \union {<<"operation.accept", id>>}
  /\ fresh' = fresh \union {id}
  /\ cmd' = [name |-> "create", op |-> id, pc |-> "insert", token |-> NoToken]
  /\ UNCHANGED <<phase, tokens, panel, result, delivered, crashes>>

ActiveTokens == { t \in TokenId : tokens[t] = "active" }

\* Mutants: the limit is compared with <=; the permission row is forgotten.
CreateInsertOffByOne(t) ==
  /\ phase = "up" /\ cmd.name = "create" /\ cmd.pc = "insert"
  /\ tokens[t] = "none"
  /\ Cardinality(ActiveTokens) <= MaxActiveTokens
  /\ tokens' = [tokens EXCEPT ![t] = "active"]
  /\ cmd' = [cmd EXCEPT !.pc = IF TargetOf(cmd.op) = "analytics"
                               THEN "panel" ELSE "running",
                        !.token = t]
  /\ UNCHANGED <<ledger, phase, panel, result, audit, delivered, fresh, crashes>>

CreateInsertNoPanel(t) ==
  /\ phase = "up" /\ cmd.name = "create" /\ cmd.pc = "insert"
  /\ tokens[t] = "none"
  /\ Cardinality(ActiveTokens) < MaxActiveTokens
  /\ tokens' = [tokens EXCEPT ![t] = "active"]
  /\ cmd' = [cmd EXCEPT !.pc = "running", !.token = t]
  /\ UNCHANGED <<ledger, phase, panel, result, audit, delivered, fresh, crashes>>

\* The active tokens are counted and the token row is inserted; at the limit
\* the command answers Overloaded and leaves the operation accepted.
CreateInsert(t) ==
  /\ phase = "up" /\ cmd.name = "create" /\ cmd.pc = "insert"
  /\ tokens[t] = "none"
  /\ Cardinality(ActiveTokens) < MaxActiveTokens
  /\ tokens' = [tokens EXCEPT ![t] = "active"]
  /\ cmd' = [cmd EXCEPT !.pc = IF TargetOf(cmd.op) = "analytics"
                               THEN "panel" ELSE "running",
                        !.token = t]
  /\ UNCHANGED <<ledger, phase, panel, result, audit, delivered, fresh, crashes>>

CreateOverloaded ==
  /\ phase = "up" /\ cmd.name = "create" /\ cmd.pc = "insert"
  /\ Cardinality(ActiveTokens) >= MaxActiveTokens
  /\ cmd' = Idle
  /\ UNCHANGED <<ledger, phase, tokenVars, fresh, crashes>>

CreatePanelScope ==
  /\ phase = "up" /\ cmd.name = "create" /\ cmd.pc = "panel"
  /\ panel' = panel \union {cmd.token}
  /\ cmd' = [cmd EXCEPT !.pc = "running"]
  /\ UNCHANGED <<ledger, phase, tokens, result, audit, delivered, fresh, crashes>>

-----------------------------------------------------------------------------
(* revoke_token                                                             *)

RevokeAccept(id, slot, t) ==
  /\ ActorIdle
  /\ slot.kind = "token.revoke"
  /\ t \in TokenId
  /\ AcceptNew(id, slot, t)
  /\ audit' = audit \union {<<"operation.accept", id>>}
  /\ fresh' = fresh \union {id}
  /\ cmd' = [name |-> "revoke", op |-> id, pc |-> "update", token |-> t]
  /\ UNCHANGED <<phase, tokens, panel, result, delivered, crashes>>

\* Mutant: the test on revoked_at is inverted.
RevokeUpdateInverted ==
  /\ phase = "up" /\ cmd.name = "revoke" /\ cmd.pc = "update"
  /\ tokens[cmd.token] # "none"
  /\ cmd' = [cmd EXCEPT !.pc = "running"]
  /\ UNCHANGED <<ledger, phase, tokenVars, fresh, crashes>>

RevokeUpdate ==
  /\ phase = "up" /\ cmd.name = "revoke" /\ cmd.pc = "update"
  /\ tokens[cmd.token] # "none"
  /\ tokens' = [tokens EXCEPT ![cmd.token] = "revoked"]
  /\ cmd' = [cmd EXCEPT !.pc = "running"]
  /\ UNCHANGED <<ledger, phase, panel, result, audit, delivered, fresh, crashes>>

\* read_token answers NotFound: the operation stays accepted.
RevokeNotFound ==
  /\ phase = "up" /\ cmd.name = "revoke" /\ cmd.pc = "update"
  /\ tokens[cmd.token] = "none"
  /\ cmd' = Idle
  /\ UNCHANGED <<ledger, phase, tokenVars, fresh, crashes>>

-----------------------------------------------------------------------------
(* The tail create_token and revoke_token share: Running, Succeeded with    *)
(* the token_id as the result, the audit row, the answer.                   *)

CommandRunning ==
  /\ phase = "up" /\ cmd.name \in {"create", "revoke"} /\ cmd.pc = "running"
  /\ Transition(cmd.op, "running")
  /\ cmd' = [cmd EXCEPT !.pc = "succeed"]
  /\ UNCHANGED <<phase, tokenVars, fresh, crashes>>

\* Mutant: the operation succeeds without its result.
CommandSucceedNoResult ==
  /\ phase = "up" /\ cmd.name \in {"create", "revoke"} /\ cmd.pc = "succeed"
  /\ Transition(cmd.op, "succeeded")
  /\ cmd' = [cmd EXCEPT !.pc = "audit"]
  /\ UNCHANGED <<phase, tokenVars, fresh, crashes>>

CommandSucceed ==
  /\ phase = "up" /\ cmd.name \in {"create", "revoke"} /\ cmd.pc = "succeed"
  /\ Transition(cmd.op, "succeeded")
  /\ result' = [result EXCEPT ![cmd.op] = cmd.token]
  /\ cmd' = [cmd EXCEPT !.pc = "audit"]
  /\ UNCHANGED <<phase, tokens, panel, audit, delivered, fresh, crashes>>

\* Mutant: the audit row of a cancellation is forgotten.
CommandAuditSkipsCancel ==
  /\ phase = "up" /\ cmd.name # "idle" /\ cmd.pc = "audit"
  /\ audit' = IF cmd.name = "cancel" THEN audit ELSE audit \union {<<cmd.name, cmd.op>>}
  /\ delivered' = IF cmd.name = "create" THEN delivered \union {cmd.token}
                                         ELSE delivered
  /\ cmd' = Idle
  /\ UNCHANGED <<ledger, phase, tokens, panel, result, fresh, crashes>>

\* The audit row, then the answer; create_token's carries the bearer secret.
CommandAudit ==
  /\ phase = "up" /\ cmd.name # "idle" /\ cmd.pc = "audit"
  /\ audit' = audit \union {<<cmd.name, cmd.op>>}
  /\ delivered' = IF cmd.name = "create" THEN delivered \union {cmd.token}
                                         ELSE delivered
  /\ cmd' = Idle
  /\ UNCHANGED <<ledger, phase, tokens, panel, result, fresh, crashes>>

-----------------------------------------------------------------------------
(* Crash and boot                                                           *)

Crash ==
  /\ crashes < MaxCrashes
  /\ crashes' = crashes + 1
  /\ phase' = "boot"
  /\ cmd' = Idle
  /\ fresh' = {}
  /\ UNCHANGED <<ledger, tokenVars>>

\* Mutant: the query selects state='running' only.
RunningRecoveries == { id \in OpId : /\ state[id] = "running"
                                     /\ KindOf(id) = "instance.recover" }

\* The query of interrupt_panel_recoveries.
ActiveRecoveries == { id \in OpId : /\ state[id] \in Active
                                    /\ KindOf(id) = "instance.recover" }

\* Mutant: a recovery is failed without passing through running.
BootInterruptDirect(id) ==
  /\ phase = "boot"
  /\ id \in ActiveRecoveries
  /\ Transition(id, "failed")
  /\ UNCHANGED <<phase, cmd, tokenVars, fresh, crashes>>

\* One transaction of interrupt_panel_recoveries.
BootInterrupt(id) ==
  /\ phase = "boot"
  /\ id \in ActiveRecoveries
  /\ Transition(id, IF state[id] = "accepted" THEN "running" ELSE "failed")
  /\ UNCHANGED <<phase, cmd, tokenVars, fresh, crashes>>

BootDone ==
  /\ phase = "boot"
  /\ ActiveRecoveries = {}
  /\ phase' = "up"
  /\ UNCHANGED <<ledger, cmd, tokenVars, fresh, crashes>>

-----------------------------------------------------------------------------
CommandStep ==
  \/ \E t \in TokenId : CreateInsert(t)
  \/ CreateOverloaded
  \/ CreatePanelScope
  \/ RevokeUpdate
  \/ RevokeNotFound
  \/ CommandRunning
  \/ CommandSucceed
  \/ CommandAudit

BootStep == BootDone \/ \E id \in OpId : BootInterrupt(id)

Next ==
  \/ \E id \in OpId, slot \in Slot, hash \in Hash :
        \/ Accept(id, slot, hash)
        \/ CreateAccept(id, slot, hash)
        \/ RevokeAccept(id, slot, hash)
  \/ \E id \in OpId, next \in OpState : TaskTransition(id, next)
  \/ \E id \in OpId : Cancel(id)
  \/ CommandStep
  \/ Crash
  \/ BootStep

Spec == Init /\ [][Next]_vars

-----------------------------------------------------------------------------
TypeOK ==
  /\ LedgerTypeOK
  /\ phase \in {"up", "boot"}
  /\ cmd \in {Idle} \union [name: {"cancel", "create", "revoke"}, op: OpId,
                           pc: {"insert", "panel", "update", "running", "succeed", "audit"},
                           token: TokenId \union {NoToken}]
  /\ cmd.name \in {"create", "revoke"} => (cmd.pc = "insert" \/ cmd.token \in TokenId)
  /\ tokens \in [TokenId -> {"none", "active", "revoked"}]
  /\ panel \subseteq TokenId
  /\ result \in [OpId -> TokenId \union {NoToken}]
  /\ audit \subseteq {"operation.accept", "cancel", "create", "revoke"} \X OpId
  /\ delivered \subseteq TokenId
  /\ fresh \subseteq OpId
  /\ crashes \in 0 .. MaxCrashes

Succeeded(kind) == { id \in OpId : state[id] = "succeeded" /\ KindOf(id) = kind }

(* A revocation reported as succeeded is in force, now and after any crash: *)
(* revoke_token commits revoked_at before the operation leaves accepted,    *)
(* and no later command of any caller brings the token back.                *)
SucceededRevokeIsInForce ==
  \A id \in Succeeded("token.revoke") : tokens[TargetOf(id)] = "revoked"

(* A creation reported as succeeded left the complete policy: its token     *)
(* row exists and carries the analytics permission exactly when the         *)
(* request asked for it, although the row, the permission and the result    *)
(* are committed by different transactions of create_token.                 *)
SucceededCreateIsComplete ==
  \A id \in Succeeded("token.create") :
    /\ result[id] # NoToken
    /\ tokens[result[id]] # "none"
    /\ TargetOf(id) = "analytics" <=> result[id] \in panel

(* A caller holds a secret only for a token whose creation is durable under *)
(* a succeeded operation, and no two operations account for one token.      *)
DeliveredSecretIsAccounted ==
  /\ \A t \in delivered : \E id \in Succeeded("token.create") : result[id] = t
  /\ \A a, b \in Succeeded("token.create") : result[a] = result[b] => a = b

(* MAX_ACTIVE_TOKENS is never exceeded, whatever mixture of creations,      *)
(* crashes between their transactions and retries under new keys led here.  *)
ActiveTokensBounded == Cardinality(ActiveTokens) <= MaxActiveTokens

(* What the tokens table promises: create_token leaves complete policies,   *)
(* secrets that are accounted for and no more tokens than the limit.        *)
TokensAreAccounted ==
  SucceededCreateIsComplete /\ DeliveredSecretIsAccounted /\ ActiveTokensBounded

(* When the agent serves again after a crash, no panel recovery of an       *)
(* earlier process is still pending: interrupt_panel_recoveries has failed  *)
(* it, also when the crash came during an earlier boot, between the two     *)
(* transitions of one recovery.                                             *)
RecoveriesSettledAtBoot ==
  phase = "up" =>
    \A id \in OpId :
      (state[id] \in Active /\ KindOf(id) = "instance.recover") => id \in fresh

(* Each crash can lose at most one audit row: the operations that were      *)
(* cancelled, or whose token command succeeded, without the matching audit  *)
(* row are no more than the crashes so far, apart from the command that is  *)
(* about to write its row.                                                  *)
Unaudited ==
  { id \in OpId :
      \/ state[id] = "cancelled" /\ <<"cancel", id>> \notin audit
      \/ id \in Succeeded("token.create") /\ <<"create", id>> \notin audit
      \/ id \in Succeeded("token.revoke") /\ <<"revoke", id>> \notin audit }
UnauditedBoundedByCrashes ==
  Cardinality(Unaudited) <= crashes + (IF cmd = Idle THEN 0 ELSE 1)

(* The one actor thread is never stuck: in the middle of a command, and of  *)
(* the boot that follows any crash, its next transaction is legal.  Every   *)
(* command and the boot have finitely many, so each ends with the actor     *)
(* ready for the next command.                                              *)
ActorNeverStalls == ~ActorIdle => ENABLED (CommandStep \/ BootStep)
=============================================================================
