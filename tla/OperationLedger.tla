--------------------------- MODULE OperationLedger ---------------------------
(***************************************************************************)
(* The operation ledger of the appliance: the operations, idempotency and  *)
(* operation_events tables, written by one SQLite transaction per action   *)
(* on the database actor's thread (state.rs).  Every lifecycle handler,    *)
(* token command and recovery path of the agent writes operations only     *)
(* through these transactions.                                             *)
(*                                                                         *)
(* A request is identified by its slot (caller token, kind, idempotency    *)
(* key) and its body by a hash.  Timestamps, progress text and problem     *)
(* documents are left out.                                                 *)
(***************************************************************************)
EXTENDS Operations, Naturals, Sequences

CONSTANTS
  OpId,       \* operation identifiers (ULIDs)
  Caller,     \* authenticated tokens that submit requests
  Kind,       \* operation kinds
  Key,        \* idempotency keys
  Hash,       \* canonical request hashes
  MaxEvents   \* bound on repeated 'running' events (unbounded in the code)

ASSUME MaxEventsAssumption == MaxEvents \in Nat \ {0}

VARIABLES
  state,   \* operations.state of every identifier, "absent" for no row
  idem,    \* the rows of the idempotency table
  events   \* operation_events: the states appended for each operation

ledger == <<state, idem, events>>

\* The primary key of the idempotency table.
Slot == [caller: Caller, kind: Kind, key: Key]

IdemRow == [slot: Slot, hash: Hash, op: OpId]

LedgerInit ==
  /\ state = [id \in OpId |-> "absent"]
  /\ idem = {}
  /\ events = [id \in OpId |-> <<>>]

\* The idempotency row accept_operation finds first, as a set of at most one.
Prior(slot) == { row \in idem : row.slot = slot }

-----------------------------------------------------------------------------
(* Mutant: the slot is not looked up before the insert.                     *)
AcceptNewWithoutLookup(id, slot, hash) ==
  /\ state[id] = "absent"
  /\ state' = [state EXCEPT ![id] = "accepted"]
  /\ idem' = idem \union {[slot |-> slot, hash |-> hash, op |-> id]}
  /\ events' = [events EXCEPT ![id] = Append(@, "accepted")]

(* accept_operation, the branch that inserts: the operation, its            *)
(* idempotency row and its first event commit together.  The branches that  *)
(* find a row of the slot answer with its operation (same hash) or with     *)
(* Conflict (another hash) and write nothing.                               *)
AcceptNew(id, slot, hash) ==
  /\ Prior(slot) = {}
  /\ state[id] = "absent"
  /\ state' = [state EXCEPT ![id] = "accepted"]
  /\ idem' = idem \union {[slot |-> slot, hash |-> hash, op |-> id]}
  /\ events' = [events EXCEPT ![id] = Append(@, "accepted")]

(* Mutants: any move of an existing operation is accepted; a first move to  *)
(* running is written to the row and not to the log.                        *)
TransitionUnchecked(id, next) ==
  /\ state[id] # "absent"
  /\ next = "running" => Len(events[id]) < MaxEvents
  /\ state' = [state EXCEPT ![id] = next]
  /\ events' = [events EXCEPT ![id] = IF Len(@) < MaxEvents THEN Append(@, next) ELSE @]
  /\ UNCHANGED idem

TransitionUnlogged(id, next) ==
  /\ LegalTransition(state[id], next)
  /\ next = "running" => Len(events[id]) < MaxEvents
  /\ state' = [state EXCEPT ![id] = next]
  /\ events' = [events EXCEPT ![id] = IF next = "running" THEN @ ELSE Append(@, next)]
  /\ UNCHANGED idem

(* transition: the branch that writes the row and appends the event.  An    *)
(* illegal move (Conflict) and the repetition of a terminal state (Ok)      *)
(* write nothing.                                                           *)
Transition(id, next) ==
  /\ LegalTransition(state[id], next)
  /\ next = "running" => Len(events[id]) < MaxEvents
  /\ state' = [state EXCEPT ![id] = next]
  /\ events' = [events EXCEPT ![id] = Append(@, next)]
  /\ UNCHANGED idem

LedgerNext ==
  \/ \E id \in OpId, slot \in Slot, hash \in Hash : AcceptNew(id, slot, hash)
  \/ \E id \in OpId, next \in OpState : Transition(id, next)

LedgerSpec == LedgerInit /\ [][LedgerNext]_ledger

-----------------------------------------------------------------------------
(* Type invariant of the three tables.                                      *)
LedgerTypeOK ==
  /\ state \in [OpId -> OpState \union {"absent"}]
  /\ idem \subseteq IdemRow
  /\ events \in [OpId -> Seq(OpState)]

(* The event log of an operation, which clients replay with --follow and    *)
(* resume by sequence number, is a legal path of operation states: it       *)
(* starts with the acceptance, every later event is a legal successor of    *)
(* the one before, and its last event is the state the row shows.  No       *)
(* writer of the operations table can leave the log and the row apart.      *)
LogIsLegalPath ==
  \A id \in OpId :
    /\ state[id] = "absent" <=> events[id] = <<>>
    /\ events[id] # <<>> =>
         /\ events[id][1] = "accepted"
         /\ events[id][Len(events[id])] = state[id]
         /\ \A i \in 1 .. Len(events[id]) - 1 :
              LegalTransition(events[id][i], events[id][i + 1])

(* A retried request is never executed under a second operation: one slot   *)
(* has one idempotency row, two rows never share an operation, and every    *)
(* operation in the table was accepted under some slot.  accept_operation   *)
(* writes the row and the operation in one transaction for this.            *)
OneOperationPerRequest ==
  /\ \A r1, r2 \in idem : (r1.slot = r2.slot \/ r1.op = r2.op) => r1 = r2
  /\ \A id \in OpId : state[id] # "absent" <=> \E row \in idem : row.op = id

(* "terminal operations are immutable": once an operation has succeeded,    *)
(* failed or been cancelled, no step of any writer changes its state or     *)
(* appends to its log, and no idempotency row is rebound or dropped.        *)
TerminalImmutable ==
  [][ /\ \A id \in OpId : state[id] \in Terminal =>
           state'[id] = state[id] /\ events'[id] = events[id]
      /\ idem \subseteq idem' ]_ledger
=============================================================================
