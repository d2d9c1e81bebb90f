---------------------------- MODULE Qualification ----------------------------
(***************************************************************************)
(* One-shot GPU qualification jobs, across the agent (agent.rs), the IPC   *)
(* cancellation registry (sparkplane-ipc cancel.rs) and the executor       *)
(* (executor.rs).  The agent keeps the operation and holds the transition  *)
(* lease while its task waits for the executor.  The executor registers    *)
(* the request, takes the one slot, creates the runner's container and     *)
(* leaves it to a task of its own, which always ends with a cleanup.  A    *)
(* cancel reads the operation, asks the executor to cancel and waits there *)
(* for the cleanup, and then writes the operation.                         *)
(*                                                                         *)
(* The manifest's signature and the resources a plan needs can only refuse *)
(* the submission.  Either process can die; the containers survive both.   *)
(***************************************************************************)
EXTENDS Integers, Operations

CONSTANTS
  Jobs,             \* the qualification operations
  CancelledJobs,    \* the ones somebody cancels, once each
  CancelAttempts,   \* QUALIFICATION_CANCEL_REGISTRATION_ATTEMPTS
  MaxDeaths         \* deaths of the agent or of the executor

ASSUME QualificationAssumption ==
  /\ CancelAttempts \in Nat \ {0} /\ MaxDeaths \in Nat
  /\ CancelledJobs \subseteq Jobs /\ {"free", "engine"} \cap Jobs = {}

VARIABLES
  row,         \* the operation's row, "none" before it is accepted
  runTask,     \* run_qualification: idle, spawned, calling, answered, over
  lease,       \* the agent's transition lease
  tokens,      \* jobs with an entry in the CancelRegistry
  cancelled,   \* jobs whose token is cancelled
  active,      \* jobs with a completion in the active map
  permits,     \* jobs whose completion has its permit
  slot,        \* the executor's qualification slot
  request,     \* the executor's request: where it is, and its result
  late,        \* jobs whose deadline passed in await_qualification_completion
  runner,      \* run_created_qualification: where it is, and its result
  box,         \* the runner's container: none, created, running, gone
  loose,       \* jobs whose container was left to itself (history)
  canceller,   \* cancel_operation: where it is, attempts left, completion found
  deaths       \* deaths so far (history)

agentPart == <<row, runTask, lease>>
registryPart == <<tokens, cancelled, active, permits>>
runnerPart == <<runner, box, loose>>
requestPart == <<slot, request, late>>
qualificationVars == <<agentPart, registryPart, runnerPart, requestPart,
                       canceller, deaths>>

Idle == [at |-> "idle", result |-> "none"]
NoCancel == [at |-> "idle", left |-> CancelAttempts, found |-> FALSE]
Alive(j) == box[j] \in {"created", "running"}

QualificationInit ==
  /\ row = [j \in Jobs |-> "none"]
  /\ runTask = [j \in Jobs |-> "idle"]
  /\ lease = "free" /\ slot = "free"
  /\ tokens = {} /\ cancelled = {} /\ active = {} /\ permits = {}
  /\ request = [j \in Jobs |-> Idle]
  /\ runner = [j \in Jobs |-> Idle]
  /\ late = {} /\ loose = {}
  /\ box = [j \in Jobs |-> "none"]
  /\ canceller = [j \in Jobs |-> NoCancel]
  /\ deaths = 0

-----------------------------------------------------------------------------
(* The agent's handler and task.                                            *)

\* An engine start holds the same lease.
EngineLease ==
  /\ lease \in {"free", "engine"}
  /\ lease' = IF lease = "free" THEN "engine" ELSE "free"
  /\ UNCHANGED <<row, runTask, registryPart, runnerPart, requestPart,
                 canceller, deaths>>

\* qualification: the lease is taken before the operation is accepted, and
\* the task that is spawned owns it.
Qualify(j) ==
  /\ row[j] = "none" /\ lease = "free"
  /\ lease' = j
  /\ row' = [row EXCEPT ![j] = "accepted"]
  /\ runTask' = [runTask EXCEPT ![j] = "spawned"]
  /\ UNCHANGED <<registryPart, runnerPart, requestPart, canceller, deaths>>

\* run_qualification's first write.  An operation that was cancelled meanwhile
\* refuses it, and the task returns and drops the lease.
BeginRun(j) ==
  /\ runTask[j] = "spawned"
  /\ row' = [row EXCEPT ![j] = TransitionTo(@, "running")]
  /\ IF LegalTransition(row[j], "running")
     THEN /\ runTask' = [runTask EXCEPT ![j] = "calling"]
          /\ UNCHANGED lease
     ELSE /\ runTask' = [runTask EXCEPT ![j] = "over"]
          /\ lease' = "free"
  /\ UNCHANGED <<registryPart, runnerPart, requestPart, canceller, deaths>>

\* What run_qualification writes for the executor's answer.  A cancelled run
\* is left to the handler that cancelled it.
Verdict(result) == CASE result = "passed" -> {"succeeded"}
                     [] result = "cancelled" -> {}
                     [] OTHER -> {"failed"}

EndRun(j) ==
  /\ runTask[j] = "calling" /\ request[j].at = "answered"
  /\ row' = [row EXCEPT ![j] =
               IF Verdict(request[j].result) = {} THEN @
               ELSE TransitionTo(@, CHOOSE s \in Verdict(request[j].result) : TRUE)]
  /\ runTask' = [runTask EXCEPT ![j] = "over"]
  /\ lease' = "free"
  /\ UNCHANGED <<registryPart, runnerPart, requestPart, canceller, deaths>>

-----------------------------------------------------------------------------
(* The executor's request.                                                  *)

RequestAt(j, at, result) ==
  request' = [request EXCEPT ![j] = [at |-> at, result |-> result]]

\* dispatch: register_qualification_request puts the token and the completion
\* in place under one lock.
Register(j) ==
  /\ runTask[j] = "calling" /\ request[j].at = "idle"
  /\ tokens' = tokens \cup {j} /\ active' = active \cup {j}
  /\ RequestAt(j, "entered", "none")
  /\ UNCHANGED <<agentPart, cancelled, permits, slot, late, runnerPart,
                 canceller, deaths>>

\* RunQualification: one slot, or Overloaded.
TakeRunnerSlot(j) ==
  /\ request[j].at = "entered"
  /\ IF slot = "free" THEN slot' = j /\ RequestAt(j, "ensuring", "none")
                      ELSE RequestAt(j, "finished", "error") /\ UNCHANGED slot
  /\ UNCHANGED <<agentPart, registryPart, late, runnerPart, canceller, deaths>>

\* qualify: the image is fetched and inspected, or the request is cancelled.
EnsureImage(j) ==
  /\ request[j].at = "ensuring"
  /\ \/ /\ j \in cancelled
        /\ slot' = "free" /\ RequestAt(j, "finished", "cancelled")
     \/ /\ slot' = "free" /\ RequestAt(j, "finished", "error")
     \/ /\ j \notin cancelled
        /\ RequestAt(j, "creating", "none") /\ UNCHANGED slot
  /\ UNCHANGED <<agentPart, registryPart, late, runnerPart, canceller, deaths>>

\* The container is created and handed to a task of its own.
CreateRunner(j) ==
  /\ request[j].at = "creating"
  /\ \/ /\ box' = [box EXCEPT ![j] = "created"]
        /\ runner' = [runner EXCEPT ![j] = [at |-> "attaching", result |-> "none"]]
        /\ RequestAt(j, "waiting", "none") /\ UNCHANGED slot
     \/ /\ slot' = "free" /\ RequestAt(j, "finished", "error")
        /\ UNCHANGED <<box, runner>>
  /\ UNCHANGED <<agentPart, registryPart, late, loose, canceller, deaths>>

\* The runner's task ended: its result is the request's.  A request whose
\* deadline passed answers Timeout whatever the result.
ReceiveResult(j) ==
  /\ request[j].at = "waiting" /\ runner[j].at = "ended"
  /\ slot' = "free"
  /\ RequestAt(j, "finished", IF j \in late THEN "error" ELSE runner[j].result)
  /\ UNCHANGED <<agentPart, registryPart, late, runnerPart, canceller, deaths>>

\* A request that answers at its deadline without waiting for the cleanup.
DeadlineAtOnce(j) ==
  /\ request[j].at \in {"ensuring", "creating", "waiting"} /\ j \notin late
  /\ late' = late \cup {j} /\ cancelled' = cancelled \cup {j}
  /\ slot' = "free" /\ RequestAt(j, "finished", "error")
  /\ UNCHANGED <<agentPart, tokens, active, permits, runnerPart, canceller, deaths>>

\* await_qualification_completion: the deadline cancels the token and the
\* execution is awaited for the cleanup period.
Deadline(j) ==
  /\ request[j].at \in {"ensuring", "creating", "waiting"} /\ j \notin late
  /\ late' = late \cup {j} /\ cancelled' = cancelled \cup {j}
  /\ UNCHANGED <<agentPart, tokens, active, permits, slot, request, runnerPart,
                 canceller, deaths>>

\* The cleanup period passed: the execution is dropped, and with it the slot.
\* A container call in flight may still create the container.
Overrun(j) ==
  /\ request[j].at \in {"ensuring", "creating", "waiting"} /\ j \in late
  /\ slot' = "free" /\ RequestAt(j, "finished", "error")
  /\ box' \in {box, IF request[j].at = "creating"
                    THEN [box EXCEPT ![j] = "created"] ELSE box}
  /\ loose' = loose \cup {j}
  /\ UNCHANGED <<agentPart, registryPart, late, runner, canceller, deaths>>

\* The completion gets its permit and leaves the active map.
Complete(j) ==
  /\ request[j].at = "finished"
  /\ permits' = permits \cup {j} /\ active' = active \ {j}
  /\ request' = [request EXCEPT ![j].at = "leaving"]
  /\ UNCHANGED <<agentPart, tokens, cancelled, slot, late, runnerPart,
                 canceller, deaths>>

\* The guard is dropped and the answer is sent.
AnswerAgent(j) ==
  /\ request[j].at = "leaving"
  /\ tokens' = tokens \ {j}
  /\ request' = [request EXCEPT ![j].at = "answered"]
  /\ UNCHANGED <<agentPart, cancelled, active, permits, slot, late, runnerPart,
                 canceller, deaths>>

-----------------------------------------------------------------------------
(* The task that owns the container.                                        *)

Cleans(j, result) ==
  runner' = [runner EXCEPT ![j] = [at |-> "cleaning", result |-> result]]

\* Attached, and started unless the token is cancelled by then.
StartRunner(j) ==
  /\ runner[j].at = "attaching"
  /\ \/ Cleans(j, "error") /\ UNCHANGED box
     \/ /\ j \in cancelled
        /\ Cleans(j, "cancelled") /\ UNCHANGED box
     \/ /\ j \notin cancelled
        /\ runner' = [runner EXCEPT ![j].at = "collecting"]
        /\ box' = [box EXCEPT ![j] = "running"]
  /\ UNCHANGED <<agentPart, registryPart, requestPart, loose, canceller, deaths>>

\* collect_qualification_output against the token and the signed timeout.
CollectOutput(j) ==
  /\ runner[j].at = "collecting"
  /\ IF j \in cancelled THEN Cleans(j, "cancelled")
     ELSE \E result \in {"passed", "rejected", "error"} : Cleans(j, result)
  /\ UNCHANGED <<agentPart, registryPart, requestPart, box, loose, canceller, deaths>>

\* The container is stopped and removed.  A removal Docker refuses cannot
\* report a pass, and leaves the container.
CleanUp(j) ==
  /\ runner[j].at = "cleaning"
  /\ \/ /\ box' = [box EXCEPT ![j] = "gone"]
        /\ runner' = [runner EXCEPT ![j].at = "ended"]
        /\ UNCHANGED loose
     \/ /\ loose' = loose \cup {j}
        /\ runner' = [runner EXCEPT ![j] = [at |-> "ended", result |-> "error"]]
        /\ UNCHANGED box
  /\ UNCHANGED <<agentPart, registryPart, requestPart, canceller, deaths>>

-----------------------------------------------------------------------------
(* Cancelling an operation.                                                 *)

CancelAt(j, at) == canceller' = [canceller EXCEPT ![j].at = at]
OnlyCancels == UNCHANGED <<agentPart, runnerPart, requestPart, deaths>>

\* cancel_operation reads the row once.  A running qualification is cancelled
\* in the executor first, an accepted one is only written.
ReadRow(j) ==
  /\ j \in CancelledJobs
  /\ canceller[j].at = "idle" /\ row[j] \in Active
  /\ CancelAt(j, IF row[j] = "running" THEN "asking" ELSE "writing")
  /\ OnlyCancels /\ UNCHANGED registryPart

\* system.cancel: the completion is looked up under the active map's lock ...
LookUp(j) ==
  /\ canceller[j].at = "asking"
  /\ canceller' = [canceller EXCEPT ![j].at = "looked", ![j].found = j \in active]
  /\ OnlyCancels /\ UNCHANGED registryPart

\* A handler that takes any answer of the executor for an acknowledgement.
CancelTokenAnyAnswer(j) ==
  /\ canceller[j].at = "looked"
  /\ cancelled' = cancelled \cup (tokens \cap {j})
  /\ CancelAt(j, IF j \in tokens /\ canceller[j].found THEN "waiting" ELSE "acknowledged")
  /\ OnlyCancels /\ UNCHANGED <<tokens, active, permits>>

\* ... and then the token is cancelled under the registry's.  Without an entry
\* the agent asks again, as often as it may.
CancelToken(j) ==
  /\ canceller[j].at = "looked"
  /\ cancelled' = cancelled \cup (tokens \cap {j})
  /\ IF j \in tokens
     THEN CancelAt(j, IF canceller[j].found THEN "waiting" ELSE "acknowledged")
     ELSE canceller' = [canceller EXCEPT ![j].left = @ - 1,
                          ![j].at = IF canceller[j].left = 1 THEN "over" ELSE "asking"]
  /\ OnlyCancels /\ UNCHANGED <<tokens, active, permits>>

\* The completion's permit, or the end of the acknowledgement period, which
\* the agent reports without writing the operation.
AwaitCleanup(j) ==
  /\ canceller[j].at = "waiting"
  /\ \/ j \in permits /\ CancelAt(j, "acknowledged")
     \/ CancelAt(j, "over")
  /\ OnlyCancels /\ UNCHANGED registryPart

\* The operation is cancelled in the database.
WriteCancel(j) ==
  /\ canceller[j].at \in {"acknowledged", "writing"}
  /\ row' = [row EXCEPT ![j] = TransitionTo(@, "cancelled")]
  /\ CancelAt(j, "over")
  /\ UNCHANGED <<runTask, lease, registryPart, runnerPart, requestPart, deaths>>

\* The caller disconnects and the handler is dropped.
DropCancel(j) ==
  /\ canceller[j].at \notin {"idle", "over"}
  /\ CancelAt(j, "over")
  /\ OnlyCancels /\ UNCHANGED registryPart

-----------------------------------------------------------------------------
(* Deaths.                                                                  *)

\* The agent restarts: its tasks, handlers and lease are gone, the rows stay,
\* and the executor finishes what it was asked.
AgentKilled ==
  /\ deaths < MaxDeaths /\ deaths' = deaths + 1
  /\ lease' = "free"
  /\ runTask' = [j \in Jobs |-> IF runTask[j] = "idle" THEN "idle" ELSE "over"]
  /\ canceller' = [j \in Jobs |-> IF canceller[j].at = "idle" THEN canceller[j]
                                  ELSE [canceller[j] EXCEPT !.at = "over"]]
  /\ loose' = loose \cup {j \in Jobs : runTask[j] \in {"spawned", "calling"}}
  /\ UNCHANGED <<row, registryPart, requestPart, runner, box>>

\* The executor restarts: a request in flight is answered with an error, and
\* nothing is left that knows its container.
ExecutorDies ==
  /\ deaths < MaxDeaths /\ deaths' = deaths + 1
  /\ tokens' = {} /\ active' = {}
  /\ slot' = "free"
  /\ request' = [j \in Jobs |-> IF request[j].at \in {"idle", "answered"} THEN request[j]
                                ELSE [at |-> "answered", result |-> "error"]]
  /\ runner' = [j \in Jobs |-> IF runner[j].at = "idle" THEN Idle
                               ELSE [at |-> "ended", result |-> "error"]]
  /\ loose' = loose \cup {j \in Jobs : Alive(j)}
  /\ canceller' = [j \in Jobs |-> IF canceller[j].at \in {"looked", "waiting"}
                                  THEN [canceller[j] EXCEPT !.at = "over"] ELSE canceller[j]]
  /\ UNCHANGED <<agentPart, cancelled, permits, late, box>>

QualificationNext ==
  \/ EngineLease \/ AgentKilled \/ ExecutorDies
  \/ \E j \in Jobs :
       \/ Qualify(j) \/ BeginRun(j) \/ EndRun(j)
       \/ Register(j) \/ TakeRunnerSlot(j) \/ EnsureImage(j) \/ CreateRunner(j)
       \/ ReceiveResult(j) \/ Deadline(j) \/ Overrun(j) \/ Complete(j) \/ AnswerAgent(j)
       \/ StartRunner(j) \/ CollectOutput(j) \/ CleanUp(j)
       \/ ReadRow(j) \/ LookUp(j) \/ CancelToken(j) \/ AwaitCleanup(j)
       \/ WriteCancel(j) \/ DropCancel(j)

QualificationSpec == QualificationInit /\ [][QualificationNext]_qualificationVars

-----------------------------------------------------------------------------
\* A runner's container exists only while its own job holds the transition
\* lease, so no engine starts beside it, unless it was left to itself: one of
\* the processes died under it, Docker refused to remove it, or its cleanup
\* outlasted the acknowledgement period after the deadline
\* (await_qualification_completion, run_created_qualification).
RunnerHoldsTheLease == \A j \in Jobs \ loose : Alive(j) => lease = j

\* A cancel that waited for the completion is acknowledged only when the
\* container is gone, or left to itself as above; one that looked before the
\* request registered may be acknowledged earlier, and then the owner of the
\* container has the cancelled token (cancel, cancel_operation, dispatch).
AcknowledgedCancelStops ==
  \A j \in Jobs \ loose :
    canceller[j].at = "acknowledged" /\ Alive(j) =>
      ~canceller[j].found /\ j \in cancelled

\* An operation that is recorded cancelled has no container, as
\* docs/reference/spark.md says of qualification jobs: "terminal cancellation
\* is committed only after exact-container cleanup is acknowledged".
CancelledAfterCleanup == \A j \in Jobs : row[j] = "cancelled" => ~Alive(j)

\* What lease and cancellation promise of a running qualification.
RunnerIsContained == RunnerHoldsTheLease /\ AcknowledgedCancelStops
=============================================================================
