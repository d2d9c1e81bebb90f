---------------------------- MODULE LaunchTokens ----------------------------
(***************************************************************************)
(* The credentials of a launch (launch.rs): the workstation's inference    *)
(* token, which launches share through a private file and the launch       *)
(* state, and the session a launch opens at the agent for its own child    *)
(* (sessions.rs).  Launches hold the state lock until the state is         *)
(* written and overlap after that.  A call or its answer can be lost, a    *)
(* slow session request can reach the agent after the launch gave up on    *)
(* it, an administrator revokes tokens, and a launch is killed anywhere.   *)
(***************************************************************************)
EXTENDS Integers

CONSTANTS
  Launches,
  MaxIssued    \* tokens issued by the agent

ASSUME LaunchAssumption == MaxIssued \in Nat

Issue == 1 .. MaxIssued

VARIABLES
  issued,       \* tokens issued so far
  inForce,      \* issued tokens that are not revoked
  credential,   \* the token in the launch's private file, or 0
  savedId,      \* inference_token_id of the launch state, or 0
  run,          \* per launch, where it is and the token in its hands
  session,      \* per launch, its row in launch_sessions
  slow,         \* launches whose session request is still under way
  leaked,       \* issued tokens whose secret never reached the file
  cut           \* launches that were killed, or whose session call was lost or late

launchVars == <<issued, inForce, credential, savedId, run, session, slow, leaked, cut>>

RunAt(l, pc) == run[l].pc = pc
Step(l, pc, t) == run' = [run EXCEPT ![l] = [pc |-> pc, token |-> t]]

LaunchInit ==
  /\ issued = 0 /\ inForce = {} /\ credential = 0 /\ savedId = 0
  /\ run = [l \in Launches |-> [pc |-> "new", token |-> 0]]
  /\ session = [l \in Launches |-> "none"]
  /\ slow = {} /\ leaked = {} /\ cut = {}

\* The state lock is held from the first read to the write of the state.
Locked == \E l \in Launches : run[l].pc \in {"revoke", "create", "write", "save"}

-----------------------------------------------------------------------------
(* ensure_inference_token.                                                  *)

\* The token to replace, looked for in the launch state first.
OldTokenSavedFirst == IF savedId # 0 THEN savedId ELSE credential

\* The token to replace: the one in the file, which a launch that was killed
\* can have left ahead of the state.
OldToken == IF credential # 0 THEN credential ELSE savedId

\* The token of the file is used if the state names it and it is in force.
BeginLaunch(l) ==
  /\ RunAt(l, "new") /\ ~Locked
  /\ IF credential # 0 /\ credential = savedId /\ credential \in inForce
     THEN Step(l, "save", credential)
     ELSE Step(l, IF OldToken # 0 THEN "revoke" ELSE "create", OldToken)
  /\ UNCHANGED <<issued, inForce, credential, savedId, session, slow, leaked, cut>>

\* Every answer but success ends the launch; the revocation may have happened.
RevokeOld(l) ==
  /\ RunAt(l, "revoke")
  /\ \/ inForce' = inForce \ {run[l].token} /\ (Step(l, "create", 0) \/ Step(l, "over", 0))
     \/ Step(l, "over", 0) /\ UNCHANGED inForce
  /\ UNCHANGED <<issued, credential, savedId, session, slow, leaked, cut>>

\* mutation_json repeats a call whose answer was lost with the same key, and
\* the agent answers the repeat without the secret: the launch fails.
CreateToken(l) ==
  /\ RunAt(l, "create")
  /\ \/ /\ issued < MaxIssued
        /\ issued' = issued + 1
        /\ inForce' = inForce \cup {issued'}
        /\ \/ Step(l, "write", issued') /\ UNCHANGED leaked
           \/ Step(l, "over", 0) /\ leaked' = leaked \cup {issued'}
     \/ Step(l, "over", 0) /\ UNCHANGED <<issued, inForce, leaked>>
  /\ UNCHANGED <<credential, savedId, session, slow, cut>>

WriteCredential(l) ==
  /\ RunAt(l, "write")
  /\ credential' = run[l].token
  /\ Step(l, "save", run[l].token)
  /\ UNCHANGED <<issued, inForce, savedId, session, slow, leaked, cut>>

\* configure_integration can refuse; otherwise the state is written and the
\* lock released.
SaveState(l) ==
  /\ RunAt(l, "save")
  /\ \/ savedId' = run[l].token /\ Step(l, "session", run[l].token)
     \/ Step(l, "over", 0) /\ UNCHANGED savedId
  /\ UNCHANGED <<issued, inForce, credential, session, slow, leaked, cut>>

-----------------------------------------------------------------------------
(* The session.                                                             *)

\* create_launch_session: an agent without sessions, a session with its
\* secret, or no usable answer within five seconds, with the request done,
\* refused or still under way.
CreateSession(l) ==
  /\ RunAt(l, "session")
  /\ \/ Step(l, "child", 0) /\ UNCHANGED <<session, slow>>
     \/ /\ session' = [session EXCEPT ![l] = "open"] /\ UNCHANGED slow
        /\ Step(l, "metered", 0) \/ Step(l, "recover", 0)
     \/ /\ UNCHANGED session
        /\ slow' \in {slow, slow \cup {l}}
        /\ Step(l, "recover", 0)
  /\ UNCHANGED <<issued, inForce, credential, savedId, leaked, cut>>

\* The slow request reaches the agent.
SessionArrives(l) ==
  /\ l \in slow /\ slow' = slow \ {l}
  /\ session' = [session EXCEPT ![l] = "open"]
  /\ cut' = IF RunAt(l, "recover") THEN cut ELSE cut \cup {l}
  /\ UNCHANGED <<issued, inForce, credential, savedId, run, leaked>>

\* finish_session at the agent: no effect on a session that is not there.
FinishedAt(l) == IF session[l] = "open" THEN "finished" ELSE session[l]

\* A launch that goes on without its session and leaves it.
RecoverSessionLeaves(l) ==
  /\ RunAt(l, "recover")
  /\ Step(l, "child", 0)
  /\ UNCHANGED <<issued, inForce, credential, savedId, session, slow, leaked, cut>>

\* "Creation may have committed before its response was lost": the session is
\* finished, and the child gets the shared token.
RecoverSession(l) ==
  /\ RunAt(l, "recover")
  /\ \/ session' = [session EXCEPT ![l] = FinishedAt(l)] /\ UNCHANGED cut
     \/ UNCHANGED session /\ cut' = cut \cup {l}
  /\ Step(l, "child", 0)
  /\ UNCHANGED <<issued, inForce, credential, savedId, slow, leaked>>

\* The child exits; a metered launch finishes its session, once.
ChildExits(l) ==
  /\ run[l].pc \in {"child", "metered"}
  /\ \/ RunAt(l, "child") /\ UNCHANGED <<session, cut>>
     \/ RunAt(l, "metered") /\ session' = [session EXCEPT ![l] = FinishedAt(l)] /\ UNCHANGED cut
     \/ RunAt(l, "metered") /\ cut' = cut \cup {l} /\ UNCHANGED session
  /\ Step(l, "over", 0)
  /\ UNCHANGED <<issued, inForce, credential, savedId, slow, leaked>>

\* The launch is killed, with a token in its hands perhaps.
LaunchKilled(l) ==
  /\ run[l].pc \notin {"new", "over"}
  /\ Step(l, "over", 0)
  /\ cut' = cut \cup {l}
  /\ leaked' = IF RunAt(l, "write") THEN leaked \cup {run[l].token} ELSE leaked
  /\ UNCHANGED <<issued, inForce, credential, savedId, session, slow>>

AdminRevokes ==
  /\ \E t \in inForce : inForce' = inForce \ {t}
  /\ UNCHANGED <<issued, credential, savedId, run, session, slow, leaked, cut>>

\* The user deletes the private file; the state still names the token, unless
\* the launch that wrote the file was killed before it wrote the state.
UserForgets ==
  /\ credential # 0 /\ credential' = 0 /\ ~Locked
  /\ leaked' = leaked \cup ({credential} \ {savedId})
  /\ UNCHANGED <<issued, inForce, savedId, run, session, slow, cut>>

LaunchNext ==
  \/ \E l \in Launches :
       \/ BeginLaunch(l) \/ RevokeOld(l) \/ CreateToken(l) \/ WriteCredential(l)
       \/ SaveState(l) \/ CreateSession(l) \/ SessionArrives(l) \/ RecoverSession(l)
       \/ ChildExits(l) \/ LaunchKilled(l)
  \/ AdminRevokes \/ UserForgets

LaunchSpec == LaunchInit /\ [][LaunchNext]_launchVars

-----------------------------------------------------------------------------
\* Launch tokens have no expiry and the agent holds 1,024, so none may be left
\* behind: one that is in force is the token of the private file or of the
\* state, or in the hands of the launch that was just issued it, or its secret
\* was lost between the agent and the file (ensure_inference_token).
LaunchTokensAreAccounted ==
  \A t \in inForce :
    \/ t \in {credential, savedId} \cup leaked
    \/ \E l \in Launches : RunAt(l, "write") /\ run[l].token = t

\* A session is open after its launch only if the launch was killed, lost the
\* call that finishes it, or had given up on a request that came through later
\* (run, create_launch_session, finish_launch_session).
OpenSessionIsExplained ==
  \A l \in Launches : session[l] = "open" /\ RunAt(l, "over") => l \in cut

\* What a launch leaves at the agent.
LaunchLeavesNothing == LaunchTokensAreAccounted /\ OpenSessionIsExplained
=============================================================================
