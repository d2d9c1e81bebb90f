------------------------- MODULE WorkstationProofs --------------------------
(***************************************************************************)
(* What a workstation holds of the system: the launch tokens of a coding   *)
(* session, the client configuration files it generates, and the pin of the*)
(* certificates a rotation replaces.  For any numbers of launches, files,  *)
(* versions and rotations.                                                 *)
(***************************************************************************)
EXTENDS LaunchTokens, GeneratedFiles, Certificates, TLAPS

-----------------------------------------------------------------------------
(* Launch tokens.                                                           *)

LockedPlaces == {"revoke", "create", "write", "save"}
RunPlaces == LockedPlaces \union {"new", "session", "recover", "metered", "child", "over"}

LaunchTypeOK ==
  /\ issued \in Nat /\ inForce \subseteq Nat /\ credential \in Nat /\ savedId \in Nat
  /\ run \in [Launches -> [pc: RunPlaces, token: Nat]]
  /\ session \in [Launches -> {"none", "open", "finished"}]

\* What is in force, in a file or in the hands of a launch was issued.
TokensWereIssued ==
  /\ \A t \in inForce : 1 <= t /\ t <= issued
  /\ credential <= issued /\ savedId <= issued
  /\ \A l \in Launches : run[l].token <= issued

\* The state lock excludes.
LockExcludes ==
  \A l, m \in Launches : run[l].pc \in LockedPlaces /\ run[m].pc \in LockedPlaces => l = m

\* What the holder of the lock knows of the token it replaces and of the one
\* it is about to save.
HolderKnows ==
  \A l \in Launches :
    /\ RunAt(l, "revoke") => run[l].token = OldToken
    /\ run[l].pc \in {"create", "write"} => OldToken \notin inForce
    /\ RunAt(l, "write") => run[l].token # 0
    /\ RunAt(l, "save") => run[l].token = credential /\ credential # 0

\* A saved token in force is that of the file, as long as there is a file.
SavedIsInFile == savedId \in inForce => credential \in {0, savedId}

\* Who accounts for the session of a launch.
SessionIsExplained ==
  \A l \in Launches :
    /\ run[l].pc \in LockedPlaces \union {"new", "session"} => session[l] = "none" /\ l \notin slow
    /\ session[l] = "open" /\ run[l].pc \in {"child", "over"} => l \in cut

LaunchInv ==
  /\ LaunchTypeOK /\ TokensWereIssued /\ LockExcludes /\ HolderKnows /\ SavedIsInFile
  /\ LaunchTokensAreAccounted /\ SessionIsExplained

-----------------------------------------------------------------------------
(* Where a launch stands after a step (Step).                               *)
LEMMA StepMoves ==
  ASSUME LaunchTypeOK, NEW l \in Launches, NEW pc \in RunPlaces, NEW t \in Nat, Step(l, pc, t)
  PROVE  /\ run' \in [Launches -> [pc: RunPlaces, token: Nat]]
         /\ run'[l].pc = pc /\ run'[l].token = t
         /\ \A m \in Launches \ {l} : run'[m] = run[m]
  BY Zenon DEF LaunchTypeOK, Step

(* Nobody has launched yet.                                                 *)
LEMMA LaunchInvInit == LaunchInit => LaunchInv
  BY SMT, SMTT(30) DEF LaunchInit, LaunchInv, LaunchTypeOK, TokensWereIssued, LockExcludes, HolderKnows,
         SavedIsInFile, LaunchTokensAreAccounted, SessionIsExplained, RunAt,
         RunPlaces, LockedPlaces

(* A launch that takes the lock finds nobody else inside, and no token in   *)
(* anybody's hands (BeginLaunch).                                            *)
LEMMA BeginKeepsInv ==
  ASSUME LaunchInv, NEW l \in Launches, BeginLaunch(l)
  PROVE  LaunchInv'
<1> USE DEF LaunchInv
<1>1. PICK pc \in LockedPlaces, t \in Nat :
        /\ Step(l, pc, t) /\ t \in {credential, savedId} /\ pc # "write"
        /\ pc = "revoke" => t = OldToken
        /\ pc = "create" => OldToken = 0
        /\ pc = "save" => t = credential /\ credential # 0
  BY Zenon DEF BeginLaunch, OldToken, LaunchTypeOK, LockedPlaces
<1>2. /\ UNCHANGED <<issued, inForce, credential, savedId, session, slow, leaked, cut>>
      /\ run[l].pc = "new" /\ \A m \in Launches : run[m].pc \notin LockedPlaces
  BY Zenon DEF BeginLaunch, RunAt, Locked, LockedPlaces
<1>3. /\ run' \in [Launches -> [pc: RunPlaces, token: Nat]]
      /\ run'[l].pc = pc /\ run'[l].token = t
      /\ \A m \in Launches \ {l} : run'[m] = run[m]
  BY <1>1, StepMoves, Zenon DEF RunPlaces
<1>4. LaunchTypeOK' /\ TokensWereIssued' /\ LockExcludes' /\ SavedIsInFile'
  BY <1>1, <1>2, <1>3, ZenonT(40) DEF LaunchTypeOK, TokensWereIssued, LockExcludes, SavedIsInFile
<1>5. HolderKnows'
  BY <1>1, <1>2, <1>3, SMT, SMTT(30) DEF HolderKnows, RunAt, OldToken, TokensWereIssued, LockedPlaces
<1>6. LaunchTokensAreAccounted'
  BY <1>2, Zenon DEF LaunchTokensAreAccounted, RunAt, LockedPlaces
<1>7. SessionIsExplained'
  BY <1>1, <1>2, <1>3, Zenon DEF SessionIsExplained, LockedPlaces
<1> QED
  BY <1>4, <1>5, <1>6, <1>7, Zenon

(* The holder of the lock revokes the token it replaces (RevokeOld).        *)
LEMMA RevokeKeepsInv ==
  ASSUME LaunchInv, NEW l \in Launches, RevokeOld(l)
  PROVE  LaunchInv'
<1> USE DEF LaunchInv
<1>1. PICK pc \in {"create", "over"} :
        /\ Step(l, pc, 0) /\ run[l].pc = "revoke" /\ inForce' \subseteq inForce
        /\ pc = "create" => run[l].token \notin inForce'
  BY Zenon DEF RevokeOld, RunAt
<1>2. UNCHANGED <<issued, credential, savedId, session, slow, leaked, cut>>
  BY Zenon DEF RevokeOld
<1>3. /\ run' \in [Launches -> [pc: RunPlaces, token: Nat]]
      /\ run'[l].pc = pc /\ run'[l].token = 0
      /\ \A m \in Launches \ {l} : run'[m] = run[m]
  BY <1>1, StepMoves, Zenon DEF RunPlaces, LockedPlaces
<1>4. LaunchTypeOK' /\ TokensWereIssued' /\ LockExcludes' /\ SavedIsInFile'
  BY <1>1, <1>2, <1>3, SMT, SMTT(30)
     DEF LaunchTypeOK, TokensWereIssued, LockExcludes, SavedIsInFile, LockedPlaces
<1>5. HolderKnows'
  BY <1>1, <1>2, <1>3, ZenonT(40) DEF HolderKnows, RunAt, OldToken
<1>6. LaunchTokensAreAccounted'
  BY <1>1, <1>2, <1>3, SMT, SMTT(30) DEF LaunchTokensAreAccounted, RunAt
<1>7. SessionIsExplained'
  BY <1>1, <1>2, <1>3, Zenon DEF SessionIsExplained, LockedPlaces
<1> QED
  BY <1>4, <1>5, <1>6, <1>7, Zenon

(* A new token is in the hands of the holder, or leaked (CreateToken).      *)
LEMMA CreateKeepsInv ==
  ASSUME LaunchInv, NEW l \in Launches, CreateToken(l)
  PROVE  LaunchInv'
<1> USE DEF LaunchInv
<1>1. PICK pc \in {"write", "over"}, t \in Nat :
        /\ Step(l, pc, t) /\ run[l].pc = "create"
        /\ \/ /\ issued' = issued + 1 /\ inForce' = inForce \union {issued'}
              /\ \/ pc = "write" /\ t = issued' /\ leaked' = leaked
                 \/ pc = "over" /\ t = 0 /\ leaked' = leaked \union {issued'}
           \/ pc = "over" /\ t = 0 /\ UNCHANGED <<issued, inForce, leaked>>
  BY SMT, SMTT(30) DEF CreateToken, RunAt, LaunchTypeOK
<1>2. UNCHANGED <<credential, savedId, session, slow, cut>>
  BY Zenon DEF CreateToken
<1>3. /\ run' \in [Launches -> [pc: RunPlaces, token: Nat]]
      /\ run'[l].pc = pc /\ run'[l].token = t
      /\ \A m \in Launches \ {l} : run'[m] = run[m]
  BY <1>1, StepMoves, Zenon DEF RunPlaces, LockedPlaces
<1>4. LaunchTypeOK' /\ TokensWereIssued'
  <2>1. issued \in Nat /\ issued' \in Nat /\ issued <= issued' /\ t <= issued'
    BY <1>1, SMT, SMTT(30) DEF LaunchTypeOK
  <2>2. \A u \in inForce' : u \in inForce \/ (u = issued' /\ issued' = issued + 1)
    BY <1>1, Zenon
  <2>3. \A u \in inForce' : u \in Nat /\ 1 <= u /\ u <= issued'
    <3> SUFFICES ASSUME NEW u \in inForce' PROVE u \in Nat /\ 1 <= u /\ u <= issued'
      BY Zenon
    <3>1. CASE u \in inForce
      BY <3>1, <2>1, SMT, SMTT(30) DEF LaunchTypeOK, TokensWereIssued
    <3>2. CASE u = issued' /\ issued' = issued + 1
      BY <3>2, <2>1, SMT, SMTT(30)
    <3> QED
      BY <3>1, <3>2, <2>2, Zenon
  <2>4. LaunchTypeOK'
    <3>1. inForce' \subseteq Nat
      BY <2>3, Zenon
    <3> QED
      BY <1>2, <1>3, <2>1, <3>1, Zenon DEF LaunchTypeOK
  <2>5. credential' <= issued' /\ savedId' <= issued'
    BY <1>2, <2>1, SMT, SMTT(30) DEF LaunchTypeOK, TokensWereIssued
  <2>6. \A m \in Launches : run'[m].token <= issued'
    BY <1>3, <2>1, SMT, SMTT(30) DEF LaunchTypeOK, TokensWereIssued
  <2> QED
    BY <2>4, <2>3, <2>5, <2>6, Zenon DEF TokensWereIssued
<1>5. LockExcludes' /\ SessionIsExplained'
  BY <1>1, <1>2, <1>3, SMT, SMTT(30) DEF LockExcludes, SessionIsExplained, LockedPlaces
<1>6. SavedIsInFile'
  BY <1>1, <1>2, SMT, SMTT(30) DEF SavedIsInFile, TokensWereIssued, LaunchTypeOK
<1>7. HolderKnows'
  <2>1. OldToken' = OldToken /\ OldToken <= issued /\ OldToken \in Nat
    BY <1>2, Zenon DEF OldToken, TokensWereIssued, LaunchTypeOK
  <2>2. OldToken \notin inForce /\ OldToken \notin inForce'
    BY <1>1, <2>1, SMT, SMTT(30) DEF HolderKnows, LaunchTypeOK
  <2>3. \A m \in Launches \ {l} : run[m].pc \notin LockedPlaces
    BY <1>1, Zenon DEF LockExcludes, LockedPlaces
  <2> QED
    BY <1>1, <1>3, <2>1, <2>2, <2>3, SMT, SMTT(30) DEF HolderKnows, RunAt, LockedPlaces, LaunchTypeOK
<1>8. LaunchTokensAreAccounted'
  BY <1>1, <1>2, <1>3, SMT, SMTT(30) DEF LaunchTokensAreAccounted, RunAt
<1> QED
  BY <1>4, <1>5, <1>6, <1>7, <1>8, Zenon

(* The file gets the new token; the one it replaces is revoked, and so is   *)
(* the saved one if it was in force (WriteCredential).                       *)
LEMMA WriteKeepsInv ==
  ASSUME LaunchInv, NEW l \in Launches, WriteCredential(l)
  PROVE  LaunchInv'
<1> USE DEF LaunchInv
<1>1. /\ Step(l, "save", run[l].token) /\ run[l].pc = "write" /\ credential' = run[l].token
      /\ UNCHANGED <<issued, inForce, savedId, session, slow, leaked, cut>>
  BY Zenon DEF WriteCredential, RunAt
<1>2. run[l].token \in Nat /\ run[l].token # 0 /\ OldToken \notin inForce
  BY <1>1, Zenon DEF LaunchTypeOK, HolderKnows, RunAt
<1>3. /\ run' \in [Launches -> [pc: RunPlaces, token: Nat]]
      /\ run'[l].pc = "save" /\ run'[l].token = run[l].token
      /\ \A m \in Launches \ {l} : run'[m] = run[m]
  BY <1>1, <1>2, StepMoves, Zenon DEF RunPlaces, LockedPlaces
<1>4. credential \notin inForce /\ savedId \notin inForce
  BY <1>2, SMT, SMTT(30) DEF OldToken, SavedIsInFile, TokensWereIssued
<1>5. \A m \in Launches \ {l} : run[m].pc \notin LockedPlaces
  BY <1>1, Zenon DEF LockExcludes, LockedPlaces
<1>6. LaunchTypeOK' /\ TokensWereIssued'
  BY <1>1, <1>2, <1>3, Zenon DEF LaunchTypeOK, TokensWereIssued
<1>7. LockExcludes' /\ SessionIsExplained'
  BY <1>1, <1>3, SMT, SMTT(30) DEF LockExcludes, SessionIsExplained, LockedPlaces
<1>8. SavedIsInFile' /\ HolderKnows'
  BY <1>1, <1>2, <1>3, <1>4, <1>5, SMT, SMTT(30) DEF SavedIsInFile, HolderKnows, RunAt, LockedPlaces
<1>9. LaunchTokensAreAccounted'
  BY <1>1, <1>3, <1>4, <1>5, ZenonT(40) DEF LaunchTokensAreAccounted, RunAt, LockedPlaces
<1> QED
  BY <1>6, <1>7, <1>8, <1>9, Zenon

(* The state gets the token of the file, and the lock is free (SaveState).  *)
LEMMA SaveKeepsInv ==
  ASSUME LaunchInv, NEW l \in Launches, SaveState(l)
  PROVE  LaunchInv'
<1> USE DEF LaunchInv
<1>1. run[l].pc = "save" /\ run[l].token = credential /\ credential # 0
  BY Zenon DEF SaveState, RunAt, HolderKnows
<1>2. PICK pc \in {"session", "over"}, t \in {0, credential} :
        Step(l, pc, t) /\ savedId' \in {savedId, credential}
  BY <1>1, Zenon DEF SaveState
<1>3. UNCHANGED <<issued, inForce, credential, session, slow, leaked, cut>>
  BY Zenon DEF SaveState
<1>4. /\ run' \in [Launches -> [pc: RunPlaces, token: Nat]]
      /\ run'[l].pc = pc /\ run'[l].token = t
      /\ \A m \in Launches \ {l} : run'[m] = run[m]
  BY <1>2, StepMoves, SMT, SMTT(30) DEF RunPlaces, LockedPlaces, LaunchTypeOK
<1>5. \A m \in Launches \ {l} : run[m].pc \notin LockedPlaces
  BY <1>1, Zenon DEF LockExcludes, LockedPlaces
<1>6. LaunchTypeOK' /\ TokensWereIssued'
  BY <1>2, <1>3, <1>4, SMT, SMTT(30) DEF LaunchTypeOK, TokensWereIssued
<1>7. LockExcludes' /\ SessionIsExplained'
  BY <1>1, <1>3, <1>4, ZenonT(40) DEF LockExcludes, SessionIsExplained, LockedPlaces
<1>8. SavedIsInFile' /\ HolderKnows'
  BY <1>2, <1>3, <1>4, <1>5, Zenon DEF SavedIsInFile, HolderKnows, RunAt, LockedPlaces
<1>9. LaunchTokensAreAccounted'
  BY <1>1, <1>2, <1>3, <1>4, SMT, SMTT(30) DEF LaunchTokensAreAccounted, SavedIsInFile, RunAt
<1> QED
  BY <1>6, <1>7, <1>8, <1>9, Zenon

(* Sessions and children change no token (CreateSession, SessionArrives,    *)
(* RecoverSession, ChildExits).                                              *)
LEMMA SessionKeepsInv ==
  ASSUME LaunchInv, NEW l \in Launches,
         CreateSession(l) \/ SessionArrives(l) \/ RecoverSession(l) \/ ChildExits(l)
  PROVE  LaunchInv'
<1> USE DEF LaunchInv
<1>1. UNCHANGED <<issued, inForce, credential, savedId, leaked>>
  BY Zenon DEF CreateSession, SessionArrives, RecoverSession, ChildExits
<1>2. run[l].pc \notin LockedPlaces \union {"new"}
  BY Zenon  DEF CreateSession, SessionArrives, RecoverSession, ChildExits, RunAt, SessionIsExplained,
         LockedPlaces
<1>3. \/ run' = run
      \/ \E pc \in {"child", "metered", "recover", "over"} : Step(l, pc, 0)
  BY Zenon DEF CreateSession, SessionArrives, RecoverSession, ChildExits
<1>4. /\ run' \in [Launches -> [pc: RunPlaces, token: Nat]]
      /\ run'[l].pc \notin LockedPlaces \union {"new"} /\ run'[l].token \in {0, run[l].token}
      /\ \A m \in Launches \ {l} : run'[m] = run[m]
  BY <1>2, <1>3, StepMoves, Zenon DEF RunPlaces, LockedPlaces, LaunchTypeOK
<1>5. session' \in [Launches -> {"none", "open", "finished"}]
      /\ \A m \in Launches \ {l} : session'[m] = session[m]
  BY Zenon DEF CreateSession, SessionArrives, RecoverSession, ChildExits, FinishedAt, LaunchTypeOK
<1>6. LaunchTypeOK' /\ TokensWereIssued'
  BY <1>1, <1>4, <1>5, SMT, SMTT(30) DEF LaunchTypeOK, TokensWereIssued
<1>7. LockExcludes' /\ SavedIsInFile'
  BY <1>1, <1>4, Zenon DEF LockExcludes, SavedIsInFile
<1>8. HolderKnows'
  BY <1>1, <1>4, ZenonT(40) DEF HolderKnows, RunAt, OldToken, LockedPlaces
<1>9. LaunchTokensAreAccounted'
  BY <1>1, <1>2, <1>4, SMT, SMTT(30) DEF LaunchTokensAreAccounted, RunAt, LockedPlaces
<1>10. SessionIsExplained'
  <2>1. /\ cut \subseteq cut'
        /\ \A m \in Launches \ {l} : m \in slow' => m \in slow
    BY Zenon DEF CreateSession, SessionArrives, RecoverSession, ChildExits
  <2>2. ASSUME NEW m \in Launches, m # l
        PROVE  /\ run'[m].pc \in LockedPlaces \union {"new", "session"} =>
                    session'[m] = "none" /\ m \notin slow'
               /\ session'[m] = "open" /\ run'[m].pc \in {"child", "over"} => m \in cut'
    BY <1>4, <1>5, <2>1, <2>2, Zenon DEF SessionIsExplained
  <2>3. /\ run'[l].pc \in LockedPlaces \union {"new", "session"} =>
             session'[l] = "none" /\ l \notin slow'
        /\ session'[l] = "open" /\ run'[l].pc \in {"child", "over"} => l \in cut'
    <3>1. CASE CreateSession(l)
      <4>1. session[l] = "none" /\ run[l].pc = "session"
        BY <3>1, Zenon DEF CreateSession, RunAt, SessionIsExplained
      <4>2. \/ Step(l, "child", 0) /\ session' = session
            \/ Step(l, "metered", 0) \/ Step(l, "recover", 0)
        BY <3>1, Zenon DEF CreateSession
      <4>3. \/ run'[l].pc = "child" /\ session'[l] = "none"
            \/ run'[l].pc = "metered" \/ run'[l].pc = "recover"
        BY <4>1, <4>2, StepMoves, Zenon DEF RunPlaces, LockedPlaces
      <4> QED
        BY <4>3, Zenon DEF LockedPlaces
    <3>2. CASE SessionArrives(l)
      BY <3>2, Zenon DEF SessionArrives, RunAt, SessionIsExplained, LaunchTypeOK
    <3>3. CASE RecoverSession(l)
      <4>1. run'[l].pc = "child"
        BY <3>3, StepMoves, Zenon DEF RecoverSession, RunPlaces
      <4>2. session'[l] # "open" \/ l \in cut'
        BY <3>3, Zenon DEF RecoverSession, FinishedAt, LaunchTypeOK
      <4> QED
        BY <4>1, <4>2, Zenon DEF LockedPlaces
    <3>4. CASE ChildExits(l)
      <4>1. run'[l].pc = "over"
        BY <3>4, StepMoves, Zenon DEF ChildExits, RunPlaces
      <4>2. session'[l] # "open" \/ l \in cut'
        BY <3>4, Zenon DEF ChildExits, FinishedAt, LaunchTypeOK, RunAt, SessionIsExplained
      <4> QED
        BY <4>1, <4>2, Zenon DEF LockedPlaces
    <3> QED
      BY <3>1, <3>2, <3>3, <3>4, Zenon
  <2> QED
    BY <2>2, <2>3, Zenon DEF SessionIsExplained
<1> QED
  BY <1>6, <1>7, <1>8, <1>9, <1>10, Zenon

(* A launch that is killed loses the token in its hands, if any, and its    *)
(* session is explained (LaunchKilled).                                      *)
LEMMA KillKeepsInv ==
  ASSUME LaunchInv, NEW l \in Launches, LaunchKilled(l)
  PROVE  LaunchInv'
<1> USE DEF LaunchInv
<1>1. /\ Step(l, "over", 0) /\ cut' = cut \union {l} /\ leaked \subseteq leaked'
      /\ run[l].pc = "write" => run[l].token \in leaked'
      /\ UNCHANGED <<issued, inForce, credential, savedId, session, slow>>
  BY Zenon DEF LaunchKilled, RunAt
<1>2. /\ run' \in [Launches -> [pc: RunPlaces, token: Nat]]
      /\ run'[l].pc = "over" /\ run'[l].token = 0
      /\ \A m \in Launches \ {l} : run'[m] = run[m]
  BY <1>1, StepMoves, Zenon DEF RunPlaces
<1>3. LaunchTypeOK' /\ TokensWereIssued'
  BY <1>1, <1>2, SMT, SMTT(30) DEF LaunchTypeOK, TokensWereIssued
<1>4. LockExcludes' /\ SavedIsInFile' /\ SessionIsExplained'
  BY <1>1, <1>2, Zenon DEF LockExcludes, SavedIsInFile, SessionIsExplained, LockedPlaces
<1>5. HolderKnows'
  BY <1>1, <1>2, ZenonT(40) DEF HolderKnows, RunAt, OldToken
<1>6. LaunchTokensAreAccounted'
  BY <1>1, <1>2, SMT, SMTT(30) DEF LaunchTokensAreAccounted, RunAt
<1> QED
  BY <1>3, <1>4, <1>5, <1>6, Zenon

(* An administrator revokes a token at any time, and the user deletes the   *)
(* file while nobody holds the lock (AdminRevokes, UserForgets).             *)
LEMMA PeopleKeepInv ==
  ASSUME LaunchInv, AdminRevokes \/ UserForgets
  PROVE  LaunchInv'
<1> USE DEF LaunchInv
<1>1. CASE AdminRevokes
  <2>1. /\ inForce' \subseteq inForce
        /\ UNCHANGED <<issued, credential, savedId, run, session, slow, leaked, cut>>
    BY <1>1, Zenon DEF AdminRevokes
  <2> QED
    BY <2>1, Zenon DEF LaunchTypeOK, TokensWereIssued, LockExcludes, HolderKnows, SavedIsInFile,
       LaunchTokensAreAccounted, SessionIsExplained, RunAt, OldToken
<1>2. CASE UserForgets
  <2>1. /\ credential' = 0 /\ \A m \in Launches : run[m].pc \notin LockedPlaces
        /\ leaked' = leaked \union ({credential} \ {savedId})
        /\ UNCHANGED <<issued, inForce, savedId, run, session, slow, cut>>
    BY <1>2, Zenon DEF UserForgets, Locked, LockedPlaces
  <2>2. LaunchTypeOK' /\ TokensWereIssued' /\ LockExcludes' /\ SavedIsInFile' /\ SessionIsExplained'
    BY <2>1, SMT, SMTT(30) DEF LaunchTypeOK, TokensWereIssued, LockExcludes, SavedIsInFile, SessionIsExplained
  <2>3. HolderKnows' /\ LaunchTokensAreAccounted'
    BY <2>1, Zenon DEF HolderKnows, LaunchTokensAreAccounted, RunAt, LockedPlaces
  <2> QED
    BY <2>2, <2>3, Zenon
<1> QED
  BY <1>1, <1>2, Zenon

(* Every step of launches, agent and people keeps the invariant.            *)
LEMMA LaunchInvInductive == LaunchInv /\ [LaunchNext]_launchVars => LaunchInv'
<1> SUFFICES ASSUME LaunchInv, [LaunchNext]_launchVars PROVE LaunchInv'
  BY Zenon
<1>1. CASE UNCHANGED launchVars
  BY <1>1, ZenonT(40) DEF launchVars, LaunchInv, LaunchTypeOK, TokensWereIssued, LockExcludes, HolderKnows,
     SavedIsInFile, LaunchTokensAreAccounted, SessionIsExplained, RunAt, OldToken
<1> QED
  BY <1>1, BeginKeepsInv, RevokeKeepsInv, CreateKeepsInv, WriteKeepsInv, SaveKeepsInv,
     SessionKeepsInv, KillKeepsInv, PeopleKeepInv, Zenon DEF LaunchNext

(* However many launches overlap, are killed, lose answers or meet a user   *)
(* who deletes the file: every token in force is in the file, in the state, *)
(* in a launch's hands or was lost on its way to the file; and a session    *)
(* stays open only behind a launch that was cut off                          *)
(* (ensure_inference_token, create_launch_session, finish_launch_session).   *)
THEOREM LaunchAlwaysLeavesNothing == LaunchSpec => []LaunchLeavesNothing
<1>1. LaunchInv => LaunchLeavesNothing
  BY Zenon DEF LaunchInv, SessionIsExplained, LaunchLeavesNothing, OpenSessionIsExplained, RunAt
<1> QED
  BY <1>1, LaunchInvInit, LaunchInvInductive, PTL DEF LaunchSpec

-----------------------------------------------------------------------------
(* Generated files.                                                         *)

Contents == [version: Versions \union {"absent"}, extra: Nat, edit: Nat]
Editable == Files \union {"provider", "others"}

Publishers ==
  {Unlocked}
  \union [at: {"pending"}, version: Versions, pending: [Files -> SUBSET Contents]]
  \union [at: {"profile", "catalog", "committed", "published", "own"}, version: Versions]
  \union [at: {"remove"}, left: SUBSET Files]
  \union [at: {"ledger", "recheck", "checked"}, version: Versions, original: Contents \X Nat]

GeneratedTypes ==
  /\ file \in [Files -> Contents]
  /\ receipt \in [Files -> SUBSET Contents]
  /\ provider \in Contents /\ others \in Nat /\ ledger \subseteq Contents
  /\ publisher \in Publishers
  /\ writes \in Nat
  /\ lastEdit \in [Editable -> Nat] /\ \A e \in Editable : lastEdit[e] <= writes
  /\ calm \in BOOLEAN /\ died \in BOOLEAN

\* Nothing that is owned, or about to be, holds an edit of the user.
Unedited(S) == \A x \in S : x.edit = 0
CleanInv ==
  /\ file["catalog"].extra = 0
  /\ \A f \in Files : Unedited(receipt[f])
  /\ Unedited(ledger)
  /\ publisher.at = "pending" =>
       \A f \in Files : /\ Unedited(publisher.pending[f])
                        /\ Published(publisher.version) \in publisher.pending[f]
  /\ publisher.at \in {"ledger", "recheck", "checked"} => publisher.original[1].edit = 0

\* What is about to be replaced holds no edit that counts.
EditInv ==
  /\ \A f \in Files : Replacing(f) => lastEdit[f] = 0
  /\ publisher.at = "checked" =>
       lastEdit["provider"] = 0 /\ publisher.original[2] >= lastEdit["others"]

There(f) == file[f] # Absent /\ file[f].edit = 0
Plain(f) == There(f) /\ file[f].extra = 0
Base(f) == [file[f] EXCEPT !.extra = 0]

\* How far a publication or a removal has come.
WritingInv ==
  /\ publisher.at = "pending" =>
       \A f \in Files : Plain(f) \/ (calm /\ There(f)) => file[f] \in publisher.pending[f]
  /\ publisher.at \in {"profile", "catalog", "committed"} =>
       \A f \in Files : Published(publisher.version) \in receipt[f]
  /\ publisher.at \in {"catalog", "committed"} /\ There("profile") =>
       file["profile"].version = publisher.version
  /\ publisher.at = "committed" /\ There("catalog") =>
       file["catalog"].version = publisher.version
  /\ publisher.at = "remove" => \A f \in Files : f \notin publisher.left => file[f] = Absent

\* What is owned: always a file that is as it was published; a profile with
\* settings of the client, when no launch died or none of them is newer.
OwnedInv ==
  \A f \in Files :
    /\ Plain(f) => file[f] \in receipt[f]
    /\ ~died /\ publisher.at \notin {"profile", "catalog", "committed"} /\ There(f) =>
         Base(f) \in receipt[f]
    /\ calm /\ There(f) => StillOwned(f)

GeneratedInv ==
  GeneratedTypes /\ CleanInv /\ EditInv /\ WritingInv /\ OwnedInv /\ UserEditsSurvive

(* The contents that launches write.                                        *)
LEMMA PublishedContents ==
  /\ Absent \in Contents /\ Absent.edit = 0 /\ Absent.extra = 0 /\ Absent.version = "absent"
  /\ \A v \in Versions :
       /\ Published(v) \in Contents /\ Published(v) # Absent
       /\ Published(v).edit = 0 /\ Published(v).extra = 0 /\ Published(v).version = v
BY GeneratedAssumption, Zenon DEF Contents, Absent, Published

(* Two contents are one when their fields are.                              *)
LEMMA SameContent ==
  ASSUME NEW x \in Contents, NEW y \in Contents,
         x.version = y.version, x.extra = y.extra, x.edit = y.edit
  PROVE  x = y
BY SMT, SMTT(30) DEF Contents

(* A file without the client's settings keeps its version and its edit.     *)
LEMMA BaseContent ==
  ASSUME GeneratedTypes, NEW f \in Files
  PROVE  /\ Base(f) \in Contents /\ Base(f).edit = file[f].edit
         /\ Base(f).version = file[f].version /\ Base(f).extra = 0
         /\ file[f].extra = 0 => Base(f) = file[f]
BY Zenon  DEF GeneratedTypes, Contents, Base

(* Owned files hold no edit.                                                *)
LEMMA OwnedIsUnedited ==
  ASSUME GeneratedTypes, CleanInv, NEW f \in Files, StillOwned(f)
  PROVE  file[f].edit = 0
<1>1. file[f] \in receipt[f] \/ Base(f) \in receipt[f]
  BY Zenon  DEF StillOwned, Base
<1> QED
  BY <1>1, BaseContent, SMT, SMTT(30) DEF CleanInv, Unedited

(* A file with the base of which the receipt owns is owned.                 *)
LEMMA BaseIsOwned ==
  ASSUME GeneratedTypes, CleanInv, NEW f \in Files, Base(f) \in receipt[f]
  PROVE  StillOwned(f)
<1>1. CASE f = "profile"
  BY <1>1, Zenon DEF StillOwned, Base
<1>2. CASE f = "catalog"
  BY <1>2, BaseContent, Zenon DEF StillOwned, CleanInv
<1> QED
  BY <1>1, <1>2, Zenon DEF Files

(* A content in which nothing counts as an edit.                            *)
LEMMA UneditedHasNoEdit ==
  ASSUME GeneratedTypes, UserEditsSurvive
  PROVE  /\ \A f \in Files : file[f].edit = 0 => lastEdit[f] = 0
         /\ provider.edit = 0 => lastEdit["provider"] = 0
<1>1. \A e \in Editable : lastEdit[e] \in Nat
  BY Zenon DEF GeneratedTypes
<1>2. Files \subseteq Editable /\ "provider" \in Editable
  BY Zenon DEF Editable
<1> QED
  BY <1>1, <1>2, SMT, SMTT(30) DEF UserEditsSurvive

(* A step that leaves files and receipts alone, outside of a publication.   *)
LEMMA FilesAtRest ==
  ASSUME GeneratedInv, UNCHANGED <<file, receipt, calm>>,
         publisher'.at \notin {"pending", "profile", "catalog", "committed", "remove"},
         died' \/ (~died /\ publisher.at \notin {"profile", "catalog", "committed"})
  PROVE  WritingInv' /\ OwnedInv' /\ \A f \in Files : ~Replacing(f)'
<1>1. \A f \in Files : /\ Plain(f)' = Plain(f) /\ There(f)' = There(f)
                       /\ Base(f)' = Base(f) /\ StillOwned(f)' = StillOwned(f)
  BY Zenon  DEF Plain, There, Base, StillOwned
<1>2. OwnedInv'
  BY <1>1, Zenon DEF GeneratedInv, OwnedInv
<1>3. WritingInv' /\ \A f \in Files : ~Replacing(f)'
  BY Zenon DEF WritingInv, Replacing
<1> QED
  BY <1>2, <1>3, Zenon

(* The client saves a setting.                                              *)
LEMMA ClientKeepsFiles ==
  ASSUME GeneratedInv, ClientSaves
  PROVE  GeneratedInv'
<1>0. GeneratedTypes /\ writes' = writes + 1 /\ writes' \in Nat \ {0}
  BY SMT, SMTT(30) DEF GeneratedInv, GeneratedTypes, ClientSaves
<1>1. /\ file["profile"] \in Contents /\ file["profile"] # Absent /\ "profile" \in Files
      /\ file' = [file EXCEPT !["profile"].extra = writes'] /\ calm' = FALSE
      /\ UNCHANGED <<receipt, provider, others, ledger, publisher, lastEdit, died>>
  BY <1>0, Zenon DEF ClientSaves, GeneratedTypes, Files
<1>2. /\ file' \in [Files -> Contents] /\ file'["catalog"] = file["catalog"]
      /\ file'["profile"].extra # 0 /\ file'["profile"].edit = file["profile"].edit
      /\ file'["profile"].version = file["profile"].version
  BY <1>0, <1>1, Zenon DEF GeneratedTypes, Contents, Files
<1>3. GeneratedTypes'
  <2>1. \A e \in Editable : lastEdit[e] <= writes'
    BY <1>0, SMT, SMTT(30) DEF GeneratedTypes
  <2> QED
    BY <1>0, <1>1, <1>2, <2>1, Zenon DEF GeneratedTypes
<1>4. Base("profile")' = Base("profile")
  <2>1. file'["profile"] = [file["profile"] EXCEPT !.extra = writes']
    BY <1>0, <1>1, Zenon DEF GeneratedTypes
  <2> QED
    BY <1>1, <2>1, ZenonT(40) DEF Base, Contents
<1>5. /\ There("catalog")' = There("catalog") /\ Plain("catalog")' = Plain("catalog")
      /\ Base("catalog")' = Base("catalog")
      /\ There("profile")' => There("profile")
      /\ ~Plain("profile")'
  BY <1>1, <1>2, Zenon DEF There, Plain, Base
<1>6. CleanInv' /\ EditInv'
  BY <1>1, <1>2, Zenon DEF GeneratedInv, CleanInv, EditInv, Replacing
<1>7. WritingInv'
  <2>1. publisher.at = "remove" => \A f \in Files : f \notin publisher.left => file'[f] = Absent
    BY <1>1, <1>2, Zenon DEF GeneratedInv, WritingInv, Files
  <2> QED
    BY <1>1, <1>2, <1>5, <2>1, Zenon DEF GeneratedInv, WritingInv, Files
<1>8. OwnedInv'
  BY <1>1, <1>2, <1>4, <1>5, ZenonT(40) DEF GeneratedInv, OwnedInv, Files
<1>9. UserEditsSurvive'
  BY <1>1, <1>2, Zenon DEF GeneratedInv, UserEditsSurvive, Files
<1> QED
  BY <1>3, <1>6, <1>7, <1>8, <1>9, Zenon DEF GeneratedInv

(* The user edits a generated file, or moves an edited one aside.           *)
LEMMA UserKeepsFiles ==
  ASSUME GeneratedInv, NEW f \in Files, UserEdits(f) \/ UserMovesAside(f)
  PROVE  GeneratedInv'
<1>0. GeneratedTypes /\ file[f] \in Contents /\ f \in Editable
  BY Zenon DEF GeneratedInv, GeneratedTypes, Editable
<1>1. /\ writes' \in Nat /\ writes <= writes'
      /\ file' \in [Files -> Contents] /\ lastEdit' \in [Editable -> Nat]
      /\ \A e \in Editable : lastEdit'[e] <= writes'
      /\ \A g \in Files \ {f} : file'[g] = file[g]
      /\ \A e \in Editable \ {f} : lastEdit'[e] = lastEdit[e]
      /\ \/ file'[f] = Absent /\ lastEdit'[f] = 0
         \/ /\ file'[f].edit = writes' /\ file'[f].edit # 0 /\ file'[f].extra = file[f].extra
            /\ lastEdit'[f] = lastEdit[f] \/ ~Replacing(f)
            /\ file[f] # Absent
      /\ UNCHANGED <<receipt, provider, others, ledger, publisher, died>>
      /\ calm' \in BOOLEAN /\ (calm' => calm)
  <2>1. CASE UserEdits(f)
    <3>1. writes' = writes + 1 /\ writes' \in Nat \ {0} /\ file' = [file EXCEPT ![f].edit = writes']
      BY <1>0, <2>1, SMT, SMTT(30) DEF UserEdits, GeneratedTypes
    <3>2. /\ file' \in [Files -> Contents] /\ file'[f].edit = writes'
          /\ file'[f].extra = file[f].extra /\ \A g \in Files \ {f} : file'[g] = file[g]
      BY <1>0, <3>1, Zenon DEF GeneratedTypes, Contents
    <3>3. lastEdit' = IF Replacing(f) THEN lastEdit ELSE [lastEdit EXCEPT ![f] = writes']
      BY <2>1, Zenon DEF UserEdits
    <3>4. /\ lastEdit' \in [Editable -> Nat] /\ \A e \in Editable : lastEdit'[e] <= writes'
          /\ \A e \in Editable \ {f} : lastEdit'[e] = lastEdit[e]
          /\ lastEdit'[f] = lastEdit[f] \/ ~Replacing(f)
      BY <1>0, <3>1, <3>3, SMT, SMTT(30) DEF GeneratedTypes
    <3>5. /\ UNCHANGED <<receipt, provider, others, ledger, publisher, died>> /\ calm' = FALSE
          /\ file[f] # Absent /\ writes <= writes'
      BY <1>0, <2>1, <3>1, SMT, SMTT(30) DEF UserEdits, GeneratedTypes
    <3> QED
      BY <3>1, <3>2, <3>4, <3>5, Zenon
  <2>2. CASE UserMovesAside(f)
    <3>1. /\ file' = [file EXCEPT ![f] = Absent] /\ lastEdit' = [lastEdit EXCEPT ![f] = 0]
          /\ UNCHANGED <<receipt, provider, others, ledger, publisher, writes, calm, died>>
      BY <2>2, Zenon DEF UserMovesAside
    <3> QED
      BY <1>0, <3>1, PublishedContents, SMT, SMTT(30) DEF GeneratedTypes
  <2> QED
    BY <2>1, <2>2, Zenon
<1>2. GeneratedTypes'
  BY <1>0, <1>1, Zenon DEF GeneratedTypes
<1>3. /\ ~There(f)'
      /\ \A g \in Files \ {f} : /\ There(g)' = There(g) /\ Plain(g)' = Plain(g)
                                /\ Base(g)' = Base(g) /\ StillOwned(g)' = StillOwned(g)
  BY <1>1, Zenon DEF There, Plain, Base, StillOwned
<1>4. ~Plain(f)'
  BY <1>3, Zenon DEF Plain
<1>5. CleanInv'
  <2>1. file'["catalog"].extra = 0
    BY <1>1, PublishedContents, Zenon DEF GeneratedInv, CleanInv, Files
  <2> QED
    BY <1>1, <2>1, Zenon DEF GeneratedInv, CleanInv
<1>6. EditInv'
  <2>1. \A g \in Files : Replacing(g)' = Replacing(g) /\ g \in Editable
    BY <1>1, Zenon DEF Replacing, Editable
  <2>2. {"provider", "others"} \subseteq Editable \ {f}
    BY Zenon  DEF Editable, Files
  <2> QED
    BY <1>1, <2>1, <2>2, Zenon DEF GeneratedInv, EditInv
<1>7. WritingInv'
  <2>1. publisher.at = "remove" => \A g \in Files : g \notin publisher.left => file'[g] = Absent
    BY <1>1, Zenon DEF GeneratedInv, WritingInv
  <2>2. publisher.at = "pending" =>
          \A g \in Files : Plain(g)' \/ (calm' /\ There(g)') => file'[g] \in publisher.pending[g]
    <3>1. publisher.at = "pending" =>
            \A g \in Files : Plain(g) \/ (calm /\ There(g)) => file[g] \in publisher.pending[g]
      BY Zenon  DEF GeneratedInv, WritingInv
    <3>2. /\ \A g \in Files \ {f} : file'[g] = file[g]
          /\ calm' => calm
      BY <1>1, Zenon
    <3> QED
      BY <1>3, <1>4, <3>1, <3>2, Zenon
  <2>3. \A g \in Files : There(g)' => There(g) /\ file'[g] = file[g]
    BY <1>1, <1>3, Zenon
  <2> QED
    BY <1>1, <2>1, <2>2, <2>3, Zenon DEF GeneratedInv, WritingInv, Files
<1>8. OwnedInv'
  BY <1>1, <1>3, <1>4, ZenonT(40) DEF GeneratedInv, OwnedInv
<1>9. UserEditsSurvive'
  <2>1. \A g \in Files : lastEdit'[g] # 0 => file'[g].edit >= lastEdit'[g]
    <3>1. \A g \in Files \ {f} : lastEdit'[g] = lastEdit[g] /\ file'[g] = file[g]
      BY <1>1, Zenon DEF Editable
    <3>2. \/ lastEdit'[f] = 0
          \/ file'[f].edit = writes' /\ lastEdit'[f] <= writes'
      BY <1>0, <1>1, Zenon
    <3>3. lastEdit'[f] \in Nat /\ writes' \in Nat
      BY <1>0, <1>1, Zenon
    <3>4. \A g \in Files : lastEdit[g] # 0 => file[g].edit >= lastEdit[g]
      BY Zenon  DEF GeneratedInv, UserEditsSurvive
    <3>5. lastEdit'[f] # 0 => file'[f].edit >= lastEdit'[f]
      BY <3>2, <3>3, Zenon
    <3> QED
      BY <3>1, <3>4, <3>5, Zenon
  <2>2. {"provider", "others"} \subseteq Editable \ {f}
    BY Zenon DEF Editable, Files
  <2> QED
    BY <1>1, <2>1, <2>2, Zenon DEF GeneratedInv, UserEditsSurvive
<1> QED
  BY <1>2, <1>5, <1>6, <1>7, <1>8, <1>9, Zenon DEF GeneratedInv

(* The user edits config.toml.                                              *)
LEMMA ConfigEditKeepsFiles ==
  ASSUME GeneratedInv, UserEditsConfig
  PROVE  GeneratedInv'
<1>0. GeneratedTypes /\ {"provider", "others"} \subseteq Editable \ Files
  BY Zenon DEF GeneratedInv, Editable, Files
<1>1. /\ writes' = writes + 1 /\ writes' \in Nat \ {0} /\ writes <= writes'
      /\ UNCHANGED <<file, receipt, ledger, publisher, died>> /\ calm' = FALSE
  BY <1>0, SMT, SMTT(30) DEF UserEditsConfig, GeneratedTypes
<1>2. /\ provider' \in Contents /\ others' \in Nat
      /\ \/ provider'.edit = writes' /\ others' = others
            /\ lastEdit' \in {lastEdit, [lastEdit EXCEPT !["provider"] = writes']}
         \/ provider' = provider /\ others' = writes'
            /\ lastEdit' \in {lastEdit, [lastEdit EXCEPT !["others"] = writes']}
      /\ publisher.at = "checked" => UNCHANGED lastEdit
  BY <1>0, <1>1, Zenon DEF UserEditsConfig, GeneratedTypes, InWindow, Contents
<1>3. /\ lastEdit' \in [Editable -> Nat] /\ \A e \in Editable : lastEdit'[e] <= writes'
      /\ \A f \in Files : lastEdit'[f] = lastEdit[f]
  BY <1>0, <1>1, <1>2, SMT, SMTT(30) DEF GeneratedTypes, Editable
<1>4. GeneratedTypes'
  BY <1>0, <1>1, <1>2, <1>3, Zenon DEF GeneratedTypes
<1>5. \A f \in Files : /\ Plain(f)' = Plain(f) /\ There(f)' = There(f)
                       /\ Base(f)' = Base(f) /\ Replacing(f)' = Replacing(f)
  BY <1>1, Zenon DEF Plain, There, Base, Replacing
<1>6. CleanInv'
  BY <1>1, Zenon DEF GeneratedInv, CleanInv
<1>7. EditInv'
  BY <1>1, <1>2, <1>3, <1>5, Zenon DEF GeneratedInv, EditInv
<1>8. WritingInv' /\ OwnedInv'
  BY <1>1, <1>5, Zenon DEF GeneratedInv, WritingInv, OwnedInv, Files
<1>9. UserEditsSurvive'
  <2>1. \A f \in Files : lastEdit'[f] # 0 => file'[f].edit >= lastEdit'[f]
    BY <1>1, <1>3, Zenon DEF GeneratedInv, UserEditsSurvive
  <2>2. /\ lastEdit'["provider"] # 0 => provider'.edit >= lastEdit'["provider"]
        /\ others' >= lastEdit'["others"]
    BY <1>0, <1>1, <1>2, <1>3, ZenonT(40) DEF GeneratedInv, UserEditsSurvive, GeneratedTypes
  <2> QED
    BY <2>1, <2>2, Zenon DEF UserEditsSurvive
<1> QED
  BY <1>4, <1>6, <1>7, <1>8, <1>9, Zenon DEF GeneratedInv

(* A publication or a removal begins: what it may replace holds no edit.    *)
LEMMA BeginKeepsFiles ==
  ASSUME GeneratedInv, BeginRemove \/ \E v \in Versions : BeginPublish(v)
  PROVE  GeneratedInv'
<1>0. GeneratedTypes /\ publisher = Unlocked /\ publisher.at = "unlocked"
  BY SMT, SMTT(30)  DEF GeneratedInv, BeginRemove, BeginPublish, Unlocked
<1>1. UNCHANGED <<file, receipt, provider, others, ledger, writes, lastEdit, died>> /\ calm' = TRUE
  BY Zenon  DEF BeginRemove, BeginPublish
<1>2. \A f \in Files : /\ Plain(f)' = Plain(f) /\ There(f)' = There(f)
                       /\ Base(f)' = Base(f) /\ StillOwned(f)' = StillOwned(f)
  BY <1>1, Zenon DEF Plain, There, Base, StillOwned
<1>3. UserEditsSurvive'
  BY <1>1, Zenon DEF GeneratedInv, UserEditsSurvive
<1>4. ASSUME NEW v \in Versions, BeginPublish(v) PROVE GeneratedInv'
  <2>1. publisher' = [at |-> "pending", version |-> v,
                      pending |-> [f \in Files |-> PendingReceipt(f, v)]]
    BY <1>4, Zenon DEF BeginPublish
  <2>2. \A f \in Files : /\ Publishable(f, v) /\ file[f] \in Contents
                         /\ publisher'.pending[f] = {Published(v), file[f]} \ {Absent}
    BY <1>0, <1>4, <2>1, SMT, SMTT(30) DEF BeginPublish, PendingReceipt, GeneratedTypes
  <2>3. \A f \in Files : file[f].edit = 0
    BY <1>0, <2>2, OwnedIsUnedited, PublishedContents, Zenon DEF Publishable, GeneratedInv
  <2>4. \A f \in Files : /\ Published(v) \in publisher'.pending[f]
                         /\ Unedited(publisher'.pending[f])
                         /\ publisher'.pending[f] \subseteq Contents
                         /\ There(f) => file[f] \in publisher'.pending[f]
    BY <2>2, <2>3, PublishedContents, SMT, SMTT(30) DEF Unedited, There
  <2>5. GeneratedTypes'
    <3>1. publisher' \in Publishers
      BY <2>1, <2>4, Zenon DEF Publishers
    <3> QED
      BY <1>0, <1>1, <3>1, Zenon DEF GeneratedTypes
  <2>6. CleanInv'
    BY <1>1, <2>1, <2>4, Zenon DEF GeneratedInv, CleanInv
  <2>7. EditInv'
    BY <1>0, <1>1, <2>1, <2>3, UneditedHasNoEdit, Zenon DEF GeneratedInv, EditInv
  <2>8. WritingInv'
    BY <1>1, <1>2, <2>1, <2>4, Zenon DEF WritingInv, Plain
  <2>9. \A f \in Files : There(f) => StillOwned(f)
    BY <2>2, PublishedContents, SMT, SMTT(30)
       DEF Publishable, There, StillOwned, GeneratedInv, OwnedInv, Plain
  <2>10. OwnedInv'
    BY <1>0, <1>1, <1>2, <2>9, Zenon DEF GeneratedInv, OwnedInv
  <2> QED
    BY <1>3, <2>5, <2>6, <2>7, <2>8, <2>10, Zenon DEF GeneratedInv
<1>5. CASE BeginRemove
  <2>1. publisher' = [at |-> "remove", left |-> {f \in Files : file[f] # Absent}]
    BY <1>5, Zenon DEF BeginRemove
  <2>2. \A f \in Files : file[f] = Absent \/ StillOwned(f)
    BY <1>5, Zenon DEF BeginRemove
  <2>3. \A f \in Files : file[f].edit = 0
    BY <1>0, <2>2, OwnedIsUnedited, PublishedContents, Zenon DEF GeneratedInv
  <2>4. GeneratedTypes'
    BY <1>0, <1>1, <2>1, Zenon DEF GeneratedTypes, Publishers
  <2>5. CleanInv'
    BY <1>1, <2>1, Zenon DEF GeneratedInv, CleanInv
  <2>6. EditInv'
    BY <1>0, <1>1, <2>1, <2>3, UneditedHasNoEdit, Zenon DEF GeneratedInv, EditInv
  <2>7. WritingInv'
    BY <1>1, <2>1, Zenon DEF WritingInv
  <2>8. OwnedInv'
    BY <1>0, <1>1, <1>2, <2>2, Zenon DEF GeneratedInv, OwnedInv, There
  <2> QED
    BY <1>3, <2>4, <2>5, <2>6, <2>7, <2>8, Zenon DEF GeneratedInv
<1> QED
  BY <1>4, <1>5, Zenon

(* The four replacements of a publication.                                  *)
LEMMA PublishKeepsFiles ==
  ASSUME GeneratedInv, PublishStep
  PROVE  GeneratedInv'
<1> DEFINE v == publisher.version
<1>0. /\ GeneratedTypes /\ v \in Versions
      /\ publisher.at \in {"pending", "profile", "catalog", "committed"}
      /\ publisher.at = "pending" => publisher.pending \in [Files -> SUBSET Contents]
      /\ publisher.at # "pending" =>
           publisher \in [at: {"profile", "catalog", "committed", "published", "own"}, version: Versions]
  BY SMT, SMTT(30) DEF GeneratedInv, PublishStep, GeneratedTypes, Publishers, Unlocked
<1>1. /\ UNCHANGED <<provider, others, ledger, writes, lastEdit, calm>>
      /\ died' = (died /\ publisher.at # "committed")
  BY Zenon DEF PublishStep
<1>2. "profile" \in Files /\ "catalog" \in Files
  BY Zenon DEF Files
<1>3. CASE publisher.at = "pending"
  <2>1. /\ receipt' = publisher.pending /\ UNCHANGED file
        /\ publisher' = [at |-> "profile", version |-> v]
    BY <1>3, Zenon DEF PublishStep
  <2>2. \A f \in Files : Plain(f)' = Plain(f) /\ There(f)' = There(f)
    BY <2>1, Zenon DEF Plain, There
  <2>3. GeneratedTypes'
    BY <1>0, <1>1, <1>3, <2>1, Zenon DEF GeneratedTypes, Publishers
  <2>4. CleanInv'
    BY <1>1, <1>3, <2>1, Zenon DEF GeneratedInv, CleanInv
  <2>5. EditInv'
    BY <1>1, <1>3, <2>1, Zenon DEF GeneratedInv, EditInv, Replacing
  <2>6. WritingInv'
    BY <1>3, <2>1, Zenon DEF GeneratedInv, WritingInv, CleanInv
  <2>7. OwnedInv'
    BY <1>1, <1>3, <2>1, <2>2, Zenon DEF GeneratedInv, WritingInv, OwnedInv, StillOwned
  <2>8. UserEditsSurvive'
    BY <1>1, <2>1, Zenon DEF GeneratedInv, UserEditsSurvive
  <2> QED
    BY <2>3, <2>4, <2>5, <2>6, <2>7, <2>8, Zenon DEF GeneratedInv
<1>4. ASSUME NEW f \in Files, NEW next \in {"catalog", "committed"},
             publisher.at = f, UNCHANGED receipt,
             file' = [file EXCEPT ![f] = Published(v)],
             publisher' = [publisher EXCEPT !.at = next],
             f = "profile" <=> next = "catalog"
      PROVE  GeneratedInv'
  <2>1. /\ publisher'.at = next /\ publisher'.version = v /\ publisher' \in Publishers
        /\ publisher.at \in {"profile", "catalog"}
    BY <1>0, <1>4, Zenon DEF Publishers, Files
  <2>2. /\ file' \in [Files -> Contents] /\ file'[f] = Published(v)
        /\ \A g \in Files \ {f} : file'[g] = file[g]
    BY <1>0, <1>4, PublishedContents, Zenon DEF GeneratedTypes
  <2>3. /\ Published(v) \in receipt[f] /\ StillOwned(f)'
        /\ \A g \in Files \ {f} : /\ Plain(g)' = Plain(g) /\ There(g)' = There(g)
                                  /\ Base(g)' = Base(g) /\ StillOwned(g)' = StillOwned(g)
    BY <1>4, <2>1, <2>2, Zenon DEF GeneratedInv, WritingInv, Plain, There, Base, StillOwned
  <2>4. GeneratedTypes'
    BY <1>0, <1>1, <1>4, <2>1, <2>2, Zenon DEF GeneratedTypes
  <2>5. CleanInv'
    BY <1>0, <1>1, <1>2, <1>4, <2>1, <2>2, PublishedContents, ZenonT(40) DEF GeneratedInv, CleanInv
  <2>6. EditInv'
    BY <1>1, <1>4, <2>1, Zenon DEF GeneratedInv, EditInv, Replacing
  <2>7. WritingInv'
    <3>1. There("profile")' => file'["profile"].version = v
      BY <1>0, <1>2, <1>4, <2>1, <2>2, <2>3, PublishedContents, Zenon DEF GeneratedInv, WritingInv, Files
    <3>2. next = "committed" => file'["catalog"].version = v
      BY <1>0, <1>4, <2>2, PublishedContents, Zenon DEF Files
    <3> QED
      BY <1>4, <2>1, <3>1, <3>2, Zenon DEF GeneratedInv, WritingInv
  <2>8. OwnedInv'
    BY <1>1, <1>4, <2>1, <2>2, <2>3, Zenon DEF GeneratedInv, OwnedInv
  <2>9. UserEditsSurvive'
    <3>1. lastEdit[f] = 0
      BY <1>4, <2>1, Zenon DEF GeneratedInv, EditInv, Replacing, Files
    <3> QED
      BY <1>1, <2>2, <3>1, Zenon DEF GeneratedInv, UserEditsSurvive
  <2> QED
    BY <2>4, <2>5, <2>6, <2>7, <2>8, <2>9, Zenon DEF GeneratedInv
<1>5. CASE publisher.at = "committed"
  <2>1. /\ receipt' = [f \in Files |-> {Published(v)}] /\ UNCHANGED file
        /\ publisher' = [publisher EXCEPT !.at = "published"] /\ died' = FALSE
    BY <1>1, <1>5, Zenon DEF PublishStep
  <2>2. publisher'.at = "published" /\ publisher' \in Publishers
    BY <1>0, <1>5, <2>1, Zenon DEF Publishers
  <2>3. \A f \in Files : Plain(f)' = Plain(f) /\ There(f)' = There(f) /\ Base(f)' = Base(f)
    BY <2>1, Zenon DEF Plain, There, Base
  <2>4. \A f \in Files : {Published(v)} \subseteq Contents /\ Unedited({Published(v)})
    BY <1>0, PublishedContents, Zenon DEF Unedited
  <2>5. GeneratedTypes'
    BY <1>0, <1>1, <2>1, <2>2, <2>4, Zenon DEF GeneratedTypes
  <2>6. CleanInv'
    BY <1>1, <2>1, <2>2, <2>4, Zenon DEF GeneratedInv, CleanInv
  <2>7. EditInv' /\ WritingInv'
    BY <2>2, Zenon DEF EditInv, WritingInv, Replacing
  <2>8. ASSUME NEW f \in Files, There(f)
        PROVE  /\ Base(f) = Published(v)
               /\ Plain(f) => file[f] = Published(v)
    <3>1. file[f].version = v /\ file[f].edit = 0
      BY <1>5, <2>8, Zenon DEF GeneratedInv, WritingInv, Files, There
    <3>2. Base(f) = Published(v)
      <4>1. Base(f) \in Contents /\ Published(v) \in Contents
        BY <1>0, BaseContent, PublishedContents, Zenon
      <4> QED
        BY <1>0, <3>1, <4>1, BaseContent, PublishedContents, SameContent, SMT, SMTT(30)
    <3> QED
      BY <1>0, <3>2, BaseContent, Zenon DEF Plain
  <2>9. \A f \in Files : There(f) => Base(f)' \in receipt'[f] /\ (Plain(f) => file'[f] \in receipt'[f])
    BY <2>1, <2>3, <2>8, Zenon
  <2>10. \A f \in Files : There(f) => StillOwned(f)'
    <3>1. "profile" \in Files /\ (There("profile") => StillOwned("profile")')
      BY <1>2, <2>9, Zenon DEF StillOwned, Base
    <3>2. There("catalog") => StillOwned("catalog")'
      BY <1>2, <2>9, Zenon DEF StillOwned, GeneratedInv, CleanInv, Plain
    <3> QED
      BY <3>1, <3>2, Zenon DEF Files
  <2>11. OwnedInv'
    BY <2>3, <2>9, <2>10, Zenon DEF OwnedInv, Plain
  <2>12. UserEditsSurvive'
    BY <1>1, <2>1, Zenon DEF GeneratedInv, UserEditsSurvive
  <2> QED
    BY <2>5, <2>6, <2>7, <2>11, <2>12, Zenon DEF GeneratedInv
<1> QED
  BY <1>2, <1>3, <1>4, <1>5, Zenon DEF PublishStep

(* The steps of a removal.                                                  *)
LEMMA RemoveKeepsFiles ==
  ASSUME GeneratedInv, RemoveStep
  PROVE  GeneratedInv'
<1>0. /\ GeneratedTypes /\ publisher.at = "remove" /\ publisher.left \subseteq Files
      /\ publisher \in [at: {"remove"}, left: SUBSET Files]
  BY SMT, SMTT(30) DEF GeneratedInv, RemoveStep, GeneratedTypes, Publishers, Unlocked
<1>1. /\ UNCHANGED <<provider, others, ledger, writes, lastEdit, calm>>
      /\ died' = (died /\ publisher.left # {})
  BY Zenon  DEF RemoveStep
<1>2. ASSUME NEW f \in publisher.left, file' = [file EXCEPT ![f] = Absent],
             publisher' = [publisher EXCEPT !.left = @ \ {f}], UNCHANGED receipt
      PROVE  GeneratedInv'
  <2>1. /\ f \in Files /\ publisher'.at = "remove" /\ publisher'.left = publisher.left \ {f}
        /\ publisher' \in Publishers
    BY <1>0, <1>2, Zenon DEF Publishers
  <2>2. /\ file' \in [Files -> Contents] /\ file'[f] = Absent
        /\ \A g \in Files \ {f} : file'[g] = file[g]
    BY <1>0, <1>2, <2>1, PublishedContents, Zenon DEF GeneratedTypes
  <2>3. /\ ~There(f)' /\ ~Plain(f)'
        /\ \A g \in Files \ {f} : /\ Plain(g)' = Plain(g) /\ There(g)' = There(g)
                                  /\ Base(g)' = Base(g) /\ StillOwned(g)' = StillOwned(g)
    BY <1>2, <2>2, Zenon DEF Plain, There, Base, StillOwned
  <2>4. GeneratedTypes'
    BY <1>0, <1>1, <1>2, <2>1, <2>2, Zenon DEF GeneratedTypes
  <2>5. CleanInv'
    <3>1. file'["catalog"].extra = 0
      BY <2>1, <2>2, PublishedContents, Zenon DEF GeneratedInv, CleanInv, Files
    <3> QED
      BY <1>1, <1>2, <2>1, <3>1, Zenon DEF GeneratedInv, CleanInv
  <2>6. EditInv'
    BY <1>0, <1>1, <2>1, Zenon DEF GeneratedInv, EditInv, Replacing
  <2>7. WritingInv'
    BY <1>0, <2>1, <2>2, Zenon DEF GeneratedInv, WritingInv
  <2>8. OwnedInv'
    <3>1. ~died' => ~died
      BY <1>1, <1>2, Zenon
    <3>2. ASSUME NEW g \in Files \ {f}
          PROVE  /\ Plain(g)' => file'[g] \in receipt'[g]
                 /\ ~died' /\ There(g)' => Base(g)' \in receipt'[g]
                 /\ calm' /\ There(g)' => StillOwned(g)'
      BY <1>0, <1>1, <1>2, <2>2, <2>3, <3>1, ZenonT(40) DEF GeneratedInv, OwnedInv
    <3> QED
      BY <2>3, <3>2, Zenon DEF OwnedInv
  <2>9. UserEditsSurvive'
    <3>1. lastEdit[f] = 0
      BY <1>0, <2>1, Zenon DEF GeneratedInv, EditInv, Replacing
    <3> QED
      BY <1>1, <2>2, <3>1, Zenon DEF GeneratedInv, UserEditsSurvive
  <2> QED
    BY <2>4, <2>5, <2>6, <2>7, <2>8, <2>9, Zenon DEF GeneratedInv
<1>3. CASE publisher.left = {}
  <2>1. receipt' = [f \in Files |-> {}] /\ publisher' = Unlocked /\ UNCHANGED file
    BY <1>3, Zenon DEF RemoveStep
  <2>2. \A f \in Files : file'[f] = Absent
    BY <1>0, <1>3, <2>1, Zenon DEF GeneratedInv, WritingInv
  <2>3. GeneratedTypes'
    BY <1>0, <1>1, <2>1, Zenon DEF GeneratedTypes, Publishers
  <2>4. CleanInv' /\ EditInv' /\ WritingInv'
    BY <1>1, <2>1, Zenon DEF GeneratedInv, CleanInv, EditInv, WritingInv, Replacing, Unlocked, Unedited
  <2>5. OwnedInv'
    BY <2>2, Zenon DEF OwnedInv, There, Plain
  <2>6. UserEditsSurvive'
    BY <1>1, <2>1, Zenon DEF GeneratedInv, UserEditsSurvive
  <2> QED
    BY <2>3, <2>4, <2>5, <2>6, Zenon DEF GeneratedInv
<1> QED
  BY <1>2, <1>3, Zenon DEF RemoveStep

(* The provider's table, and the death of a launch.                         *)
LEMMA ProviderKeepsFiles ==
  ASSUME GeneratedInv,
         \/ BeginProvider \/ WritePendingLedger \/ RecheckConfig \/ WriteConfig \/ WriteLedger
         \/ LaunchDies
  PROVE  GeneratedInv'
<1>0. GeneratedTypes /\ UNCHANGED <<file, receipt, writes, lastEdit, calm>>
  BY Zenon DEF GeneratedInv, BeginProvider, WritePendingLedger, RecheckConfig, WriteConfig, WriteLedger,
       LaunchDies
<1>1. ASSUME publisher' \in Publishers,
             publisher'.at \notin {"pending", "profile", "catalog", "committed", "remove"},
             died' \in BOOLEAN,
             died' \/ (~died /\ publisher.at \notin {"profile", "catalog", "committed"}),
             provider' \in Contents, others' \in Nat, ledger' \subseteq Contents, Unedited(ledger'),
             publisher'.at \in {"ledger", "recheck", "checked"} => publisher'.original[1].edit = 0,
             publisher'.at = "checked" =>
               lastEdit["provider"] = 0 /\ publisher'.original[2] >= lastEdit["others"],
             lastEdit["provider"] # 0 => provider'.edit >= lastEdit["provider"],
             others' >= lastEdit["others"]
      PROVE  GeneratedInv'
  <2>1. WritingInv' /\ OwnedInv' /\ \A f \in Files : ~Replacing(f)'
    BY <1>0, <1>1, FilesAtRest, Zenon
  <2>2. GeneratedTypes'
    BY <1>0, <1>1, Zenon DEF GeneratedTypes
  <2>3. CleanInv' /\ EditInv' /\ UserEditsSurvive'
    BY <1>0, <1>1, <2>1, Zenon DEF GeneratedInv, CleanInv, EditInv, UserEditsSurvive
  <2> QED
    BY <2>1, <2>2, <2>3, Zenon DEF GeneratedInv
<1>2. /\ provider \in Contents /\ others \in Nat /\ ledger \subseteq Contents /\ Unedited(ledger)
      /\ lastEdit["provider"] # 0 => provider.edit >= lastEdit["provider"]
      /\ others >= lastEdit["others"] /\ died \in BOOLEAN
      /\ lastEdit["provider"] \in Nat /\ lastEdit["others"] \in Nat
  BY <1>0, Zenon DEF GeneratedInv, GeneratedTypes, CleanInv, UserEditsSurvive, Editable
<1>3. Unlocked \in Publishers /\ Unlocked.at = "unlocked"
  BY Zenon  DEF Publishers, Unlocked
<1>4. CASE LaunchDies
  BY <1>1, <1>2, <1>3, <1>4, Zenon DEF LaunchDies
<1>5. CASE BeginProvider
  <2>0. /\ publisher.at = "published" /\ publisher.version \in Versions
        /\ UNCHANGED <<provider, others, ledger, died>>
    BY <1>0, <1>5, SMT, SMTT(30) DEF BeginProvider, GeneratedTypes, Publishers, Unlocked
  <2>1. CASE publisher' = Unlocked
    BY <1>1, <1>2, <1>3, <2>0, <2>1, Zenon
  <2>2. CASE /\ provider \in {Absent, Published(publisher.version)} \union ledger
             /\ publisher' = [at |-> "ledger", version |-> publisher.version,
                              original |-> <<provider, others>>]
    <3>1. provider.edit = 0
      BY <1>2, <2>0, <2>2, PublishedContents, Zenon DEF Unedited
    <3>2. publisher' \in Publishers /\ publisher'.at = "ledger" /\ publisher'.original[1] = provider
      BY <1>2, <2>0, <2>2, Zenon DEF Publishers
    <3> QED
      BY <1>1, <1>2, <2>0, <3>1, <3>2, Zenon
  <2> QED
    BY <1>5, <2>1, <2>2, Zenon DEF BeginProvider
<1>6. ASSUME publisher.at \in {"ledger", "recheck", "checked"}
      PROVE  /\ publisher \in [at: {"ledger", "recheck", "checked"}, version: Versions,
                               original: Contents \X Nat]
             /\ publisher.version \in Versions
             /\ publisher.original[1] \in Contents /\ publisher.original[1].edit = 0
             /\ publisher.original[2] \in Nat
  BY <1>0, <1>6, SMT, SMTT(30) DEF GeneratedInv, GeneratedTypes, CleanInv, Publishers, Unlocked
<1>7. CASE WritePendingLedger
  <2>1. /\ publisher.at = "ledger" /\ UNCHANGED <<provider, others, died>>
        /\ ledger' = {Published(publisher.version), publisher.original[1]} \ {Absent}
        /\ publisher' = [publisher EXCEPT !.at = "recheck"]
    BY <1>7, Zenon DEF WritePendingLedger
  <2>2. /\ publisher' \in Publishers /\ publisher'.at = "recheck"
        /\ publisher'.original = publisher.original
    BY <1>6, <2>1, Zenon DEF Publishers
  <2>3. ledger' \subseteq Contents /\ Unedited(ledger')
    BY <1>6, <2>1, PublishedContents, ZenonT(40) DEF Unedited
  <2>4. died' \/ (~died /\ publisher.at \notin {"profile", "catalog", "committed"})
    BY <1>2, <2>1, Zenon
  <2> QED
    BY <1>1, <1>2, <1>6, <2>1, <2>2, <2>3, <2>4, Zenon
<1>8. CASE RecheckConfig
  <2>0. publisher.at = "recheck" /\ UNCHANGED <<provider, others, ledger, died>>
    BY <1>8, Zenon DEF RecheckConfig
  <2>1. CASE publisher' = Unlocked
    BY <1>1, <1>2, <1>3, <2>0, <2>1, Zenon
  <2>2. CASE /\ <<provider, others>> = publisher.original
             /\ publisher' = [publisher EXCEPT !.at = "checked"]
    <3>1. /\ publisher' \in Publishers /\ publisher'.at = "checked"
          /\ publisher'.original = publisher.original
      BY <1>6, <2>0, <2>2, Zenon DEF Publishers
    <3>2. publisher.original[1] = provider /\ publisher.original[2] = others
      BY <2>2, SMT, SMTT(30)
    <3>3. lastEdit["provider"] = 0
      BY <1>2, <1>6, <2>0, <3>2, SMT, SMTT(30)
    <3> QED
      BY <1>1, <1>2, <1>6, <2>0, <3>1, <3>2, <3>3, Zenon
  <2> QED
    BY <1>8, <2>1, <2>2, Zenon DEF RecheckConfig
<1>9. CASE WriteConfig
  <2>1. /\ publisher.at = "checked" /\ UNCHANGED <<ledger, died>>
        /\ provider' = Published(publisher.version) /\ others' = publisher.original[2]
        /\ publisher' = [at |-> "own", version |-> publisher.version]
    BY <1>9, Zenon DEF WriteConfig
  <2>2. publisher' \in Publishers /\ publisher'.at = "own" /\ provider' \in Contents
    BY <1>6, <2>1, PublishedContents, Zenon DEF Publishers
  <2>3. lastEdit["provider"] = 0 /\ others' >= lastEdit["others"]
    BY <2>1, Zenon DEF GeneratedInv, EditInv
  <2> QED
    BY <1>1, <1>2, <1>6, <2>1, <2>2, <2>3, Zenon
<1>10. CASE WriteLedger
  <2>1. /\ publisher.at = "own" /\ publisher.version \in Versions
        /\ UNCHANGED <<provider, others, died>>
        /\ ledger' = {Published(publisher.version)} /\ publisher' = Unlocked
    BY <1>0, <1>10, SMT, SMTT(30) DEF WriteLedger, GeneratedTypes, Publishers, Unlocked
  <2>2. ledger' \subseteq Contents /\ Unedited(ledger')
    BY <2>1, PublishedContents, Zenon DEF Unedited
  <2> QED
    BY <1>1, <1>2, <1>3, <2>1, <2>2, Zenon
<1> QED
  BY <1>4, <1>5, <1>7, <1>8, <1>9, <1>10, Zenon

(* Every step of launch, client and user keeps the invariant.               *)
LEMMA GeneratedInvStep == GeneratedInv /\ [GeneratedNext]_generatedVars => GeneratedInv'
<1> SUFFICES ASSUME GeneratedInv, [GeneratedNext]_generatedVars PROVE GeneratedInv'
  BY Zenon
<1>1. CASE UNCHANGED generatedVars
  BY <1>1, SMT, SMTT(30) DEF generatedVars, GeneratedInv, GeneratedTypes, CleanInv, EditInv, WritingInv, OwnedInv,
       UserEditsSurvive, Replacing, There, Plain, Base, StillOwned
<1> QED
  BY <1>1, ClientKeepsFiles, UserKeepsFiles, ConfigEditKeepsFiles, BeginKeepsFiles,
     PublishKeepsFiles, RemoveKeepsFiles, ProviderKeepsFiles, Zenon DEF GeneratedNext

(* For any number of launches, restores, deaths, edits and saved settings:  *)
(* no edit of the user is lost but in the gaps the comments of the model    *)
(* name, and what the user did not edit stays replaceable, so that a killed *)
(* launch can be retried (publish, remove, publish_provider, still_owned).  *)
THEOREM GeneratedFilesAlwaysSafe == GeneratedSpec => []GeneratedFilesAreSafe
<1>1. GeneratedInit => GeneratedInv
  <2> SUFFICES ASSUME GeneratedInit PROVE GeneratedInv
    BY Zenon
  <2>1. GeneratedTypes
    <3>1. lastEdit \in [Editable -> Nat] /\ \A e \in Editable : lastEdit[e] <= writes
      BY SMT, SMTT(30) DEF GeneratedInit, Editable
    <3>2. publisher \in Publishers /\ calm \in BOOLEAN /\ died \in BOOLEAN
      BY Zenon  DEF GeneratedInit, Publishers
    <3> QED
      BY <3>1, <3>2, PublishedContents, Zenon DEF GeneratedInit, GeneratedTypes
  <2>2. CleanInv /\ EditInv /\ WritingInv
    BY PublishedContents, Zenon
       DEF GeneratedInit, CleanInv, EditInv, WritingInv, Replacing, Unlocked, Unedited, Files
  <2>3. OwnedInv /\ UserEditsSurvive
    BY SMT, SMTT(30)  DEF GeneratedInit, OwnedInv, There, Plain, UserEditsSurvive, Files
  <2> QED
    BY <2>1, <2>2, <2>3, Zenon DEF GeneratedInv
<1>2. GeneratedInv => GeneratedFilesAreSafe
  <2> SUFFICES ASSUME GeneratedInv PROVE GeneratedFilesAreSafe
    BY Zenon
  <2>1. ASSUME publisher = Unlocked, calm \/ ~died, NEW f \in Files, file[f].edit = 0,
               file[f] # Absent
        PROVE  StillOwned(f)
    <3>1. There(f) /\ publisher.at = "unlocked"
      BY <2>1, Zenon DEF There, Unlocked
    <3>2. CASE calm
      BY <3>1, <3>2, Zenon DEF GeneratedInv, OwnedInv
    <3>3. CASE ~died
      BY <3>1, <3>3, BaseIsOwned, Zenon DEF GeneratedInv, OwnedInv
    <3> QED
      BY <2>1, <3>2, <3>3, Zenon
  <2> QED
    BY <2>1, Zenon DEF GeneratedInv, GeneratedFilesAreSafe, UneditedIsReplaceable
<1> QED
  BY <1>1, <1>2, GeneratedInvStep, PTL DEF GeneratedSpec

-----------------------------------------------------------------------------
(* Certificate rotation.                                                    *)

Leaf == [key: Nat, signer: Nat]
FileSet == [caCert: Nat, caKey: Nat, leaf: Leaf, leafKey: Nat]
Steps == {"caCert", "caKey", "leaf", "leafKey", "signal", "reply", "profile"}

Turning == turn # Resting
RotatingCa == Turning /\ turn.ca

CertTypeOK ==
  /\ files \in FileSet /\ served \in Leaf /\ hup \in BOOLEAN
  /\ pin \in [ca: Nat, sha: Nat]
  /\ turn \in {Resting} \union [at: Steps, ca: BOOLEAN, old: FileSet, new: FileSet]
  /\ serial \in Nat /\ owed \in BOOLEAN

\* Files from which no leaf of another CA than p can be loaded or signed.
BelongTo(p, fs) == fs.caKey \in {p, TornFile} /\ (fs.leaf = NoLeaf \/ fs.leaf.signer = p)

\* New material fits together.
Matching(new) == /\ new.leaf.signer = new.caKey
                 /\ new.leaf.key = new.leafKey /\ new.leafKey # TornFile

\* How far a rotation of the CA has come: nothing is written while the client
\* is owed nothing, and what is past is on the disk.
CaProgress ==
  RotatingCa =>
    /\ Matching(turn.new) /\ turn.new.caCert = turn.new.caKey
    /\ turn.at # "caCert" => owed
    /\ turn.at \notin {"caCert", "caKey"} => files.caKey = turn.new.caKey
    /\ turn.at \notin {"caCert", "caKey", "leaf"} => files.leaf = turn.new.leaf
    /\ turn.at \in {"signal", "reply", "profile"} => files.leafKey = turn.new.leafKey
    /\ turn.at \in {"reply", "profile"} /\ ~hup => served \in {NoLeaf, files.leaf}
    /\ turn.at = "profile" => pin.ca = turn.new.caCert

\* A client that is owed nothing has one CA; every file, the new material of a
\* leaf rotation and what it would put back belong to it; and so does the
\* served leaf, unless the signal that replaces it is on its way.
Settled ==
  ~owed =>
    /\ pin.ca = pin.sha
    /\ BelongTo(pin.ca, files)
    /\ Turning => BelongTo(pin.ca, turn.old)
    /\ Turning /\ ~turn.ca => turn.new.leaf.signer = pin.ca
    /\ \/ served = NoLeaf \/ served.signer = pin.ca
       \/ hup /\ Loadable /\ turn = Resting

\* A rotation of the leaf writes neither file of the CA.
LeafSteps == Turning /\ ~turn.ca => turn.at \notin {"caCert", "caKey", "profile"}

CertInv == CertTypeOK /\ CaProgress /\ LeafSteps /\ Settled

-----------------------------------------------------------------------------
(* The first rotation starts from a consistent installation.               *)
LEMMA CertInvInit == CertInit => CertInv
<1> SUFFICES ASSUME CertInit PROVE CertInv
  BY Zenon
<1>1. CertTypeOK
  BY Zenon  DEF CertInit, CertTypeOK, FileSet, Leaf
<1>2. CaProgress /\ LeafSteps
  BY Zenon  DEF CertInit, CaProgress, LeafSteps, RotatingCa, Turning
<1>3. Settled
  BY Zenon  DEF CertInit, Settled, Turning, BelongTo
<1> QED
  BY <1>1, <1>2, <1>3, Zenon DEF CertInv

(* A started rotation (Rotate) has written nothing; its material is         *)
(* consistent, and that of a leaf is signed by the CA of the client.        *)
LEMMA RotateKeepsInv ==
  ASSUME CertInv, NEW ca \in BOOLEAN, Rotate(ca)
  PROVE  CertInv'
<1> DEFINE new == [caCert |-> NewCa(ca), caKey |-> SigningKey(ca),
                   leaf |-> [key |-> LeafKey(ca), signer |-> SigningKey(ca)],
                   leafKey |-> LeafKey(ca)]
<1>a. CertTypeOK /\ Settled
  BY Zenon  DEF CertInv
<1>b. /\ turn' = [at |-> IF ca THEN "caCert" ELSE "leaf", ca |-> ca, old |-> files, new |-> new]
      /\ serial' = LeafKey(ca) /\ UNCHANGED <<files, served, hup, pin, owed>>
      /\ ~hup /\ (ca \/ files.caKey # TornFile)
  BY Zenon  DEF Rotate
<1>c. /\ LeafKey(ca) \in Nat \ {0} /\ NewCa(ca) \in Nat /\ SigningKey(ca) \in Nat
      /\ files \in FileSet
  BY <1>a, SMT, SMTT(30) DEF CertTypeOK, FileSet, LeafKey, NewCa, SigningKey
<1>d. /\ new \in FileSet /\ Matching(new) /\ (ca => new.caCert = new.caKey)
      /\ ~ca => new.leaf.signer = files.caKey
  <2>1. new \in FileSet
    BY <1>c, Zenon DEF FileSet, Leaf
  <2>2. Matching(new)
    BY <1>c, Zenon DEF Matching, TornFile
  <2> QED
    BY <2>1, <2>2, Zenon DEF NewCa, SigningKey
<1> HIDE DEF new
<1>2. /\ turn'.at = (IF ca THEN "caCert" ELSE "leaf") /\ turn'.ca = ca
      /\ turn'.old = files /\ turn'.new = new
      /\ turn' \in [at: Steps, ca: BOOLEAN, old: FileSet, new: FileSet]
  BY <1>b, <1>c, <1>d, Zenon DEF Steps
<1>3. CertTypeOK'
  BY <1>a, <1>b, <1>c, <1>2, Zenon DEF CertTypeOK
<1>4. CaProgress'
  BY <1>d, <1>2, Zenon DEF CaProgress, RotatingCa
<1>5. LeafSteps'
  BY <1>2, Zenon DEF LeafSteps
<1>6. Settled'
  BY <1>a, <1>b, <1>d, <1>2, Zenon DEF Settled, BelongTo
<1> QED
  BY <1>3, <1>4, <1>5, <1>6, Zenon DEF CertInv

(* A rotation in progress has the fields of a rotation.                     *)
LEMMA TurnFields ==
  ASSUME CertTypeOK, turn.at # "rest"
  PROVE  turn \in [at: Steps, ca: BOOLEAN, old: FileSet, new: FileSet] /\ Turning
  BY SMT, SMTT(30) DEF CertTypeOK, Resting, Turning

(* Writing one file (WriteCert), whole or torn.  A torn leaf is no leaf, and *)
(* a rotation of the CA owes the client its pin from the first write on.    *)
LEMMA WriteCertKeepsInv == CertInv /\ WriteCert => CertInv'
<1> SUFFICES ASSUME CertInv, WriteCert PROVE CertInv'
  BY Zenon
<1> USE DEF CertInv
<1>a. DOMAIN files = {"caCert", "caKey", "leaf", "leafKey"} /\ files \in FileSet
  BY Zenon DEF CertTypeOK, FileSet
<1>b. turn.at \in {"caCert", "caKey", "leaf", "leafKey"}
  BY <1>a, Zenon DEF WriteCert
<1>c. turn \in [at: Steps, ca: BOOLEAN, old: FileSet, new: FileSet] /\ Turning
  BY <1>b, TurnFields, Zenon
<1>d. owed' = (owed \/ turn.ca) /\ UNCHANGED <<served, hup, pin, serial>>
  BY Zenon DEF WriteCert
<1>1. CASE files' = [files EXCEPT ![turn.at] = TornIn(turn.at)] /\ turn' = Resting
  <2>1. /\ files' \in FileSet
        /\ files'.leaf \in {files.leaf, NoLeaf}
        /\ turn.at # "caKey" => files'.caKey = files.caKey
    <3>1. CASE turn.at \in {"caCert", "caKey", "leafKey"}
      BY <1>1, <1>a, <1>c, <3>1, Zenon DEF TornIn, TornFile, FileSet
    <3>2. CASE turn.at = "leaf"
      BY <1>1, <1>a, <1>c, <3>2, Zenon DEF TornIn, TornFile, NoLeaf, FileSet, Leaf
    <3> QED
      BY <3>1, <3>2, <1>b, Zenon
  <2>2. CertTypeOK'
    BY <1>1, <1>c, <1>d, <2>1, Zenon DEF CertTypeOK
  <2>3. CaProgress' /\ LeafSteps'
    BY <1>1, Zenon DEF CaProgress, LeafSteps, RotatingCa, Turning
  <2>4. Settled'
    BY <1>1, <1>c, <1>d, <2>1, Zenon DEF Settled, LeafSteps, BelongTo, Turning
  <2> QED
    BY <2>2, <2>3, <2>4, Zenon
<1>2. CASE /\ files' = [files EXCEPT ![turn.at] = turn.new[turn.at]]
           /\ turn' = [turn EXCEPT !.at = After(turn.at)]
  <2>1. /\ turn'.at = After(turn.at) /\ After(turn.at) \in Steps
        /\ turn'.ca = turn.ca /\ turn'.old = turn.old /\ turn'.new = turn.new
        /\ turn' \in [at: Steps, ca: BOOLEAN, old: FileSet, new: FileSet]
        /\ turn' # Resting
    <3>1. After(turn.at) \in Steps
      BY <1>b, Zenon DEF After, Steps
    <3> QED
      BY <1>2, <1>c, <3>1, Zenon DEF Resting, Steps
  <2>2. /\ files' \in FileSet
        /\ files'.caKey = (IF turn.at = "caKey" THEN turn.new.caKey ELSE files.caKey)
        /\ files'.leaf = (IF turn.at = "leaf" THEN turn.new.leaf ELSE files.leaf)
        /\ files'.leafKey = (IF turn.at = "leafKey" THEN turn.new.leafKey ELSE files.leafKey)
    <3>1. CASE turn.at = "caCert"
      BY <1>2, <1>a, <1>c, <3>1, Zenon DEF FileSet
    <3>2. CASE turn.at = "caKey"
      BY <1>2, <1>a, <1>c, <3>2, Zenon DEF FileSet
    <3>3. CASE turn.at = "leaf"
      BY <1>2, <1>a, <1>c, <3>3, Zenon DEF FileSet
    <3>4. CASE turn.at = "leafKey"
      BY <1>2, <1>a, <1>c, <3>4, Zenon DEF FileSet
    <3> QED
      BY <3>1, <3>2, <3>3, <3>4, <1>b, Zenon
  <2>3. CertTypeOK'
    BY <1>c, <1>d, <2>1, <2>2, Zenon DEF CertTypeOK
  <2>4. CaProgress'
    BY <1>b, <1>c, <1>d, <2>1, <2>2, ZenonT(40) DEF CaProgress, RotatingCa, Turning, Matching, After
  <2>5. LeafSteps'
    BY <1>b, <1>c, <2>1, Zenon DEF LeafSteps, Turning, After
  <2>6. Settled'
    BY <1>b, <1>c, <1>d, <2>1, <2>2, Zenon DEF Settled, LeafSteps, BelongTo, Turning
  <2> QED
    BY <2>3, <2>4, <2>5, <2>6, Zenon
<1> QED
  BY <1>1, <1>2, Zenon DEF WriteCert

(* The signal, or the write-back when it cannot be sent (Signal).  A CA      *)
(* rotation owes the client already; a leaf rotation puts back its own CA.  *)
LEMMA SignalKeepsInv == CertInv /\ Signal => CertInv'
<1> SUFFICES ASSUME CertInv, Signal PROVE CertInv'
  BY Zenon
<1> USE DEF CertInv
<1>a. turn \in [at: Steps, ca: BOOLEAN, old: FileSet, new: FileSet] /\ Turning
  BY TurnFields, Zenon DEF Signal
<1>b. UNCHANGED <<served, pin, serial, owed>> /\ turn.at = "signal"
  BY Zenon DEF Signal
<1>1. CASE hup' = TRUE /\ turn' = [turn EXCEPT !.at = "reply"] /\ UNCHANGED files
  <2>1. /\ turn'.at = "reply" /\ turn'.ca = turn.ca /\ turn'.old = turn.old
        /\ turn'.new = turn.new /\ turn' # Resting
        /\ turn' \in [at: Steps, ca: BOOLEAN, old: FileSet, new: FileSet]
    BY <1>1, <1>a, Zenon DEF Resting, Steps
  <2>2. CertTypeOK'
    BY <1>1, <1>b, <2>1, Zenon DEF CertTypeOK
  <2>3. CaProgress' /\ LeafSteps'
    BY <1>1, <1>a, <1>b, <2>1, Zenon DEF CaProgress, LeafSteps, RotatingCa, Turning
  <2>4. Settled'
    BY <1>1, <1>a, <1>b, <2>1, Zenon DEF Settled, Turning, BelongTo
  <2> QED
    BY <2>2, <2>3, <2>4, Zenon
<1>2. ASSUME NEW lost \in SUBSET DOMAIN files,
             files' = [f \in DOMAIN files |-> IF f \in lost THEN TornIn(f) ELSE turn.old[f]],
             turn' = Resting, UNCHANGED hup
      PROVE  CertInv'
  <2>1. DOMAIN files = {"caCert", "caKey", "leaf", "leafKey"}
    BY Zenon  DEF CertTypeOK, FileSet
  <2>2. /\ files'.caCert = (IF "caCert" \in lost THEN TornFile ELSE turn.old.caCert)
        /\ files'.caKey = (IF "caKey" \in lost THEN TornFile ELSE turn.old.caKey)
        /\ files'.leaf = (IF "leaf" \in lost THEN NoLeaf ELSE turn.old.leaf)
        /\ files'.leafKey = (IF "leafKey" \in lost THEN TornFile ELSE turn.old.leafKey)
        /\ files' = [caCert |-> files'.caCert, caKey |-> files'.caKey,
                     leaf |-> files'.leaf, leafKey |-> files'.leafKey]
    BY <1>2, <2>1, Zenon DEF TornIn
  <2>3. TornFile \in Nat /\ NoLeaf \in Leaf
    BY Zenon  DEF TornFile, NoLeaf, Leaf
  <2>4. /\ files'.caCert \in Nat /\ files'.caKey \in Nat
        /\ files'.leaf \in Leaf /\ files'.leafKey \in Nat
    BY <2>2, <2>3, <1>a, Zenon DEF FileSet
  <2>5. files' \in FileSet
    BY <2>2, <2>4, Zenon DEF FileSet
  <2>6. CertTypeOK'
    BY <1>2, <1>b, <2>5, Zenon DEF CertTypeOK
  <2>7. CaProgress' /\ LeafSteps'
    BY <1>2, Zenon DEF CaProgress, LeafSteps, RotatingCa, Turning
  <2>8. Settled'
    BY <1>2, <1>a, <1>b, <2>2, Zenon DEF Settled, Turning, BelongTo
  <2> QED
    BY <2>6, <2>7, <2>8, Zenon
<1> QED
  BY <1>1, <1>2, Zenon DEF Signal

(* The client pins the CA of the report (Reply, PinProfile).                *)
LEMMA PinningKeepsInv == CertInv /\ (Reply \/ PinProfile) => CertInv'
<1> USE DEF CertInv
<1>1. ASSUME CertInv, Reply PROVE CertInv'
  <2>a. turn \in [at: Steps, ca: BOOLEAN, old: FileSet, new: FileSet] /\ Turning
    BY <1>1, TurnFields, Zenon DEF Reply
  <2>1. CASE turn.ca
    <3>1. /\ turn'.at = "profile" /\ turn'.ca /\ turn'.old = turn.old
          /\ turn'.new = turn.new /\ turn' # Resting
          /\ turn' \in [at: Steps, ca: BOOLEAN, old: FileSet, new: FileSet]
      BY <1>1, <2>a, <2>1, Zenon DEF Reply, Resting, Steps
    <3>2. pin' \in [ca: Nat, sha: Nat] /\ pin'.ca = turn.new.caCert
      BY <1>1, <2>a, <2>1, ZenonT(40) DEF Reply, CertTypeOK, FileSet
    <3>3. owed /\ UNCHANGED <<files, served, hup, serial, owed>>
      BY <1>1, <2>a, <2>1, Zenon DEF Reply, CaProgress, RotatingCa
    <3>4. CertTypeOK'
      BY <1>1, <3>1, <3>2, <3>3, Zenon DEF CertTypeOK
    <3>5. CaProgress' /\ LeafSteps' /\ Settled'
      BY <1>1, <2>a, <2>1, <3>1, <3>2, <3>3, SMT, SMTT(30)
         DEF Reply, CaProgress, LeafSteps, Settled, RotatingCa, Turning
    <3> QED
      BY <3>4, <3>5, Zenon
  <2>2. CASE ~turn.ca
    BY <1>1, <2>a, <2>2, Zenon
       DEF Reply, CertTypeOK, CaProgress, LeafSteps, Settled, RotatingCa, Turning
  <2> QED
    BY <2>1, <2>2, Zenon
<1>2. ASSUME CertInv, PinProfile PROVE CertInv'
  <2>a. /\ turn \in [at: Steps, ca: BOOLEAN, old: FileSet, new: FileSet] /\ Turning
        /\ turn.ca
    BY <1>2, TurnFields, Zenon DEF PinProfile, LeafSteps
  <2>1. pin' \in [ca: Nat, sha: Nat] /\ pin'.ca = turn.new.caCert /\ pin'.sha = turn.new.caCert
    BY <1>2, <2>a, Zenon DEF PinProfile, CertTypeOK, FileSet, CaProgress, RotatingCa
  <2>2. CertTypeOK' /\ CaProgress' /\ LeafSteps'
    BY <1>2, <2>1, Zenon DEF PinProfile, CertTypeOK, CaProgress, LeafSteps, RotatingCa, Turning
  <2>3. Settled'
    BY <1>2, <2>a, <2>1, ZenonT(40) DEF PinProfile, CaProgress, RotatingCa, Matching,
       Settled, Turning, BelongTo, Loadable
  <2> QED
    BY <2>2, <2>3, Zenon
<1> QED
  BY <1>1, <1>2, Zenon

(* The agent loads the files of its CA or none (Reload, AgentRestarts), and *)
(* a rotation that dies leaves what it wrote (RotationDies).                *)
LEMMA ServerKeepsInv == CertInv /\ (Reload \/ AgentRestarts \/ RotationDies) => CertInv'
<1> SUFFICES ASSUME CertInv, Reload \/ AgentRestarts \/ RotationDies PROVE CertInv'
  BY Zenon
<1> USE DEF CertInv
<1>1. CASE RotationDies
  BY <1>1, Zenon DEF RotationDies, CertTypeOK, CaProgress, LeafSteps, Settled, RotatingCa, Turning
<1>2. CASE Reload \/ AgentRestarts
  <2>a. UNCHANGED <<files, pin, turn, serial, owed>> /\ hup' = FALSE
    BY <1>2, Zenon DEF Reload, AgentRestarts
  <2>b. \/ Loadable /\ served' = files.leaf
        \/ served' = NoLeaf
        \/ ~Loadable /\ served' = served
    BY <1>2, Zenon DEF Reload, AgentRestarts
  <2>c. NoLeaf \in Leaf /\ files.leaf \in Leaf
    BY Zenon DEF NoLeaf, TornFile, Leaf, CertTypeOK, FileSet
  <2>1. CertTypeOK'
    BY <2>a, <2>b, <2>c, Zenon DEF CertTypeOK
  <2>2. LeafSteps'
    BY <2>a, Zenon DEF LeafSteps, Turning
  <2>3. turn.at \in {"reply", "profile"} /\ RotatingCa => Loadable
    BY Zenon  DEF CaProgress, Matching, Loadable
  <2>4. CaProgress'
    BY <2>a, <2>b, <2>3, Zenon DEF CaProgress, RotatingCa, Turning
  <2>5. Loadable => files.leaf # NoLeaf
    BY SMT, SMTT(30)  DEF Loadable, NoLeaf, TornFile
  <2>6. Settled'
    BY <2>a, <2>b, <2>5, Zenon DEF Settled, BelongTo, Turning
  <2> QED
    BY <2>1, <2>2, <2>4, <2>6, Zenon
<1> QED
  BY <1>1, <1>2, Zenon

(* Every step of rotation, client and agent keeps the invariant.            *)
LEMMA CertInvInductive == CertInv /\ [CertNext]_certVars => CertInv'
<1> SUFFICES ASSUME CertInv, [CertNext]_certVars PROVE CertInv'
  BY Zenon
<1>1. CASE UNCHANGED certVars
  <2>1. UNCHANGED <<files, served, hup, pin, turn, serial, owed>>
    BY <1>1, Zenon DEF certVars
  <2>2. CertTypeOK' /\ LeafSteps'
    BY <2>1, Zenon DEF CertInv, CertTypeOK, LeafSteps, Turning
  <2>3. CaProgress'
    BY <2>1, Zenon DEF CertInv, CaProgress, RotatingCa, Turning
  <2>4. Settled'
    BY <2>1, Zenon DEF CertInv, Settled, Turning, Loadable, BelongTo
  <2> QED
    BY <2>2, <2>3, <2>4, Zenon DEF CertInv
<1> QED
  BY <1>1, RotateKeepsInv, WriteCertKeepsInv, SignalKeepsInv, PinningKeepsInv, ServerKeepsInv, Zenon
     DEF CertNext

(* Whatever rotations of CA and leaf are started, fail, are undone or die,  *)
(* and wherever the agent restarts, a client that is owed no new pin        *)
(* reaches the running agent (rotate_certificate, reload_tls_from_pem_files, *)
(* replace_ca_pin).                                                         *)
THEOREM PinnedClientAlwaysConnects == CertSpec => []PinnedClientConnects
<1>1. CertInv => PinnedClientConnects
  BY Zenon DEF CertInv, Settled, PinnedClientConnects, Connects
<1> QED
  BY <1>1, CertInvInit, CertInvInductive, PTL DEF CertSpec
=============================================================================
