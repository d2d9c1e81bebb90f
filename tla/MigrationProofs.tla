-------------------------- MODULE MigrationProofs --------------------------
(* Proofs about Migration, for every bound on deaths, reboots, writes and   *)
(* generations: the durable journal is always one that Journal::open         *)
(* accepts, and a durable commit is final.                                   *)
EXTENDS Migration, Integers, TLAPS

(* The length of a program is a natural number.                             *)
LEMMA LengthOfSeq ==
  ASSUME NEW S
  PROVE  /\ Len(<<>>) = 0 /\ <<>> \in Seq(S)
         /\ \A q \in Seq(S) : /\ Len(q) \in Nat /\ DOMAIN q = 1 .. Len(q)
                              /\ q # <<>> => Len(q) \in Nat \ {0}
BY SMT, SMTT(30)

(* What is left of a program after its first action is a program.           *)
LEMMA RestOfSeq ==
  ASSUME NEW S, NEW q \in Seq(S), q # <<>>
  PROVE  /\ Head(q) \in S /\ Tail(q) \in Seq(S) /\ Len(Tail(q)) = Len(q) - 1
         /\ \A i \in 1 .. Len(Tail(q)) : Tail(q)[i] = q[i + 1]
BY SMT, SMTT(30)

(* Two programs, one after the other, are a program.                        *)
LEMMA ConcatOfSeqs ==
  ASSUME NEW S, NEW p \in Seq(S), NEW q \in Seq(S)
  PROVE  /\ p \o q \in Seq(S) /\ Len(p \o q) = Len(p) + Len(q)
         /\ \A i \in 1 .. Len(p) + Len(q) :
              (p \o q)[i] = IF i <= Len(p) THEN p[i] ELSE q[i - Len(p)]
BY SMT, SMTT(30)

\* The programs that run after the commit move no file.
MovesNothing(program) ==
    \A i \in 1 .. Len(program) : program[i] \notin {"Move", "Restore"}

\* What Journal::open checks, with what each phase of the process knows of the
\* journal it holds: JournalReadable is not inductive without it, because a
\* later save is legal only for the phase that makes it.
JournalInv ==
    /\ work \in {"none", "active", "opened"}
    /\ disk \in Journal
    /\ mem \in Journal
    /\ proc \in {"idle", "run", "apply", "open", "refence", "reopen", "undo", "archive"}
    /\ todo \in Seq(ActionNames)
    /\ JournalReadable
    /\ proc = "idle" => todo = <<>>
    /\ proc # "idle" => mem = disk /\ work # "none"
    /\ proc = "run" => ~disk.pending
    /\ proc = "apply" => disk.pending
    /\ proc \in {"run", "apply"} => ~disk.rolling
    /\ proc \in {"run", "apply", "refence", "undo", "archive"} => ~disk.committed
    /\ proc \in {"open", "reopen"} => disk.committed /\ MovesNothing(todo)
    /\ work = "none" => ~disk.committed

(* The journal has eight steps, and each names a program of host.rs.        *)
LEMMA EightSteps == /\ Len(Steps) = 8
                    /\ \A i \in 1 .. 8 : Steps[i] \in
                          {"FenceTraffic", "Drain", "StopLegacyServices", "Snapshot",
                           "StopLegacyEngine", "Relocate", "Activate", "Qualify"}
<1>1. Len(Steps) = 8
  BY Zenon DEF Steps
<1>2. ASSUME NEW i \in 1 .. 8
      PROVE  Steps[i] \in {"FenceTraffic", "Drain", "StopLegacyServices", "Snapshot",
                           "StopLegacyEngine", "Relocate", "Activate", "Qualify"}
  <2>1. i = 1 \/ i = 2 \/ i = 3 \/ i = 4 \/ i = 5 \/ i = 6 \/ i = 7 \/ i = 8
    BY SMT, SMTT(30)
  <2> QED
    BY <2>1, SMT, SMTT(30) DEF Steps
<1> QED
  BY <1>1, <1>2, Zenon

(* Every program is a sequence of host actions.                             *)
LEMMA ProgramTypes ==
    /\ \A i \in 1 .. 8 : Apply[Steps[i]] \in Seq(ActionNames)
    /\ \A i \in 1 .. 8 : Undo[Steps[i]] \in Seq(ActionNames)
    /\ RestoreFence \in Seq(ActionNames)
    /\ ReleaseFence \in Seq(ActionNames)
<1>1. RestoreFence \in Seq(ActionNames) /\ ReleaseFence \in Seq(ActionNames)
  BY SMT, SMTT(30) DEF RestoreFence, ReleaseFence, ActionNames
<1>2. <<"LegacyHealthy">> \o ReleaseFence \in Seq(ActionNames)
  <2>1. <<"LegacyHealthy">> \in Seq(ActionNames)
    BY SMT, SMTT(30) DEF ActionNames
  <2> QED
    BY <1>1, <2>1, ConcatOfSeqs, Zenon
<1>3. \A i \in 1 .. 8 : Apply[Steps[i]] \in Seq(ActionNames)
  <2>1. /\ Apply["FenceTraffic"] \in Seq(ActionNames)
        /\ Apply["Drain"] \in Seq(ActionNames)
        /\ Apply["StopLegacyServices"] \in Seq(ActionNames)
        /\ Apply["Snapshot"] \in Seq(ActionNames)
        /\ Apply["StopLegacyEngine"] \in Seq(ActionNames)
        /\ Apply["Relocate"] \in Seq(ActionNames)
        /\ Apply["Activate"] \in Seq(ActionNames)
        /\ Apply["Qualify"] \in Seq(ActionNames)
    BY SMT, SMTT(30) DEF Apply, ActionNames
  <2> QED
    BY <2>1, EightSteps, Zenon
<1>4. \A i \in 1 .. 8 : Undo[Steps[i]] \in Seq(ActionNames)
  <2>1. /\ Undo["FenceTraffic"] \in Seq(ActionNames)
        /\ Undo["Drain"] \in Seq(ActionNames)
        /\ Undo["StopLegacyServices"] \in Seq(ActionNames)
        /\ Undo["Snapshot"] \in Seq(ActionNames)
        /\ Undo["StopLegacyEngine"] \in Seq(ActionNames)
        /\ Undo["Relocate"] \in Seq(ActionNames)
        /\ Undo["Activate"] \in Seq(ActionNames)
        /\ Undo["Qualify"] \in Seq(ActionNames)
    BY <1>2, SMT, SMTT(30) DEF Undo, ActionNames
  <2> QED
    BY <2>1, EightSteps, Zenon
<1> QED
  BY <1>1, <1>3, <1>4, Zenon

(* Opening traffic and resuming it move no file.                            *)
LEMMA OpeningMovesNothing ==
    /\ OpenTraffic \in Seq(ActionNames)
    /\ MovesNothing(OpenTraffic)
    /\ RestoreFence \o <<"StartNew">> \in Seq(ActionNames)
    /\ MovesNothing(RestoreFence \o <<"StartNew">>)
<1> DEFINE Bring == <<"DisableOld", "EnableNew", "CurrentHealthy">>
           Start == <<"StartNew">>
<1>1. /\ Bring \in Seq(ActionNames) /\ MovesNothing(Bring)
      /\ Start \in Seq(ActionNames) /\ MovesNothing(Start)
  BY SMT, SMTT(30) DEF MovesNothing, ActionNames
<1>2. /\ ReleaseFence \in Seq(ActionNames) /\ MovesNothing(ReleaseFence)
      /\ RestoreFence \in Seq(ActionNames) /\ MovesNothing(RestoreFence)
  BY SMT, SMTT(30) DEF MovesNothing, ReleaseFence, RestoreFence, ActionNames
<1>3. ASSUME NEW p \in Seq(ActionNames), NEW q \in Seq(ActionNames),
             MovesNothing(p), MovesNothing(q)
      PROVE  p \o q \in Seq(ActionNames) /\ MovesNothing(p \o q)
  BY <1>3, ConcatOfSeqs, LengthOfSeq, SMT, SMTT(30) DEF MovesNothing
<1>4. OpenTraffic = Bring \o ReleaseFence
  BY Zenon DEF OpenTraffic
<1> HIDE DEF Bring, Start
<1>5. Bring \o ReleaseFence \in Seq(ActionNames) /\ MovesNothing(Bring \o ReleaseFence)
  BY <1>1, <1>2, <1>3, Zenon
<1>6. RestoreFence \o Start \in Seq(ActionNames) /\ MovesNothing(RestoreFence \o Start)
  BY <1>1, <1>2, <1>3, Zenon
<1> QED
  BY <1>4, <1>5, <1>6, Zenon DEF Start

(* What is left of a program moves nothing when the program does.           *)
LEMMA RestMovesNothing ==
  ASSUME NEW p \in Seq(ActionNames), p # <<>>, MovesNothing(p)
  PROVE  /\ Head(p) \notin {"Move", "Restore"}
         /\ Tail(p) \in Seq(ActionNames)
         /\ MovesNothing(Tail(p))
<1>1. /\ Tail(p) \in Seq(ActionNames)
      /\ Len(Tail(p)) = Len(p) - 1
      /\ \A i \in 1 .. Len(Tail(p)) : Tail(p)[i] = p[i + 1]
  BY RestOfSeq, Zenon
<1>2. Len(p) \in Nat \ {0}
  BY LengthOfSeq, Zenon
<1>3. Head(p) = p[1]
  BY SMT, SMTT(30)
<1> QED
  BY <1>1, <1>2, <1>3, SMT, SMTT(30) DEF MovesNothing

-----------------------------------------------------------------------------
\* The effect of a host action on the process: it stays where it is or goes on
\* to the next action of its program.
Advances == /\ UNCHANGED <<work, disk, mem, proc>>
            /\ \/ todo' = todo
               \/ todo # <<>> /\ todo' = Tail(todo)

(* A host action leaves the journal and the phase of the process alone.     *)
LEMMA HostActionsAdvance == HostAction => Advances
  BY Zenon DEF HostAction, Check, InstallGuard, RemoveGuard, GuardsDone, SetFence, Seal,
         SetPermit, StartUnits, StopUnits, SetEnabled, Prepare, StopEngine,
         RestoreEngine, RemoveEngine, RemoveCurrent, MoveItem, RestoreItem,
         MovesDone, Do, Advances, journalVars, procVars

(* So do the agents, the engines and the clients.                           *)
LEMMA WorldAdvances ==
    \/ LegacyReplacesEngine
    \/ CurrentStartsEngine
    \/ LegacyWrites
    \/ \E u \in Units : ClientConnects(u)
    \/ ClientLeaves
    => Advances
  BY Zenon  DEF LegacyReplacesEngine, CurrentStartsEngine, LegacyWrites, ClientConnects,
         ClientLeaves, Advances, journalVars, procVars

(* The process ends when it refuses, dies or is ended by a reboot, and the  *)
(* journal on disk is what the next command finds.                          *)
LEMMA EndingsExit ==
    Refuse \/ Die \/ Reboot => Exit /\ UNCHANGED <<work, disk>>
  BY Zenon DEF Refuse, Die, Reboot

(* The journal is empty before the first transaction.                       *)
LEMMA JournalInvInit == Init => JournalInv
  BY EightSteps, SMT, SMTT(30) DEF Init, JournalInv, JournalReadable, Journal, Fresh

(* Going on in a program, and ending it, keep the journal readable.         *)
LEMMA AdvancesKeepJournal == JournalInv /\ Advances => JournalInv'
<1> SUFFICES ASSUME JournalInv, Advances PROVE JournalInv'
  BY Zenon
<1>1. CASE todo' = todo
  BY <1>1, Zenon DEF Advances, JournalInv, JournalReadable, MovesNothing
<1>2. CASE todo # <<>> /\ todo' = Tail(todo)
  <2>1. todo' \in Seq(ActionNames)
    BY <1>2, RestOfSeq, Zenon DEF JournalInv
  <2>2. proc \in {"open", "reopen"} => MovesNothing(todo')
    BY <1>2, RestMovesNothing, Zenon DEF JournalInv
  <2>3. MovesNothing(todo)' <=> MovesNothing(todo')
    BY Zenon DEF MovesNothing
  <2> QED
    BY <1>2, <2>1, <2>2, <2>3, Zenon DEF Advances, JournalInv, JournalReadable
<1> QED
  BY <1>1, <1>2, Zenon DEF Advances

(* The ends of the process save nothing, so the journal stays readable.     *)
LEMMA EndingsKeepJournal ==
    JournalInv /\ Exit /\ UNCHANGED <<work, disk>> => JournalInv'
  BY EightSteps, SMT, SMTT(30) DEF JournalInv, JournalReadable, Exit, Fresh, Journal

(* Every save of the journal is one that Journal::open accepts.             *)
LEMMA SavesKeepJournal == JournalInv /\ (JournalAction \/ Command) => JournalInv'
<1> SUFFICES ASSUME JournalInv, JournalAction \/ Command PROVE JournalInv'
  BY Zenon
<1> USE EightSteps DEF JournalInv, JournalReadable, Journal
<1>0. mem.done \in 0 .. 8 /\ disk.done \in 0 .. 8
  BY Zenon
<1>1. CASE Stage
  BY <1>1, SMT, SMTT(30) DEF Stage, Save, Fresh
<1>2. CASE BeginStep
  <2>1. mem.done + 1 \in 1 .. 8
    BY <1>0, <1>2, SMT, SMTT(30) DEF BeginStep
  <2>2. todo' \in Seq(ActionNames)
    BY <1>2, <2>1, ProgramTypes, Zenon DEF BeginStep
  <2> QED
    BY <1>2, <2>2, Zenon DEF BeginStep, Save
<1>3. CASE FinishStep
  <2> DEFINE saved == [mem EXCEPT !.done = @ + 1, !.pending = FALSE]
  <2>1. mem = disk /\ mem.done < 8 /\ ~mem.rolling /\ ~mem.committed
    BY <1>3, Zenon DEF FinishStep
  <2>2. saved \in Journal /\ ~saved.pending /\ ~saved.rolling /\ ~saved.committed
    <3>1. mem.done + 1 \in 0 .. 8
      BY <1>0, <2>1, SMT, SMTT(30)
    <3>2. mem \in Journal
      BY Zenon
    <3> HIDE DEF JournalInv
    <3> QED
      BY <2>1, <3>1, <3>2, Zenon
  <2>3. mem' = saved /\ disk' = saved /\ proc' = "run" /\ todo' = <<>> /\ work' = work
    BY <1>3, Zenon DEF FinishStep, Save
  <2> HIDE DEF saved
  <2> QED
    BY <1>3, <2>2, <2>3, Zenon DEF FinishStep
<1>4. CASE Commit
  <2>1. MovesNothing(todo)'
    BY <1>4, OpeningMovesNothing, Zenon DEF Commit, MovesNothing
  <2>2. todo' \in Seq(ActionNames)
    BY <1>4, OpeningMovesNothing, Zenon DEF Commit
  <2> QED
    BY <1>4, <2>1, <2>2, Zenon DEF Commit, Save
<1>5. CASE Opened
  BY <1>5, SMT, SMTT(30) DEF Opened, Exit, Fresh
<1>6. ASSUME NEW approved \in BOOLEAN, Recover(approved) PROVE JournalInv'
  <2>1. todo' \in Seq(ActionNames)
    BY <1>6, ProgramTypes, Zenon DEF Recover
  <2> QED
    BY <1>6, <2>1, Zenon DEF Recover, Save
<1>7. ASSUME NEW j \in Journal, j.pending => j.done < 8
      PROVE  UndoOf(j) \in Seq(ActionNames)
  <2>0. j.done \in 0 .. 8
    BY <1>7, Zenon
  <2>1. CASE j.pending
    <3>1. j.done + 1 \in 1 .. 8
      BY <1>7, <2>0, <2>1, SMT, SMTT(30)
    <3> QED
      BY <2>1, <3>1, ProgramTypes, Zenon DEF UndoOf
  <2>2. CASE ~j.pending /\ j.done > 0
    <3>1. j.done \in 1 .. 8
      BY <2>0, <2>2, SMT, SMTT(30)
    <3> QED
      BY <2>2, <3>1, ProgramTypes, Zenon DEF UndoOf
  <2>3. CASE ~j.pending /\ ~(j.done > 0)
    BY <2>3, LengthOfSeq, Zenon DEF UndoOf
  <2> QED
    BY <2>1, <2>2, <2>3, Zenon
<1>8. CASE BeginRollback
  <2>1. todo' \in Seq(ActionNames)
    BY <1>7, <1>8, Zenon DEF BeginRollback
  <2> QED
    BY <1>8, <2>1, Zenon DEF BeginRollback, Save
<1>9. CASE UndoneStep
  <2>1. Undone(mem) \in Journal /\ (Undone(mem).pending => Undone(mem).done < 8)
    <3>1. CASE mem.pending
      BY <1>0, <3>1, Zenon DEF Undone
    <3>2. CASE ~mem.pending
      <4>1. mem.done - 1 \in 0 .. 8
        BY <1>0, <1>9, <3>2, SMT, SMTT(30) DEF UndoneStep, Outstanding
      <4> QED
        BY <1>0, <3>2, <4>1, Zenon DEF Undone
    <3> QED
      BY <3>1, <3>2, Zenon
  <2>2. ~Undone(mem).committed
    BY <1>9, Zenon DEF UndoneStep, Undone
  <2>3. todo' \in Seq(ActionNames)
    BY <1>7, <1>9, <2>1, Zenon DEF UndoneStep, Save
  <2> QED
    BY <1>9, <2>1, <2>2, <2>3, Zenon DEF UndoneStep, Save
<1>10. CASE RolledBack
  BY <1>10, Zenon DEF RolledBack, Save
<1>11. CASE Archive
  BY <1>11, SMT, SMTT(30) DEF Archive, Exit, Fresh
<1>12. CASE Resume
  <2>1. MovesNothing(todo)'
    BY <1>12, OpeningMovesNothing, Zenon DEF Resume, MovesNothing
  <2>2. todo' \in Seq(ActionNames)
    BY <1>12, OpeningMovesNothing, Zenon DEF Resume
  <2> QED
    BY <1>12, <2>1, <2>2, Zenon DEF Resume, Save
<1>13. CASE BeginOpening
  <2>1. MovesNothing(todo)'
    BY <1>13, OpeningMovesNothing, Zenon DEF BeginOpening, MovesNothing
  <2>2. todo' \in Seq(ActionNames)
    BY <1>13, OpeningMovesNothing, Zenon DEF BeginOpening
  <2> QED
    BY <1>13, <2>1, <2>2, Zenon DEF BeginOpening, journalVars
<1> QED
  BY <1>1, <1>2, <1>3, <1>4, <1>5, <1>6, <1>8, <1>9, <1>10, <1>11, <1>12, <1>13, Zenon
     DEF JournalAction, Command

(* The journal invariant is inductive.                                      *)
LEMMA JournalInvStep == JournalInv /\ [Next]_vars => JournalInv'
<1> SUFFICES ASSUME JournalInv, [Next]_vars PROVE JournalInv'
  BY Zenon
<1>1. CASE HostAction
  BY <1>1, HostActionsAdvance, AdvancesKeepJournal, Zenon
<1>2. CASE JournalAction \/ Command
  BY <1>2, SavesKeepJournal, Zenon
<1>3. CASE Refuse
  BY <1>3, EndingsExit, EndingsKeepJournal, Zenon
<1>4. CASE Environment
  BY <1>4, EndingsExit, EndingsKeepJournal, WorldAdvances, AdvancesKeepJournal, Zenon
     DEF Environment
<1>5. CASE UNCHANGED vars
  <2>1. Advances
    BY <1>5, Zenon DEF vars, journalVars, procVars, Advances
  <2> QED
    BY <2>1, AdvancesKeepJournal, Zenon
<1> QED
  BY <1>1, <1>2, <1>3, <1>4, <1>5, Zenon DEF Next

(* Whatever interrupts the process, Journal::open accepts what it finds.    *)
THEOREM JournalAlwaysReadable == Spec => []JournalReadable
<1>1. JournalInv => JournalReadable
  BY Zenon DEF JournalInv
<1> QED
  BY <1>1, JournalInvInit, JournalInvStep, PTL DEF Spec

-----------------------------------------------------------------------------
(* A file moves only in a program that has a move left.                     *)
LEMMA OnlyMovesMove ==
    [Next]_vars /\ moved' # moved => todo # <<>> /\ Head(todo) \in {"Move", "Restore"}
<1> SUFFICES ASSUME [Next]_vars, ~(todo # <<>> /\ Head(todo) \in {"Move", "Restore"})
             PROVE  moved' = moved
  BY Zenon
<1> USE DEF hostVars, dataVars
<1>1. CASE HostAction
  BY <1>1, Zenon DEF HostAction, Check, InstallGuard, RemoveGuard, GuardsDone, SetFence, Seal,
         SetPermit, StartUnits, StopUnits, SetEnabled, Prepare, StopEngine,
         RestoreEngine, RemoveEngine, RemoveCurrent, MoveItem, RestoreItem, MovesDone
<1>2. CASE JournalAction
  BY <1>2, Zenon DEF JournalAction, BeginStep, FinishStep, Commit, Opened, BeginRollback,
         UndoneStep, RolledBack, Archive, BeginOpening
<1>3. CASE Refuse \/ Command
  BY <1>3, Zenon DEF Refuse, Command, Stage, Recover, Resume
<1>4. CASE Environment
  BY <1>4, Zenon DEF Environment, Die, Reboot, LegacyReplacesEngine, CurrentStartsEngine,
         LegacyWrites, ClientConnects, ClientLeaves
<1>5. CASE UNCHANGED vars
  BY <1>5, Zenon DEF vars
<1> QED
  BY <1>1, <1>2, <1>3, <1>4, <1>5, Zenon DEF Next

(* No save made after the commit takes it back.                             *)
LEMMA CommitStays == JournalInv /\ [Next]_vars /\ disk.committed => disk'.committed
<1> SUFFICES ASSUME JournalInv, [Next]_vars, disk.committed PROVE disk'.committed
  BY Zenon
<1>1. proc \in {"idle", "open", "reopen"} /\ work # "none" /\ disk \in Journal
  BY Zenon DEF JournalInv
<1>2. CASE JournalAction \/ Command
  BY <1>1, <1>2, Zenon DEF JournalAction, Command, BeginStep, FinishStep, Commit, Opened,
     BeginRollback, UndoneStep, RolledBack, Archive, BeginOpening, Stage, Recover,
     Resume, Save, journalVars
<1>3. CASE HostAction
  BY <1>3, HostActionsAdvance, Zenon DEF Advances
<1>4. CASE Refuse
  BY <1>4, EndingsExit, Zenon
<1>5. CASE Environment
  BY <1>5, EndingsExit, WorldAdvances, Zenon DEF Environment, Advances
<1>6. CASE UNCHANGED vars
  BY <1>6, Zenon DEF vars, journalVars
<1> QED
  BY <1>2, <1>3, <1>4, <1>5, <1>6, Zenon DEF Next

(* "committed migrations cannot restore stale state": once the commit is     *)
(* durable it stays so, and nothing moves a file of the current layout back. *)
THEOREM CommittedIsFinal == Spec => CommitIsFinal
<1>1. JournalInv /\ [Next]_vars => [disk.committed => disk'.committed /\ moved' = moved]_vars
  <2> SUFFICES ASSUME JournalInv, [Next]_vars, disk.committed
               PROVE  disk'.committed /\ moved' = moved
    BY Zenon
  <2>1. disk'.committed
    BY CommitStays, Zenon
  <2>2. todo # <<>> => Head(todo) \notin {"Move", "Restore"}
    BY RestMovesNothing, Zenon DEF JournalInv
  <2> QED
    BY <2>1, <2>2, OnlyMovesMove, Zenon
<1> QED
  BY <1>1, JournalInvInit, JournalInvStep, PTL DEF Spec, CommitIsFinal
-----------------------------------------------------------------------------
(* The host.  How many steps the journal on disk says were begun and not     *)
(* undone, the program the process is in, and what is left of it.            *)

Count == disk.done + (IF disk.pending THEN 1 ELSE 0)

Program ==
    CASE proc = "apply"   -> Apply[Steps[Count]]
      [] proc = "undo"    -> IF Count = 0 THEN <<>> ELSE Undo[Steps[Count]]
      [] proc = "refence" -> RestoreFence
      [] proc = "reopen"  -> RestoreFence \o <<"StartNew">>
      [] proc = "open"    -> OpenTraffic
      [] OTHER            -> <<>>

\* The process has the last Len(todo) actions of the program left to do.
IsRest(rest, program) ==
    /\ Len(rest) <= Len(program)
    /\ \A i \in 1 .. Len(rest) : rest[i] = program[Len(program) - Len(rest) + i]

\* Step number k was applied to its end and has not been undone.
Finished(k) ==
    \/ Count > k
    \/ Count = k /\ proc = "run"
    \/ Count = k /\ proc = "apply" /\ Len(todo) = 0

ProgramInv ==
    /\ IsRest(todo, Program)
    /\ work = "none" => disk = Fresh
    /\ proc = "archive" => Count = 0

\* The fence and the guards: in place from the first step on while the process
\* runs, the guards even when it does not, until recovery has undone the second
\* step or the legacy units are disabled for good.
GateInv ==
    /\ enabled \subseteq Units
    /\ Count >= 2 /\ ~disk.committed => guards = Units
    /\ proc = "run" /\ Count >= 1 => guards = Units /\ fence # "none"
    /\ proc = "apply" /\ Count = 1 /\ Len(todo) <= 2 => guards = Units
    /\ proc = "apply" /\ Count = 1 /\ Len(todo) <= 1 => fence # "none"
    /\ proc = "apply" /\ Count >= 2 => fence # "none"
    /\ disk.committed => "legacy" \in guards \/ "legacy" \notin enabled
    /\ proc = "open" /\ Len(todo) <= 5 => "legacy" \notin enabled
    /\ enabled # {"legacy"} => disk.committed

\* The services: the legacy ones are down from the end of the third step to
\* its undoing, the current ones are up only after the seventh was begun.
UnitInv ==
    /\ up \subseteq Units
    /\ Finished(3) => "legacy" \notin up
    /\ "current" \in up \/ current # "absent" => Count >= 7
    /\ proc = "undo" /\ Count = 7 /\ Len(todo) <= 1 => "current" \notin up
    /\ proc = "undo" /\ Count = 7 /\ Len(todo) = 0 => current = "absent"

\* The legacy engine: the one of the plan until recovery starts, stopped from
\* the end of the fifth step to its undoing, and removed by the eighth only.
EngineInv ==
    /\ legacy \in [state : {"running", "stopped", "removed"}, gen : Nat]
    /\ proc \in {"run", "apply"} => legacy.gen = plan
    /\ proc \in {"run", "apply"} /\ Count < 8 => legacy.state # "removed"
    /\ Finished(5) => legacy.state # "running"
    /\ legacy.state = "removed" => Count >= 3
    /\ proc = "undo" /\ Count = 3 /\ Len(todo) = 0 => legacy.state # "removed"

\* The data: the snapshot is complete from the end of the fourth step on, and
\* all files are at their new places between the end of the sixth and its
\* undoing.
DataInv ==
    /\ Finished(4) => snap = version
    /\ moved # {} => Count >= 6
    /\ Finished(6) => moved = Items
    /\ proc = "undo" /\ Count = 6 /\ Len(todo) = 0 => moved = {}

(* The programs, action by action.                                          *)
LEMMA ProgramTable ==
    /\ Len(Apply[Steps[1]]) = 4
    /\ Apply[Steps[1]][1] = "RequireUnfenced" /\ Apply[Steps[1]][2] = "InstallGuards"
    /\ Apply[Steps[1]][3] = "Fence" /\ Apply[Steps[1]][4] = "Permit"
    /\ Len(Apply[Steps[2]]) = 4
    /\ Apply[Steps[2]][1] = "AwaitDrained" /\ Apply[Steps[2]][2] = "Seal"
    /\ Apply[Steps[2]][3] = "LegacyHealthy" /\ Apply[Steps[2]][4] = "Measure"
    /\ Len(Apply[Steps[3]]) = 2
    /\ Apply[Steps[3]][1] = "VerifySources" /\ Apply[Steps[3]][2] = "StopOld"
    /\ Len(Apply[Steps[4]]) = 2
    /\ Apply[Steps[4]][1] = "VerifySources" /\ Apply[Steps[4]][2] = "Prepare"
    /\ Len(Apply[Steps[5]]) = 1 /\ Apply[Steps[5]][1] = "StopEngine"
    /\ Len(Apply[Steps[6]]) = 1 /\ Apply[Steps[6]][1] = "Move"
    /\ Len(Apply[Steps[7]]) = 1 /\ Apply[Steps[7]][1] = "StartNew"
    /\ Len(Apply[Steps[8]]) = 4
    /\ Apply[Steps[8]][1] = "CurrentHealthy" /\ Apply[Steps[8]][2] = "Measure"
    /\ Apply[Steps[8]][3] = "RemoveEngine" /\ Apply[Steps[8]][4] = "CurrentHealthy"
    /\ Len(Undo[Steps[1]]) = 4
    /\ Undo[Steps[1]][1] = "LegacyHealthy" /\ Undo[Steps[1]][2] = "Unfence"
    /\ Undo[Steps[1]][3] = "RemoveGuards" /\ Undo[Steps[1]][4] = "Unpermit"
    /\ Len(Undo[Steps[2]]) = 0
    /\ Len(Undo[Steps[3]]) = 2
    /\ Undo[Steps[3]][1] = "StartOld" /\ Undo[Steps[3]][2] = "LegacyHealthy"
    /\ Len(Undo[Steps[4]]) = 0
    /\ Len(Undo[Steps[5]]) = 1 /\ Undo[Steps[5]][1] = "RestoreEngine"
    /\ Len(Undo[Steps[6]]) = 1 /\ Undo[Steps[6]][1] = "Restore"
    /\ Len(Undo[Steps[7]]) = 2
    /\ Undo[Steps[7]][1] = "StopNew" /\ Undo[Steps[7]][2] = "RemoveCurrent"
    /\ Len(Undo[Steps[8]]) = 0
<1>1. /\ Steps[1] = "FenceTraffic" /\ Steps[2] = "Drain"
      /\ Steps[3] = "StopLegacyServices" /\ Steps[4] = "Snapshot"
      /\ Steps[5] = "StopLegacyEngine" /\ Steps[6] = "Relocate"
      /\ Steps[7] = "Activate" /\ Steps[8] = "Qualify"
  BY Zenon  DEF Steps
<1>2. /\ Apply["FenceTraffic"] = <<"RequireUnfenced", "InstallGuards", "Fence", "Permit">>
      /\ Apply["Drain"] = <<"AwaitDrained", "Seal", "LegacyHealthy", "Measure">>
      /\ Apply["StopLegacyServices"] = <<"VerifySources", "StopOld">>
      /\ Apply["Snapshot"] = <<"VerifySources", "Prepare">>
      /\ Apply["StopLegacyEngine"] = <<"StopEngine">>
      /\ Apply["Relocate"] = <<"Move">>
      /\ Apply["Activate"] = <<"StartNew">>
      /\ Apply["Qualify"] = <<"CurrentHealthy", "Measure", "RemoveEngine", "CurrentHealthy">>
  BY Zenon  DEF Apply
<1>3. /\ Undo["FenceTraffic"] = <<"LegacyHealthy">> \o ReleaseFence
      /\ Undo["Drain"] = <<>>
      /\ Undo["StopLegacyServices"] = <<"StartOld", "LegacyHealthy">>
      /\ Undo["Snapshot"] = <<>>
      /\ Undo["StopLegacyEngine"] = <<"RestoreEngine">>
      /\ Undo["Relocate"] = <<"Restore">>
      /\ Undo["Activate"] = <<"StopNew", "RemoveCurrent">>
      /\ Undo["Qualify"] = <<>>
  BY Zenon DEF Undo
<1>4. LET p == <<"LegacyHealthy">> \o ReleaseFence
      IN  /\ Len(p) = 4
          /\ p[1] = "LegacyHealthy" /\ p[2] = "Unfence"
          /\ p[3] = "RemoveGuards" /\ p[4] = "Unpermit"
  BY SMT, SMTT(30) DEF ReleaseFence
<1> QED
  BY <1>1, <1>2, <1>3, <1>4, SMT, SMTT(30)

(* The programs of recovery and of opening traffic, action by action.       *)
LEMMA FenceTable ==
    /\ Len(RestoreFence) = 4
    /\ RestoreFence[1] = "InstallGuards" /\ RestoreFence[2] = "EnsureFence"
    /\ RestoreFence[3] = "Seal" /\ RestoreFence[4] = "Permit"
    /\ Len(RestoreFence \o <<"StartNew">>) = 5
    /\ (RestoreFence \o <<"StartNew">>)[1] = "InstallGuards"
    /\ (RestoreFence \o <<"StartNew">>)[2] = "EnsureFence"
    /\ (RestoreFence \o <<"StartNew">>)[3] = "Seal"
    /\ (RestoreFence \o <<"StartNew">>)[4] = "Permit"
    /\ (RestoreFence \o <<"StartNew">>)[5] = "StartNew"
    /\ Len(OpenTraffic) = 6
    /\ OpenTraffic[1] = "DisableOld" /\ OpenTraffic[2] = "EnableNew"
    /\ OpenTraffic[3] = "CurrentHealthy" /\ OpenTraffic[4] = "Unfence"
    /\ OpenTraffic[5] = "RemoveGuards" /\ OpenTraffic[6] = "Unpermit"
  BY SMT, SMTT(30) DEF RestoreFence, OpenTraffic, ReleaseFence

(* What the journal invariant says of the count.                            *)
LEMMA CountRange ==
  ASSUME JournalInv
  PROVE  /\ Count \in 0 .. 8
         /\ proc = "run" => Count = disk.done
         /\ proc = "apply" => Count = disk.done + 1
         /\ disk.committed => Count = 8
<1>1. disk.done \in 0 .. 8 /\ disk.pending \in BOOLEAN
  BY EightSteps, Zenon DEF JournalInv, Journal
<1>2. disk.pending => disk.done < 8
  BY EightSteps, Zenon DEF JournalInv, JournalReadable
<1>3. CASE disk.pending
  BY <1>1, <1>2, <1>3, EightSteps, SMT, SMTT(30) DEF JournalInv, JournalReadable, Count
<1>4. CASE ~disk.pending
  BY <1>1, <1>4, EightSteps, SMT, SMTT(30) DEF JournalInv, JournalReadable, Count
<1> QED
  BY <1>3, <1>4, Zenon

(* The next action of what is left of a program, and what is left after it. *)
LEMMA RestAdvances ==
  ASSUME NEW rest \in Seq(ActionNames), rest # <<>>, NEW program,
         Len(program) \in Nat, IsRest(rest, program)
  PROVE  /\ Len(rest) \in 1 .. Len(program)
         /\ Head(rest) = program[Len(program) - Len(rest) + 1]
         /\ Len(Tail(rest)) = Len(rest) - 1
         /\ IsRest(Tail(rest), program)
<1>1. /\ Tail(rest) \in Seq(ActionNames)
      /\ Len(Tail(rest)) = Len(rest) - 1
      /\ \A i \in 1 .. Len(Tail(rest)) : Tail(rest)[i] = rest[i + 1]
  BY RestOfSeq, Zenon
<1>2. Len(rest) \in Nat \ {0}
  BY LengthOfSeq, Zenon
<1>3. Head(rest) = rest[1]
  BY SMT, SMTT(30)
<1>4. ASSUME NEW i \in 1 .. Len(Tail(rest))
      PROVE  Tail(rest)[i] = program[Len(program) - Len(Tail(rest)) + i]
  <2>1. i + 1 \in 1 .. Len(rest)
    BY <1>1, <1>2, SMT, SMTT(30)
  <2>2. rest[i + 1] = program[Len(program) - Len(rest) + (i + 1)]
    BY <2>1, Zenon DEF IsRest
  <2>3. Len(program) - Len(rest) + (i + 1) = Len(program) - Len(Tail(rest)) + i
    BY <1>1, <1>2, SMT, SMTT(30)
  <2> QED
    BY <1>1, <2>2, <2>3, Zenon
<1> QED
  BY <1>1, <1>2, <1>3, <1>4, SMT, SMTT(30) DEF IsRest

(* The whole program is what is left when it starts.                        *)
LEMMA RestStarts ==
  ASSUME NEW program, Len(program) \in Nat
  PROVE  IsRest(program, program) /\ IsRest(<<>>, program)
<1>1. ASSUME NEW i \in 1 .. Len(program)
      PROVE  program[i] = program[Len(program) - Len(program) + i]
  <2>1. Len(program) - Len(program) + i = i
    BY SMT, SMTT(30)
  <2> QED
    BY <2>1, Zenon
<1>2. Len(<<>>) = 0
  BY Zenon
<1> QED
  BY <1>1, <1>2, SMT, SMTT(30) DEF IsRest

(* The action that comes next, by the number of actions left.               *)
LEMMA NextAction ==
  ASSUME NEW rest \in Seq(ActionNames), rest # <<>>, NEW program,
         Len(program) \in 0 .. 6, IsRest(rest, program)
  PROVE  /\ Len(program) # 0
         /\ Len(rest) \in 1 .. 6
         /\ \/ Len(rest) = Len(program) /\ Head(rest) = program[1]
            \/ Len(rest) = Len(program) - 1 /\ Head(rest) = program[2]
            \/ Len(rest) = Len(program) - 2 /\ Head(rest) = program[3]
            \/ Len(rest) = Len(program) - 3 /\ Head(rest) = program[4]
            \/ Len(rest) = Len(program) - 4 /\ Head(rest) = program[5]
            \/ Len(rest) = Len(program) - 5 /\ Head(rest) = program[6]
<1>1. /\ Len(rest) \in 1 .. Len(program)
      /\ Head(rest) = program[Len(program) - Len(rest) + 1]
  BY RestAdvances, SMT, SMTT(30)
<1> DEFINE k == Len(program) - Len(rest) + 1
<1>2. k = 1 \/ k = 2 \/ k = 3 \/ k = 4 \/ k = 5 \/ k = 6
  BY <1>1, SMT, SMTT(30)
<1>3. Head(rest) = program[k] /\ Len(rest) = Len(program) - k + 1
  BY <1>1, SMT, SMTT(30)
<1> HIDE DEF k
<1>4. Len(program) # 0 /\ Len(rest) \in 1 .. 6
  <2> SUFFICES ASSUME NEW n \in 0 .. 6, NEW l \in 1 .. n
               PROVE  n # 0 /\ l \in 1 .. 6
    BY <1>1, Zenon
  <2> QED
    BY SMT, SMTT(30)
<1>5. \/ Len(rest) = Len(program) /\ Head(rest) = program[1]
      \/ Len(rest) = Len(program) - 1 /\ Head(rest) = program[2]
      \/ Len(rest) = Len(program) - 2 /\ Head(rest) = program[3]
      \/ Len(rest) = Len(program) - 3 /\ Head(rest) = program[4]
      \/ Len(rest) = Len(program) - 4 /\ Head(rest) = program[5]
      \/ Len(rest) = Len(program) - 5 /\ Head(rest) = program[6]
  <2> SUFFICES ASSUME NEW h, NEW l, NEW n \in 0 .. 6, l = n - k + 1, h = program[k]
               PROVE  \/ l = n /\ h = program[1]
                      \/ l = n - 1 /\ h = program[2]
                      \/ l = n - 2 /\ h = program[3]
                      \/ l = n - 3 /\ h = program[4]
                      \/ l = n - 4 /\ h = program[5]
                      \/ l = n - 5 /\ h = program[6]
    BY <1>3, ZenonT(40)
  <2> QED
    BY <1>2, SMT, SMTT(30)
<1> QED
  BY <1>4, <1>5, Zenon

\* The process is in phase ph, with c steps begun.
At(ph, c) == proc = ph /\ Count = c

\* Where in the migration the next action of the process can be h, with l
\* actions of its program left.
Place(h, l) ==
    /\ h = "InstallGuards" =>
         (At("apply", 1) /\ l = 3) \/ proc \in {"refence", "reopen"}
    /\ h = "EnsureFence" => proc \in {"refence", "reopen"}
    /\ h = "Seal" => (At("apply", 2) /\ l = 3) \/ proc \in {"refence", "reopen"}
    /\ h = "Permit" => (At("apply", 1) /\ l = 1) \/ proc \in {"refence", "reopen"}
    /\ h = "Fence" => At("apply", 1) /\ l = 2
    /\ h = "Unfence" => (At("undo", 1) /\ l = 3) \/ (proc = "open" /\ l = 3)
    /\ h = "RemoveGuards" => (At("undo", 1) /\ l = 2) \/ (proc = "open" /\ l = 2)
    /\ h = "Unpermit" => (At("undo", 1) /\ l = 1) \/ (proc = "open" /\ l = 1)
    /\ h = "StopOld" => At("apply", 3) /\ l = 1
    /\ h = "StartOld" => At("undo", 3) /\ l = 2
    /\ h = "Prepare" => At("apply", 4) /\ l = 1
    /\ h = "StopEngine" => At("apply", 5) /\ l = 1
    /\ h = "RestoreEngine" => At("undo", 5) /\ l = 1
    /\ h = "Move" => At("apply", 6) /\ l = 1
    /\ h = "Restore" => At("undo", 6) /\ l = 1
    /\ h = "StartNew" => (At("apply", 7) /\ l = 1) \/ proc = "reopen"
    /\ h = "StopNew" => At("undo", 7) /\ l = 2
    /\ h = "RemoveCurrent" => At("undo", 7) /\ l = 1
    /\ h = "RemoveEngine" => At("apply", 8) /\ l = 2
    /\ h = "DisableOld" => proc = "open" /\ l = 6
    /\ h = "EnableNew" => proc = "open" /\ l = 5
    /\ h = "LegacyHealthy" =>
         (At("apply", 2) /\ l = 2) \/ (At("undo", 1) /\ l = 4) \/ (At("undo", 3) /\ l = 1)
    /\ h = "CurrentHealthy" => At("apply", 8) \/ (proc = "open" /\ l = 4)
    /\ h = "RequireUnfenced" => At("apply", 1) /\ l = 4
    /\ h = "AwaitDrained" => At("apply", 2) /\ l = 4
    /\ h = "VerifySources" => (At("apply", 3) /\ l = 2) \/ (At("apply", 4) /\ l = 2)
    /\ h = "Measure" => (At("apply", 2) /\ l = 1) \/ (At("apply", 8) /\ l = 3)

(* A program has at most six actions.                                       *)
LEMMA ProgramLength == JournalInv => Len(Program) \in 0 .. 6
<1> SUFFICES ASSUME JournalInv PROVE Len(Program) \in 0 .. 6
  BY Zenon
<1>1. Count \in 0 .. 8 /\ (proc = "apply" => Count \in 1 .. 8)
  BY CountRange, EightSteps, SMT, SMTT(30) DEF JournalInv, Journal
<1>2. \A c \in 1 .. 8 : Len(Apply[Steps[c]]) \in 0 .. 6 /\ Len(Undo[Steps[c]]) \in 0 .. 6
  <2> SUFFICES ASSUME NEW c \in 1 .. 8
               PROVE  Len(Apply[Steps[c]]) \in 0 .. 6 /\ Len(Undo[Steps[c]]) \in 0 .. 6
    BY Zenon
  <2>1. c = 1 \/ c = 2 \/ c = 3 \/ c = 4 \/ c = 5 \/ c = 6 \/ c = 7 \/ c = 8
    BY SMT, SMTT(30)
  <2> QED
    BY <2>1, ProgramTable, SMT, SMTT(30)
<1>3. CASE proc = "apply"
  <2>1. Program = Apply[Steps[Count]]
    BY <1>3, Zenon DEF Program
  <2> QED
    BY <1>1, <1>2, <1>3, <2>1, Zenon
<1>4. CASE proc = "undo" /\ Count = 0
  <2>1. Program = <<>>
    BY <1>4, Zenon DEF Program
  <2> QED
    BY <2>1, SMT, SMTT(30)
<1>5. CASE proc = "undo" /\ Count # 0
  <2>1. Program = Undo[Steps[Count]] /\ Count \in 1 .. 8
    BY <1>1, <1>5, SMT, SMTT(30) DEF Program
  <2> QED
    BY <1>2, <2>1, Zenon
<1>6. CASE proc = "refence"
  BY <1>6, FenceTable, SMT, SMTT(30) DEF Program
<1>7. CASE proc = "reopen"
  BY <1>7, FenceTable, SMT, SMTT(30) DEF Program
<1>8. CASE proc = "open"
  BY <1>8, FenceTable, SMT, SMTT(30) DEF Program
<1>9. CASE proc \notin {"apply", "undo", "refence", "reopen", "open"}
  BY <1>9, SMT, SMTT(30) DEF Program
<1> QED
  BY <1>3, <1>4, <1>5, <1>6, <1>7, <1>8, <1>9, Zenon

(* The next action tells the phase, the step and how far the program is.    *)
LEMMA Placed ==
  ASSUME JournalInv, ProgramInv, todo # <<>>
  PROVE  /\ Len(todo) \in 1 .. 6
         /\ Place(Head(todo), Len(todo))
<1>1. todo \in Seq(ActionNames) /\ IsRest(todo, Program) /\ Len(Program) \in 0 .. 6
  BY ProgramLength, Zenon DEF ProgramInv, JournalInv
<1> SUFFICES ASSUME NEW h, NEW l, NEW p, h = Head(todo), l = Len(todo), p = Program
             PROVE  l \in 1 .. 6 /\ Place(h, l)
  BY Zenon
<1>2. /\ Len(p) # 0
      /\ l \in 1 .. 6
      /\ \/ l = Len(p) /\ h = p[1]
         \/ l = Len(p) - 1 /\ h = p[2]
         \/ l = Len(p) - 2 /\ h = p[3]
         \/ l = Len(p) - 3 /\ h = p[4]
         \/ l = Len(p) - 4 /\ h = p[5]
         \/ l = Len(p) - 5 /\ h = p[6]
  BY <1>1, NextAction, ZenonT(40)
<1>3. Count \in 0 .. 8 /\ (proc = "apply" => Count \in 1 .. 8)
  BY CountRange, EightSteps, SMT, SMTT(30) DEF JournalInv, Journal
<1>4. CASE proc = "apply"
  <2>1. p = Apply[Steps[Count]]
    BY <1>4, Zenon DEF Program
  <2>2. \/ Count = 1 \/ Count = 2 \/ Count = 3 \/ Count = 4
        \/ Count = 5 \/ Count = 6 \/ Count = 7 \/ Count = 8
    BY <1>3, <1>4, SMT, SMTT(30)
  <2>11. CASE Count = 1
    <3>1. Len(p) = 4 /\ p[1] = "RequireUnfenced" /\ p[2] = "InstallGuards" /\ p[3] = "Fence" /\ p[4] = "Permit"
      BY <2>1, <2>11, ProgramTable, ZenonT(40), SMTT(30)
    <3>2. \/ (l = 4 /\ h = "RequireUnfenced") \/ (l = 3 /\ h = "InstallGuards")
          \/ (l = 2 /\ h = "Fence") \/ (l = 1 /\ h = "Permit")
      BY <1>2, <3>1, SMT, SMTT(30)
    <3> QED
      BY <1>2, <1>4, <2>11, <3>2, Zenon DEF Place, At
  <2>12. CASE Count = 2
    <3>1. Len(p) = 4 /\ p[1] = "AwaitDrained" /\ p[2] = "Seal" /\ p[3] = "LegacyHealthy" /\ p[4] = "Measure"
      BY <2>1, <2>12, ProgramTable, ZenonT(40), SMTT(30)
    <3>2. \/ (l = 4 /\ h = "AwaitDrained") \/ (l = 3 /\ h = "Seal")
          \/ (l = 2 /\ h = "LegacyHealthy") \/ (l = 1 /\ h = "Measure")
      BY <1>2, <3>1, SMT, SMTT(30)
    <3> QED
      BY <1>2, <1>4, <2>12, <3>2, Zenon DEF Place, At
  <2>13. CASE Count = 3
    <3>1. Len(p) = 2 /\ p[1] = "VerifySources" /\ p[2] = "StopOld"
      BY <2>1, <2>13, ProgramTable, ZenonT(40), SMTT(30)
    <3>2. (l = 2 /\ h = "VerifySources") \/ (l = 1 /\ h = "StopOld")
      BY <1>2, <3>1, SMT, SMTT(30)
    <3> QED
      BY <1>2, <1>4, <2>13, <3>2, Zenon DEF Place, At
  <2>14. CASE Count = 4
    <3>1. Len(p) = 2 /\ p[1] = "VerifySources" /\ p[2] = "Prepare"
      BY <2>1, <2>14, ProgramTable, ZenonT(40), SMTT(30)
    <3>2. (l = 2 /\ h = "VerifySources") \/ (l = 1 /\ h = "Prepare")
      BY <1>2, <3>1, SMT, SMTT(30)
    <3> QED
      BY <1>2, <1>4, <2>14, <3>2, Zenon DEF Place, At
  <2>15. CASE Count = 5
    <3>1. Len(p) = 1 /\ p[1] = "StopEngine"
      BY <2>1, <2>15, ProgramTable, ZenonT(40), SMTT(30)
    <3>2. (l = 1 /\ h = "StopEngine")
      BY <1>2, <3>1, SMT, SMTT(30)
    <3> QED
      BY <1>2, <1>4, <2>15, <3>2, Zenon DEF Place, At
  <2>16. CASE Count = 6
    <3>1. Len(p) = 1 /\ p[1] = "Move"
      BY <2>1, <2>16, ProgramTable, ZenonT(40), SMTT(30)
    <3>2. (l = 1 /\ h = "Move")
      BY <1>2, <3>1, SMT, SMTT(30)
    <3> QED
      BY <1>2, <1>4, <2>16, <3>2, Zenon DEF Place, At
  <2>17. CASE Count = 7
    <3>1. Len(p) = 1 /\ p[1] = "StartNew"
      BY <2>1, <2>17, ProgramTable, ZenonT(40)
    <3>2. (l = 1 /\ h = "StartNew")
      BY <1>2, <3>1, SMT, SMTT(30)
    <3> QED
      BY <1>2, <1>4, <2>17, <3>2, Zenon DEF Place, At
  <2>18. CASE Count = 8
    <3>1. Len(p) = 4 /\ p[1] = "CurrentHealthy" /\ p[2] = "Measure" /\ p[3] = "RemoveEngine" /\ p[4] = "CurrentHealthy"
      BY <2>1, <2>18, ProgramTable, ZenonT(40), SMTT(30)
    <3>2. \/ (l = 4 /\ h = "CurrentHealthy") \/ (l = 3 /\ h = "Measure")
          \/ (l = 2 /\ h = "RemoveEngine") \/ (l = 1 /\ h = "CurrentHealthy")
      BY <1>2, <3>1, SMT, SMTT(30)
    <3> QED
      BY <1>2, <1>4, <2>18, <3>2, Zenon DEF Place, At
  <2> QED
    BY <1>2, <2>2, <2>11, <2>12, <2>13, <2>14, <2>15, <2>16, <2>17, <2>18, Zenon
<1>5. CASE proc = "undo"
  <2>0. Count # 0
    <3>1. Count = 0 => p = <<>>
      BY <1>5, Zenon DEF Program
    <3>2. Len(<<>>) = 0
      BY Zenon
    <3> QED
      BY <1>2, <3>1, <3>2, Zenon
  <2>1. p = Undo[Steps[Count]]
    BY <1>5, <2>0, Zenon DEF Program
  <2>2. \/ Count = 1 \/ Count = 2 \/ Count = 3 \/ Count = 4
        \/ Count = 5 \/ Count = 6 \/ Count = 7 \/ Count = 8
    BY <1>3, <2>0, SMT, SMTT(30)
  <2>11. CASE Count = 1
    <3>1. Len(p) = 4 /\ p[1] = "LegacyHealthy" /\ p[2] = "Unfence" /\ p[3] = "RemoveGuards" /\ p[4] = "Unpermit"
      BY <2>1, <2>11, ProgramTable, ZenonT(40), SMTT(30)
    <3>2. \/ (l = 4 /\ h = "LegacyHealthy") \/ (l = 3 /\ h = "Unfence")
          \/ (l = 2 /\ h = "RemoveGuards") \/ (l = 1 /\ h = "Unpermit")
      BY <1>2, <3>1, SMT, SMTT(30)
    <3> QED
      BY <1>2, <1>5, <2>11, <3>2, Zenon DEF Place, At
  <2>12. CASE Count = 2
    <3>1. Len(p) = 0
      BY <2>1, <2>12, ProgramTable, ZenonT(40)
    <3> QED
      BY <1>2, <3>1, Zenon
  <2>13. CASE Count = 3
    <3>1. Len(p) = 2 /\ p[1] = "StartOld" /\ p[2] = "LegacyHealthy"
      BY <2>1, <2>13, ProgramTable, ZenonT(40), SMTT(30)
    <3>2. (l = 2 /\ h = "StartOld") \/ (l = 1 /\ h = "LegacyHealthy")
      BY <1>2, <3>1, SMT, SMTT(30)
    <3> QED
      BY <1>2, <1>5, <2>13, <3>2, Zenon DEF Place, At
  <2>14. CASE Count = 4
    <3>1. Len(p) = 0
      BY <2>1, <2>14, ProgramTable, Zenon
    <3> QED
      BY <1>2, <3>1, Zenon
  <2>15. CASE Count = 5
    <3>1. Len(p) = 1 /\ p[1] = "RestoreEngine"
      BY <2>1, <2>15, ProgramTable, ZenonT(40), SMTT(30)
    <3>2. (l = 1 /\ h = "RestoreEngine")
      BY <1>2, <3>1, SMT, SMTT(30)
    <3> QED
      BY <1>2, <1>5, <2>15, <3>2, Zenon DEF Place, At
  <2>16. CASE Count = 6
    <3>1. Len(p) = 1 /\ p[1] = "Restore"
      BY <2>1, <2>16, ProgramTable, ZenonT(40)
    <3>2. (l = 1 /\ h = "Restore")
      BY <1>2, <3>1, SMT, SMTT(30)
    <3> QED
      BY <1>2, <1>5, <2>16, <3>2, Zenon DEF Place, At
  <2>17. CASE Count = 7
    <3>1. Len(p) = 2 /\ p[1] = "StopNew" /\ p[2] = "RemoveCurrent"
      BY <2>1, <2>17, ProgramTable, ZenonT(40), SMTT(30)
    <3>2. (l = 2 /\ h = "StopNew") \/ (l = 1 /\ h = "RemoveCurrent")
      BY <1>2, <3>1, SMT, SMTT(30)
    <3> QED
      BY <1>2, <1>5, <2>17, <3>2, Zenon DEF Place, At
  <2>18. CASE Count = 8
    <3>1. Len(p) = 0
      BY <2>1, <2>18, ProgramTable, ZenonT(40)
    <3> QED
      BY <1>2, <3>1, Zenon
  <2> QED
    BY <1>2, <2>2, <2>11, <2>12, <2>13, <2>14, <2>15, <2>16, <2>17, <2>18, Zenon
<1>6. CASE proc = "refence"
  <2>1. p = RestoreFence
    BY <1>6, Zenon DEF Program
  <2>2. h \in {"InstallGuards", "EnsureFence", "Seal", "Permit"}
    BY <1>2, <2>1, FenceTable, SMT, SMTT(30)
  <2> QED
    BY <1>2, <1>6, <2>2, Zenon DEF Place
<1>7. CASE proc = "reopen"
  <2>1. p = RestoreFence \o <<"StartNew">>
    BY <1>7, Zenon DEF Program
  <2>2. h \in {"InstallGuards", "EnsureFence", "Seal", "Permit", "StartNew"}
    BY <1>2, <2>1, FenceTable, SMT, SMTT(30)
  <2> QED
    BY <1>2, <1>7, <2>2, Zenon DEF Place
<1>8. CASE proc = "open"
  <2>1. p = OpenTraffic
    BY <1>8, Zenon DEF Program
  <2>2. \/ (l = 6 /\ h = "DisableOld") \/ (l = 5 /\ h = "EnableNew")
        \/ (l = 4 /\ h = "CurrentHealthy") \/ (l = 3 /\ h = "Unfence")
        \/ (l = 2 /\ h = "RemoveGuards") \/ (l = 1 /\ h = "Unpermit")
    BY <1>2, <2>1, FenceTable, SMT, SMTT(30)
  <2> QED
    BY <1>2, <1>8, <2>2, Zenon DEF Place
<1>9. CASE proc \notin {"apply", "undo", "refence", "reopen", "open"}
  <2>1. p = <<>>
    BY <1>9, Zenon DEF Program
  <2>2. Len(<<>>) = 0
    BY Zenon
  <2> QED
    BY <1>2, <2>1, <2>2, Zenon
<1> QED
  BY <1>4, <1>5, <1>6, <1>7, <1>8, <1>9, Zenon

(* A host action of its program: where the process is when it does it.      *)
LEMMA Doing ==
  ASSUME JournalInv, ProgramInv, NEW a, todo # <<>>, Head(todo) = a,
         UNCHANGED <<disk, proc>>
  PROVE  /\ Len(todo) \in 1 .. 6
         /\ Place(a, Len(todo))
         /\ Count' = Count
         /\ todo' = Tail(todo) => Len(todo') = Len(todo) - 1
<1>1. todo \in Seq(ActionNames)
  BY Zenon DEF JournalInv
<1>2. Len(todo) \in 1 .. 6 /\ Place(Head(todo), Len(todo))
  BY Placed, Zenon
<1>3. Len(Tail(todo)) = Len(todo) - 1
  BY <1>1, RestOfSeq, Zenon
<1>4. Count' = Count
  BY Zenon DEF Count
<1> QED
  BY <1>2, <1>3, <1>4, Zenon

(* The step that recovery undoes next is the last one begun.               *)
LEMMA UndoOfCount == JournalInv /\ proc = "undo" => UndoOf(disk) = Program
<1> SUFFICES ASSUME JournalInv, proc = "undo" PROVE UndoOf(disk) = Program
  BY Zenon
<1>1. disk.done \in 0 .. 8 /\ disk.pending \in BOOLEAN
  BY EightSteps, Zenon DEF JournalInv, Journal
<1>2. CASE disk.pending
  <2>1. Count = disk.done + 1 /\ Count # 0
    BY <1>1, <1>2, SMT, SMTT(30) DEF Count
  <2> QED
    BY <1>2, <2>1, Zenon DEF UndoOf, Program
<1>3. CASE ~disk.pending /\ disk.done > 0
  <2>1. Count = disk.done /\ Count # 0
    BY <1>1, <1>3, SMT, SMTT(30) DEF Count
  <2> QED
    BY <1>3, <2>1, Zenon DEF UndoOf, Program
<1>4. CASE ~disk.pending /\ ~(disk.done > 0)
  <2>1. Count = 0
    BY <1>1, <1>4, SMT, SMTT(30) DEF Count
  <2> QED
    BY <1>4, <2>1, Zenon DEF UndoOf, Program
<1> QED
  BY <1>1, <1>2, <1>3, <1>4, Zenon

(* What is left is always the rest of the program of the phase.             *)
LEMMA ProgramInvStep == JournalInv /\ ProgramInv /\ [Next]_vars => ProgramInv'
<1> SUFFICES ASSUME JournalInv, ProgramInv, [Next]_vars PROVE ProgramInv'
  BY Zenon
<1> DEFINE Goal == ProgramInv'
<1>0. Goal => ProgramInv'
  BY Zenon
<1>1. Len(Program) \in 0 .. 6 /\ IsRest(todo, Program) /\ todo \in Seq(ActionNames)
  BY ProgramLength, Zenon DEF ProgramInv, JournalInv
<1>2. JournalInv'
  BY JournalInvStep, Zenon
<1>3. Len(Program)' \in 0 .. 6
  <2>1. (JournalInv => Len(Program) \in 0 .. 6)'
    BY ProgramLength, PTL
  <2> QED
    BY <1>2, <2>1, Zenon
<1>14. proc' = "undo" => UndoOf(disk)' = Program'
  <2>1. (JournalInv /\ proc = "undo" => UndoOf(disk) = Program)'
    BY UndoOfCount, PTL
  <2> QED
    BY <1>2, <2>1, Zenon
<1>4. ASSUME todo' = Program' PROVE IsRest(todo, Program)'
  <2>1. IsRest(Program', Program')
    BY <1>3, RestStarts, SMT, SMTT(30)
  <2> QED
    BY <1>4, <2>1, Zenon
<1>5. ASSUME Advances PROVE Goal
  <2>1. Count' = Count /\ UNCHANGED <<work, disk, proc>>
    BY <1>5, Zenon DEF Advances, Count
  <2>2. Program' = Program
    BY <2>1, Zenon DEF Program
  <2>3. IsRest(todo', Program)
    <3>1. CASE todo' = todo
      BY <1>1, <3>1, Zenon
    <3>2. CASE todo # <<>> /\ todo' = Tail(todo)
      BY <1>1, <3>2, RestAdvances, SMT, SMTT(30)
    <3> QED
      BY <1>5, <3>1, <3>2, Zenon DEF Advances
  <2>4. IsRest(todo, Program)'
    BY <2>2, <2>3, Zenon
  <2> QED
    BY <2>1, <2>4, Zenon DEF ProgramInv
<1>6. ASSUME todo' = <<>>, proc' \in {"idle", "run", "archive"} PROVE IsRest(todo, Program)'
  <2>1. Program' = <<>>
    BY <1>6, Zenon DEF Program
  <2> QED
    BY <1>4, <1>6, <2>1, Zenon
<1>7. ASSUME Exit, UNCHANGED disk, work' = work \/ work' # "none" PROVE Goal
  BY <1>6, <1>7, Zenon DEF Exit, ProgramInv
<1>8. CASE HostAction
  BY <1>5, <1>8, HostActionsAdvance, Zenon
<1>9. CASE JournalAction
  <2> HIDE DEF Goal
  <2>1. CASE BeginStep
    <3>1. mem = disk /\ disk \in Journal /\ ~disk.pending /\ work # "none"
      BY <2>1, Zenon DEF BeginStep, JournalInv
    <3>2. disk' = [disk EXCEPT !.pending = TRUE] /\ proc' = "apply" /\ work' = work
      BY <2>1, <3>1, Zenon DEF BeginStep, Save
    <3>3. Count' = disk.done + 1
      BY <3>1, <3>2, Zenon DEF Count, Journal
    <3>4. todo' = Program'
      BY <2>1, <3>1, <3>2, <3>3, Zenon DEF Program, BeginStep
    <3> QED
      BY <1>4, <3>1, <3>2, <3>4, Zenon DEF ProgramInv, Goal
  <2>2. CASE FinishStep
    BY <1>6, <2>2, Zenon DEF FinishStep, ProgramInv, JournalInv, Goal
  <2>3. CASE Commit
    <3>1. todo' = Program' /\ work' # "none" /\ proc' = "open"
      BY <2>3, Zenon DEF Commit, Program, JournalInv
    <3> QED
      BY <1>4, <3>1, Zenon DEF ProgramInv, Goal
  <2>4. CASE Opened
    BY <1>7, <2>4, Zenon DEF Opened, Goal
  <2>5. CASE BeginRollback
    <3>1. mem = disk /\ disk \in Journal /\ work # "none"
      BY <2>5, Zenon DEF BeginRollback, JournalInv
    <3>2. disk' = [disk EXCEPT !.rolling = TRUE] /\ proc' = "undo" /\ work' = work
      BY <2>5, <3>1, Zenon DEF BeginRollback, Save
    <3>3. todo' = UndoOf(disk)
      BY <2>5, <3>1, Zenon DEF BeginRollback
    <3>4. UndoOf(disk) = UndoOf(disk')
      BY <3>1, <3>2, Zenon DEF UndoOf, Journal
    <3>5. UndoOf(disk)' = UndoOf(disk')
      BY Zenon DEF UndoOf
    <3>6. todo' = Program'
      BY <1>14, <3>2, <3>3, <3>4, <3>5, Zenon
    <3> QED
      BY <1>4, <3>1, <3>2, <3>6, Zenon DEF ProgramInv, Goal
  <2>6. CASE UndoneStep
    <3>1. mem' = disk' /\ proc' = "undo" /\ work' = work /\ work # "none"
      BY <2>6, Zenon DEF UndoneStep, Save, JournalInv
    <3>2. todo' = UndoOf(disk)'
      BY <2>6, <3>1, Zenon DEF UndoneStep, UndoOf
    <3>3. todo' = Program'
      BY <1>14, <3>1, <3>2, Zenon
    <3> QED
      BY <1>4, <3>1, <3>3, Zenon DEF ProgramInv, Goal
  <2>7. CASE RolledBack
    <3>1. mem = disk /\ disk \in Journal /\ work # "none" /\ ~Outstanding(disk)
      BY <2>7, Zenon DEF RolledBack, JournalInv
    <3>2. disk' = [disk EXCEPT !.rolling = FALSE] /\ proc' = "archive" /\ work' = work
      BY <2>7, <3>1, Zenon DEF RolledBack, Save
    <3>3. Count' = 0
      BY EightSteps, <3>1, <3>2, SMT, SMTT(30) DEF Count, Journal, Outstanding
    <3> QED
      BY <1>6, <2>7, <3>1, <3>2, <3>3, Zenon DEF RolledBack, ProgramInv, Goal
  <2>8. CASE Archive
    BY <1>6, <2>8, Zenon DEF Archive, Exit, ProgramInv, Goal
  <2>9. CASE BeginOpening
    <3>1. todo' = Program' /\ work' # "none" /\ proc' = "open"
      BY <2>9, Zenon DEF BeginOpening, Program, JournalInv, journalVars
    <3> QED
      BY <1>4, <3>1, Zenon DEF ProgramInv, Goal
  <2> QED
    BY <1>9, <2>1, <2>2, <2>3, <2>4, <2>5, <2>6, <2>7, <2>8, <2>9, Zenon DEF JournalAction
<1>10. CASE Refuse
  BY <1>7, <1>10, EndingsExit, Zenon
<1>11. CASE Command
  <2> HIDE DEF Goal
  <2>1. CASE Stage
    BY <1>6, <2>1, Zenon DEF Stage, ProgramInv, Goal
  <2>2. ASSUME NEW approved \in BOOLEAN, Recover(approved) PROVE Goal
    <3>1. todo' = Program' /\ work' # "none" /\ proc' = "refence"
      BY <2>2, Zenon DEF Recover, Program
    <3> QED
      BY <1>4, <3>1, Zenon DEF ProgramInv, Goal
  <2>3. CASE Resume
    <3>1. todo' = Program' /\ work' # "none" /\ proc' = "reopen"
      BY <2>3, Zenon DEF Resume, Program
    <3> QED
      BY <1>4, <3>1, Zenon DEF ProgramInv, Goal
  <2> QED
    BY <1>11, <2>1, <2>2, <2>3, Zenon DEF Command, Goal
<1>12. CASE Environment
  BY <1>5, <1>7, <1>12, EndingsExit, WorldAdvances, Zenon DEF Environment
<1>13. CASE UNCHANGED vars
  <2>1. Advances
    BY <1>13, Zenon DEF vars, journalVars, procVars, Advances
  <2> QED
    BY <1>5, <2>1, Zenon
<1> QED
  BY <1>8, <1>9, <1>10, <1>11, <1>12, <1>13, Zenon DEF Next

-----------------------------------------------------------------------------
(* What the commands and the saves of the journal do to the phase, the count *)
(* and the program; they leave the host alone.                               *)

HostKept == UNCHANGED <<fence, guards, permit, up, enabled, legacy, current, moved,
                        version, snap>>

Stages == /\ Count = 0 /\ Count' = 0
          /\ ~disk.committed /\ ~disk'.committed
          /\ proc' = "run" /\ plan' = legacy.gen /\ legacy.state = "running"

Begins == /\ proc = "run" /\ proc' = "apply"
          /\ Count' = Count + 1
          /\ Len(todo') >= 1
          /\ Count = 0 => Len(todo') = 4
          /\ disk'.committed = disk.committed /\ plan' = plan

Finishes == /\ proc = "apply" /\ Len(todo) = 0 /\ proc' = "run"
            /\ Count' = Count
            /\ disk'.committed = disk.committed /\ plan' = plan

Commits == /\ proc = "run" /\ Count = 8 /\ ~disk.committed
           /\ proc' = "open" /\ Len(todo') = 6
           /\ Count' = Count /\ disk'.committed = TRUE

Restarts == /\ Count' = Count /\ disk'.committed = disk.committed
            /\ proc' \in {"idle", "refence", "archive", "reopen"}

Reopens == /\ proc = "reopen" /\ proc' = "open" /\ Len(todo') = 6
           /\ Count' = Count /\ disk'.committed = disk.committed

\* Recovery starts to undo step number Count'.
Undoes == /\ proc \in {"refence", "undo"} /\ proc' = "undo"
          /\ proc = "undo" => Len(todo) = 0
          /\ Count' = IF proc = "undo" THEN Count - 1 ELSE Count
          /\ Count' \in {3, 7} => Len(todo') = 2
          /\ Count' = 6 => Len(todo') = 1
          /\ disk'.committed = disk.committed

(* Every command and every save is one of these.                            *)
LEMMA SaveKinds ==
  ASSUME JournalInv, ProgramInv, JournalAction \/ Command
  PROVE  /\ HostKept
         /\ Stages \/ Begins \/ Finishes \/ Commits \/ Restarts \/ Reopens \/ Undoes
<1> DEFINE Goal == Stages \/ Begins \/ Finishes \/ Commits \/ Restarts \/ Reopens \/ Undoes
<1>1. HostKept
  BY Zenon  DEF JournalAction, Command, BeginStep, FinishStep, Commit, Opened, BeginRollback,
     UndoneStep, RolledBack, Archive, BeginOpening, Stage, Recover, Resume, HostKept,
     hostVars, gateVars, unitVars, engineVars, dataVars
<1> SUFFICES Goal
  BY <1>1, Zenon
<1>2. disk \in Journal /\ disk.done \in 0 .. 8 /\ disk.pending \in BOOLEAN
  BY EightSteps, Zenon DEF JournalInv, Journal
<1>3. proc # "idle" => mem = disk
  BY Zenon DEF JournalInv
<1>4. Len(<<>>) = 0
  BY Zenon
<1>5. CASE Stage
  <2>1. disk = Fresh /\ disk' = Fresh
    BY <1>5, Zenon DEF Stage, Save, ProgramInv
  <2>2. Count = 0 /\ Count' = 0 /\ ~disk.committed /\ ~disk'.committed
    BY <2>1, SMT, SMTT(30) DEF Count, Fresh
  <2> QED
    BY <1>5, <2>2, Zenon DEF Stage, Stages
<1>6. CASE BeginStep
  <2>1. disk' = [disk EXCEPT !.pending = TRUE] /\ ~disk.pending /\ disk.done < 8
    BY <1>3, <1>6, EightSteps, Zenon DEF BeginStep, Save, JournalInv
  <2>2. Count' = disk.done + 1 /\ Count = disk.done /\ disk'.committed = disk.committed
    BY <1>2, <2>1, SMT, SMTT(30) DEF Count, Journal
  <2>3. todo' = Apply[Steps[disk.done + 1]]
    BY <1>3, <1>6, Zenon DEF BeginStep
  <2>4. \A c \in 1 .. 8 : Len(Apply[Steps[c]]) >= 1
    <3> SUFFICES ASSUME NEW c \in 1 .. 8 PROVE Len(Apply[Steps[c]]) >= 1
      BY Zenon
    <3>1. c = 1 \/ c = 2 \/ c = 3 \/ c = 4 \/ c = 5 \/ c = 6 \/ c = 7 \/ c = 8
      BY SMT, SMTT(30)
    <3>2. Len(Apply[Steps[c]]) = 1 \/ Len(Apply[Steps[c]]) = 2 \/ Len(Apply[Steps[c]]) = 4
      BY <3>1, ProgramTable, ZenonT(40), SMTT(30)
    <3>3. \A n \in {1, 2, 4} : n >= 1
      BY SMT, SMTT(30)
    <3> QED
      BY <3>2, <3>3, Zenon
  <2>5. disk.done + 1 \in 1 .. 8
    BY <1>2, <2>1, SMT, SMTT(30)
  <2>6. Len(todo') >= 1
    BY <2>3, <2>4, <2>5, Zenon
  <2>7. Count = 0 => Len(todo') = 4
    <3>1. Count = 0 => disk.done + 1 = 1
      BY <2>2, SMT, SMTT(30)
    <3> QED
      BY <2>3, <3>1, ProgramTable, ZenonT(40)
  <2> QED
    BY <1>2, <1>6, <2>2, <2>6, <2>7, Zenon DEF BeginStep, Begins
<1>7. CASE FinishStep
  <2>1. disk' = [disk EXCEPT !.done = @ + 1, !.pending = FALSE] /\ disk.pending
    BY <1>3, <1>7, Zenon DEF FinishStep, Save, JournalInv
  <2>2. disk.done + 1 \in Nat
    BY <1>2, SMT, SMTT(30)
  <2>3. Count' = disk.done + 1 /\ Count = disk.done + 1 /\ disk'.committed = disk.committed
    BY <1>2, <2>1, <2>2, SMT, SMTT(30) DEF Count, Journal
  <2> QED
    BY <1>4, <1>7, <2>3, Zenon DEF FinishStep, Finishes
<1>8. CASE Commit
  <2>1. disk' = [disk EXCEPT !.committed = TRUE] /\ ~disk.pending /\ disk.done = 8
    BY <1>3, <1>8, EightSteps, Zenon DEF Commit, Save, JournalInv
  <2>2. Count' = 8 /\ Count = 8 /\ disk'.committed = TRUE
    BY <1>2, <2>1, SMT, SMTT(30) DEF Count, Journal
  <2>3. ~disk.committed
    BY <1>8, Zenon DEF Commit, JournalInv
  <2> QED
    BY <1>8, <2>2, <2>3, FenceTable, Zenon DEF Commit, Commits
<1>9. CASE Opened
  BY <1>9, Zenon DEF Opened, Exit, Restarts, Count
<1>10. ASSUME NEW approved \in BOOLEAN, Recover(approved) PROVE Goal
  BY <1>10, Zenon DEF Recover, Save, Restarts, Count
<1>11. ASSUME JournalInv', proc' = "undo", todo' = UndoOf(disk')
       PROVE  /\ Count' \in {3, 7} => Len(todo') = 2
              /\ Count' = 6 => Len(todo') = 1
  <2>1. (JournalInv /\ proc = "undo" => UndoOf(disk) = Program)'
    BY UndoOfCount, PTL
  <2>2. UndoOf(disk)' = UndoOf(disk')
    BY Zenon DEF UndoOf
  <2>3. todo' = Program'
    BY <1>11, <2>1, <2>2, Zenon
  <2>4. Count' # 0 => todo' = Undo[Steps[Count']]
    BY <1>11, <2>3, Zenon DEF Program
  <2>5. Len(Undo[Steps[3]]) = 2 /\ Len(Undo[Steps[6]]) = 1 /\ Len(Undo[Steps[7]]) = 2
    BY ProgramTable, ZenonT(40)
  <2> QED
    BY <2>4, <2>5, SMT, SMTT(30)
<1>12. JournalInv'
  BY SavesKeepJournal, Zenon
<1>13. CASE BeginRollback
  <2>1. disk' = [disk EXCEPT !.rolling = TRUE] /\ proc' = "undo" /\ todo' = UndoOf(disk)
    BY <1>3, <1>13, Zenon DEF BeginRollback, Save
  <2>2. Count' = Count /\ disk'.committed = disk.committed /\ UndoOf(disk') = UndoOf(disk)
    BY <1>2, <2>1, Zenon DEF Count, Journal, UndoOf
  <2>3. /\ Count' \in {3, 7} => Len(todo') = 2
        /\ Count' = 6 => Len(todo') = 1
    BY <1>11, <1>12, <2>1, <2>2, Zenon
  <2> QED
    BY <1>13, <2>1, <2>2, <2>3, Zenon DEF BeginRollback, Undoes
<1>14. CASE UndoneStep
  <2>1. /\ disk' = Undone(disk) /\ mem' = disk' /\ Outstanding(disk)
        /\ proc = "undo" /\ proc' = "undo" /\ todo = <<>>
    BY <1>3, <1>14, Zenon DEF UndoneStep, Save
  <2>2. todo' = UndoOf(disk')
    BY <1>14, <2>1, Zenon DEF UndoneStep
  <2>3. Count' = Count - 1 /\ disk'.committed = disk.committed
    <3>1. CASE disk.pending
      <4>1. disk' = [disk EXCEPT !.pending = FALSE]
        BY <2>1, <3>1, Zenon DEF Undone
      <4> QED
        BY <1>2, <3>1, <4>1, SMT, SMTT(30) DEF Count, Journal
    <3>2. CASE ~disk.pending
      <4>1. disk' = [disk EXCEPT !.done = @ - 1]
        BY <2>1, <3>2, Zenon DEF Undone
      <4>2. disk'.done = disk.done - 1 /\ ~disk'.pending /\ disk'.committed = disk.committed
        BY <1>2, <3>2, <4>1, Zenon DEF Journal
      <4> QED
        BY <1>2, <3>2, <4>2, SMT, SMTT(30) DEF Count
    <3> QED
      BY <3>1, <3>2, Zenon
  <2>4. /\ Count' \in {3, 7} => Len(todo') = 2
        /\ Count' = 6 => Len(todo') = 1
    BY <1>11, <1>12, <2>1, <2>2, Zenon
  <2> QED
    BY <1>4, <2>1, <2>3, <2>4, SMT, SMTT(30) DEF Undoes
<1>15. CASE RolledBack
  <2>1. disk' = [disk EXCEPT !.rolling = FALSE] /\ proc' = "archive"
    BY <1>3, <1>15, Zenon DEF RolledBack, Save
  <2>2. Count' = Count /\ disk'.committed = disk.committed
    BY <1>2, <2>1, Zenon DEF Count, Journal
  <2> QED
    BY <2>1, <2>2, Zenon DEF Restarts
<1>16. CASE Archive
  <2>1. Count = 0 /\ ~disk.committed /\ disk' = Fresh /\ proc' = "idle"
    BY <1>16, Zenon DEF Archive, Exit, ProgramInv, JournalInv
  <2>2. Count' = 0 /\ disk'.committed = FALSE /\ disk.committed = FALSE
    BY <1>2, <2>1, SMT, SMTT(30) DEF Count, Fresh, Journal
  <2> QED
    BY <2>1, <2>2, Zenon DEF Restarts
<1>17. CASE Resume
  BY <1>17, Zenon DEF Resume, Save, Restarts, Count
<1>18. CASE BeginOpening
  BY <1>18, FenceTable, Zenon DEF BeginOpening, Reopens, Count, journalVars
<1> QED
  BY <1>5, <1>6, <1>7, <1>8, <1>9, <1>10, <1>13, <1>14, <1>15, <1>16, <1>17, <1>18, ZenonT(40)
     DEF JournalAction, Command

-----------------------------------------------------------------------------
(* The host invariant, and the steps of the programs that keep it.          *)

HostInv == JournalInv /\ ProgramInv /\ GateInv /\ UnitInv /\ EngineInv /\ DataInv

\* The process does action a of its program, and goes on to the next one.
Moved(a) ==
    /\ Len(todo) \in 1 .. 6
    /\ Len(todo') = Len(todo) - 1
    /\ Place(a, Len(todo))
    /\ Count' = Count
    /\ UNCHANGED <<disk, proc, plan>>

\* The process, if any, does not go on.
Still == /\ todo' = todo
         /\ Count' = Count
         /\ UNCHANGED <<disk, proc, plan>>

(* An action of the program takes the head of the program and leaves the    *)
(* journal on disk as it was.                                               *)
LEMMA DoMoves ==
  ASSUME JournalInv, ProgramInv, NEW a, Do(a)
  PROVE  Moved(a)
<1>1. /\ todo # <<>> /\ Head(todo) = a /\ todo' = Tail(todo)
      /\ UNCHANGED <<disk, proc, plan>>
  BY Zenon  DEF Do, journalVars
<1> QED
  BY <1>1, Doing, Zenon DEF Moved

(* What has to happen at the places the invariant speaks of.                *)
LEMMA Landmarks ==
  ASSUME NEW a \in ActionNames, NEW l, Place(a, l)
  PROVE  /\ At("apply", 1) /\ l = 3 => a = "InstallGuards"
         /\ At("apply", 1) /\ l = 2 => a = "Fence"
         /\ proc = "open" /\ l = 6 => a = "DisableOld"
         /\ At("apply", 3) /\ l = 1 => a = "StopOld"
         /\ At("apply", 4) /\ l = 1 => a = "Prepare"
         /\ At("apply", 5) /\ l = 1 => a = "StopEngine"
         /\ At("apply", 6) /\ l = 1 => a = "Move"
         /\ At("undo", 3) /\ l = 1 => a = "LegacyHealthy"
         /\ At("undo", 6) /\ l = 1 => a = "Restore"
         /\ At("undo", 7) /\ l = 2 => a = "StopNew"
         /\ At("undo", 7) /\ l = 1 => a = "RemoveCurrent"
  BY SMT, SMTT(30)  DEF ActionNames, Place, At

(* A step that leaves what an invariant is about alone, and is not at one of *)
(* its landmarks, keeps it.                                                  *)
LEMMA OthersKeep ==
  ASSUME HostInv, NEW a \in ActionNames, Moved(a)
  PROVE  /\ a \notin {"InstallGuards", "Fence", "DisableOld"}
            /\ UNCHANGED <<fence, guards, enabled>> => GateInv'
         /\ a \notin {"StopOld", "StopNew", "RemoveCurrent"}
            /\ UNCHANGED <<up, current>> => UnitInv'
         /\ a \notin {"StopEngine", "LegacyHealthy"} /\ UNCHANGED legacy => EngineInv'
         /\ a \notin {"Prepare", "Move", "Restore"}
            /\ UNCHANGED <<snap, version, moved>> => DataInv'
<1>1. Count \in 0 .. 8
  BY CountRange, Zenon DEF HostInv
<1>2. /\ At("apply", 1) /\ Len(todo) = 3 => a = "InstallGuards"
      /\ At("apply", 1) /\ Len(todo) = 2 => a = "Fence"
      /\ proc = "open" /\ Len(todo) = 6 => a = "DisableOld"
      /\ At("apply", 3) /\ Len(todo) = 1 => a = "StopOld"
      /\ At("apply", 4) /\ Len(todo) = 1 => a = "Prepare"
      /\ At("apply", 5) /\ Len(todo) = 1 => a = "StopEngine"
      /\ At("apply", 6) /\ Len(todo) = 1 => a = "Move"
      /\ At("undo", 3) /\ Len(todo) = 1 => a = "LegacyHealthy"
      /\ At("undo", 6) /\ Len(todo) = 1 => a = "Restore"
      /\ At("undo", 7) /\ Len(todo) = 2 => a = "StopNew"
      /\ At("undo", 7) /\ Len(todo) = 1 => a = "RemoveCurrent"
  BY Landmarks, Zenon DEF Moved
<1>3. ASSUME a \notin {"InstallGuards", "Fence", "DisableOld"},
             UNCHANGED <<fence, guards, enabled>>
      PROVE  GateInv'
  BY <1>1, <1>2, <1>3, SMT, SMTT(30) DEF HostInv, GateInv, Moved, At
<1>4. ASSUME a \notin {"StopOld", "StopNew", "RemoveCurrent"}, UNCHANGED <<up, current>>
      PROVE  UnitInv'
  BY <1>1, <1>2, <1>4, SMT, SMTT(30) DEF HostInv, UnitInv, Finished, Moved, At
<1>5. ASSUME a \notin {"StopEngine", "LegacyHealthy"}, UNCHANGED legacy PROVE EngineInv'
  BY <1>1, <1>2, <1>5, SMT, SMTT(30) DEF HostInv, EngineInv, Finished, Moved, At
<1>6. ASSUME a \notin {"Prepare", "Move", "Restore"}, UNCHANGED <<snap, version, moved>>
      PROVE  DataInv'
  BY <1>1, <1>2, <1>6, SMT, SMTT(30) DEF HostInv, DataInv, Finished, Moved, At
<1> QED
  BY <1>3, <1>4, <1>5, <1>6, Zenon

(* A step that leaves the process alone keeps what it does not touch.       *)
LEMMA StillKeeps ==
  ASSUME HostInv, Still
  PROVE  /\ UNCHANGED <<fence, guards, enabled>> => GateInv'
         /\ UNCHANGED <<up, current>> => UnitInv'
         /\ UNCHANGED legacy => EngineInv'
         /\ UNCHANGED <<snap, version, moved>> => DataInv'
<1>1. ASSUME UNCHANGED <<fence, guards, enabled>> PROVE GateInv'
  BY <1>1, Zenon DEF HostInv, Still, GateInv
<1>2. ASSUME UNCHANGED <<up, current>> PROVE UnitInv'
  BY <1>2, Zenon DEF HostInv, Still, UnitInv, Finished
<1>3. ASSUME UNCHANGED legacy PROVE EngineInv'
  BY <1>3, Zenon DEF HostInv, Still, EngineInv, Finished
<1>4. ASSUME UNCHANGED <<snap, version, moved>> PROVE DataInv'
  BY <1>4, Zenon DEF HostInv, Still, DataInv, Finished
<1> QED
  BY <1>1, <1>2, <1>3, <1>4, Zenon

(* Every host action keeps the host invariant.                              *)
LEMMA HostActionsKeep ==
  ASSUME HostInv, HostAction
  PROVE  GateInv' /\ UnitInv' /\ EngineInv' /\ DataInv'
<1>0. /\ Count \in 0 .. 8
      /\ proc \in {"open", "reopen"} => disk.committed /\ Count = 8
      /\ proc = "undo" => ~disk.committed
  BY CountRange, Zenon DEF HostInv, JournalInv
<1>9. \A a \in {"InstallGuards", "RemoveGuards", "Fence", "EnsureFence", "Unfence", "Seal",
                "Permit", "Unpermit", "StartOld", "StartNew", "StopOld", "StopNew",
                "RemoveCurrent", "DisableOld", "EnableNew", "Prepare", "StopEngine",
                "RestoreEngine", "RemoveEngine", "Move", "Restore"} : a \in ActionNames
  BY ZenonT(40)  DEF ActionNames
<1>10. CASE Do("InstallGuards") /\ guards = Units /\ UNCHANGED hostVars
  <2>1. Moved("InstallGuards")
    BY <1>10, DoMoves, Zenon DEF HostInv
  <2>2. UNCHANGED <<up, current, legacy, snap, version, moved>>
    BY <1>10, Zenon DEF hostVars, gateVars, unitVars, engineVars, dataVars
  <2>3. guards = Units /\ UNCHANGED <<fence, guards, enabled>>
    BY <1>10, Zenon DEF hostVars, gateVars, unitVars, engineVars, dataVars
  <2>4. GateInv'
    <3>1. (At("apply", 1) /\ Len(todo) = 3) \/ proc \in {"refence", "reopen"}
      BY <2>1, Zenon DEF Moved, Place
    <3>2. /\ Len(todo) \in 1 .. 6 /\ Len(todo') = Len(todo) - 1
          /\ Count' = Count /\ UNCHANGED <<disk, proc, plan>>
      BY <2>1, Zenon DEF Moved
    <3> QED
      BY <1>0, <2>3, <3>1, <3>2, SMT, SMTT(30) DEF HostInv, GateInv, Finished, At
  <2> QED
    BY <1>9, <2>1, <2>2, <2>4, OthersKeep, Zenon DEF HostInv
<1>11. CASE Do("RemoveGuards") /\ guards = {} /\ UNCHANGED hostVars
  <2>1. Moved("RemoveGuards")
    BY <1>11, DoMoves, Zenon DEF HostInv
  <2>2. UNCHANGED <<fence, guards, enabled, up, current, legacy, snap, version, moved>>
    BY <1>11, Zenon DEF hostVars, gateVars, unitVars, engineVars, dataVars
  <2> QED
    BY <1>9, <2>1, <2>2, OthersKeep, Zenon DEF HostInv
<1>12. CASE /\ Do("Fence")
             /\ fence' = "new"
             /\ UNCHANGED <<guards, permit, unitVars, engineVars, dataVars, client>>
  <2>1. Moved("Fence")
    BY <1>12, DoMoves, Zenon DEF HostInv
  <2>2. UNCHANGED <<up, current, legacy, snap, version, moved>>
    BY <1>12, Zenon DEF hostVars, gateVars, unitVars, engineVars, dataVars
  <2>3. fence' = "new" /\ UNCHANGED <<guards, enabled>>
    BY <1>12, Zenon DEF hostVars, gateVars, unitVars, engineVars, dataVars
  <2>4. GateInv'
    <3>1. At("apply", 1) /\ Len(todo) = 2
      BY <2>1, Zenon DEF Moved, Place
    <3>2. /\ Len(todo) \in 1 .. 6 /\ Len(todo') = Len(todo) - 1
          /\ Count' = Count /\ UNCHANGED <<disk, proc, plan>>
      BY <2>1, Zenon DEF Moved
    <3> QED
      BY <1>0, <2>3, <3>1, <3>2, SMT, SMTT(30) DEF HostInv, GateInv, Finished, At
  <2> QED
    BY <1>9, <2>1, <2>2, <2>4, OthersKeep, Zenon DEF HostInv
<1>13. CASE /\ Do("EnsureFence")
             /\ fence' # "none"
             /\ UNCHANGED <<guards, permit, unitVars, engineVars, dataVars, client>>
  <2>1. Moved("EnsureFence")
    BY <1>13, DoMoves, Zenon DEF HostInv
  <2>2. UNCHANGED <<up, current, legacy, snap, version, moved>>
    BY <1>13, Zenon DEF hostVars, gateVars, unitVars, engineVars, dataVars
  <2>3. fence' # "none" /\ UNCHANGED <<guards, enabled>>
    BY <1>13, Zenon DEF hostVars, gateVars, unitVars, engineVars, dataVars
  <2>4. GateInv'
    <3>1. proc \in {"refence", "reopen"}
      BY <2>1, Zenon DEF Moved, Place
    <3>2. /\ Len(todo) \in 1 .. 6 /\ Len(todo') = Len(todo) - 1
          /\ Count' = Count /\ UNCHANGED <<disk, proc, plan>>
      BY <2>1, Zenon DEF Moved
    <3> QED
      BY <1>0, <2>3, <3>1, <3>2, Zenon DEF HostInv, GateInv, Finished, At
  <2> QED
    BY <1>9, <2>1, <2>2, <2>4, OthersKeep, Zenon DEF HostInv
<1>14. CASE /\ Do("Unfence")
             /\ fence' = "none"
             /\ UNCHANGED <<guards, permit, unitVars, engineVars, dataVars, client>>
  <2>1. Moved("Unfence")
    BY <1>14, DoMoves, Zenon DEF HostInv
  <2>2. UNCHANGED <<up, current, legacy, snap, version, moved>>
    BY <1>14, Zenon DEF hostVars, gateVars, unitVars, engineVars, dataVars
  <2>3. UNCHANGED <<guards, enabled>>
    BY <1>14, Zenon DEF hostVars, gateVars, unitVars, engineVars, dataVars
  <2>4. GateInv'
    <3>1. (At("undo", 1) /\ Len(todo) = 3) \/ (proc = "open" /\ Len(todo) = 3)
      BY <2>1, Zenon DEF Moved, Place
    <3>2. /\ Len(todo) \in 1 .. 6 /\ Len(todo') = Len(todo) - 1
          /\ Count' = Count /\ UNCHANGED <<disk, proc, plan>>
      BY <2>1, Zenon DEF Moved
    <3> QED
      BY <1>0, <2>3, <3>1, <3>2, SMT, SMTT(30) DEF HostInv, GateInv, Finished, At
  <2> QED
    BY <1>9, <2>1, <2>2, <2>4, OthersKeep, Zenon DEF HostInv
<1>15. CASE Seal
  <2>1. Moved("Seal")
    BY <1>15, DoMoves, Zenon DEF HostInv, Seal
  <2>2. UNCHANGED <<up, current, legacy, snap, version, moved>>
    BY <1>15, Zenon DEF Seal, hostVars, gateVars, unitVars, engineVars, dataVars
  <2>3. fence' = "sealed" /\ UNCHANGED <<guards, enabled>>
    BY <1>15, Zenon DEF Seal, hostVars, gateVars, unitVars, engineVars, dataVars
  <2>4. GateInv'
    <3>1. (At("apply", 2) /\ Len(todo) = 3) \/ proc \in {"refence", "reopen"}
      BY <2>1, Zenon DEF Moved, Place
    <3>2. /\ Len(todo) \in 1 .. 6 /\ Len(todo') = Len(todo) - 1
          /\ Count' = Count /\ UNCHANGED <<disk, proc, plan>>
      BY <2>1, Zenon DEF Moved
    <3> QED
      BY <1>0, <2>3, <3>1, <3>2, SMT, SMTT(30) DEF HostInv, GateInv, Finished, At
  <2> QED
    BY <1>9, <2>1, <2>2, <2>4, OthersKeep, Zenon DEF HostInv
<1>16. CASE /\ Do("Permit")
             /\ UNCHANGED <<fence, guards, unitVars, engineVars, dataVars, client>>
  <2>1. Moved("Permit")
    BY <1>16, DoMoves, Zenon DEF HostInv
  <2>2. UNCHANGED <<fence, guards, enabled, up, current, legacy, snap, version, moved>>
    BY <1>16, Zenon DEF hostVars, gateVars, unitVars, engineVars, dataVars
  <2> QED
    BY <1>9, <2>1, <2>2, OthersKeep, ZenonT(40) DEF HostInv
<1>17. CASE /\ Do("Unpermit")
             /\ UNCHANGED <<fence, guards, unitVars, engineVars, dataVars, client>>
  <2>1. Moved("Unpermit")
    BY <1>17, DoMoves, Zenon DEF HostInv
  <2>2. UNCHANGED <<fence, guards, enabled, up, current, legacy, snap, version, moved>>
    BY <1>17, Zenon DEF hostVars, gateVars, unitVars, engineVars, dataVars
  <2> QED
    BY <1>9, <2>1, <2>2, OthersKeep, ZenonT(40) DEF HostInv
<1>18. CASE StartUnits("StartOld", "legacy")
  <2>1. Moved("StartOld")
    BY <1>18, DoMoves, Zenon DEF HostInv, StartUnits
  <2>2. UNCHANGED <<fence, guards, enabled, legacy, snap, version, moved>>
    BY <1>18, Zenon DEF StartUnits, hostVars, gateVars, unitVars, engineVars, dataVars
  <2>3. up' \subseteq up \union {"legacy"} /\ UNCHANGED current
    BY <1>18, Zenon DEF StartUnits, hostVars, gateVars, unitVars, engineVars, dataVars
  <2>4. UnitInv'
    <3>1. At("undo", 3) /\ Len(todo) = 2
      BY <2>1, Zenon DEF Moved, Place
    <3>2. /\ Len(todo) \in 1 .. 6 /\ Len(todo') = Len(todo) - 1
          /\ Count' = Count /\ UNCHANGED <<disk, proc, plan>>
      BY <2>1, Zenon DEF Moved
    <3> QED
      BY <1>0, <2>3, <3>1, <3>2, SMT, SMTT(30) DEF HostInv, UnitInv, Finished, At, Units
  <2> QED
    BY <1>9, <2>1, <2>2, <2>4, OthersKeep, ZenonT(40) DEF HostInv
<1>19. CASE StartUnits("StartNew", "current")
  <2>1. Moved("StartNew")
    BY <1>19, DoMoves, Zenon DEF HostInv, StartUnits
  <2>2. UNCHANGED <<fence, guards, enabled, legacy, snap, version, moved>>
    BY <1>19, Zenon DEF StartUnits, hostVars, gateVars, unitVars, engineVars, dataVars
  <2>3. up' \subseteq up \union {"current"} /\ UNCHANGED current
    BY <1>19, Zenon DEF StartUnits, hostVars, gateVars, unitVars, engineVars, dataVars
  <2>4. UnitInv'
    <3>1. (At("apply", 7) /\ Len(todo) = 1) \/ proc = "reopen"
      BY <2>1, Zenon DEF Moved, Place
    <3>2. /\ Len(todo) \in 1 .. 6 /\ Len(todo') = Len(todo) - 1
          /\ Count' = Count /\ UNCHANGED <<disk, proc, plan>>
      BY <2>1, Zenon DEF Moved
    <3> QED
      BY <1>0, <2>3, <3>1, <3>2, SMT, SMTT(30) DEF HostInv, UnitInv, Finished, At, Units
  <2> QED
    BY <1>9, <2>1, <2>2, <2>4, OthersKeep, Zenon DEF HostInv
<1>20. CASE StopUnits("StopOld", "legacy")
  <2>1. Moved("StopOld")
    BY <1>20, DoMoves, Zenon DEF HostInv, StopUnits
  <2>2. UNCHANGED <<fence, guards, enabled, legacy, snap, version, moved>>
    BY <1>20, Zenon DEF StopUnits, hostVars, gateVars, unitVars, engineVars, dataVars
  <2>3. up' = up \ {"legacy"} /\ UNCHANGED current
    BY <1>20, Zenon DEF StopUnits, hostVars, gateVars, unitVars, engineVars, dataVars
  <2>4. UnitInv'
    <3>1. At("apply", 3) /\ Len(todo) = 1
      BY <2>1, Zenon DEF Moved, Place
    <3>2. /\ Len(todo) \in 1 .. 6 /\ Len(todo') = Len(todo) - 1
          /\ Count' = Count /\ UNCHANGED <<disk, proc, plan>>
      BY <2>1, Zenon DEF Moved
    <3> QED
      BY <1>0, <2>3, <3>1, <3>2, Zenon DEF HostInv, UnitInv, Finished, At
  <2> QED
    BY <1>9, <2>1, <2>2, <2>4, OthersKeep, Zenon DEF HostInv
<1>21. CASE StopUnits("StopNew", "current")
  <2>1. Moved("StopNew")
    BY <1>21, DoMoves, Zenon DEF HostInv, StopUnits
  <2>2. UNCHANGED <<fence, guards, enabled, legacy, snap, version, moved>>
    BY <1>21, Zenon DEF StopUnits, hostVars, gateVars, unitVars, engineVars, dataVars
  <2>3. up' = up \ {"current"} /\ UNCHANGED current
    BY <1>21, Zenon DEF StopUnits, hostVars, gateVars, unitVars, engineVars, dataVars
  <2>4. UnitInv'
    <3>1. At("undo", 7) /\ Len(todo) = 2
      BY <2>1, Zenon DEF Moved, Place
    <3>2. /\ Len(todo) \in 1 .. 6 /\ Len(todo') = Len(todo) - 1
          /\ Count' = Count /\ UNCHANGED <<disk, proc, plan>>
      BY <2>1, Zenon DEF Moved
    <3> QED
      BY <1>0, <2>3, <3>1, <3>2, SMT, SMTT(30) DEF HostInv, UnitInv, Finished, At
  <2> QED
    BY <1>9, <2>1, <2>2, <2>4, OthersKeep, ZenonT(40) DEF HostInv
<1>22. CASE RemoveCurrent
  <2>1. Moved("RemoveCurrent")
    BY <1>22, DoMoves, Zenon DEF HostInv, RemoveCurrent
  <2>2. UNCHANGED <<fence, guards, enabled, legacy, snap, version, moved>>
    BY <1>22, Zenon DEF RemoveCurrent, hostVars, gateVars, unitVars, engineVars, dataVars
  <2>3. UNCHANGED up /\ current' = "absent"
    BY <1>22, Zenon DEF RemoveCurrent, hostVars, gateVars, unitVars, engineVars, dataVars
  <2>4. UnitInv'
    <3>1. At("undo", 7) /\ Len(todo) = 1
      BY <2>1, Zenon DEF Moved, Place
    <3>2. /\ Len(todo) \in 1 .. 6 /\ Len(todo') = Len(todo) - 1
          /\ Count' = Count /\ UNCHANGED <<disk, proc, plan>>
      BY <2>1, Zenon DEF Moved
    <3> QED
      BY <1>0, <2>3, <3>1, <3>2, SMT, SMTT(30) DEF HostInv, UnitInv, Finished, At
  <2> QED
    BY <1>9, <2>1, <2>2, <2>4, OthersKeep, ZenonT(40) DEF HostInv
<1>23. CASE /\ Do("DisableOld")
             /\ enabled' = enabled \ {"legacy"}
             /\ UNCHANGED <<gateVars, up, engineVars, dataVars, client>>
  <2>1. Moved("DisableOld")
    BY <1>23, DoMoves, Zenon DEF HostInv
  <2>2. UNCHANGED <<up, current, legacy, snap, version, moved>>
    BY <1>23, Zenon DEF hostVars, gateVars, unitVars, engineVars, dataVars
  <2>3. UNCHANGED <<fence, guards>> /\ enabled' = enabled \ {"legacy"}
    BY <1>23, Zenon DEF hostVars, gateVars, unitVars, engineVars, dataVars
  <2>4. GateInv'
    <3>1. proc = "open" /\ Len(todo) = 6
      BY <2>1, Zenon DEF Moved, Place
    <3>2. /\ Len(todo) \in 1 .. 6 /\ Len(todo') = Len(todo) - 1
          /\ Count' = Count /\ UNCHANGED <<disk, proc, plan>>
      BY <2>1, Zenon DEF Moved
    <3> QED
      BY <1>0, <2>3, <3>1, <3>2, Zenon DEF HostInv, GateInv, Finished, At
  <2> QED
    BY <1>9, <2>1, <2>2, <2>4, OthersKeep, Zenon DEF HostInv
<1>24. CASE /\ Do("EnableNew")
             /\ enabled' = enabled \union {"current"}
             /\ UNCHANGED <<gateVars, up, engineVars, dataVars, client>>
  <2>1. Moved("EnableNew")
    BY <1>24, DoMoves, Zenon DEF HostInv
  <2>2. UNCHANGED <<up, current, legacy, snap, version, moved>>
    BY <1>24, Zenon DEF hostVars, gateVars, unitVars, engineVars, dataVars
  <2>3. UNCHANGED <<fence, guards>> /\ enabled' = enabled \union {"current"}
    BY <1>24, Zenon DEF hostVars, gateVars, unitVars, engineVars, dataVars
  <2>4. GateInv'
    <3>1. proc = "open" /\ Len(todo) = 5
      BY <2>1, Zenon DEF Moved, Place
    <3>2. /\ Len(todo) \in 1 .. 6 /\ Len(todo') = Len(todo) - 1
          /\ Count' = Count /\ UNCHANGED <<disk, proc, plan>>
      BY <2>1, Zenon DEF Moved
    <3> QED
      BY <1>0, <2>3, <3>1, <3>2, SMT, SMTT(30) DEF HostInv, GateInv, Finished, At, Units
  <2> QED
    BY <1>9, <2>1, <2>2, <2>4, OthersKeep, Zenon DEF HostInv
<1>25. CASE Prepare
  <2>1. Moved("Prepare")
    BY <1>25, DoMoves, Zenon DEF HostInv, Prepare
  <2>2. UNCHANGED <<fence, guards, enabled, up, current, legacy>>
    BY <1>25, Zenon DEF Prepare, hostVars, gateVars, unitVars, engineVars, dataVars
  <2>3. snap' = version /\ UNCHANGED <<version, moved>>
    BY <1>25, Zenon DEF Prepare, hostVars, gateVars, unitVars, engineVars, dataVars
  <2>4. DataInv'
    <3>1. At("apply", 4) /\ Len(todo) = 1
      BY <2>1, Zenon DEF Moved, Place
    <3>2. /\ Len(todo) \in 1 .. 6 /\ Len(todo') = Len(todo) - 1
          /\ Count' = Count /\ UNCHANGED <<disk, proc, plan>>
      BY <2>1, Zenon DEF Moved
    <3> QED
      BY <1>0, <2>3, <3>1, <3>2, SMT, SMTT(30) DEF HostInv, DataInv, Finished, At
  <2> QED
    BY <1>9, <2>1, <2>2, <2>4, OthersKeep, Zenon DEF HostInv
<1>26. CASE StopEngine
  <2>1. Moved("StopEngine")
    BY <1>26, DoMoves, Zenon DEF HostInv, StopEngine
  <2>2. UNCHANGED <<fence, guards, enabled, up, current, snap, version, moved>>
    BY <1>26, Zenon DEF StopEngine, hostVars, gateVars, unitVars, engineVars, dataVars
  <2>3. legacy' = IF legacy.state = "running" /\ legacy.gen = plan
                    THEN [legacy EXCEPT !.state = "stopped"] ELSE legacy
    BY <1>26, Zenon DEF StopEngine, hostVars, gateVars, unitVars, engineVars, dataVars
  <2>4. EngineInv'
    <3>1. At("apply", 5) /\ Len(todo) = 1
      BY <2>1, Zenon DEF Moved, Place
    <3>2. /\ Len(todo) \in 1 .. 6 /\ Len(todo') = Len(todo) - 1
          /\ Count' = Count /\ UNCHANGED <<disk, proc, plan>>
      BY <2>1, Zenon DEF Moved
    <3> QED
      BY <1>0, <2>3, <3>1, <3>2, ZenonT(40) DEF HostInv, EngineInv, Finished, At
  <2> QED
    BY <1>9, <2>1, <2>2, <2>4, OthersKeep, ZenonT(40) DEF HostInv
<1>27. CASE RestoreEngine
  <2>1. Moved("RestoreEngine")
    BY <1>27, DoMoves, Zenon DEF HostInv, RestoreEngine
  <2>2. UNCHANGED <<fence, guards, enabled, up, current, snap, version, moved>>
    BY <1>27, Zenon DEF RestoreEngine, hostVars, gateVars, unitVars, engineVars, dataVars
  <2>3. legacy' = IF legacy.state = "stopped" /\ legacy.gen = plan
                    THEN [legacy EXCEPT !.state = "running"] ELSE legacy
    BY <1>27, Zenon DEF RestoreEngine, hostVars, gateVars, unitVars, engineVars, dataVars
  <2>4. EngineInv'
    <3>1. At("undo", 5) /\ Len(todo) = 1
      BY <2>1, Zenon DEF Moved, Place
    <3>2. /\ Len(todo) \in 1 .. 6 /\ Len(todo') = Len(todo) - 1
          /\ Count' = Count /\ UNCHANGED <<disk, proc, plan>>
      BY <2>1, Zenon DEF Moved
    <3> QED
      BY <1>0, <2>3, <3>1, <3>2, SMT, SMTT(30) DEF HostInv, EngineInv, Finished, At
  <2> QED
    BY <1>9, <2>1, <2>2, <2>4, OthersKeep, ZenonT(40) DEF HostInv
<1>28. CASE RemoveEngine
  <2>1. Moved("RemoveEngine")
    BY <1>28, DoMoves, Zenon DEF HostInv, RemoveEngine
  <2>2. UNCHANGED <<fence, guards, enabled, up, current, snap, version, moved>>
    BY <1>28, Zenon DEF RemoveEngine, hostVars, gateVars, unitVars, engineVars, dataVars
  <2>3. legacy' = [legacy EXCEPT !.state = "removed"]
    BY <1>28, Zenon DEF RemoveEngine, hostVars, gateVars, unitVars, engineVars, dataVars
  <2>4. EngineInv'
    <3>1. At("apply", 8) /\ Len(todo) = 2
      BY <2>1, Zenon DEF Moved, Place
    <3>2. /\ Len(todo) \in 1 .. 6 /\ Len(todo') = Len(todo) - 1
          /\ Count' = Count /\ UNCHANGED <<disk, proc, plan>>
      BY <2>1, Zenon DEF Moved
    <3> QED
      BY <1>0, <2>3, <3>1, <3>2, SMT, SMTT(30) DEF HostInv, EngineInv, Finished, At
  <2> QED
    BY <1>9, <2>1, <2>2, <2>4, OthersKeep, Zenon DEF HostInv
<1>29. CASE Do("Move") /\ moved = Items /\ UNCHANGED hostVars
  <2>1. Moved("Move")
    BY <1>29, DoMoves, Zenon DEF HostInv
  <2>2. UNCHANGED <<fence, guards, enabled, up, current, legacy>>
    BY <1>29, Zenon DEF hostVars, gateVars, unitVars, engineVars, dataVars
  <2>3. moved = Items /\ UNCHANGED <<snap, version, moved>>
    BY <1>29, Zenon DEF hostVars, gateVars, unitVars, engineVars, dataVars
  <2>4. DataInv'
    <3>1. At("apply", 6) /\ Len(todo) = 1
      BY <2>1, Zenon DEF Moved, Place
    <3>2. /\ Len(todo) \in 1 .. 6 /\ Len(todo') = Len(todo) - 1
          /\ Count' = Count /\ UNCHANGED <<disk, proc, plan>>
      BY <2>1, Zenon DEF Moved
    <3> QED
      BY <1>0, <2>3, <3>1, <3>2, SMT, SMTT(30) DEF HostInv, DataInv, Finished, At
  <2> QED
    BY <1>9, <2>1, <2>2, <2>4, OthersKeep, Zenon DEF HostInv
<1>30. CASE Do("Restore") /\ moved = {} /\ UNCHANGED hostVars
  <2>1. Moved("Restore")
    BY <1>30, DoMoves, Zenon DEF HostInv
  <2>2. UNCHANGED <<fence, guards, enabled, up, current, legacy>>
    BY <1>30, Zenon DEF hostVars, gateVars, unitVars, engineVars, dataVars
  <2>3. moved = {} /\ UNCHANGED <<snap, version, moved>>
    BY <1>30, Zenon DEF hostVars, gateVars, unitVars, engineVars, dataVars
  <2>4. DataInv'
    <3>1. At("undo", 6) /\ Len(todo) = 1
      BY <2>1, Zenon DEF Moved, Place
    <3>2. /\ Len(todo) \in 1 .. 6 /\ Len(todo') = Len(todo) - 1
          /\ Count' = Count /\ UNCHANGED <<disk, proc, plan>>
      BY <2>1, Zenon DEF Moved
    <3> QED
      BY <1>0, <2>3, <3>1, <3>2, ZenonT(40) DEF HostInv, DataInv, Finished, At
  <2> QED
    BY <1>9, <2>1, <2>2, <2>4, OthersKeep, ZenonT(40) DEF HostInv
<1>50. CASE Check
  <2>1. Head(todo) \in {"RequireUnfenced", "AwaitDrained", "VerifySources",
                        "LegacyHealthy", "CurrentHealthy", "Measure"}
    BY <1>50, Zenon DEF Check, CheckPasses
  <2>2. Moved(Head(todo)) /\ Head(todo) \in ActionNames
    BY <1>50, <2>1, Doing, Zenon DEF Check, Moved, HostInv, ActionNames, journalVars
  <2>3. UNCHANGED <<fence, guards, enabled, up, current, legacy, snap, version, moved>>
    BY <1>50, Zenon DEF Check, hostVars, gateVars, unitVars, engineVars, dataVars
  <2>4. EngineInv'
    <3>1. CASE Head(todo) = "LegacyHealthy"
      <4>1. legacy.state = "running"
        BY <1>50, <3>1, Zenon DEF Check, CheckPasses, LegacyReady
      <4> QED
        BY <1>0, <2>2, <2>3, <3>1, <4>1, SMT, SMTT(30) DEF HostInv, EngineInv, Finished, Moved, Place, At
    <3>2. CASE Head(todo) # "LegacyHealthy"
      BY <2>1, <2>2, <2>3, <3>2, OthersKeep, Zenon
    <3> QED
      BY <3>1, <3>2, Zenon
  <2> QED
    BY <2>1, <2>2, <2>3, <2>4, OthersKeep, Zenon
<1>51. ASSUME todo # <<>>, UNCHANGED <<disk, proc, plan, todo>>
       PROVE  Still /\ Len(todo) \in 1 .. 6 /\ Place(Head(todo), Len(todo))
  BY <1>51, Doing, Zenon DEF HostInv, Still
<1>52. CASE InstallGuard \/ RemoveGuard
  <2>1. Still /\ Len(todo) \in 1 .. 6 /\ Place(Head(todo), Len(todo))
    BY <1>51, <1>52, Zenon DEF InstallGuard, RemoveGuard, journalVars, procVars
  <2>2. UNCHANGED <<fence, enabled, up, current, legacy, snap, version, moved>>
    BY <1>52, Zenon DEF InstallGuard, RemoveGuard, unitVars, engineVars, dataVars
  <2>3. \/ Head(todo) = "InstallGuards" /\ guards # Units /\ guards \subseteq guards'
        \/ Head(todo) = "RemoveGuards"
    BY <1>52, Zenon DEF InstallGuard, RemoveGuard
  <2>4. CASE Head(todo) = "InstallGuards" /\ guards # Units /\ guards \subseteq guards'
    <3>1. (At("apply", 1) /\ Len(todo) = 3) \/ proc \in {"refence", "reopen"}
      BY <2>1, <2>4, Zenon DEF Place
    <3>2. ~(Count >= 2 /\ ~disk.committed)
      BY <2>4, Zenon DEF HostInv, GateInv
    <3>3. GateInv'
      BY <1>0, <2>1, <2>2, <2>4, <3>1, <3>2, ZenonT(40) DEF HostInv, GateInv, Still, At
    <3> QED
      BY <2>1, <2>2, <3>3, StillKeeps, Zenon
  <2>5. CASE Head(todo) = "RemoveGuards"
    <3>1. At("undo", 1) \/ (proc = "open" /\ Len(todo) = 2)
      BY <2>1, <2>5, Zenon DEF Place
    <3>2. GateInv'
      BY <1>0, <2>1, <2>2, <3>1, SMT, SMTT(30) DEF HostInv, GateInv, Still, At
    <3> QED
      BY <2>1, <2>2, <3>2, StillKeeps, Zenon
  <2> QED
    BY <2>3, <2>4, <2>5, Zenon
<1>53. CASE MoveItem \/ RestoreItem
  <2>1. Still /\ Len(todo) \in 1 .. 6 /\ Place(Head(todo), Len(todo))
    BY <1>51, <1>53, Zenon DEF MoveItem, RestoreItem, journalVars, procVars
  <2>2. UNCHANGED <<fence, guards, enabled, up, current, legacy, snap, version>>
    BY <1>53, Zenon DEF MoveItem, RestoreItem, gateVars, unitVars, engineVars, dataVars
  <2>3. Head(todo) \in {"Move", "Restore"}
    BY <1>53, Zenon DEF MoveItem, RestoreItem
  <2>4. DataInv'
    BY <1>0, <2>1, <2>2, <2>3, SMT, SMTT(30) DEF HostInv, DataInv, Finished, Still, Place, At
  <2> QED
    BY <2>1, <2>2, <2>4, StillKeeps, ZenonT(40)
<1>54. CASE GuardsDone
  BY <1>10, <1>11, <1>54, ZenonT(40) DEF GuardsDone
<1>55. CASE SetFence
  BY <1>12, <1>13, <1>14, <1>55, Zenon DEF SetFence
<1>56. CASE SetPermit
  BY <1>16, <1>17, <1>56, Zenon DEF SetPermit
<1>57. CASE SetEnabled
  BY <1>23, <1>24, <1>57, Zenon DEF SetEnabled
<1>58. CASE MovesDone
  BY <1>29, <1>30, <1>58, Zenon DEF MovesDone
<1> QED
  BY <1>15, <1>18, <1>19, <1>20, <1>21, <1>22, <1>25, <1>26, <1>27, <1>28, <1>50,
     <1>52, <1>53, <1>54, <1>55, <1>56, <1>57, <1>58, Zenon DEF HostAction

(* The commands and the saves of the journal keep it: this is where a step   *)
(* that was finished, and one that was undone, must have left its effects.   *)
LEMMA SavesKeepHost ==
  ASSUME HostInv, JournalAction \/ Command
  PROVE  GateInv' /\ UnitInv' /\ EngineInv' /\ DataInv'
<1>1. HostKept /\ (Stages \/ Begins \/ Finishes \/ Commits \/ Restarts \/ Reopens \/ Undoes)
  BY SaveKinds, Zenon DEF HostInv
<1>2. /\ Count \in 0 .. 8
      /\ proc \in {"open", "reopen"} => disk.committed /\ Count = 8
      /\ proc \in {"run", "apply", "undo", "refence"} => ~disk.committed
  BY CountRange, Zenon DEF HostInv, JournalInv
<1>3. CASE Stages
  <2>1. GateInv'
    BY <1>1, <1>2, <1>3, SMT, SMTT(30) DEF HostInv, GateInv, HostKept, Stages
  <2>2. UnitInv'
    BY <1>1, <1>2, <1>3, SMT, SMTT(30) DEF HostInv, UnitInv, Finished, HostKept, Stages
  <2>3. EngineInv'
    BY <1>1, <1>2, <1>3, SMT, SMTT(30) DEF HostInv, EngineInv, Finished, HostKept, Stages
  <2>4. DataInv'
    BY <1>1, <1>2, <1>3, SMT, SMTT(30) DEF HostInv, DataInv, Finished, HostKept, Stages
  <2> QED
    BY <2>1, <2>2, <2>3, <2>4, Zenon
<1>4. CASE Begins
  <2>1. GateInv'
    <3>1. ~disk'.committed /\ proc' = "apply" /\ Count' = Count + 1
      BY <1>2, <1>4, Zenon DEF Begins
    <3>2. Count' >= 2 => guards' = Units /\ fence' # "none"
      BY <1>1, <1>2, <1>4, <3>1, SMT, SMTT(30) DEF HostInv, GateInv, HostKept, Begins
    <3>3. Count' = 1 => Len(todo') = 4
      BY <1>2, <1>4, <3>1, SMT, SMTT(30) DEF Begins
    <3>4. enabled' \subseteq Units /\ enabled' = {"legacy"}
      BY <1>1, <1>2, <1>4, Zenon DEF HostInv, GateInv, HostKept, Begins
    <3> QED
      BY <3>1, <3>2, <3>3, <3>4, SMT, SMTT(30) DEF GateInv
  <2>2. UnitInv'
    BY <1>1, <1>2, <1>4, SMT, SMTT(30) DEF HostInv, UnitInv, Finished, HostKept, Begins
  <2>3. EngineInv'
    BY <1>1, <1>2, <1>4, SMT, SMTT(30) DEF HostInv, EngineInv, Finished, HostKept, Begins
  <2>4. DataInv'
    BY <1>1, <1>2, <1>4, SMT, SMTT(30) DEF HostInv, DataInv, Finished, HostKept, Begins
  <2> QED
    BY <2>1, <2>2, <2>3, <2>4, Zenon
<1>5. CASE Finishes
  <2>1. GateInv'
    BY <1>1, <1>2, <1>5, SMT, SMTT(30) DEF HostInv, GateInv, HostKept, Finishes
  <2>2. UnitInv'
    BY <1>1, <1>2, <1>5, Zenon DEF HostInv, UnitInv, Finished, HostKept, Finishes
  <2>3. EngineInv'
    BY <1>1, <1>2, <1>5, Zenon DEF HostInv, EngineInv, Finished, HostKept, Finishes
  <2>4. DataInv'
    BY <1>1, <1>2, <1>5, Zenon DEF HostInv, DataInv, Finished, HostKept, Finishes
  <2> QED
    BY <2>1, <2>2, <2>3, <2>4, Zenon
<1>6. CASE Commits
  <2>1. GateInv'
    BY <1>1, <1>2, <1>6, SMT, SMTT(30) DEF HostInv, GateInv, HostKept, Commits
  <2>2. UnitInv'
    BY <1>1, <1>2, <1>6, Zenon DEF HostInv, UnitInv, Finished, HostKept, Commits
  <2>3. EngineInv'
    BY <1>1, <1>2, <1>6, Zenon DEF HostInv, EngineInv, Finished, HostKept, Commits
  <2>4. DataInv'
    BY <1>1, <1>2, <1>6, Zenon DEF HostInv, DataInv, Finished, HostKept, Commits
  <2> QED
    BY <2>1, <2>2, <2>3, <2>4, ZenonT(40)
<1>7. CASE Restarts
  <2>1. GateInv'
    BY <1>1, <1>2, <1>7, Zenon DEF HostInv, GateInv, HostKept, Restarts
  <2>2. UnitInv'
    BY <1>1, <1>2, <1>7, Zenon DEF HostInv, UnitInv, Finished, HostKept, Restarts
  <2>3. EngineInv'
    BY <1>1, <1>2, <1>7, Zenon DEF HostInv, EngineInv, Finished, HostKept, Restarts
  <2>4. DataInv'
    BY <1>1, <1>2, <1>7, Zenon DEF HostInv, DataInv, Finished, HostKept, Restarts
  <2> QED
    BY <2>1, <2>2, <2>3, <2>4, ZenonT(40)
<1>8. CASE Reopens
  <2>1. GateInv'
    BY <1>1, <1>2, <1>8, SMT, SMTT(30) DEF HostInv, GateInv, HostKept, Reopens
  <2>2. UnitInv'
    BY <1>1, <1>2, <1>8, Zenon DEF HostInv, UnitInv, Finished, HostKept, Reopens
  <2>3. EngineInv'
    BY <1>1, <1>2, <1>8, Zenon DEF HostInv, EngineInv, Finished, HostKept, Reopens
  <2>4. DataInv'
    BY <1>1, <1>2, <1>8, Zenon DEF HostInv, DataInv, Finished, HostKept, Reopens
  <2> QED
    BY <2>1, <2>2, <2>3, <2>4, ZenonT(40)
<1>9. CASE Undoes
  <2>1. GateInv'
    BY <1>1, <1>2, <1>9, SMT, SMTT(30) DEF HostInv, GateInv, HostKept, Undoes
  <2>2. UnitInv'
    BY <1>1, <1>2, <1>9, SMT, SMTT(30) DEF HostInv, UnitInv, Finished, HostKept, Undoes
  <2>3. EngineInv'
    <3>1. proc' = "undo" /\ legacy' = legacy /\ Count' \in Int /\ Count' <= Count
      BY <1>1, <1>2, <1>9, SMT, SMTT(30) DEF HostKept, Undoes
    <3>3. legacy.state = "removed" => Count' >= 3
      <4>1. Count \in {3} /\ proc = "undo" => legacy.state # "removed"
        BY <1>9, Zenon DEF HostInv, EngineInv, Undoes
      <4> QED
        BY <1>2, <1>9, <4>1, SMT, SMTT(30) DEF HostInv, EngineInv, Undoes
    <3>4. Count' = 3 => Len(todo') = 2
      BY <1>9, Zenon DEF Undoes
    <3>5. /\ legacy \in [state : {"running", "stopped", "removed"}, gen : Nat]
          /\ Count > 5 => legacy.state # "running"
      BY Zenon  DEF HostInv, EngineInv, Finished
    <3> QED
      BY <1>2, <3>1, <3>3, <3>4, <3>5, SMT, SMTT(30) DEF EngineInv, Finished
  <2>4. DataInv'
    BY <1>1, <1>2, <1>9, SMT, SMTT(30) DEF HostInv, DataInv, Finished, HostKept, Undoes
  <2> QED
    BY <2>1, <2>2, <2>3, <2>4, Zenon
<1> QED
  BY <1>1, <1>3, <1>4, <1>5, <1>6, <1>7, <1>8, <1>9, ZenonT(40)

(* A process that ends leaves the host as it is.                            *)
LEMMA EndingsKeepHost ==
  ASSUME HostInv, proc' = "idle", UNCHANGED disk
  PROVE  /\ UNCHANGED <<guards, enabled>> => GateInv'
         /\ UNCHANGED <<up, current>> => UnitInv'
         /\ UNCHANGED legacy => EngineInv'
         /\ UNCHANGED <<snap, version, moved>> => DataInv'
<1>1. Count' = Count /\ Count \in 0 .. 8
  BY CountRange, Zenon DEF Count, HostInv
<1>2. UNCHANGED <<guards, enabled>> => GateInv'
  BY <1>1, Zenon DEF HostInv, GateInv
<1>3. UNCHANGED <<up, current>> => UnitInv'
  BY <1>1, Zenon DEF HostInv, UnitInv, Finished
<1>4. UNCHANGED legacy => EngineInv'
  BY <1>1, Zenon DEF HostInv, EngineInv, Finished
<1>5. UNCHANGED <<snap, version, moved>> => DataInv'
  BY <1>1, Zenon DEF HostInv, DataInv, Finished
<1> QED
  BY <1>2, <1>3, <1>4, <1>5, Zenon

(* A reboot starts what is enabled and not guarded, and that is what the     *)
(* layout on disk is for.                                                    *)
LEMMA RebootKeepsHost ==
  ASSUME HostInv, Reboot
  PROVE  GateInv' /\ UnitInv' /\ EngineInv' /\ DataInv'
<1>1. /\ proc' = "idle" /\ UNCHANGED <<disk, guards, enabled, snap, version, moved>>
      /\ up' = enabled \ guards
      /\ current' = IF current = "starting" THEN "stopped" ELSE current
      /\ \/ legacy' = legacy
         \/ legacy.state = "running" /\ legacy' = [legacy EXCEPT !.state = "stopped"]
  BY Zenon DEF Reboot, Exit, dataVars
<1>2. Count' = Count /\ Count \in 0 .. 8 /\ (disk.committed => Count = 8)
  BY <1>1, CountRange, Zenon DEF Count, HostInv
<1>3. GateInv' /\ DataInv'
  BY <1>1, EndingsKeepHost, Zenon
<1>4. EngineInv'
  BY <1>1, <1>2, Zenon DEF HostInv, EngineInv, Finished
<1>5. UnitInv'
  <2>1. enabled \subseteq Units
    BY Zenon  DEF HostInv, GateInv
  <2>2. Count >= 4 => "legacy" \notin enabled \ guards
    BY <1>2, SMT, SMTT(30) DEF HostInv, GateInv, Units
  <2>3. "current" \in enabled \ guards => Count >= 7
    BY <1>2, SMT, SMTT(30) DEF HostInv, GateInv
  <2>4. "current" \in up' => Count >= 7
    BY <1>1, <2>3, Zenon
  <2>5. current' # "absent" => Count >= 7
    BY <1>1, Zenon DEF HostInv, UnitInv
  <2>6. Finished(3)' => Count >= 4
    BY <1>1, <1>2, SMT, SMTT(30) DEF Finished
  <2> QED
    BY <1>1, <1>2, <2>1, <2>2, <2>4, <2>5, <2>6, ZenonT(40) DEF UnitInv
<1> QED
  BY <1>3, <1>4, <1>5, ZenonT(40)

(* The agents, the engines and the clients keep it.                         *)
LEMMA WorldKeepsHost ==
  ASSUME HostInv,
         \/ LegacyReplacesEngine
         \/ CurrentStartsEngine
         \/ LegacyWrites
         \/ \E u \in Units : ClientConnects(u)
         \/ ClientLeaves
         \/ UNCHANGED vars
  PROVE  GateInv' /\ UnitInv' /\ EngineInv' /\ DataInv'
<1>1. UNCHANGED <<disk, proc, todo, plan, fence, guards, enabled, up, moved, snap>>
  BY Zenon  DEF LegacyReplacesEngine, CurrentStartsEngine, LegacyWrites, ClientConnects,
     ClientLeaves, vars, journalVars, procVars, hostVars, gateVars, unitVars, dataVars
<1>2. Still /\ Count \in 0 .. 8
  BY <1>1, CountRange, Zenon DEF Still, Count, HostInv
<1>3. GateInv'
  BY <1>1, <1>2, StillKeeps, Zenon
<1>4. CASE LegacyReplacesEngine
  <2>1. /\ "legacy" \in up /\ legacy.state = "removed"
        /\ legacy' = [state |-> "running", gen |-> legacy.gen + 1]
        /\ UNCHANGED <<current, version>>
    BY <1>4, Zenon DEF LegacyReplacesEngine
  <2>2. ~Finished(3) /\ Count >= 3
    BY <2>1, Zenon DEF HostInv, UnitInv, EngineInv
  <2>3. Count = 3 /\ proc \notin {"run", "apply"}
    BY <1>2, <2>1, <2>2, SMT, SMTT(30) DEF Finished, HostInv, EngineInv
  <2>4. legacy.gen + 1 \in Nat
    BY SMT, SMTT(30)  DEF HostInv, EngineInv
  <2>5. EngineInv'
    BY <1>1, <1>2, <2>1, <2>3, <2>4, SMT, SMTT(30) DEF EngineInv, Finished, Still
  <2> QED
    BY <1>1, <1>2, <1>3, <2>1, <2>5, StillKeeps, ZenonT(40)
<1>5. CASE CurrentStartsEngine
  <2>1. "current" \in up /\ UNCHANGED <<legacy, version>>
    BY <1>5, Zenon DEF CurrentStartsEngine, dataVars
  <2>2. Count >= 7
    BY <2>1, Zenon DEF HostInv, UnitInv
  <2>3. ~(proc = "undo" /\ Count = 7 /\ Len(todo) <= 1)
    BY <2>1, Zenon DEF HostInv, UnitInv
  <2>4. Len(todo) = 0 => Len(todo) <= 1
    BY SMT, SMTT(30)
  <2>5. UnitInv'
    BY <1>1, <1>2, <2>1, <2>2, <2>3, <2>4, ZenonT(40) DEF HostInv, UnitInv, Finished, Still
  <2> QED
    BY <1>1, <1>2, <1>3, <2>1, <2>5, StillKeeps, Zenon
<1>6. CASE LegacyWrites
  <2>1. "legacy" \in up /\ UNCHANGED <<legacy, current>>
    BY <1>6, Zenon DEF LegacyWrites, engineVars
  <2>2. ~Finished(3)
    BY <2>1, Zenon DEF HostInv, UnitInv
  <2>3. Count <= 3
    BY <1>2, <2>2, SMT, SMTT(30) DEF Finished
  <2>4. DataInv'
    BY <1>1, <1>2, <2>3, SMT, SMTT(30) DEF HostInv, DataInv, Finished, Still
  <2> QED
    BY <1>1, <1>2, <1>3, <2>1, <2>4, StillKeeps, ZenonT(40)
<1>7. CASE (\E u \in Units : ClientConnects(u)) \/ ClientLeaves \/ UNCHANGED vars
  <2>1. UNCHANGED <<legacy, current, version>>
    BY <1>7, Zenon DEF ClientConnects, ClientLeaves, vars, hostVars, engineVars, dataVars
  <2> QED
    BY <1>1, <1>2, <1>3, <2>1, StillKeeps, Zenon
<1> QED
  BY <1>4, <1>5, <1>6, <1>7, Zenon

(* The host invariant is inductive.                                         *)
LEMMA HostInvStep == HostInv /\ [Next]_vars => HostInv'
<1> SUFFICES ASSUME HostInv, [Next]_vars PROVE HostInv'
  BY Zenon
<1>1. JournalInv' /\ ProgramInv'
  BY JournalInvStep, ProgramInvStep, Zenon DEF HostInv
<1> SUFFICES GateInv' /\ UnitInv' /\ EngineInv' /\ DataInv'
  BY <1>1, Zenon DEF HostInv
<1>2. CASE HostAction
  BY <1>2, HostActionsKeep, Zenon
<1>3. CASE JournalAction \/ Command
  BY <1>3, SavesKeepHost, Zenon
<1>4. CASE Refuse \/ Die
  <2>1. proc' = "idle" /\ UNCHANGED <<disk, guards, enabled, up, current, legacy,
                                      snap, version, moved>>
    BY <1>4, Zenon DEF Refuse, Die, Exit, hostVars, gateVars, unitVars, engineVars, dataVars
  <2> QED
    BY <2>1, EndingsKeepHost, ZenonT(40)
<1>5. CASE Reboot
  BY <1>5, RebootKeepsHost, Zenon
<1>6. CASE \/ LegacyReplacesEngine
           \/ CurrentStartsEngine
           \/ LegacyWrites
           \/ \E u \in Units : ClientConnects(u)
           \/ ClientLeaves
           \/ UNCHANGED vars
  BY <1>6, WorldKeepsHost, Zenon
<1> QED
  BY <1>2, <1>3, <1>4, <1>5, <1>6, ZenonT(40) DEF Next, Environment

(* It holds of the installed legacy appliance.                              *)
LEMMA HostInvInit == Init => HostInv
<1> SUFFICES ASSUME Init PROVE HostInv
  BY Zenon
<1>1. JournalInv
  BY JournalInvInit, ZenonT(40)
<1>2. Count = 0
  BY SMT, SMTT(30) DEF Init, Count, Fresh
<1>3. Program = <<>> /\ todo = <<>>
  BY Zenon DEF Init, Program
<1>4. IsRest(todo, Program)
  BY <1>3, SMT, SMTT(30) DEF IsRest
<1>5. ProgramInv
  BY <1>4, Zenon DEF Init, ProgramInv
<1>6. GateInv /\ UnitInv /\ EngineInv /\ DataInv
  <2>1. GateInv
    BY <1>2, SMT, SMTT(30) DEF Init, GateInv, Units, Fresh
  <2>2. UnitInv
    BY <1>2, SMT, SMTT(30) DEF Init, UnitInv, Finished, Units, Fresh
  <2>3. EngineInv
    BY <1>2, SMT, SMTT(30) DEF Init, EngineInv, Finished, Fresh
  <2>4. DataInv
    BY <1>2, SMT, SMTT(30) DEF Init, DataInv, Finished, Fresh
  <2> QED
    BY <2>1, <2>2, <2>3, <2>4, ZenonT(40)
<1> QED
  BY <1>1, <1>5, <1>6, Zenon DEF HostInv

-----------------------------------------------------------------------------
(* The number of each step the properties name.                             *)
LEMMA StepNumbers ==
    StepNo("StopLegacyServices") = 3 /\ StepNo("Relocate") = 6 /\ StepNo("Activate") = 7
<1>1. Len(Steps) = 8
  BY EightSteps, Zenon
<1>2. /\ Steps[1] = "FenceTraffic" /\ Steps[2] = "Drain"
      /\ Steps[3] = "StopLegacyServices" /\ Steps[4] = "Snapshot"
      /\ Steps[5] = "StopLegacyEngine" /\ Steps[6] = "Relocate"
      /\ Steps[7] = "Activate" /\ Steps[8] = "Qualify"
  BY Zenon DEF Steps
<1>3. ASSUME NEW i \in 1 .. 8
      PROVE  /\ Steps[i] = "StopLegacyServices" <=> i = 3
             /\ Steps[i] = "Relocate" <=> i = 6
             /\ Steps[i] = "Activate" <=> i = 7
  <2>1. i = 1 \/ i = 2 \/ i = 3 \/ i = 4 \/ i = 5 \/ i = 6 \/ i = 7 \/ i = 8
    BY SMT, SMTT(30)
  <2> QED
    BY <1>2, <2>1, Zenon
<1> QED
  BY <1>1, <1>3, SMT, SMTT(30) DEF StepNo

(* "An unfinished action must be recovered, never skipped": whatever          *)
(* interrupts the process and however often the host is rebooted, the journal *)
(* on disk can be read and names every effect found on the host.              *)
THEOREM JournalAlwaysFaithful == Spec => []JournalIsFaithful
<1>1. HostInv => JournalIsFaithful
  <2> SUFFICES ASSUME HostInv PROVE JournalIsFaithful
    BY Zenon
  <2>1. JournalReadable
    BY Zenon DEF HostInv, JournalInv
  <2>2. /\ Begun("StopLegacyServices") <=> Count >= 3
        /\ Begun("Relocate") <=> Count >= 6
        /\ Begun("Activate") <=> Count >= 7
    BY StepNumbers, Zenon DEF Begun, Count
  <2>3. EffectsAreJournaled
    BY <2>2, Zenon DEF EffectsAreJournaled, HostInv, GateInv, UnitInv, EngineInv, DataInv
  <2> QED
    BY <2>1, <2>3, Zenon DEF JournalIsFaithful
<1> QED
  BY <1>1, HostInvInit, HostInvStep, PTL DEF Spec

(* The host is one appliance at a time: the legacy services never run over a  *)
(* half-moved data directory, the current ones never before the last item is  *)
(* in place, and the two engines never share the machine.                     *)
THEOREM AlwaysOneAppliance == Spec => []OneAppliance
<1>1. HostInv => OneAppliance
  <2> SUFFICES ASSUME HostInv PROVE OneAppliance
    BY Zenon
  <2>1. Count \in 0 .. 8
    BY CountRange, Zenon DEF HostInv
  <2>2. "legacy" \in up => moved = {}
    BY <2>1, SMT, SMTT(30) DEF HostInv, UnitInv, DataInv, Finished
  <2>3. "current" \in up => moved = Items
    BY <2>1, SMT, SMTT(30) DEF HostInv, UnitInv, DataInv, Finished
  <2>4. current # "absent" => legacy.state # "running"
    BY <2>1, SMT, SMTT(30) DEF HostInv, UnitInv, EngineInv, Finished
  <2> QED
    BY <2>2, <2>3, <2>4, Zenon DEF OneAppliance, ServicesMatchLayout, OneEngine
<1> QED
  BY <1>1, HostInvInit, HostInvStep, PTL DEF Spec

(* The candidate database of a committed migration holds every write of the   *)
(* legacy agent: it was staged after the agent was stopped, and nothing has   *)
(* started the agent since.                                                   *)
THEOREM CommitAlwaysKeepsWrites == Spec => []CommitKeepsEveryWrite
<1>1. HostInv => CommitKeepsEveryWrite
  <2> SUFFICES ASSUME HostInv, disk.committed PROVE snap = version
    BY Zenon DEF CommitKeepsEveryWrite
  <2>1. Count = 8
    BY CountRange, Zenon DEF HostInv
  <2> QED
    BY <2>1, SMT, SMTT(30) DEF HostInv, DataInv, Finished
<1> QED
  BY <1>1, HostInvInit, HostInvStep, PTL DEF Spec

(* A recovery that archives its transaction has put the legacy appliance's    *)
(* files and boot configuration back and left nothing of the current one.     *)
THEOREM ArchivedIsAlwaysRestored == Spec => ArchivedIsRestored
<1>1. HostInv /\ [Next]_vars =>
        [work # "none" /\ work' = "none" =>
           /\ moved = {}
           /\ current = "absent"
           /\ "current" \notin up
           /\ enabled = {"legacy"}]_vars
  <2> SUFFICES ASSUME HostInv, Next, work # "none", work' = "none"
               PROVE  moved = {} /\ current = "absent" /\ "current" \notin up
                      /\ enabled = {"legacy"}
    BY Zenon
  <2>1. Archive
    <3>1. ~HostAction
      BY HostActionsAdvance, Zenon DEF Advances
    <3>2. ~Refuse /\ ~Die /\ ~Reboot
      BY EndingsExit, Zenon
    <3>3. ~Environment
      BY <3>2, WorldAdvances, Zenon DEF Environment, Advances
    <3>4. ~Command
      BY Zenon DEF Command, Stage, Recover, Resume
    <3>5. JournalAction
      BY <3>1, <3>2, <3>3, <3>4, Zenon DEF Next
    <3> QED
      BY <3>5, Zenon DEF JournalAction, BeginStep, FinishStep, Commit, Opened, BeginRollback,
         UndoneStep, RolledBack, BeginOpening, journalVars
  <2>2. proc = "archive"
    BY <2>1, Zenon DEF Archive
  <2>3. Count = 0 /\ ~disk.committed
    BY <2>2, Zenon DEF HostInv, ProgramInv, JournalInv
  <2> QED
    BY <2>3, SMT, SMTT(30) DEF HostInv, GateInv, UnitInv, DataInv
<1> QED
  BY <1>1, HostInvInit, HostInvStep, PTL DEF Spec, ArchivedIsRestored

-----------------------------------------------------------------------------
(* The cutover that clients outside see.                                    *)

\* The appliances an outside client can reach.
Door == {u \in up : fence = "none"}

\* Before the commit the current services run behind the fence, or not at all.
DoorInv == "current" \in up /\ ~disk.committed => fence # "none"

(* The door is open to at most one appliance: to the legacy one only before  *)
(* the commit, to the current one only after it.                             *)
LEMMA DoorOpensOneWay ==
  ASSUME HostInv, DoorInv
  PROVE  /\ disk.committed \in BOOLEAN
         /\ \/ Door = {}
            \/ Door = {"legacy"} /\ ~disk.committed
            \/ Door = {"current"} /\ disk.committed
<1>1. Count \in 0 .. 8 /\ (disk.committed => Count = 8)
  BY CountRange, Zenon DEF HostInv
<1>2. up \subseteq {"legacy", "current"}
  BY Zenon DEF HostInv, UnitInv, Units
<1>3. disk.committed => "legacy" \notin up
  BY <1>1, SMT, SMTT(30) DEF HostInv, UnitInv, Finished
<1>4. ~("legacy" \in up /\ "current" \in up)
  BY <1>1, SMT, SMTT(30) DEF HostInv, UnitInv, Finished
<1>5. disk.committed \in BOOLEAN
  BY Zenon DEF HostInv, JournalInv, Journal
<1>6. CASE fence # "none"
  BY <1>5, <1>6, ZenonT(40) DEF Door
<1>7. CASE fence = "none"
  <2>1. Door = up
    BY <1>7, Zenon DEF Door
  <2>2. "current" \in up => disk.committed
    BY <1>7, Zenon DEF DoorInv
  <2>3. up = {} \/ up = {"legacy"} \/ up = {"current"}
    BY <1>2, <1>4, Zenon
  <2> QED
    BY <1>3, <1>5, <2>1, <2>2, <2>3, ZenonT(40)
<1> QED
  BY <1>6, <1>7, Zenon

(* It is kept: the current services are started behind the fence before the  *)
(* commit, the fence is opened early only by a recovery that has removed      *)
(* them, and no reboot starts them.                                           *)
LEMMA DoorInvStep == HostInv /\ DoorInv /\ [Next]_vars => DoorInv'
<1> SUFFICES ASSUME HostInv, DoorInv, [Next]_vars PROVE DoorInv'
  BY Zenon
<1>1. /\ Count \in 0 .. 8
      /\ proc \in {"open", "reopen"} => disk.committed
      /\ "current" \in up => Count >= 7
  BY CountRange, Zenon DEF HostInv, JournalInv, UnitInv
<1>2. disk.committed => disk'.committed
  BY CommitStays, Zenon DEF HostInv
<1>3. ASSUME UNCHANGED <<fence, up>> PROVE DoorInv'
  BY <1>2, <1>3, Zenon DEF DoorInv
<1>4. CASE HostAction
  <2>1. disk' = disk
    BY <1>4, HostActionsAdvance, Zenon DEF Advances
  <2>2. CASE Do("Unfence") /\ fence' = "none" /\ up' = up
    <3>1. Moved("Unfence")
      BY <2>2, DoMoves, Zenon DEF HostInv
    <3>2. Count = 1 \/ proc = "open"
      BY <3>1, Zenon DEF Moved, Place, At
    <3> QED
      BY <1>1, <2>1, <2>2, <3>2, SMT, SMTT(30) DEF DoorInv
  <2>3. CASE StartUnits("StartNew", "current")
    <3>1. Moved("StartNew") /\ fence' = fence
      BY <2>3, DoMoves, Zenon DEF HostInv, StartUnits, gateVars
    <3>2. (proc = "apply" /\ Count = 7) \/ proc = "reopen"
      BY <3>1, Zenon DEF Moved, Place, At
    <3>3. fence # "none" \/ disk.committed
      BY <1>1, <3>2, SMT, SMTT(30) DEF HostInv, GateInv
    <3> QED
      BY <2>1, <3>1, <3>3, Zenon DEF DoorInv
  <2>4. CASE /\ up' \subseteq up \union {"legacy"}
             /\ fence' = fence \/ fence' # "none"
    BY <2>1, <2>4, Zenon DEF DoorInv
  <2>5. CASE SetFence
    <3>1. Do("EnsureFence") => fence' # "none" \/ Do("Unfence")
      BY <2>5, Zenon DEF SetFence, Do
    <3> QED
      BY <2>2, <2>4, <2>5, <3>1, Zenon DEF SetFence, unitVars
  <2>6. CASE Seal
    BY <2>4, <2>6, Zenon DEF Seal, unitVars
  <2>7. CASE \/ StartUnits("StartOld", "legacy") \/ StopUnits("StopOld", "legacy")
             \/ StopUnits("StopNew", "current")
    BY <2>4, <2>7, Zenon DEF StartUnits, StopUnits, gateVars
  <2>8. CASE \/ Check \/ InstallGuard \/ RemoveGuard \/ GuardsDone \/ SetPermit
             \/ SetEnabled \/ Prepare \/ StopEngine \/ RestoreEngine \/ RemoveEngine
             \/ RemoveCurrent \/ MoveItem \/ RestoreItem \/ MovesDone
    BY <1>3, <2>8, Zenon DEF Check, InstallGuard, RemoveGuard, GuardsDone, SetPermit, SetEnabled,
       Prepare, StopEngine, RestoreEngine, RemoveEngine, RemoveCurrent, MoveItem,
       RestoreItem, MovesDone, hostVars, gateVars, unitVars
  <2> QED
    BY <1>4, <2>3, <2>5, <2>6, <2>7, <2>8, ZenonT(40) DEF HostAction
<1>5. CASE JournalAction \/ Command
  BY <1>3, <1>5, SaveKinds, Zenon DEF HostInv, HostKept
<1>6. CASE Refuse \/ Die
  BY <1>3, <1>6, Zenon DEF Refuse, Die, hostVars, gateVars, unitVars
<1>7. CASE Reboot
  <2>1. up' = enabled \ guards /\ disk' = disk
    BY <1>7, Zenon DEF Reboot
  <2>2. "current" \in enabled => disk.committed
    BY SMT, SMTT(30)  DEF HostInv, GateInv
  <2> QED
    BY <2>1, <2>2, Zenon DEF DoorInv
<1>8. CASE \/ LegacyReplacesEngine
           \/ CurrentStartsEngine
           \/ LegacyWrites
           \/ \E u \in Units : ClientConnects(u)
           \/ ClientLeaves
           \/ UNCHANGED vars
  BY <1>3, <1>8, ZenonT(40) DEF LegacyReplacesEngine, CurrentStartsEngine, LegacyWrites,
     ClientConnects, ClientLeaves, vars, hostVars, gateVars, unitVars
<1> QED
  BY <1>4, <1>5, <1>6, <1>7, <1>8, ZenonT(40) DEF Next, Environment

(* The decision is taken only while the door is closed.                     *)
LEMMA DecidedBehindFence ==
  ASSUME HostInv, [Next]_vars, ~disk.committed, disk'.committed
  PROVE  Door = {} /\ Door' = {}
<1>1. JournalAction \/ Command
  <2>1. disk' # disk
    BY Zenon
  <2>2. ~HostAction
    BY <2>1, HostActionsAdvance, Zenon DEF Advances
  <2>3. ~Refuse /\ ~Environment
    BY <2>1, EndingsExit, WorldAdvances, ZenonT(40) DEF Environment, Advances
  <2>4. ~UNCHANGED vars
    BY <2>1, Zenon DEF vars, journalVars
  <2> QED
    BY <2>2, <2>3, <2>4, Zenon DEF Next
<1>2. HostKept /\ (Stages \/ Begins \/ Finishes \/ Commits \/ Restarts \/ Reopens \/ Undoes)
  BY <1>1, SaveKinds, Zenon DEF HostInv
<1>3. Commits
  BY <1>2, Zenon DEF Stages, Begins, Finishes, Restarts, Reopens, Undoes
<1>4. fence # "none" /\ fence' = fence
  BY <1>2, <1>3, SMT, SMTT(30) DEF Commits, HostKept, HostInv, GateInv
<1> QED
  BY <1>4, Zenon DEF Door

(* What outside clients see is a one-way cutover: every step of the          *)
(* migration, of the world around it, and every death and reboot, is a step   *)
(* of Cutover or changes nothing a client can see.                           *)
THEOREM MigrationImplementsCutover == Spec => ImplementsCutover
<1>1. Init => Outside!Init
  BY SMT, SMTT(30)  DEF Init, Outside!Init, Fresh
<1>2. Init => HostInv /\ DoorInv
  BY HostInvInit, Zenon DEF Init, DoorInv
<1>3. HostInv /\ DoorInv /\ [Next]_vars => HostInv' /\ DoorInv'
  BY HostInvStep, DoorInvStep, Zenon
<1>4. HostInv /\ DoorInv =>
        /\ disk.committed \in BOOLEAN
        /\ \/ Door = {}
           \/ Door = {"legacy"} /\ ~disk.committed
           \/ Door = {"current"} /\ disk.committed
  BY DoorOpensOneWay, Zenon
<1>5. HostInv /\ DoorInv /\ HostInv' /\ DoorInv' /\ [Next]_vars
        => [Outside!Next]_(Outside!vars)
  <2> SUFFICES ASSUME HostInv, DoorInv, HostInv', DoorInv', [Next]_vars
               PROVE  [Outside!Next]_(Outside!vars)
    BY Zenon
  <2>1. /\ disk.committed \in BOOLEAN
        /\ \/ Door = {}
           \/ Door = {"legacy"} /\ ~disk.committed
           \/ Door = {"current"} /\ disk.committed
    BY <1>4, Zenon
  <2>2. /\ disk'.committed \in BOOLEAN
        /\ \/ Door' = {}
           \/ Door' = {"legacy"} /\ ~disk'.committed
           \/ Door' = {"current"} /\ disk'.committed
    <3>1. (HostInv /\ DoorInv =>
             /\ disk.committed \in BOOLEAN
             /\ \/ Door = {}
                \/ Door = {"legacy"} /\ ~disk.committed
                \/ Door = {"current"} /\ disk.committed)'
      BY <1>4, PTL
    <3> QED
      BY <3>1, Zenon
  <2>3. disk.committed => disk'.committed
    BY CommitStays, Zenon DEF HostInv
  <2>4. ~disk.committed /\ disk'.committed => Door = {} /\ Door' = {}
    BY DecidedBehindFence, Zenon
  <2>5. \/ Door' = {} /\ disk'.committed = disk.committed
        \/ Door = {} /\ ~disk.committed /\ Door' = {"legacy"}
           /\ disk'.committed = disk.committed
        \/ Door = {} /\ disk'.committed = TRUE /\ Door' = Door
        \/ Door = {} /\ disk.committed /\ Door' = {"current"}
           /\ disk'.committed = disk.committed
        \/ Door' = Door /\ disk'.committed = disk.committed
    BY <2>1, <2>2, <2>3, <2>4, SMT, SMTT(30)
  <2> QED
    BY <2>5, Zenon DEF Outside!Next, Outside!vars, Outside!Close, Outside!OpenLegacy,
       Outside!Decide, Outside!OpenCurrent, Door
<1> QED
  BY <1>1, <1>2, <1>3, <1>5, PTL DEF Spec, ImplementsCutover, Outside!Spec
=============================================================================
