--------------------------- MODULE ServicesProofs ---------------------------
(***************************************************************************)
(* Two services that answer for what they do: the emergency guard, which   *)
(* kills what it looked up, once, after it wrote that down, and the        *)
(* qualification jobs.  For any instances and jobs.                        *)
(***************************************************************************)
EXTENDS EmergencyGuard, Qualification, WellFoundedInduction, TLAPS

-----------------------------------------------------------------------------
(* The emergency guard.                                                     *)

NatLess == {ss \in Nat \X Nat : ss[1] < ss[2]}

(* A nonempty set of natural numbers has a least element.                   *)
LEMMA LeastNat ==
  ASSUME NEW T, T \subseteq Nat, T # {}
  PROVE  \E x \in T : \A y \in T : x <= y
<1>1. IsWellFoundedOn(NatLess, Nat)
  BY NatLessThanWellFounded, Zenon DEF OpToRel, NatLess
<1>2. PICK x \in T : \A y \in T : ~ (<<y, x>> \in NatLess)
  BY <1>1, WFMin, Zenon
<1>3. \A y \in T : y < x => <<y, x>> \in NatLess
  BY Zenon DEF NatLess
<1>4. ASSUME NEW y \in T PROVE x <= y
  <2>1. x \in Nat /\ y \in Nat
    BY Zenon
  <2>2. ~(y < x)
    BY <1>2, <1>3, Zenon
  <2> QED
    BY <2>1, <2>2, SMT, SMTT(30)
<1> QED
  BY <1>4, Zenon


Identities == [first : Nat, process : Nat]
Keys == Key \cup {<<0, 0>>}
Containers == [st : {"none", "running", "restarting", "exited"}, auto : BOOLEAN,
               first : Nat, process : Nat]
Watching == [gen : 0 .. MaxGen, phase : {"none", "starting", "healthy"}, grew : BOOLEAN]
Decisions == [pc : {"rest", "decided", "armed", "inspected", "disabled"}, key : Keys,
              expected : Identities, fresh : Identities, repromoted : BOOLEAN]
Promotions == [key : Keys, seen : Identities]

GuardTypes ==
  /\ ctr \in [Key -> Containers] /\ newest \in [Instance -> 0 .. MaxGen]
  /\ managed \in [Instance -> Watching] /\ identity \in [Key -> Identities]
  /\ breaches \in 0 .. Samples /\ faults \in 0 .. EngineFaults
  /\ suppressed \subseteq Key /\ journal \subseteq Key /\ kills \in [Key -> Nat]
  /\ guard \in Decisions
  /\ promotion \in Promotions /\ (promotion # NoPromotion => promotion.key \in Key)

\* A decision in hand is recorded, and about a generation that was not shed.
DecisionInv ==
  guard.pc # "rest" => guard.key \in Key /\ guard.key \in journal \ suppressed

\* A generation that was shed is not a candidate any more, and its record is
\* in the journal.
ShedInv ==
  \A k \in Key : kills[k] <= 1 /\ (kills[k] > 0 => k \in suppressed /\ k \in journal)

\* Docker does not restart what the guard is about to kill.
PolicyInv == guard.pc = "disabled" /\ ~guard.repromoted => ~ctr[guard.key].auto

GuardInv == GuardTypes /\ DecisionInv /\ ShedInv /\ PolicyInv

(* Of the candidates one is the latest: select_victim picks one of them.    *)
LEMMA LatestIsCandidate ==
  ASSUME NEW m, \A i \in Instance : m[i].gen \in 0 .. MaxGen,
         NEW S \in SUBSET Instance, S # {}
  PROVE  Latest(S, m) \in S
<1> DEFINE Ages == {MaxGen - m[i].gen : i \in S}
<1>1. MaxGen \in Nat /\ S \subseteq Nat
  BY GuardAssumption, Zenon
<1>2. Ages \subseteq Nat /\ Ages # {}
  <2>1. ASSUME NEW i \in S PROVE MaxGen - m[i].gen \in Nat
    <3>1. m[i].gen \in Nat /\ m[i].gen <= MaxGen
      BY <1>1, SMT, SMTT(30)
    <3> QED
      BY <1>1, <3>1, SMT, SMTT(30)
  <2> QED
    BY <2>1, Zenon
<1>3. PICK a \in Ages : \A b \in Ages : a <= b
  <2> HIDE DEF Ages
  <2> QED
    BY <1>2, LeastNat, Zenon
<1>4. PICK first \in S : a = MaxGen - m[first].gen
  BY <1>3, Zenon
<1>5. ASSUME NEW j \in S PROVE m[j].gen <= m[first].gen
  <2>1. MaxGen - m[j].gen \in Ages
    BY Zenon
  <2>2. MaxGen - m[first].gen <= MaxGen - m[j].gen
    BY <1>3, <1>4, <2>1, Zenon
  <2>3. m[j].gen \in Nat /\ m[first].gen \in Nat
    BY SMT, SMTT(30)
  <2> QED
    BY <1>1, <2>2, <2>3, SMT, SMTT(30)
<1>6. PICK last \in Instance : \A i \in Instance : i <= last
  BY GuardAssumption, Zenon
<1> DEFINE Rests == {last - i : i \in {j \in S : m[j].gen = m[first].gen}}
<1>7. Rests \subseteq Nat /\ Rests # {}
  <2>1. last \in Nat /\ \A i \in S : i \in Nat /\ i <= last
    BY <1>1, <1>6, GuardAssumption, Zenon
  <2>2. ASSUME NEW i \in S PROVE last - i \in Nat
    <3>1. last \in Nat /\ i \in Nat /\ i <= last
      BY <2>1, Zenon
    <3> QED
      BY <3>1, SMT, SMTT(30)
  <2>3. last - first \in Rests
    BY Zenon
  <2> QED
    BY <2>2, <2>3, Zenon
<1>8. PICK r \in Rests : \A b \in Rests : r <= b
  <2> HIDE DEF Rests
  <2> QED
    BY <1>7, LeastNat, Zenon
<1>9. PICK i \in S : m[i].gen = m[first].gen /\ r = last - i
  BY <1>8, Zenon
<1>10. ASSUME NEW j \in S
       PROVE  m[j].gen < m[i].gen \/ (m[j].gen = m[i].gen /\ j <= i)
  <2>1. CASE m[j].gen = m[first].gen
    <3>1. last - j \in Rests
      BY <2>1, Zenon
    <3>2. last - i <= last - j
      BY <1>8, <1>9, <3>1, Zenon
    <3> QED
      BY <1>1, <1>6, <1>9, <2>1, <3>2, GuardAssumption, SMT, SMTT(30)
  <2>2. CASE m[j].gen # m[first].gen
    BY <1>1, <1>5, <1>9, <2>2, SMT, SMTT(30)
  <2> QED
    BY <2>1, <2>2, Zenon
<1> QED
  BY <1>9, <1>10, Zenon DEF Latest

(* Refreshing the readings keeps the rest of what is managed.               *)
LEMMA RefreshKeepsTypes ==
  ASSUME GuardTypes, NEW grew \in [Instance -> BOOLEAN]
  PROVE  Refreshed(grew) \in [Instance -> Watching]
  BY ZenonT(40)  DEF GuardTypes, Refreshed, Watching

(* What the guard observes of an instance has the types it keeps (observe). *)
LEMMA ObserveKeepsTypes ==
  ASSUME GuardTypes, NEW k \in Key, NEW seen \in Identities, NEW c,
         NEW phase \in {"starting", "healthy"}, Observe(k, seen, c, phase)
  PROVE  /\ managed' \in [Instance -> Watching]
         /\ identity' \in [Key -> Identities]
<1>1. PICK grew \in [Instance -> BOOLEAN] :
         managed' = [Refreshed(grew) EXCEPT ![k[1]] =
                       [gen |-> k[2], phase |-> phase, grew |-> Readable(seen, c)]]
  BY Zenon  DEF Observe
<1>2. Readable(seen, c) \in BOOLEAN
  BY Zenon DEF Readable
<1>3. k[1] \in Instance /\ k[2] \in 0 .. MaxGen
  BY GuardAssumption, SMT, SMTT(30) DEF Key
<1>4. Refreshed(grew) \in [Instance -> Watching]
  BY RefreshKeepsTypes, Zenon
<1> QED
  BY <1>1, <1>2, <1>3, <1>4, Zenon DEF Observe, Watching, GuardTypes

(* A decision is about a generation that is watched and was not shed.       *)
LEMMA VictimIsKnown ==
  ASSUME NEW m \in [Instance -> Watching], Candidates(m) # {}
  PROVE  KeyOf(Latest(Candidates(m), m), m) \in Key \ suppressed
<1>1. Candidates(m) \in SUBSET Known(m) /\ Known(m) \in SUBSET Instance
  BY Zenon DEF Candidates, Transitional, Growing, Known
<1>2. Latest(Candidates(m), m) \in Known(m)
  BY <1>1, LatestIsCandidate, Zenon DEF Watching
<1>3. ASSUME NEW i \in Known(m) PROVE KeyOf(i, m) \in Key \ suppressed
  <2>1. i \in Instance /\ m[i].gen \in 0 .. MaxGen /\ m[i].gen # 0
    BY Zenon DEF Known, Watching
  <2>2. m[i].gen \in 1 .. MaxGen
    BY <2>1, GuardAssumption, SMT, SMTT(30)
  <2> QED
    BY <2>1, <2>2, Zenon DEF Known, KeyOf, Key
<1> QED
  BY <1>2, <1>3, Zenon

(* What Docker reports and what it leaves behind have their shapes.         *)
LEMMA ContainerTypes ==
  /\ NoContainer \in Containers /\ NoIdentity \in Identities
  /\ Resting \in Decisions /\ Resting.pc = "rest"
  /\ \A c \in Containers : Observed(c) \in Identities /\ Exited(c) \in Containers
  BY Zenon  DEF NoContainer, NoIdentity, Resting, Containers, Identities, Decisions, Keys,
         Observed, Exited

(* The agent's starts, promotions and stops, and Docker, keep the guard's   *)
(* invariant.                                                               *)
LEMMA EnginesKeepInv ==
  ASSUME GuardInv, NEW k \in Key,
         \/ StartEngine(k) \/ PromoteInspects(k) \/ DisableRestart(k) \/ StopEngine(k)
         \/ StopFails(k) \/ EngineExits(k) \/ DockerRestarts(k)
  PROVE  GuardInv'
<1> USE DEF GuardInv, GuardTypes
<1>1. k[1] \in Instance /\ k[2] \in 1 .. MaxGen /\ ctr[k] \in Containers
  BY Zenon DEF Key
<1>2. ctr \in [Key -> Containers] /\ managed \in [Instance -> Watching]
      /\ identity \in [Key -> Identities]
  BY Zenon
<1>3. ASSUME UNCHANGED <<policyVars, guard>>,
             /\ ctr' \in [Key -> Containers] /\ managed' \in [Instance -> Watching]
             /\ identity' \in [Key -> Identities],
             newest' \in [Instance -> 0 .. MaxGen],
             \A l \in Key : ctr'[l].auto => ctr[l].auto,
             faults' \in 0 .. EngineFaults,
             /\ promotion' \in Promotions
             /\ promotion' # NoPromotion => promotion'.key \in Key
      PROVE  GuardInv'
  <2>1. GuardTypes'
    BY <1>3, Zenon DEF policyVars
  <2>2. DecisionInv' /\ ShedInv'
    BY <1>3, Zenon DEF DecisionInv, ShedInv, policyVars
  <2>3. PolicyInv'
    BY <1>3, Zenon DEF PolicyInv, DecisionInv
  <2> QED
    BY <2>1, <2>2, <2>3, Zenon
<1>4. Fault => faults' \in 0 .. EngineFaults
  BY GuardAssumption, SMT, SMTT(30) DEF Fault
<1>5. CASE StartEngine(k)
  <2> DEFINE p == ctr[k].process + 1
             c == [st |-> "running", auto |-> FALSE, first |-> p, process |-> p]
  <2>1. c \in Containers
    <3>1. ctr[k].process \in Nat
      BY ONLY <1>1, Zenon DEF Containers
    <3>2. p \in Nat
      BY ONLY <3>1, SMT, SMTT(30)
    <3> HIDE DEF p
    <3> QED
      BY ONLY <3>2, Zenon DEF Containers
  <2>2. ctr' = [ctr EXCEPT ![k] = c] /\ Observe(k, Observed(c), c, "starting")
    BY <1>5, Zenon DEF StartEngine
  <2>3. managed' \in [Instance -> Watching] /\ identity' \in [Key -> Identities]
    BY <2>1, <2>2, ContainerTypes, ObserveKeepsTypes, Zenon
  <2>4. newest' \in [Instance -> 0 .. MaxGen]
    <3>1. newest' = [newest EXCEPT ![k[1]] = k[2]]
      BY <1>5, Zenon DEF StartEngine
    <3>2. k[2] \in 0 .. MaxGen /\ newest \in [Instance -> 0 .. MaxGen]
      BY <1>1, GuardAssumption, SMT, SMTT(30)
    <3> QED
      BY ONLY <3>1, <3>2, Zenon
  <2>5. ctr' \in [Key -> Containers] /\ \A l \in Key : ctr'[l].auto => ctr[l].auto
    BY <1>2, <2>1, <2>2, Zenon
  <2> QED
    BY <1>3, <1>5, <2>3, <2>4, <2>5, Zenon DEF StartEngine
<1>6. CASE PromoteInspects(k)
  <2>1. promotion' \in Promotions /\ promotion'.key \in Key
    BY <1>1, <1>6, ContainerTypes, Zenon DEF PromoteInspects, Promotions, Keys
  <2> QED
    BY <1>2, <1>3, <1>6, <2>1, Zenon DEF PromoteInspects, monitorVars
<1>7. CASE DisableRestart(k)
  <2>1. ctr' \in [Key -> Containers] /\ \A l \in Key : ctr'[l].auto => ctr[l].auto
    BY <1>2, <1>7, ZenonT(40) DEF DisableRestart, Containers
  <2> QED
    BY <1>2, <1>3, <1>7, <2>1, Zenon DEF DisableRestart, monitorVars, agentVars
<1>8. CASE StopEngine(k)
  <2>1. ctr' \in [Key -> Containers] /\ \A l \in Key : ctr'[l].auto => ctr[l].auto
    BY <1>2, <1>8, Zenon DEF StopEngine, Containers, NoContainer
  <2>2. managed' \in [Instance -> Watching] /\ identity' \in [Key -> Identities]
    BY <1>1, <1>2, <1>8, GuardAssumption, ContainerTypes, SMT, SMTT(30) DEF StopEngine, Unknown, Watching
  <2> QED
    BY <1>3, <1>8, <2>1, <2>2, Zenon DEF StopEngine, agentVars
<1>9. CASE StopFails(k)
  <2>1. ctr' \in [Key -> Containers] /\ \A l \in Key : ctr'[l].auto => ctr[l].auto
    BY <1>2, <1>9, ZenonT(40) DEF StopFails, Containers
  <2> QED
    BY <1>2, <1>3, <1>4, <1>9, <2>1, Zenon DEF StopFails, monitorVars, agentVars
<1>10. CASE EngineExits(k)
  <2>1. ctr' \in [Key -> Containers] /\ \A l \in Key : ctr'[l].auto => ctr[l].auto
    BY <1>2, <1>10, ZenonT(40) DEF EngineExits, Containers, Exited
  <2> QED
    BY <1>2, <1>3, <1>4, <1>10, <2>1, Zenon DEF EngineExits, monitorVars, agentVars
<1>11. CASE DockerRestarts(k)
  <2>1. ctr' \in [Key -> Containers] /\ \A l \in Key : ctr'[l].auto => ctr[l].auto
    BY <1>2, <1>11, SMT, SMTT(30) DEF DockerRestarts, Containers
  <2> QED
    BY <1>2, <1>3, <1>11, <2>1, Zenon DEF DockerRestarts, monitorVars, agentVars
<1> QED
  BY <1>5, <1>6, <1>7, <1>8, <1>9, <1>10, <1>11, Zenon

(* A promotion that lands is noticed by the guard's history, and a restart  *)
(* of the executor forgets everything but the journal.                      *)
LEMMA ExecutorKeepsInv ==
  ASSUME GuardInv, PromoteUpdates \/ ExecutorRestarts
  PROVE  GuardInv'
<1> USE DEF GuardInv, GuardTypes
<1>1. ctr \in [Key -> Containers] /\ managed \in [Instance -> Watching]
      /\ identity \in [Key -> Identities] /\ guard \in Decisions
  BY Zenon
<1>2. CASE ExecutorRestarts
  <2>1. /\ managed' \in [Instance -> Watching] /\ identity' \in [Key -> Identities]
        /\ kills' \in [Key -> Nat] /\ guard' \in Decisions /\ guard'.pc = "rest"
        /\ suppressed' = {} /\ breaches' \in 0 .. Samples /\ faults' \in 0 .. EngineFaults
    BY <1>2, GuardAssumption, ContainerTypes, SMT, SMTT(30)
       DEF ExecutorRestarts, Unknown, Watching, Fault
  <2>2. NoPromotion \in Promotions
    BY ContainerTypes, Zenon DEF NoPromotion, Promotions, Keys
  <2>3. GuardTypes'
    BY <1>2, <2>1, <2>2, Zenon DEF ExecutorRestarts
  <2>4. DecisionInv' /\ ShedInv' /\ PolicyInv'
    BY <1>2, <2>1, SMT, SMTT(30) DEF ExecutorRestarts, DecisionInv, ShedInv, PolicyInv
  <2> QED
    BY <2>3, <2>4, Zenon
<1>3. CASE PromoteUpdates
  <2> DEFINE k == promotion.key
  <2>1. k \in Key /\ promotion.seen \in Identities
    BY <1>3, Zenon DEF PromoteUpdates, Promotions
  <2>2. NoPromotion \in Promotions
    BY ContainerTypes, Zenon DEF NoPromotion, Promotions, Keys
  <2>3. CASE /\ ctr' = [ctr EXCEPT ![k].auto = TRUE]
             /\ Observe(k, promotion.seen, ctr[k], "healthy")
             /\ guard' = [guard EXCEPT !.repromoted = @ \/ guard.key = k]
    <3>1. managed' \in [Instance -> Watching] /\ identity' \in [Key -> Identities]
      BY <2>1, <2>3, ObserveKeepsTypes, Zenon
    <3>2. ctr' \in [Key -> Containers] /\ \A l \in Key : l # k => ctr'[l] = ctr[l]
      BY <1>1, <2>1, <2>3, ZenonT(40) DEF Containers
    <3>3. (guard.repromoted \/ guard.key = k) \in BOOLEAN
      BY <1>1, Zenon DEF Decisions
    <3>4. /\ guard' \in Decisions /\ guard'.pc = guard.pc /\ guard'.key = guard.key
          /\ guard'.repromoted = (guard.repromoted \/ guard.key = k)
      BY <1>1, <2>3, <3>3, Zenon DEF Decisions
    <3>5. GuardTypes'
      BY <1>3, <2>2, <3>1, <3>2, <3>4, Zenon
         DEF PromoteUpdates, policyVars
    <3>6. DecisionInv' /\ ShedInv'
      BY <1>3, <3>4, Zenon DEF PromoteUpdates, policyVars, DecisionInv, ShedInv
    <3>7. PolicyInv'
      <4>1. guard.pc = "disabled" => guard.key \in Key
        BY Zenon DEF DecisionInv
      <4>2. ~guard'.repromoted => ~guard.repromoted /\ guard.key # k
        BY <3>4, Zenon
      <4> QED
        BY <3>2, <3>4, <4>1, <4>2, Zenon DEF PolicyInv
    <3> QED
      BY <3>5, <3>6, <3>7, Zenon
  <2>4. CASE UNCHANGED <<ctr, monitorVars, guard>>
    <3>1. GuardTypes'
      BY <1>3, <2>2, <2>4, Zenon DEF PromoteUpdates, policyVars, monitorVars
    <3>2. DecisionInv' /\ ShedInv' /\ PolicyInv'
      BY <1>3, <2>4, Zenon DEF PromoteUpdates, policyVars, DecisionInv, ShedInv, PolicyInv
    <3> QED
      BY <3>1, <3>2, Zenon
  <2> QED
    BY <1>3, <2>3, <2>4, Zenon DEF PromoteUpdates
<1> QED
  BY <1>2, <1>3, Zenon

(* A sample decides about a generation that was not shed, and records the   *)
(* decision before it is in hand.                                           *)
LEMMA SampleKeepsInv ==
  ASSUME GuardInv, NEW low \in BOOLEAN, NEW pressure \in BOOLEAN,
         NEW grew \in [Instance -> BOOLEAN],
         Sample(low, pressure, grew) \/ IncompleteSample(grew)
  PROVE  GuardInv'
<1> USE DEF GuardInv, GuardTypes
<1>1. managed' \in [Instance -> Watching] /\ guard.pc = "rest"
  BY RefreshKeepsTypes, Zenon DEF Sample, IncompleteSample
<1>2. Breaches(low) \in 0 .. Samples
  BY GuardAssumption, SMT, SMTT(30) DEF Breaches
<1>3. CASE IncompleteSample(grew)
  <2>1. GuardTypes'
    BY <1>1, <1>3, Zenon DEF IncompleteSample, agentVars, policyVars
  <2>2. DecisionInv' /\ ShedInv' /\ PolicyInv'
    BY <1>1, <1>3, Zenon DEF IncompleteSample, policyVars, DecisionInv, ShedInv, PolicyInv
  <2> QED
    BY <2>1, <2>2, Zenon
<1>4. CASE Sample(low, pressure, grew)
  <2>0. /\ ctr' = ctr /\ newest' = newest /\ promotion' = promotion /\ identity' = identity
        /\ suppressed' = suppressed /\ kills' = kills /\ breaches' = Breaches(low)
    BY <1>4, Zenon DEF Sample, agentVars
  <2>1. CASE UNCHANGED <<journal, guard, faults>>
    <3>1. GuardTypes'
      BY <1>1, <1>2, <2>0, <2>1, Zenon
    <3>2. DecisionInv' /\ ShedInv' /\ PolicyInv'
      BY <1>1, <2>0, <2>1, Zenon DEF DecisionInv, ShedInv, PolicyInv
    <3> QED
      BY <3>1, <3>2, Zenon
  <2>2. CASE /\ Candidates(managed') # {}
             /\ Record(KeyOf(Latest(Candidates(managed'), managed'), managed'))
    <3> DEFINE k == KeyOf(Latest(Candidates(managed'), managed'), managed')
    <3>1. k \in Key \ suppressed
      BY <1>1, <2>2, VictimIsKnown, Zenon
    <3> HIDE DEF k
    <3>2. Record(k)
      BY <2>2, Zenon DEF k
    <3>3. /\ journal' \subseteq Key /\ journal \subseteq journal'
          /\ faults' \in 0 .. EngineFaults
      BY <3>1, <3>2, GuardAssumption, SMT, SMTT(30) DEF Record, Fault
    <3>4. \/ guard' = guard
          \/ /\ guard' = [Resting EXCEPT !.pc = "decided", !.key = k]
             /\ k \in journal'
      BY <3>2, Zenon DEF Record
    <3>5. /\ guard' \in Decisions
          /\ guard'.pc # "rest" => guard'.key = k /\ k \in journal' /\ guard'.pc = "decided"
      BY <1>1, <3>1, <3>4, ContainerTypes, ZenonT(40) DEF Decisions, Keys
    <3>6. GuardTypes'
      BY <1>1, <1>2, <2>0, <3>3, <3>5, Zenon
    <3>7. DecisionInv' /\ ShedInv' /\ PolicyInv'
      BY <2>0, <3>1, <3>3, <3>5, Zenon DEF DecisionInv, ShedInv, PolicyInv
    <3> QED
      BY <3>6, <3>7, Zenon
  <2> QED
    BY <1>4, <2>1, <2>2, Zenon DEF Sample
<1> QED
  BY <1>3, <1>4, Zenon

(* The guard acts on the decision it recorded, and sheds it once.           *)
LEMMA ActuationKeepsInv ==
  ASSUME GuardInv, GuardArms \/ GuardInspects \/ GuardDisablesRestart \/ GuardKills
  PROVE  GuardInv'
<1> USE DEF GuardInv, GuardTypes
<1> DEFINE k == guard.key
<1>1. k \in Key /\ k \in journal /\ k \notin suppressed
  BY Zenon DEF DecisionInv, GuardArms, GuardInspects, GuardDisablesRestart, GuardKills
<1>2. ASSUME UNCHANGED <<newest, promotion, managed, identity, breaches, suppressed, journal, kills>>,
             ctr' \in [Key -> Containers], guard' \in Decisions,
             faults' \in 0 .. EngineFaults,
             guard'.pc # "rest" => guard'.key = k,
             guard'.pc = "disabled" => ~ctr'[k].auto
      PROVE  GuardInv'
  <2>1. GuardTypes'
    BY <1>2, Zenon
  <2>2. DecisionInv' /\ ShedInv' /\ PolicyInv'
    BY <1>1, <1>2, Zenon DEF DecisionInv, ShedInv, PolicyInv
  <2> QED
    BY <2>1, <2>2, Zenon
<1>3. CASE GuardArms
  <2>1. /\ guard' \in Decisions
        /\ guard'.pc \in {"rest", "armed"} /\ (guard'.pc # "rest" => guard'.key = k)
    BY <1>1, <1>3, ContainerTypes, ZenonT(40) DEF GuardArms, Decisions
  <2> QED
    BY <1>2, <1>3, <2>1, Zenon DEF GuardArms, agentVars, monitorVars, policyVars
<1>4. CASE GuardInspects
  <2>0. Observed(ctr[k]) \in Identities
    BY <1>1, ContainerTypes, Zenon
  <2>1. /\ guard' \in Decisions
        /\ guard'.pc \in {"rest", "inspected"} /\ (guard'.pc # "rest" => guard'.key = k)
    BY <1>4, <2>0, ContainerTypes, Zenon DEF GuardInspects, Decisions
  <2>2. faults' \in 0 .. EngineFaults
    BY <1>4, GuardAssumption, SMT, SMTT(30) DEF GuardInspects, Fault
  <2> QED
    BY <1>2, <1>4, <2>1, <2>2, Zenon DEF GuardInspects, agentVars, monitorVars, policyVars
<1>5. CASE GuardDisablesRestart
  <2>1. CASE /\ ctr' = [ctr EXCEPT ![k] = Disabled(@)]
             /\ guard' = [guard EXCEPT !.pc = "disabled", !.repromoted = FALSE]
    <3>1. ctr' \in [Key -> Containers] /\ ~ctr'[k].auto
      BY <1>1, <2>1, ZenonT(40) DEF Disabled, Containers
    <3>2. guard' \in Decisions /\ guard'.key = k
      BY <2>1, Zenon DEF Decisions
    <3> QED
      BY <1>2, <1>5, <3>1, <3>2, Zenon DEF GuardDisablesRestart, agentVars, monitorVars, policyVars
  <2>2. CASE guard' = Resting /\ UNCHANGED ctr
    BY <1>2, <1>5, <2>2, ContainerTypes, Zenon
       DEF GuardDisablesRestart, agentVars, monitorVars, policyVars
  <2> QED
    BY <1>5, <2>1, <2>2, Zenon DEF GuardDisablesRestart
<1>6. CASE GuardKills
  <2>1. guard' = Resting
    BY <1>6, Zenon DEF GuardKills
  <2>2. CASE UNCHANGED <<ctr, suppressed, kills>>
    BY <1>2, <1>6, <2>1, <2>2, ContainerTypes, Zenon DEF GuardKills, agentVars, monitorVars
  <2>3. CASE /\ ctr' = [ctr EXCEPT ![k] = Exited(@)]
             /\ suppressed' = suppressed \cup {k}
             /\ kills' = [kills EXCEPT ![k] = @ + 1]
    <3>1. ctr' \in [Key -> Containers]
      BY <1>1, <2>3, ContainerTypes, Zenon
    <3>2. kills[k] = 0
      BY <1>1, SMT, SMTT(30) DEF ShedInv
    <3>3. kills' \in [Key -> Nat] /\ kills'[k] = 1 /\ \A l \in Key : l # k => kills'[l] = kills[l]
      BY <1>1, <2>3, <3>2, SMT, SMTT(30)
    <3>4. GuardTypes'
      BY <1>1, <1>6, <2>1, <2>3, <3>1, <3>3, ContainerTypes, Zenon
         DEF GuardKills, agentVars, monitorVars
    <3>5. ShedInv'
      <4>1. journal' = journal
        BY <1>6, Zenon DEF GuardKills
      <4>2. ShedInv
        BY Zenon
      <4> QED
        BY ONLY <1>1, <2>3, <3>3, <4>1, <4>2, SMT, SMTT(30) DEF ShedInv
    <3>6. DecisionInv' /\ PolicyInv'
      BY <2>1, ContainerTypes, Zenon DEF DecisionInv, PolicyInv
    <3> QED
      BY <3>4, <3>5, <3>6, Zenon
  <2> QED
    BY <1>6, <2>2, <2>3, Zenon DEF GuardKills, Suppress
<1> QED
  BY <1>3, <1>4, <1>5, <1>6, Zenon

(* A guard that has just started has killed nothing.                        *)
LEMMA GuardInvInit == Init => GuardInv
<1> SUFFICES ASSUME Init PROVE GuardInv
  BY Zenon
<1>1. GuardTypes
  BY GuardAssumption, ContainerTypes, SMT, SMTT(30)
     DEF Init, GuardTypes, Unknown, Watching, NoPromotion, Promotions, Keys
<1>2. DecisionInv /\ ShedInv /\ PolicyInv
  BY ContainerTypes, SMT, SMTT(30) DEF Init, DecisionInv, ShedInv, PolicyInv
<1> QED
  BY <1>1, <1>2, Zenon DEF GuardInv

(* Every step of guard, agent and Docker keeps the invariant.               *)
LEMMA GuardInvStep == GuardInv /\ [Next]_vars => GuardInv'
<1> SUFFICES ASSUME GuardInv, [Next]_vars PROVE GuardInv'
  BY Zenon
<1>1. CASE UNCHANGED vars
  BY <1>1, Zenon DEF vars, GuardInv, GuardTypes, DecisionInv, ShedInv, PolicyInv
<1> QED
  BY <1>1, EnginesKeepInv, ExecutorKeepsInv, SampleKeepsInv, ActuationKeepsInv, Zenon
     DEF Next, GuardStep

(* Only the guard's kill adds to the kills, and what it killed is the       *)
(* container it armed for, which Docker restarts only after a promotion.    *)
LEMMA KillsAreTheGuards ==
  ASSUME GuardInv, [Next]_vars, NEW k \in Key, kills'[k] > kills[k]
  PROVE  /\ ctr[k].first = guard.expected.first
         /\ ctr'[k].st = "exited" \/ guard.repromoted
<1> USE DEF GuardInv, GuardTypes
<1>1. kills[k] \in Nat /\ kills' # kills
  BY SMT, SMTT(30)
<1>2. ~ExecutorRestarts
  BY <1>1, SMT, SMTT(30) DEF ExecutorRestarts
<1>3. GuardKills
  BY <1>1, <1>2, Zenon DEF Next, GuardStep, vars, policyVars, Sample, GuardArms, GuardInspects,
       GuardDisablesRestart, IncompleteSample, PromoteUpdates, StartEngine, PromoteInspects,
       DisableRestart, StopEngine, StopFails, EngineExits, DockerRestarts
<1>4. guard.key \in Key /\ guard.pc = "disabled"
  BY <1>3, Zenon DEF DecisionInv, GuardKills
<1>5. /\ Kills(guard.key) /\ ctr' = [ctr EXCEPT ![guard.key] = Exited(@)]
      /\ kills' = [kills EXCEPT ![guard.key] = @ + 1]
  BY ONLY <1>1, <1>3, Zenon DEF GuardKills
<1>6. k = guard.key
  <2>1. kills \in [Key -> Nat]
    BY Zenon
  <2>2. CASE k # guard.key
    <3>1. kills'[k] = kills[k]
      BY ONLY <1>4, <1>5, <2>1, <2>2, Zenon
    <3> QED
      BY ONLY <1>1, <3>1, kills'[k] > kills[k], SMT, SMTT(30)
  <2> QED
    BY ONLY <2>2, Zenon
<1>7. ~guard.repromoted => ctr'[k].st = "exited"
  BY <1>4, <1>5, <1>6, Zenon DEF PolicyInv, Exited, Containers
<1> QED
  BY <1>5, <1>6, <1>7, Zenon DEF Kills

(* Whatever the guard killed is in its durable journal, and it kills one    *)
(* generation at most once in a life of the executor, for any number of     *)
(* instances, generations and samples and any faults (sample_once appends   *)
(* before the decision is pending; suppress and select_victim).             *)
THEOREM KillsAlwaysJournaledOnce == Spec => []KillsAreJournaledOnce
<1>1. GuardInv => KillsAreJournaledOnce
  BY Zenon DEF GuardInv, ShedInv, KillsAreJournaledOnce, KillIsJournaled, ShedOnce
<1> QED
  BY <1>1, GuardInvInit, GuardInvStep, PTL DEF Spec

(* A kill hits the container the guard looked up for that decision, however *)
(* the agent's starts and stops interleave with it (kill_managed_cgroup).   *)
THEOREM KillAlwaysHitsArmed == Spec => KillHitsArmedContainer
<1>1. GuardInv /\ [Next]_vars =>
        [\A k \in Key : kills'[k] > kills[k] => ctr[k].first = guard.expected.first]_vars
  BY KillsAreTheGuards, Zenon
<1> QED
  BY <1>1, GuardInvInit, GuardInvStep, PTL DEF Spec, KillHitsArmedContainer

(* Docker restarts what the guard killed only when the agent promoted it    *)
(* after the guard's disable_restart (actuate_emergency).                   *)
THEOREM ShedAlwaysStaysDown == Spec => ShedStaysDownUnlessRepromoted
<1>1. GuardInv /\ [Next]_vars =>
        [\A k \in Key : kills'[k] > kills[k] => ctr'[k].st = "exited" \/ guard.repromoted]_vars
  BY KillsAreTheGuards, Zenon
<1> QED
  BY <1>1, GuardInvInit, GuardInvStep, PTL DEF Spec, ShedStaysDownUnlessRepromoted

-----------------------------------------------------------------------------
(* Qualification.                                                           *)

RequestPlaces == {"idle", "entered", "ensuring", "creating", "waiting", "finished",
                  "leaving", "answered"}
RunnerPlaces == {"idle", "attaching", "collecting", "cleaning", "ended"}
CancelPlaces == {"idle", "asking", "looked", "waiting", "acknowledged", "writing", "over"}
Results == {"none", "passed", "rejected", "error", "cancelled"}

QualificationTypeOK ==
  /\ runTask \in [Jobs -> {"idle", "spawned", "calling", "over"}]
  /\ permits \subseteq Jobs
  /\ request \in [Jobs -> [at: RequestPlaces, result: Results]]
  /\ runner \in [Jobs -> [at: RunnerPlaces, result: Results]]
  /\ box \in [Jobs -> {"none", "created", "running", "gone"}]
  /\ canceller \in [Jobs -> [at: CancelPlaces, left: Int, found: BOOLEAN]]

\* The task of a job keeps the lease until it has the executor's answer.
TaskHoldsLease == \A j \in Jobs : runTask[j] \in {"spawned", "calling"} => lease = j

\* A completion gets its permit when the request is over, and a request is
\* never entered twice.
PermitIsFinal == \A j \in Jobs : j \in permits => request[j].at \in {"leaving", "answered"}

\* A cancel waits for the completion it found; what an acknowledged cancel
\* waited for, or else what it left behind.
AcknowledgedFor ==
  \A j \in Jobs :
    /\ canceller[j].at = "waiting" => canceller[j].found
    /\ canceller[j].at = "acknowledged" =>
         IF canceller[j].found THEN j \in permits ELSE j \in cancelled

\* Unless the container was left to itself: the agent's task waits for every
\* request in the executor, the request for the runner's task, and that task
\* owns the container.
Owned(j) ==
  /\ request[j].at \notin {"idle", "answered"} => runTask[j] = "calling"
  /\ runner[j].at \in {"attaching", "collecting", "cleaning"} => request[j].at = "waiting"
  /\ Alive(j) => runner[j].at \in {"attaching", "collecting", "cleaning"}

EveryRunnerOwned == \A j \in Jobs \ loose : Owned(j)

QualificationInv ==
  /\ QualificationTypeOK /\ TaskHoldsLease /\ PermitIsFinal /\ AcknowledgedFor /\ EveryRunnerOwned
-----------------------------------------------------------------------------
(* Before the first job there is nothing to contain.                        *)
LEMMA QualificationInvInit == QualificationInit => QualificationInv
  BY QualificationAssumption, SMT, SMTT(30)
     DEF QualificationInit, QualificationInv, QualificationTypeOK, TaskHoldsLease, PermitIsFinal,
         AcknowledgedFor, EveryRunnerOwned, Owned, Alive, Idle, NoCancel,
         RequestPlaces, RunnerPlaces, CancelPlaces, Results

(* The handler and the task of a job, and the engine starts that compete    *)
(* for the lease (EngineLease, Qualify, BeginRun, EndRun).                   *)
LEMMA LeaseKeepsInv ==
  ASSUME QualificationInv, NEW j \in Jobs,
         EngineLease \/ Qualify(j) \/ BeginRun(j) \/ EndRun(j)
  PROVE  QualificationInv'
<1> USE DEF QualificationInv
<1>1. UNCHANGED <<registryPart, runnerPart, requestPart, canceller>>
  BY Zenon  DEF EngineLease, Qualify, BeginRun, EndRun
<1>2. QualificationTypeOK'
  BY <1>1, Zenon DEF EngineLease, Qualify, BeginRun, EndRun, QualificationTypeOK,
     registryPart, runnerPart, requestPart
<1>3. TaskHoldsLease'
  <2>1. CASE EngineLease
    BY <2>1, QualificationAssumption, Zenon DEF EngineLease, TaskHoldsLease
  <2>2. CASE Qualify(j)
    BY <2>2, QualificationAssumption, Zenon DEF Qualify, QualificationTypeOK, TaskHoldsLease
  <2>3. CASE BeginRun(j) \/ EndRun(j)
    BY <2>3, QualificationAssumption, ZenonT(40) DEF BeginRun, EndRun, QualificationTypeOK, TaskHoldsLease
  <2> QED
    BY <2>1, <2>2, <2>3, Zenon
<1>4. PermitIsFinal' /\ AcknowledgedFor'
  BY <1>1, Zenon DEF PermitIsFinal, AcknowledgedFor, registryPart, requestPart
<1>5. EveryRunnerOwned'
  BY <1>1, QualificationAssumption, ZenonT(40)
     DEF EngineLease, Qualify, BeginRun, EndRun, QualificationTypeOK, TaskHoldsLease,
         EveryRunnerOwned, Owned, Alive, runnerPart, requestPart
<1> QED
  BY <1>2, <1>3, <1>4, <1>5, Zenon

(* A step of the executor's request other than its creation of the          *)
(* container moves only that request, in a state in which the agent's task  *)
(* waits for it and no runner is at work (Register, TakeRunnerSlot,          *)
(* EnsureImage, ReceiveResult, Deadline, Complete, AnswerAgent).             *)
LEMMA CancelRequestKeepsInv ==
  ASSUME QualificationInv, NEW j \in Jobs,
         \/ Register(j) \/ TakeRunnerSlot(j) \/ EnsureImage(j) \/ ReceiveResult(j)
         \/ Deadline(j) \/ Complete(j) \/ AnswerAgent(j)
  PROVE  QualificationInv'
<1> USE DEF QualificationInv, RequestAt
<1>1. /\ UNCHANGED <<agentPart, runnerPart, canceller>>
      /\ permits \subseteq permits' /\ cancelled \subseteq cancelled'
  BY Zenon DEF Register, TakeRunnerSlot, EnsureImage, ReceiveResult, Deadline, Complete, AnswerAgent,
         registryPart
<1>2. \/ UNCHANGED <<request, permits>>
      \/ /\ \E at \in {"entered", "ensuring", "creating", "finished"}, result \in Results :
              request' = [request EXCEPT ![j] = [at |-> at, result |-> result]]
         /\ request[j].at \notin {"finished", "leaving", "answered"}
         /\ request[j].at = "idle" => runTask[j] = "calling"
         /\ request[j].at = "waiting" => runner[j].at = "ended"
         /\ UNCHANGED permits
      \/ /\ request[j].at = "finished" /\ request' = [request EXCEPT ![j].at = "leaving"]
         /\ permits' = permits \union {j}
      \/ /\ request[j].at = "leaving" /\ request' = [request EXCEPT ![j].at = "answered"]
         /\ UNCHANGED permits
  <2>1. runner[j].result \in Results
    BY Zenon DEF QualificationTypeOK
  <2> QED
    BY <2>1, Zenon DEF Register, TakeRunnerSlot, EnsureImage, ReceiveResult, Deadline, Complete,
                AnswerAgent, registryPart, Results
<1>3. QualificationTypeOK'
  <2>1. request \in [Jobs -> [at: RequestPlaces, result: Results]]
    BY Zenon DEF QualificationTypeOK
  <2>2. ASSUME NEW at \in RequestPlaces, NEW result \in Results,
               request' = [request EXCEPT ![j] = [at |-> at, result |-> result]]
        PROVE  request' \in [Jobs -> [at: RequestPlaces, result: Results]]
    BY <2>1, <2>2, Zenon
  <2>3. ASSUME NEW at \in RequestPlaces, request' = [request EXCEPT ![j].at = at]
        PROVE  request' \in [Jobs -> [at: RequestPlaces, result: Results]]
    BY <2>1, <2>3, Zenon
  <2>4. request' \in [Jobs -> [at: RequestPlaces, result: Results]]
    BY <1>2, <2>1, <2>2, <2>3, ZenonT(40) DEF RequestPlaces
  <2>5. permits' \subseteq Jobs
    BY <1>2, Zenon DEF QualificationTypeOK
  <2> QED
    BY <1>1, <2>4, <2>5, Zenon DEF QualificationTypeOK, agentPart, runnerPart
<1>4. TaskHoldsLease'
  BY <1>1, Zenon DEF TaskHoldsLease, agentPart
<1>5. PermitIsFinal'
  BY <1>2, SMT, SMTT(30) DEF PermitIsFinal, QualificationTypeOK
<1>6. AcknowledgedFor'
  BY <1>1, Zenon DEF AcknowledgedFor
<1>7. EveryRunnerOwned'
  BY <1>1, <1>2, SMT, SMTT(30) DEF EveryRunnerOwned, Owned, Alive, QualificationTypeOK, agentPart, runnerPart
<1> QED
  BY <1>3, <1>4, <1>5, <1>6, <1>7, Zenon

(* The container is created for a task that owns it (CreateRunner), or left *)
(* to itself by a request that is dropped while it creates it (Overrun).    *)
LEMMA ContainerKeepsInv ==
  ASSUME QualificationInv, NEW j \in Jobs, CreateRunner(j) \/ Overrun(j)
  PROVE  QualificationInv'
<1> USE DEF QualificationInv, RequestAt
<1>1. UNCHANGED <<agentPart, registryPart, canceller>>
  BY Zenon DEF CreateRunner, Overrun
<1>a. /\ \A at \in {"waiting", "finished"}, result \in {"none", "error"} :
           [request EXCEPT ![j] = [at |-> at, result |-> result]]
             \in [Jobs -> [at: RequestPlaces, result: Results]]
      /\ [runner EXCEPT ![j] = [at |-> "attaching", result |-> "none"]]
           \in [Jobs -> [at: RunnerPlaces, result: Results]]
      /\ [box EXCEPT ![j] = "created"] \in [Jobs -> {"none", "created", "running", "gone"}]
  BY Zenon DEF QualificationTypeOK, RequestPlaces, RunnerPlaces, Results
<1>b. box' \in {box, [box EXCEPT ![j] = "created"]}
  BY Zenon DEF CreateRunner, Overrun
<1>c. runner' \in {runner, [runner EXCEPT ![j] = [at |-> "attaching", result |-> "none"]]}
  BY Zenon DEF CreateRunner, Overrun
<1>d. \E at \in {"waiting", "finished"}, result \in {"none", "error"} :
        request' = [request EXCEPT ![j] = [at |-> at, result |-> result]]
  BY Zenon DEF CreateRunner, Overrun
<1>2. QualificationTypeOK'
  <2>1. request' \in [Jobs -> [at: RequestPlaces, result: Results]]
    BY <1>a, <1>d, SMT, SMTT(30)
  <2>2. runner' \in [Jobs -> [at: RunnerPlaces, result: Results]]
    BY <1>a, <1>c, Zenon DEF QualificationTypeOK
  <2>3. box' \in [Jobs -> {"none", "created", "running", "gone"}]
    BY <1>a, <1>b, Zenon DEF QualificationTypeOK
  <2> QED
    BY <1>1, <2>1, <2>2, <2>3, Zenon DEF QualificationTypeOK, agentPart, registryPart
<1>3. TaskHoldsLease' /\ AcknowledgedFor'
  BY <1>1, Zenon DEF TaskHoldsLease, AcknowledgedFor, agentPart, registryPart
<1>e. ASSUME NEW k \in Jobs, k # j
      PROVE  request'[k] = request[k] /\ runner'[k] = runner[k] /\ box'[k] = box[k]
  BY <1>b, <1>c, <1>d, <1>e, Zenon DEF QualificationTypeOK
<1>4. PermitIsFinal'
  <2>1. permits' = permits
    BY <1>1, Zenon DEF registryPart
  <2>2. request[j].at \in {"ensuring", "creating", "waiting"}
    BY Zenon DEF CreateRunner, Overrun
  <2>3. j \notin permits
    BY <2>2, Zenon DEF PermitIsFinal
  <2> QED
    BY <1>e, <2>1, <2>3, Zenon DEF PermitIsFinal
<1>5. EveryRunnerOwned'
  <2>1. CASE CreateRunner(j)
    <3>1. loose' = loose /\ runTask' = runTask /\ request[j].at = "creating"
      BY <1>1, <2>1, Zenon DEF CreateRunner, agentPart
    <3>2. ASSUME NEW k \in Jobs \ loose, k # j PROVE Owned(k)'
      <4>1. Owned(k)
        BY <3>2, Zenon DEF EveryRunnerOwned
      <4> QED
        BY <1>e, <3>1, <3>2, <4>1, Zenon DEF Owned, Alive
    <3>3. ASSUME j \notin loose PROVE Owned(j)'
      <4>1. Owned(j)
        BY <3>3, Zenon DEF EveryRunnerOwned
      <4>2. \/ /\ request'[j].at = "waiting" /\ runner'[j].at = "attaching"
               /\ box'[j] = "created"
            \/ /\ request'[j].at = "finished" /\ runner'[j] = runner[j] /\ box'[j] = box[j]
        <5>1. j \in DOMAIN request /\ j \in DOMAIN runner /\ j \in DOMAIN box
          BY Zenon  DEF QualificationTypeOK
        <5> QED
          BY ONLY <2>1, <5>1, SMT, SMTT(30) DEF CreateRunner, RequestAt
      <4> QED
        BY <3>1, <4>1, <4>2, Zenon DEF Owned, Alive
    <3> QED
      BY <3>1, <3>2, <3>3, Zenon DEF EveryRunnerOwned
  <2>2. CASE Overrun(j)
    <3> SUFFICES ASSUME NEW k \in Jobs \ loose' PROVE Owned(k)'
      BY Zenon DEF EveryRunnerOwned
    <3>1. k # j /\ k \notin loose
      BY <2>2, Zenon DEF Overrun
    <3>2. request'[k] = request[k] /\ runner'[k] = runner[k] /\ box'[k] = box[k]
      BY <2>2, <3>1, <1>b, Zenon DEF Overrun, QualificationTypeOK
    <3> QED
      BY <1>1, <3>1, <3>2, Zenon DEF EveryRunnerOwned, Owned, Alive, agentPart
  <2> QED
    BY <2>1, <2>2, Zenon
<1> QED
  BY <1>2, <1>3, <1>4, <1>5, Zenon

(* The task that owns the container gives it up only when it is gone or     *)
(* Docker refused to remove it (StartRunner, CollectOutput, CleanUp).        *)
LEMMA RunnerKeepsInv ==
  ASSUME QualificationInv, NEW j \in Jobs, StartRunner(j) \/ CollectOutput(j) \/ CleanUp(j)
  PROVE  QualificationInv'
<1> USE DEF QualificationInv, Cleans
<1>1. UNCHANGED <<agentPart, registryPart, requestPart, canceller>>
  BY Zenon DEF StartRunner, CollectOutput, CleanUp
<1>2. QualificationTypeOK'
  <2>1. runner \in [Jobs -> [at: RunnerPlaces, result: Results]]
    BY Zenon DEF QualificationTypeOK
  <2>2. ASSUME NEW at \in RunnerPlaces, NEW result \in Results,
               runner' = [runner EXCEPT ![j] = [at |-> at, result |-> result]]
        PROVE  runner' \in [Jobs -> [at: RunnerPlaces, result: Results]]
    BY <2>1, <2>2, Zenon
  <2>3. ASSUME NEW at \in RunnerPlaces, runner' = [runner EXCEPT ![j].at = at]
        PROVE  runner' \in [Jobs -> [at: RunnerPlaces, result: Results]]
    BY <2>1, <2>3, Zenon
  <2>4. \/ \E at \in RunnerPlaces, result \in Results :
             runner' = [runner EXCEPT ![j] = [at |-> at, result |-> result]]
        \/ \E at \in RunnerPlaces : runner' = [runner EXCEPT ![j].at = at]
    BY Zenon DEF StartRunner, CollectOutput, CleanUp, RunnerPlaces, Results
  <2>5. box' \in [Jobs -> {"none", "created", "running", "gone"}]
    BY Zenon  DEF StartRunner, CollectOutput, CleanUp, QualificationTypeOK
  <2> QED
    BY <1>1, <2>2, <2>3, <2>4, <2>5, Zenon DEF QualificationTypeOK, agentPart, registryPart, requestPart
<1>3. TaskHoldsLease' /\ AcknowledgedFor' /\ PermitIsFinal'
  BY <1>1, Zenon DEF TaskHoldsLease, AcknowledgedFor, PermitIsFinal, agentPart, registryPart, requestPart
<1>4. EveryRunnerOwned'
  BY <1>1, SMT, SMTT(30) DEF StartRunner, CollectOutput, CleanUp, EveryRunnerOwned, Owned, Alive,
              QualificationTypeOK, agentPart, requestPart
<1> QED
  BY <1>2, <1>3, <1>4, Zenon

(* A cancel is acknowledged with the permit of the completion it found, or  *)
(* leaves a cancelled token behind (ReadRow, LookUp, CancelToken,            *)
(* AwaitCleanup, WriteCancel, DropCancel).                                   *)
LEMMA CancelKeepsInv ==
  ASSUME QualificationInv, NEW j \in Jobs,
         \/ ReadRow(j) \/ LookUp(j) \/ CancelToken(j) \/ AwaitCleanup(j)
         \/ WriteCancel(j) \/ DropCancel(j)
  PROVE  QualificationInv'
<1> USE DEF QualificationInv, CancelAt, OnlyCancels
<1>1. /\ UNCHANGED <<runTask, lease, permits, runnerPart, requestPart>>
      /\ cancelled \subseteq cancelled'
  BY Zenon DEF ReadRow, LookUp, CancelToken, AwaitCleanup, WriteCancel, DropCancel,
         agentPart, registryPart
<1>2. canceller' \in [Jobs -> [at: CancelPlaces, left: Int, found: BOOLEAN]]
  <2>1. canceller \in [Jobs -> [at: CancelPlaces, left: Int, found: BOOLEAN]]
    BY Zenon DEF QualificationTypeOK
  <2>2. ASSUME NEW at \in CancelPlaces
        PROVE  [canceller EXCEPT ![j].at = at]
                 \in [Jobs -> [at: CancelPlaces, left: Int, found: BOOLEAN]]
    BY <2>1, Zenon
  <2>3. CASE LookUp(j)
    <3>1. (j \in active) \in BOOLEAN
      BY SMT, SMTT(30)
    <3>2. ASSUME NEW found \in BOOLEAN
          PROVE  [canceller EXCEPT ![j].at = "looked", ![j].found = found]
                   \in [Jobs -> [at: CancelPlaces, left: Int, found: BOOLEAN]]
      BY <2>1, ZenonT(40) DEF CancelPlaces
    <3> QED
      BY <2>3, <3>1, <3>2, Zenon DEF LookUp
  <2>4. CASE CancelToken(j)
    BY <2>1, <2>2, <2>4, SMT, SMTT(30) DEF CancelToken, CancelPlaces
  <2>5. CASE ReadRow(j)
    <3>1. \E at \in {"asking", "writing"} : canceller' = [canceller EXCEPT ![j].at = at]
      BY <2>5, Zenon DEF ReadRow
    <3> QED
      BY <2>2, <3>1, SMT, SMTT(30) DEF CancelPlaces
  <2>6. CASE AwaitCleanup(j) \/ WriteCancel(j) \/ DropCancel(j)
    <3>1. \E at \in {"acknowledged", "over"} : canceller' = [canceller EXCEPT ![j].at = at]
      BY <2>6, Zenon DEF AwaitCleanup, WriteCancel, DropCancel
    <3> QED
      BY <2>2, <3>1, SMT, SMTT(30) DEF CancelPlaces
  <2> QED
    BY <2>3, <2>4, <2>5, <2>6, Zenon
<1>3. QualificationTypeOK' /\ TaskHoldsLease' /\ PermitIsFinal'
  BY <1>1, <1>2, Zenon DEF QualificationTypeOK, TaskHoldsLease, PermitIsFinal, runnerPart, requestPart
<1>4. AcknowledgedFor'
  <2>1. \A k \in Jobs \ {j} : canceller'[k] = canceller[k]
    BY Zenon  DEF ReadRow, LookUp, CancelToken, AwaitCleanup, WriteCancel, DropCancel, QualificationTypeOK
  <2>2. /\ canceller'[j].at = "waiting" => canceller'[j].found
        /\ canceller'[j].at = "acknowledged" =>
             IF canceller'[j].found THEN j \in permits' ELSE j \in cancelled'
    <3>0. CASE LookUp(j)
      BY <3>0, ZenonT(40) DEF LookUp, QualificationTypeOK
    <3>1. CASE ReadRow(j) \/ WriteCancel(j) \/ DropCancel(j)
      <4>1. \E at \in {"asking", "writing", "over"} : canceller' = [canceller EXCEPT ![j].at = at]
        BY <3>1, Zenon DEF ReadRow, WriteCancel, DropCancel
      <4> QED
        BY <4>1, SMT, SMTT(30) DEF QualificationTypeOK
    <3>2. CASE CancelToken(j)
      <4>1. canceller'[j].found = canceller[j].found
        BY <3>2, SMT, SMTT(30) DEF CancelToken, QualificationTypeOK
      <4>2. canceller'[j].at = "acknowledged" => j \in tokens /\ ~canceller[j].found
        BY <3>2, SMT, SMTT(30) DEF CancelToken, QualificationTypeOK
      <4>4. canceller'[j].at = "waiting" => canceller[j].found
        BY <3>2, SMT, SMTT(30) DEF CancelToken, QualificationTypeOK
      <4>3. j \in tokens => j \in cancelled'
        BY <3>2, Zenon DEF CancelToken
      <4> QED
        BY <4>1, <4>2, <4>3, <4>4, Zenon
    <3>3. CASE AwaitCleanup(j)
      <4>1. canceller'[j].at = "acknowledged" => j \in permits
        BY <3>3, ZenonT(40) DEF AwaitCleanup, QualificationTypeOK
      <4>2. canceller'[j].found = canceller[j].found /\ canceller'[j].at # "waiting"
        BY <3>3, SMT, SMTT(30) DEF AwaitCleanup, QualificationTypeOK
      <4>3. canceller[j].found
        BY <3>3, Zenon DEF AwaitCleanup, AcknowledgedFor
      <4> QED
        BY <1>1, <4>1, <4>2, <4>3, Zenon
    <3> QED
      BY <3>0, <3>1, <3>2, <3>3, Zenon
  <2> QED
    BY <1>1, <2>1, <2>2, Zenon DEF AcknowledgedFor
<1>5. EveryRunnerOwned'
  BY <1>1, Zenon DEF EveryRunnerOwned, Owned, Alive, runnerPart, requestPart
<1> QED
  BY <1>3, <1>4, <1>5, Zenon

(* A death leaves the containers it abandons to themselves (AgentKilled,    *)
(* ExecutorDies).                                                           *)
LEMMA DeathKeepsInv ==
  ASSUME QualificationInv, AgentKilled \/ ExecutorDies
  PROVE  QualificationInv'
<1> USE DEF QualificationInv
<1>1. CASE AgentKilled
  <2>1. QualificationTypeOK'
    <3>1. canceller' \in [Jobs -> [at: CancelPlaces, left: Int, found: BOOLEAN]]
      BY <1>1, ZenonT(40) DEF AgentKilled, QualificationTypeOK, CancelPlaces
    <3> QED
      BY <1>1, <3>1, Zenon DEF AgentKilled, QualificationTypeOK, registryPart, requestPart
  <2>2. TaskHoldsLease' /\ PermitIsFinal'
    BY <1>1, Zenon DEF AgentKilled, TaskHoldsLease, PermitIsFinal, registryPart, requestPart
  <2>3. AcknowledgedFor'
    BY <1>1, Zenon DEF AgentKilled, AcknowledgedFor, QualificationTypeOK
  <2>4. EveryRunnerOwned'
    BY <1>1, Zenon DEF AgentKilled, EveryRunnerOwned, Owned, Alive, QualificationTypeOK, requestPart
  <2> QED
    BY <2>1, <2>2, <2>3, <2>4, Zenon
<1>2. CASE ExecutorDies
  <2>1. QualificationTypeOK'
    <3>1. canceller' \in [Jobs -> [at: CancelPlaces, left: Int, found: BOOLEAN]]
      <4>1. \A j \in Jobs : canceller[j] \in [at: CancelPlaces, left: Int, found: BOOLEAN]
        BY Zenon DEF QualificationTypeOK
      <4>2. \A j \in Jobs : [canceller[j] EXCEPT !.at = "over"]
                             \in [at: CancelPlaces, left: Int, found: BOOLEAN]
        BY <4>1, Zenon DEF CancelPlaces
      <4> QED
        BY <1>2, <4>1, <4>2, Zenon DEF ExecutorDies
    <3>2. request' \in [Jobs -> [at: RequestPlaces, result: Results]]
      BY <1>2, Zenon DEF ExecutorDies, QualificationTypeOK, RequestPlaces, Results
    <3>3. runner' \in [Jobs -> [at: RunnerPlaces, result: Results]]
      BY <1>2, Zenon DEF ExecutorDies, QualificationTypeOK, RunnerPlaces, Results, Idle
    <3> QED
      BY <1>2, <3>1, <3>2, <3>3, Zenon DEF ExecutorDies, QualificationTypeOK, agentPart
  <2>2. TaskHoldsLease'
    BY <1>2, Zenon DEF ExecutorDies, TaskHoldsLease, agentPart
  <2>3. PermitIsFinal'
    BY <1>2, Zenon DEF ExecutorDies, PermitIsFinal, QualificationTypeOK
  <2>4. AcknowledgedFor'
    BY <1>2, ZenonT(40) DEF ExecutorDies, AcknowledgedFor, QualificationTypeOK
  <2>5. EveryRunnerOwned'
    BY <1>2, Zenon DEF ExecutorDies, EveryRunnerOwned, Owned, Alive, QualificationTypeOK, agentPart, Idle
  <2> QED
    BY <2>1, <2>2, <2>3, <2>4, <2>5, Zenon
<1> QED
  BY <1>1, <1>2, Zenon

(* Every step of agent, executor, runner and cancel keeps the invariant.    *)
LEMMA QualificationInvInductive ==
  QualificationInv /\ [QualificationNext]_qualificationVars => QualificationInv'
<1> SUFFICES ASSUME QualificationInv, [QualificationNext]_qualificationVars
             PROVE  QualificationInv'
  BY Zenon
<1>1. CASE UNCHANGED qualificationVars
  BY <1>1, Zenon DEF qualificationVars, agentPart, registryPart, runnerPart, requestPart,
     QualificationInv, QualificationTypeOK, TaskHoldsLease, PermitIsFinal, AcknowledgedFor,
     EveryRunnerOwned, Owned, Alive
<1>2. CASE EngineLease
  <2>1. CASE Jobs = {}
    BY <1>2, <2>1, Zenon DEF EngineLease, registryPart, runnerPart, requestPart,
       QualificationInv, QualificationTypeOK, TaskHoldsLease, PermitIsFinal, AcknowledgedFor,
       EveryRunnerOwned
  <2>2. CASE Jobs # {}
    BY <1>2, <2>2, LeaseKeepsInv, Zenon
  <2> QED
    BY <2>1, <2>2, Zenon
<1>3. CASE AgentKilled \/ ExecutorDies
  BY <1>3, DeathKeepsInv, Zenon
<1>4. ASSUME NEW j \in Jobs,
             \/ Qualify(j) \/ BeginRun(j) \/ EndRun(j)
             \/ Register(j) \/ TakeRunnerSlot(j) \/ EnsureImage(j) \/ CreateRunner(j)
             \/ ReceiveResult(j) \/ Deadline(j) \/ Overrun(j) \/ Complete(j) \/ AnswerAgent(j)
             \/ StartRunner(j) \/ CollectOutput(j) \/ CleanUp(j)
             \/ ReadRow(j) \/ LookUp(j) \/ CancelToken(j) \/ AwaitCleanup(j)
             \/ WriteCancel(j) \/ DropCancel(j)
      PROVE  QualificationInv'
  BY <1>4, LeaseKeepsInv, CancelRequestKeepsInv, ContainerKeepsInv, RunnerKeepsInv, CancelKeepsInv, Zenon
<1> QED
  BY <1>1, <1>2, <1>3, <1>4, Zenon DEF QualificationNext

(* A runner's container exists only under its job's lease, and a cancel     *)
(* that found the job is acknowledged only once the container is gone,      *)
(* unless the container was left to itself (run_qualification, dispatch,    *)
(* await_qualification_completion, cancel_operation).                        *)
THEOREM RunnerAlwaysContained == QualificationSpec => []RunnerIsContained
<1>1. QualificationInv => RunnerIsContained
  <2> SUFFICES ASSUME QualificationInv PROVE RunnerIsContained
    BY Zenon
  <2>1. \A j \in Jobs \ loose : Alive(j) => request[j].at = "waiting" /\ runTask[j] = "calling"
    BY Zenon  DEF QualificationInv, EveryRunnerOwned, Owned
  <2>2. RunnerHoldsTheLease
    BY <2>1, Zenon DEF QualificationInv, TaskHoldsLease, RunnerHoldsTheLease
  <2>3. \A j \in Jobs \ loose : Alive(j) => j \notin permits
    BY <2>1, Zenon DEF QualificationInv, PermitIsFinal
  <2>4. AcknowledgedCancelStops
    BY <2>3, Zenon DEF QualificationInv, AcknowledgedFor, AcknowledgedCancelStops
  <2> QED
    BY <2>2, <2>4, Zenon DEF RunnerIsContained
<1> QED
  BY <1>1, QualificationInvInit, QualificationInvInductive, PTL DEF QualificationSpec
=============================================================================
