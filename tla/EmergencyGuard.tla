--------------------------- MODULE EmergencyGuard ---------------------------
(* The memory guard of the root executor: the sampling loop and the monitor *)
(* of executor.rs, the policy of resources.rs.  It works on what the        *)
(* executor's own actions told it about the engines, next to the agent's    *)
(* starts, promotions and stops and to Docker's restarts.                   *)
(*                                                                          *)
(* Abstractions: a container is told apart by the number of its first       *)
(* process; memory readings are "grew" or "did not grow"; a sample is low,  *)
(* under pressure, both, neither or incomplete; journal records are a set.  *)
(* EngineFaults bounds exits, executor restarts and failed calls together.  *)
EXTENDS Naturals

CONSTANTS
    Instance,     \* instance identifiers, ordered as the strings are
    MaxGen,       \* generations of an instance
    MaxProcess,   \* per instance, processes of one generation
    Samples,      \* emergency_consecutive_samples
    EngineFaults

ASSUME GuardAssumption ==
    /\ Instance \subseteq Nat
    /\ \E last \in Instance : \A i \in Instance : i <= last
    /\ {MaxGen, Samples} \subseteq Nat \ {0}
    /\ MaxProcess \in [Instance -> Nat \ {0}]
    /\ EngineFaults \in Nat

VARIABLES
    ctr,         \* the container of each generation
    newest,      \* the newest generation the agent began, per instance
    managed,     \* ResourceMonitor.managed: what the guard chooses from
    identity,    \* ResourceMonitor.identities
    breaches,    \* consecutive_floor_breaches
    suppressed,  \* generations the guard has shed
    journal,     \* generations with a durable emergency record
    guard,       \* the sampling loop and the decision it is acting on
    promotion,   \* the promotion in flight, and the identity it inspected
    kills,       \* kills of this life of the executor, per generation (history)
    faults

vars == <<ctr, newest, managed, identity, breaches, suppressed, journal, guard,
          promotion, kills, faults>>
monitorVars == <<managed, identity>>
policyVars  == <<breaches, suppressed, journal, kills>>
agentVars   == <<newest, promotion>>

Key == Instance \X (1 .. MaxGen)

NoContainer == [st |-> "none", auto |-> FALSE, first |-> 0, process |-> 0]
Unknown     == [gen |-> 0, phase |-> "none", grew |-> FALSE]
NoIdentity  == [first |-> 0, process |-> 0]
Resting     == [pc |-> "rest", key |-> <<0, 0>>, expected |-> NoIdentity,
                fresh |-> NoIdentity, repromoted |-> FALSE]
NoPromotion == [key |-> <<0, 0>>, seen |-> NoIdentity]

Init ==
    /\ ctr = [k \in Key |-> NoContainer]
    /\ newest = [i \in Instance |-> 0]
    /\ managed = [i \in Instance |-> Unknown]
    /\ identity = [k \in Key |-> NoIdentity]
    /\ breaches = 0
    /\ suppressed = {}
    /\ journal = {}
    /\ guard = Resting
    /\ promotion = NoPromotion
    /\ kills = [k \in Key |-> 0]
    /\ faults = 0

Fault == faults < EngineFaults /\ faults' = faults + 1

-----------------------------------------------------------------------------
(* The executor's actions on engines, as the agent calls them.              *)

\* The identity Docker reports: no process when the container is not running.
Observed(c) == [first |-> c.first, process |-> IF c.st = "running" THEN c.process ELSE 0]

\* Docker decides on a restart when the process exits.
Exited(c) == [c EXCEPT !.st = IF c.auto THEN "restarting" ELSE "exited"]

KeyOf(i, m) == <<i, m[i].gen>>

\* refresh_managed_memory: an engine whose cgroup cannot be read keeps its
\* readings.
Readable(seen, c) ==
    seen.process # 0 /\ c.st = "running" /\ c.first = seen.first

Refreshed(grew) ==
    [i \in Instance |->
        IF managed[i].gen # 0 /\ Readable(identity[KeyOf(i, managed)], ctr[KeyOf(i, managed)])
        THEN [managed[i] EXCEPT !.grew = grew[i]]
        ELSE managed[i]]

\* observe_engine, which refreshes every reading.  An engine seen afresh has
\* no earlier reading, so it grew if it can be read at all.
Observe(k, seen, c, phase) ==
    /\ \E grew \in [Instance -> BOOLEAN] :
          managed' = [Refreshed(grew) EXCEPT ![k[1]] =
                        [gen |-> k[2], phase |-> phase, grew |-> Readable(seen, c)]]
    /\ identity' = [identity EXCEPT ![k] = seen]

StartEngine(k) ==
    /\ k[2] \in {newest[k[1]], newest[k[1]] + 1}
    /\ ctr[k].st = "none" /\ ctr[k].process < MaxProcess[k[1]]
    /\ newest' = [newest EXCEPT ![k[1]] = k[2]]
    /\ LET p == ctr[k].process + 1
           c == [st |-> "running", auto |-> FALSE, first |-> p, process |-> p]
       IN ctr' = [ctr EXCEPT ![k] = c] /\ Observe(k, Observed(c), c, "starting")
    /\ UNCHANGED <<promotion, policyVars, guard, faults>>

\* promote_restart: inspect, await, update the policy of the inspected
\* container, and tell the monitor what the inspection had seen.
PromoteInspects(k) ==
    /\ promotion = NoPromotion
    /\ k[2] = newest[k[1]] /\ ctr[k].st # "none"
    /\ promotion' = [key |-> k, seen |-> Observed(ctr[k])]
    /\ UNCHANGED <<ctr, newest, monitorVars, policyVars, guard, faults>>

PromoteUpdates ==
    /\ promotion # NoPromotion
    /\ promotion' = NoPromotion
    /\ LET k == promotion.key IN
       IF ctr[k].st # "none" /\ ctr[k].first = promotion.seen.first
       THEN /\ ctr' = [ctr EXCEPT ![k].auto = TRUE]
            /\ Observe(k, promotion.seen, ctr[k], "healthy")
            /\ guard' = [guard EXCEPT !.repromoted = @ \/ guard.key = k]
       ELSE UNCHANGED <<ctr, monitorVars, guard>>
    /\ UNCHANGED <<newest, policyVars, faults>>

\* The agent's own disable_restart leaves the monitor alone.
DisableRestart(k) ==
    /\ ctr[k].st # "none" /\ ctr[k].auto
    /\ ctr' = [ctr EXCEPT ![k].auto = FALSE]
    /\ UNCHANGED <<agentVars, monitorVars, policyVars, guard, faults>>

\* stop, then forget_engine.  A missing container is stopped already.
StopEngine(k) ==
    /\ k[2] <= newest[k[1]]
    /\ ctr' = [ctr EXCEPT ![k] = [NoContainer EXCEPT !.process = ctr[k].process]]
    /\ managed' = [managed EXCEPT ![k[1]] = IF @.gen = k[2] THEN Unknown ELSE @]
    /\ identity' = [identity EXCEPT ![k] = NoIdentity]
    /\ UNCHANGED <<agentVars, policyVars, guard, faults>>

\* The engine is down but could not be removed: nothing is forgotten.
StopFails(k) ==
    /\ ctr[k].st # "none"
    /\ Fault
    /\ ctr' = [ctr EXCEPT ![k].st = "exited", ![k].auto = FALSE]
    /\ UNCHANGED <<agentVars, monitorVars, policyVars, guard>>

EngineExits(k) ==
    /\ ctr[k].st = "running"
    /\ Fault
    /\ ctr' = [ctr EXCEPT ![k] = Exited(@)]
    /\ UNCHANGED <<agentVars, monitorVars, policyVars, guard>>

DockerRestarts(k) ==
    /\ ctr[k].st = "restarting"
    /\ ctr[k].process < MaxProcess[k[1]]
    /\ ctr' = [ctr EXCEPT ![k].st = "running", ![k].process = @ + 1]
    /\ UNCHANGED <<agentVars, monitorVars, policyVars, guard, faults>>

\* Only the journal and the containers outlive the executor.
ExecutorRestarts ==
    /\ Fault
    /\ managed' = [i \in Instance |-> Unknown]
    /\ identity' = [k \in Key |-> NoIdentity]
    /\ breaches' = 0
    /\ suppressed' = {}
    /\ guard' = Resting
    /\ promotion' = NoPromotion
    /\ kills' = [k \in Key |-> 0]
    /\ UNCHANGED <<ctr, newest, journal>>

-----------------------------------------------------------------------------
(* The sampling loop.                                                       *)

Known(m) == {i \in Instance : m[i].gen # 0 /\ KeyOf(i, m) \notin suppressed}
Transitional(m) == {i \in Known(m) : m[i].phase = "starting"}
Growing(m) == {i \in Known(m) : m[i].phase = "healthy" /\ m[i].grew}

\* max_by_key (started_sequence, instance_id); started_sequence is the
\* generation.
Latest(S, m) ==
    CHOOSE i \in S : \A j \in S : \/ m[j].gen < m[i].gen
                                  \/ m[j].gen = m[i].gen /\ j <= i

Candidates(m) == IF Transitional(m) # {} THEN Transitional(m) ELSE Growing(m)

\* The counter saturates; beyond Samples its value makes no difference.
Breaches(low) == IF ~low THEN 0
                 ELSE IF breaches < Samples THEN breaches + 1 ELSE breaches

\* Mutant: one sample too many is asked for.
AlarmedTooLate(low, pressure) == pressure \/ Breaches(low) > Samples

Alarmed(low, pressure) == pressure \/ Breaches(low) >= Samples

\* Mutant: a failed append does not stop the decision.
RecordIgnoringErrors(k) ==
    /\ \/ journal' = journal \union {k} /\ UNCHANGED faults
       \/ Fault /\ UNCHANGED journal
    /\ guard' = [Resting EXCEPT !.pc = "decided", !.key = k]

\* The decision is recorded before it is acted on: when the append or its
\* sync fails nothing is pending.
Record(k) ==
    \/ /\ journal' = journal \union {k}
       /\ guard' = [Resting EXCEPT !.pc = "decided", !.key = k]
       /\ UNCHANGED faults
    \/ Fault /\ journal' \in {journal, journal \union {k}} /\ UNCHANGED guard

Sample(low, pressure, grew) ==
    /\ guard.pc = "rest"
    /\ managed' = Refreshed(grew)
    /\ breaches' = Breaches(low)
    /\ IF Alarmed(low, pressure) /\ Candidates(managed') # {}
       THEN Record(KeyOf(Latest(Candidates(managed'), managed'), managed'))
       ELSE UNCHANGED <<journal, guard, faults>>
    /\ UNCHANGED <<ctr, agentVars, identity, suppressed, kills>>

IncompleteSample(grew) ==
    /\ guard.pc = "rest"
    /\ managed' = Refreshed(grew)
    /\ UNCHANGED <<ctr, agentVars, identity, policyVars, guard, faults>>

\* actuate_emergency: the identity the monitor holds, then disable_restart.
GuardArms ==
    /\ guard.pc = "decided"
    /\ LET k == guard.key IN
       IF identity[k] # NoIdentity
       THEN guard' = [guard EXCEPT !.pc = "armed", !.expected = identity[k]]
       ELSE guard' = Resting
    /\ UNCHANGED <<ctr, agentVars, monitorVars, policyVars, faults>>

\* inspect_input fails when there is no container, and when Docker reports a
\* container between two processes as running without a process.
GuardInspects ==
    /\ guard.pc = "armed"
    /\ LET k == guard.key IN
       \/ /\ ctr[k].st # "none"
          /\ guard' = [guard EXCEPT !.pc = "inspected", !.fresh = Observed(ctr[k])]
          /\ UNCHANGED faults
       \/ ctr[k].st \in {"none", "restarting"} /\ guard' = Resting /\ UNCHANGED faults
       \/ Fault /\ guard' = Resting
    /\ UNCHANGED <<ctr, agentVars, monitorVars, policyVars>>

\* Mutant: the policy is left alone.
DisabledNever(c) == c

\* The policy of the container that was inspected.
Disabled(c) == [c EXCEPT !.auto = FALSE]

GuardDisablesRestart ==
    /\ guard.pc = "inspected"
    /\ LET k == guard.key IN
       IF ctr[k].st # "none" /\ ctr[k].first = guard.fresh.first
       THEN /\ ctr' = [ctr EXCEPT ![k] = Disabled(@)]
            /\ guard' = [guard EXCEPT !.pc = "disabled", !.repromoted = FALSE]
       ELSE guard' = Resting /\ UNCHANGED ctr
    /\ UNCHANGED <<agentVars, monitorVars, policyVars, faults>>

\* Mutant: nothing is suppressed.
SuppressNothing(k) == suppressed

Suppress(k) == suppressed \union {k}

\* Mutant: whatever runs under the name is killed.
KillsByName(k) == guard.expected = guard.fresh /\ ctr[k].st = "running"

\* kill_managed_cgroup: the two identities agree, and the cgroup of that
\* container is there.
Kills(k) ==
    /\ guard.expected = guard.fresh
    /\ ctr[k].st = "running"
    /\ ctr[k].first = guard.expected.first

GuardKills ==
    /\ guard.pc = "disabled"
    /\ guard' = Resting
    /\ LET k == guard.key IN
       IF Kills(k)
       THEN /\ ctr' = [ctr EXCEPT ![k] = Exited(@)]
            /\ suppressed' = Suppress(k)
            /\ kills' = [kills EXCEPT ![k] = @ + 1]
       ELSE UNCHANGED <<ctr, suppressed, kills>>
    /\ UNCHANGED <<agentVars, monitorVars, breaches, journal, faults>>

-----------------------------------------------------------------------------
GuardStep ==
    \/ \E low, pressure \in BOOLEAN, grew \in [Instance -> BOOLEAN] :
          Sample(low, pressure, grew)
    \/ GuardArms \/ GuardInspects \/ GuardDisablesRestart \/ GuardKills

Next ==
    \/ GuardStep
    \/ \E grew \in [Instance -> BOOLEAN] : IncompleteSample(grew)
    \/ PromoteUpdates
    \/ \E k \in Key : \/ StartEngine(k) \/ PromoteInspects(k) \/ DisableRestart(k)
                      \/ StopEngine(k) \/ StopFails(k)
                      \/ EngineExits(k) \/ DockerRestarts(k)
    \/ ExecutorRestarts

Spec == Init /\ [][Next]_vars

\* The loop keeps sampling, and the agent removes a starting engine that died.
DeadStarter(k) ==
    managed[k[1]].gen = k[2] /\ managed[k[1]].phase = "starting" /\ ctr[k].st = "exited"

Fairness ==
    /\ WF_vars(GuardStep)
    /\ \A k \in Key : WF_vars(DeadStarter(k) /\ StopEngine(k))

FairSpec == Spec /\ Fairness

-----------------------------------------------------------------------------
\* The shapes of the state.
TypeOK ==
    /\ ctr \in [Key -> [st : {"none", "running", "restarting", "exited"}, auto : BOOLEAN,
                        first : Nat, process : Nat]]
    /\ newest \in [Instance -> 0 .. MaxGen]
    /\ managed \in [Instance -> [gen : 0 .. MaxGen, phase : {"none", "starting", "healthy"},
                                 grew : BOOLEAN]]
    /\ identity \in [Key -> [first : Nat, process : Nat]]
    /\ breaches \in 0 .. Samples
    /\ suppressed \subseteq Key /\ journal \subseteq Key
    /\ guard.pc \in {"rest", "decided", "armed", "inspected", "disabled"}
    /\ promotion.key \in Key \union {<<0, 0>>}
    /\ kills \in [Key -> Nat]
    /\ faults \in 0 .. EngineFaults

\* Whatever the guard killed is in the durable journal, so that the agent can
\* import why its engine went away, whatever failed on the way (sample_once
\* appends before it sets the pending decision).
KillIsJournaled == \A k \in Key : kills[k] > 0 => k \in journal

\* The guard kills one generation at most once in a life of the executor: a
\* generation the agent starts again, or Docker restarts, is left alone
\* (suppress, select_victim).
ShedOnce == \A k \in Key : kills[k] <= 1

\* A kill is recorded and not repeated.
KillsAreJournaledOnce == KillIsJournaled /\ ShedOnce

\* A kill never hits a container the guard had not looked up for that
\* decision, though the agent may remove the engine and start the same
\* generation again while the guard waits for Docker (kill_managed_cgroup).
KillHitsArmedContainer ==
    [][\A k \in Key : kills'[k] > kills[k] => ctr[k].first = guard.expected.first]_vars

\* A shed engine is brought back by Docker only when the agent promoted it
\* between the guard's policy update and its kill (actuate_emergency); nothing
\* in the code excludes that.
ShedStaysDownUnlessRepromoted ==
    [][\A k \in Key : kills'[k] > kills[k] => ctr'[k].st = "exited" \/ guard.repromoted]_vars

\* While memory stays below the floor, a starting engine the guard watches
\* does not stay: it is shed, unless it leaves the guard's sight otherwise
\* (stopped, promoted, exited, or the executor restarted).
Watched(k) ==
    /\ managed[k[1]].gen = k[2] /\ managed[k[1]].phase = "starting"
    /\ ctr[k].st = "running" /\ identity[k] = Observed(ctr[k])
    /\ k \notin suppressed

StarterIsShed ==
    \A k \in Key : Watched(k) /\ breaches = Samples ~> ~Watched(k) \/ breaches < Samples
=============================================================================
