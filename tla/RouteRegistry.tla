---------------------------- MODULE RouteRegistry ----------------------------
(***************************************************************************)
(* The gateway's route map (gateway.rs).  Every write loads the snapshot,  *)
(* changes one entry of a copy and stores the copy: two writers can lose   *)
(* each other's change.  The writers are the pass that holds the           *)
(* transition lease (serve or reconcile, one at a time) and the stop       *)
(* handlers, which hold nothing (agent.rs).                                *)
(*                                                                         *)
(* An instance is reduced to what the writers read: the generation and     *)
(* intent of its row and the process of its container.                     *)
(***************************************************************************)
EXTENDS Integers, FiniteSets

CONSTANTS
  RouteNames,      \* the instances
  MaxRouteGen,     \* per instance, a bound on its generations
  MaxRouteProc     \* per instance, a bound on the processes of one generation

ASSUME RouteAssumption == MaxRouteGen \in [RouteNames -> Nat] /\ MaxRouteProc \in [RouteNames -> Nat]

VARIABLES
  routes,    \* RouteRegistry.snapshot
  rows,      \* per instance: generation, whether it shall run, its process and
             \* whether that answers probes
  writer,    \* per writer, the write in progress
  todo       \* the instances this reconciliation pass has not visited

routeVars == <<routes, rows, writer, todo>>

Missing == [st |-> "missing", gen |-> 0, proc |-> 0]
Warming(g) == [st |-> "warming", gen |-> g, proc |-> 0]
Healthy(g, p) == [st |-> "healthy", gen |-> g, proc |-> p]

\* One writer per lease-free stop handler, named by its instance, and the
\* holder of the lease.
Leased == "leased"
Writers == RouteNames \union {Leased}
Idle == [at |-> "idle"]

RouteInit ==
  /\ routes = [i \in RouteNames |-> Missing]
  /\ rows = [i \in RouteNames |-> [gen |-> 0, run |-> FALSE, proc |-> 0, ready |-> FALSE]]
  /\ writer = [w \in Writers |-> Idle]
  /\ todo = RouteNames

-----------------------------------------------------------------------------
(* The writes, of drain and of update.                                      *)

Drain(i, g) == [kind |-> "drain", name |-> i, entry |-> Warming(g)]
Update(i, entry) == [kind |-> "update", name |-> i, entry |-> entry]

Begin(w, write) == writer' = [writer EXCEPT ![w] = [at |-> "load", write |-> write]]

\* snapshot.load_full() and clone
Load(w) ==
  /\ writer[w].at = "load"
  /\ writer' = [writer EXCEPT ![w] = [at |-> "store", write |-> @.write, next |-> routes]]
  /\ UNCHANGED <<routes, rows, todo>>

\* What the copy becomes: a drain removes only the generation it names.
Changed(next, write) ==
  CASE write.kind = "update" -> [next EXCEPT ![write.name] = write.entry]
    [] write.kind = "drain" /\ next[write.name].gen = write.entry.gen ->
         [next EXCEPT ![write.name] = Missing]
    [] OTHER -> next

\* snapshot.store; a drain that matched nothing stores nothing.
Store(w) ==
  /\ writer[w].at = "store"
  /\ LET next == Changed(writer[w].next, writer[w].write)
     IN  routes' = IF next = writer[w].next /\ writer[w].write.kind = "drain" THEN routes ELSE next
  /\ writer' = [writer EXCEPT ![w] = Idle]
  /\ UNCHANGED <<rows, todo>>

-----------------------------------------------------------------------------
(* Who writes.                                                              *)

\* The serve handler: a new generation shall run.
ServeIntent(i) ==
  /\ ~rows[i].run /\ rows[i].proc = 0 /\ rows[i].gen < MaxRouteGen[i]
  /\ writer[Leased] = Idle
  /\ rows' = [rows EXCEPT ![i] = [gen |-> @.gen + 1, run |-> TRUE, proc |-> 0, ready |-> FALSE]]
  /\ Begin(Leased, Update(i, Warming(rows[i].gen + 1)))
  /\ UNCHANGED <<routes, todo>>

\* begin_stop, then the drain of stop_instance or run_stop, without the lease.
StopIntent(i) ==
  /\ rows[i].run /\ writer[i] = Idle
  /\ rows' = [rows EXCEPT ![i].run = FALSE]
  /\ Begin(i, Drain(i, rows[i].gen))
  /\ UNCHANGED <<routes, todo>>

\* The container starts or restarts by itself, comes up, and is removed after
\* a stop.
Starts(i) ==
  /\ rows[i].run /\ rows[i].proc < MaxRouteProc[i]
  /\ rows' = [rows EXCEPT ![i].proc = @ + 1, ![i].ready = FALSE]
  /\ UNCHANGED <<routes, writer, todo>>

ComesUp(i) ==
  /\ rows[i].proc > 0 /\ ~rows[i].ready
  /\ rows' = [rows EXCEPT ![i].ready = TRUE]
  /\ UNCHANGED <<routes, writer, todo>>

Removed(i) ==
  /\ ~rows[i].run /\ rows[i].proc > 0
  /\ rows' = [rows EXCEPT ![i].proc = 0, ![i].ready = FALSE]
  /\ UNCHANGED <<routes, writer, todo>>

\* Mutant: any route of the generation will do.
ExactRouteAnyProcess(i) == routes[i].st = "healthy" /\ routes[i].gen = rows[i].gen

\* exact_route_is_published
ExactRoute(i) == routes[i] = Healthy(rows[i].gen, rows[i].proc)

\* What a pass writes at an instance that shall run: nothing over the exact
\* route, warming before the probes, the route when they and
\* set_instance_observed have accepted the generation.
VisitRunning(i) ==
  /\ rows[i].run
  /\ \/ ExactRoute(i) /\ UNCHANGED writer
     \/ ~ExactRoute(i) /\ Begin(Leased, Update(i, IF rows[i].ready THEN Healthy(rows[i].gen, rows[i].proc)
                                                  ELSE Warming(rows[i].gen)))

\* Mutant: a stopped instance is drained only while its container is there.
VisitStoppedOnce(i) ==
  /\ ~rows[i].run
  /\ IF rows[i].proc > 0 THEN Begin(Leased, Drain(i, rows[i].gen)) ELSE UNCHANGED writer

\* A stopped instance is drained every time.
VisitStopped(i) ==
  /\ ~rows[i].run
  /\ IF rows[i].gen > 0 THEN Begin(Leased, Drain(i, rows[i].gen)) ELSE UNCHANGED writer

\* reconcile_once, at one instance.  The intent and the process it read may
\* have changed when it stores.  (A pass skips an instance while a serve holds
\* the lease; the next pass comes round.)
Visit(i) ==
  /\ i \in todo /\ writer[Leased] = Idle
  /\ VisitRunning(i) \/ VisitStopped(i)
  /\ todo' = IF todo = {i} THEN RouteNames ELSE todo \ {i}
  /\ UNCHANGED <<routes, rows>>

ReconcilePass == Load(Leased) \/ Store(Leased) \/ \E i \in RouteNames : Visit(i)
Write(w) == Load(w) \/ Store(w)

RouteNext ==
  \/ ReconcilePass
  \/ \E i \in RouteNames : Write(i) \/ ServeIntent(i) \/ StopIntent(i) \/ Starts(i) \/ ComesUp(i) \/ Removed(i)

\* The stop handlers' writes end, and a timer repeats the reconciliation pass,
\* which visits every instance.
RouteFairness == WF_routeVars(ReconcilePass) /\ \A i \in RouteNames : WF_routeVars(Write(i))

RouteSpec == RouteInit /\ [][RouteNext]_routeVars /\ RouteFairness

-----------------------------------------------------------------------------
(* Properties.                                                              *)

RoutesFit ==
  \A i \in RouteNames :
    /\ ~rows[i].run => routes[i].gen < rows[i].gen \/ routes[i] = Missing
    /\ rows[i].ready /\ rows[i].run => routes[i] = Healthy(rows[i].gen, rows[i].proc)

\* A lost or resurrected entry of the route map does not last: once intents
\* and containers stop changing, the reconciliation passes leave no route of
\* the generation that was stopped and the exact process of every running
\* instance that answers.  (An entry of an older generation, resurrected by a
\* write that was suspended since then, is drained by nobody and stays until
\* the instance is served again.)
RoutesConverge == <>[]RoutesFit
=============================================================================
