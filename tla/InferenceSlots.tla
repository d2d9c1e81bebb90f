---------------------------- MODULE InferenceSlots ----------------------------
(***************************************************************************)
(* Admission of inference requests: the slots a request takes on its way   *)
(* to the engine, in the order of the gateway handlers (agent.rs).  An     *)
(* upload slot is refused when none is free; the slots of the token, of    *)
(* the instance (not for text completions) and of the engine connection    *)
(* (upstream.rs) are waited for, first come first served.  A Responses     *)
(* request may give its connection back and queue for another one.         *)
(*                                                                         *)
(* What a stream carries is GenerationRelay; here it only lasts.           *)
(***************************************************************************)
EXTENDS Integers, Sequences, FiniteSets, SequencesExt, BagsExt

CONSTANTS
  Requests,         \* the requests
  TokenOf,          \* the token of each request
  UploadSlots,      \* ingress_slots
  TokenSlots,       \* max_concurrent_inference of a token
  InstanceSlots,    \* MAX_INSTANCE_CONCURRENCY
  ConnectionSlots   \* MAX_CONCURRENT_CONNECTIONS

ASSUME SlotsAssumption ==
  {UploadSlots, TokenSlots, InstanceSlots, ConnectionSlots} \subseteq Nat \ {0}

VARIABLES
  req,     \* per request: its kind, where it is and the slots it holds
  queue    \* per semaphore: the requests waiting, in order

slotVars == <<req, queue>>

Kinds == {"responses", "chat", "completions"}
Tokens == {TokenOf[r] : r \in Requests}

\* The semaphores: one per token, and two of the only instance.
Slots(sem) ==
  CASE sem = "upload" -> UploadSlots
    [] sem = "instance" -> InstanceSlots
    [] sem = "connection" -> ConnectionSlots
    [] OTHER -> TokenSlots

Semaphores == {"upload", "instance", "connection"} \union Tokens

SlotsInit ==
  /\ req \in [Requests -> [kind: Kinds, at: {"new"}, next: {1}, held: {EmptyBag}, twice: {FALSE}]]
  /\ queue = [s \in Semaphores |-> <<>>]

Taken(s) == MapThenSumSet(LAMBDA r : CopiesIn(s, req[r].held), Requests)
Free(s) == Taken(s) < Slots(s)
TakeSlot(held, s) == held (+) SetToBag({s})
GiveSlot(held, s) == held (-) SetToBag({s})

\* What a request takes after its upload, in order.
Path(r) ==
  IF req[r].kind = "completions" THEN <<TokenOf[r], "connection">>
  ELSE <<TokenOf[r], "instance", "connection">>

\* inference_ingress: busy at once, or a slot until the body is prepared.
Upload(r) ==
  /\ req[r].at = "new"
  /\ req' = [req EXCEPT ![r] = IF Free("upload")
                               THEN [@ EXCEPT !.at = "upload", !.held = TakeSlot(@, "upload")]
                               ELSE [@ EXCEPT !.at = "over"]]
  /\ UNCHANGED queue

\* The upload deadline, the image worker and the checks of the handler.
Prepared(r) ==
  /\ req[r].at = "upload"
  /\ \E at \in {"enter", "over"} : req' = [req EXCEPT ![r].at = at, ![r].held = GiveSlot(@, "upload")]
  /\ UNCHANGED queue

Wanted(r) == Path(r)[req[r].next]

\* acquire_owned: queue, then take a slot when first in line.
Enqueue(r) ==
  /\ req[r].at = "enter"
  /\ queue' = [queue EXCEPT ![Wanted(r)] = Append(@, r)]
  /\ req' = [req EXCEPT ![r].at = "wait"]

Acquire(r) ==
  /\ req[r].at = "wait"
  /\ Head(queue[Wanted(r)]) = r /\ Free(Wanted(r))
  /\ queue' = [queue EXCEPT ![Wanted(r)] = Tail(@)]
  /\ req' = [req EXCEPT ![r].held = TakeSlot(@, Wanted(r)),
                        ![r].at = IF req[r].next = Len(Path(r)) THEN "stream" ELSE "enter",
                        ![r].next = Min({@ + 1, Len(Path(r))})]

\* The stream, or the single exchange, ends: everything is dropped.
Ends(r) ==
  /\ req[r].at = "stream"
  /\ req' = [req EXCEPT ![r].at = "over", ![r].held = EmptyBag]
  /\ UNCHANGED queue

\* Mutant: the continuation is opened before the old connection is released.
RecoverHolding(r) ==
  /\ req[r].at = "stream" /\ req[r].kind = "responses" /\ ~req[r].twice
  /\ req' = [req EXCEPT ![r].at = "enter", ![r].twice = TRUE]
  /\ UNCHANGED queue

\* ResponsesGeneration::next: "Release the old connection before opening the
\* continuation."
Recover(r) ==
  /\ req[r].at = "stream" /\ req[r].kind = "responses" /\ ~req[r].twice
  /\ req' = [req EXCEPT ![r].at = "enter", ![r].held = GiveSlot(@, "connection"), ![r].twice = TRUE]
  /\ UNCHANGED queue

\* The client hangs up: the future is dropped wherever it waits.
HangUp(r) ==
  /\ req[r].at \notin {"new", "over"}
  /\ req' = [req EXCEPT ![r].at = "over", ![r].held = EmptyBag]
  /\ queue' = [s \in Semaphores |-> SelectSeq(queue[s], LAMBDA q : q # r)]

SlotsNext ==
  \E r \in Requests : \/ Upload(r) \/ Prepared(r) \/ Enqueue(r) \/ Acquire(r) \/ Ends(r)
                     \/ Recover(r) \/ HangUp(r)

SlotsSpec == SlotsInit /\ [][SlotsNext]_slotVars

-----------------------------------------------------------------------------
(* Properties.                                                              *)

InLine(r) == req[r].at = "wait"
Served(r) == Head(queue[Wanted(r)]) = r /\ Free(Wanted(r))

\* No set of requests waits for each other's slots: whatever the mix of
\* protocols, tokens and second passes, as long as requests are under way one
\* of them can proceed although nobody hangs up.  Every such step brings a
\* request nearer to its end, so all of them end.
NoCircularWait ==
  (\E r \in Requests : req[r].at \notin {"new", "over"}) =>
    \E r \in Requests : req[r].at \in {"upload", "enter", "stream"} \/ (InLine(r) /\ Served(r))
=============================================================================
