----------------------------- MODULE BlockStream -----------------------------
(***************************************************************************)
(* What a client of a streamed generation may rely on.  Output comes in    *)
(* blocks (a Responses output item, an Anthropic content block) numbered   *)
(* from zero in the order in which they open.  A block is extended while   *)
(* it is open, may be sealed by its final text, and closes once.  The      *)
(* stream ends once: well, when every block is closed, or badly, at any    *)
(* time.  Events are numbered without gaps.                                *)
(***************************************************************************)
EXTENDS Integers

CONSTANT BlockBound   \* bound on the blocks of one stream

VARIABLES
  blocks,   \* the state of each block: "none", "open", "sealed", "closed"
  ended,    \* "no", "well" or "badly"
  count,    \* events received
  last      \* the kind of the last event and its block

streamVars == <<blocks, ended, count, last>>

Block == 0 .. BlockBound - 1
Opened == {b \in Block : blocks[b] # "none"}

StreamInit ==
  /\ blocks = [b \in Block |-> "none"]
  /\ ended = "no"
  /\ count = 0
  /\ last = <<"none", -1>>

Set(b, st) == blocks' = [blocks EXCEPT ![b] = st] /\ UNCHANGED ended

Open(b)   == last' = <<"open", b>> /\ blocks[b] = "none" /\ Opened = 0 .. b - 1 /\ Set(b, "open")
Extend(b) == last' = <<"delta", b>> /\ blocks[b] = "open" /\ UNCHANGED <<blocks, ended>>
Seal(b)   == last' = <<"seal", b>> /\ blocks[b] \in {"open", "sealed"} /\ Set(b, "sealed")
Close(b)  == last' = <<"close", b>> /\ blocks[b] \in {"open", "sealed"} /\ Set(b, "closed")

\* An event outside every block: the opening events, a chat chunk, the final
\* message delta.
Aside == last' = <<"aside", -1>> /\ UNCHANGED <<blocks, ended>>

End(how) ==
  /\ last' = <<"end", -1>>
  /\ how = "well" => \A b \in Opened : blocks[b] = "closed"
  /\ ended' = how
  /\ UNCHANGED blocks

StreamNext ==
  /\ ended = "no"
  /\ count' = count + 1
  /\ \/ Aside
     \/ \E b \in Block : Open(b) \/ Extend(b) \/ Seal(b) \/ Close(b)
     \/ \E how \in {"well", "badly"} : End(how)

StreamSpec == StreamInit /\ [][StreamNext]_streamVars
=============================================================================
