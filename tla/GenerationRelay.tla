--------------------------- MODULE GenerationRelay ---------------------------
(***************************************************************************)
(* One generation request of the inference gateway, from the engine's      *)
(* event stream (upstream.rs) through the encoder of the client's protocol *)
(* (gateway.rs) to the events the client receives (agent.rs), with the     *)
(* usage meter of the request (sessions.rs).                               *)
(*                                                                         *)
(* Text is abstracted to whether it is blank, tool arguments to whether    *)
(* they parse, and every delta weighs one unit of the output bound.        *)
(***************************************************************************)
EXTENDS Integers, Sequences, FiniteSets, SequencesExt

CONSTANTS
  EngineTools,    \* tool call indices the engine may use
  MaxEngine,      \* bound on one engine stream, of which a delta takes two
  MaxOutput,      \* MAX_COMPLETION_BODY_BYTES, in deltas
  Budgets         \* values of max_tokens in the request

ASSUME RelayAssumption ==
  /\ EngineTools \subseteq Nat /\ IsFiniteSet(EngineTools)
  /\ MaxEngine \in Nat /\ MaxOutput \in Nat /\ Budgets \subseteq Nat

VARIABLES
  request,   \* protocol, streaming or not, omitted reasoning, token budget
  relay,     \* where the relay stands: phase, second pass, usage of the passes
  engine,    \* the engine stream: status and events left
  encoder,   \* ResponsesEncoder or AnthropicEncoder
  pending,   \* encoded events not yet taken by the client
  client,    \* what the client has received
  meter      \* UsageMeter

relayVars == <<request, relay, engine, encoder, pending, client, meter>>

Protocols == {"responses", "anthropic", "chat"}
None == -1
BlockCount == Cardinality(EngineTools) + 2

NoTool == [id |-> FALSE, name |-> "none", args |-> "empty", at |-> None]

(* GenerationEvent, as decode_sse_events makes them: deltas of text are     *)
(* never empty, a tool delta carries its id and name or neither.            *)
EngineEvent ==
  [t: {"reasoning", "text"}, solid: BOOLEAN]
  \union [t: {"tool"}, tool: EngineTools, head: {"none", "function", "custom"},
          args: {"empty", "partial", "whole"}]
  \union [t: {"finished"}, reason: {"stop", "other"}]
  \union [t: {"usage"}, prompt: {0, 1}, output: {1}]
  \union [t: {"done"}]

NewEncoder ==
  [reasoning |-> "none", text |-> "none", reasoningAt |-> None, textAt |-> None,
   tools |-> [i \in EngineTools |-> NoTool],
   usage |-> <<0, 0>>, bytes |-> 0, finish |-> "none", next |-> 0, sequence |-> 0]

-----------------------------------------------------------------------------
(* The encoders.  Each operation takes the encoder and the pending events,  *)
(* [enc, out], and returns both, or fails.                                  *)

Responses == request.protocol = "responses"

\* event and push: a Responses event takes the next sequence number, an
\* Anthropic event has none.
Emit(s, kind, b) ==
  [enc |-> [s.enc EXCEPT !.sequence = @ + 1],
   out |-> Append(s.out, [kind |-> kind, block |-> b,
                          seq |-> IF Responses THEN s.enc.sequence ELSE None])]

EmitAll(s, kinds, b) == FoldLeft(LAMBDA acc, kind : Emit(acc, kind, b), s, kinds)

\* Mutant: the index is handed out again.
AllocateIndexStuck(enc) == enc

\* allocate_index
AllocateIndex(enc) == [enc EXCEPT !.next = @ + 1]

\* reserve_output and the bound in the Anthropic deltas.
Fits(enc, n) == enc.bytes + n <= MaxOutput

Blank(old, solid) == IF solid \/ old = "solid" THEN "solid" ELSE "blank"

\* reasoning_delta: the Responses item opens with its summary part, the
\* Anthropic block is silent when the request omits reasoning.
ReasoningDelta(s, ev) ==
  LET opened == IF s.enc.reasoningAt # None THEN s
                ELSE EmitAll([s EXCEPT !.enc = [AllocateIndex(s.enc) EXCEPT !.reasoningAt = s.enc.next]],
                             IF Responses THEN <<"open", "delta">> ELSE <<"open">>, s.enc.next)
      told == [opened EXCEPT !.enc.bytes = @ + 1, !.enc.reasoning = Blank(@, ev.solid)]
  IN  IF ~Responses /\ request.omit THEN told ELSE Emit(told, "delta", told.enc.reasoningAt)

\* text_delta
TextDelta(s, ev) ==
  LET opened == IF s.enc.textAt # None THEN s
                ELSE EmitAll([s EXCEPT !.enc = [AllocateIndex(s.enc) EXCEPT !.textAt = s.enc.next]],
                             IF Responses THEN <<"open", "delta">> ELSE <<"open">>, s.enc.next)
      told == [opened EXCEPT !.enc.bytes = @ + 1, !.enc.text = Blank(@, ev.solid)]
  IN  Emit(told, "delta", told.enc.textAt)

\* Appending a fragment to the arguments: a whole document parses, a part
\* does not until the rest completes it, and nothing may follow a document.
Appended(args, fragment) ==
  IF fragment = "empty" THEN args
  ELSE IF fragment = "whole" /\ args # "whole" THEN "whole" ELSE "partial"

\* tool_delta and announce_tool: the item is announced by the first delta;
\* the arguments of a custom tool are not streamed in Responses.
ToolDelta(s, ev) ==
  LET old == s.enc.tools[ev.tool]
      fresh == old.at = None
      tool == [id |-> old.id \/ ev.head # "none",
               name |-> IF ev.head = "none" THEN old.name ELSE ev.head,
               args |-> Appended(old.args, ev.args),
               at |-> IF fresh THEN s.enc.next ELSE old.at]
      enc == [(IF fresh THEN AllocateIndex(s.enc) ELSE s.enc)
                EXCEPT !.tools[ev.tool] = tool,
                       !.bytes = @ + (IF ev.args = "empty" THEN 0 ELSE 1)]
      told == IF fresh THEN Emit([s EXCEPT !.enc = enc], "open", tool.at)
              ELSE [s EXCEPT !.enc = enc]
  IN  IF ev.args # "empty" /\ ~(Responses /\ tool.name = "custom")
      THEN Emit(told, "delta", tool.at) ELSE told

Used(enc) == {i \in EngineTools : enc.tools[i].at # None}

\* A tool without id, name or parsing arguments refuses the whole answer.
ToolsValid(enc) ==
  \A i \in Used(enc) : enc.tools[i].id /\ enc.tools[i].name # "none" /\ enc.tools[i].args = "whole"

\* reasoning_only_stop
ReasoningOnly(enc) ==
  /\ enc.finish = "stop"
  /\ enc.reasoning = "solid" /\ enc.text # "solid" /\ Used(enc) = {}

BlocksOf(enc) ==
  {b \in {enc.reasoningAt, enc.textAt} \union {enc.tools[i].at : i \in Used(enc)} : b # None}

Told(b) == b # None
Ordered(set) == SetToSortSeq(set, LAMBDA a, b : a < b)

\* Mutant: the tools are left open.
FinishBlocksNoTools(s) ==
  FoldLeft(LAMBDA acc, b : EmitAll(acc, <<"seal", "seal", "close">>, b), s,
           SelectSeq(<<s.enc.reasoningAt, s.enc.textAt>>, Told))

\* finish_reasoning, finish_text and finish_tools of Responses (in that order,
\* the tools by engine index), the closing loop of Anthropic (by block index).
FinishBlocks(s) ==
  LET prose == SelectSeq(<<s.enc.reasoningAt, s.enc.textAt>>, Told)
      calls == Ordered(Used(s.enc))
  IN  IF Responses
      THEN FoldLeft(LAMBDA acc, i : EmitAll(acc, <<"seal", "close">>, s.enc.tools[i].at),
                    FoldLeft(LAMBDA acc, b : EmitAll(acc, <<"seal", "seal", "close">>, b), s, prose),
                    calls)
      ELSE FoldLeft(LAMBDA acc, b : EmitAll(acc, IF b = s.enc.reasoningAt THEN <<"delta", "close">>
                                                 ELSE <<"close">>, b),
                    s, Ordered(BlocksOf(s.enc)))

\* done: refuses, or closes every block and ends the stream.
DoneAccepted(enc) == ToolsValid(enc) /\ ~(Responses /\ ReasoningOnly(enc))
Done(s) ==
  LET finished == FinishBlocks(s)
  IN  IF Responses THEN Emit(finished, "well", None)
      ELSE EmitAll(finished, <<"aside", "well">>, None)

\* accept: whether the encoder takes the event, and the state it leaves.
Accepts(enc, ev) ==
  CASE ev.t \in {"reasoning", "text"} -> Fits(enc, 1)
    [] ev.t = "tool" -> Fits(enc, IF ev.args = "empty" THEN 0 ELSE 1)
    [] ev.t = "done" -> DoneAccepted(enc)
    [] OTHER -> TRUE

Accept(s, ev) ==
  CASE ev.t = "reasoning" -> ReasoningDelta(s, ev)
    [] ev.t = "text" -> TextDelta(s, ev)
    [] ev.t = "tool" -> ToolDelta(s, ev)
    [] ev.t = "usage" -> [s EXCEPT !.enc.usage = <<ev.prompt, ev.output>>]
    [] ev.t = "finished" -> [s EXCEPT !.enc.finish = ev.reason]
    [] ev.t = "done" -> Done(s)

-----------------------------------------------------------------------------
(* The usage meter.                                                         *)

NewMeter == [usage |-> <<>>, outcome |-> "interrupted", incomplete |-> FALSE, recorded |-> FALSE]

\* UsageMeter::observe
Observe(m, ev) ==
  CASE ev.t = "usage" -> [m EXCEPT !.usage = <<ev.prompt, ev.output>>]
    [] ev.t = "done" -> [m EXCEPT !.outcome = "succeeded"]
    [] OTHER -> m

\* Drop of the meter: what the request leaves in the ledger.
Recorded(m) == [m EXCEPT !.recorded = TRUE, !.incomplete = @ \/ m.outcome # "succeeded"]

-----------------------------------------------------------------------------
(* The relay.                                                               *)

NewRelay == [phase |-> "connect", recovered |-> FALSE, terminal |-> FALSE,
             succeeded |-> FALSE, prior |-> <<0, 0>>, passes |-> <<<<>>>>]

RelayInit ==
  /\ request \in [protocol: Protocols, stream: BOOLEAN, omit: BOOLEAN, budget: Budgets]
  /\ request.omit => request.protocol = "anthropic"
  /\ request.protocol = "responses" \/ \A n \in Budgets : request.budget >= n
  /\ relay = NewRelay
  /\ engine = [live |-> FALSE, left |-> MaxEngine]
  /\ encoder = NewEncoder
  /\ pending = <<>>
  /\ client = [blocks |-> [b \in 0 .. BlockCount - 1 |-> "none"], ended |-> "no",
               count |-> 0, last |-> <<"none", None>>, reply |-> "none"]
  /\ meter = NewMeter

\* The response is complete or dropped, and everything it owns with it.
Over(reply, m) ==
  /\ relay' = [relay EXCEPT !.phase = "over"]
  /\ engine' = [live |-> FALSE, left |-> 0]
  /\ client' = [client EXCEPT !.reply = reply]
  /\ meter' = Recorded(m)
  /\ encoder' = NewEncoder
  /\ pending' = <<>>
  /\ UNCHANGED request

\* generation_stream and the constructor of the encoder.
Connect ==
  /\ relay.phase = "connect"
  /\ LET opening == CASE request.protocol = "responses" -> <<"aside", "aside">>
                      [] request.protocol = "anthropic" -> <<"aside">>
                      [] OTHER -> <<>>
         s == EmitAll([enc |-> encoder, out |-> <<>>], opening, None)
     IN  encoder' = s.enc /\ pending' = s.out
  /\ relay' = [relay EXCEPT !.phase = "stream"]
  /\ engine' = [engine EXCEPT !.live = TRUE]
  /\ UNCHANGED <<request, client, meter>>

ConnectFails == relay.phase = "connect" /\ Over("error", meter)

Settled(ev) == ev.kind \in {"well", "badly"}

\* pop: the client takes one event; a request for one document drops them.
\* The count of chat frames stops at its bound.
Take ==
  /\ relay.phase = "stream" /\ pending # <<>>
  /\ LET ev == Head(pending)
     IN  client' = IF ~request.stream THEN client
                   ELSE [client EXCEPT
                          !.blocks = IF ev.kind \notin {"open", "seal", "close"} THEN @
                                     ELSE [@ EXCEPT ![ev.block] = CASE ev.kind = "open" -> "open"
                                                                    [] ev.kind = "seal" -> "sealed"
                                                                    [] ev.kind = "close" -> "closed"],
                          !.ended = IF Settled(ev) THEN ev.kind ELSE @,
                          !.count = CASE Responses -> ev.seq + 1
                                      [] request.protocol = "chat" /\ @ > MaxEngine -> @
                                      [] OTHER -> @ + 1,
                          !.last = <<IF Settled(ev) THEN "end" ELSE ev.kind, ev.block>>]
  /\ pending' = Tail(pending)
  /\ UNCHANGED <<request, relay, engine, encoder, meter>>

\* The stream ends after its terminal event; a document is sent if the
\* encoder accepted the end.
Finish ==
  /\ relay.phase = "stream" /\ pending = <<>> /\ relay.terminal
  /\ Over(IF request.stream THEN "none"
          ELSE IF relay.succeeded THEN "document" ELSE "error", meter)

Waiting(protocol) ==
  /\ relay.phase = "stream" /\ pending = <<>> /\ ~relay.terminal
  /\ request.protocol = protocol /\ (protocol = "chat" => request.stream)

\* Dropping the response cancels whatever is live.
Disconnect == relay.phase # "over" /\ Over("gone", meter)

Weight(ev) == IF ev.t \in {"reasoning", "text", "tool"} THEN 2 ELSE 1

\* The stream's reader hands over one event; it stops after Done.
Offers(ev) == engine.live /\ engine.left >= Weight(ev) /\ ev \in EngineEvent
Receives(ev) ==
  /\ Offers(ev)
  /\ engine' = [live |-> ev.t # "done", left |-> engine.left - Weight(ev)]

Encoded(s) == encoder' = s.enc /\ pending' = s.out
Encoding == [enc |-> encoder, out |-> pending]
Pass == Last(relay.passes)

\* Mutant: the failure neither tells the client nor ends the response.
RespondFailsSilently(m) ==
  /\ engine' = [engine EXCEPT !.live = FALSE]
  /\ meter' = [m EXCEPT !.outcome = "failed"]
  /\ UNCHANGED <<request, relay, encoder, pending, client>>

\* ResponsesGeneration::fail drops the engine stream.
RespondFails(m) ==
  /\ engine' = [engine EXCEPT !.live = FALSE]
  /\ Encoded(Emit(Encoding, "badly", None))
  /\ meter' = [m EXCEPT !.outcome = "failed"]
  /\ relay' = [relay EXCEPT !.terminal = TRUE]
  /\ UNCHANGED <<request, client>>

\* Mutant: only the second pass is counted.
CombinedLastPass(ev) == ev

\* Usage is reported as the sum over the passes.
Combined(ev) ==
  IF ev.t # "usage" THEN ev
  ELSE [ev EXCEPT !.prompt = @ + relay.prior[1], !.output = @ + relay.prior[2]]

\* reasoning_only_recovery_request; a body that would grow past its limit is
\* a budget that is used up.
Recoverable ==
  /\ ~relay.recovered
  /\ ReasoningOnly(encoder) /\ encoder.usage[1] # 0 /\ encoder.usage[2] # 0
  /\ request.budget > encoder.usage[2]

\* ResponsesGeneration::next, for an event of the engine.
RespondRecovers ==
  /\ Waiting("responses")
  /\ Receives([t |-> "done"]) /\ Recoverable
  /\ relay' = [relay EXCEPT !.recovered = TRUE, !.phase = "reconnect",
                            !.prior = IF Pass = <<>> THEN <<0, 0>> ELSE Pass,
                            !.passes = Append(@, <<>>)]
  /\ UNCHANGED <<request, encoder, pending, client, meter>>

RespondUnaccounted ==
  /\ Waiting("responses")
  /\ Offers([t |-> "done"]) /\ ~Recoverable
  /\ relay.recovered /\ Pass = <<>>
  /\ RespondFails(meter)

\* The meter sees every event but Done before the encoder.
RespondObserved(m, ev) == IF ev.t = "done" THEN m ELSE Observe(m, ev)

Respond ==
  /\ Waiting("responses")
  /\ \E ev \in EngineEvent :
       /\ Receives(ev)
       /\ ev.t = "done" => ~Recoverable /\ ~(relay.recovered /\ Pass = <<>>)
       /\ LET told == Combined(ev)
              seen == RespondObserved(meter, told)
              fits == Accepts(encoder, told)
              ends == ev.t = "done"
          IN  /\ Encoded(IF fits THEN Accept(Encoding, told) ELSE Emit(Encoding, "badly", None))
              /\ meter' = CASE ~fits -> [seen EXCEPT !.outcome = "failed"]
                            [] fits /\ ends -> Observe(seen, ev)
                            [] OTHER -> seen
              /\ relay' = [relay EXCEPT
                            !.terminal = ~fits \/ ends, !.succeeded = fits /\ ends,
                            !.passes[Len(relay.passes)] =
                              IF ev.t = "usage" THEN <<ev.prompt, ev.output>> ELSE @]
       /\ UNCHANGED <<request, client>>

\* The continuation of a reasoning-only answer.
Reconnect ==
  /\ relay.phase = "reconnect"
  /\ relay' = [relay EXCEPT !.phase = "stream"]
  /\ engine' = [live |-> TRUE, left |-> MaxEngine]
  /\ UNCHANGED <<request, encoder, pending, client, meter>>

ReconnectFails ==
  /\ relay.phase = "reconnect"
  /\ Encoded(Emit(Encoding, "badly", None))
  /\ meter' = [meter EXCEPT !.outcome = "failed"]
  /\ relay' = [relay EXCEPT !.phase = "stream", !.terminal = TRUE]
  /\ UNCHANGED <<request, engine, client>>

\* anthropic_sse and anthropic_json, for an event of the engine.  The stream
\* has shown the event to the meter before the encoder judges it.
Message ==
  /\ Waiting("anthropic")
  /\ \E ev \in EngineEvent :
       LET seen == Observe(meter, ev)
           fits == Accepts(encoder, ev)
       IN  IF ~request.stream /\ (~fits \/ ev.t = "done")
           THEN Offers(ev) /\ Over(IF fits THEN "document" ELSE "error", seen)
           ELSE /\ Receives(ev)
                /\ Encoded(IF fits THEN Accept(Encoding, ev) ELSE Emit(Encoding, "badly", None))
                /\ relay' = [relay EXCEPT !.terminal = ~fits \/ ev.t = "done"]
                /\ meter' = seen
                /\ UNCHANGED <<request, client>>

MessageFails(m) ==
  /\ Waiting("anthropic")
  /\ IF ~request.stream THEN Over("error", m)
     ELSE /\ Encoded(Emit(Encoding, "badly", None))
          /\ relay' = [relay EXCEPT !.terminal = TRUE]
          /\ engine' = [engine EXCEPT !.live = FALSE]
          /\ meter' = m
          /\ UNCHANGED <<request, client>>

\* chat_sse and the stream of gateway_completions: one frame per event, no
\* terminal of their own; the response ends when the engine's stream does.
Frame(kind) == pending' = <<[kind |-> kind, block |-> None, seq |-> None]>>
Chat ==
  /\ Waiting("chat")
  /\ \E ev \in EngineEvent :
       /\ Receives(ev)
       /\ meter' = Observe(meter, ev)
       /\ Frame(IF ev.t = "done" THEN "well" ELSE "aside")
  /\ UNCHANGED <<request, relay, encoder, client>>

\* gateway_chat and gateway_completions without streaming: one exchange with
\* the engine, whose status the meter takes before the answer is rewritten.
ChatAnswer ==
  /\ relay.phase = "stream" /\ request.protocol = "chat" /\ ~request.stream
  /\ \E answer \in {"usable", "unusable", "rejected", "lost"} :
       Over(IF answer = "usable" THEN "document" ELSE "error",
            CASE answer \in {"usable", "unusable"} -> [meter EXCEPT !.outcome = "succeeded"]
              [] answer = "rejected" -> [meter EXCEPT !.outcome = "failed"]
              [] answer = "lost" -> meter)

\* An error of the stream: an event that does not decode, an oversized one,
\* or silence past the idle timeout.  None of the relays closes a live engine
\* stream for it except by ending the response.
Broken == [meter EXCEPT !.incomplete = TRUE]
EngineError ==
  /\ engine.live
  /\ \/ Waiting("responses") /\ RespondFails(Broken)
     \/ MessageFails(Broken)
     \/ /\ Waiting("chat") /\ meter' = Broken /\ Frame("aside")
        /\ engine' = [engine EXCEPT !.left = IF @ > 0 THEN @ - 1 ELSE @]
        /\ UNCHANGED <<request, relay, encoder, client>>

\* The engine closes its stream, with or without Done.
EngineCloses ==
  /\ relay.phase = "stream" /\ engine.live
  /\ engine' = [engine EXCEPT !.live = FALSE]
  /\ UNCHANGED <<request, relay, encoder, pending, client, meter>>

\* next() of a closed stream is None.
StreamEnds ==
  /\ ~engine.live
  /\ \/ Waiting("responses") /\ RespondFails(Broken)
     \/ MessageFails(meter)
     \/ Waiting("chat") /\ Over("none", meter)

RelayStep ==
  \/ Connect \/ ConnectFails \/ Reconnect \/ ReconnectFails
  \/ Take \/ Finish
  \/ RespondRecovers \/ RespondUnaccounted \/ Respond
  \/ Message \/ Chat \/ ChatAnswer
  \/ EngineError \/ StreamEnds

RelayNext == RelayStep \/ EngineCloses \/ Disconnect

(* The response body is polled while the client reads (hyper), connecting   *)
(* ends one way or the other, and the idle timeout bounds every wait for    *)
(* the engine.  Nothing obliges the client to leave or the engine to close. *)
RelayFairness == WF_relayVars(RelayStep)

RelaySpec == RelayInit /\ [][RelayNext]_relayVars /\ RelayFairness

-----------------------------------------------------------------------------
(* Properties.                                                              *)

Stream == INSTANCE BlockStream
            WITH BlockBound <- BlockCount, blocks <- client.blocks,
                 ended <- client.ended, count <- client.count, last <- client.last

\* Whatever order the engine interleaves reasoning, text and tool fragments
\* in, and however the stream ends, ResponsesEncoder and AnthropicEncoder give
\* the client a legal block stream: blocks open in index order, receive deltas
\* only while open, close once, all are closed before a successful end, one
\* terminal event, sequence numbers without gaps.
ImplementsBlockStream == Stream!StreamSpec

PassSum(n) == FoldLeft(LAMBDA sum, u : IF u = <<>> THEN sum ELSE sum + u[n], 0, relay.passes)

\* ResponsesGeneration::next accounts for the logical response, not for the
\* engine streams it joins: a request recorded as succeeded was not refused
\* by the encoder, one whose client saw the end of the answer is recorded as
\* succeeded and complete, and the recorded usage is the sum over both passes.
JoinedPassesAreAccounted ==
  (Responses /\ meter.recorded) =>
    /\ meter.outcome = "succeeded" => client.ended # "badly" /\ client.reply # "error"
    /\ client.ended = "well" \/ client.reply = "document" =>
         meter.outcome = "succeeded" /\ ~meter.incomplete
    /\ meter.usage # <<>> => meter.usage = <<PassSum(1), PassSum(2)>>

\* "Only the validated public terminal marks this logical request successful"
\* (agent.rs, ResponsesGeneration::next), asked of every protocol: a request
\* recorded as succeeded did not end in an error for its client.
SuccessIsValidated ==
  meter.recorded /\ meter.outcome = "succeeded" =>
    client.ended # "badly" /\ client.reply # "error"

\* A Responses or Anthropic request whose engine falls silent ends by itself,
\* and gives back its permits, without the client hanging up: the idle
\* timeout is terminal for these relays.
StalledStreamIsReleased ==
  (relay.phase = "stream" /\ request.protocol # "chat") ~> (relay.phase = "over")

\* "engine idle deadlines, cancellation and admission limits still apply"
\* (docs/reference/spark.md), asked of every protocol.
IdleDeadlineApplies == (relay.phase = "stream") ~> (relay.phase = "over")
=============================================================================
