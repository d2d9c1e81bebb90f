---------------------------- MODULE ImageHistory ----------------------------
(***************************************************************************)
(* The rolling window of images (image_history.rs).  A client resends its  *)
(* whole history with every request.  The launch adapter projects it while *)
(* it streams in (project_reader), archiving what it omits; the gateway    *)
(* projects what arrives again, for the limit of the model and without an  *)
(* archive (normalize_image_request).  Both start from nothing each time.  *)
(*                                                                         *)
(* The history is flat: the images of the user's items and tool results,   *)
(* each with its payload length and whether it closes its item, and the    *)
(* model's answers between them.  The archive never refuses; images of     *)
(* other roles, text and pixel limits are left out.                        *)
(***************************************************************************)
EXTENDS Integers, Sequences, FiniteSets, SequencesExt

CONSTANTS
  Recent,         \* RECENT (6)
  HighWater,      \* HIGH_WATER (12)
  RequestBytes,   \* REQUEST_BYTES; half of it is the soft limit of payloads
  AdapterMax,     \* max_count of the adapter (16)
  ModelLimits,    \* max_count of the vision profiles
  Batches,        \* the image lists an item may bring
  MaxImages       \* bound on the images of a history

ASSUME HistoryAssumption ==
  /\ {Recent, HighWater, RequestBytes, AdapterMax, MaxImages} \cup ModelLimits \subseteq Nat \ {0}
  /\ Recent < HighWater /\ HighWater <= AdapterMax

VARIABLES
  limit,      \* the model's max_count
  history,    \* the client's history, every image in it
  answered,   \* how much of it the last answered request and its answer are
  uploaded    \* that request as the adapter sent it, with the answer

imageVars == <<limit, history, answered, uploaded>>

Image(size, inline, last) == [at |-> "shown", size |-> size, inline |-> inline, last |-> last]
ModelTurn == [at |-> "answer", size |-> 0, inline |-> FALSE, last |-> TRUE]

ImageInit ==
  /\ limit \in ModelLimits
  /\ history = <<>> /\ answered = 0
  /\ uploaded = <<>>

-----------------------------------------------------------------------------
(* prune_items.                                                             *)

Least(a, b) == IF a < b THEN a ELSE b
Most(a, b) == IF a < b THEN b ELSE a

\* visit_parts: where the images still are.
Shown(items) == {n \in DOMAIN items : items[n].at = "shown"}
Payload(items) == MapThenSumSet(LAMBDA n : items[n].size, Shown(items))

\* The images after the last answer await their first inspection.
Acknowledged(items) == SelectLastInSeq(items, LAMBDA e : e.at = "answer")
Unseen(items) == {n \in Shown(items) : n > Acknowledged(items)}

\* Mutant: an image may go before the model has seen it.
EvictableUnseen(items) == {n \in Shown(items) : items[n].inline}

\* evictable, in an acknowledged item.
Evictable(items) == {n \in Shown(items) \ Unseen(items) : items[n].inline}

Crowded(bytes) == bytes > RequestBytes \div 2

\* The images that stay whatever their number: never fewer than the unseen.
Keep(items, max) == Most(Least(Recent, max), Cardinality(Unseen(items)))

\* The walk from the oldest image on: one goes while too many or too large
\* ones are left.
Omitted(items, max) ==
  LET older(n) == {k \in Evictable(items) : k < n}
      left(n) == Payload(items) - MapThenSumSet(LAMBDA k : items[k].size, older(n))
  IN {n \in Evictable(items) :
        \/ Cardinality(Shown(items)) - Cardinality(older(n)) > Keep(items, max)
        \/ Crowded(left(n))}

Prune(items, max) ==
  IF Cardinality(Shown(items)) < Least(HighWater, max) /\ ~Crowded(Payload(items)) THEN items
  ELSE LET out == Omitted(items, max)
       IN [n \in DOMAIN items |-> IF n \in out THEN [items[n] EXCEPT !.at = "omitted"] ELSE items[n]]

-----------------------------------------------------------------------------
(* project and project_reader.                                              *)

Refused == <<>>
ItemEnds(items) == SelectSeq([n \in DOMAIN items |-> n], LAMBDA n : items[n].last)

\* Mutant: the whole history is pruned at once.
StreamAtEnd(items, max) == [items |-> Prune(items, max), peak |-> 0]

\* One item at a time as they arrive, and the most payload held.
Stream(items, max) ==
  FoldLeft(LAMBDA s, e :
             LET next == Prune(s.items \o SubSeq(items, Len(s.items) + 1, e), max)
             IN [items |-> next, peak |-> Most(s.peak, Payload(next))],
           [items |-> <<>>, peak |-> 0], ItemEnds(items))

\* The new images are counted first; a last pass ends the projection.
Project(items, max) ==
  IF Cardinality(Unseen(items)) > max THEN Refused
  ELSE Prune(Stream(items, max).items, max)

ProjectReader(items) ==
  LET first == Stream(items, AdapterMax)
  IN IF first.peak > RequestBytes \/ Cardinality(Unseen(first.items)) > AdapterMax THEN Refused
     ELSE Project(Prune(first.items, AdapterMax), AdapterMax)

\* normalize_image_request: the projection, then the strict checks.
Normalize(items, max) ==
  LET fit == Project(items, max)
  IN IF Cardinality(Shown(fit)) > max \/ \E n \in Shown(fit) : ~fit[n].inline THEN Refused ELSE fit

-----------------------------------------------------------------------------
(* The conversation.                                                        *)

\* The client adds an item: a prompt or a tool result.
Say(batch) ==
  /\ Cardinality(Shown(history)) + Len(batch) <= MaxImages
  /\ history' = history \o batch
  /\ UNCHANGED <<limit, answered, uploaded>>

\* A request that is not refused is answered.
Ask ==
  /\ answered < Len(history)
  /\ LET sent == ProjectReader(history)
     IN /\ Normalize(sent, limit) # Refused
        /\ uploaded' = Append(sent, ModelTurn)
  /\ history' = Append(history, ModelTurn)
  /\ answered' = Len(history')
  /\ UNCHANGED limit

ImageNext == Ask \/ \E batch \in Batches : Say(batch)

ImageSpec == ImageInit /\ [][ImageNext]_imageVars

-----------------------------------------------------------------------------
(* Properties.                                                              *)

Gone(items) == {n \in DOMAIN items : items[n].at = "omitted"}
News == SubSeq(history, answered + 1, Len(history))

\* Although every projection starts from the full history, it omits what it
\* would by going on from the previous one: an omitted image never comes back,
\* and between two evictions the part of the request that the engine has seen
\* does not change.  (prune_items after every item, project_reader.)
ProjectionIsIncremental ==
  LET now == ProjectReader(history)
  IN now # Refused => Gone(now) = Gone(ProjectReader(uploaded \o News))

\* "Never evict images awaiting inspection", through both projections; and a
\* history is refused for its images only when it brings one that is not
\* inline, more new ones than the model takes, or more payload than a request
\* holds: old images never add up to a refusal.
NewImagesReachTheModel ==
  LET now == Normalize(ProjectReader(history), limit)
      new == Unseen(history)
  IN IF now # Refused THEN new \subseteq Shown(now)
     ELSE \/ \E n \in Shown(history) : ~history[n].inline
          \/ Stream(history, AdapterMax).peak > RequestBytes
          \/ Cardinality(new) > Least(limit, AdapterMax)

\* The rolling window is stable and loses nothing new.
ImagesAreStable == history # <<>> => ProjectionIsIncremental /\ NewImagesReachTheModel
=============================================================================
