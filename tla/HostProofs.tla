----------------------------- MODULE HostProofs -----------------------------
(***************************************************************************)
(* The room on the host: admission never promises more than the memory,    *)
(* and downloads and removals leave the disk its reserve and the promoted  *)
(* models whole, for any instances, models and blobs.  The sums are those  *)
(* of AccountingProofs.                                                    *)
(***************************************************************************)
EXTENDS Admission, ModelCache, AccountingProofs

-----------------------------------------------------------------------------
(* Admission.                                                               *)

Reading == [free : Int, age : Nat]

\* The shapes of a serve request.
Request ==
       [at : {"new"}]
  \cup [at : {"snapshot"}, inst : Models, snap : Reading]
  \cup [at : {"storage"}, inst : Models, snap : Reading, desired : SUBSET Models]
  \cup [at : {"lease"}, inst : Models, cancelled : BOOLEAN]
  \cup [at : {"starting"}, inst : Models, age : Nat, cancelled : BOOLEAN]

AdmissionTypes ==
  /\ wanted \in SUBSET Models /\ resident \in SUBSET Models /\ orphaned \in SUBSET Models
  /\ sample \in Reading
  /\ handler \in [Handlers -> Request]

\* What the properties count: the instances that shall run, but for those of
\* cancelled serves.
CountedPeaks == wanted \ orphaned

\* The lease has one holder.
LeaseInv == \A h \in Handlers : handler[h].at \in {"lease", "starting"} => holder = h

\* The instance of h2 was begun no longer ago than the snapshot of age.
BegunSince(h2, i, age) ==
  /\ handler[h2].at = "starting" /\ handler[h2].inst = i /\ ~handler[h2].cancelled
  /\ handler[h2].age <= age

\* The envelopes a handler has read are those that count, unless its snapshot
\* is too old or the serve that added to them still holds the lease.
ReadInv ==
  \A h \in Handlers : handler[h].at = "storage" =>
    \A i \in CountedPeaks \ handler[h].desired :
      \/ handler[h].snap.age > MaxAge
      \/ \E h2 \in Handlers : BegunSince(h2, i, handler[h].snap.age)

\* There is room for the instance of the lease.
RoomInv ==
  \A h \in Handlers :
    handler[h].at = "lease" => Bytes(CountedPeaks \cup {handler[h].inst}) <= Capacity

AdmissionInv ==
  AdmissionTypes /\ LeaseInv /\ ReadInv /\ RoomInv /\ OvercommitNeedsCancel

(* A set of instances needs a natural number of bytes, and part of it no    *)
(* more than the whole.                                                     *)
LEMMA BytesMonotone ==
  ASSUME NEW S \in SUBSET Models, NEW T \in SUBSET S
  PROVE  Bytes(S) \in Nat /\ Bytes(T) \in Nat /\ Bytes(T) <= Bytes(S)
<1>1. Envelope \in [Models -> Nat] /\ IsFiniteSet(Models)
  BY AdmissionAssumption, Zenon
<1>2. IsFiniteSet(S) /\ IsFiniteSet(T) /\ T \subseteq Models
  BY <1>1, FS_Subset, Zenon
<1>3. Bytes(S) = SumOver(Envelope, S) /\ Bytes(T) = SumOver(Envelope, T)
  BY SumIsFold, Zenon DEF Bytes
<1>4. SumOver(Envelope, S) \in Nat /\ SumOver(Envelope, T) \in Nat
  BY <1>1, <1>2, SumOfFirst, Zenon
<1>5. SumOver(Envelope, T) <= SumOver(Envelope, S)
  BY <1>1, <1>2, SumMonotone, Zenon
<1> QED
  BY <1>3, <1>4, <1>5, ZenonT(40)

(* No blobs take no bytes.                                                  *)
LEMMA NoBytes == Bytes({}) = 0
<1>1. Envelope \in [Models -> Nat] /\ {} \subseteq Models /\ IsFiniteSet({})
  BY AdmissionAssumption, FS_EmptySet, Zenon
<1>2. SumOver(Envelope, {}) = 0
  BY <1>1, SumOfFirst, Zenon
<1> QED
  BY <1>2, SumIsFold, Zenon DEF Bytes

(* What fits leaves room for less.                                          *)
LEMMA LessFits ==
  ASSUME NEW S \in SUBSET Models, Bytes(S) <= Capacity, NEW T \in SUBSET S
  PROVE  Bytes(T) <= Capacity
<1>1. Bytes(S) \in Nat /\ Bytes(T) \in Nat /\ Bytes(T) <= Bytes(S)
  BY BytesMonotone, Zenon
<1>2. Capacity \in Int
  BY AdmissionAssumption, SMT, SMTT(30) DEF Capacity
<1> QED
  BY <1>1, <1>2, SMT, SMTT(30)

(* Every step of admission keeps the shapes of its state.                   *)
LEMMA AdmissionTypesStep ==
  ASSUME AdmissionTypes, [AdmissionNext]_admissionVars
  PROVE  AdmissionTypes'
<1> USE DEF AdmissionTypes, Reading
<1>1. CASE Tick
  <2>1. sample' \in Reading
    BY <1>1, AdmissionAssumption, SMT, SMTT(30) DEF Tick, Older
  <2>2. ASSUME NEW h \in Handlers PROVE handler'[h] \in Request
    <3>1. CASE handler[h].at \in {"snapshot", "storage"}
      <4>1. handler'[h] = [handler[h] EXCEPT !.snap.age = Older(@, MaxAge)]
        BY <1>1, <3>1, ZenonT(40) DEF Tick
      <4>2. CASE handler[h].at = "snapshot"
        <5>1. handler[h] \in [at : {"snapshot"}, inst : Models, snap : Reading]
          BY <4>2, Zenon DEF Request
        <5> QED
          BY <4>1, <5>1, AdmissionAssumption, SMT, SMTT(30) DEF Older, Request
      <4>3. CASE handler[h].at = "storage"
        <5>1. handler[h] \in [at : {"storage"}, inst : Models, snap : Reading,
                              desired : SUBSET Models]
          BY <4>3, Zenon DEF Request
        <5> QED
          BY <4>1, <5>1, AdmissionAssumption, SMT, SMTT(30) DEF Older, Request
      <4> QED
        BY <3>1, <4>2, <4>3, Zenon
    <3>2. CASE handler[h].at = "starting"
      <4>1. handler'[h] = [handler[h] EXCEPT !.age = Older(@, MinStart)]
        BY <1>1, <3>2, Zenon DEF Tick
      <4>2. handler[h] \in [at : {"starting"}, inst : Models, age : Nat, cancelled : BOOLEAN]
        BY <3>2, Zenon DEF Request
      <4> QED
        BY <4>1, <4>2, AdmissionAssumption, SMT, SMTT(30) DEF Older, Request
    <3>3. CASE handler[h].at \notin {"snapshot", "storage", "starting"}
      <4>1. handler'[h] = handler[h]
        BY <1>1, <3>3, Zenon DEF Tick
      <4> QED
        BY <4>1, Zenon
    <3> QED
      BY <3>1, <3>2, <3>3, Zenon
  <2> QED
    BY <1>1, <2>1, <2>2, ZenonT(40) DEF Tick
<1>2. CASE TakeSample
  <2>1. Bytes(resident) \in Nat
    BY BytesMonotone, ZenonT(40)
  <2>2. Available \in Int
    BY <2>1, AdmissionAssumption, SMT, SMTT(30) DEF Available
  <2> QED
    BY <1>2, <2>2, ZenonT(40) DEF TakeSample
<1>3. CASE AgentDies
  BY <1>3, Zenon DEF AgentDies, NewHandler, Request
<1>4. ASSUME NEW h \in Handlers, NEW i \in Models, ReadSnapshot(h, i) PROVE AdmissionTypes'
  BY <1>4, Zenon DEF ReadSnapshot, Set, Request
<1>5. ASSUME NEW h \in Handlers, ReadDesired(h) PROVE AdmissionTypes'
  <2>1. handler[h] \in [at : {"snapshot"}, inst : Models, snap : Reading]
    BY <1>5, Zenon DEF ReadDesired, Request
  <2> QED
    BY <1>5, <2>1, Zenon DEF ReadDesired, Set, Request
<1>6. ASSUME NEW h \in Handlers, Decide(h) PROVE AdmissionTypes'
  <2>1. handler[h].inst \in Models
    BY <1>6, Zenon DEF Decide, Request
  <2>2. /\ [at |-> "lease", inst |-> handler[h].inst, cancelled |-> FALSE] \in Request
        /\ NewHandler \in Request
    BY <2>1, Zenon DEF NewHandler, Request
  <2> QED
    BY <1>6, <2>2, Zenon DEF Decide, Set
<1>7. ASSUME NEW h \in Handlers, CancelServe(h) PROVE AdmissionTypes'
  <2>1. \/ handler[h] \in [at : {"lease"}, inst : Models, cancelled : BOOLEAN]
        \/ handler[h] \in [at : {"starting"}, inst : Models, age : Nat, cancelled : BOOLEAN]
    BY <1>7, Zenon DEF CancelServe, Request
  <2>2. [handler[h] EXCEPT !.cancelled = TRUE] \in Request
    BY <2>1, Zenon DEF Request
  <2> QED
    BY <1>7, <2>2, Zenon DEF CancelServe, Set
<1>8. ASSUME NEW h \in Handlers, BeginServe(h) PROVE AdmissionTypes'
  <2>1. handler[h] \in [at : {"lease"}, inst : Models, cancelled : BOOLEAN]
    BY <1>8, Zenon DEF BeginServe, Request
  <2> QED
    BY <1>8, <2>1, SMT, SMTT(30) DEF BeginServe, Set, NewHandler, Request
<1>9. ASSUME NEW h \in Handlers, ServeReturns(h) PROVE AdmissionTypes'
  BY <1>9, Zenon DEF ServeReturns, Set, NewHandler, Request
<1>10. ASSUME NEW h \in Handlers, Loads(h) PROVE AdmissionTypes'
  BY <1>10, Zenon DEF Loads
<1>11. ASSUME NEW h \in Handlers, ServeEnds(h) PROVE AdmissionTypes'
  BY <1>11, Zenon DEF ServeEnds, Set, NewHandler, Request
<1>12. ASSUME NEW i \in Models, StopWanted(i) \/ Freed(i) \/ Restore(i) PROVE AdmissionTypes'
  BY <1>12, Zenon DEF StopWanted, Freed, Restore
<1>13. CASE UNCHANGED admissionVars
  BY <1>13, Zenon DEF admissionVars
<1> QED
  BY <1>1, <1>2, <1>3, <1>4, <1>5, <1>6, <1>7, <1>8, <1>9, <1>10, <1>11, <1>12, <1>13, Zenon
     DEF AdmissionNext

(* The lease is taken when it is free and dropped by its holder.            *)
LEMMA LeaseInvStep ==
  ASSUME AdmissionTypes, LeaseInv, [AdmissionNext]_admissionVars
  PROVE  LeaseInv'
<1> USE DEF LeaseInv, AdmissionTypes
<1>1. CASE Tick
  <2>1. ASSUME NEW h \in Handlers PROVE handler'[h].at = handler[h].at
    <3>1. CASE handler[h].at = "starting"
      <4>1. handler[h] \in [at : {"starting"}, inst : Models, age : Nat, cancelled : BOOLEAN]
        BY <3>1, ZenonT(40) DEF Request
      <4> QED
        BY <1>1, <3>1, <4>1, ZenonT(40) DEF Tick
    <3>2. CASE handler[h].at # "starting"
      BY <1>1, <3>2, ZenonT(40) DEF Tick, Request
    <3> QED
      BY <3>1, <3>2, ZenonT(40)
  <2> QED
    BY <1>1, <2>1, ZenonT(40) DEF Tick
<1>2. CASE TakeSample
  BY <1>2, ZenonT(40) DEF TakeSample
<1>3. CASE AgentDies
  BY <1>3, Zenon DEF AgentDies, NewHandler
<1>4. ASSUME NEW h \in Handlers, NEW i \in Models, ReadSnapshot(h, i) PROVE LeaseInv'
  BY <1>4, Zenon DEF ReadSnapshot, Set
<1>5. ASSUME NEW h \in Handlers, ReadDesired(h) PROVE LeaseInv'
  BY <1>5, Zenon DEF ReadDesired, Set
<1>6. ASSUME NEW h \in Handlers, Decide(h) PROVE LeaseInv'
  BY <1>6, AdmissionAssumption, SMT, SMTT(30) DEF Decide, Set, NewHandler
<1>7. ASSUME NEW h \in Handlers, CancelServe(h) PROVE LeaseInv'
  BY <1>7, Zenon DEF CancelServe, Set
<1>8. ASSUME NEW h \in Handlers, BeginServe(h) PROVE LeaseInv'
  BY <1>8, SMT, SMTT(30) DEF BeginServe, Set, NewHandler
<1>9. ASSUME NEW h \in Handlers, ServeReturns(h) PROVE LeaseInv'
  BY <1>9, Zenon DEF ServeReturns, Set, NewHandler
<1>10. ASSUME NEW h \in Handlers, Loads(h) PROVE LeaseInv'
  BY <1>10, Zenon DEF Loads
<1>11. ASSUME NEW h \in Handlers, ServeEnds(h) PROVE LeaseInv'
  BY <1>11, Zenon DEF ServeEnds, Set, NewHandler
<1>12. ASSUME NEW i \in Models, StopWanted(i) \/ Freed(i) \/ Restore(i) PROVE LeaseInv'
  BY <1>12, Zenon DEF StopWanted, Freed, Restore
<1>13. CASE UNCHANGED admissionVars
  BY <1>13, Zenon DEF admissionVars
<1> QED
  BY <1>1, <1>2, <1>3, <1>4, <1>5, <1>6, <1>7, <1>8, <1>9, <1>10, <1>11, <1>12, <1>13, ZenonT(40)
     DEF AdmissionNext

(* A tick ages the snapshots and the starts, and nothing else.              *)
LEMMA TickAges ==
  ASSUME AdmissionTypes, Tick, NEW h \in Handlers
  PROVE  /\ handler'[h].at = handler[h].at
         /\ handler[h].at # "new" => handler'[h].inst = handler[h].inst
         /\ handler[h].at = "storage" =>
              /\ handler'[h].desired = handler[h].desired
              /\ handler[h].snap.age \in Nat
              /\ handler'[h].snap.age = Older(handler[h].snap.age, MaxAge)
         /\ handler[h].at \in {"lease", "starting"} =>
              handler'[h].cancelled = handler[h].cancelled
         /\ handler[h].at = "starting" =>
              handler[h].age \in Nat /\ handler'[h].age = Older(handler[h].age, MinStart)
<1> USE DEF AdmissionTypes, Reading
<1>1. CASE handler[h].at = "snapshot"
  <2>1. handler[h] \in [at : {"snapshot"}, inst : Models, snap : Reading]
    BY <1>1, Zenon DEF Request
  <2> QED
    BY <1>1, <2>1, Zenon DEF Tick
<1>2. CASE handler[h].at = "storage"
  <2>1. handler[h] \in [at : {"storage"}, inst : Models, snap : Reading,
                        desired : SUBSET Models]
    BY <1>2, Zenon DEF Request
  <2> QED
    BY <1>2, <2>1, Zenon DEF Tick
<1>3. CASE handler[h].at = "starting"
  <2>1. handler[h] \in [at : {"starting"}, inst : Models, age : Nat, cancelled : BOOLEAN]
    BY <1>3, Zenon DEF Request
  <2> QED
    BY <1>3, <2>1, Zenon DEF Tick
<1>4. CASE handler[h].at \notin {"snapshot", "storage", "starting"}
  BY <1>4, Zenon DEF Tick
<1> QED
  BY <1>1, <1>2, <1>3, <1>4, Zenon

(* What a handler read stays what counts, until its snapshot is too old: a  *)
(* serve that adds to it keeps the lease for longer than that.              *)
LEMMA ReadInvStep ==
  ASSUME AdmissionTypes, LeaseInv, ReadInv, [AdmissionNext]_admissionVars
  PROVE  ReadInv'
<1> USE DEF AdmissionTypes
<1> DEFINE Late(h, i) == \/ handler[h].snap.age > MaxAge
                         \/ \E h2 \in Handlers : BegunSince(h2, i, handler[h].snap.age)
<1> SUFFICES ASSUME NEW h \in Handlers, (handler[h].at = "storage")',
                    NEW i, (i \in CountedPeaks \ handler[h].desired)'
             PROVE  Late(h, i)'
  BY Zenon  DEF ReadInv
<1>0. /\ handler[h].at = "storage" => handler[h].snap.age \in Nat
      /\ i \in CountedPeaks /\ handler[h].at = "storage" /\ i \notin handler[h].desired => Late(h, i)
  BY Zenon  DEF ReadInv, Request, Reading
<1>1. CASE Tick
  <2>1. handler[h].at = "storage" /\ i \in CountedPeaks /\ i \notin handler[h].desired
    BY <1>1, TickAges, Zenon DEF Tick, CountedPeaks
  <2>2. handler'[h].snap.age = Older(handler[h].snap.age, MaxAge)
    BY <1>1, <2>1, TickAges, Zenon
  <2>3. CASE handler[h].snap.age > MaxAge
    BY <2>2, <2>3, Zenon DEF Older
  <2>4. CASE ~(handler[h].snap.age > MaxAge)
    <3>1. PICK h2 \in Handlers : BegunSince(h2, i, handler[h].snap.age)
      BY <1>0, <2>1, <2>4, Zenon
    <3>2. handler[h2].age \in Nat /\ handler'[h2].age = Older(handler[h2].age, MinStart)
      BY <1>1, <3>1, TickAges, Zenon DEF BegunSince
    <3>3. handler'[h2].age <= handler'[h].snap.age
      BY <1>0, <2>1, <2>2, <2>4, <3>1, <3>2, AdmissionAssumption, SMT, SMTT(30) DEF Older, BegunSince
    <3>4. BegunSince(h2, i, handler[h].snap.age)'
      BY <1>1, <3>1, <3>3, TickAges, Zenon DEF BegunSince
    <3> QED
      BY <3>4, Zenon
  <2> QED
    BY <2>3, <2>4, Zenon
<1>2. CASE TakeSample
  BY <1>0, <1>2, Zenon DEF TakeSample, CountedPeaks, BegunSince
<1>3. CASE AgentDies
  BY <1>3, Zenon DEF AgentDies, NewHandler
<1>4. ASSUME NEW g \in Handlers, NEW j \in Models, ReadSnapshot(g, j) PROVE Late(h, i)'
  <2>1. g # h /\ handler'[h] = handler[h]
    BY <1>4, Zenon DEF ReadSnapshot, Set
  <2>2. \A h2 \in Handlers : handler[h2].at = "starting" => handler'[h2] = handler[h2]
    BY <1>4, Zenon DEF ReadSnapshot, Set
  <2> QED
    BY <1>0, <1>4, <2>1, <2>2, Zenon DEF ReadSnapshot, CountedPeaks, BegunSince
<1>5. ASSUME NEW g \in Handlers, ReadDesired(g) PROVE Late(h, i)'
  <2>1. g # h /\ handler'[h] = handler[h]
    BY <1>5, Zenon DEF ReadDesired, Set, CountedPeaks
  <2>2. \A h2 \in Handlers : handler[h2].at = "starting" => handler'[h2] = handler[h2]
    BY <1>5, Zenon DEF ReadDesired, Set
  <2> QED
    BY <1>0, <1>5, <2>1, <2>2, Zenon DEF ReadDesired, CountedPeaks, BegunSince
<1>6. ASSUME NEW g \in Handlers, Decide(g) PROVE Late(h, i)'
  <2>1. g # h /\ handler'[h] = handler[h]
    BY <1>6, SMT, SMTT(30) DEF Decide, Set, NewHandler
  <2>2. \A h2 \in Handlers : handler[h2].at = "starting" => handler'[h2] = handler[h2]
    BY <1>6, Zenon DEF Decide, Set
  <2> QED
    BY <1>0, <1>6, <2>1, <2>2, Zenon DEF Decide, CountedPeaks, BegunSince
<1>7. ASSUME NEW g \in Handlers, CancelServe(g) PROVE Late(h, i)'
  <2>1. g # h /\ handler'[h] = handler[h]
    BY <1>7, SMT, SMTT(30) DEF CancelServe, Set
  <2>2. i \in wanted /\ i \notin orphaned /\ i # handler[g].inst
    BY <1>7, Zenon DEF CancelServe, CountedPeaks
  <2>3. \A h2 \in Handlers : h2 # g => handler'[h2] = handler[h2]
    BY <1>7, Zenon DEF CancelServe, Set
  <2> QED
    BY <1>0, <1>7, <2>1, <2>2, <2>3, Zenon DEF CountedPeaks, BegunSince
<1>8. ASSUME NEW g \in Handlers, BeginServe(g) PROVE Late(h, i)'
  <2>0. handler[g] \in [at : {"lease"}, inst : Models, cancelled : BOOLEAN]
    BY <1>8, Zenon DEF BeginServe, Request
  <2>1. g # h /\ handler'[h] = handler[h] /\ handler[h].at = "storage"
    BY <1>8, SMT, SMTT(30) DEF BeginServe, Set, NewHandler
  <2>2. \A h2 \in Handlers : handler[h2].at = "starting" => handler'[h2] = handler[h2]
    BY <1>8, Zenon DEF BeginServe, Set
  <2>3. CASE i \in CountedPeaks
    BY <1>0, <2>1, <2>2, <2>3, Zenon DEF BegunSince
  <2>4. CASE i \notin CountedPeaks
    <3>1. i = handler[g].inst /\ ~handler[g].cancelled /\ wanted' # wanted
      BY <1>8, <2>0, <2>4, Zenon DEF BeginServe, Set, CountedPeaks
    <3>2. handler'[g] = [at |-> "starting", inst |-> i, age |-> 0,
                         cancelled |-> handler[g].cancelled]
      BY <1>8, <3>1, Zenon DEF BeginServe, Set
    <3>3. BegunSince(g, i, handler[h].snap.age)'
      BY <1>0, <2>1, <3>1, <3>2, SMT, SMTT(30) DEF BegunSince
    <3> QED
      BY <3>3, Zenon
  <2> QED
    BY <2>3, <2>4, Zenon
<1>9. ASSUME NEW g \in Handlers, ServeReturns(g) PROVE Late(h, i)'
  <2>1. g # h /\ handler'[h] = handler[h]
    BY <1>9, Zenon DEF ServeReturns, Set, NewHandler
  <2>2. \A h2 \in Handlers : h2 # g => handler'[h2] = handler[h2]
    BY <1>9, Zenon DEF ServeReturns, Set
  <2> QED
    BY <1>0, <1>9, <2>1, <2>2, Zenon DEF ServeReturns, CountedPeaks, BegunSince
<1>10. ASSUME NEW g \in Handlers, Loads(g) PROVE Late(h, i)'
  BY <1>0, <1>10, Zenon DEF Loads, CountedPeaks, BegunSince
<1>11. ASSUME NEW g \in Handlers, ServeEnds(g) PROVE Late(h, i)'
  <2>1. g # h /\ handler'[h] = handler[h]
    BY <1>11, Zenon DEF ServeEnds, Set, NewHandler
  <2>2. handler[h].at = "storage" /\ i \in CountedPeaks /\ i \notin handler[h].desired
    BY <1>11, <2>1, Zenon DEF ServeEnds, CountedPeaks
  <2>3. CASE handler[h].snap.age > MaxAge
    BY <2>1, <2>3, Zenon
  <2>4. CASE ~(handler[h].snap.age > MaxAge)
    <3>1. PICK h2 \in Handlers : BegunSince(h2, i, handler[h].snap.age)
      BY <1>0, <2>2, <2>4, Zenon
    <3>2. h2 = g
      BY <1>11, <3>1, Zenon DEF ServeEnds, BegunSince, LeaseInv
    <3>3. handler[g].age >= MinStart
      BY <1>11, <3>1, <3>2, Zenon DEF ServeEnds, BegunSince, CountedPeaks
    <3>4. handler[g].age \in Nat /\ handler[g].age <= handler[h].snap.age
      BY <3>1, <3>2, Zenon DEF BegunSince, Request
    <3> QED
      BY <1>0, <2>2, <2>4, <3>3, <3>4, AdmissionAssumption, SMT, SMTT(30)
  <2> QED
    BY <2>3, <2>4, Zenon
<1>12. ASSUME NEW j \in Models, StopWanted(j) \/ Freed(j) \/ Restore(j) PROVE Late(h, i)'
  BY <1>0, <1>12, Zenon DEF StopWanted, Freed, Restore, CountedPeaks, BegunSince
<1>13. CASE UNCHANGED admissionVars
  BY <1>0, <1>13, Zenon DEF admissionVars, CountedPeaks, BegunSince
<1> QED
  BY <1>1, <1>2, <1>3, <1>4, <1>5, <1>6, <1>7, <1>8, <1>9, <1>10, <1>11, <1>12, <1>13, ZenonT(40)
     DEF AdmissionNext

(* An instance is admitted on envelopes that are still those that count,    *)
(* and while it holds the lease nothing is added to them.                   *)
LEMMA RoomInvStep ==
  ASSUME AdmissionInv, [AdmissionNext]_admissionVars
  PROVE  RoomInv' /\ OvercommitNeedsCancel'
<1> USE DEF AdmissionInv, AdmissionTypes
<1>0. wanted' \in SUBSET Models /\ CountedPeaks \in SUBSET Models /\ CountedPeaks' \in SUBSET Models
  BY AdmissionTypesStep, Zenon DEF CountedPeaks
<1>1. ASSUME CountedPeaks' \subseteq CountedPeaks,
             \A h \in Handlers : handler'[h].at = "lease" =>
                handler[h].at = "lease" /\ handler'[h].inst = handler[h].inst
      PROVE  RoomInv' /\ OvercommitNeedsCancel'
  <2>1. Bytes(CountedPeaks') <= Capacity
    BY <1>0, <1>1, LessFits, Zenon DEF OvercommitNeedsCancel, CountedPeaks
  <2>2. ASSUME NEW h \in Handlers, handler'[h].at = "lease"
        PROVE  Bytes(CountedPeaks' \cup {handler'[h].inst}) <= Capacity
    <3>1. handler[h].at = "lease" /\ handler'[h].inst = handler[h].inst
      BY <1>1, <2>2, Zenon
    <3>2. handler[h].inst \in Models
      BY <3>1, Zenon DEF Request
    <3>3. Bytes(CountedPeaks \cup {handler[h].inst}) <= Capacity
      BY <3>1, Zenon DEF RoomInv
    <3>4. CountedPeaks' \cup {handler[h].inst} \in SUBSET (CountedPeaks \cup {handler[h].inst})
      BY <1>1, Zenon
    <3>5. CountedPeaks \cup {handler[h].inst} \in SUBSET Models
      BY <1>0, <3>2, Zenon
    <3>6. Bytes(CountedPeaks' \cup {handler[h].inst}) <= Capacity
      BY <3>3, <3>4, <3>5, LessFits, Zenon
    <3> QED
      BY <3>1, <3>6, Zenon
  <2>3. Capacity' = Capacity
    BY Zenon DEF Capacity
  <2> QED
    BY <2>1, <2>2, <2>3, Zenon DEF RoomInv, OvercommitNeedsCancel, CountedPeaks
<1>2. CASE Tick
  BY <1>1, <1>2, TickAges, Zenon DEF Tick, CountedPeaks
<1>3. CASE TakeSample
  BY <1>1, <1>3, Zenon DEF TakeSample, CountedPeaks
<1>4. CASE AgentDies
  BY <1>1, <1>4, Zenon DEF AgentDies, NewHandler, CountedPeaks
<1>5. ASSUME NEW h \in Handlers, NEW i \in Models, ReadSnapshot(h, i)
      PROVE  RoomInv' /\ OvercommitNeedsCancel'
  BY <1>1, <1>5, Zenon DEF ReadSnapshot, Set, CountedPeaks
<1>6. ASSUME NEW h \in Handlers, ReadDesired(h) PROVE RoomInv' /\ OvercommitNeedsCancel'
  BY <1>1, <1>6, Zenon DEF ReadDesired, Set, CountedPeaks
<1>7. ASSUME NEW h \in Handlers, Decide(h) PROVE RoomInv' /\ OvercommitNeedsCancel'
  <2>1. CASE handler' = [handler EXCEPT ![h] = NewHandler]
    BY <1>1, <1>7, <2>1, Zenon DEF Decide, NewHandler, CountedPeaks
  <2>2. CASE /\ Admitted(handler[h]) /\ holder = Nobody
             /\ Set(h, [at |-> "lease", inst |-> handler[h].inst, cancelled |-> FALSE])
    <3>1. /\ handler[h] \in [at : {"storage"}, inst : Models, snap : Reading,
                             desired : SUBSET Models]
          /\ CountedPeaks' = CountedPeaks
      BY <1>7, Zenon DEF Decide, CountedPeaks, Request
    <3>2. \A g \in Handlers : handler[g].at \notin {"lease", "starting"}
      BY <2>2, AdmissionAssumption, Zenon DEF LeaseInv
    <3>3. handler[h].snap.age \in Nat /\ handler[h].snap.age <= MaxAge
      BY <2>2, <3>1, Zenon DEF Admitted, Reading
    <3>4. CountedPeaks \subseteq handler[h].desired
      BY <3>1, <3>2, <3>3, AdmissionAssumption, SMT, SMTT(30) DEF ReadInv, BegunSince
    <3>5. Bytes(handler[h].desired \cup {handler[h].inst}) <= Capacity
      BY <2>2, Zenon DEF Admitted
    <3>6. Bytes(CountedPeaks \cup {handler[h].inst}) <= Capacity
      <4>1. CountedPeaks \cup {handler[h].inst} \in SUBSET (handler[h].desired \cup {handler[h].inst})
        BY <3>4, Zenon
      <4>2. handler[h].desired \cup {handler[h].inst} \in SUBSET Models
        BY <3>1, Zenon
      <4> QED
        BY <3>5, <4>1, <4>2, LessFits, Zenon
    <3>7. handler'[h].inst = handler[h].inst
          /\ \A g \in Handlers : g # h => handler'[g] = handler[g]
      BY <2>2, Zenon DEF Set
    <3>8. RoomInv'
      <4> SUFFICES ASSUME NEW g \in Handlers, handler'[g].at = "lease"
                   PROVE  Bytes(CountedPeaks' \cup {handler'[g].inst}) <= Capacity
        BY Zenon  DEF RoomInv
      <4>1. g = h
        BY <3>2, <3>7, Zenon
      <4> QED
        BY <3>1, <3>6, <3>7, <4>1, Zenon
    <3>9. OvercommitNeedsCancel'
      BY <1>7, Zenon DEF Decide, OvercommitNeedsCancel, Capacity
    <3> QED
      BY <3>8, <3>9, Zenon
  <2> QED
    BY <1>7, <2>1, <2>2, Zenon DEF Decide, Set
<1>8. ASSUME NEW h \in Handlers, CancelServe(h) PROVE RoomInv' /\ OvercommitNeedsCancel'
  <2>1. handler[h] \in [at : {"lease"}, inst : Models, cancelled : BOOLEAN]
        \/ handler[h] \in [at : {"starting"}, inst : Models, age : Nat, cancelled : BOOLEAN]
    BY <1>8, Zenon DEF CancelServe, Request
  <2>2. handler'[h].at = handler[h].at /\ handler'[h].inst = handler[h].inst
    BY <1>8, <2>1, Zenon DEF CancelServe, Set
  <2> QED
    BY <1>1, <1>8, <2>2, Zenon DEF CancelServe, Set, CountedPeaks
<1>9. ASSUME NEW h \in Handlers, BeginServe(h) PROVE RoomInv' /\ OvercommitNeedsCancel'
  <2>1. handler'[h].at # "lease" /\ handler[h].at = "lease"
    BY <1>9, SMT, SMTT(30) DEF BeginServe, Set, NewHandler
  <2>2. handler[h].inst \in Models
    BY <2>1, Zenon DEF Request
  <2>3. \A g \in Handlers : handler'[g].at # "lease"
    BY <1>9, <2>1, Zenon DEF BeginServe, Set, LeaseInv
  <2>4. CountedPeaks' \in SUBSET (CountedPeaks \cup {handler[h].inst})
    BY <1>9, Zenon DEF BeginServe, CountedPeaks
  <2>5. CountedPeaks \cup {handler[h].inst} \in SUBSET Models
    BY <1>0, <2>2, Zenon
  <2>6. Bytes(CountedPeaks \cup {handler[h].inst}) <= Capacity
    BY <2>1, Zenon DEF RoomInv
  <2>7. Bytes(CountedPeaks') <= Capacity
    BY <2>4, <2>5, <2>6, LessFits, Zenon
  <2> QED
    BY <2>3, <2>7, Zenon DEF RoomInv, OvercommitNeedsCancel, CountedPeaks, Capacity
<1>10. ASSUME NEW h \in Handlers, ServeReturns(h) PROVE RoomInv' /\ OvercommitNeedsCancel'
  BY <1>1, <1>10, Zenon DEF ServeReturns, Set, NewHandler, CountedPeaks
<1>11. ASSUME NEW h \in Handlers, Loads(h) PROVE RoomInv' /\ OvercommitNeedsCancel'
  BY <1>1, <1>11, Zenon DEF Loads, CountedPeaks
<1>12. ASSUME NEW h \in Handlers, ServeEnds(h) PROVE RoomInv' /\ OvercommitNeedsCancel'
  BY <1>1, <1>12, Zenon DEF ServeEnds, Set, NewHandler, CountedPeaks
<1>13. ASSUME NEW i \in Models, StopWanted(i) \/ Freed(i) \/ Restore(i)
       PROVE  RoomInv' /\ OvercommitNeedsCancel'
  BY <1>1, <1>13, Zenon DEF StopWanted, Freed, Restore, CountedPeaks
<1>14. CASE UNCHANGED admissionVars
  BY <1>1, <1>14, Zenon DEF admissionVars, CountedPeaks
<1> QED
  BY <1>2, <1>3, <1>4, <1>5, <1>6, <1>7, <1>8, <1>9, <1>10, <1>11, <1>12, <1>13, <1>14, ZenonT(40)
     DEF AdmissionNext

(* The cold start peaks of the instances that shall run never add up to     *)
(* more than the memory without the reserve, whatever the number of         *)
(* requests and of instances and whatever order their steps take, but for   *)
(* the instances of cancelled serves: evaluate_admission on envelopes read  *)
(* before the lease is sound because a snapshot is refused before any       *)
(* engine could have started since.                                         *)
THEOREM AlwaysFits == AdmissionSpec => []OvercommitNeedsCancel
<1>1. AdmissionInit => AdmissionInv
  <2> SUFFICES ASSUME AdmissionInit PROVE AdmissionInv
    BY Zenon
  <2>1. AdmissionTypes
    BY AdmissionAssumption, SMT, SMTT(30) DEF AdmissionInit, AdmissionTypes, Reading, Request, NewHandler
  <2>2. LeaseInv /\ ReadInv /\ RoomInv
    BY Zenon DEF AdmissionInit, LeaseInv, ReadInv, RoomInv, NewHandler
  <2>3. Capacity \in Nat
    BY AdmissionAssumption, SMT, SMTT(30) DEF Capacity
  <2>4. Bytes(wanted \ orphaned) = 0
    <3>1. wanted \ orphaned = {}
      BY Zenon DEF AdmissionInit
    <3> QED
      BY <3>1, NoBytes, Zenon
  <2> QED
    BY <2>1, <2>2, <2>3, <2>4, SMT, SMTT(30) DEF AdmissionInv, OvercommitNeedsCancel
<1>2. AdmissionInv /\ [AdmissionNext]_admissionVars => AdmissionInv'
  BY AdmissionTypesStep, LeaseInvStep, ReadInvStep, RoomInvStep, Zenon DEF AdmissionInv
<1>3. AdmissionInv => OvercommitNeedsCancel
  BY Zenon DEF AdmissionInv
<1> QED
  BY <1>1, <1>2, <1>3, PTL DEF AdmissionSpec

-----------------------------------------------------------------------------
(* The model cache.                                                         *)

RemovalPlans == [at: {"planned", "deleted"}, model: ModelIds, blobs: SUBSET Blobs]
DownloadTasks ==
  [at: {"new", "queued", "resolving", "transfer", "verify", "promote", "over"}, attempt: 0 .. 2]

CacheTypes ==
  /\ blob \in [Blobs -> {"none", "partial", "bad", "whole"}]
  /\ pointers \in [Commits -> SUBSET Blobs]
  /\ models \subseteq ModelIds
  /\ download \in [Downloads -> DownloadTasks]
  /\ removal \in [Removals -> {NoRemoval} \union RemovalPlans]

Stored == {b \in Blobs : blob[b] # "none"}
Untouched(m) == (BlobsOf[m] \union {CommitOf[m]}) \intersect wiped = {}

\* A verified download owes a row, which it writes whatever else happens.
Promised(m) == m \in models \/ \E d \in Downloads : download[d].at = "promote" /\ Wants[d] = m
WholeInv == \A m \in ModelIds : Promised(m) /\ Untouched(m) => SnapshotIsWhole(m)

Allocates(d) == download[d].at \in {"transfer", "verify"}
SlotInv == \A d, e \in Downloads : HoldsSlot(d) /\ HoldsSlot(e) => d = e

\* What is stored and what the transfer may still allocate leave the reserve.
SpaceInv ==
  \A d \in Downloads : Allocates(d) =>
    Cardinality(Stored \union BlobsOf[Wants[d]]) + DiskReserve <= DiskBlobs

(* Names and blobs of a model are among the cache's.                        *)
LEMMA ModelNames ==
  /\ \A m \in ModelIds : CommitOf[m] \in Commits /\ BlobsOf[m] \subseteq Blobs
  /\ \A d \in Downloads : Wants[d] \in ModelIds
BY ModelCacheAssumption, Zenon DEF Commits, Blobs

(* Every step changes one kind of state.                                    *)
LEMMA CacheTypesStep == CacheTypes /\ [ModelCacheNext]_modelVars => CacheTypes'
<1> SUFFICES ASSUME CacheTypes, [ModelCacheNext]_modelVars PROVE CacheTypes'
  BY Zenon
<1> USE DEF CacheTypes
<1>0. CASE UNCHANGED modelVars
  BY <1>0, Zenon DEF modelVars
<1>1. ASSUME NEW d \in Downloads, NEW at \in {"queued", "resolving", "verify", "promote", "over"},
             Moves(d, at)
      PROVE  download' \in [Downloads -> DownloadTasks]
  BY <1>1, Zenon DEF Moves, DownloadTasks
<1>2. ASSUME NEW d \in Downloads, NEW n \in {1, 2},
             \/ download' = [download EXCEPT ![d] = [at |-> "transfer", attempt |-> n]]
             \/ download' = [download EXCEPT ![d].attempt = n]
      PROVE  download' \in [Downloads -> DownloadTasks]
  BY <1>2, SMT, SMTT(30) DEF DownloadTasks
<1>3. ASSUME NEW d \in Downloads,
             \/ AcceptDownload(d) \/ CancelDownload(d) \/ TakeDownloadSlot(d) \/ ResolveDownload(d)
             \/ TransferFails(d) \/ TransferEnds(d) \/ VerifyTransfer(d) \/ PollCancelled(d)
      PROVE  CacheTypes'
  <2>1. CacheUnchanged
    BY <1>3, Zenon DEF AcceptDownload, CancelDownload, TakeDownloadSlot, ResolveDownload, TransferFails,
         TransferEnds, VerifyTransfer, PollCancelled
  <2>2. \/ UNCHANGED download
        \/ \E at \in {"queued", "resolving", "verify", "promote", "over"} : Moves(d, at)
        \/ \E n \in {1, 2} : \/ download' = [download EXCEPT ![d] = [at |-> "transfer", attempt |-> n]]
                             \/ download' = [download EXCEPT ![d].attempt = n]
    BY <1>3, Zenon DEF AcceptDownload, CancelDownload, TakeDownloadSlot, ResolveDownload, TransferFails,
         TransferEnds, VerifyTransfer, PollCancelled
  <2>3. download' \in [Downloads -> DownloadTasks]
    BY <1>1, <1>2, <2>2, Zenon
  <2> QED
    BY <2>1, <2>3, Zenon DEF CacheUnchanged
<1>4. ASSUME NEW d \in Downloads, TransferBlob(d) PROVE CacheTypes'
  <2>1. CommitOf[Wants[d]] \in Commits /\ BlobsOf[Wants[d]] \subseteq Blobs
    BY ModelNames, Zenon
  <2> QED
    BY <1>4, <2>1, ZenonT(40) DEF TransferBlob
<1>5. ASSUME NEW d \in Downloads, PromoteModel(d) PROVE CacheTypes'
  BY <1>1, <1>5, ModelNames, Zenon DEF PromoteModel
<1>6. ASSUME NEW m \in ModelIds, ServeModel(m) \/ StopModel(m) PROVE CacheTypes'
  BY <1>6, Zenon DEF ServeModel, StopModel
<1>7. ASSUME NEW m \in ModelIds, NEW r \in Removals, PlanRemoval(r, m) PROVE CacheTypes'
  <2>1. Removable(m) \subseteq Blobs
    BY ModelNames, Zenon DEF Removable
  <2> QED
    BY <1>7, <2>1, Zenon DEF PlanRemoval, RemovalPlans
<1>8. ASSUME NEW r \in Removals, ExecuteRemoval(r) PROVE CacheTypes'
  <2>1. removal[r] \in RemovalPlans /\ removal[r].model \in ModelIds
    BY <1>8, SMT, SMTT(30) DEF ExecuteRemoval, NoRemoval, RemovalPlans
  <2>2. CommitOf[removal[r].model] \in Commits
    BY <2>1, ModelNames, Zenon
  <2>3. /\ \E gone \in SUBSET Blobs :
             blob' = [b \in Blobs |-> IF b \in gone THEN "none" ELSE blob[b]]
        /\ pointers' \in {pointers, [pointers EXCEPT ![CommitOf[removal[r].model]] = {}]}
        /\ removal' \in {[removal EXCEPT ![r].at = "deleted"], [removal EXCEPT ![r] = NoRemoval]}
        /\ UNCHANGED <<models, download>>
    BY <1>8, <2>1, Zenon DEF ExecuteRemoval, RemovalPlans
  <2>4. removal' \in [Removals -> {NoRemoval} \union RemovalPlans]
    BY <2>1, <2>3, SMT, SMTT(30) DEF RemovalPlans
  <2> QED
    BY <2>2, <2>3, <2>4, Zenon
<1>9. ASSUME NEW r \in Removals, RemoveRow(r) PROVE CacheTypes'
  BY <1>9, Zenon DEF RemoveRow
<1> QED
  BY <1>0, <1>3, <1>4, <1>5, <1>6, <1>7, <1>8, <1>9, ZenonT(40) DEF ModelCacheNext

(* What a step must keep for the promised models to stay whole.             *)
LEMMA WholeKept ==
  ASSUME CacheTypes, WholeInv, wiped \subseteq wiped',
         \A m \in ModelIds : Promised(m)' => Promised(m) \/ SnapshotIsWhole(m),
         \A b \in Blobs : blob[b] = "whole" => blob'[b] = "whole" \/ b \in wiped',
         \A c \in Commits : pointers[c] \subseteq pointers'[c] \/ c \in wiped'
  PROVE  WholeInv'
<1> SUFFICES ASSUME NEW m \in ModelIds, Promised(m)', Untouched(m)' PROVE SnapshotIsWhole(m)'
  BY Zenon  DEF WholeInv
<1>1. CommitOf[m] \in Commits /\ BlobsOf[m] \subseteq Blobs
  BY ModelNames, Zenon
<1>2. Untouched(m) /\ CommitOf[m] \notin wiped' /\ \A b \in BlobsOf[m] : b \notin wiped'
  BY Zenon  DEF Untouched
<1>3. SnapshotIsWhole(m)
  BY <1>2, Zenon DEF WholeInv
<1> QED
  BY <1>1, <1>2, <1>3, Zenon DEF SnapshotIsWhole

(* Every step of downloads and removals leaves the promised snapshots whole.*)
LEMMA WholeStep == CacheTypes /\ WholeInv /\ [ModelCacheNext]_modelVars => WholeInv'
<1> SUFFICES ASSUME CacheTypes, WholeInv, [ModelCacheNext]_modelVars PROVE WholeInv'
  BY Zenon
<1>0. CASE UNCHANGED modelVars
  BY <1>0, Zenon DEF modelVars, WholeInv, Promised, Untouched, SnapshotIsWhole
<1>1. ASSUME NEW d \in Downloads,
             \/ AcceptDownload(d) \/ CancelDownload(d) \/ TakeDownloadSlot(d) \/ ResolveDownload(d)
             \/ TransferFails(d) \/ TransferEnds(d) \/ PollCancelled(d)
      PROVE  WholeInv'
  <2>1. CacheUnchanged
    BY <1>1, Zenon DEF AcceptDownload, CancelDownload, TakeDownloadSlot, ResolveDownload, TransferFails,
         TransferEnds, PollCancelled
  <2>2. \A e \in Downloads : download'[e].at = "promote" => download[e].at = "promote"
    BY <1>1, SMT, SMTT(30) DEF AcceptDownload, CancelDownload, TakeDownloadSlot, ResolveDownload, TransferFails,
         TransferEnds, PollCancelled, Moves, CacheTypes, DownloadTasks
  <2>3. \A m \in ModelIds : Promised(m)' => Promised(m)
    BY <2>1, <2>2, Zenon DEF Promised, CacheUnchanged
  <2> QED
    BY <2>1, <2>3, WholeKept, Zenon DEF CacheUnchanged
<1>2. ASSUME NEW d \in Downloads, TransferBlob(d) PROVE WholeInv'
  <2>1. UNCHANGED <<models, download, wiped>>
    BY <1>2, Zenon DEF TransferBlob
  <2>2. CommitOf[Wants[d]] \in Commits /\ BlobsOf[Wants[d]] \subseteq Blobs
    BY ModelNames, Zenon
  <2>3. \A b \in Blobs : blob[b] = "whole" => blob'[b] = "whole"
    BY <1>2, <2>2, Zenon DEF TransferBlob, CacheTypes
  <2>4. \A c \in Commits : pointers[c] \subseteq pointers'[c]
    BY <1>2, <2>2, ZenonT(40) DEF TransferBlob, CacheTypes
  <2>5. \A m \in ModelIds : Promised(m)' => Promised(m)
    BY <2>1, Zenon DEF Promised
  <2> QED
    BY <2>1, <2>3, <2>4, <2>5, WholeKept, Zenon
<1>3. ASSUME NEW d \in Downloads, VerifyTransfer(d) PROVE WholeInv'
  <2>1. CacheUnchanged
    BY <1>3, Zenon DEF VerifyTransfer
  <2>2. \A e \in Downloads : download'[e].at = "promote" =>
          download[e].at = "promote" \/ (e = d /\ SnapshotVerifies(Wants[d]))
    BY <1>3, SMT, SMTT(30) DEF VerifyTransfer, Moves, CacheTypes, DownloadTasks
  <2>3. SnapshotVerifies(Wants[d]) => SnapshotIsWhole(Wants[d])
    BY Zenon  DEF SnapshotVerifies, SnapshotIsWhole
  <2>4. \A m \in ModelIds : Promised(m)' => Promised(m) \/ SnapshotIsWhole(m)
    BY <2>1, <2>2, <2>3, Zenon DEF Promised, CacheUnchanged
  <2> QED
    BY <2>1, <2>4, WholeKept, Zenon DEF CacheUnchanged
<1>4. ASSUME NEW d \in Downloads, PromoteModel(d) PROVE WholeInv'
  <2>1. \A m \in ModelIds : Promised(m)' => Promised(m)
    <3>1. download[d].at = "promote" /\ models' \subseteq models \union {Wants[d]}
      BY <1>4, Zenon DEF PromoteModel
    <3>2. \A e \in Downloads : download'[e].at = "promote" => download[e].at = "promote"
      BY <1>4, Zenon DEF PromoteModel, Moves, CacheTypes, DownloadTasks
    <3> QED
      BY <3>1, <3>2, Zenon DEF Promised
  <2> QED
    BY <1>4, <2>1, WholeKept, Zenon DEF PromoteModel
<1>5. ASSUME NEW m \in ModelIds,
             ServeModel(m) \/ StopModel(m) \/ \E r \in Removals : PlanRemoval(r, m)
      PROVE  WholeInv'
  BY <1>5, ZenonT(40) DEF ServeModel, StopModel, PlanRemoval, WholeInv, Promised, Untouched, SnapshotIsWhole
<1>6. ASSUME NEW r \in Removals, ExecuteRemoval(r) PROVE WholeInv'
  <2>1. PICK gone \in SUBSET Blobs :
          /\ blob' = [b \in Blobs |-> IF b \in gone THEN "none" ELSE blob[b]]
          /\ \/ /\ pointers' = [pointers EXCEPT ![CommitOf[removal[r].model]] = {}]
                /\ wiped' = wiped \union gone \union {CommitOf[removal[r].model]}
             \/ UNCHANGED pointers /\ wiped' = wiped \union gone
          /\ UNCHANGED <<models, download>>
    <3>1. removal[r].blobs \subseteq Blobs
      BY <1>6, SMT, SMTT(30) DEF ExecuteRemoval, CacheTypes, NoRemoval, RemovalPlans
    <3> QED
      BY <1>6, <3>1, Zenon DEF ExecuteRemoval
  <2>2. \A b \in Blobs : blob[b] = "whole" => blob'[b] = "whole" \/ b \in wiped'
    BY <2>1, Zenon
  <2>3. \A c \in Commits : pointers[c] \subseteq pointers'[c] \/ c \in wiped'
    BY <2>1, Zenon DEF CacheTypes
  <2>4. \A m \in ModelIds : Promised(m)' => Promised(m)
    BY <2>1, Zenon DEF Promised
  <2> QED
    BY <2>1, <2>2, <2>3, <2>4, WholeKept, Zenon
<1>7. ASSUME NEW r \in Removals, RemoveRow(r) PROVE WholeInv'
  <2>1. models' \subseteq models /\ UNCHANGED <<blob, pointers, download, wiped>>
    BY <1>7, Zenon DEF RemoveRow
  <2>2. \A m \in ModelIds : Promised(m)' => Promised(m)
    BY <2>1, Zenon DEF Promised
  <2> QED
    BY <2>1, <2>2, WholeKept, Zenon
<1> QED
  BY <1>0, <1>1, <1>2, <1>3, <1>4, <1>5, <1>6, <1>7, ZenonT(40) DEF ModelCacheNext

(* An empty cache promises nothing.                                         *)
LEMMA CacheInit == ModelCacheInit => CacheTypes /\ WholeInv
<1> SUFFICES ASSUME ModelCacheInit PROVE CacheTypes /\ WholeInv
  BY Zenon
<1>1. CacheTypes
  BY SMT, SMTT(30)  DEF ModelCacheInit, CacheTypes, DownloadTasks, NoDownload
<1>2. WholeInv
  BY Zenon DEF ModelCacheInit, WholeInv, Promised, NoDownload
<1> QED
  BY <1>1, <1>2, Zenon

(* For any models, shared blobs and number of download slots: a model with  *)
(* a row has every file, whole, unless a removal deleted from it (acquire,  *)
(* verify_snapshot, promote_model).                                         *)
THEOREM PromotedAlwaysWhole == ModelCacheSpec => []PromotedModelIsWhole
<1>1. CacheTypes /\ WholeInv => PromotedModelIsWhole
  BY Zenon  DEF CacheTypes, WholeInv, Promised, Untouched, PromotedModelIsWhole
<1> QED
  BY <1>1, CacheInit, CacheTypesStep, WholeStep, PTL DEF ModelCacheSpec

(* With one slot a second download waits in TakeDownloadSlot.               *)
LEMMA SlotStep ==
  ASSUME DownloadSlots = 1, CacheTypes, SlotInv, [ModelCacheNext]_modelVars
  PROVE  SlotInv'
<1>1. CASE \A d \in Downloads : HoldsSlot(d)' => HoldsSlot(d)
  BY <1>1, Zenon DEF SlotInv
<1>2. ASSUME NEW d \in Downloads, TakeDownloadSlot(d) PROVE SlotInv'
  <2> DEFINE holding == {e \in Downloads : HoldsSlot(e)}
  <2>1. IsFiniteSet(holding) /\ Cardinality(holding) \in Nat /\ Cardinality(holding) < 1
    BY <1>2, ModelCacheAssumption, FS_Subset, FS_CardinalityType, Zenon DEF TakeDownloadSlot
  <2>2. Cardinality(holding) = 0
    BY <2>1, SMT, SMTT(30)
  <2>3. holding = {}
    BY <2>1, <2>2, FS_EmptySet, Zenon
  <2>4. \A e \in Downloads : HoldsSlot(e)' => e = d
    BY <1>2, <2>3, Zenon DEF TakeDownloadSlot, Moves, HoldsSlot, CacheTypes
  <2> QED
    BY <2>4, Zenon DEF SlotInv
<1>3. CASE UNCHANGED download
  BY <1>3, Zenon DEF SlotInv, HoldsSlot
<1>4. ASSUME NEW d \in Downloads,
             \/ AcceptDownload(d) \/ ResolveDownload(d) \/ TransferFails(d) \/ TransferEnds(d)
             \/ VerifyTransfer(d) \/ PollCancelled(d) \/ PromoteModel(d)
      PROVE  SlotInv'
  <2>1. \A e \in Downloads : HoldsSlot(e)' => HoldsSlot(e)
    BY <1>4, ZenonT(40) DEF AcceptDownload, ResolveDownload, TransferFails, TransferEnds, VerifyTransfer,
         PollCancelled, PromoteModel, Moves, HoldsSlot, CacheTypes, DownloadTasks
  <2> QED
    BY <1>1, <2>1, Zenon
<1> QED
  BY <1>2, <1>3, <1>4, ZenonT(40) DEF ModelCacheNext, modelVars, CancelDownload, TransferBlob, ServeModel,
     StopModel, PlanRemoval, ExecuteRemoval, RemoveRow

(* Sets of blobs are finite, and a smaller one takes no more room.          *)
LEMMA RoomOf ==
  ASSUME NEW S \in SUBSET Blobs, NEW T \in SUBSET S
  PROVE  /\ IsFiniteSet(S) /\ Cardinality(S) \in Nat
         /\ Cardinality(T) \in Nat /\ Cardinality(T) <= Cardinality(S)
<1>1. IsFiniteSet(S)
  BY ModelCacheAssumption, FS_Subset, Zenon
<1> QED
  BY <1>1, FS_Subset, FS_CardinalityType, Zenon

(* What a step must keep for the reserve to stay free.                      *)
LEMMA SpaceKept ==
  ASSUME SpaceInv, DiskReserveKept,
         \/ Stored' \subseteq Stored
         \/ \E d \in Downloads : Allocates(d) /\ Stored' \subseteq Stored \union BlobsOf[Wants[d]],
         \A d \in Downloads : Allocates(d)' =>
           /\ Allocates(d)
           /\ Stored' \union BlobsOf[Wants[d]] \subseteq Stored \union BlobsOf[Wants[d]]
  PROVE  SpaceInv' /\ DiskReserveKept'
<1>0. /\ Stored \subseteq Blobs /\ Stored' \subseteq Blobs
      /\ DiskBlobs \in Nat /\ DiskReserve \in Nat
      /\ \A d \in Downloads : BlobsOf[Wants[d]] \subseteq Blobs
  BY ModelNames, ModelCacheAssumption, Zenon DEF Stored
<1>1. ASSUME NEW d \in Downloads, Allocates(d)'
      PROVE  Cardinality(Stored' \union BlobsOf[Wants[d]]) + DiskReserve <= DiskBlobs
  <2> DEFINE S == Stored \union BlobsOf[Wants[d]]
             T == Stored' \union BlobsOf[Wants[d]]
  <2>1. S \in SUBSET Blobs /\ T \in SUBSET S /\ Allocates(d)
    BY <1>0, <1>1, Zenon
  <2>2. Cardinality(S) + DiskReserve <= DiskBlobs
    BY <2>1, Zenon DEF SpaceInv
  <2>3. Cardinality(S) \in Nat /\ Cardinality(T) \in Nat /\ Cardinality(T) <= Cardinality(S)
    BY <2>1, RoomOf, Zenon
  <2> HIDE DEF S, T
  <2>4. Cardinality(T) + DiskReserve <= DiskBlobs
    BY <1>0, <2>2, <2>3, SMT, SMTT(30)
  <2> QED
    BY <2>4, Zenon DEF T
<1>2. SpaceInv'
  BY <1>1, Zenon DEF SpaceInv
<1>3. PICK S \in SUBSET Blobs : Stored' \subseteq S /\ Cardinality(S) + DiskReserve <= DiskBlobs
  <2>1. CASE Stored' \subseteq Stored
    <3>1. Cardinality(Stored) \in Nat /\ DiskBlobs - Cardinality(Stored) >= DiskReserve
      BY <1>0, RoomOf, Zenon DEF DiskReserveKept, Used, Stored
    <3> QED
      BY <1>0, <2>1, <3>1, SMT, SMTT(30)
  <2>2. ASSUME NEW d \in Downloads, Allocates(d), Stored' \subseteq Stored \union BlobsOf[Wants[d]]
        PROVE  \E S \in SUBSET Blobs : Stored' \subseteq S /\ Cardinality(S) + DiskReserve <= DiskBlobs
    BY <1>0, <2>2, Zenon DEF SpaceInv
  <2> QED
    BY <2>1, <2>2, Zenon
<1>4. /\ Cardinality(S) \in Nat /\ Cardinality(Stored') \in Nat
      /\ Cardinality(Stored') <= Cardinality(S)
  BY <1>3, RoomOf, Zenon
<1>5. DiskBlobs - Cardinality(Stored') >= DiskReserve
  BY <1>0, <1>3, <1>4, SMT, SMTT(30)
<1> QED
  BY <1>2, <1>5, Zenon DEF DiskReserveKept, Used, Stored

(* Every step of downloads and removals leaves the disk its reserve.        *)
LEMMA SpaceStep ==
  ASSUME CacheTypes, SlotInv, SpaceInv, DiskReserveKept, [ModelCacheNext]_modelVars
  PROVE  SpaceInv' /\ DiskReserveKept'
<1>1. ASSUME Stored' \subseteq Stored, \A d \in Downloads : Allocates(d)' => Allocates(d)
      PROVE  SpaceInv' /\ DiskReserveKept'
  BY <1>1, SpaceKept, Zenon
<1>2. ASSUME UNCHANGED blob PROVE Stored' = Stored
  BY <1>2, Zenon DEF Stored
<1>3. ASSUME UNCHANGED <<blob, download>> PROVE SpaceInv' /\ DiskReserveKept'
  <2>1. \A d \in Downloads : Allocates(d)' => Allocates(d)
    BY <1>3, Zenon DEF Allocates
  <2> QED
    BY <1>1, <1>2, <1>3, <2>1, ZenonT(40)
<1>4. ASSUME NEW d \in Downloads,
             \/ AcceptDownload(d) \/ TakeDownloadSlot(d) \/ TransferFails(d) \/ TransferEnds(d)
             \/ VerifyTransfer(d) \/ PollCancelled(d) \/ PromoteModel(d)
      PROVE  SpaceInv' /\ DiskReserveKept'
  <2>1. UNCHANGED blob
    BY <1>4, Zenon DEF AcceptDownload, TakeDownloadSlot, TransferFails, TransferEnds, VerifyTransfer,
         PollCancelled, PromoteModel, CacheUnchanged
  <2>2. \A e \in Downloads : Allocates(e)' => Allocates(e)
    BY <1>4, ZenonT(40) DEF AcceptDownload, TakeDownloadSlot, TransferFails, TransferEnds, VerifyTransfer,
         PollCancelled, PromoteModel, Moves, Allocates, CacheTypes, DownloadTasks
  <2> QED
    BY <1>1, <1>2, <2>1, <2>2, ZenonT(40)
<1>5. ASSUME NEW d \in Downloads, ResolveDownload(d) PROVE SpaceInv' /\ DiskReserveKept'
  <2>1. UNCHANGED blob
    BY <1>5, Zenon DEF ResolveDownload, CacheUnchanged
  <2>2. \A e \in Downloads : Allocates(e)' => Allocates(e) \/ (e = d /\ FitsReserve(Wants[d]))
    BY <1>5, ZenonT(40) DEF ResolveDownload, Moves, Allocates, CacheTypes, DownloadTasks
  <2>3. ASSUME FitsReserve(Wants[d])
        PROVE  Cardinality(Stored \union BlobsOf[Wants[d]]) + DiskReserve <= DiskBlobs
    <3> DEFINE missing == {b \in BlobsOf[Wants[d]] : blob[b] = "none"}
    <3>1. /\ BlobsOf[Wants[d]] \subseteq Blobs /\ Stored \subseteq Blobs
          /\ Stored \intersect missing = {}
          /\ Stored \union missing = Stored \union BlobsOf[Wants[d]]
      BY ModelNames, Zenon DEF Stored
    <3>2. IsFiniteSet(Stored) /\ IsFiniteSet(missing)
      BY <3>1, RoomOf, Zenon
    <3>3. DiskBlobs - Cardinality(Stored) >= Cardinality(missing) + DiskReserve
      BY <2>3, Zenon DEF FitsReserve, Used, Stored
    <3> HIDE DEF missing
    <3>4. /\ Cardinality(Stored \union missing) =
               Cardinality(Stored) + Cardinality(missing) - Cardinality(Stored \intersect missing)
          /\ Cardinality(Stored) \in Nat /\ Cardinality(missing) \in Nat
      BY <3>2, FS_Union, FS_CardinalityType, Zenon
    <3>5. Cardinality(Stored \intersect missing) = 0
      BY <3>1, FS_EmptySet, Zenon
    <3>6. Cardinality(Stored \union missing) + DiskReserve <= DiskBlobs
      BY <3>3, <3>4, <3>5, ModelCacheAssumption, SMT, SMTT(30)
    <3> QED
      BY <3>1, <3>6, Zenon
  <2>4. SpaceInv'
    BY <1>2, <2>1, <2>2, <2>3, ZenonT(40) DEF SpaceInv
  <2> QED
    BY <2>1, <2>4, Zenon DEF DiskReserveKept, Used
<1>6. ASSUME NEW d \in Downloads, TransferBlob(d) PROVE SpaceInv' /\ DiskReserveKept'
  <2>1. Allocates(d) /\ HoldsSlot(d) /\ UNCHANGED download
    BY <1>6, Zenon DEF TransferBlob, Allocates, HoldsSlot
  <2>2. Stored' \subseteq Stored \union BlobsOf[Wants[d]]
    BY <1>6, Zenon DEF TransferBlob, Stored, CacheTypes
  <2>3. \A e \in Downloads : Allocates(e)' => Allocates(e) /\ e = d
    BY <2>1, Zenon DEF Allocates, HoldsSlot, SlotInv
  <2> QED
    BY <2>1, <2>2, <2>3, SpaceKept, ZenonT(40)
<1>7. ASSUME NEW r \in Removals, ExecuteRemoval(r) PROVE SpaceInv' /\ DiskReserveKept'
  <2>1. UNCHANGED download /\ \E gone : blob' = [b \in Blobs |-> IF b \in gone THEN "none" ELSE blob[b]]
    BY <1>7, Zenon DEF ExecuteRemoval
  <2>2. Stored' \subseteq Stored /\ \A d \in Downloads : Allocates(d)' => Allocates(d)
    BY <2>1, Zenon DEF Stored, Allocates
  <2> QED
    BY <1>1, <2>2, Zenon
<1>8. CASE UNCHANGED modelVars
  BY <1>3, <1>8, Zenon DEF modelVars
<1>9. ASSUME \/ \E d \in Downloads : CancelDownload(d)
             \/ \E m \in ModelIds : \/ ServeModel(m) \/ StopModel(m)
                                    \/ \E r \in Removals : PlanRemoval(r, m)
             \/ \E r \in Removals : RemoveRow(r)
      PROVE  UNCHANGED <<blob, download>>
  BY <1>9, Zenon DEF CancelDownload, CacheUnchanged, ServeModel, StopModel, PlanRemoval, RemoveRow
<1> QED
  BY <1>3, <1>4, <1>5, <1>6, <1>7, <1>8, <1>9, ZenonT(40) DEF ModelCacheNext

(* With one download slot, which the shipped agent.toml configures, and for *)
(* any models, requests and disk: promoted models are whole, and downloads  *)
(* leave the disk reserve free, although the check is made once, before the *)
(* first of two transfers, and removals delete meanwhile.                   *)
THEOREM CacheAlwaysSound ==
  ASSUME DownloadSlots = 1
  PROVE  ModelCacheSpec => []CacheIsSound
<1> DEFINE Inv == CacheTypes /\ WholeInv /\ SlotInv /\ SpaceInv /\ DiskReserveKept
<1>1. ModelCacheInit => Inv
  <2> SUFFICES ASSUME ModelCacheInit PROVE Inv
    BY Zenon
  <2>1. SlotInv /\ SpaceInv
    BY Zenon  DEF ModelCacheInit, SlotInv, SpaceInv, HoldsSlot, Allocates, NoDownload
  <2>2. {b \in Blobs : blob[b] # "none"} = {}
    BY Zenon DEF ModelCacheInit
  <2>3. Used = 0
    BY <2>2, FS_EmptySet, Zenon DEF Used
  <2>4. DiskReserveKept
    BY <2>3, ModelCacheAssumption, SMT, SMTT(30) DEF DiskReserveKept
  <2> QED
    BY <2>1, <2>4, CacheInit, Zenon
<1>2. Inv /\ [ModelCacheNext]_modelVars => Inv'
  BY CacheTypesStep, WholeStep, SlotStep, SpaceStep, ZenonT(40)
<1>3. Inv => CacheIsSound
  BY Zenon DEF CacheTypes, WholeInv, Promised, Untouched, PromotedModelIsWhole, CacheIsSound
<1> QED
  BY <1>1, <1>2, <1>3, PTL DEF ModelCacheSpec
=============================================================================
