----------------------------- MODULE ModelCache -----------------------------
(***************************************************************************)
(* Acquisition and removal of models in one repository of the native hub   *)
(* cache (model.rs, the download and removal handlers of agent.rs, the     *)
(* model rows of state.rs).  A download waits for a slot, resolves a       *)
(* commit, checks the disk reserve, transfers blob by blob with one        *)
(* classified fallback, verifies the snapshot and promotes a row.  A       *)
(* removal plans from the directory, deletes, and then drops the row.      *)
(*                                                                         *)
(* Blobs are of one size.  Two models may select different files of one    *)
(* commit, and share its snapshot directory; commits share equal blobs.    *)
(* The Hub's library keeps a blob it already has and renames a finished    *)
(* `.incomplete` file: it is modelled from how model.rs reads the cache.   *)
(***************************************************************************)
EXTENDS Integers, FiniteSets, Operations

CONSTANTS
  ModelIds,       \* models: one selection of files of one commit each
  CommitOf,       \* per model, its commit
  BlobsOf,        \* per model, the blobs of its files
  Downloads,      \* download requests
  Wants,          \* per request, the model it asks for
  Removals,       \* removal requests that may be in flight together
  DownloadSlots,  \* operations.max_parallel_downloads
  DiskBlobs,      \* how many blobs the disk holds
  DiskReserve     \* disk_reserve_bytes, in blobs

Blobs == UNION {BlobsOf[m] : m \in ModelIds}
Commits == {CommitOf[m] : m \in ModelIds}

ASSUME ModelCacheAssumption ==
  /\ Wants \in [Downloads -> ModelIds]
  /\ IsFiniteSet(Downloads) /\ IsFiniteSet(Blobs)
  /\ DownloadSlots \in Nat \ {0}
  /\ {DiskBlobs, DiskReserve} \subseteq Nat /\ DiskReserve <= DiskBlobs

VARIABLES
  blob,      \* per blob: none, partial, bad or whole
  pointers,  \* per commit, the blobs its snapshot points at
  models,    \* the models with a row
  inUse,    \* per model: no instance row, or its desired state
  download,  \* per request, where run_download is and its transfer attempt
  opState,   \* per request, its operation
  removal,   \* per removal handler, where it is, its model and its plan
  wiped      \* blobs and commits a removal deleted from (history)

modelVars == <<blob, pointers, models, inUse, download, opState, removal, wiped>>

NoDownload == [at |-> "new", attempt |-> 0]
NoRemoval == [at |-> "none"]
HoldsSlot(d) == download[d].at \in {"resolving", "transfer", "verify", "promote"}
Used == Cardinality({b \in Blobs : blob[b] # "none"})

ModelCacheInit ==
  /\ blob = [b \in Blobs |-> "none"]
  /\ pointers = [c \in Commits |-> {}]
  /\ models = {}
  /\ inUse = [m \in ModelIds |-> "none"]
  /\ download = [d \in Downloads |-> NoDownload]
  /\ opState = [d \in Downloads |-> "none"]
  /\ removal = [r \in Removals |-> NoRemoval]
  /\ wiped = {}

-----------------------------------------------------------------------------
(* Downloads.                                                               *)

Moves(d, at) == download' = [download EXCEPT ![d].at = at]
Records(d, s) == opState' = [opState EXCEPT ![d] = TransitionTo(@, s)]
CacheUnchanged == UNCHANGED <<blob, pointers, models, inUse, removal, wiped>>

\* download_model accepts the operation and spawns the task.
AcceptDownload(d) ==
  /\ download[d].at = "new"
  /\ Moves(d, "queued")
  /\ opState' = [opState EXCEPT ![d] = "accepted"]
  /\ CacheUnchanged

\* cancel_operation only writes the row; the task polls it.
CancelDownload(d) ==
  /\ opState[d] \in Active
  /\ Records(d, "cancelled")
  /\ CacheUnchanged /\ UNCHANGED download

\* A download that does not wait for a slot.
TakeDownloadSlotFreely(d) ==
  /\ download[d].at = "queued"
  /\ Moves(d, "resolving")
  /\ CacheUnchanged /\ UNCHANGED opState

\* run_download waits for its permit and keeps it to its end.
TakeDownloadSlot(d) ==
  /\ download[d].at = "queued"
  /\ Cardinality({e \in Downloads : HoldsSlot(e)}) < DownloadSlots
  /\ Moves(d, "resolving")
  /\ CacheUnchanged /\ UNCHANGED opState

\* enforce_disk_reserve, with what the plan still has to allocate.  The
\* allocation of a partial blob is already gone from the free space.
FitsReserve(m) ==
  DiskBlobs - Used >= Cardinality({b \in BlobsOf[m] : blob[b] = "none"}) + DiskReserve

\* resolve_selected fails, at the Hub or for the reserve, and fail_download
\* writes a failure; or the operation is set running, unless it was cancelled.
ResolveDownload(d) ==
  /\ download[d].at = "resolving"
  /\ \/ Records(d, "failed") /\ Moves(d, "over")
     \/ /\ FitsReserve(Wants[d])
        /\ Records(d, "running")
        /\ IF LegalTransition(opState[d], "running")
           THEN download' = [download EXCEPT ![d] = [at |-> "transfer", attempt |-> 1]]
           ELSE Moves(d, "over")
  /\ CacheUnchanged

\* One step of a transfer: a blob that is missing begins, a partial one goes
\* on to its end, good or bad, and one that is there is pointed at.
TransferBlob(d) ==
  /\ download[d].at = "transfer"
  /\ \E b \in BlobsOf[Wants[d]] :
       \/ /\ blob[b] = "none"
          /\ blob' = [blob EXCEPT ![b] = "partial"] /\ UNCHANGED pointers
       \/ /\ blob[b] = "partial"
          /\ \E s \in {"whole", "bad"} : blob' = [blob EXCEPT ![b] = s]
          /\ UNCHANGED pointers
       \/ /\ blob[b] \in {"whole", "bad"} /\ b \notin pointers[CommitOf[Wants[d]]]
          /\ pointers' = [pointers EXCEPT ![CommitOf[Wants[d]]] = @ \cup {b}]
          /\ UNCHANGED blob
  /\ UNCHANGED <<models, inUse, download, opState, removal, wiped>>

\* should_run_fallback: once, for a classified transport failure.
TransferFails(d) ==
  /\ download[d].at = "transfer"
  /\ \/ /\ download[d].attempt = 1
        /\ download' = [download EXCEPT ![d].attempt = 2] /\ UNCHANGED opState
     \/ Records(d, "failed") /\ Moves(d, "over")
  /\ CacheUnchanged

TransferEnds(d) ==
  /\ download[d].at = "transfer"
  /\ BlobsOf[Wants[d]] \subseteq pointers[CommitOf[Wants[d]]]
  /\ Moves(d, "verify")
  /\ CacheUnchanged /\ UNCHANGED opState

\* verify_snapshot: no incomplete blob in the repository, every file a pointer
\* to a blob of the declared size and digest.
SnapshotVerifies(m) ==
  /\ \A b \in Blobs : blob[b] # "partial"
  /\ BlobsOf[m] \subseteq pointers[CommitOf[m]]
  /\ \A b \in BlobsOf[m] : blob[b] = "whole"

\* A fallback whose snapshot is taken as it comes.
VerifyFirstTransferOnly(d) ==
  /\ download[d].at = "verify"
  /\ \/ /\ SnapshotVerifies(Wants[d]) \/ download[d].attempt = 2
        /\ Moves(d, "promote") /\ UNCHANGED opState
     \/ /\ ~SnapshotVerifies(Wants[d]) /\ download[d].attempt = 1
        /\ download' = [download EXCEPT ![d] = [at |-> "transfer", attempt |-> 2]]
        /\ UNCHANGED opState
  /\ CacheUnchanged

\* acquire verifies after either transport.  A first transfer that does not
\* verify is a classified failure, a second one fails the download.
VerifyTransfer(d) ==
  /\ download[d].at = "verify"
  /\ IF SnapshotVerifies(Wants[d])
     THEN Moves(d, "promote") /\ UNCHANGED opState
     ELSE IF download[d].attempt = 1
     THEN /\ download' = [download EXCEPT ![d] = [at |-> "transfer", attempt |-> 2]]
          /\ UNCHANGED opState
     ELSE Records(d, "failed") /\ Moves(d, "over")
  /\ CacheUnchanged

\* The 250 ms poll drops the transfer of a cancelled operation.
PollCancelled(d) ==
  /\ download[d].at \in {"transfer", "verify"}
  /\ opState[d] = "cancelled"
  /\ Moves(d, "over")
  /\ CacheUnchanged /\ UNCHANGED opState

\* promote_model writes the row whatever became of the operation, or refuses
\* an alias that names another model.
PromoteModel(d) ==
  /\ download[d].at = "promote"
  /\ \/ models' = models \cup {Wants[d]} /\ Records(d, "succeeded")
     \/ UNCHANGED models /\ Records(d, "failed")
  /\ Moves(d, "over")
  /\ UNCHANGED <<blob, pointers, inUse, removal, wiped>>

-----------------------------------------------------------------------------
(* Serving and removing.                                                    *)

\* begin_serve and the stop handler write an instance row; a stopped instance
\* keeps its row.
ServeModel(m) ==
  /\ m \in models /\ inUse[m] # "running"
  /\ inUse' = [inUse EXCEPT ![m] = "running"]
  /\ UNCHANGED <<blob, pointers, models, download, opState, removal, wiped>>

StopModel(m) ==
  /\ inUse[m] = "running"
  /\ inUse' = [inUse EXCEPT ![m] = "stopped"]
  /\ UNCHANGED <<blob, pointers, models, download, opState, removal, wiped>>

\* plan_removal: not for a model an instance is to run, and only the blobs no
\* other snapshot points at.  A missing snapshot or a broken pointer makes the
\* plan fail.
Removable(m) ==
  pointers[CommitOf[m]] \ UNION {pointers[c] : c \in Commits \ {CommitOf[m]}}

PlanRemoval(r, m) ==
  /\ removal[r] = NoRemoval /\ m \in models /\ inUse[m] # "running"
  /\ pointers[CommitOf[m]] # {}
  /\ \A c \in Commits : \A b \in pointers[c] : blob[b] \in {"whole", "bad"}
  /\ removal' = [removal EXCEPT ![r] = [at |-> "planned", model |-> m, blobs |-> Removable(m)]]
  /\ UNCHANGED <<blob, pointers, models, inUse, download, opState, wiped>>

\* execute_removal deletes the blobs of the plan and then the snapshot, and
\* stops at the first that is missing: another removal was faster.  What it
\* had deleted by then stays deleted.
ExecuteRemoval(r) ==
  LET plan == removal[r]
      there == {b \in plan.blobs : blob[b] \in {"whole", "bad"}}
      Deletes(gone) == blob' = [b \in Blobs |-> IF b \in gone THEN "none" ELSE blob[b]]
  IN  /\ plan.at = "planned"
      /\ \/ /\ there = plan.blobs /\ pointers[CommitOf[plan.model]] # {}
            /\ Deletes(there)
            /\ pointers' = [pointers EXCEPT ![CommitOf[plan.model]] = {}]
            /\ wiped' = wiped \cup there \cup {CommitOf[plan.model]}
            /\ removal' = [removal EXCEPT ![r].at = "deleted"]
         \/ \E gone \in SUBSET there :
              /\ IF there = plan.blobs
                 THEN gone = there /\ pointers[CommitOf[plan.model]] = {}
                 ELSE TRUE
              /\ Deletes(gone)
              /\ wiped' = wiped \cup gone
              /\ removal' = [removal EXCEPT ![r] = NoRemoval]
              /\ UNCHANGED pointers
      /\ UNCHANGED <<models, inUse, download, opState>>

\* state.rs remove_model: refused while any instance row names the model.
RemoveRow(r) ==
  /\ removal[r].at = "deleted"
  /\ models' = IF inUse[removal[r].model] = "none" THEN models \ {removal[r].model} ELSE models
  /\ removal' = [removal EXCEPT ![r] = NoRemoval]
  /\ UNCHANGED <<blob, pointers, inUse, download, opState, wiped>>

ModelCacheNext ==
  \/ \E d \in Downloads :
       \/ AcceptDownload(d) \/ CancelDownload(d) \/ TakeDownloadSlot(d)
       \/ ResolveDownload(d) \/ TransferBlob(d) \/ TransferFails(d)
       \/ TransferEnds(d) \/ VerifyTransfer(d) \/ PollCancelled(d) \/ PromoteModel(d)
  \/ \E m \in ModelIds : ServeModel(m) \/ StopModel(m) \/ \E r \in Removals : PlanRemoval(r, m)
  \/ \E r \in Removals : ExecuteRemoval(r) \/ RemoveRow(r)

ModelCacheSpec == ModelCacheInit /\ [][ModelCacheNext]_modelVars

-----------------------------------------------------------------------------
SnapshotIsWhole(m) ==
  /\ BlobsOf[m] \subseteq pointers[CommitOf[m]]
  /\ \A b \in BlobsOf[m] : blob[b] = "whole"

\* A model with a row has every file, whole, whatever transports failed, were
\* cancelled, retried or shared its blobs on the way, unless a removal deleted
\* from its snapshot or its blobs (acquire, verify_snapshot, promote_model).
PromotedModelIsWhole ==
  \A m \in models : (BlobsOf[m] \cup {CommitOf[m]}) \cap wiped = {} => SnapshotIsWhole(m)

\* However downloads, cancellations and removals follow each other, downloads
\* leave the disk reserve free (enforce_disk_reserve under one download slot).
DiskReserveKept == DiskBlobs - Used >= DiskReserve

\* A removal deletes no data of a model that keeps its row, as the reference
\* says of `rm` (docs/reference/cli.md): "Preview or remove only unreferenced
\* native-cache model data."
RemovesOnlyUnreferenced ==
  (\A r \in Removals : removal[r] = NoRemoval) => \A m \in models : SnapshotIsWhole(m)

\* What downloads and removals promise of the cache and the disk.
CacheIsSound == PromotedModelIsWhole /\ DiskReserveKept
=============================================================================
