--------------------------- MODULE GeneratedFiles ---------------------------
(***************************************************************************)
(* The files a launch generates for a coding client (generated_files.rs):  *)
(* the profile and the catalog, with a receipt of the digests Sparkplane   *)
(* owns, and the provider table in the user's config.toml, with a ledger.  *)
(* Launches and restores hold the state lock of the workstation and can be *)
(* killed between any two writes; each write replaces one file.  The       *)
(* client adds settings of its own to the profile at any time, and the     *)
(* user edits all of them.                                                 *)
(*                                                                         *)
(* A file's content is the version that was published, the client's        *)
(* settings in it and whether the user edited what Sparkplane generates.   *)
(* A digest is the content it is of.  Content written by the user or the   *)
(* client is fresh: it is numbered.                                        *)
(***************************************************************************)
EXTENDS Integers, FiniteSets

CONSTANTS
  Versions,     \* what launches generate
  MaxWrites     \* writes by the client or the user

ASSUME GeneratedAssumption == MaxWrites \in Nat /\ "absent" \notin Versions

Files == {"profile", "catalog"}
Absent == [version |-> "absent", extra |-> 0, edit |-> 0]
Published(v) == [version |-> v, extra |-> 0, edit |-> 0]

VARIABLES
  file,       \* the content of the two files
  receipt,    \* per file, the digests that are owned
  provider,   \* the provider table of config.toml
  others,     \* the rest of config.toml, which is the user's
  ledger,     \* the digests of the provider table that are owned
  publisher,     \* the launch or restore that holds the lock
  writes,     \* writes by the client or the user so far
  lastEdit,   \* per file or table, the user's last edit outside the excused gap
  calm,       \* no write by the client or the user since the last launch began
  died        \* a launch was killed since the last that finished with the files

generatedVars == <<file, receipt, provider, others, ledger, publisher, writes,
                   lastEdit, calm, died>>

Unlocked == [at |-> "unlocked"]

GeneratedInit ==
  /\ file = [f \in Files |-> Absent]
  /\ receipt = [f \in Files |-> {}]
  /\ provider = Absent /\ others = 0
  /\ ledger = {}
  /\ publisher = Unlocked
  /\ writes = 0
  /\ lastEdit = [f \in Files \cup {"provider", "others"} |-> 0]
  /\ calm = TRUE /\ died = FALSE

-----------------------------------------------------------------------------
(* Who else writes.                                                         *)

\* The client saves a setting of its own into the profile.
ClientSaves ==
  /\ writes < MaxWrites /\ writes' = writes + 1
  /\ file["profile"] # Absent
  /\ file' = [file EXCEPT !["profile"].extra = writes']
  /\ calm' = FALSE
  /\ UNCHANGED <<receipt, provider, others, ledger, publisher, lastEdit, died>>

\* The launch that holds the lock has read the file and will replace or delete
\* it; what is saved meanwhile is lost.
Replacing(f) ==
  \/ publisher.at \in {"pending", "profile"}
  \/ publisher.at = "catalog" /\ f = "catalog"
  \/ publisher.at = "remove" /\ f \in publisher.left

\* The user edits a generated part, or moves an edited file aside.
UserEdits(f) ==
  /\ writes < MaxWrites /\ writes' = writes + 1
  /\ file[f] # Absent
  /\ file' = [file EXCEPT ![f].edit = writes']
  /\ lastEdit' = IF Replacing(f) THEN lastEdit ELSE [lastEdit EXCEPT ![f] = writes']
  /\ calm' = FALSE
  /\ UNCHANGED <<receipt, provider, others, ledger, publisher, died>>

UserMovesAside(f) ==
  /\ file[f].edit # 0
  /\ file' = [file EXCEPT ![f] = Absent]
  /\ lastEdit' = [lastEdit EXCEPT ![f] = 0]
  /\ UNCHANGED <<receipt, provider, others, ledger, publisher, writes, calm, died>>

\* The user edits config.toml, the provider table or the rest.
InWindow == publisher.at = "checked"
UserEditsConfig ==
  /\ writes < MaxWrites /\ writes' = writes + 1
  /\ \/ /\ provider # Absent
        /\ provider' = [provider EXCEPT !.edit = writes'] /\ UNCHANGED others
        /\ lastEdit' = IF InWindow THEN lastEdit
                       ELSE [lastEdit EXCEPT !["provider"] = writes']
     \/ /\ others' = writes' /\ UNCHANGED provider
        /\ lastEdit' = IF InWindow THEN lastEdit
                       ELSE [lastEdit EXCEPT !["others"] = writes']
  /\ calm' = FALSE
  /\ UNCHANGED <<file, receipt, ledger, publisher, died>>

-----------------------------------------------------------------------------
(* publish and remove.                                                      *)

\* still_owned: the exact content, or for the profile the content without the
\* settings that are not generated.
StillOwned(f) ==
  \/ file[f] \in receipt[f]
  \/ f = "profile" /\ [file[f] EXCEPT !.extra = 0] \in receipt[f]

\* A check that looks at the digest of the profile alone.
PublishableProfileOnly(f, v) ==
  f = "profile" => file[f] \in {Absent, Published(v)} \/ StillOwned(f)

\* publish may replace a file that is absent, as it would write it, or owned.
Publishable(f, v) == file[f] \in {Absent, Published(v)} \/ StillOwned(f)

\* A receipt that owns only what is about to be written.
PendingReceiptNewOnly(f, v) == {Published(v)}

\* What the receipt owns of a file during a publication: the new content and
\* the one that is there.
PendingReceipt(f, v) == {Published(v), file[f]} \ {Absent}

\* publish: the lock, both checks, and the pending receipt.  try_lock refuses
\* a second launch.
BeginPublish(v) ==
  /\ publisher = Unlocked
  /\ \A f \in Files : Publishable(f, v)
  /\ publisher' = [at |-> "pending", version |-> v,
                pending |-> [f \in Files |-> PendingReceipt(f, v)]]
  /\ calm' = TRUE
  /\ UNCHANGED <<file, receipt, provider, others, ledger, writes, lastEdit, died>>

\* Replacing the receipt, the profile, the catalog, and the receipt again.
PublishStep ==
  /\ \/ /\ publisher.at = "pending"
        /\ receipt' = publisher.pending
        /\ publisher' = [at |-> "profile", version |-> publisher.version]
        /\ UNCHANGED file
     \/ /\ publisher.at = "profile"
        /\ file' = [file EXCEPT !["profile"] = Published(publisher.version)]
        /\ publisher' = [publisher EXCEPT !.at = "catalog"] /\ UNCHANGED receipt
     \/ /\ publisher.at = "catalog"
        /\ file' = [file EXCEPT !["catalog"] = Published(publisher.version)]
        /\ publisher' = [publisher EXCEPT !.at = "committed"] /\ UNCHANGED receipt
     \/ /\ publisher.at = "committed"
        /\ receipt' = [f \in Files |-> {Published(publisher.version)}]
        /\ publisher' = [publisher EXCEPT !.at = "published"] /\ UNCHANGED file
  /\ died' = (died /\ publisher.at # "committed")
  /\ UNCHANGED <<provider, others, ledger, writes, lastEdit, calm>>

\* remove: both checks before either file goes, and then an empty receipt.
BeginRemove ==
  /\ publisher = Unlocked
  /\ \A f \in Files : file[f] = Absent \/ StillOwned(f)
  /\ publisher' = [at |-> "remove", left |-> {f \in Files : file[f] # Absent}]
  /\ calm' = TRUE
  /\ UNCHANGED <<file, receipt, provider, others, ledger, writes, lastEdit, died>>

RemoveStep ==
  /\ publisher.at = "remove"
  /\ IF publisher.left # {}
     THEN \E f \in publisher.left :
            /\ f = "profile" \/ "profile" \notin publisher.left
            /\ file' = [file EXCEPT ![f] = Absent]
            /\ publisher' = [publisher EXCEPT !.left = @ \ {f}]
            /\ UNCHANGED receipt
     ELSE /\ receipt' = [f \in Files |-> {}]
          /\ publisher' = Unlocked
          /\ UNCHANGED file
  /\ died' = (died /\ publisher.left # {})
  /\ UNCHANGED <<provider, others, ledger, writes, lastEdit, calm>>

-----------------------------------------------------------------------------
(* publish_provider, which a launch calls next, under the lock again.       *)

BeginProvider ==
  /\ publisher.at = "published"
  /\ IF provider \in {Absent, Published(publisher.version)} \cup ledger
     THEN publisher' = [at |-> "ledger", version |-> publisher.version,
                     original |-> <<provider, others>>]
     ELSE publisher' = Unlocked
  /\ UNCHANGED <<file, receipt, provider, others, ledger, writes, lastEdit, calm, died>>

WritePendingLedger ==
  /\ publisher.at = "ledger"
  /\ ledger' = {Published(publisher.version), publisher.original[1]} \ {Absent}
  /\ publisher' = [publisher EXCEPT !.at = "recheck"]
  /\ UNCHANGED <<file, receipt, provider, others, writes, lastEdit, calm, died>>

\* A provider that is written without reading the configuration again.
RecheckConfigSkipped ==
  /\ publisher.at = "recheck"
  /\ publisher' = [publisher EXCEPT !.at = "checked"]
  /\ UNCHANGED <<file, receipt, provider, others, ledger, writes, lastEdit, calm, died>>

\* The configuration is read again, and a change refuses the launch.
RecheckConfig ==
  /\ publisher.at = "recheck"
  /\ publisher' = IF <<provider, others>> = publisher.original
               THEN [publisher EXCEPT !.at = "checked"] ELSE Unlocked
  /\ UNCHANGED <<file, receipt, provider, others, ledger, writes, lastEdit, calm, died>>

\* The configuration as it was read, with the provider's table replaced.
WriteConfig ==
  /\ publisher.at = "checked"
  /\ provider' = Published(publisher.version) /\ others' = publisher.original[2]
  /\ publisher' = [at |-> "own", version |-> publisher.version]
  /\ UNCHANGED <<file, receipt, ledger, writes, lastEdit, calm, died>>

WriteLedger ==
  /\ publisher.at = "own"
  /\ ledger' = {Published(publisher.version)}
  /\ publisher' = Unlocked
  /\ UNCHANGED <<file, receipt, provider, others, writes, lastEdit, calm, died>>

\* The launch is killed; the lock goes with the process.
LaunchDies ==
  /\ publisher # Unlocked
  /\ publisher' = Unlocked /\ died' = TRUE
  /\ UNCHANGED <<file, receipt, provider, others, ledger, writes, lastEdit, calm>>

GeneratedNext ==
  \/ ClientSaves \/ UserEditsConfig
  \/ \E f \in Files : UserEdits(f) \/ UserMovesAside(f)
  \/ \E v \in Versions : BeginPublish(v)
  \/ PublishStep \/ BeginRemove \/ RemoveStep
  \/ BeginProvider \/ WritePendingLedger \/ RecheckConfig \/ WriteConfig \/ WriteLedger
  \/ LaunchDies

GeneratedSpec == GeneratedInit /\ [][GeneratedNext]_generatedVars

-----------------------------------------------------------------------------
\* The user's last edit of a generated file is there until the user moves the
\* file aside, through launches, restores and their deaths, unless it was made
\* after the launch read the file to replace it; and an edit of config.toml is
\* there unless it fell between the second reading and the replacement
\* (publish, remove, publish_provider).
UserEditsSurvive ==
  /\ \A f \in Files : lastEdit[f] # 0 => file[f].edit >= lastEdit[f]
  /\ lastEdit["provider"] # 0 => provider.edit >= lastEdit["provider"]
  /\ others >= lastEdit["others"]

\* What the user did not edit stays Sparkplane's to replace or remove: a launch
\* that was killed at any point can be retried, and settings the client saves
\* do not block the next launch, except when the client saves after a killed
\* launch, which left the profile's receipt with the digest of the settings
\* that were there (publish, still_owned).
UneditedIsReplaceable ==
  publisher = Unlocked /\ (calm \/ ~died) =>
    \A f \in Files : file[f].edit = 0 => file[f] = Absent \/ StillOwned(f)

\* The two promises about generated files.
GeneratedFilesAreSafe == UserEditsSurvive /\ UneditedIsReplaceable
=============================================================================
