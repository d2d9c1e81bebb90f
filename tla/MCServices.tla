----------------------------- MODULE MCServices -----------------------------
(***************************************************************************)
(* Ten services that share no state with each other, each on a small      *)
(* instance, checked side by side.  A behaviour picks one of them and      *)
(* never moves the others, so the state space is the sum of theirs.        *)
(***************************************************************************)
EXTENDS UsageLedger, InferenceSlots, Installer, Certificates,
        Qualification, ModelCache, GeneratedFiles, BrowserLogin, LaunchTokens,
        ImageHistory, TLC

VARIABLE part

Parts == {"usage", "slots", "installer", "certificates", "qualification",
          "models", "files", "login", "launch", "images"}

servicesVars ==
  <<part, ledgerVars, slotVars, installerVars, certVars, qualificationVars,
    modelVars, generatedVars, loginVars, launchVars, imageVars>>

\* Two requests of one token and one of another.
TokenOfDef == "r1" :> "ta" @@ "r2" :> "ta" @@ "r3" :> "tb"

\* The newer release cannot decode one of the two rows.
ReadableDef == "v1" :> {"i", "j"} @@ "v2" :> {"i"}

\* Two models of one commit that share a blob and do not fit on the disk
\* together.
CommitOfDef == "m1" :> "c1" @@ "m2" :> "c1"
BlobsOfDef == "m1" :> {"x", "y"} @@ "m2" :> {"y", "z"}
WantsDef == "d1" :> "m1" @@ "d2" :> "m2"

\* A small image, two in one item, a large one, and one that is not inline.
BatchesDef ==
  {<<Image(1, TRUE, TRUE)>>, <<Image(1, TRUE, FALSE), Image(1, TRUE, TRUE)>>,
   <<Image(3, TRUE, TRUE)>>, <<Image(1, FALSE, TRUE)>>}

\* The services that are not picked stay in one of their initial states.
Init ==
  /\ part \in Parts
  /\ LedgerInit /\ SlotsInit /\ InstallerInit /\ CertInit
  /\ QualificationInit /\ ModelCacheInit /\ GeneratedInit /\ LoginInit /\ LaunchInit /\ ImageInit
  /\ part # "slots" => \A r \in Requests : req[r].kind = CHOOSE k \in Kinds : TRUE
  /\ part # "images" => limit = AdapterMax

UsageMoves ==
  /\ part = "usage" /\ LedgerNext
  /\ UNCHANGED <<part, slotVars, installerVars, certVars,
                 qualificationVars, modelVars, generatedVars, loginVars, launchVars, imageVars>>

SlotsMove ==
  /\ part = "slots" /\ SlotsNext
  /\ UNCHANGED <<part, ledgerVars, installerVars, certVars,
                 qualificationVars, modelVars, generatedVars, loginVars, launchVars, imageVars>>

InstallerMoves ==
  /\ part = "installer" /\ InstallerNext
  /\ UNCHANGED <<part, ledgerVars, slotVars, certVars,
                 qualificationVars, modelVars, generatedVars, loginVars, launchVars, imageVars>>

CertificatesMove ==
  /\ part = "certificates" /\ CertNext
  /\ UNCHANGED <<part, ledgerVars, slotVars, installerVars,
                 qualificationVars, modelVars, generatedVars, loginVars, launchVars, imageVars>>

QualificationMoves ==
  /\ part = "qualification" /\ QualificationNext
  /\ UNCHANGED <<part, ledgerVars, slotVars, installerVars, certVars,
                 modelVars, generatedVars, loginVars, launchVars, imageVars>>

ModelsMove ==
  /\ part = "models" /\ ModelCacheNext
  /\ UNCHANGED <<part, ledgerVars, slotVars, installerVars, certVars,
                 qualificationVars, generatedVars, loginVars, launchVars, imageVars>>

FilesMove ==
  /\ part = "files" /\ GeneratedNext
  /\ UNCHANGED <<part, ledgerVars, slotVars, installerVars, certVars,
                 qualificationVars, modelVars, loginVars, launchVars, imageVars>>

LoginMoves ==
  /\ part = "login" /\ LoginNext
  /\ UNCHANGED <<part, ledgerVars, slotVars, installerVars, certVars,
                 qualificationVars, modelVars, generatedVars, launchVars, imageVars>>

LaunchMoves ==
  /\ part = "launch" /\ LaunchNext
  /\ UNCHANGED <<part, ledgerVars, slotVars, installerVars, certVars,
                 qualificationVars, modelVars, generatedVars, loginVars, imageVars>>

ImagesMove ==
  /\ part = "images" /\ ImageNext
  /\ UNCHANGED <<part, ledgerVars, slotVars, installerVars, certVars,
                 qualificationVars, modelVars, generatedVars, loginVars, launchVars>>

Next ==
  \/ UsageMoves \/ SlotsMove \/ InstallerMoves \/ CertificatesMove
  \/ QualificationMoves \/ ModelsMove \/ FilesMove \/ LoginMoves \/ LaunchMoves
  \/ ImagesMove

Spec == Init /\ [][Next]_servicesVars

\* A request gets through the gateway: the slots its handler waits for cannot
\* all be held by others that wait (agent.rs, upstream.rs), and the images it
\* repeats neither refuse it nor change what was sent of them
\* (image_history.rs).
RequestsGetThrough == NoCircularWait /\ ImagesAreStable

\* A death is explored with one job (the theorem of ServicesProofs has no
\* such bound), and two removals at once without a transfer beside them.
Bounded ==
  /\ deaths = 0 \/ \E j \in Jobs : row[j] = "none"
  /\ \/ \E r \in Removals : removal[r] = NoRemoval
     \/ \A d \in Downloads : ~HoldsSlot(d)
=============================================================================
