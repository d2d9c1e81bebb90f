----------------------------- MODULE Certificates -----------------------------
(***************************************************************************)
(* Rotation of the local CA and of the server's leaf over SSH              *)
(* (install.rs), the agent that reloads them on a signal (agent.rs), and   *)
(* the client that pins the CA (client.rs, cli.rs).                        *)
(*                                                                         *)
(* A key pair is a serial number; a certificate is the serial of its key   *)
(* and, for a leaf, the serial of the CA key that signed it.  The .overlap *)
(* copies are written first and read by nobody.                            *)
(***************************************************************************)
EXTENDS Integers

CONSTANT MaxSerial   \* bound on the key pairs ever generated

ASSUME CertificatesAssumption == MaxSerial \in Nat \ {0, 1}

VARIABLES
  files,     \* the four files on the appliance
  served,    \* the leaf the agent loaded; NoLeaf when it is down
  hup,       \* a signal the agent has not handled
  pin,       \* the client: its copy of the CA and the fingerprint it expects
  turn,      \* the rotation in progress
  serial,    \* key pairs generated
  owed       \* a CA rotation changed the appliance and no client was re-pinned

certVars == <<files, served, hup, pin, turn, serial, owed>>

TornFile == 0
NoLeaf == [key |-> TornFile, signer |-> TornFile]
Resting == [at |-> "rest"]

CertInit ==
  /\ files = [caCert |-> 1, caKey |-> 1, leaf |-> [key |-> 2, signer |-> 1], leafKey |-> 2]
  /\ served = files.leaf /\ hup = FALSE
  /\ pin = [ca |-> 1, sha |-> 1]
  /\ turn = Resting /\ serial = 2 /\ owed = FALSE

-----------------------------------------------------------------------------
(* rotate_certificate                                                       *)

\* The new material, generated from what the files hold.
NewCa(ca) == IF ca THEN serial + 1 ELSE files.caCert
SigningKey(ca) == IF ca THEN serial + 1 ELSE files.caKey
LeafKey(ca) == serial + (IF ca THEN 2 ELSE 1)

\* Without --ca the CA key must parse.  A session starts long after the signal
\* of the last one was handled.
Rotate(ca) ==
  /\ turn = Resting /\ ~hup /\ LeafKey(ca) <= MaxSerial
  /\ ca \/ files.caKey # TornFile
  /\ turn' = [at |-> IF ca THEN "caCert" ELSE "leaf", ca |-> ca, old |-> files,
              new |-> [caCert |-> NewCa(ca), caKey |-> SigningKey(ca),
                       leaf |-> [key |-> LeafKey(ca), signer |-> SigningKey(ca)], leafKey |-> LeafKey(ca)]]
  /\ serial' = LeafKey(ca)
  /\ UNCHANGED <<files, served, hup, pin, owed>>

After(step) == CASE step = "caCert" -> "caKey" [] step = "caKey" -> "leaf"
                 [] step = "leaf" -> "leafKey" [] step = "leafKey" -> "signal"

TornIn(f) == IF f = "leaf" THEN NoLeaf ELSE TornFile

\* write_synced; an error leaves the file torn and is not undone.
WriteCert ==
  /\ turn.at \in DOMAIN files
  /\ \/ /\ files' = [files EXCEPT ![turn.at] = turn.new[turn.at]]
        /\ turn' = [turn EXCEPT !.at = After(turn.at)]
     \/ files' = [files EXCEPT ![turn.at] = TornIn(turn.at)] /\ turn' = Resting
  /\ owed' = (owed \/ turn.ca)
  /\ UNCHANGED <<served, hup, pin, serial>>

\* systemctl kill --signal=HUP; when it fails, the old files are written back
\* and errors are ignored.
Signal ==
  /\ turn.at = "signal"
  /\ \/ hup' = TRUE /\ turn' = [turn EXCEPT !.at = "reply"] /\ UNCHANGED files
     \/ /\ \E lost \in SUBSET DOMAIN files :
             files' = [f \in DOMAIN files |-> IF f \in lost THEN TornIn(f) ELSE turn.old[f]]
        /\ turn' = Resting /\ UNCHANGED hup
  /\ UNCHANGED <<served, pin, serial, owed>>

\* The report reaches the client; a new CA is pinned, the copy first and then
\* the fingerprint (replace_ca_pin).
Reply ==
  /\ turn.at = "reply"
  /\ IF turn.ca THEN pin' = [pin EXCEPT !.ca = turn.new.caCert] /\ turn' = [turn EXCEPT !.at = "profile"]
     ELSE turn' = Resting /\ UNCHANGED pin
  /\ UNCHANGED <<files, served, hup, serial, owed>>

\* Mutant: the profile keeps the old fingerprint.
PinProfileForgotten ==
  /\ turn.at = "profile"
  /\ turn' = Resting /\ owed' = FALSE
  /\ UNCHANGED <<files, served, hup, pin, serial>>

PinProfile ==
  /\ turn.at = "profile"
  /\ pin' = [pin EXCEPT !.sha = turn.new.caCert]
  /\ turn' = Resting /\ owed' = FALSE
  /\ UNCHANGED <<files, served, hup, serial>>

\* The session or the client dies: the rotation stops where it is, and the
\* report is lost.
RotationDies ==
  /\ turn # Resting /\ turn' = Resting
  /\ UNCHANGED <<files, served, hup, pin, serial, owed>>

-----------------------------------------------------------------------------
(* The agent.                                                               *)

\* rustls accepts a certificate with its own key only.
Loadable == files.leaf.key = files.leafKey /\ files.leafKey # TornFile

\* reload_tls_from_pem_files: an error keeps what is served.
Reload ==
  /\ hup /\ hup' = FALSE
  /\ served' = IF served # NoLeaf /\ Loadable THEN files.leaf ELSE served
  /\ UNCHANGED <<files, pin, turn, serial, owed>>

AgentRestarts ==
  /\ hup' = FALSE
  /\ served' = IF Loadable THEN files.leaf ELSE NoLeaf
  /\ UNCHANGED <<files, pin, turn, serial, owed>>

CertNext ==
  \/ \E ca \in BOOLEAN : Rotate(ca)
  \/ WriteCert \/ Signal \/ Reply \/ PinProfile \/ RotationDies \/ Reload \/ AgentRestarts

CertSpec == CertInit /\ [][CertNext]_certVars

-----------------------------------------------------------------------------
(* Properties.                                                              *)

\* SparkClient::load, and the handshake against the pinned CA.
Connects == pin.ca = pin.sha /\ served.signer = pin.ca

\* A client whose pin is not owed an update reaches a running agent: during and
\* after leaf rotations, however they end and wherever the agent restarts, and
\* after every CA rotation that reached the client, whatever was interrupted
\* before it.  (Between a failed CA rotation and the next completed one it may
\* not, even when the files were put back: an agent that restarted meanwhile
\* keeps the leaf of the abandoned CA.)
PinnedClientConnects == served # NoLeaf /\ ~hup /\ ~owed => Connects
=============================================================================
