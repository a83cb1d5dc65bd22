---------------------------- MODULE SealedSplit ----------------------------
(***************************************************************************)
(* The sealed held-out split (src/scripts/sealed_split.py): seal, register,*)
(* reveal and verify over one directory, one command at a time.            *)
(*                                                                         *)
(* The candidate must not have been written with the challenge half in     *)
(* view.  What orders the commands is which files exist and which digests  *)
(* agree; a command reads and writes several files one after the other, can*)
(* be stopped between and inside them, and the author edits the pool and   *)
(* the candidate at any time.  A digest is the content it was taken of.    *)
(* Identifiers are not modelled: an edit of the pool keeps them, so that   *)
(* only the checks of content can notice it.                               *)
(***************************************************************************)
CONSTANTS
  Keys,       \* what secrets.token_bytes returns, or a key file brings
  Pools,      \* contents the pool file may have
  Candidates, \* contents the candidate artifact may have
  Times,      \* what _now may return; two calls may return the same
  NoFile, Torn \* a file that is absent; one that was cut short as it was written

VARIABLES
  pool, candidate, \* the files the author edits
  key,             \* the key file
  development, manifest, registration, challenge, receipt, \* the sealed directory
  pc, mem,  \* where the command is, and what it has read
  blind,    \* history: contents of the candidate that existed before the challenge file
  mishaps   \* history: "stopped": a reveal was, after it began to write the challenge half
            \* and before its receipt; "edited": the pool was, between two readings of it
            \* by one command

author == <<pool, candidate, blind>>
vars == <<author, key, development, manifest, registration, challenge, receipt, pc, mem, mishaps>>

Half == [key : Keys, pool : Pools]
Manifest == [half : Half, pool : Pools, at : Times]
Registration == [manifest : Manifest, candidate : Candidates, at : Times]
Receipt == [registration : Registration, candidate : Candidates, challenge : Half]

(* Neither an absent file nor a torn one reads as content.                  *)
ASSUME SealAssumption ==
  /\ NoFile # Torn
  /\ {NoFile, Torn} \cap (Keys \cup Half \cup Manifest \cup Registration \cup Receipt) = {}

NoMem == [half |-> NoFile, manifest |-> NoFile, candidate |-> NoFile]

TypeOK ==
  /\ pool \in Pools /\ candidate \in Candidates
  /\ key \in Keys \cup {NoFile, Torn}
  /\ development \in Half \cup {NoFile, Torn}
  /\ manifest \in Manifest \cup {NoFile, Torn}
  /\ registration \in Registration \cup {NoFile, Torn}
  /\ challenge \in Half \cup {NoFile, Torn}
  /\ receipt \in Receipt \cup {NoFile, Torn}
  /\ pc \in {"idle", "half", "manifest", "registration", "pool", "challenge", "receipt"}
  /\ mem \in [half : Half \cup {NoFile}, manifest : Manifest \cup {NoFile},
              candidate : Candidates \cup {NoFile}]
  /\ blind \subseteq Candidates
  /\ mishaps \subseteq {"stopped", "edited"}

Init ==
  /\ pool \in Pools /\ candidate \in Candidates
  /\ key = NoFile
  /\ development = NoFile /\ manifest = NoFile /\ registration = NoFile
  /\ challenge = NoFile /\ receipt = NoFile
  /\ pc = "idle"
  /\ mem = NoMem
  /\ blind = {candidate}
  /\ mishaps = {}

Readable(file) == file \notin {NoFile, Torn}

Go(from, to) == pc = from /\ pc' = to /\ UNCHANGED <<author, mishaps>>

(* The last step of a command.                                              *)
End(from) == Go(from, "idle") /\ mem' = NoMem

-----------------------------------------------------------------------------
(* command_seal: the pool is loaded, and a generated key takes the place of *)
(* the one in the key file before anything else is checked or written.      *)
SealBegins(k) ==
  /\ Go("idle", "half")
  /\ key' = k
  /\ mem' = [NoMem EXCEPT !.half = [key |-> k, pool |-> pool]]
  /\ UNCHANGED <<development, manifest, registration, challenge, receipt>>

(* An experiment named as one of its cases, or a degenerate split.          *)
SealRefused ==
  /\ End("half")
  /\ UNCHANGED <<key, development, manifest, registration, challenge, receipt>>

WriteDevelopment ==
  /\ Go("half", "manifest")
  /\ development' = mem.half
  /\ UNCHANGED <<key, manifest, registration, challenge, receipt, mem>>

(* development_digest is of the half that was written, pool_content_digest  *)
(* of the pool file as it is by now.                                        *)
ManifestAt(t) == [half |-> mem.half, pool |-> pool, at |-> t]

(* Mutant: sealing again starts afresh, without the old receipt.            *)
WriteManifestAfresh ==
  /\ End("manifest")
  /\ \E t \in Times : manifest' = ManifestAt(t)
  /\ receipt' = NoFile
  /\ UNCHANGED <<key, development, registration, challenge>>

WriteManifest ==
  /\ End("manifest")
  /\ \E t \in Times : manifest' = ManifestAt(t)
  /\ UNCHANGED <<key, development, registration, challenge, receipt>>

-----------------------------------------------------------------------------
(* Mutants: the manifest need not be there; a spent split is registered for.*)
MayRegisterUnsealed == manifest # Torn /\ receipt = NoFile
MayRegisterSpent == Readable(manifest)

(* command_register: its checks, and the digests it takes                   *)
MayRegister == Readable(manifest) /\ receipt = NoFile

RegisterBegins ==
  /\ MayRegister
  /\ Go("idle", "registration")
  /\ mem' = [NoMem EXCEPT !.candidate = candidate, !.manifest = manifest]
  /\ UNCHANGED <<key, development, manifest, registration, challenge, receipt>>

WriteRegistration ==
  /\ End("registration")
  /\ \E t \in Times :
       registration' = [manifest |-> mem.manifest, candidate |-> mem.candidate, at |-> t]
  /\ UNCHANGED <<key, development, manifest, challenge, receipt>>

-----------------------------------------------------------------------------
(* command_reveal: the checks up to the registered artifacts; then the pool *)
(* is loaded.                                                               *)
MayReveal ==
  /\ Readable(manifest)
  /\ key = manifest.half.key
  /\ receipt = NoFile
  /\ Readable(registration)
  /\ registration.manifest = manifest
  /\ registration.candidate = candidate

RevealBegins ==
  /\ MayReveal
  /\ Go("idle", "pool")
  /\ mem' = [half |-> [key |-> key, pool |-> pool], manifest |-> manifest,
             candidate |-> registration.candidate]
  /\ UNCHANGED <<key, development, manifest, registration, challenge, receipt>>

(* Mutant: the content of the pool is not compared.                         *)
PoolUnchecked == mem.manifest # NoFile

(* The pool file is read again for its digest.                              *)
PoolUnchanged == pool = mem.manifest.pool

CheckPool ==
  /\ pc = "pool"
  /\ \/ PoolUnchanged /\ Go("pool", "challenge") /\ UNCHANGED mem
     \/ ~PoolUnchanged /\ End("pool")
  /\ UNCHANGED <<key, development, manifest, registration, challenge, receipt>>

WriteChallenge ==
  /\ Go("challenge", "receipt")
  /\ challenge' = mem.half
  /\ UNCHANGED <<key, development, manifest, registration, receipt, mem>>

(* registration_sha256_at_reveal is of the file as it is by now.            *)
WriteReceipt ==
  /\ End("receipt")
  /\ receipt' = [registration |-> registration, candidate |-> mem.candidate,
                 challenge |-> mem.half]
  /\ UNCHANGED <<key, development, manifest, registration, challenge>>

-----------------------------------------------------------------------------
(* A command is killed between two files, or while it writes one: write_text*)
(* and write_bytes empty the file first.                                    *)
Kill(exposed) ==
  /\ pc # "idle" /\ pc' = "idle"
  /\ mem' = NoMem
  /\ mishaps' = IF exposed THEN mishaps \cup {"stopped"} ELSE mishaps
  /\ UNCHANGED author

KilledBetween ==
  /\ Kill(pc = "receipt")
  /\ UNCHANGED <<key, development, manifest, registration, challenge, receipt>>

KilledWriting ==
  /\ Kill(pc = "challenge")
  /\ \/ pc = "half" /\ key' = Torn /\ UNCHANGED development
     \/ pc = "half" /\ development' = Torn /\ UNCHANGED key
     \/ pc # "half" /\ UNCHANGED <<key, development>>
  /\ manifest' = IF pc = "manifest" THEN Torn ELSE manifest
  /\ registration' = IF pc = "registration" THEN Torn ELSE registration
  /\ challenge' = IF pc = "challenge" THEN Torn ELSE challenge
  /\ receipt' = IF pc = "receipt" THEN Torn ELSE receipt

(* Between the first reading of the pool and the digest of it.              *)
PoolInUse == pc \in {"half", "manifest", "pool"}

EditPool ==
  /\ \E content \in Pools \ {pool} : pool' = content
  /\ mishaps' = IF PoolInUse THEN mishaps \cup {"edited"} ELSE mishaps
  /\ UNCHANGED <<candidate, blind, key, development, manifest, registration, challenge, receipt, pc, mem>>

EditCandidate ==
  /\ \E content \in Candidates \ {candidate} :
       /\ candidate' = content
       /\ blind' = IF challenge = NoFile THEN blind \cup {content} ELSE blind
  /\ UNCHANGED <<pool, key, development, manifest, registration, challenge, receipt, pc, mem, mishaps>>

Next ==
  \/ \E k \in Keys : SealBegins(k)
  \/ SealRefused \/ WriteDevelopment \/ WriteManifest
  \/ RegisterBegins \/ WriteRegistration
  \/ RevealBegins \/ CheckPool \/ WriteChallenge \/ WriteReceipt
  \/ KilledBetween \/ KilledWriting \/ EditPool \/ EditCandidate

Spec == Init /\ [][Next]_vars

-----------------------------------------------------------------------------
(* Properties *)

(* command_verify, run now by somebody who has the key: every check is true.*)
(* It does not read the challenge file, and passes before a reveal as well. *)
Verified ==
  /\ Readable(manifest)
  /\ key = manifest.half.key
  /\ pool = manifest.pool
  /\ development = manifest.half
  /\ Readable(registration)
  /\ registration.manifest = manifest
  /\ registration.candidate = candidate
  /\ receipt # NoFile => Readable(receipt) /\ receipt.registration = registration

(* A candidate that verifies existed before the challenge half was on disk, *)
(* whatever else is stopped, unless a reveal was between the challenge half *)
(* and its receipt: that one leaves the half in view and register open.     *)
VerifiedIsBlind == Verified /\ "stopped" \notin mishaps => candidate \in blind

(* When a revealed split verifies, its two halves and its receipt are of the*)
(* pool the manifest names, unless the pool was edited between two readings *)
(* of it by one command.                                                    *)
VerifiedHalvesMatch ==
  Verified /\ receipt # NoFile /\ "edited" \notin mishaps =>
    development = challenge /\ receipt.challenge = challenge /\ challenge.pool = pool

(* "This split is spent": once there is a receipt, even a torn one, the     *)
(* challenge, the receipt and the registration stay as they are.            *)
SpentIsFinal ==
  [][receipt # NoFile => UNCHANGED <<registration, challenge, receipt>>]_vars
=============================================================================
