------------------------- MODULE SealedSplitProofs -------------------------
(***************************************************************************)
(* Proofs about SealedSplit, for any keys, contents and times.             *)
(***************************************************************************)
EXTENDS SealedSplit, TLAPS

(* A spent split is not in the middle of a command that writes what binds   *)
(* it.                                                                      *)
Settled == receipt # NoFile => pc \in {"idle", "half", "manifest"}

(* Unless a reveal was stopped there, the challenge half without its receipt*)
(* means that the reveal is still under way, and what is registered or about*)
(* to be existed before it.                                                 *)
BlindSoFar ==
  /\ challenge = NoFile => candidate \in blind
  /\ "stopped" \notin mishaps =>
       /\ challenge # NoFile /\ receipt = NoFile => pc = "receipt"
       /\ pc = "registration" => mem.candidate \in blind
       /\ Readable(registration) => registration.candidate \in blind

(* A reveal holds the registration it was begun for, and the key of the     *)
(* manifest that names.                                                     *)
Revealing ==
  /\ pc \in {"half", "manifest"} => mem.half \in Half
  /\ pc = "registration" => mem.manifest \in Manifest /\ mem.candidate \in Candidates
  /\ pc \in {"pool", "challenge", "receipt"} =>
       /\ mem.half \in Half /\ mem.candidate \in Candidates
       /\ registration \in Registration /\ registration.manifest = mem.manifest
       /\ mem.half.key = mem.manifest.half.key
  /\ pc \in {"pool", "challenge", "receipt"} => receipt = NoFile

(* Unless the pool was edited under a command, every half is of the pool its*)
(* manifest names, and the challenge half is of the sealed one.             *)
Consistent(m) == m.half.pool = m.pool

HalvesSoFar ==
  "edited" \notin mishaps =>
    /\ manifest \in Manifest => Consistent(manifest)
    /\ registration \in Registration => Consistent(registration.manifest)
    /\ pc = "registration" => Consistent(mem.manifest)
    /\ pc \in {"half", "manifest", "pool"} => mem.half.pool = pool
    /\ pc \in {"challenge", "receipt"} => mem.half.pool = mem.manifest.pool
    /\ pc = "receipt" => challenge = mem.half
    /\ receipt \in Receipt => /\ receipt.challenge = challenge
                              /\ challenge = receipt.registration.manifest.half

Sealing == TypeOK /\ Revealing
IInv == Sealing /\ Settled /\ BlindSoFar /\ HalvesSoFar

USE SealAssumption

(* The initial state satisfies the inductive invariant.                     *)
LEMMA InitIInv == Init => IInv
  BY DEF Init, IInv, Sealing, TypeOK, Revealing, Settled, BlindSoFar, HalvesSoFar, NoMem, Readable

(* A file that can be read has content of its type.                         *)
LEMMA Contents ==
  TypeOK => /\ Readable(manifest) <=> manifest \in Manifest
            /\ Readable(registration) <=> registration \in Registration
            /\ Readable(receipt) <=> receipt \in Receipt
  BY DEF TypeOK, Readable

(* Every step keeps the variables in their types and a reveal to its        *)
(* registration.                                                            *)
LEMMA SealingStep == Sealing /\ [Next]_vars => Sealing'
<1> SUFFICES ASSUME Sealing, [Next]_vars PROVE Sealing'
  OBVIOUS
<1> USE Contents DEF Sealing, TypeOK, Revealing, Go, NoMem, author, Half, Manifest, Registration, Receipt
<1>1. ASSUME NEW k \in Keys, SealBegins(k) PROVE Sealing'
  BY <1>1 DEF SealBegins
<1>2. CASE SealRefused
  BY <1>2 DEF SealRefused, End
<1>3. CASE WriteDevelopment
  BY <1>3 DEF WriteDevelopment
<1>4. CASE WriteManifest
  BY <1>4 DEF WriteManifest, End, ManifestAt
<1>5. CASE RegisterBegins
  <2>1. /\ UNCHANGED <<key, development, manifest, registration, challenge, receipt>>
        /\ mem' = [NoMem EXCEPT !.candidate = candidate, !.manifest = manifest]
        /\ manifest \in Manifest /\ Go("idle", "registration")
    BY <1>5 DEF RegisterBegins, MayRegister
  <2>2. mem'.candidate = candidate /\ mem'.manifest = manifest
    BY <2>1
  <2>3. TypeOK'
    <3>1. mem' = [half |-> NoFile, manifest |-> manifest, candidate |-> candidate]
      BY <2>1
    <3>2. mem' \in [half : Half \cup {NoFile}, manifest : Manifest \cup {NoFile}, candidate : Candidates \cup {NoFile}]
      BY <2>1, <3>1, Zenon
    <3>3. pc' = "registration" /\ UNCHANGED <<pool, candidate, blind, mishaps>>
      BY <2>1
    <3> QED
      BY <2>1, <3>2, <3>3
  <2>4. Revealing'
    BY <2>1, <2>2
  <2> QED
    BY <2>3, <2>4
<1>6. CASE WriteRegistration
  BY <1>6 DEF WriteRegistration, End
<1>7. CASE RevealBegins
  BY <1>7 DEF RevealBegins, MayReveal
<1>8. CASE CheckPool
  BY <1>8 DEF CheckPool, End, PoolUnchanged
<1>9. CASE WriteChallenge
  BY <1>9 DEF WriteChallenge
<1>10. CASE WriteReceipt
  BY <1>10 DEF WriteReceipt, End
<1>11. CASE KilledBetween
  BY <1>11 DEF KilledBetween, Kill
<1>12. CASE KilledWriting
  BY <1>12 DEF KilledWriting, Kill
<1>13. CASE EditPool
  BY <1>13 DEF EditPool, PoolInUse
<1>14. CASE EditCandidate
  BY <1>14 DEF EditCandidate
<1>15. CASE UNCHANGED vars
  BY <1>15 DEF vars
<1> QED
  BY <1>1, <1>2, <1>3, <1>4, <1>5, <1>6, <1>7, <1>8, <1>9, <1>10, <1>11, <1>12, <1>13, <1>14, <1>15 DEF Next

(* Every step keeps a spent split settled.                                  *)
LEMMA SettledStep == Sealing /\ Settled /\ [Next]_vars => Settled'
<1> SUFFICES ASSUME Sealing, Settled, [Next]_vars PROVE Settled'
  OBVIOUS
<1> USE DEF Sealing, Revealing, Settled, Go
<1>1. ASSUME NEW k \in Keys, SealBegins(k) PROVE Settled'
  BY <1>1 DEF SealBegins
<1>2. CASE SealRefused
  BY <1>2 DEF SealRefused, End
<1>3. CASE WriteDevelopment
  BY <1>3 DEF WriteDevelopment
<1>4. CASE WriteManifest
  BY <1>4 DEF WriteManifest, End, ManifestAt
<1>5. CASE RegisterBegins
  BY <1>5 DEF RegisterBegins, MayRegister
<1>6. CASE WriteRegistration
  BY <1>6 DEF WriteRegistration, End
<1>7. CASE RevealBegins
  BY <1>7 DEF RevealBegins, MayReveal
<1>8. CASE CheckPool
  BY <1>8 DEF CheckPool, End, PoolUnchanged
<1>9. CASE WriteChallenge
  BY <1>9 DEF WriteChallenge
<1>10. CASE WriteReceipt
  BY <1>10 DEF WriteReceipt, End
<1>11. CASE KilledBetween
  BY <1>11 DEF KilledBetween, Kill
<1>12. CASE KilledWriting
  BY <1>12 DEF KilledWriting, Kill
<1>13. CASE EditPool
  BY <1>13 DEF EditPool, PoolInUse
<1>14. CASE EditCandidate
  BY <1>14 DEF EditCandidate
<1>15. CASE UNCHANGED vars
  BY <1>15 DEF vars
<1> QED
  BY <1>1, <1>2, <1>3, <1>4, <1>5, <1>6, <1>7, <1>8, <1>9, <1>10, <1>11, <1>12, <1>13, <1>14, <1>15 DEF Next

(* Every step keeps what is registered from before the challenge half.      *)
LEMMA BlindStep == IInv /\ [Next]_vars => BlindSoFar'
<1> SUFFICES ASSUME IInv, [Next]_vars PROVE BlindSoFar'
  OBVIOUS
<1>a. TypeOK /\ Revealing /\ Settled /\ BlindSoFar
  BY DEF IInv, Sealing
<1> USE <1>a DEF BlindSoFar, Settled, Go, NoMem, author, Readable
<1>1. ASSUME NEW k \in Keys, SealBegins(k) PROVE BlindSoFar'
  BY <1>1 DEF SealBegins
<1>2. CASE SealRefused
  BY <1>2 DEF SealRefused, End
<1>3. CASE WriteDevelopment
  BY <1>3 DEF WriteDevelopment
<1>4. CASE WriteManifest
  BY <1>4 DEF WriteManifest, End, ManifestAt
<1>5. CASE RegisterBegins
  BY <1>5 DEF RegisterBegins, MayRegister
<1>6. CASE WriteRegistration
  BY <1>6 DEF WriteRegistration, End
<1>7. CASE RevealBegins
  BY <1>7 DEF RevealBegins, MayReveal
<1>8. CASE CheckPool
  BY <1>8 DEF CheckPool, End, PoolUnchanged
<1>9. CASE WriteChallenge
  <2>1. pc = "challenge" /\ pc' = "receipt" /\ challenge' = mem.half
    BY <1>9 DEF WriteChallenge
  <2>2. mem.half \in Half /\ challenge' # NoFile
    BY <2>1 DEF Revealing
  <2>3. UNCHANGED <<author, mishaps, key, development, manifest, registration, receipt, mem>>
    BY <1>9 DEF WriteChallenge
  <2> QED
    BY <2>1, <2>2, <2>3
<1>10. CASE WriteReceipt
  <2>1. pc = "receipt" /\ pc' = "idle" /\ challenge' = challenge /\ UNCHANGED registration
    BY <1>10 DEF WriteReceipt, End
  <2>2. mem.half \in Half /\ mem.candidate \in Candidates /\ registration \in Registration
    BY <2>1 DEF Revealing
  <2>3. receipt' \in Receipt /\ receipt' # NoFile
    <3>1. receipt' = [registration |-> registration, candidate |-> mem.candidate,
                      challenge |-> mem.half]
      BY <1>10 DEF WriteReceipt
    <3> QED
      BY <3>1, <2>2 DEF Receipt
  <2> QED
    BY <1>10, <2>1, <2>3 DEF WriteReceipt, End
<1>11. CASE KilledBetween
  BY <1>11 DEF KilledBetween, Kill
<1>12. CASE KilledWriting
  BY <1>12 DEF KilledWriting, Kill
<1>13. CASE EditPool
  BY <1>13 DEF EditPool, PoolInUse
<1>14. CASE EditCandidate
  BY <1>14 DEF EditCandidate
<1>15. CASE UNCHANGED vars
  BY <1>15 DEF vars
<1> QED
  BY <1>1, <1>2, <1>3, <1>4, <1>5, <1>6, <1>7, <1>8, <1>9, <1>10, <1>11, <1>12, <1>13, <1>14, <1>15 DEF Next

(* Every step keeps the halves those of one pool.                           *)
LEMMA HalvesStep == IInv /\ [Next]_vars => HalvesSoFar'
<1> SUFFICES ASSUME IInv, [Next]_vars PROVE HalvesSoFar'
  OBVIOUS
<1>a. TypeOK /\ Revealing /\ Settled /\ HalvesSoFar
  BY DEF IInv, Sealing
<1> USE <1>a, Contents DEF HalvesSoFar, Consistent, Go, NoMem, author
<1>1. ASSUME NEW k \in Keys, SealBegins(k) PROVE HalvesSoFar'
  BY <1>1 DEF SealBegins
<1>2. CASE SealRefused
  BY <1>2 DEF SealRefused, End
<1>3. CASE WriteDevelopment
  BY <1>3 DEF WriteDevelopment
<1>4. CASE WriteManifest
  BY <1>4 DEF WriteManifest, End, ManifestAt
<1>5. CASE RegisterBegins
  BY <1>5 DEF RegisterBegins, MayRegister
<1>6. CASE WriteRegistration
  BY <1>6 DEF WriteRegistration, End
<1>7. CASE RevealBegins
  BY <1>7 DEF RevealBegins, MayReveal
<1>8. CASE CheckPool
  BY <1>8 DEF CheckPool, End, PoolUnchanged
<1>9. CASE WriteChallenge
  <2>1. pc = "challenge" /\ pc' = "receipt" /\ challenge' = mem.half
    BY <1>9 DEF WriteChallenge
  <2>2. mem.half \in Half /\ challenge' # NoFile
    BY <2>1 DEF Revealing
  <2>3. UNCHANGED <<author, mishaps, key, development, manifest, registration, receipt, mem>>
    BY <1>9 DEF WriteChallenge
  <2>4. receipt = NoFile
    BY <2>1 DEF Revealing
  <2> QED
    BY <2>1, <2>3, <2>4
<1>10. CASE WriteReceipt
  <2>1. pc = "receipt" /\ pc' = "idle" /\ UNCHANGED <<author, mishaps, manifest, registration, challenge>>
    BY <1>10 DEF WriteReceipt, End
  <2>2. receipt'.registration = registration /\ receipt'.challenge = mem.half
    BY <1>10 DEF WriteReceipt
  <2>3. /\ mem.half \in Half /\ registration \in Registration
        /\ registration.manifest = mem.manifest /\ mem.half.key = mem.manifest.half.key
    BY <2>1 DEF Revealing
  <2>4. ASSUME "edited" \notin mishaps
        PROVE  challenge = mem.half /\ mem.half = registration.manifest.half
    <3>1. mem.half.pool = registration.manifest.half.pool
      BY <2>1, <2>3, <2>4
    <3>2. registration.manifest.half \in Half
      BY <2>3 DEF Registration, Manifest
    <3> QED
      BY <2>1, <2>3, <2>4, <3>1, <3>2 DEF Half
  <2> QED
    BY <2>1, <2>2, <2>4
<1>11. CASE KilledBetween
  BY <1>11 DEF KilledBetween, Kill
<1>12. CASE KilledWriting
  <2>1. pc' = "idle" /\ ("edited" \notin mishaps' => "edited" \notin mishaps)
    BY <1>12 DEF KilledWriting, Kill
  <2>2. Torn \notin Manifest /\ Torn \notin Registration /\ Torn \notin Receipt
    OBVIOUS
  <2>3. manifest' \in {manifest, Torn} /\ registration' \in {registration, Torn}
    BY <1>12 DEF KilledWriting
  <2>4. receipt' \in Receipt => receipt' = receipt /\ challenge' = challenge
    <3>1. CASE pc = "receipt"
      BY <1>12, <2>2, <3>1 DEF KilledWriting
    <3>2. CASE pc = "challenge"
      BY <1>12, <2>2, <3>2 DEF KilledWriting, Revealing
    <3>3. CASE pc \notin {"receipt", "challenge"}
      BY <1>12, <3>3 DEF KilledWriting
    <3> QED
      BY <3>1, <3>2, <3>3
  <2> QED
    BY <2>1, <2>2, <2>3, <2>4
<1>13. CASE EditPool
  BY <1>13 DEF EditPool, PoolInUse
<1>14. CASE EditCandidate
  BY <1>14 DEF EditCandidate
<1>15. CASE UNCHANGED vars
  BY <1>15 DEF vars
<1> QED
  BY <1>1, <1>2, <1>3, <1>4, <1>5, <1>6, <1>7, <1>8, <1>9, <1>10, <1>11, <1>12, <1>13, <1>14, <1>15 DEF Next

(* The inductive invariant holds in every reachable state.                  *)
LEMMA IInvAlways == Spec => []IInv
<1>1. IInv /\ [Next]_vars => IInv'
  BY SealingStep, SettledStep, BlindStep, HalvesStep DEF IInv
<1> QED
  BY <1>1, InitIInv, PTL DEF Spec

(* TypeOK: the files of a sealed directory keep their types.                *)
THEOREM TypeCorrect == Spec => []TypeOK
  BY IInvAlways, PTL DEF IInv, Sealing

(* VerifiedIsBlind: unless a reveal was stopped between the challenge half  *)
(* and its receipt, a candidate that verifies existed before that half was  *)
(* on disk, whatever is sealed again, edited, registered, revealed or       *)
(* stopped elsewhere in whatever order.                                     *)
THEOREM Blind == Spec => []VerifiedIsBlind
<1>1. IInv => VerifiedIsBlind
  BY DEF IInv, BlindSoFar, VerifiedIsBlind, Verified
<1> QED
  BY <1>1, IInvAlways, PTL

(* VerifiedHalvesMatch: unless the pool was edited under a command, the     *)
(* halves of a revealed split that verifies are those of the sealed pool.   *)
THEOREM HalvesMatch == Spec => []VerifiedHalvesMatch
<1>1. IInv => VerifiedHalvesMatch
  BY Contents DEF IInv, Sealing, HalvesSoFar, Consistent, VerifiedHalvesMatch, Verified
<1> QED
  BY <1>1, IInvAlways, PTL

(* SpentIsFinal: a receipt closes the split.                                *)
THEOREM Final == Spec => SpentIsFinal
<1> DEFINE Same == receipt # NoFile => UNCHANGED <<registration, challenge, receipt>>
<1>a. ASSUME IInv, [Next]_vars PROVE Same
  <2> SUFFICES ASSUME receipt # NoFile PROVE UNCHANGED <<registration, challenge, receipt>>
    OBVIOUS
  <2>1. pc \in {"idle", "half", "manifest"}
    BY <1>a DEF IInv, Settled
  <2> QED
    BY <1>a, <2>1 DEF Next, vars, Go, End, Kill, SealBegins, SealRefused, WriteDevelopment,
       WriteManifest, RegisterBegins, WriteRegistration, RevealBegins, CheckPool, WriteChallenge,
       WriteReceipt, KilledBetween, KilledWriting, EditPool, EditCandidate
<1> QED
  BY <1>a, IInvAlways, PTL DEF Spec, SpentIsFinal
=============================================================================
