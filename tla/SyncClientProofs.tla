--------------------------- MODULE SyncClientProofs ---------------------------
(***************************************************************************)
(* The safety properties of SyncClient, for any number of calls,           *)
(* passphrases, contents and revisions.                                    *)
(*                                                                         *)
(* What the awaiting calls carry is what makes the properties inductive:   *)
(* which passphrase and which envelope each will put in place, and that    *)
(* the revision of a sync has not been sent yet.  Two calls under way are  *)
(* in crossed, so a call whose kind is not there is alone.                 *)
(***************************************************************************)
EXTENDS SyncClient, TLAPS

(* What a call under way carries. *)
CallFits(c) ==
  /\ op[c].kind # "none" => op[c].env \in Envelope /\ op[c].passphrase \in Passphrases
  /\ op[c].kind = "sync" => op[c].remote \in Provider
  /\ op[c].kind = "set" \/ At(c, "sync", "encrypt") => op[c].env.passphrase = op[c].passphrase
  /\ op[c].kind = "unlock" => envelope # Absent
  /\ op[c].kind = "export" => "export" \in crossed

(* The sync button lets one sync through at a time, and the history has every
   kind of calls that are under way together. *)
CallsFit ==
  /\ \A c \in Calls : CallFits(c)
  /\ \A c, d \in Calls : op[c].kind = "sync" /\ op[d].kind = "sync" => c = d
  /\ \A c, d \in Calls : c # d /\ op[c].kind # "none" /\ op[d].kind # "none" =>
       {op[c].kind, op[d].kind} \subseteq crossed

(* The dialogue never shows a vault that is not there, and only a set unlocks
   a vault before it is stored. *)
VaultFits ==
  /\ shown.vault => envelope # Absent
  /\ activePassphrase # Absent /\ envelope = Absent => \E c \in Calls : op[c].kind = "set"

(* The revisions sent are stored ones, and the one to be sent next is not
   among them. *)
RevisionsFit ==
  /\ \A a \in pushed : a[1] <= revision
  /\ \A c \in Calls :
       /\ At(c, "sync", "encrypt") => op[c].env.revision = revision + 1
       /\ At(c, "sync", "fetch") => op[c].env.revision = revision /\ \A a \in pushed : a[1] < revision
       /\ At(c, "sync", "merge") => op[c].env.revision > revision
  /\ RevisionsNotReused

(* Unless a call with a passphrase of its own overlapped another one, every
   passphrase in use opens the stored envelope. *)
KeyFits ==
  /\ envelope # Absent => shown.vault
  /\ envelope # Absent /\ activePassphrase # Absent => Opens(activePassphrase, envelope)
  /\ \A c \in Calls :
       /\ op[c].kind = "set" => activePassphrase \in {op[c].passphrase, Absent}
       /\ op[c].kind = "unlock" => op[c].env.passphrase = envelope.passphrase
       /\ op[c].kind = "sync" => envelope # Absent
       /\ At(c, "sync", "encrypt") \/ At(c, "sync", "merge") => Opens(op[c].passphrase, envelope)

(* Unless calls other than unlocks overlapped, the stored envelope is of the
   user's data where a call ends in, or leaves, the status 'synced'. *)
StoredFits ==
  /\ (\A c \in Calls : op[c].kind \in {"none", "import", "unlock"}) /\ syncStatus = "synced" /\ ~edited =>
       envelope # Absent /\ envelope.data \in {localData, Empty}
  /\ \A c \in Calls :
       /\ op[c].kind = "unlock" => op[c].env = envelope
       /\ (op[c].kind = "set" \/ At(c, "sync", "encrypt")) /\ ~edited => op[c].env.data = localData
       /\ (At(c, "sync", "fetch") \/ At(c, "sync", "json") \/ At(c, "sync", "merge")) /\ ~edited =>
            envelope # Absent /\ envelope.data \in {localData, Empty}

OwnPassphrase == {"set", "import", "export"}

SyncInv ==
  /\ SyncTypeOK /\ CallsFit /\ VaultFits /\ RevisionsFit
  /\ crossed \cap OwnPassphrase = {} => KeyFits
  /\ crossed \subseteq {"unlock"} => StoredFits

USE DEF At, Opens, NoOp, stored, Content, Provider, OwnPassphrase

(* What starting a call does to the calls and to the history of overlaps. *)
LEMMA StartFacts ==
  ASSUME SyncTypeOK, CallsFit, NEW c \in Calls, NEW k \in Kinds,
         NEW at \in {"encrypt", "decrypt"}, NEW p \in Passphrases, NEW env \in Envelope,
         NEW r \in Provider \cup {Absent}, Start(c, k, at, p, env, r)
  PROVE  /\ op' \in [Calls -> OpType]
         /\ op[c] = NoOp
         /\ op'[c] = [kind |-> k, at |-> at, passphrase |-> p, env |-> env, remote |-> r]
         /\ \A d \in Calls : d # c => op'[d] = op[d]
         /\ crossed \subseteq crossed' /\ crossed' \subseteq Kinds
         /\ \A d \in Calls : op[d].kind # "none" => {k, op[d].kind} \subseteq crossed'
         /\ \A d, e \in Calls : d # e /\ op'[d].kind # "none" /\ op'[e].kind # "none" =>
              {op'[d].kind, op'[e].kind} \subseteq crossed'
  <1>1. /\ op[c] = NoOp
        /\ op' = [op EXCEPT ![c] = [kind |-> k, at |-> at, passphrase |-> p, env |-> env,
                                    remote |-> r]]
        /\ crossed' = IF UnderWay = {} THEN crossed ELSE crossed \cup UnderWay \cup {k}
    BY DEF Start
  <1>2. op \in [Calls -> OpType] /\ crossed \subseteq Kinds
    BY DEF SyncTypeOK
  <1>3. [kind |-> k, at |-> at, passphrase |-> p, env |-> env, remote |-> r] \in OpType
    BY DEF OpType
  <1>4. /\ op' \in [Calls -> OpType]
        /\ op'[c] = [kind |-> k, at |-> at, passphrase |-> p, env |-> env, remote |-> r]
        /\ \A d \in Calls : d # c => op'[d] = op[d]
    BY <1>1, <1>2, <1>3
  <1>5. UnderWay \subseteq Kinds
    BY <1>2 DEF UnderWay, OpType
  <1>6. crossed \subseteq crossed' /\ crossed' \subseteq Kinds
    BY <1>1, <1>2, <1>5
  <1>7. ASSUME NEW d \in Calls, op[d].kind # "none" PROVE {k, op[d].kind} \subseteq crossed'
    <2>1. op[d].kind \in UnderWay
      BY <1>7 DEF UnderWay
    <2> QED
      BY <1>1, <2>1
  <1>8. \A d, e \in Calls : d # e /\ op[d].kind # "none" /\ op[e].kind # "none" =>
          {op[d].kind, op[e].kind} \subseteq crossed
    BY DEF CallsFit
  <1>9. ASSUME NEW d \in Calls, NEW e \in Calls, d # e, op'[d].kind # "none", op'[e].kind # "none"
        PROVE  {op'[d].kind, op'[e].kind} \subseteq crossed'
    <2>1. CASE d = c
      <3>1. op'[d].kind = k /\ op'[e].kind = op[e].kind
        BY <1>4, <1>9, <2>1
      <3> QED
        BY <1>7, <1>9, <3>1
    <2>2. CASE e = c
      <3>1. op'[e].kind = k /\ op'[d].kind = op[d].kind
        BY <1>4, <1>9, <2>2
      <3> QED
        BY <1>7, <1>9, <3>1
    <2>3. CASE d # c /\ e # c
      BY <1>4, <1>6, <1>8, <1>9, <2>3
    <2> QED
      BY <2>1, <2>2, <2>3
  <1> QED
    BY <1>1, <1>4, <1>6, <1>7, <1>9

(* A returning call leaves the other calls as they are. *)
LEMMA ReturnFacts ==
  ASSUME SyncTypeOK, NEW c \in Calls, Return(c)
  PROVE  /\ op' \in [Calls -> OpType] /\ op'[c] = NoOp
         /\ \A d \in Calls : d # c => op'[d] = op[d]
  <1>1. op \in [Calls -> OpType] /\ NoOp \in OpType
    BY DEF SyncTypeOK, OpType
  <1> QED
    BY <1>1 DEF Return

(* A call whose kind is not in the history of overlaps is alone. *)
LEMMA Alone ==
  ASSUME CallsFit, NEW c \in Calls, op[c].kind # "none", op[c].kind \notin crossed
  PROVE  \A d \in Calls : d # c => op[d].kind = "none"
  BY DEF CallsFit

(* A client without a passphrase has no call under way and nothing stored. *)
LEMMA SyncInvInit == SyncInit => SyncInv
  <1> SUFFICES ASSUME SyncInit PROVE SyncInv
    OBVIOUS
  <1>1. SyncTypeOK
    <2>1. NoOp \in OpType /\ 0 \in 0..MaxRevision
      BY MaxRevisionAssumption DEF OpType
    <2> QED
      BY <2>1 DEF SyncInit, SyncTypeOK
  <1>2. \A c \in Calls : op[c] = NoOp
    BY DEF SyncInit
  <1>3. CallsFit /\ VaultFits /\ RevisionsFit /\ KeyFits /\ StoredFits
    BY <1>2 DEF SyncInit, CallsFit, CallFits, VaultFits, RevisionsFit, RevisionsNotReused, KeyFits,
                StoredFits
  <1> QED
    BY <1>1, <1>3 DEF SyncInv

(* setMasterPassphrase up to its await. *)
LEMMA SetStarts ==
  ASSUME SyncInv, NEW c \in Calls, NEW p \in Passphrases, SetMasterPassphrase(c, p)
  PROVE  SyncInv'
  <1> USE MaxRevisionAssumption, AbsentAssumption, EmptyAssumption
  <1>1. /\ SyncTypeOK /\ CallsFit /\ VaultFits /\ RevisionsFit
        /\ crossed \cap OwnPassphrase = {} => KeyFits
        /\ crossed \subseteq {"unlock"} => StoredFits
    BY DEF SyncInv
  <1>2. UNCHANGED <<syncStatus, localData, envelope, revision, shown, server, pushed>> /\ activePassphrase' = p /\ edited' = FALSE /\ ~shown.vault
    BY <1>1 DEF SetMasterPassphrase, VaultFits, Refresh
  <1>3. Sealed(1, p) \in Envelope
    BY <1>1, <1>2 DEF SetMasterPassphrase, SyncTypeOK, Envelope, Sealed, VaultFits
  <1>4. /\ op' \in [Calls -> OpType]
        /\ op[c] = NoOp
        /\ op'[c] = [kind |-> "set", at |-> "encrypt", passphrase |-> p, env |-> Sealed(1, p), remote |-> Absent]
        /\ \A d \in Calls : d # c => op'[d] = op[d]
        /\ crossed \subseteq crossed' /\ crossed' \subseteq Kinds
        /\ \A d \in Calls : op[d].kind # "none" => {"set", op[d].kind} \subseteq crossed'
        /\ \A d, e \in Calls : d # e /\ op'[d].kind # "none" /\ op'[e].kind # "none" =>
             {op'[d].kind, op'[e].kind} \subseteq crossed'
    BY <1>1, <1>3, StartFacts DEF SetMasterPassphrase, Kinds, SyncTypeOK
  <1>5. Sealed(1, p).data = localData /\ Sealed(1, p).passphrase = p
    BY DEF Sealed
  <1>6. SyncTypeOK'
    BY <1>1, <1>2, <1>3, <1>4, <1>5 DEF SyncTypeOK
  <1>7. CallsFit'
    BY <1>1, <1>2, <1>3, <1>4, <1>5 DEF CallsFit, CallFits
  <1>8. VaultFits'
    BY <1>1, <1>2, <1>3, <1>4, <1>5 DEF VaultFits
  <1>9. RevisionsFit'
    BY <1>1, <1>2, <1>3, <1>4, <1>5 DEF RevisionsFit, RevisionsNotReused
  <1>10. ASSUME crossed' \cap OwnPassphrase = {} PROVE KeyFits'
    BY <1>1, <1>2, <1>3, <1>4, <1>5, <1>10 DEF KeyFits
  <1>11. ASSUME crossed' \subseteq {"unlock"} PROVE StoredFits'
    BY <1>1, <1>2, <1>3, <1>4, <1>5, <1>11 DEF StoredFits
  <1> QED
    BY <1>6, <1>7, <1>8, <1>9, <1>10, <1>11 DEF SyncInv

(* unlockVault up to its await. *)
LEMMA UnlockStarts ==
  ASSUME SyncInv, NEW c \in Calls, NEW p \in Passphrases, UnlockVault(c, p)
  PROVE  SyncInv'
  <1> USE MaxRevisionAssumption, AbsentAssumption, EmptyAssumption
  <1>1. /\ SyncTypeOK /\ CallsFit /\ VaultFits /\ RevisionsFit
        /\ crossed \cap OwnPassphrase = {} => KeyFits
        /\ crossed \subseteq {"unlock"} => StoredFits
    BY DEF SyncInv
  <1>2. UNCHANGED <<activePassphrase, syncStatus, localData, envelope, revision, shown, server, pushed, edited>> /\ envelope # Absent
    BY <1>1 DEF UnlockVault, VaultFits, Refresh
  <1>3. envelope \in Envelope
    BY <1>1, <1>2 DEF UnlockVault, SyncTypeOK, Envelope, Sealed, VaultFits
  <1>4. /\ op' \in [Calls -> OpType]
        /\ op[c] = NoOp
        /\ op'[c] = [kind |-> "unlock", at |-> "decrypt", passphrase |-> p, env |-> envelope, remote |-> Absent]
        /\ \A d \in Calls : d # c => op'[d] = op[d]
        /\ crossed \subseteq crossed' /\ crossed' \subseteq Kinds
        /\ \A d \in Calls : op[d].kind # "none" => {"unlock", op[d].kind} \subseteq crossed'
        /\ \A d, e \in Calls : d # e /\ op'[d].kind # "none" /\ op'[e].kind # "none" =>
             {op'[d].kind, op'[e].kind} \subseteq crossed'
    BY <1>1, <1>3, StartFacts DEF UnlockVault, Kinds, SyncTypeOK
  <1>5. SyncTypeOK'
    BY <1>1, <1>2, <1>3, <1>4 DEF SyncTypeOK
  <1>6. CallsFit'
    BY <1>1, <1>2, <1>3, <1>4 DEF CallsFit, CallFits
  <1>7. VaultFits'
    BY <1>1, <1>2, <1>3, <1>4 DEF VaultFits
  <1>8. RevisionsFit'
    BY <1>1, <1>2, <1>3, <1>4 DEF RevisionsFit, RevisionsNotReused
  <1>9. ASSUME crossed' \cap OwnPassphrase = {} PROVE KeyFits'
    BY <1>1, <1>2, <1>3, <1>4, <1>9 DEF KeyFits
  <1>10. ASSUME crossed' \subseteq {"unlock"} PROVE StoredFits'
    BY <1>1, <1>2, <1>3, <1>4, <1>10 DEF StoredFits
  <1> QED
    BY <1>5, <1>6, <1>7, <1>8, <1>9, <1>10 DEF SyncInv

(* importEncryptedVaultFile up to its await. *)
LEMMA ImportStarts ==
  ASSUME SyncInv, NEW c \in Calls, NEW file \in Files, NEW p \in Passphrases, ImportVault(c, file, p)
  PROVE  SyncInv'
  <1> USE MaxRevisionAssumption, AbsentAssumption, EmptyAssumption
  <1>1. /\ SyncTypeOK /\ CallsFit /\ VaultFits /\ RevisionsFit
        /\ crossed \cap OwnPassphrase = {} => KeyFits
        /\ crossed \subseteq {"unlock"} => StoredFits
    BY DEF SyncInv
  <1>2. UNCHANGED <<activePassphrase, syncStatus, localData, envelope, revision, shown, server, pushed, edited>>
    BY <1>1 DEF ImportVault, VaultFits, Refresh
  <1>3. file \in Envelope
    BY <1>1, <1>2, FilesAssumption DEF ImportVault, SyncTypeOK, Envelope, Sealed, VaultFits
  <1>4. /\ op' \in [Calls -> OpType]
        /\ op[c] = NoOp
        /\ op'[c] = [kind |-> "import", at |-> "decrypt", passphrase |-> p, env |-> file, remote |-> Absent]
        /\ \A d \in Calls : d # c => op'[d] = op[d]
        /\ crossed \subseteq crossed' /\ crossed' \subseteq Kinds
        /\ \A d \in Calls : op[d].kind # "none" => {"import", op[d].kind} \subseteq crossed'
        /\ \A d, e \in Calls : d # e /\ op'[d].kind # "none" /\ op'[e].kind # "none" =>
             {op'[d].kind, op'[e].kind} \subseteq crossed'
    BY <1>1, <1>3, StartFacts DEF ImportVault, Kinds, SyncTypeOK
  <1>5. SyncTypeOK'
    BY <1>1, <1>2, <1>3, <1>4 DEF SyncTypeOK
  <1>6. CallsFit'
    BY <1>1, <1>2, <1>3, <1>4 DEF CallsFit, CallFits
  <1>7. VaultFits'
    BY <1>1, <1>2, <1>3, <1>4 DEF VaultFits
  <1>8. RevisionsFit'
    BY <1>1, <1>2, <1>3, <1>4 DEF RevisionsFit, RevisionsNotReused
  <1>9. ASSUME crossed' \cap OwnPassphrase = {} PROVE KeyFits'
    BY <1>1, <1>2, <1>3, <1>4, <1>9 DEF KeyFits
  <1>10. ASSUME crossed' \subseteq {"unlock"} PROVE StoredFits'
    BY <1>1, <1>2, <1>3, <1>4, <1>10 DEF StoredFits
  <1> QED
    BY <1>5, <1>6, <1>7, <1>8, <1>9, <1>10 DEF SyncInv

(* exportEncryptedVaultFile before the first envelope, up to its await. *)
LEMMA ExportStarts ==
  ASSUME SyncInv, NEW c \in Calls, ExportVault(c)
  PROVE  SyncInv'
  <1> USE MaxRevisionAssumption, AbsentAssumption, EmptyAssumption
  <1>1. /\ SyncTypeOK /\ CallsFit /\ VaultFits /\ RevisionsFit
        /\ crossed \cap OwnPassphrase = {} => KeyFits
        /\ crossed \subseteq {"unlock"} => StoredFits
    BY DEF SyncInv
  <1>2. UNCHANGED <<activePassphrase, syncStatus, localData, envelope, revision, shown, server, pushed, edited>> /\ envelope = Absent /\ activePassphrase # Absent
    BY <1>1 DEF ExportVault, VaultFits, Refresh
  <1>3. Sealed(1, activePassphrase) \in Envelope
    BY <1>1, <1>2 DEF ExportVault, SyncTypeOK, Envelope, Sealed, VaultFits
  <1>4. /\ op' \in [Calls -> OpType]
        /\ op[c] = NoOp
        /\ op'[c] = [kind |-> "export", at |-> "encrypt", passphrase |-> activePassphrase, env |-> Sealed(1, activePassphrase), remote |-> Absent]
        /\ \A d \in Calls : d # c => op'[d] = op[d]
        /\ crossed \subseteq crossed' /\ crossed' \subseteq Kinds
        /\ \A d \in Calls : op[d].kind # "none" => {"export", op[d].kind} \subseteq crossed'
        /\ \A d, e \in Calls : d # e /\ op'[d].kind # "none" /\ op'[e].kind # "none" =>
             {op'[d].kind, op'[e].kind} \subseteq crossed'
    BY <1>1, <1>3, StartFacts DEF ExportVault, Kinds, SyncTypeOK
  <1>5. "export" \in crossed' /\ activePassphrase \in Passphrases
    BY <1>1, <1>2, <1>4 DEF VaultFits, SyncTypeOK
  <1>6. SyncTypeOK'
    BY <1>1, <1>2, <1>3, <1>4, <1>5 DEF SyncTypeOK
  <1>7. CallsFit'
    BY <1>1, <1>2, <1>3, <1>4, <1>5 DEF CallsFit, CallFits
  <1>8. VaultFits'
    BY <1>1, <1>2, <1>3, <1>4, <1>5 DEF VaultFits
  <1>9. RevisionsFit'
    BY <1>1, <1>2, <1>3, <1>4, <1>5 DEF RevisionsFit, RevisionsNotReused
  <1>10. ASSUME crossed' \cap OwnPassphrase = {} PROVE KeyFits'
    BY <1>1, <1>2, <1>3, <1>4, <1>5, <1>10 DEF KeyFits
  <1>11. ASSUME crossed' \subseteq {"unlock"} PROVE StoredFits'
    BY <1>1, <1>2, <1>3, <1>4, <1>5, <1>11 DEF StoredFits
  <1> QED
    BY <1>6, <1>7, <1>8, <1>9, <1>10, <1>11 DEF SyncInv

(* syncNow up to its first await. *)
LEMMA SyncStarts ==
  ASSUME SyncInv, NEW c \in Calls, NEW cfg \in Provider, SyncNow(c, cfg)
  PROVE  SyncInv'
  <1> USE MaxRevisionAssumption, AbsentAssumption, EmptyAssumption
  <1>1. /\ SyncTypeOK /\ CallsFit /\ VaultFits /\ RevisionsFit
        /\ crossed \cap OwnPassphrase = {} => KeyFits
        /\ crossed \subseteq {"unlock"} => StoredFits
    BY DEF SyncInv
  <1>2. UNCHANGED <<activePassphrase, localData, envelope, revision, server, pushed>> /\ edited' = FALSE /\ syncStatus' = "syncing"
        /\ activePassphrase # Absent
        /\ shown' = [unlocked |-> activePassphrase' # Absent, vault |-> envelope' # Absent]
    BY <1>1 DEF SyncNow, VaultFits, Refresh
  <1>3. Sealed(revision + 1, activePassphrase) \in Envelope
    BY <1>1, <1>2 DEF SyncNow, SyncTypeOK, Envelope, Sealed, VaultFits
  <1>4. /\ op' \in [Calls -> OpType]
        /\ op[c] = NoOp
        /\ op'[c] = [kind |-> "sync", at |-> "encrypt", passphrase |-> activePassphrase, env |-> Sealed(revision + 1, activePassphrase), remote |-> cfg]
        /\ \A d \in Calls : d # c => op'[d] = op[d]
        /\ crossed \subseteq crossed' /\ crossed' \subseteq Kinds
        /\ \A d \in Calls : op[d].kind # "none" => {"sync", op[d].kind} \subseteq crossed'
        /\ \A d, e \in Calls : d # e /\ op'[d].kind # "none" /\ op'[e].kind # "none" =>
             {op'[d].kind, op'[e].kind} \subseteq crossed'
    BY <1>1, <1>3, StartFacts DEF SyncNow, Kinds, SyncTypeOK
  <1>5. /\ Sealed(revision + 1, activePassphrase).data = localData
        /\ Sealed(revision + 1, activePassphrase).passphrase = activePassphrase
        /\ Sealed(revision + 1, activePassphrase).revision = revision + 1
    BY DEF Sealed
  <1>6. \A d \in Calls : op[d].kind # "sync"
    BY <1>4 DEF SyncNow, UnderWay
  <1>7. crossed' \cap OwnPassphrase = {} => envelope # Absent
    BY <1>1, <1>2, <1>4 DEF VaultFits
  <1>8. activePassphrase \in Passphrases /\ \A d \in Calls : op[d].kind = "set" => op'[d].kind = "set"
    BY <1>1, <1>2, <1>4 DEF SyncTypeOK
  <1>9. SyncTypeOK'
    BY <1>1, <1>2, <1>3, <1>4, <1>5, <1>6, <1>7, <1>8 DEF SyncTypeOK
  <1>10. CallsFit'
    BY <1>1, <1>2, <1>3, <1>4, <1>5, <1>6, <1>7, <1>8 DEF CallsFit, CallFits
  <1>11. VaultFits'
    BY <1>1, <1>2, <1>3, <1>4, <1>5, <1>6, <1>7, <1>8 DEF VaultFits
  <1>12. RevisionsFit'
    BY <1>1, <1>2, <1>3, <1>4, <1>5, <1>6, <1>7, <1>8 DEF RevisionsFit, RevisionsNotReused
  <1>13. ASSUME crossed' \cap OwnPassphrase = {} PROVE KeyFits'
    <2>1. KeyFits /\ envelope # Absent /\ activePassphrase = envelope.passphrase
      BY <1>1, <1>2, <1>4, <1>7, <1>13 DEF KeyFits
    <2>2. ASSUME NEW d \in Calls
          PROVE  /\ op'[d].kind = "set" => activePassphrase \in {op'[d].passphrase, Absent}
                 /\ op'[d].kind = "unlock" => op'[d].env.passphrase = envelope.passphrase
                 /\ At(d, "sync", "encrypt")' \/ At(d, "sync", "merge")' =>
                      op'[d].passphrase = envelope.passphrase
      <3>1. CASE d = c
        BY <1>4, <2>1, <3>1
      <3>2. CASE d # c
        BY <1>4, <2>1, <3>2 DEF KeyFits
      <3> QED
        BY <3>1, <3>2
    <2> QED
      BY <1>2, <2>1, <2>2 DEF KeyFits
  <1>14. ASSUME crossed' \subseteq {"unlock"} PROVE StoredFits'
    BY <1>1, <1>2, <1>3, <1>4, <1>5, <1>6, <1>7, <1>8, <1>14 DEF StoredFits
  <1> QED
    BY <1>9, <1>10, <1>11, <1>12, <1>13, <1>14 DEF SyncInv

(* setMasterPassphrase after its await. *)
LEMMA SetEnds ==
  ASSUME SyncInv, NEW c \in Calls, MasterPassphraseSet(c)
  PROVE  SyncInv'
  <1> USE MaxRevisionAssumption, AbsentAssumption, EmptyAssumption
  <1>1. /\ SyncTypeOK /\ CallsFit /\ VaultFits /\ RevisionsFit
        /\ crossed \cap OwnPassphrase = {} => KeyFits
        /\ crossed \subseteq {"unlock"} => StoredFits
    BY DEF SyncInv
  <1>2. UNCHANGED <<activePassphrase, localData, revision, server, pushed, edited, crossed>> /\ At(c, "set", "encrypt")
    BY DEF MasterPassphraseSet
  <1>3. /\ op' \in [Calls -> OpType] /\ op'[c] = NoOp
        /\ \A d \in Calls : d # c => op'[d] = op[d]
    BY <1>1, ReturnFacts DEF MasterPassphraseSet
  <1>4. /\ op[c].env \in Envelope /\ op[c].passphrase \in Passphrases
        /\ op[c].env.revision \in 1..MaxRevision /\ op[c].env.data \in Data \cup {Empty}
        /\ op[c].env.passphrase \in Passphrases
    BY <1>1, <1>2 DEF CallsFit, CallFits, Envelope
  <1>5. envelope' = op[c].env /\ syncStatus' = "synced" /\ shown' = [unlocked |-> activePassphrase' # Absent, vault |-> envelope' # Absent]
    BY DEF MasterPassphraseSet, Refresh
  <1>6. crossed \cap OwnPassphrase = {} => \A d \in Calls : op'[d].kind = "none"
    BY <1>1, <1>2, <1>3, Alone
  <1>7. op[c].kind \notin crossed => \A d \in Calls : d # c => op[d].kind = "none"
    BY <1>1, <1>2, Alone
  <1>8. SyncTypeOK'
    BY <1>1, <1>2, <1>3, <1>4, <1>5, <1>6, <1>7 DEF SyncTypeOK
  <1>9. CallsFit'
    BY <1>1, <1>2, <1>3, <1>4, <1>5, <1>6, <1>7 DEF CallsFit, CallFits
  <1>10. VaultFits'
    BY <1>1, <1>2, <1>3, <1>4, <1>5, <1>6, <1>7 DEF VaultFits, CallsFit, CallFits
  <1>11. RevisionsFit'
    BY <1>1, <1>2, <1>3, <1>4, <1>5, <1>6, <1>7 DEF RevisionsFit, RevisionsNotReused
  <1>12. ASSUME crossed' \cap OwnPassphrase = {} PROVE KeyFits'
    BY <1>1, <1>2, <1>3, <1>4, <1>5, <1>6, <1>7, <1>12 DEF KeyFits, CallsFit, CallFits
  <1>13. ASSUME crossed' \subseteq {"unlock"} PROVE StoredFits'
    BY <1>1, <1>2, <1>3, <1>4, <1>5, <1>6, <1>7, <1>13 DEF StoredFits, CallsFit, CallFits
  <1> QED
    BY <1>8, <1>9, <1>10, <1>11, <1>12, <1>13 DEF SyncInv

(* unlockVault after its await. *)
LEMMA UnlockEnds ==
  ASSUME SyncInv, NEW c \in Calls, Unlocked(c)
  PROVE  SyncInv'
  <1> USE MaxRevisionAssumption, AbsentAssumption, EmptyAssumption
  <1>1. /\ SyncTypeOK /\ CallsFit /\ VaultFits /\ RevisionsFit
        /\ crossed \cap OwnPassphrase = {} => KeyFits
        /\ crossed \subseteq {"unlock"} => StoredFits
    BY DEF SyncInv
  <1>2. UNCHANGED <<envelope, revision, server, pushed, crossed>> /\ At(c, "unlock", "decrypt")
    BY DEF Unlocked
  <1>3. /\ op' \in [Calls -> OpType] /\ op'[c] = NoOp
        /\ \A d \in Calls : d # c => op'[d] = op[d]
    BY <1>1, ReturnFacts DEF Unlocked
  <1>4. /\ op[c].env \in Envelope /\ op[c].passphrase \in Passphrases
        /\ op[c].env.revision \in 1..MaxRevision /\ op[c].env.data \in Data \cup {Empty}
        /\ op[c].env.passphrase \in Passphrases
    BY <1>1, <1>2 DEF CallsFit, CallFits, Envelope
  <1>5. /\ \/ /\ op[c].passphrase = op[c].env.passphrase
              /\ activePassphrase' = op[c].passphrase /\ syncStatus' = "synced"
              /\ localData' = IF op[c].env.data = Empty THEN localData ELSE op[c].env.data
              /\ edited' = (edited /\ op[c].env.data = Empty)
           \/ /\ syncStatus' = "locked" /\ UNCHANGED <<activePassphrase, localData, edited>>
        /\ shown' = [unlocked |-> activePassphrase' # Absent, vault |-> envelope' # Absent]
    BY DEF Unlocked, ApplyInbound, Refresh
  <1>6. crossed \cap OwnPassphrase = {} => \A d \in Calls : op'[d].kind # "set"
    BY <1>1, <1>2, <1>3 DEF CallsFit
  <1>7. op[c].kind \notin crossed => \A d \in Calls : d # c => op[d].kind = "none"
    BY <1>1, <1>2, Alone
  <1>8. SyncTypeOK'
    BY <1>1, <1>2, <1>3, <1>4, <1>5, <1>6, <1>7 DEF SyncTypeOK
  <1>9. CallsFit'
    BY <1>1, <1>2, <1>3, <1>4, <1>5, <1>6, <1>7 DEF CallsFit, CallFits
  <1>10. VaultFits'
    BY <1>1, <1>2, <1>3, <1>4, <1>5, <1>6, <1>7 DEF VaultFits, CallsFit, CallFits
  <1>11. RevisionsFit'
    BY <1>1, <1>2, <1>3, <1>4, <1>5, <1>6, <1>7 DEF RevisionsFit, RevisionsNotReused
  <1>12. ASSUME crossed' \cap OwnPassphrase = {} PROVE KeyFits'
    <2>1. KeyFits /\ envelope # Absent
      BY <1>1, <1>2, <1>12 DEF CallsFit, CallFits
    <2>2. op[c].env.passphrase = envelope.passphrase
      BY <1>2, <2>1 DEF KeyFits
    <2>3. ASSUME NEW d \in Calls
          PROVE  /\ op'[d].kind # "set"
                 /\ op'[d].kind = "unlock" => op'[d].env.passphrase = envelope.passphrase
                 /\ At(d, "sync", "encrypt")' \/ At(d, "sync", "merge")' =>
                      op'[d].passphrase = envelope.passphrase
      <3>1. CASE d = c
        BY <1>3, <3>1
      <3>2. CASE d # c
        BY <1>2, <1>3, <1>6, <1>12, <2>1, <3>2 DEF KeyFits
      <3> QED
        BY <3>1, <3>2
    <2>4. activePassphrase' # Absent => activePassphrase' = envelope.passphrase
      BY <1>5, <2>1, <2>2 DEF KeyFits
    <2> QED
      BY <1>2, <1>5, <2>1, <2>3, <2>4 DEF KeyFits
  <1>13. ASSUME crossed' \subseteq {"unlock"} PROVE StoredFits'
    BY <1>1, <1>2, <1>3, <1>4, <1>5, <1>6, <1>7, <1>13 DEF StoredFits, CallsFit, CallFits
  <1> QED
    BY <1>8, <1>9, <1>10, <1>11, <1>12, <1>13 DEF SyncInv

(* importEncryptedVaultFile after its await. *)
LEMMA ImportEnds ==
  ASSUME SyncInv, NEW c \in Calls, Imported(c)
  PROVE  SyncInv'
  <1> USE MaxRevisionAssumption, AbsentAssumption, EmptyAssumption
  <1>1. /\ SyncTypeOK /\ CallsFit /\ VaultFits /\ RevisionsFit
        /\ crossed \cap OwnPassphrase = {} => KeyFits
        /\ crossed \subseteq {"unlock"} => StoredFits
    BY DEF SyncInv
  <1>2. UNCHANGED <<revision, server, pushed, crossed>> /\ At(c, "import", "decrypt")
    BY DEF Imported
  <1>3. /\ op' \in [Calls -> OpType] /\ op'[c] = NoOp
        /\ \A d \in Calls : d # c => op'[d] = op[d]
    BY <1>1, ReturnFacts DEF Imported
  <1>4. /\ op[c].env \in Envelope /\ op[c].passphrase \in Passphrases
        /\ op[c].env.revision \in 1..MaxRevision /\ op[c].env.data \in Data \cup {Empty}
        /\ op[c].env.passphrase \in Passphrases
    BY <1>1, <1>2 DEF CallsFit, CallFits, Envelope
  <1>5. \/ /\ op[c].passphrase = op[c].env.passphrase
           /\ activePassphrase' = op[c].passphrase /\ envelope' = op[c].env /\ syncStatus' = "synced"
           /\ localData' = IF op[c].env.data = Empty THEN localData ELSE op[c].env.data
           /\ edited' = (edited /\ op[c].env.data = Empty)
           /\ shown' = [unlocked |-> activePassphrase' # Absent, vault |-> envelope' # Absent]
        \/ UNCHANGED <<activePassphrase, syncStatus, localData, envelope, shown, edited>>
    BY DEF Imported, ApplyInbound, Refresh
  <1>6. crossed \cap OwnPassphrase = {} => \A d \in Calls : op'[d].kind = "none"
    BY <1>1, <1>2, <1>3, Alone
  <1>7. op[c].kind \notin crossed => \A d \in Calls : d # c => op[d].kind = "none"
    BY <1>1, <1>2, Alone
  <1>8. localData' \in Data \cup {Empty} /\ edited' \in BOOLEAN /\ syncStatus' \in {"locked", "synced", "syncing", "offline", "error"}
    BY <1>1, <1>4, <1>5 DEF SyncTypeOK
  <1>9. shown' \in [unlocked : BOOLEAN, vault : BOOLEAN]
    <2>1. shown \in [unlocked : BOOLEAN, vault : BOOLEAN]
      BY <1>1 DEF SyncTypeOK
    <2>2. [unlocked |-> activePassphrase' # Absent, vault |-> envelope' # Absent] \in
            [unlocked : BOOLEAN, vault : BOOLEAN]
      OBVIOUS
    <2> QED
      BY <1>5, <2>1, <2>2
  <1>10. SyncTypeOK'
    BY <1>1, <1>2, <1>3, <1>4, <1>5, <1>6, <1>7, <1>8, <1>9 DEF SyncTypeOK
  <1>11. CallsFit'
    BY <1>1, <1>2, <1>3, <1>4, <1>5, <1>6, <1>7, <1>8, <1>9 DEF CallsFit, CallFits
  <1>12. VaultFits'
    BY <1>1, <1>2, <1>3, <1>4, <1>5, <1>6, <1>7, <1>8, <1>9 DEF VaultFits, CallsFit, CallFits
  <1>13. RevisionsFit'
    BY <1>1, <1>2, <1>3, <1>4, <1>5, <1>6, <1>7, <1>8, <1>9 DEF RevisionsFit, RevisionsNotReused
  <1>14. ASSUME crossed' \cap OwnPassphrase = {} PROVE KeyFits'
    BY <1>1, <1>2, <1>3, <1>4, <1>5, <1>6, <1>7, <1>8, <1>9, <1>14 DEF KeyFits, CallsFit, CallFits
  <1>15. ASSUME crossed' \subseteq {"unlock"} PROVE StoredFits'
    BY <1>1, <1>2, <1>3, <1>4, <1>5, <1>6, <1>7, <1>8, <1>9, <1>15 DEF StoredFits, CallsFit, CallFits
  <1> QED
    BY <1>10, <1>11, <1>12, <1>13, <1>14, <1>15 DEF SyncInv

(* exportEncryptedVaultFile after its await. *)
LEMMA ExportEnds ==
  ASSUME SyncInv, NEW c \in Calls, Exported(c)
  PROVE  SyncInv'
  <1> USE MaxRevisionAssumption, AbsentAssumption, EmptyAssumption
  <1>1. /\ SyncTypeOK /\ CallsFit /\ VaultFits /\ RevisionsFit
        /\ crossed \cap OwnPassphrase = {} => KeyFits
        /\ crossed \subseteq {"unlock"} => StoredFits
    BY DEF SyncInv
  <1>2. UNCHANGED <<activePassphrase, syncStatus, localData, revision, shown, server, pushed, edited, crossed>> /\ At(c, "export", "encrypt")
    BY DEF Exported
  <1>3. /\ op' \in [Calls -> OpType] /\ op'[c] = NoOp
        /\ \A d \in Calls : d # c => op'[d] = op[d]
    BY <1>1, ReturnFacts DEF Exported
  <1>4. /\ op[c].env \in Envelope /\ op[c].passphrase \in Passphrases
        /\ op[c].env.revision \in 1..MaxRevision /\ op[c].env.data \in Data \cup {Empty}
        /\ op[c].env.passphrase \in Passphrases
    BY <1>1, <1>2 DEF CallsFit, CallFits, Envelope
  <1>5. envelope' = op[c].env /\ "export" \in crossed
    BY <1>1, <1>2 DEF Exported, CallsFit, CallFits
  <1>6. SyncTypeOK'
    BY <1>1, <1>2, <1>3, <1>4, <1>5 DEF SyncTypeOK
  <1>7. CallsFit'
    BY <1>1, <1>2, <1>3, <1>4, <1>5 DEF CallsFit, CallFits
  <1>8. VaultFits'
    BY <1>1, <1>2, <1>3, <1>4, <1>5 DEF VaultFits
  <1>9. RevisionsFit'
    BY <1>1, <1>2, <1>3, <1>4, <1>5 DEF RevisionsFit, RevisionsNotReused
  <1>10. ASSUME crossed' \cap OwnPassphrase = {} PROVE KeyFits'
    BY <1>1, <1>2, <1>3, <1>4, <1>5, <1>10 DEF KeyFits
  <1>11. ASSUME crossed' \subseteq {"unlock"} PROVE StoredFits'
    BY <1>1, <1>2, <1>3, <1>4, <1>5, <1>11 DEF StoredFits
  <1> QED
    BY <1>6, <1>7, <1>8, <1>9, <1>10, <1>11 DEF SyncInv

(* syncNow between its first and its second await. *)
LEMMA EncryptEnds ==
  ASSUME SyncInv, NEW c \in Calls, Encrypted(c)
  PROVE  SyncInv'
  <1> USE MaxRevisionAssumption, AbsentAssumption, EmptyAssumption
  <1>1. /\ SyncTypeOK /\ CallsFit /\ VaultFits /\ RevisionsFit
        /\ crossed \cap OwnPassphrase = {} => KeyFits
        /\ crossed \subseteq {"unlock"} => StoredFits
    BY DEF SyncInv
  <1>2. UNCHANGED <<activePassphrase, localData, server, pushed, edited, crossed>> /\ At(c, "sync", "encrypt")
    BY DEF Encrypted
  <1>3. /\ op \in [Calls -> OpType] /\ op[c] \in OpType /\ op[c].env \in Envelope /\ op[c].passphrase \in Passphrases
        /\ op[c].env.revision \in 1..MaxRevision /\ op[c].env.data \in Data \cup {Empty}
        /\ op[c].env.passphrase \in Passphrases /\ op[c].remote \in {"local_only", "zendev_cloud", "no_url"}
    BY <1>1, <1>2 DEF SyncTypeOK, CallsFit, CallFits, Envelope
  <1>4. /\ op' \in [Calls -> OpType] /\ \A d \in Calls : d # c => op'[d] = op[d]
        /\ \/ op'[c] = NoOp
           \/ /\ op'[c].kind = "sync" /\ op'[c].at = "fetch" /\ op'[c].passphrase = op[c].passphrase
              /\ op'[c].env = op[c].env /\ op'[c].remote = op[c].remote
              /\ UNCHANGED <<syncStatus, shown>>
        /\ envelope' = op[c].env /\ revision' = op[c].env.revision
        /\ op'[c] = NoOp => /\ syncStatus' \in {"synced", "error"}
                            /\ shown' = [unlocked |-> activePassphrase' # Absent, vault |-> envelope' # Absent]
    <2>1. envelope' = op[c].env /\ revision' = op[c].env.revision
      BY DEF Encrypted
    <2>2. CASE \E result \in {"synced", "error"} : EndSync(c, result)
      BY <1>1, <2>1, <2>2, ReturnFacts DEF EndSync, Refresh
    <2>3. CASE Continue(c, "fetch")
      <3>1. /\ [op[c] EXCEPT !.at = "fetch"] \in OpType
            /\ [op[c] EXCEPT !.at = "fetch"].kind = op[c].kind
            /\ [op[c] EXCEPT !.at = "fetch"].at = "fetch"
            /\ [op[c] EXCEPT !.at = "fetch"].env = op[c].env
            /\ [op[c] EXCEPT !.at = "fetch"].passphrase = op[c].passphrase
            /\ [op[c] EXCEPT !.at = "fetch"].remote = op[c].remote
        BY <1>3 DEF OpType
      <3>2. op' = [op EXCEPT ![c] = [op[c] EXCEPT !.at = "fetch"]]
        BY <2>3 DEF Continue
      <3> QED
        BY <1>2, <1>3, <2>1, <2>3, <3>1, <3>2 DEF Continue
    <2> QED
      BY <1>3, <2>2, <2>3 DEF Encrypted
  <1>5. \A d \in Calls : d # c => op[d].kind # "sync"
    BY <1>1, <1>2 DEF CallsFit
  <1>6. \A d \in Calls : d # c /\ op[d].kind # "none" => "sync" \in crossed
    BY <1>1, <1>2 DEF CallsFit
  <1>7. \A d \in Calls : op[d].kind = "set" => op'[d].kind = "set"
    BY <1>2, <1>4
  <1>8. /\ op'[c].kind = "none" \/ /\ op'[c].kind = "sync" /\ op'[c].remote = op[c].remote
        /\ \A d \in Calls : op'[d].kind # "none" => op[d].kind = op'[d].kind
    BY <1>2, <1>4
  <1>9. shown' \in [unlocked : BOOLEAN, vault : BOOLEAN] /\ (shown'.vault => envelope' # Absent)
        /\ syncStatus' \in {"locked", "synced", "syncing", "offline", "error"}
    <2>1. shown \in [unlocked : BOOLEAN, vault : BOOLEAN] /\ syncStatus \in {"locked", "synced", "syncing", "offline", "error"}
      BY <1>1 DEF SyncTypeOK
    <2>2. [unlocked |-> activePassphrase' # Absent, vault |-> envelope' # Absent] \in
            [unlocked : BOOLEAN, vault : BOOLEAN]
      OBVIOUS
    <2>3. CASE op'[c] = NoOp
      BY <1>4, <2>2, <2>3
    <2>4. CASE UNCHANGED <<syncStatus, shown>>
      BY <1>1, <1>2, <1>3, <1>4, <2>1, <2>4 DEF VaultFits
    <2> QED
      BY <1>4, <2>3, <2>4
  <1>10. SyncTypeOK'
    BY <1>1, <1>2, <1>3, <1>4, <1>5, <1>6, <1>7, <1>8, <1>9 DEF SyncTypeOK
  <1>11. CallsFit'
    BY <1>1, <1>2, <1>3, <1>4, <1>5, <1>6, <1>7, <1>8, <1>9 DEF CallsFit, CallFits
  <1>12. VaultFits'
    BY <1>1, <1>2, <1>3, <1>4, <1>5, <1>6, <1>7, <1>8, <1>9 DEF VaultFits
  <1>13. RevisionsFit'
    BY <1>1, <1>2, <1>3, <1>4, <1>5, <1>6, <1>7, <1>8, <1>9 DEF RevisionsFit, RevisionsNotReused, SyncTypeOK
  <1>14. ASSUME crossed' \cap OwnPassphrase = {} PROVE KeyFits'
    <2>1. KeyFits
      BY <1>1, <1>2, <1>14
    <2>2. envelope # Absent /\ envelope' # Absent /\ envelope'.passphrase = envelope.passphrase
      BY <1>1, <1>2, <1>3, <1>4, <2>1 DEF KeyFits, CallsFit, CallFits
    <2>3. shown'.vault
      <3>1. CASE op'[c] = NoOp
        <4>1. shown' = [unlocked |-> activePassphrase' # Absent, vault |-> envelope' # Absent]
          BY <1>4, <3>1
        <4> QED
          BY <2>2, <4>1
      <3>2. CASE UNCHANGED <<syncStatus, shown>>
        BY <2>1, <2>2, <3>2 DEF KeyFits
      <3> QED
        BY <1>4, <3>1, <3>2
    <2>4. ASSUME NEW d \in Calls
          PROVE  /\ op'[d].kind = "set" => activePassphrase \in {op'[d].passphrase, Absent}
                 /\ op'[d].kind = "unlock" => op'[d].env.passphrase = envelope.passphrase
                 /\ At(d, "sync", "encrypt")' \/ At(d, "sync", "merge")' =>
                      op'[d].passphrase = envelope.passphrase
      <3>1. CASE d = c
        BY <1>2, <1>4, <2>1, <2>2, <3>1 DEF KeyFits
      <3>2. CASE d # c
        BY <1>4, <2>1, <3>2 DEF KeyFits
      <3> QED
        BY <3>1, <3>2
    <2>5. activePassphrase # Absent => activePassphrase = envelope.passphrase
      BY <2>1, <2>2 DEF KeyFits
    <2> QED
      BY <1>2, <2>2, <2>3, <2>4, <2>5 DEF KeyFits
  <1>15. ASSUME crossed' \subseteq {"unlock"} PROVE StoredFits'
    BY <1>1, <1>2, <1>3, <1>4, <1>5, <1>6, <1>7, <1>8, <1>9, <1>15 DEF StoredFits
  <1> QED
    BY <1>10, <1>11, <1>12, <1>13, <1>14, <1>15 DEF SyncInv

(* The request of syncNow. *)
LEMMA FetchEnds ==
  ASSUME SyncInv, NEW c \in Calls, Fetch(c)
  PROVE  SyncInv'
  <1> USE MaxRevisionAssumption, AbsentAssumption, EmptyAssumption
  <1>1. /\ SyncTypeOK /\ CallsFit /\ VaultFits /\ RevisionsFit
        /\ crossed \cap OwnPassphrase = {} => KeyFits
        /\ crossed \subseteq {"unlock"} => StoredFits
    BY DEF SyncInv
  <1>2. UNCHANGED <<activePassphrase, localData, envelope, revision, edited, crossed>> /\ At(c, "sync", "fetch")
    BY DEF Fetch
  <1>3. /\ op \in [Calls -> OpType] /\ op[c] \in OpType /\ op[c].env \in Envelope /\ op[c].passphrase \in Passphrases
        /\ op[c].env.revision \in 1..MaxRevision /\ op[c].env.data \in Data \cup {Empty}
        /\ op[c].env.passphrase \in Passphrases /\ op[c].remote \in {"local_only", "zendev_cloud", "no_url"}
    BY <1>1, <1>2 DEF SyncTypeOK, CallsFit, CallFits, Envelope
  <1>4. /\ op' \in [Calls -> OpType] /\ \A d \in Calls : d # c => op'[d] = op[d]
        /\ \/ op'[c] = NoOp
           \/ /\ op'[c].kind = "sync" /\ op'[c].at = "json" /\ op'[c].passphrase = op[c].passphrase
              /\ op'[c].env = server' /\ op'[c].remote = op[c].remote
              /\ server' \in Envelope
              /\ UNCHANGED <<syncStatus, shown>>
        /\ server' \in Envelope \cup {Absent}
        /\ pushed' \in {pushed, pushed \cup {<<op[c].env.revision, op[c].env.data>>}}
        /\ op'[c] = NoOp => /\ syncStatus' = "error"
                            /\ shown' = [unlocked |-> activePassphrase' # Absent, vault |-> envelope' # Absent]
    <2>1. CASE EndSync(c, "error") /\ UNCHANGED <<server, pushed>>
      BY <1>1, <2>1, ReturnFacts DEF EndSync, Refresh, SyncTypeOK
    <2>2. CASE /\ server' = Kept(op[c].env)
               /\ pushed' = pushed \cup {<<op[c].env.revision, op[c].env.data>>}
               /\ \/ op' = [op EXCEPT ![c].at = "json", ![c].env = server'] /\ UNCHANGED <<syncStatus, shown>>
                  \/ EndSync(c, "error")
      <3>1. server' \in Envelope
        BY <1>1, <1>3, <2>2 DEF Kept, SyncTypeOK
      <3>2. CASE op' = [op EXCEPT ![c].at = "json", ![c].env = server'] /\ UNCHANGED <<syncStatus, shown>>
        <4>1. /\ [op[c] EXCEPT !.at = "json", !.env = server'] \in OpType
              /\ [op[c] EXCEPT !.at = "json", !.env = server'].kind = op[c].kind /\ [op[c] EXCEPT !.at = "json", !.env = server'].at = "json"
              /\ [op[c] EXCEPT !.at = "json", !.env = server'].env = server' /\ [op[c] EXCEPT !.at = "json", !.env = server'].remote = op[c].remote
              /\ [op[c] EXCEPT !.at = "json", !.env = server'].passphrase = op[c].passphrase
          BY <1>3, <3>1 DEF OpType
        <4>2. op' = [op EXCEPT ![c] = [op[c] EXCEPT !.at = "json", !.env = server']]
          BY <1>3, <3>2
        <4>3. /\ op' \in [Calls -> OpType] /\ op'[c] = [op[c] EXCEPT !.at = "json", !.env = server']
              /\ \A d \in Calls : d # c => op'[d] = op[d]
          BY <1>3, <4>1, <4>2
        <4>4. op'[c].kind = "sync" /\ NoOp.kind = "none"
          BY <1>2, <4>1, <4>3
        <4> QED
          BY <1>2, <2>2, <3>1, <3>2, <4>1, <4>3, <4>4
      <3>3. CASE EndSync(c, "error")
        BY <1>1, <2>2, <3>1, <3>3, ReturnFacts DEF EndSync, Refresh
      <3> QED
        BY <2>2, <3>2, <3>3
    <2> QED
      BY <2>1, <2>2 DEF Fetch
  <1>5. \A d \in Calls : d # c => op[d].kind # "sync"
    BY <1>1, <1>2 DEF CallsFit
  <1>6. \A d \in Calls : d # c /\ op[d].kind # "none" => "sync" \in crossed
    BY <1>1, <1>2 DEF CallsFit
  <1>7. \A d \in Calls : op[d].kind = "set" => op'[d].kind = "set"
    BY <1>2, <1>4
  <1>8. /\ op'[c].kind = "none" \/ /\ op'[c].kind = "sync" /\ op'[c].remote = op[c].remote
        /\ \A d \in Calls : op'[d].kind # "none" => op[d].kind = op'[d].kind
    BY <1>2, <1>4
  <1>9. shown' \in [unlocked : BOOLEAN, vault : BOOLEAN] /\ (shown'.vault => envelope' # Absent)
        /\ syncStatus' \in {"locked", "synced", "syncing", "offline", "error"}
    <2>1. shown \in [unlocked : BOOLEAN, vault : BOOLEAN] /\ syncStatus \in {"locked", "synced", "syncing", "offline", "error"}
      BY <1>1 DEF SyncTypeOK
    <2>2. [unlocked |-> activePassphrase' # Absent, vault |-> envelope' # Absent] \in
            [unlocked : BOOLEAN, vault : BOOLEAN]
      OBVIOUS
    <2>3. CASE op'[c] = NoOp
      BY <1>4, <2>2, <2>3
    <2>4. CASE UNCHANGED <<syncStatus, shown>>
      BY <1>1, <1>2, <1>3, <1>4, <2>1, <2>4 DEF VaultFits
    <2> QED
      BY <1>4, <2>3, <2>4
  <1>10. SyncTypeOK'
    BY <1>1, <1>2, <1>3, <1>4, <1>5, <1>6, <1>7, <1>8, <1>9 DEF SyncTypeOK
  <1>11. CallsFit'
    BY <1>1, <1>2, <1>3, <1>4, <1>5, <1>6, <1>7, <1>8, <1>9 DEF CallsFit, CallFits
  <1>12. VaultFits'
    BY <1>1, <1>2, <1>3, <1>4, <1>5, <1>6, <1>7, <1>8, <1>9 DEF VaultFits
  <1>13. RevisionsFit'
    BY <1>1, <1>2, <1>3, <1>4, <1>5, <1>6, <1>7, <1>8, <1>9 DEF RevisionsFit, RevisionsNotReused, SyncTypeOK
  <1>14. ASSUME crossed' \cap OwnPassphrase = {} PROVE KeyFits'
    <2>1. KeyFits
      BY <1>1, <1>2, <1>14
    <2>2. envelope # Absent /\ envelope' # Absent /\ envelope'.passphrase = envelope.passphrase
      BY <1>1, <1>2, <1>3, <1>4, <2>1 DEF KeyFits, CallsFit, CallFits
    <2>3. shown'.vault
      <3>1. CASE op'[c] = NoOp
        <4>1. shown' = [unlocked |-> activePassphrase' # Absent, vault |-> envelope' # Absent]
          BY <1>4, <3>1
        <4> QED
          BY <2>2, <4>1
      <3>2. CASE UNCHANGED <<syncStatus, shown>>
        BY <2>1, <2>2, <3>2 DEF KeyFits
      <3> QED
        BY <1>4, <3>1, <3>2
    <2>4. ASSUME NEW d \in Calls
          PROVE  /\ op'[d].kind = "set" => activePassphrase \in {op'[d].passphrase, Absent}
                 /\ op'[d].kind = "unlock" => op'[d].env.passphrase = envelope.passphrase
                 /\ At(d, "sync", "encrypt")' \/ At(d, "sync", "merge")' =>
                      op'[d].passphrase = envelope.passphrase
      <3>1. CASE d = c
        BY <1>2, <1>4, <2>1, <2>2, <3>1 DEF KeyFits
      <3>2. CASE d # c
        BY <1>4, <2>1, <3>2 DEF KeyFits
      <3> QED
        BY <3>1, <3>2
    <2>5. activePassphrase # Absent => activePassphrase = envelope.passphrase
      BY <2>1, <2>2 DEF KeyFits
    <2> QED
      BY <1>2, <2>2, <2>3, <2>4, <2>5 DEF KeyFits
  <1>15. ASSUME crossed' \subseteq {"unlock"} PROVE StoredFits'
    BY <1>1, <1>2, <1>3, <1>4, <1>5, <1>6, <1>7, <1>8, <1>9, <1>15 DEF StoredFits
  <1> QED
    BY <1>10, <1>11, <1>12, <1>13, <1>14, <1>15 DEF SyncInv

(* syncNow when the answer has arrived. *)
LEMMA AnswerEnds ==
  ASSUME SyncInv, NEW c \in Calls, Answer(c)
  PROVE  SyncInv'
  <1> USE MaxRevisionAssumption, AbsentAssumption, EmptyAssumption
  <1>1. /\ SyncTypeOK /\ CallsFit /\ VaultFits /\ RevisionsFit
        /\ crossed \cap OwnPassphrase = {} => KeyFits
        /\ crossed \subseteq {"unlock"} => StoredFits
    BY DEF SyncInv
  <1>2. UNCHANGED <<activePassphrase, localData, envelope, revision, server, pushed, edited, crossed>> /\ At(c, "sync", "json")
    BY DEF Answer
  <1>3. /\ op \in [Calls -> OpType] /\ op[c] \in OpType /\ op[c].env \in Envelope /\ op[c].passphrase \in Passphrases
        /\ op[c].env.revision \in 1..MaxRevision /\ op[c].env.data \in Data \cup {Empty}
        /\ op[c].env.passphrase \in Passphrases /\ op[c].remote \in {"local_only", "zendev_cloud", "no_url"}
    BY <1>1, <1>2 DEF SyncTypeOK, CallsFit, CallFits, Envelope
  <1>4. /\ op' \in [Calls -> OpType] /\ \A d \in Calls : d # c => op'[d] = op[d]
        /\ \/ op'[c] = NoOp
           \/ /\ op'[c].kind = "sync" /\ op'[c].at = "merge" /\ op'[c].passphrase = activePassphrase
              /\ op'[c].env = op[c].env /\ op'[c].remote = op[c].remote
              /\ activePassphrase # Absent /\ activePassphrase \in Passphrases
              /\ op[c].env.revision > revision
              /\ UNCHANGED <<syncStatus, shown>>
        /\ op'[c] = NoOp => /\ syncStatus' \in {"synced", "error"}
                            /\ shown' = [unlocked |-> activePassphrase' # Absent, vault |-> envelope' # Absent]
    <2>1. CASE \E result \in {"synced", "error"} : EndSync(c, result)
      BY <1>1, <2>1, ReturnFacts DEF EndSync, Refresh
    <2>2. CASE /\ ~(op[c].env.revision <= revision) /\ activePassphrase # Absent
               /\ op' = [op EXCEPT ![c].at = "merge", ![c].passphrase = activePassphrase]
               /\ UNCHANGED <<syncStatus, shown>>
      <3>1. activePassphrase \in Passphrases /\ op[c].env.revision > revision
        BY <1>1, <1>3, <2>2 DEF SyncTypeOK
      <3>2. /\ [op[c] EXCEPT !.at = "merge", !.passphrase = activePassphrase] \in OpType
            /\ [op[c] EXCEPT !.at = "merge", !.passphrase = activePassphrase].kind = op[c].kind /\ [op[c] EXCEPT !.at = "merge", !.passphrase = activePassphrase].at = "merge"
            /\ [op[c] EXCEPT !.at = "merge", !.passphrase = activePassphrase].env = op[c].env /\ [op[c] EXCEPT !.at = "merge", !.passphrase = activePassphrase].remote = op[c].remote
            /\ [op[c] EXCEPT !.at = "merge", !.passphrase = activePassphrase].passphrase = activePassphrase
        BY <1>3, <3>1 DEF OpType
      <3>3. op' = [op EXCEPT ![c] = [op[c] EXCEPT !.at = "merge", !.passphrase = activePassphrase]]
        BY <1>3, <2>2
      <3>4. /\ op' \in [Calls -> OpType] /\ op'[c] = [op[c] EXCEPT !.at = "merge", !.passphrase = activePassphrase]
            /\ \A d \in Calls : d # c => op'[d] = op[d]
        BY <1>3, <3>2, <3>3
      <3>5. op'[c].kind = "sync" /\ NoOp.kind = "none"
        BY <1>2, <3>2, <3>4
      <3> QED
        BY <1>2, <2>2, <3>1, <3>2, <3>4, <3>5
    <2> QED
      BY <2>1, <2>2 DEF Answer
  <1>5. \A d \in Calls : d # c => op[d].kind # "sync"
    BY <1>1, <1>2 DEF CallsFit
  <1>6. \A d \in Calls : d # c /\ op[d].kind # "none" => "sync" \in crossed
    BY <1>1, <1>2 DEF CallsFit
  <1>7. \A d \in Calls : op[d].kind = "set" => op'[d].kind = "set"
    BY <1>2, <1>4
  <1>8. /\ op'[c].kind = "none" \/ /\ op'[c].kind = "sync" /\ op'[c].remote = op[c].remote
        /\ \A d \in Calls : op'[d].kind # "none" => op[d].kind = op'[d].kind
    BY <1>2, <1>4
  <1>9. shown' \in [unlocked : BOOLEAN, vault : BOOLEAN] /\ (shown'.vault => envelope' # Absent)
        /\ syncStatus' \in {"locked", "synced", "syncing", "offline", "error"}
    <2>1. shown \in [unlocked : BOOLEAN, vault : BOOLEAN] /\ syncStatus \in {"locked", "synced", "syncing", "offline", "error"}
      BY <1>1 DEF SyncTypeOK
    <2>2. [unlocked |-> activePassphrase' # Absent, vault |-> envelope' # Absent] \in
            [unlocked : BOOLEAN, vault : BOOLEAN]
      OBVIOUS
    <2>3. CASE op'[c] = NoOp
      BY <1>4, <2>2, <2>3
    <2>4. CASE UNCHANGED <<syncStatus, shown>>
      BY <1>1, <1>2, <1>3, <1>4, <2>1, <2>4 DEF VaultFits
    <2> QED
      BY <1>4, <2>3, <2>4
  <1>10. SyncTypeOK'
    BY <1>1, <1>2, <1>3, <1>4, <1>5, <1>6, <1>7, <1>8, <1>9 DEF SyncTypeOK
  <1>11. CallsFit'
    BY <1>1, <1>2, <1>3, <1>4, <1>5, <1>6, <1>7, <1>8, <1>9 DEF CallsFit, CallFits
  <1>12. VaultFits'
    BY <1>1, <1>2, <1>3, <1>4, <1>5, <1>6, <1>7, <1>8, <1>9 DEF VaultFits
  <1>13. RevisionsFit'
    BY <1>1, <1>2, <1>3, <1>4, <1>5, <1>6, <1>7, <1>8, <1>9 DEF RevisionsFit, RevisionsNotReused, SyncTypeOK
  <1>14. ASSUME crossed' \cap OwnPassphrase = {} PROVE KeyFits'
    <2>1. KeyFits
      BY <1>1, <1>2, <1>14
    <2>2. envelope # Absent /\ envelope' # Absent /\ envelope'.passphrase = envelope.passphrase
      BY <1>1, <1>2, <1>3, <1>4, <2>1 DEF KeyFits, CallsFit, CallFits
    <2>3. shown'.vault
      <3>1. CASE op'[c] = NoOp
        <4>1. shown' = [unlocked |-> activePassphrase' # Absent, vault |-> envelope' # Absent]
          BY <1>4, <3>1
        <4> QED
          BY <2>2, <4>1
      <3>2. CASE UNCHANGED <<syncStatus, shown>>
        BY <2>1, <2>2, <3>2 DEF KeyFits
      <3> QED
        BY <1>4, <3>1, <3>2
    <2>4. ASSUME NEW d \in Calls
          PROVE  /\ op'[d].kind = "set" => activePassphrase \in {op'[d].passphrase, Absent}
                 /\ op'[d].kind = "unlock" => op'[d].env.passphrase = envelope.passphrase
                 /\ At(d, "sync", "encrypt")' \/ At(d, "sync", "merge")' =>
                      op'[d].passphrase = envelope.passphrase
      <3>1. CASE d = c
        BY <1>2, <1>4, <2>1, <2>2, <3>1 DEF KeyFits
      <3>2. CASE d # c
        BY <1>4, <2>1, <3>2 DEF KeyFits
      <3> QED
        BY <3>1, <3>2
    <2>5. activePassphrase # Absent => activePassphrase = envelope.passphrase
      BY <2>1, <2>2 DEF KeyFits
    <2> QED
      BY <1>2, <2>2, <2>3, <2>4, <2>5 DEF KeyFits
  <1>15. ASSUME crossed' \subseteq {"unlock"} PROVE StoredFits'
    BY <1>1, <1>2, <1>3, <1>4, <1>5, <1>6, <1>7, <1>8, <1>9, <1>15 DEF StoredFits
  <1> QED
    BY <1>10, <1>11, <1>12, <1>13, <1>14, <1>15 DEF SyncInv

(* syncNow when the server's envelope has been decrypted. *)
LEMMA MergeEnds ==
  ASSUME SyncInv, NEW c \in Calls, Merge(c)
  PROVE  SyncInv'
  <1> USE MaxRevisionAssumption, AbsentAssumption, EmptyAssumption
  <1>1. /\ SyncTypeOK /\ CallsFit /\ VaultFits /\ RevisionsFit
        /\ crossed \cap OwnPassphrase = {} => KeyFits
        /\ crossed \subseteq {"unlock"} => StoredFits
    BY DEF SyncInv
  <1>2. UNCHANGED <<activePassphrase, server, pushed, crossed>> /\ At(c, "sync", "merge")
    BY DEF Merge
  <1>3. /\ op \in [Calls -> OpType] /\ op[c] \in OpType /\ op[c].env \in Envelope /\ op[c].passphrase \in Passphrases
        /\ op[c].env.revision \in 1..MaxRevision /\ op[c].env.data \in Data \cup {Empty}
        /\ op[c].env.passphrase \in Passphrases /\ op[c].remote \in {"local_only", "zendev_cloud", "no_url"}
    BY <1>1, <1>2 DEF SyncTypeOK, CallsFit, CallFits, Envelope
  <1>4. /\ op' \in [Calls -> OpType] /\ op'[c] = NoOp
        /\ \A d \in Calls : d # c => op'[d] = op[d]
        /\ shown' = [unlocked |-> activePassphrase' # Absent, vault |-> envelope' # Absent]
        /\ \/ /\ op[c].passphrase = op[c].env.passphrase
              /\ localData' = IF op[c].env.data = Empty THEN localData ELSE op[c].env.data
              /\ edited' = (edited /\ op[c].env.data = Empty)
              /\ envelope' = op[c].env /\ revision' = op[c].env.revision /\ syncStatus' = "synced"
           \/ UNCHANGED <<localData, envelope, revision, edited>> /\ syncStatus' = "error"
    BY <1>1, ReturnFacts DEF Merge, EndSync, Refresh, ApplyInbound
  <1>5. localData' \in Data \cup {Empty} /\ edited' \in BOOLEAN /\ syncStatus' \in {"locked", "synced", "syncing", "offline", "error"}
    BY <1>1, <1>3, <1>4 DEF SyncTypeOK
  <1>6. \A d \in Calls : d # c => op[d].kind # "sync"
    BY <1>1, <1>2 DEF CallsFit
  <1>7. \A d \in Calls : d # c /\ op[d].kind # "none" => "sync" \in crossed
    BY <1>1, <1>2 DEF CallsFit
  <1>8. \A d \in Calls : op[d].kind = "set" => op'[d].kind = "set"
    BY <1>2, <1>4
  <1>9. /\ op'[c].kind = "none" \/ /\ op'[c].kind = "sync" /\ op'[c].remote = op[c].remote
        /\ \A d \in Calls : op'[d].kind # "none" => op[d].kind = op'[d].kind
    BY <1>2, <1>4
  <1>10. SyncTypeOK'
    BY <1>1, <1>2, <1>3, <1>4, <1>5, <1>6, <1>7, <1>8, <1>9 DEF SyncTypeOK
  <1>11. CallsFit'
    BY <1>1, <1>2, <1>3, <1>4, <1>5, <1>6, <1>7, <1>8, <1>9 DEF CallsFit, CallFits
  <1>12. VaultFits'
    BY <1>1, <1>2, <1>3, <1>4, <1>5, <1>6, <1>7, <1>8, <1>9 DEF VaultFits
  <1>13. RevisionsFit'
    BY <1>1, <1>2, <1>3, <1>4, <1>5, <1>6, <1>7, <1>8, <1>9 DEF RevisionsFit, RevisionsNotReused, SyncTypeOK
  <1>14. ASSUME crossed' \cap OwnPassphrase = {} PROVE KeyFits'
    <2>1. KeyFits
      BY <1>1, <1>2, <1>14
    <2>2. envelope # Absent /\ envelope' # Absent /\ envelope'.passphrase = envelope.passphrase
      BY <1>1, <1>2, <1>3, <1>4, <2>1 DEF KeyFits, CallsFit, CallFits
    <2>3. shown'.vault
      <3>1. CASE op'[c] = NoOp
        <4>1. shown' = [unlocked |-> activePassphrase' # Absent, vault |-> envelope' # Absent]
          BY <1>4, <3>1
        <4> QED
          BY <2>2, <4>1
      <3>2. CASE UNCHANGED <<syncStatus, shown>>
        BY <2>1, <2>2, <3>2 DEF KeyFits
      <3> QED
        BY <1>4, <3>1, <3>2
    <2>4. ASSUME NEW d \in Calls
          PROVE  /\ op'[d].kind = "set" => activePassphrase \in {op'[d].passphrase, Absent}
                 /\ op'[d].kind = "unlock" => op'[d].env.passphrase = envelope.passphrase
                 /\ At(d, "sync", "encrypt")' \/ At(d, "sync", "merge")' =>
                      op'[d].passphrase = envelope.passphrase
      <3>1. CASE d = c
        BY <1>2, <1>4, <2>1, <2>2, <3>1 DEF KeyFits
      <3>2. CASE d # c
        BY <1>4, <2>1, <3>2 DEF KeyFits
      <3> QED
        BY <3>1, <3>2
    <2>5. activePassphrase # Absent => activePassphrase = envelope.passphrase
      BY <2>1, <2>2 DEF KeyFits
    <2> QED
      BY <1>2, <2>2, <2>3, <2>4, <2>5 DEF KeyFits
  <1>15. ASSUME crossed' \subseteq {"unlock"} PROVE StoredFits'
    BY <1>1, <1>2, <1>3, <1>4, <1>5, <1>6, <1>7, <1>8, <1>9, <1>15 DEF StoredFits
  <1> QED
    BY <1>10, <1>11, <1>12, <1>13, <1>14, <1>15 DEF SyncInv

(* Another device pushes. *)
LEMMA OtherDevice ==
  ASSUME SyncInv, NEW p \in Passphrases, NEW data \in Content, OtherDeviceSyncs(p, data)
  PROVE  SyncInv'
  <1> USE MaxRevisionAssumption, AbsentAssumption, EmptyAssumption
  <1>1. /\ SyncTypeOK /\ CallsFit /\ VaultFits /\ RevisionsFit
        /\ crossed \cap OwnPassphrase = {} => KeyFits
        /\ crossed \subseteq {"unlock"} => StoredFits
    BY DEF SyncInv
  <1>2. UNCHANGED <<activePassphrase, syncStatus, localData, envelope, revision, shown, op, pushed, edited, crossed>>
    BY DEF OtherDeviceSyncs
  <1>3. server' \in Envelope
    BY <1>1 DEF OtherDeviceSyncs, SyncTypeOK, Envelope
  <1>4. SyncTypeOK'
    BY <1>1, <1>2, <1>3 DEF SyncTypeOK
  <1>5. CallsFit'
    BY <1>1, <1>2, <1>3 DEF CallsFit, CallFits
  <1>6. VaultFits'
    BY <1>1, <1>2, <1>3 DEF VaultFits
  <1>7. RevisionsFit'
    BY <1>1, <1>2, <1>3 DEF RevisionsFit, RevisionsNotReused
  <1>8. ASSUME crossed' \cap OwnPassphrase = {} PROVE KeyFits'
    BY <1>1, <1>2, <1>3, <1>8 DEF KeyFits
  <1>9. ASSUME crossed' \subseteq {"unlock"} PROVE StoredFits'
    BY <1>1, <1>2, <1>3, <1>9 DEF StoredFits
  <1> QED
    BY <1>4, <1>5, <1>6, <1>7, <1>8, <1>9 DEF SyncInv

(* saveProviderConfig. *)
LEMMA SettingsSaved ==
  ASSUME SyncInv, SaveProviderConfig
  PROVE  SyncInv'
  <1> USE MaxRevisionAssumption, AbsentAssumption, EmptyAssumption
  <1>1. /\ SyncTypeOK /\ CallsFit /\ VaultFits /\ RevisionsFit
        /\ crossed \cap OwnPassphrase = {} => KeyFits
        /\ crossed \subseteq {"unlock"} => StoredFits
    BY DEF SyncInv
  <1>2. UNCHANGED <<activePassphrase, syncStatus, localData, envelope, revision, server, op, pushed, edited, crossed>>
    BY DEF SaveProviderConfig
  <1>3. shown' = [unlocked |-> activePassphrase # Absent, vault |-> envelope # Absent]
    BY DEF SaveProviderConfig, Refresh
  <1>4. SyncTypeOK'
    BY <1>1, <1>2, <1>3 DEF SyncTypeOK
  <1>5. CallsFit'
    BY <1>1, <1>2, <1>3 DEF CallsFit, CallFits
  <1>6. VaultFits'
    BY <1>1, <1>2, <1>3 DEF VaultFits
  <1>7. RevisionsFit'
    BY <1>1, <1>2, <1>3 DEF RevisionsFit, RevisionsNotReused
  <1>8. ASSUME crossed' \cap OwnPassphrase = {} PROVE KeyFits'
    BY <1>1, <1>2, <1>3, <1>8 DEF KeyFits
  <1>9. ASSUME crossed' \subseteq {"unlock"} PROVE StoredFits'
    BY <1>1, <1>2, <1>3, <1>9 DEF StoredFits
  <1> QED
    BY <1>4, <1>5, <1>6, <1>7, <1>8, <1>9 DEF SyncInv

(* Another page writes the lists. *)
LEMMA Edited ==
  ASSUME SyncInv, NEW data \in Content, Edit(data)
  PROVE  SyncInv'
  <1> USE MaxRevisionAssumption, AbsentAssumption, EmptyAssumption
  <1>1. /\ SyncTypeOK /\ CallsFit /\ VaultFits /\ RevisionsFit
        /\ crossed \cap OwnPassphrase = {} => KeyFits
        /\ crossed \subseteq {"unlock"} => StoredFits
    BY DEF SyncInv
  <1>2. UNCHANGED <<activePassphrase, syncStatus, envelope, revision, shown, server, op, pushed, crossed>>
    BY DEF Edit
  <1>3. localData' = data /\ edited' = TRUE
    BY DEF Edit
  <1>4. SyncTypeOK'
    BY <1>1, <1>2, <1>3 DEF SyncTypeOK
  <1>5. CallsFit'
    BY <1>1, <1>2, <1>3 DEF CallsFit, CallFits
  <1>6. VaultFits'
    BY <1>1, <1>2, <1>3 DEF VaultFits
  <1>7. RevisionsFit'
    BY <1>1, <1>2, <1>3 DEF RevisionsFit, RevisionsNotReused
  <1>8. ASSUME crossed' \cap OwnPassphrase = {} PROVE KeyFits'
    BY <1>1, <1>2, <1>3, <1>8 DEF KeyFits
  <1>9. ASSUME crossed' \subseteq {"unlock"} PROVE StoredFits'
    BY <1>1, <1>2, <1>3, <1>9 DEF StoredFits
  <1> QED
    BY <1>4, <1>5, <1>6, <1>7, <1>8, <1>9 DEF SyncInv

(* lockVault. *)
LEMMA Locked ==
  ASSUME SyncInv, LockVault
  PROVE  SyncInv'
  <1> USE MaxRevisionAssumption, AbsentAssumption, EmptyAssumption
  <1>1. /\ SyncTypeOK /\ CallsFit /\ VaultFits /\ RevisionsFit
        /\ crossed \cap OwnPassphrase = {} => KeyFits
        /\ crossed \subseteq {"unlock"} => StoredFits
    BY DEF SyncInv
  <1>2. UNCHANGED <<localData, envelope, revision, server, op, pushed, edited, crossed>>
    BY DEF LockVault
  <1>3. /\ activePassphrase' = Absent /\ syncStatus' = "locked"
        /\ shown' = [unlocked |-> activePassphrase' # Absent, vault |-> envelope' # Absent]
    BY DEF LockVault, Refresh
  <1>4. SyncTypeOK'
    BY <1>1, <1>2, <1>3 DEF SyncTypeOK
  <1>5. CallsFit'
    BY <1>1, <1>2, <1>3 DEF CallsFit, CallFits
  <1>6. VaultFits'
    BY <1>1, <1>2, <1>3 DEF VaultFits
  <1>7. RevisionsFit'
    BY <1>1, <1>2, <1>3 DEF RevisionsFit, RevisionsNotReused
  <1>8. ASSUME crossed' \cap OwnPassphrase = {} PROVE KeyFits'
    BY <1>1, <1>2, <1>3, <1>8 DEF KeyFits
  <1>9. ASSUME crossed' \subseteq {"unlock"} PROVE StoredFits'
    BY <1>1, <1>2, <1>3, <1>9 DEF StoredFits
  <1> QED
    BY <1>4, <1>5, <1>6, <1>7, <1>8, <1>9 DEF SyncInv

(* The next process. *)
LEMMA Reopened ==
  ASSUME SyncInv, Reopen
  PROVE  SyncInv'
  <1> USE MaxRevisionAssumption, AbsentAssumption, EmptyAssumption
  <1>1. /\ SyncTypeOK /\ CallsFit /\ VaultFits /\ RevisionsFit
        /\ crossed \cap OwnPassphrase = {} => KeyFits
        /\ crossed \subseteq {"unlock"} => StoredFits
    BY DEF SyncInv
  <1>2. UNCHANGED <<localData, envelope, revision, server, pushed, edited>>
    BY DEF Reopen
  <1>3. /\ activePassphrase' = Absent /\ op' = [d \in Calls |-> NoOp] /\ crossed' = {}
        /\ syncStatus' \in {"offline", "locked"} /\ op' \in [Calls -> OpType]
        /\ shown' = [unlocked |-> activePassphrase' # Absent, vault |-> envelope' # Absent]
    <2>1. NoOp \in OpType
      BY DEF OpType
    <2> QED
      BY <2>1 DEF Reopen, Refresh
  <1>4. SyncTypeOK'
    BY <1>1, <1>2, <1>3 DEF SyncTypeOK
  <1>5. CallsFit'
    BY <1>1, <1>2, <1>3 DEF CallsFit, CallFits
  <1>6. VaultFits'
    BY <1>1, <1>2, <1>3 DEF VaultFits
  <1>7. RevisionsFit'
    BY <1>1, <1>2, <1>3 DEF RevisionsFit, RevisionsNotReused
  <1>8. ASSUME crossed' \cap OwnPassphrase = {} PROVE KeyFits'
    BY <1>1, <1>2, <1>3, <1>8 DEF KeyFits
  <1>9. ASSUME crossed' \subseteq {"unlock"} PROVE StoredFits'
    BY <1>1, <1>2, <1>3, <1>9 DEF StoredFits
  <1> QED
    BY <1>4, <1>5, <1>6, <1>7, <1>8, <1>9 DEF SyncInv

(* Every segment between two awaits of syncManager.ts, and every step of its
   environment, keeps SyncInv. *)
LEMMA SyncInvNext == SyncInv /\ [SyncNext]_syncVars => SyncInv'
  <1> SUFFICES ASSUME SyncInv, [SyncNext]_syncVars PROVE SyncInv'
    OBVIOUS
  <1>1. ASSUME NEW c \in Calls, SyncStep(c) PROVE SyncInv'
    BY <1>1, SetStarts, UnlockStarts, ImportStarts, ExportStarts, SyncStarts, SetEnds, UnlockEnds,
       ImportEnds, ExportEnds, EncryptEnds, FetchEnds, AnswerEnds, MergeEnds DEF SyncStep
  <1>2. CASE UNCHANGED syncVars
    BY <1>2 DEF SyncInv, SyncTypeOK, CallsFit, CallFits, VaultFits, RevisionsFit, RevisionsNotReused,
                KeyFits, StoredFits, syncVars
  <1> QED
    BY <1>1, <1>2, OtherDevice, SettingsSaved, Edited, Locked, Reopened DEF SyncNext

(* Every variable of the model of syncManager.ts keeps its type. *)
THEOREM SyncTypeCorrect == SyncSpec => []SyncTypeOK
  <1>1. SyncInv => SyncTypeOK
    BY DEF SyncInv
  <1> QED
    BY <1>1, SyncInvInit, SyncInvNext, PTL DEF SyncSpec

(* No two contents are ever sent under one revision (syncManager.ts:330-345
   stores the revision before it sends it). *)
THEOREM RevisionsAreNotReused == SyncSpec => []RevisionsNotReused
  <1>1. SyncInv => RevisionsNotReused
    BY DEF SyncInv, RevisionsFit
  <1> QED
    BY <1>1, SyncInvInit, SyncInvNext, PTL DEF SyncSpec

(* Unless a call with a passphrase of its own overlapped another one, the
   passphrase of an unlocked vault opens the stored envelope. *)
THEOREM EnvelopeAlwaysOpens == SyncSpec => []EnvelopeOpens
  <1>1. SyncInv => EnvelopeOpens
    BY DEF SyncInv, KeyFits, EnvelopeOpens
  <1> QED
    BY <1>1, SyncInvInit, SyncInvNext, PTL DEF SyncSpec

(* 'synced' with no call under way is said of what is stored. *)
THEOREM SyncedIsStored == SyncSpec => []SyncedMeansStored
  <1>1. SyncInv /\ UnderWay = {} => \A c \in Calls : op[c].kind = "none"
    BY DEF UnderWay
  <1>2. SyncInv => SyncedMeansStored
    BY <1>1 DEF SyncInv, StoredFits, SyncedMeansStored
  <1> QED
    BY <1>2, SyncInvInit, SyncInvNext, PTL DEF SyncSpec

=============================================================================
