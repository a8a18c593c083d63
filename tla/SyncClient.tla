----------------------------- MODULE SyncClient -----------------------------
(***************************************************************************)
(* The encrypted workspace sync: the operations of                         *)
(* renderer/src/lib/cloudSync/syncManager.ts across their awaits, as the   *)
(* dialogue (CloudSyncModal.tsx) calls them, with another device behind    *)
(* the server.                                                             *)
(*                                                                         *)
(* JavaScript runs one piece at a time; a step is the code between two     *)
(* awaits (key derivation with AES, fetch).  Only the sync button is       *)
(* disabled while its call is under way, so the calls may overlap; the     *)
(* buttons follow what the last broadcast showed.                          *)
(***************************************************************************)
EXTENDS Naturals, FiniteSets

CONSTANTS
  MaxCalls,     \* bound on the calls under way at once
  Passphrases,
  Data,         \* non-empty contents of the synced lists
  Empty,        \* empty lists
  Files,        \* the vault files a user may import
  MaxRevision,  \* bound on revisions
  MaxCrossed,   \* bound: no more calls overlap once this many kinds of calls have
  Absent

ASSUME EmptyAssumption == Empty \notin Data
ASSUME MaxCallsAssumption == MaxCalls \in Nat
ASSUME MaxRevisionAssumption == MaxRevision \in Nat \ {0}

Calls == 1..MaxCalls   \* names without a meaning: a call takes the first free one
Content == Data \cup {Empty}
Envelope == [revision : 1..MaxRevision, passphrase : Passphrases, data : Content]

ASSUME FilesAssumption == Files \subseteq Envelope
ASSUME AbsentAssumption == Absent \notin Passphrases \cup Envelope

Provider == {"local_only", "zendev_cloud", "no_url"}

VARIABLES
  activePassphrase, syncStatus,   \* memory of the manager
  localData,                      \* the lists in localStorage
  envelope, revision,             \* VAULT_ENVELOPE and REVISION there
  shown,                          \* isUnlocked and hasPassphraseSet as the dialogue has them
  server,                         \* the envelope the server holds
  op,                             \* op[c]: the call c
  pushed,                         \* history: <<revision, data>> sent to the server
  edited,                         \* history: localData was edited since it was last read or replaced
  crossed                         \* history: the kinds of calls that overlapped since the start

syncVars == <<activePassphrase, syncStatus, localData, envelope, revision,
              shown, server, op, pushed, edited, crossed>>
stored == <<envelope, revision>>

NoOp == [kind |-> "none", at |-> "idle", passphrase |-> Absent, env |-> Absent,
         remote |-> Absent]

UnderWay == {op[c].kind : c \in Calls} \ {"none"}

Start(c, kind, at, p, env, remote) ==
  /\ op[c] = NoOp /\ \A d \in 1..(c - 1) : op[d] # NoOp
  /\ UnderWay = {} \/ Cardinality(crossed) < MaxCrossed
  /\ op' = [op EXCEPT ![c] = [kind |-> kind, at |-> at, passphrase |-> p, env |-> env,
                              remote |-> remote]]
  /\ crossed' = IF UnderWay = {} THEN crossed ELSE crossed \cup UnderWay \cup {kind}
At(c, kind, at) == op[c].kind = kind /\ op[c].at = at
Return(c) == op' = [op EXCEPT ![c] = NoOp]

Sealed(rev, p) == [revision |-> rev, passphrase |-> p, data |-> localData]

(* decryptSyncPayload throws for a wrong passphrase (AES-GCM is authenticated). *)
Opens(p, env) == p = env.passphrase

(* applyInboundPayload: empty lists replace nothing. *)
ApplyInbound(env) ==
  /\ localData' = IF env.data = Empty THEN localData ELSE env.data
  /\ edited' = (edited /\ env.data = Empty)

(* refreshState of CloudSyncContext.tsx, after every broadcast *)
Refresh == shown' = [unlocked |-> activePassphrase' # Absent, vault |-> envelope' # Absent]

-----------------------------------------------------------------------------
(* The dialogue asks for a new passphrase until it has seen an envelope. *)
SetMasterPassphrase(c, p) ==
  /\ ~shown.vault
  /\ Start(c, "set", "encrypt", p, Sealed(1, p), Absent)
  /\ activePassphrase' = p
  /\ edited' = FALSE
  /\ UNCHANGED <<syncStatus, localData, stored, shown, server, pushed>>

MasterPassphraseSet(c) ==
  /\ At(c, "set", "encrypt")
  /\ envelope' = op[c].env
  /\ syncStatus' = "synced" /\ Return(c)
  /\ UNCHANGED <<activePassphrase, localData, revision, server, pushed, edited, crossed>>
  /\ Refresh

(* unlockVault, also of an unlocked vault: what it decrypts is the envelope
   of the moment it was called. *)
UnlockVault(c, p) ==
  /\ shown.vault
  /\ Start(c, "unlock", "decrypt", p, envelope, Absent)
  /\ UNCHANGED <<activePassphrase, syncStatus, localData, stored, shown, server, pushed, edited>>

Unlocked(c) ==
  /\ At(c, "unlock", "decrypt")
  /\ IF Opens(op[c].passphrase, op[c].env)
     THEN /\ activePassphrase' = op[c].passphrase /\ syncStatus' = "synced"
          /\ ApplyInbound(op[c].env)
     ELSE /\ syncStatus' = "locked"
          /\ UNCHANGED <<activePassphrase, localData, edited>>
  /\ Return(c)
  /\ UNCHANGED <<stored, server, pushed, crossed>>
  /\ Refresh

LockVault ==
  /\ shown.unlocked
  /\ activePassphrase' = Absent /\ syncStatus' = "locked"
  /\ UNCHANGED <<localData, stored, server, op, pushed, edited, crossed>>
  /\ Refresh

(* The user may save other settings at any time: SyncNow reads any.  What is
   left of saving them is the broadcast. *)
SaveProviderConfig ==
  /\ UNCHANGED <<activePassphrase, syncStatus, localData, stored, server, op, pushed, edited,
                 crossed>>
  /\ Refresh

(* exportEncryptedVaultFile only reads, unless it comes before the first
   envelope is stored. *)
ExportVault(c) ==
  /\ envelope = Absent /\ activePassphrase # Absent
  /\ Start(c, "export", "encrypt", activePassphrase, Sealed(1, activePassphrase), Absent)
  /\ UNCHANGED <<activePassphrase, syncStatus, localData, stored, shown, server, pushed, edited>>

Exported(c) ==
  /\ At(c, "export", "encrypt")
  /\ envelope' = op[c].env /\ Return(c)
  /\ UNCHANGED <<activePassphrase, syncStatus, localData, revision, shown, server,
                 pushed, edited, crossed>>

(* importEncryptedVaultFile; a file that does not open changes nothing. *)
ImportVault(c, file, p) ==
  /\ Start(c, "import", "decrypt", p, file, Absent)
  /\ UNCHANGED <<activePassphrase, syncStatus, localData, stored, shown, server, pushed, edited>>

(* Mutant: the file's passphrase does not become the active one. *)
ImportedUnderOldPassphrase(c) ==
  /\ At(c, "import", "decrypt")
  /\ IF Opens(op[c].passphrase, op[c].env)
     THEN envelope' = op[c].env /\ syncStatus' = "synced" /\ ApplyInbound(op[c].env)
     ELSE UNCHANGED <<syncStatus, localData, envelope, edited>>
  /\ Return(c)
  /\ UNCHANGED <<activePassphrase, revision, server, pushed, crossed>>
  /\ Refresh

Imported(c) ==
  /\ At(c, "import", "decrypt")
  /\ IF Opens(op[c].passphrase, op[c].env)
     THEN /\ activePassphrase' = op[c].passphrase /\ envelope' = op[c].env
          /\ syncStatus' = "synced"
          /\ ApplyInbound(op[c].env)
          /\ Refresh
     ELSE UNCHANGED <<activePassphrase, syncStatus, localData, envelope, shown, edited>>
  /\ Return(c)
  /\ UNCHANGED <<revision, server, pushed, crossed>>

-----------------------------------------------------------------------------
(* syncNow; its button is disabled while the vault shows locked and until
   the last call has returned. *)

SyncNow(c, cfg) ==
  /\ shown.unlocked /\ "sync" \notin UnderWay
  /\ activePassphrase # Absent /\ revision < MaxRevision
  /\ Start(c, "sync", "encrypt", activePassphrase, Sealed(revision + 1, activePassphrase),
           cfg)
  /\ syncStatus' = "syncing" /\ edited' = FALSE
  /\ UNCHANGED <<activePassphrase, localData, stored, server, pushed>>
  /\ Refresh

EndSync(c, result) == syncStatus' = result /\ Return(c) /\ Refresh
Continue(c, at) == op' = [op EXCEPT ![c].at = at] /\ UNCHANGED <<syncStatus, shown>>

(* Mutant: the revision is stored only when there is no server. *)
EncryptedRevisionLater(c) ==
  /\ At(c, "sync", "encrypt")
  /\ envelope' = op[c].env
  /\ revision' = IF op[c].remote = "local_only" THEN op[c].env.revision ELSE revision
  /\ UNCHANGED <<activePassphrase, localData, server, pushed, edited, crossed>>
  /\ CASE op[c].remote = "local_only" -> EndSync(c, "synced")
       [] op[c].remote = "no_url" -> EndSync(c, "error")
       [] op[c].remote = "zendev_cloud" -> Continue(c, "fetch")

(* Mutant: the envelope is stored only when there is no server. *)
EncryptedNotStored(c) ==
  /\ At(c, "sync", "encrypt")
  /\ envelope' = IF op[c].remote = "local_only" THEN op[c].env ELSE envelope
  /\ revision' = op[c].env.revision
  /\ UNCHANGED <<activePassphrase, localData, server, pushed, edited, crossed>>
  /\ CASE op[c].remote = "local_only" -> EndSync(c, "synced")
       [] op[c].remote = "no_url" -> EndSync(c, "error")
       [] op[c].remote = "zendev_cloud" -> Continue(c, "fetch")

Encrypted(c) ==
  /\ At(c, "sync", "encrypt")
  /\ envelope' = op[c].env /\ revision' = op[c].env.revision
  /\ UNCHANGED <<activePassphrase, localData, server, pushed, edited, crossed>>
  /\ CASE op[c].remote = "local_only" -> EndSync(c, "synced")
       [] op[c].remote = "no_url" -> EndSync(c, "error")
       [] op[c].remote = "zendev_cloud" -> Continue(c, "fetch")

(* The server keeps the highest revision and answers with it. *)
Kept(env) == IF server = Absent \/ env.revision > server.revision THEN env ELSE server

(* The request, which may fail on its way out or back. *)
Fetch(c) ==
  /\ At(c, "sync", "fetch")
  /\ UNCHANGED <<activePassphrase, localData, stored, edited, crossed>>
  /\ \/ EndSync(c, "error") /\ UNCHANGED <<server, pushed>>
     \/ /\ server' = Kept(op[c].env)
        /\ pushed' = pushed \cup {<<op[c].env.revision, op[c].env.data>>}
        /\ \/ op' = [op EXCEPT ![c].at = "json", ![c].env = server'] /\ UNCHANGED <<syncStatus, shown>>
           \/ EndSync(c, "error")

(* The answer is decrypted under the passphrase active by now; without one
   this throws. *)
Answer(c) ==
  /\ At(c, "sync", "json")
  /\ UNCHANGED <<activePassphrase, localData, stored, server, pushed, edited, crossed>>
  /\ IF op[c].env.revision <= revision THEN EndSync(c, "synced")
     ELSE IF activePassphrase = Absent THEN EndSync(c, "error")
     ELSE /\ op' = [op EXCEPT ![c].at = "merge", ![c].passphrase = activePassphrase]
          /\ UNCHANGED <<syncStatus, shown>>

Merge(c) ==
  /\ At(c, "sync", "merge")
  /\ UNCHANGED <<activePassphrase, server, pushed, crossed>>
  /\ IF Opens(op[c].passphrase, op[c].env)
     THEN /\ ApplyInbound(op[c].env)
          /\ envelope' = op[c].env /\ revision' = op[c].env.revision
          /\ EndSync(c, "synced")
     ELSE UNCHANGED <<localData, envelope, revision, edited>> /\ EndSync(c, "error")

-----------------------------------------------------------------------------
(* The environment. *)

Edit(d) ==
  /\ localData' = d /\ edited' = TRUE
  /\ UNCHANGED <<activePassphrase, syncStatus, stored, shown, server, op, pushed, crossed>>

OtherDeviceSyncs(p, d) ==
  /\ server # Absent => server.revision < MaxRevision
  /\ server' = [revision |-> IF server = Absent THEN 1 ELSE server.revision + 1,
                passphrase |-> p, data |-> d]
  /\ UNCHANGED <<activePassphrase, syncStatus, localData, stored, shown, op, pushed, edited,
                 crossed>>

(* initStatus of the next process *)
Reopen ==
  /\ activePassphrase' = Absent /\ op' = [c \in Calls |-> NoOp] /\ crossed' = {}
  /\ syncStatus' = IF envelope = Absent THEN "offline" ELSE "locked"
  /\ UNCHANGED <<localData, stored, server, pushed, edited>>
  /\ Refresh

SyncInit ==
  /\ activePassphrase = Absent /\ syncStatus = "offline"
  /\ localData = Empty /\ envelope = Absent /\ revision = 0
  /\ shown = [unlocked |-> FALSE, vault |-> FALSE]
  /\ server = Absent /\ op = [c \in Calls |-> NoOp]
  /\ pushed = {} /\ edited = FALSE /\ crossed = {}

SyncStep(c) ==
  \/ \E p \in Passphrases : SetMasterPassphrase(c, p) \/ UnlockVault(c, p)
  \/ \E p \in Passphrases, file \in Files : ImportVault(c, file, p)
  \/ MasterPassphraseSet(c) \/ Unlocked(c) \/ Imported(c) \/ ExportVault(c) \/ Exported(c)
  \/ \E cfg \in Provider : SyncNow(c, cfg)
  \/ Encrypted(c) \/ Fetch(c) \/ Answer(c) \/ Merge(c)

SyncNext ==
  \/ \E c \in Calls : SyncStep(c)
  \/ \E p \in Passphrases, d \in Content : OtherDeviceSyncs(p, d)
  \/ \E d \in Content : Edit(d)
  \/ LockVault \/ SaveProviderConfig \/ Reopen

SyncSpec == SyncInit /\ [][SyncNext]_syncVars

-----------------------------------------------------------------------------
Kinds == {"set", "unlock", "export", "import", "sync"}
OpType == [kind : Kinds \cup {"none"},
           at : {"idle", "encrypt", "decrypt", "fetch", "json", "merge"},
           passphrase : Passphrases \cup {Absent}, env : Envelope \cup {Absent},
           remote : Provider \cup {Absent}]

SyncTypeOK ==
  /\ activePassphrase \in Passphrases \cup {Absent}
  /\ syncStatus \in {"locked", "synced", "syncing", "offline", "error"}
  /\ localData \in Content
  /\ envelope \in Envelope \cup {Absent} /\ server \in Envelope \cup {Absent}
  /\ revision \in 0..MaxRevision
  /\ shown \in [unlocked : BOOLEAN, vault : BOOLEAN]
  /\ op \in [Calls -> OpType]
  /\ pushed \subseteq (1..MaxRevision) \X Content
  /\ edited \in BOOLEAN
  /\ crossed \subseteq Kinds

(* A device never sends two contents under one revision, whatever answers
   were lost, whichever calls overlapped and whenever it was restarted: the
   server can tell them apart. *)
RevisionsNotReused ==
  \A a, b \in pushed : a[1] = b[1] => a[2] = b[2]

(* Once stored, the envelope is opened by the passphrase of an unlocked vault,
   also while unlocking, locking and syncing overlap: a user who locks it can
   open it again.  Only a call that brings a passphrase of its own (set,
   import, and an export before the first envelope) can break this, by
   overlapping another call. *)
EnvelopeOpens ==
  crossed \cap {"set", "import", "export"} = {} =>
    (envelope # Absent /\ activePassphrase # Absent => Opens(activePassphrase, envelope))

(* 'synced' with no call under way: what is stored is what the user has, but
   for later edits and for empty lists, which are not applied.  A sync that
   another call overlapped may report 'synced' of what that call replaced. *)
SyncedMeansStored ==
  UnderWay = {} /\ syncStatus = "synced" /\ ~edited /\ crossed \subseteq {"unlock"} =>
    envelope # Absent /\ envelope.data \in {localData, Empty}

(* types.ts:61 says of 'locked': "Master passphrase not entered".  A call
   under way overwrites the status of a vault locked meanwhile. *)
LockedIsShown ==
  envelope # Absent /\ activePassphrase = Absent => syncStatus = "locked"

=============================================================================
