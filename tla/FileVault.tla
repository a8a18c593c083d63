----------------------------- MODULE FileVault -----------------------------
(***************************************************************************)
(* Encryption, decryption and shredding of files: the commands of          *)
(* src-tauri/src/crypto.rs and the page that calls them                    *)
(* (renderer/src/pages/CyberFortress.tsx).                                 *)
(*                                                                         *)
(* A command runs on a thread of its own; the page allows one shred and    *)
(* one vault operation at a time, but forgets both when it is left, while  *)
(* the threads go on.  A file name is a document's with at most one suffix *)
(* and the " (n)" that get_unique_path appended.  A content is what was    *)
(* typed in (data) under the passphrases it was encrypted with.  Staging   *)
(* files, under random names no command reads, are not part of the state.  *)
(***************************************************************************)
EXTENDS Naturals, Sequences, SequencesExt

CONSTANTS
  Tasks,          \* the commands that may run at the same time
  Documents,      \* the documents, and the names of their files
  VaultKeys,      \* passphrases
  Noise, Half,    \* what a shred wrote; what a failed write leaves
  Blank,          \* the data of a file of size 0
  NoContent,      \* nothing under a name
  NoName,         \* no file selected
  MaxNameCopy,    \* bound on the n of get_unique_path
  MaxLayers,      \* bound on how often a content is encrypted
  MaxTasks,       \* bound on the operations started
  MaxIoErrors     \* bound on the system calls that fail and the deaths of the process

(* The first content a document has is one layer deep at most; what is
   typed in, and what a shred writes, is not the mark of a cut file. *)
BoundAssumption == MaxNameCopy \in Nat /\ MaxLayers \in Nat \ {0}
ASSUME BoundAssumption

DataAssumption == Half \notin Documents \cup {Noise, Blank}
ASSUME DataAssumption

Name == [doc : Documents, suffix : {<<>>, <<"vault">>, <<"restored">>}, copy : 0..MaxNameCopy]
Content == [data : Documents \cup {Noise, Half, Blank}, keys : BoundedSeq(VaultKeys, MaxLayers)]

VARIABLES
  files,          \* Name -> Content \cup {NoContent}
  task,           \* the commands in flight
  shredFile, shredConfirm, isShredding, vaultFile, isVaultProcessing,  \* the page
  agreed,         \* history: the file shown when the box was ticked
  shredded,       \* history: the names whose file a shred has opened or found empty
  disturbed,      \* history: the page was left, or the user saved a file, during an operation
  started, ioErrors

shredPage == <<shredFile, shredConfirm, isShredding, agreed>>
vaultPage == <<vaultFile, isVaultProcessing>>
fortressPage == <<shredPage, vaultPage>>
diskState == <<files, shredded>>
counters == <<disturbed, started, ioErrors>>
vaultVars == <<diskState, task, fortressPage, counters>>

(* own: a shred's open file is still the one under the name.
   heard: the page that started the command has not been left. *)
Idle == [at |-> "idle", kind |-> "none", path |-> NoName, key |-> NoName, content |-> NoContent,
         out |-> NoName, own |-> TRUE, heard |-> FALSE, ok |-> TRUE]

Stored(n) == files[n] # NoContent
IoError == ioErrors < MaxIoErrors /\ ioErrors' = ioErrors + 1
NoIoError == ioErrors' = ioErrors
Running == {t \in Tasks : task[t] # Idle}

GoesTo(t, at) == task' = [task EXCEPT ![t].at = at]
Fails(t) == task' = [task EXCEPT ![t].at = "answered", ![t].ok = FALSE]

-----------------------------------------------------------------------------
(* The page. *)

(* Files are selected as long as an operation may still be started. *)
Selectable(n) == Stored(n) /\ started < MaxTasks

(* Mutant: choosing another file keeps the box ticked. *)
SelectShredFileTicked(n) ==
  /\ Selectable(n)
  /\ shredFile' = n
  /\ UNCHANGED <<diskState, task, shredConfirm, isShredding, agreed, vaultPage, counters>>

(* handleSelectShredFile, and a file dropped on the page: at any moment *)
SelectShredFile(n) ==
  /\ Selectable(n)
  /\ shredFile' = n /\ shredConfirm' = FALSE /\ agreed' = NoName
  /\ UNCHANGED <<diskState, task, isShredding, vaultPage, counters>>

ToggleConfirm ==
  /\ shredFile # NoName /\ started < MaxTasks
  /\ shredConfirm' = ~shredConfirm
  /\ agreed' = IF shredConfirm THEN NoName ELSE shredFile
  /\ UNCHANGED <<diskState, task, shredFile, isShredding, vaultPage, counters>>

(* handleSelectVaultFile, and the drop of a .nexusvault file *)
SelectVaultFile(n) ==
  /\ Selectable(n)
  /\ vaultFile' = n
  /\ UNCHANGED <<diskState, task, shredPage, isVaultProcessing, counters>>

Start(t, kind, path, key) ==
  /\ task[t] = Idle
  /\ task' = [task EXCEPT ![t] = [Idle EXCEPT !.at = "begin", !.kind = kind, !.path = path,
                                              !.key = key, !.heard = TRUE]]
  /\ started < MaxTasks /\ started' = started + 1
  /\ UNCHANGED <<diskState, disturbed, ioErrors>>

(* handleExecuteShred *)
ExecuteShred(t) ==
  /\ shredFile # NoName /\ shredConfirm /\ ~isShredding
  /\ Start(t, "shred", shredFile, NoName)
  /\ isShredding' = TRUE
  /\ UNCHANGED <<shredFile, shredConfirm, agreed, vaultPage>>

(* handleExecuteVault, with the action and the passphrase chosen on the page *)
ExecuteVault(t, kind, key) ==
  /\ vaultFile # NoName /\ ~isVaultProcessing
  /\ Start(t, kind, vaultFile, key)
  /\ isVaultProcessing' = TRUE
  /\ UNCHANGED <<vaultFile, shredPage>>

(* The answer: a success clears the file, whichever is selected by then. *)
ShredAnswered(t) ==
  /\ task[t].at = "answered" /\ task[t].kind = "shred"
  /\ isShredding' = (isShredding /\ ~task[t].heard)
  /\ IF task[t].heard /\ task[t].ok
     THEN shredFile' = NoName /\ shredConfirm' = FALSE /\ agreed' = NoName
     ELSE UNCHANGED <<shredFile, shredConfirm, agreed>>
  /\ task' = [task EXCEPT ![t] = Idle]
  /\ UNCHANGED <<diskState, vaultPage, counters>>

VaultAnswered(t) ==
  /\ task[t].at = "answered" /\ task[t].kind # "shred"
  /\ isVaultProcessing' = (isVaultProcessing /\ ~task[t].heard)
  /\ vaultFile' = IF task[t].heard /\ task[t].ok THEN NoName ELSE vaultFile
  /\ task' = [task EXCEPT ![t] = Idle]
  /\ UNCHANGED <<diskState, shredPage, counters>>

ForgetPage ==
  /\ shredFile' = NoName /\ shredConfirm' = FALSE /\ isShredding' = FALSE
  /\ vaultFile' = NoName /\ isVaultProcessing' = FALSE /\ agreed' = NoName

(* Another page is opened: this one loses its state and its answers. *)
LeavePage ==
  /\ <<shredFile, vaultFile>> # <<NoName, NoName>>
  /\ ForgetPage
  /\ task' = [t \in Tasks |-> [task[t] EXCEPT !.heard = FALSE]]
  /\ disturbed' = (disturbed \/ Running # {})
  /\ UNCHANGED <<diskState, started, ioErrors>>

(* The user saves a file while an operation runs (once: that bounds the
   disturbances). *)
UserSaves(n, content) ==
  /\ ~Stored(n) /\ n.suffix # <<"restored">> /\ ~disturbed
  /\ files' = [files EXCEPT ![n] = content]
  /\ Running # {} /\ disturbed' = TRUE
  /\ UNCHANGED <<shredded, task, fortressPage, started, ioErrors>>

-----------------------------------------------------------------------------
(* encrypt_file and decrypt_file. *)

(* Mutant: the candidate is used although a file has that name. *)
FreshNameTaken(n) == {n}

(* get_unique_path *)
FreshName(n) ==
  LET free == {k \in (n.copy + 1)..MaxNameCopy : ~Stored([n EXCEPT !.copy = k])}
  IN  IF ~Stored(n) THEN {n}
      ELSE {[n EXCEPT !.copy = k] : k \in {m \in free : \A k \in free : m <= k}}

(* `<path>.vault`; or the path without that suffix, or with `.restored` *)
Candidate(n, kind) ==
  [n EXCEPT !.suffix = CASE kind = "encrypt"        -> Append(@, "vault")
                         [] @ = <<"vault">>         -> <<>>
                         [] OTHER                   -> Append(@, "restored")]

(* The whole file is read. *)
Read(t) ==
  LET n == task[t].path IN
  /\ task[t].at = "begin" /\ task[t].kind # "shred"
  /\ \/ /\ Stored(n) /\ NoIoError
        /\ task' = [task EXCEPT ![t].at = "pick", ![t].content = files[n]]
     \/ /\ IF Stored(n) THEN IoError ELSE NoIoError
        /\ Fails(t)
  /\ UNCHANGED <<diskState, fortressPage, disturbed, started>>

(* Its header and its authentication tag are right for the passphrase. *)
Opened(content, key) == content.keys # <<>> /\ Last(content.keys) = key

(* What the command makes of the content it read. *)
Result(content, kind, key) ==
  [content EXCEPT !.keys = IF kind = "encrypt" THEN Append(@, key) ELSE Front(@)]

(* decrypt refuses before it writes anything; both look for a free name
   before they derive the key and write. *)
Pick(t) ==
  LET k == task[t] IN
  /\ k.at = "pick"
  /\ IF k.kind = "decrypt" /\ ~Opened(k.content, k.key)
     THEN Fails(t)
     ELSE /\ Result(k.content, k.kind, k.key) \in Content
          /\ Candidate(k.path, k.kind) \in Name
          /\ \E n \in FreshName(Candidate(k.path, k.kind)) :
               task' = [task EXCEPT ![t].at = "write", ![t].out = n,
                                    ![t].content = Result(@, k.kind, k.key)]
  /\ UNCHANGED <<diskState, fortressPage, counters>>

(* Mutant: the outcome of the write is not looked at. *)
WriteStagingUnchecked(t) ==
  /\ task[t].at = "write"
  /\ \/ GoesTo(t, "rename") /\ NoIoError
     \/ task' = [task EXCEPT ![t].at = "rename", ![t].content.data = Half] /\ IoError
  /\ UNCHANGED <<diskState, fortressPage, disturbed, started>>

(* The staging file is written and synced, or removed. *)
WriteStaging(t) ==
  /\ task[t].at = "write"
  /\ \/ GoesTo(t, "rename") /\ NoIoError
     \/ Fails(t) /\ IoError
  /\ UNCHANGED <<diskState, fortressPage, disturbed, started>>

(* It is renamed, over whatever has the name by now: a shred that has that
   file open goes on with a file that has no name. *)
RenameStaging(t) ==
  /\ task[t].at = "rename"
  /\ \/ /\ NoIoError
        /\ files' = [files EXCEPT ![task[t].out] = task[t].content]
        /\ task' = [u \in Tasks |->
             IF u = t THEN [task[t] EXCEPT !.at = "answered"]
             ELSE [task[u] EXCEPT !.own = @ /\ ~(task[u].kind = "shred" /\ task[u].at # "begin"
                                                 /\ task[u].path = task[t].out)]]
     \/ Fails(t) /\ IoError /\ UNCHANGED files
  /\ UNCHANGED <<shredded, fortressPage, disturbed, started>>

-----------------------------------------------------------------------------
(* shred_file. *)

(* An empty file is unlinked at once, and that may fail unnoticed. *)
Open(t) ==
  LET n == task[t].path IN
  /\ task[t].at = "begin" /\ task[t].kind = "shred"
  /\ \/ /\ IF Stored(n) THEN IoError ELSE NoIoError
        /\ Fails(t) /\ UNCHANGED diskState
     \/ /\ Stored(n) /\ files[n].data = Blank /\ files[n].keys = <<>>
        /\ \/ files' = [files EXCEPT ![n] = NoContent] /\ NoIoError
           \/ UNCHANGED files /\ IoError
        /\ GoesTo(t, "answered") /\ shredded' = shredded \cup {n}
     \/ /\ Stored(n) /\ ~(files[n].data = Blank /\ files[n].keys = <<>>)
        /\ shredded' = shredded \cup {n}
        /\ GoesTo(t, "overwrite") /\ NoIoError /\ UNCHANGED files
  /\ UNCHANGED <<fortressPage, disturbed, started>>

(* The file the handle stands for, if it has a name. *)
Put(t, data) ==
  files' = IF task[t].own /\ Stored(task[t].path)
           THEN [files EXCEPT ![task[t].path] = [data |-> data, keys |-> <<>>]]
           ELSE files

(* The first of the seven passes; the six after it change nothing that the
   model tells apart, and may fail as well. *)
Overwrite(t) ==
  /\ task[t].at = "overwrite"
  /\ \/ Put(t, Noise) /\ GoesTo(t, "passes") /\ NoIoError
     \/ Fails(t) /\ IoError /\ (Put(t, Noise) \/ UNCHANGED files)
  /\ UNCHANGED <<shredded, fortressPage, disturbed, started>>

(* The last pass and the truncation to size 0. *)
Truncate(t) ==
  /\ task[t].at = "passes"
  /\ \/ Put(t, Blank) /\ GoesTo(t, "unlink") /\ NoIoError
     \/ Put(t, Noise) /\ Fails(t) /\ IoError
  /\ UNCHANGED <<shredded, fortressPage, disturbed, started>>

(* The handle is closed and the name unlinked. *)
Unlink(t) ==
  LET n == task[t].path IN
  /\ task[t].at = "unlink"
  /\ \/ Stored(n) /\ NoIoError /\ files' = [files EXCEPT ![n] = NoContent]
        /\ GoesTo(t, "answered")
     \/ /\ IF Stored(n) THEN IoError ELSE NoIoError
        /\ Fails(t) /\ UNCHANGED files
  /\ UNCHANGED <<shredded, fortressPage, disturbed, started>>

(* The process dies. *)
Die ==
  /\ Running # {} /\ IoError
  /\ task' = [t \in Tasks |-> Idle]
  /\ ForgetPage
  /\ disturbed' = TRUE
  /\ UNCHANGED <<diskState, started>>

-----------------------------------------------------------------------------
VaultInit ==
  /\ files \in [Name -> {NoContent} \cup
                          [data : Documents, keys : BoundedSeq(VaultKeys, 1)]]
  /\ \A n \in Name : Stored(n) => n.copy = 0 /\ n.suffix # <<"restored">>
                                 /\ (n.suffix = <<"vault">> => files[n].keys # <<>>)
  /\ task = [t \in Tasks |-> Idle]
  /\ shredFile = NoName /\ shredConfirm = FALSE /\ isShredding = FALSE /\ agreed = NoName
  /\ vaultFile = NoName /\ isVaultProcessing = FALSE
  /\ shredded = {} /\ disturbed = FALSE /\ started = 0 /\ ioErrors = 0

TaskStep(t) ==
  \/ ExecuteShred(t) \/ ShredAnswered(t) \/ VaultAnswered(t)
  \/ \E kind \in {"encrypt", "decrypt"}, key \in VaultKeys : ExecuteVault(t, kind, key)
  \/ Read(t) \/ Pick(t) \/ WriteStaging(t) \/ RenameStaging(t)
  \/ Open(t) \/ Overwrite(t) \/ Truncate(t) \/ Unlink(t)

VaultNext ==
  \/ \E t \in Tasks : TaskStep(t)
  \/ \E n \in Name : SelectShredFile(n) \/ SelectVaultFile(n)
  \/ \E n \in Name, d \in Documents : UserSaves(n, [data |-> d, keys |-> <<>>])
  \/ ToggleConfirm \/ LeavePage \/ Die

VaultSpec == VaultInit /\ [][VaultNext]_vaultVars

-----------------------------------------------------------------------------
(* An encryption or a decryption replaces no file, also not one whose shred
   goes on beside it, as long as the page stays open (only one runs then) and
   the user saves nothing under the name that was found free. *)
NothingReplaced ==
  [][\A n \in Name : Stored(n) /\ Stored(n)' /\ ~disturbed /\ files[n]' # files[n] =>
       \E t \in Tasks : task[t].kind = "shred" /\ task[t].path = n /\ n \in shredded]_vaultVars

(* Whatever fails, no name holds a file cut off in the middle, and what an
   operation reported to have written is there until a shred takes it. *)
ResultsAreWhole ==
  /\ \A n \in Name : Stored(n) => files[n].data # Half
  /\ \A t \in Tasks :
       task[t].kind \in {"encrypt", "decrypt"} /\ task[t].at = "answered" /\ task[t].ok
       /\ ~disturbed /\ task[t].out \notin shredded
         => files[task[t].out] = task[t].content

(* The box that releases a shred was ticked for the file that is shown:
   choosing or dropping another one, at any moment, takes the tick back. *)
TickIsForShownFile == shredConfirm => agreed = shredFile

=============================================================================
