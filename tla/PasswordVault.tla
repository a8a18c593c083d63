--------------------------- MODULE PasswordVault ---------------------------
(***************************************************************************)
(* The password vault of renderer/src/pages/PasswordGenerator.tsx over     *)
(* lib/vaultCrypto.ts.  The page holds the list, every change stores the   *)
(* whole list it makes, and between a change and localStorage lie the key  *)
(* derivation and AES, whose ends nothing orders.                          *)
(*                                                                         *)
(* An entry is its id.  Search, categories, the generator and the breach   *)
(* check leave the vault alone.                                            *)
(***************************************************************************)
EXTENDS Naturals, SequencesExt

CONSTANTS
  Entries,
  MaxSaving,          \* bound on the stores under way
  MaxVaultFailures    \* bound on failing AES calls and full storage

VARIABLES
  pageOpen, vaultItems, isSaveModalOpen,   \* the page
  stored,      \* nexus_password_vault_v1
  loading,     \* what the page's loadDecryptedVault read, while it decrypts
  saving,      \* saveEncryptedVault under way, in the order they began
  importing,   \* a backup being read, with the list the handler knew
  backup,      \* the file exported last
  kept,        \* history: what the user saved or restored and did not delete
  usedEntries, \* history
  crossed,     \* history: two of these were under way together in a way that loses entries
  vaultFailures

pageState == <<pageOpen, vaultItems, isSaveModalOpen>>
passwordVars == <<pageState, stored, loading, saving, importing, backup, kept, usedEntries,
                  crossed, vaultFailures>>

FailOnce == vaultFailures < MaxVaultFailures /\ vaultFailures' = vaultFailures + 1
Crosses(way) == crossed' = (crossed \/ way)

(* heard: the page that started it is still the one on the screen. *)
Store(items, closes) ==
  /\ Len(saving) < MaxSaving
  /\ saving' = Append(saving, [items |-> items, closes |-> closes, heard |-> TRUE])

-----------------------------------------------------------------------------
(* The page is opened: it shows nothing until the stored list is decrypted,
   and does not know what is still on its way to the storage. *)
OpenGenerator ==
  /\ ~pageOpen /\ pageOpen' = TRUE
  /\ vaultItems' = {} /\ isSaveModalOpen' = FALSE /\ loading' = {stored}
  /\ Crosses(saving # <<>>)
  /\ UNCHANGED <<stored, saving, importing, backup, kept, usedEntries, vaultFailures>>

(* Whatever the list has become meanwhile, it is replaced. *)
Loaded(items) ==
  /\ items \in loading /\ loading' = {} /\ vaultItems' = items
  /\ UNCHANGED <<pageOpen, isSaveModalOpen, stored, saving, importing, backup, kept,
                 usedEntries, crossed, vaultFailures>>

(* A decryption that fails reads as an empty vault. *)
LoadFails ==
  /\ loading # {} /\ FailOnce
  /\ loading' = {} /\ vaultItems' = {} /\ Crosses(TRUE)
  /\ UNCHANGED <<pageOpen, isSaveModalOpen, stored, saving, importing, backup, kept, usedEntries>>

SaveModal(open) ==
  /\ pageOpen /\ isSaveModalOpen = ~open
  /\ isSaveModalOpen' = open
  /\ UNCHANGED <<pageOpen, vaultItems, stored, loading, saving, importing, backup, kept,
                 usedEntries, crossed, vaultFailures>>

(* handleSaveToVault: the form stays open until the store has ended, and may
   be sent again. *)
SaveToVault(e) ==
  /\ isSaveModalOpen /\ e \notin usedEntries
  /\ vaultItems' = vaultItems \cup {e} /\ Store(vaultItems', TRUE)
  /\ kept' = kept \cup {e} /\ usedEntries' = usedEntries \cup {e}
  /\ Crosses(loading # {})
  /\ UNCHANGED <<pageOpen, isSaveModalOpen, stored, loading, importing, backup, vaultFailures>>

(* handleDeleteVaultItem *)
DeleteVaultItem(e) ==
  /\ pageOpen /\ e \in vaultItems
  /\ vaultItems' = vaultItems \ {e} /\ Store(vaultItems', FALSE)
  /\ kept' = kept \ {e}
  /\ Crosses(loading # {})
  /\ UNCHANGED <<pageOpen, isSaveModalOpen, stored, loading, importing, backup, usedEntries,
                 vaultFailures>>

ExportVault ==
  /\ pageOpen /\ backup # vaultItems /\ backup' = vaultItems
  /\ UNCHANGED <<pageState, stored, loading, saving, importing, kept, usedEntries, crossed,
                 vaultFailures>>

(* handleImportVault until the file is read. *)
ChooseBackup ==
  /\ pageOpen /\ backup # {} /\ importing = {}
  /\ importing' = {[base |-> vaultItems, file |-> backup, heard |-> TRUE]}
  /\ UNCHANGED <<pageState, stored, loading, saving, backup, kept, usedEntries, crossed,
                 vaultFailures>>

(* reader.onload: merged with the list of the moment the file was chosen, also
   when the page has been left or has changed since. *)
ImportInto(r, items) ==
  /\ r \in importing /\ importing' = {}
  /\ vaultItems' = IF r.heard THEN items ELSE vaultItems
  /\ Len(saving) < MaxSaving
  /\ saving' = Append(saving, [items |-> items, closes |-> FALSE, heard |-> r.heard])
  /\ kept' = kept \cup r.file
  /\ Crosses(r.base # kept \/ (pageOpen /\ (loading # {} \/ ~r.heard)))
  /\ UNCHANGED <<pageOpen, isSaveModalOpen, stored, loading, backup, usedEntries, vaultFailures>>

(* Mutant: the backup takes the place of the list. *)
BackupReadOver(r) == ImportInto(r, r.file)

BackupRead(r) == ImportInto(r, r.file \cup r.base)

-----------------------------------------------------------------------------
(* A store ends; without AES the list is stored in the clear, which changes
   nothing here. *)
SaveEnds(i) ==
  /\ stored' = saving[i].items /\ saving' = RemoveAt(saving, i)
  /\ isSaveModalOpen' = (isSaveModalOpen /\ ~(saving[i].closes /\ saving[i].heard))
  /\ Crosses(i > 1)
  /\ UNCHANGED <<pageOpen, vaultItems, loading, importing, backup, kept, usedEntries,
                 vaultFailures>>

(* localStorage is full: the page keeps what the storage does not have. *)
SaveThrows(i) ==
  /\ FailOnce /\ saving' = RemoveAt(saving, i) /\ Crosses(TRUE)
  /\ UNCHANGED <<pageState, stored, loading, importing, backup, kept, usedEntries>>

ForgetGenerator ==
  /\ pageOpen' = FALSE /\ vaultItems' = {} /\ isSaveModalOpen' = FALSE /\ loading' = {}
  /\ UNCHANGED <<stored, backup, kept, usedEntries, vaultFailures>>

(* Another page: stores and reads under way go on. *)
LeaveGenerator ==
  /\ pageOpen /\ ForgetGenerator
  /\ saving' = [i \in DOMAIN saving |-> [saving[i] EXCEPT !.heard = FALSE]]
  /\ importing' = {[r EXCEPT !.heard = FALSE] : r \in importing}
  /\ UNCHANGED crossed

(* The program ends. *)
QuitGenerator ==
  /\ saving # <<>> \/ importing # {}
  /\ ForgetGenerator
  /\ saving' = <<>> /\ importing' = {} /\ Crosses(saving # <<>>)

PasswordInit ==
  /\ pageOpen = FALSE /\ vaultItems = {} /\ isSaveModalOpen = FALSE
  /\ stored = {} /\ loading = {} /\ saving = <<>> /\ importing = {} /\ backup = {}
  /\ kept = {} /\ usedEntries = {} /\ crossed = FALSE /\ vaultFailures = 0

PasswordNext ==
  \/ OpenGenerator \/ LoadFails \/ ExportVault \/ ChooseBackup \/ LeaveGenerator \/ QuitGenerator
  \/ \E items \in loading : Loaded(items)
  \/ \E open \in BOOLEAN : SaveModal(open)
  \/ \E e \in Entries : SaveToVault(e) \/ DeleteVaultItem(e)
  \/ \E r \in importing : BackupRead(r)
  \/ \E i \in DOMAIN saving : SaveEnds(i) \/ SaveThrows(i)

PasswordSpec == PasswordInit /\ [][PasswordNext]_passwordVars

-----------------------------------------------------------------------------
(* Once no store is under way the storage has just the passwords the user
   saved or restored and did not delete, and so has the page, however often it
   was left and opened and however many stores overlapped: an entry is lost
   only by a change made before the list is loaded, an opening while a store
   is under way, a store that overtakes an older one, a change while a backup
   is read, a call that fails or the end of the program. *)
VaultKeepsEntries ==
  saving = <<>> /\ ~crossed =>
    /\ stored = kept
    /\ pageOpen /\ loading = {} => vaultItems = kept
=============================================================================
