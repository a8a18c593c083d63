----------------------------- MODULE Scratchpad -----------------------------
(***************************************************************************)
(* The notes of renderer/src/pages/Scratchpad.tsx with their vault, their  *)
(* timeline of snapshots and files dropped on the page.  What an event     *)
(* handler read when it was called ("activeNote") is what it writes by     *)
(* when an encryption, a decryption or a file read has ended.              *)
(*                                                                         *)
(* Titles, search and export are left out.  An effect stores each render   *)
(* in localStorage, so state and storage are one variable, and leaving the *)
(* page loses only what is under way.                                      *)
(***************************************************************************)
EXTENDS SequencesExt

CONSTANTS
  NoteIds,
  Contents,       \* texts
  EmptyText,      \* the one without characters
  InsertImage,    \* [Contents -> Contents]: wrapSelection with an image
  NotePasswords,
  MaxSnapshots,   \* 15 in the code
  MaxUnderWay,    \* bound on encryptions and image reads under way
  NoBlob

ASSUME ContentsAssumption ==
  /\ EmptyText \in Contents /\ InsertImage \in [Contents -> Contents]
  /\ NoteIds # {} /\ MaxSnapshots \in Nat
  /\ \A c \in Contents, p \in NotePasswords : [text |-> c, password |-> p] # NoBlob

VARIABLES
  notes,       \* sequence of [id, content, blob]: blob # NoBlob is isEncrypted
  activeNoteId,
  snapshots,   \* newest first
  showVaultModal,
  encrypting,  \* handleLockNote at its await; edited is history: the note was, since
  decrypting,  \* handleUnlockNote at its await; resealed is history: likewise
  reading,     \* images being read for the editor
  usedIds      \* history

noteVars == <<notes, activeNoteId, snapshots, showVaultModal, encrypting, decrypting,
              reading, usedIds>>

Fresh(id, c) == [id |-> id, content |-> c, blob |-> NoBlob]
Ids == {notes[i].id : i \in DOMAIN notes}
Note(id) == notes[CHOOSE i \in DOMAIN notes : notes[i].id = id]
IsEncrypted(id) == Note(id).blob # NoBlob

(* activeNote: the first one when the active one is gone. *)
Active == IF activeNoteId \in Ids THEN activeNoteId ELSE notes[1].id

(* The page of an encrypted note shows the unlock form and nothing else. *)
Editor == ~IsEncrypted(Active) /\ ~showVaultModal

SetNote(id, c, b) ==
  notes' = [i \in DOMAIN notes |->
    IF notes[i].id = id THEN [notes[i] EXCEPT !.content = c, !.blob = b] ELSE notes[i]]

Edited(ops, id) == [i \in DOMAIN ops |-> [ops[i] EXCEPT !.edited = @ \/ ops[i].id = id]]

(* updateContent of the note a handler knew as active. *)
UpdateContent(id, c) ==
  /\ IF id \in Ids THEN SetNote(id, c, Note(id).blob) ELSE UNCHANGED notes
  /\ encrypting' = Edited(encrypting, id)

-----------------------------------------------------------------------------
(* Typing, the toolbar, find and replace, keys and task boxes. *)
EditNote(c) ==
  /\ Editor /\ UpdateContent(Active, c)
  /\ UNCHANGED <<activeNoteId, snapshots, showVaultModal, decrypting, reading, usedIds>>

(* A snapshot goes to the active note, whichever note it was taken of. *)
RestoreSnapshot(i) ==
  /\ Editor /\ UpdateContent(Active, snapshots[i])
  /\ UNCHANGED <<activeNoteId, snapshots, showVaultModal, decrypting, reading, usedIds>>

(* The timer, every three minutes. *)
AutoSnapshot ==
  LET c == Note(Active).content
      all == <<c>> \o snapshots
  IN /\ ~IsEncrypted(Active) /\ c # EmptyText
     /\ IF snapshots = <<>> THEN TRUE ELSE Head(snapshots) # c
     /\ snapshots' = IF Len(all) <= MaxSnapshots THEN all ELSE SubSeq(all, 1, MaxSnapshots)
     /\ UNCHANGED <<notes, activeNoteId, showVaultModal, encrypting, decrypting, reading,
                    usedIds>>

AddNote(id, c, atEnd) ==
  /\ id \notin usedIds /\ usedIds' = usedIds \cup {id}
  /\ notes' = IF atEnd THEN Append(notes, Fresh(id, c)) ELSE <<Fresh(id, c)>> \o notes
  /\ activeNoteId' = id
  /\ UNCHANGED <<snapshots, showVaultModal, encrypting, decrypting, reading>>

(* handleAddNote and the templates; text files dropped on the window. *)
NewNote(id, c) == Editor /\ AddNote(id, c, TRUE)
FileDropped(id, c) == AddNote(id, c, FALSE)

SelectNote(id) ==
  /\ Editor /\ activeNoteId' = id
  /\ UNCHANGED <<notes, snapshots, showVaultModal, encrypting, decrypting, reading, usedIds>>

DeleteNote(id) ==
  /\ Editor /\ Len(notes) > 1
  /\ notes' = RemoveAt(notes, CHOOSE i \in DOMAIN notes : notes[i].id = id)
  /\ activeNoteId' = IF activeNoteId = id THEN notes'[1].id ELSE activeNoteId
  /\ UNCHANGED <<snapshots, showVaultModal, encrypting, decrypting, reading, usedIds>>

-----------------------------------------------------------------------------
(* The vault *)

VaultModal(open) ==
  /\ open => Editor
  /\ ~open => showVaultModal /\ ~IsEncrypted(Active)
  /\ showVaultModal' = open
  /\ UNCHANGED <<notes, activeNoteId, snapshots, encrypting, decrypting, reading, usedIds>>

(* Nothing stops a second press, or a cancel and more edits meanwhile. *)
LockNote(p) ==
  /\ showVaultModal /\ ~IsEncrypted(Active)
  /\ Len(encrypting) < MaxUnderWay
  /\ encrypting' = Append(encrypting,
       [id |-> Active, text |-> Note(Active).content, password |-> p, edited |-> FALSE])
  /\ UNCHANGED <<notes, activeNoteId, snapshots, showVaultModal, decrypting, reading, usedIds>>

Seal(i, id) ==
  /\ encrypting' = Edited(RemoveAt(encrypting, i), id)
  /\ showVaultModal' = FALSE
  /\ IF id \in Ids
     THEN SetNote(id, EmptyText, [text |-> encrypting[i].text, password |-> encrypting[i].password])
     ELSE UNCHANGED notes
  /\ decrypting' = {[d EXCEPT !.resealed = @ \/ d.id = id] : d \in decrypting}
  /\ UNCHANGED <<activeNoteId, snapshots, reading, usedIds>>

(* Mutant: the note active by now is locked. *)
NoteLockedActive(i) == Seal(i, Active)

NoteLocked(i) == Seal(i, encrypting[i].id)

(* One at a time: the button is disabled by isDecrypting. *)
UnlockNote(p) ==
  /\ IsEncrypted(Active) /\ decrypting = {}
  /\ decrypting' = {[id |-> Active, blob |-> Note(Active).blob, password |-> p,
                     resealed |-> FALSE]}
  /\ UNCHANGED <<notes, activeNoteId, snapshots, showVaultModal, encrypting, reading, usedIds>>

NoteUnlocked(d) ==
  /\ d \in decrypting /\ decrypting' = {}
  /\ IF d.password = d.blob.password /\ d.id \in Ids
     THEN SetNote(d.id, d.blob.text, NoBlob) /\ encrypting' = Edited(encrypting, d.id)
     ELSE UNCHANGED <<notes, encrypting>>
  /\ UNCHANGED <<activeNoteId, snapshots, showVaultModal, reading, usedIds>>

-----------------------------------------------------------------------------
(* An image dropped on the editor: its text is put into the content of the
   moment of the drop. *)
DropImage ==
  /\ Editor /\ reading = {}
  /\ reading' = {[id |-> Active, text |-> Note(Active).content]}
  /\ UNCHANGED <<notes, activeNoteId, snapshots, showVaultModal, encrypting, decrypting,
                 usedIds>>

ImageRead(r) ==
  /\ r \in reading /\ reading' = {}
  /\ IF IsEncrypted(Active) THEN UNCHANGED <<notes, encrypting>>   \* no editor to insert into
                            ELSE UpdateContent(r.id, InsertImage[r.text])
  /\ UNCHANGED <<activeNoteId, snapshots, showVaultModal, decrypting, usedIds>>

(* Another page, or the end of the program. *)
LeavePage ==
  /\ activeNoteId' = notes[1].id /\ showVaultModal' = FALSE
  /\ encrypting' = <<>> /\ decrypting' = {} /\ reading' = {}
  /\ UNCHANGED <<notes, snapshots, usedIds>>

NotesInit ==
  /\ activeNoteId = CHOOSE id \in NoteIds : TRUE
  /\ notes = <<Fresh(activeNoteId, EmptyText)>> /\ usedIds = {activeNoteId}
  /\ snapshots = <<>> /\ showVaultModal = FALSE
  /\ encrypting = <<>> /\ decrypting = {} /\ reading = {}

NotesNext ==
  \/ \E c \in Contents : EditNote(c) \/ \E id \in NoteIds : NewNote(id, c) \/ FileDropped(id, c)
  \/ \E i \in DOMAIN snapshots : RestoreSnapshot(i)
  \/ \E id \in Ids : SelectNote(id) \/ DeleteNote(id)
  \/ \E open \in BOOLEAN : VaultModal(open)
  \/ \E p \in NotePasswords : LockNote(p) \/ UnlockNote(p)
  \/ \E i \in DOMAIN encrypting : NoteLocked(i)
  \/ \E d \in decrypting : NoteUnlocked(d)
  \/ \E r \in reading : ImageRead(r)
  \/ AutoSnapshot \/ DropImage \/ LeavePage

NotesSpec == NotesInit /\ [][NotesNext]_noteVars

-----------------------------------------------------------------------------
(* Whatever is selected, added, deleted or dropped while AES runs: a note is
   locked with the text it has, unless it was edited after the press, and
   unlocking gives back what was locked, unless it was locked anew meanwhile. *)
VaultKeepsText ==
  [][\A id \in Ids \cap Ids' :
       LET before == Note(id)
           after == Note(id)'
       IN /\ before.blob = NoBlob /\ after.blob # NoBlob =>
               \/ after.blob.text = before.content
               \/ \E i \in DOMAIN encrypting : encrypting[i].id = id /\ encrypting[i].edited
          /\ before.blob # NoBlob /\ after.blob = NoBlob =>
               \/ after.content = before.blob.text
               \/ \E d \in decrypting : d.id = id /\ d.resealed]_noteVars
=============================================================================
