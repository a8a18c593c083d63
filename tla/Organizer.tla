----------------------------- MODULE Organizer -----------------------------
(***************************************************************************)
(* The bulk file organizer: the commands of src-tauri/src/organizer.rs     *)
(* over a file system, and the page that calls them                        *)
(* (renderer/src/pages/BulkOrganizer.tsx).                                 *)
(*                                                                         *)
(* Every command runs on a thread of its own (spawn_blocking) and the page *)
(* does not keep a second one from starting; a step is one system call or  *)
(* one critical section.  A path is a name in a chosen folder ("top") or   *)
(* in the category folder below it ("sub"); a name carries the number of   *)
(* prefixes put before it and the " (n)" that get_unique_path appended.    *)
(***************************************************************************)
EXTENDS Naturals, Sequences, SequencesExt

CONSTANTS
  Commands,     \* the commands that may run at the same time
  Dirs,         \* the folders the user chooses from
  Files,        \* the contents of files: what must not be lost
  MaxPrefix,    \* bound on the prefixes a name collects
  MaxCopy,      \* bound on the n of get_unique_path
  MaxCalls,     \* bound on the calls the page makes before a restart
  MaxFaults,    \* bound on the system calls that fail and the deaths of the process
  NoFile, Torn  \* nothing at a path; the content of an interrupted copy

ASSUME CopyAssumption == MaxCopy \in Nat
ASSUME FilesAssumption == NoFile \notin Files \cup {Torn} /\ Torn \notin Files

Path == [dir : Dirs, in : {"top", "sub"}, prefixes : 0..MaxPrefix, copy : 0..MaxCopy]
Move == [old : Path, new : Path]

VARIABLES
  disk,         \* Path -> Files \cup {NoFile, Torn}
  undoStack,    \* UNDO_STACK, a sequence of moves
  cmd,          \* the commands in flight
  selectedDir, scannedFiles, scanning, canUndo,   \* the page
  snapshot,     \* history: the disk when the last batch started
  alone,        \* history: since then no second command and no user interfered
  sound,        \* history: since then nothing failed
  calls, faults \* history: the calls made, up to MaxCalls; the faults so far

Fault == faults < MaxFaults /\ faults' = faults + 1
NoFault == faults' = faults

page == <<selectedDir, scannedFiles, scanning, canUndo>>
history == <<snapshot, alone, sound, calls, faults>>
organizerVars == <<disk, undoStack, cmd, page, history>>

(* kind "execute": todo holds the operations left, done the moves made.
   kind "undo": done holds the moves left, the last one is reverted next.
   rescan: the folder handleUndo scans again when it succeeded. *)
Resting == [at |-> "idle", kind |-> "none", todo |-> {}, done |-> <<>>, from |-> NoFile,
            to |-> NoFile, ok |-> TRUE, rescan |-> {}]

OnDisk(f) == \E p \in Path : disk[p] = f
Exists(p) == disk[p] # NoFile
Busy == {c \in Commands : cmd[c] # Resting}

-----------------------------------------------------------------------------
(* The page, and what else the user does. *)

(* handleSelectDir and handleDropDir *)
SelectDir(d) ==
  /\ selectedDir' = {d} /\ scannedFiles' = {}
  /\ UNCHANGED <<disk, undoStack, cmd, scanning, canUndo, history>>

(* handleScan; the list arrives in ScanDone, whatever folder is selected then. *)
Scan ==
  /\ selectedDir # {} /\ scanning = {}
  /\ scanning' = selectedDir
  /\ UNCHANGED <<disk, undoStack, cmd, selectedDir, scannedFiles, canUndo, history>>

ScanDone ==
  /\ scanning # {}
  /\ scanning' = {}
  /\ scannedFiles' = {p \in Path : p.dir \in scanning /\ p.in = "top" /\ Exists(p)}
  /\ UNCHANGED <<disk, undoStack, cmd, selectedDir, canUndo, history>>

(* generatePreview: where a scanned file goes, by category, with a prefix, or
   (neither chosen) to its own name. *)
Target(p, d, style) ==
  [p EXCEPT !.dir = d, !.in = IF style = "category" THEN "sub" ELSE @,
            !.prefixes = IF style = "prefix" THEN @ + 1 ELSE @]

(* handleExecute with the files not excluded: neither isExecuting nor
   isUndoing keeps it from being called. *)
Execute(c, chosen, d, style) ==
  /\ cmd[c] = Resting
  /\ d \in selectedDir
  /\ chosen \subseteq scannedFiles /\ chosen # {}
  /\ \A p \in chosen : Target(p, d, style) \in Path
  /\ cmd' = [cmd EXCEPT ![c] = [Resting EXCEPT !.at = "next", !.kind = "execute",
               !.todo = {[old |-> p, new |-> Target(p, d, style)] : p \in chosen}]]
  /\ snapshot' = disk
  /\ alone' = (Busy = {}) /\ sound' = TRUE
  /\ calls < MaxCalls /\ calls' = calls + 1
  /\ UNCHANGED <<disk, undoStack, page, faults>>

(* handleUndo *)
Undo(c) ==
  /\ cmd[c] = Resting
  /\ canUndo
  /\ cmd' = [cmd EXCEPT ![c] = [Resting EXCEPT !.at = "take", !.kind = "undo",
               !.rescan = IF scanning = {} THEN selectedDir ELSE {}]]
  /\ alone' = (alone /\ Busy = {})
  /\ calls < MaxCalls /\ calls' = calls + 1
  /\ UNCHANGED <<disk, undoStack, page, snapshot, sound, faults>>

(* The user puts a file into a folder. *)
SaveFile(f, p) ==
  /\ ~OnDisk(f) /\ ~Exists(p) /\ p.in = "top" /\ p.copy = 0
  /\ disk' = [disk EXCEPT ![p] = f]
  /\ alone' = FALSE
  /\ UNCHANGED <<undoStack, cmd, page, snapshot, sound, calls, faults>>

-----------------------------------------------------------------------------
(* organizer_execute and organizer_undo. *)

(* Mutant: a taken name is used all the same. *)
TakenName(p) == {p}

(* get_unique_path: the path itself or its first free copy (a copy of a copy
   is numbered on). *)
FreeName(p) ==
  LET free == {n \in (p.copy + 1)..MaxCopy : ~Exists([p EXCEPT !.copy = n])}
  IN  IF ~Exists(p) THEN {p}
      ELSE {[p EXCEPT !.copy = n] : n \in {m \in free : \A k \in free : m <= k}}

(* One operation of execute: the source must exist and the folder be
   creatable, then a free name is looked up. *)
PickTarget(c, op) ==
  /\ cmd[c].at = "next" /\ cmd[c].kind = "execute"
  /\ op \in cmd[c].todo
  /\ \/ /\ Exists(op.old)
        /\ \E to \in FreeName(op.new) :
             cmd' = [cmd EXCEPT ![c].at = "move", ![c].todo = @ \ {op},
                                ![c].from = op.old, ![c].to = to]
        /\ sound' = sound /\ NoFault
     \/ /\ (~Exists(op.old) /\ NoFault) \/ Fault
        /\ cmd' = [cmd EXCEPT ![c].todo = @ \ {op}, ![c].ok = FALSE]
        /\ sound' = FALSE
  /\ UNCHANGED <<disk, undoStack, page, snapshot, alone, calls>>

(* Mutant: undo goes through the moves in the order they were made. *)
NextToRevertFirst(moves) == 1

NextToRevert(moves) == Len(moves)

(* One operation of undo: back to the original path, whatever is there. *)
PickOriginal(c) ==
  /\ cmd[c].at = "next" /\ cmd[c].kind = "undo"
  /\ cmd[c].done # <<>>
  /\ LET next == NextToRevert(cmd[c].done)
         move == cmd[c].done[next]
         left == RemoveAt(cmd[c].done, next)
     IN  IF Exists(move.new)
         THEN /\ cmd' = [cmd EXCEPT ![c].at = "move", ![c].done = left,
                                    ![c].from = move.new, ![c].to = move.old]
              /\ sound' = sound
         ELSE /\ cmd' = [cmd EXCEPT ![c].done = left, ![c].ok = FALSE]
              /\ sound' = FALSE
  /\ UNCHANGED <<disk, undoStack, page, snapshot, alone, calls, faults>>

Moved(c) ==
  [cmd EXCEPT ![c].at = "next",
     ![c].done = IF cmd[c].kind = "undo" THEN @
                 ELSE Append(@, [old |-> cmd[c].from, new |-> cmd[c].to])]

(* safe_move_file: the rename, which replaces what is at the target ... *)
Rename(c) ==
  /\ cmd[c].at = "move"
  /\ \/ /\ Exists(cmd[c].from)
        /\ disk' = [disk EXCEPT ![cmd[c].from] = NoFile, ![cmd[c].to] = disk[cmd[c].from]]
        /\ cmd' = Moved(c) /\ sound' = sound /\ NoFault
     \/ /\ (~Exists(cmd[c].from) /\ NoFault) \/ Fault
        /\ cmd' = [cmd EXCEPT ![c].at = "copy"]
        /\ sound' = FALSE /\ disk' = disk
  /\ UNCHANGED <<undoStack, page, snapshot, alone, calls>>

MoveFails(c) == cmd' = [cmd EXCEPT ![c].at = "next", ![c].ok = FALSE]

(* ... or a copy, which may stop half way, and a removal of the source. *)
Copy(c) ==
  /\ cmd[c].at = "copy"
  /\ \/ /\ Exists(cmd[c].from) /\ NoFault
        /\ disk' = [disk EXCEPT ![cmd[c].to] = disk[cmd[c].from]]
        /\ cmd' = [cmd EXCEPT ![c].at = "remove"]
     \/ /\ ~Exists(cmd[c].from) /\ NoFault
        /\ disk' = disk /\ MoveFails(c)
     \/ /\ Exists(cmd[c].from) /\ Fault
        /\ disk' = [disk EXCEPT ![cmd[c].to] = Torn]
        /\ MoveFails(c)
  /\ UNCHANGED <<undoStack, page, snapshot, alone, sound, calls>>

RemoveSource(c) ==
  /\ cmd[c].at = "remove"
  /\ \/ /\ Exists(cmd[c].from) /\ NoFault
        /\ disk' = [disk EXCEPT ![cmd[c].from] = NoFile]
        /\ cmd' = Moved(c)
     \/ /\ (~Exists(cmd[c].from) /\ NoFault) \/ Fault
        /\ disk' = disk /\ MoveFails(c)
  /\ UNCHANGED <<undoStack, page, snapshot, alone, sound, calls>>

(* The end of execute: the moves it made replace the undo list, if there are any. *)
Record(c) ==
  /\ cmd[c].at = "next" /\ cmd[c].kind = "execute" /\ cmd[c].todo = {}
  /\ undoStack' = IF cmd[c].done = <<>> THEN undoStack ELSE cmd[c].done
  /\ alone' = (alone /\ cmd[c].done # <<>>)
  /\ cmd' = [cmd EXCEPT ![c].at = "answered", ![c].done = <<>>]
  /\ UNCHANGED <<disk, page, snapshot, sound, calls, faults>>

(* The start of undo: it takes the list away before it moves anything. *)
Take(c) ==
  /\ cmd[c].at = "take"
  /\ undoStack' = <<>>
  /\ cmd' = IF undoStack = <<>>
            THEN [cmd EXCEPT ![c].at = "answered", ![c].ok = FALSE]
            ELSE [cmd EXCEPT ![c].at = "next", ![c].done = undoStack]
  /\ UNCHANGED <<disk, page, history>>

UndoEnds(c) ==
  /\ cmd[c].at = "next" /\ cmd[c].kind = "undo" /\ cmd[c].done = <<>>
  /\ cmd' = [cmd EXCEPT ![c].at = "answered"]
  /\ UNCHANGED <<disk, undoStack, page, history>>

-----------------------------------------------------------------------------
(* The answers reach the page. *)

(* Mutant: checkUndo only after a success. *)
ExecuteAnsweredUnchecked(c) ==
  /\ cmd[c].at = "answered" /\ cmd[c].kind = "execute"
  /\ scannedFiles' = IF cmd[c].ok THEN {} ELSE scannedFiles
  /\ cmd' = [cmd EXCEPT ![c] = IF cmd[c].ok THEN [@ EXCEPT !.at = "check"] ELSE Resting]
  /\ UNCHANGED <<disk, undoStack, selectedDir, scanning, canUndo, history>>

ExecuteAnswered(c) ==
  /\ cmd[c].at = "answered" /\ cmd[c].kind = "execute"
  /\ scannedFiles' = IF cmd[c].ok THEN {} ELSE scannedFiles
  /\ cmd' = [cmd EXCEPT ![c].at = "check"]
  /\ UNCHANGED <<disk, undoStack, selectedDir, scanning, canUndo, history>>

(* checkUndo, which asks organizer_can_undo *)
CheckUndo(c) ==
  /\ cmd[c].at = "check"
  /\ canUndo' = (undoStack # <<>>)
  /\ cmd' = [cmd EXCEPT ![c] = Resting]
  /\ UNCHANGED <<disk, undoStack, selectedDir, scannedFiles, scanning, history>>

UndoAnswered(c) ==
  /\ cmd[c].at = "answered" /\ cmd[c].kind = "undo"
  /\ canUndo' = (canUndo /\ ~cmd[c].ok)
  /\ scanning' = IF cmd[c].ok /\ cmd[c].rescan # {} THEN cmd[c].rescan ELSE scanning
  /\ cmd' = [cmd EXCEPT ![c] = Resting]
  /\ UNCHANGED <<disk, undoStack, selectedDir, scannedFiles, history>>

(* The process dies; the undo list was in memory only. *)
Crash ==
  /\ Fault
  /\ undoStack' = <<>>
  /\ cmd' = [c \in Commands |-> Resting]
  /\ selectedDir' = {} /\ scannedFiles' = {} /\ scanning' = {} /\ canUndo' = FALSE
  /\ sound' = FALSE
  /\ UNCHANGED <<disk, snapshot, alone, calls>>

-----------------------------------------------------------------------------
OrganizerInit ==
  /\ disk \in [Path -> Files \cup {NoFile}]
  /\ \A p \in Path : Exists(p) => p.in = "top" /\ p.copy = 0
  /\ \A p, q \in Path : Exists(p) /\ disk[p] = disk[q] => p = q
  /\ undoStack = <<>>
  /\ cmd = [c \in Commands |-> Resting]
  /\ selectedDir = {} /\ scannedFiles = {} /\ scanning = {} /\ canUndo = FALSE
  /\ snapshot = disk /\ alone = TRUE /\ sound = TRUE /\ calls = 0 /\ faults = 0

Step(c) ==
  \/ Undo(c) \/ PickOriginal(c) \/ Rename(c) \/ Copy(c) \/ RemoveSource(c) \/ Record(c)
  \/ Take(c) \/ UndoEnds(c) \/ ExecuteAnswered(c) \/ CheckUndo(c) \/ UndoAnswered(c)
  \/ \E op \in cmd[c].todo : PickTarget(c, op)
  \/ \E d \in Dirs, chosen \in SUBSET scannedFiles, style \in {"category", "prefix", "plain"} :
       Execute(c, chosen, d, style)

OrganizerNext ==
  \/ \E c \in Commands : Step(c)
  \/ \E d \in Dirs : SelectDir(d)
  \/ \E f \in Files, p \in Path : SaveFile(f, p)
  \/ Scan \/ ScanDone \/ Crash

OrganizerSpec == OrganizerInit /\ [][OrganizerNext]_organizerVars

-----------------------------------------------------------------------------
(* A file's content disappears only when a second command or the user took
   the name in between, or in an undo after something failed in it or in the
   batch it takes back: an execute alone never loses a file, whatever fails
   and wherever it dies. *)
FilesVanishOnlyByInterference ==
  [][\A f \in Files : OnDisk(f) /\ ~OnDisk(f)' =>
       \/ ~alone
       \/ ~sound /\ \E c \in Commands : cmd[c].kind = "undo" /\ cmd[c].at \in {"move", "copy"}
    ]_organizerVars

(* An undo that reports success, with nothing in between, has put every file
   of the batch back where it was: also files that took each other's names. *)
UndoRestores ==
  \A c \in Commands :
    cmd[c].kind = "undo" /\ cmd[c].at = "answered" /\ cmd[c].ok /\ alone /\ sound
      => disk = snapshot

(* Once the calls are answered, the page offers to undo what can be undone,
   also when the batch failed in part. *)
UndoIsOffered == Busy = {} /\ alone /\ undoStack # <<>> => canUndo

=============================================================================
