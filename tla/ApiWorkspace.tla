---------------------------- MODULE ApiWorkspace ----------------------------
(***************************************************************************)
(* The environments and the saved requests of                              *)
(* renderer/src/pages/ApiStudio.tsx: two lists under two keys, kept by the *)
(* same code, of which the model has one.  The page starts from the copy   *)
(* in localStorage and replaces it by the encrypted copy of                *)
(* safe_storage.rs as soon as that arrives; an effect stores each list it  *)
(* renders in both.  pages/Account.tsx downloads and restores              *)
(* localStorage.                                                           *)
(*                                                                         *)
(* The commands of safe_storage.rs are synchronous: they run one after     *)
(* the other in the order of the calls.  What a failing write does to the  *)
(* other secrets is in DesktopLicense.                                     *)
(***************************************************************************)
EXTENDS Naturals, SequencesExt

CONSTANTS
  MaxVersion,         \* bound on the user's changes
  MaxQueued,          \* bound on the calls waiting
  MaxStoreFailures,   \* bound on the calls that fail
  Emptied,            \* the list without elements
  Absent              \* nothing under the key

ASSUME StudioAssumption == Emptied \notin Nat /\ Absent \notin Nat /\ Absent # Emptied

Preset == 0           \* DEFAULT_ENVIRONMENTS, or the sample request

VARIABLES
  studioOpen, list,   \* the page
  local, secure,      \* the two copies
  calls,              \* store and retrieve on their way to the backend
  retrieved,            \* what retrieve gave, on its way to the page that asked
  download,           \* the key in the last backup downloaded
  version,            \* history: the changes made
  wanted,             \* history: the user's last change, or what was restored
  stale,              \* history: the encrypted copy missed a change
  touched,            \* history: changed while the encrypted copy was awaited
  undone,             \* history: a change was replaced for one of these reasons
  storeFailures

copies == <<local, secure>>
counts == <<version, storeFailures>>
studioVars == <<studioOpen, list, copies, calls, retrieved, download, wanted, stale, touched,
                undone, counts>>

Retrieve == [op |-> "retrieve", value |-> Absent]
StoreCall(v) == [op |-> "store", value |-> v]
IsStore(c) == c.op = "store"

(* The encrypted copy is still awaited by the page. *)
Awaited == retrieved # {} \/ Retrieve \in ToSet(calls)

(* The effect of a render with another list. *)
Render(v) == list' = v /\ local' = v

(* Mutant: the render is stored in localStorage only. *)
RenderAndStoreLocally(v) == Render(v) /\ calls' = calls

RenderAndStore(v) ==
  /\ Render(v)
  /\ Len(calls) < MaxQueued /\ calls' = Append(calls, StoreCall(v))

-----------------------------------------------------------------------------
(* The page is opened: its effects ask for the encrypted copy, and then store
   what it starts from. *)
OpenStudio ==
  LET v == IF local = Absent THEN Preset ELSE local IN
  /\ ~studioOpen /\ studioOpen' = TRUE
  /\ Render(v)
  /\ Len(calls) + 1 < MaxQueued /\ calls' = calls \o <<Retrieve, StoreCall(v)>>
  /\ touched' = FALSE
  /\ UNCHANGED <<secure, retrieved, download, wanted, stale, undone, counts>>

(* A change of an environment or of the saved requests; the last may go. *)
Change(v) ==
  /\ studioOpen /\ version < MaxVersion
  /\ v \in {version + 1, Emptied} /\ v # list
  /\ RenderAndStore(v)
  /\ version' = version + 1 /\ wanted' = v
  /\ touched' = (touched \/ Awaited)
  /\ UNCHANGED <<studioOpen, secure, retrieved, download, stale, undone, storeFailures>>

(* The encrypted copy arrives at the page that asked for it. *)
Arrive(a) ==
  /\ a \in retrieved /\ retrieved' = {}
  /\ IF a.value \notin {Absent, Emptied}
     THEN RenderAndStore(a.value)
     ELSE UNCHANGED <<list, local, calls>>
  /\ undone' = (undone \/ (list' # wanted /\ (touched \/ a.stale)))
  /\ UNCHANGED <<studioOpen, secure, download, wanted, stale, touched, counts>>

ForgetStudio ==
  /\ studioOpen' = FALSE /\ list' = Absent /\ touched' = FALSE /\ retrieved' = {}
  /\ undone' = (undone \/ (studioOpen /\ Awaited /\ list # wanted))

(* Left before the encrypted copy came, the page has stored what it started
   from in its place; what it asked for, once, is ignored (isMounted). *)
LeaveStudio ==
  /\ studioOpen /\ ForgetStudio
  /\ calls' = RemoveFirst(calls, Retrieve)
  /\ UNCHANGED <<copies, download, wanted, stale, counts>>

(* The program ends, with the calls on their way. *)
QuitStudio ==
  /\ studioOpen \/ calls # <<>>
  /\ ForgetStudio /\ calls' = <<>>
  /\ stale' = (stale \/ \E c \in ToSet(calls) : IsStore(c))
  /\ UNCHANGED <<copies, download, wanted, counts>>

-----------------------------------------------------------------------------
(* safe_storage_store and safe_storage_retrieve; the page drops their errors. *)
Call(c) == calls # <<>> /\ c = Head(calls) /\ calls' = Tail(calls)

StoreRuns(c) ==
  /\ Call(c) /\ IsStore(c)
  /\ secure' = c.value
  /\ stale' = (stale /\ \E d \in ToSet(calls) : IsStore(d) /\ d.value # wanted)
  /\ UNCHANGED <<studioOpen, list, local, retrieved, download, wanted, touched, undone, counts>>

RetrieveRuns(c) ==
  /\ Call(c) /\ c = Retrieve
  /\ retrieved' = {[value |-> secure, stale |-> stale]}
  /\ UNCHANGED <<studioOpen, list, copies, download, wanted, stale, touched, undone, counts>>

CallFails(c) ==
  /\ Call(c)
  /\ storeFailures < MaxStoreFailures /\ storeFailures' = storeFailures + 1
  /\ stale' = (stale \/ IsStore(c))
  /\ undone' = (undone \/ (c = Retrieve /\ list # wanted))
  /\ UNCHANGED <<studioOpen, list, copies, retrieved, download, wanted, touched, version>>

-----------------------------------------------------------------------------
(* pages/Account.tsx, with the studio closed: all of localStorage goes into a
   file, and is written back from it before the window reloads. *)
DownloadBackup ==
  /\ ~studioOpen /\ local # Absent /\ download # local
  /\ download' = local
  /\ UNCHANGED <<studioOpen, list, copies, calls, retrieved, wanted, stale, touched,
                 undone, counts>>

RestoreBackup ==
  /\ ~studioOpen /\ download # Absent /\ local # download
  /\ local' = download /\ wanted' = download
  /\ stale' = TRUE
  /\ UNCHANGED <<studioOpen, list, secure, calls, retrieved, download, touched, undone, counts>>

(* The data of the web view are removed, or the program was installed anew. *)
LocalCopyLost ==
  /\ ~studioOpen /\ calls = <<>> /\ local # Absent
  /\ local' = Absent
  /\ UNCHANGED <<studioOpen, list, secure, calls, retrieved, download, wanted, stale, touched,
                 undone, counts>>

StudioInit ==
  /\ studioOpen = FALSE /\ list = Absent /\ local = Absent /\ secure = Absent
  /\ calls = <<>> /\ retrieved = {} /\ download = Absent
  /\ wanted = Preset /\ stale = FALSE /\ touched = FALSE /\ undone = FALSE
  /\ version = 0 /\ storeFailures = 0

StudioNext ==
  \/ OpenStudio \/ LeaveStudio \/ QuitStudio
  \/ \E a \in retrieved : Arrive(a)
  \/ \E v \in {version + 1, Emptied} : Change(v)
  \/ \E c \in ToSet(calls) : StoreRuns(c) \/ RetrieveRuns(c) \/ CallFails(c)
  \/ DownloadBackup \/ RestoreBackup \/ LocalCopyLost

StudioSpec == StudioInit /\ [][StudioNext]_studioVars

-----------------------------------------------------------------------------
(* The page that has its encrypted copy shows the user's last change, through
   any visits, also when localStorage was lost between them (an emptied list
   then comes back as the preset).  A change is undone only if the encrypted
   copy missed it (a store that failed or was cut off, a restored backup), if
   it was made before that copy had arrived, or if the copy itself was
   replaced by the preset: asked for in vain, or the page left too early. *)
EditsSurvive ==
  studioOpen /\ ~Awaited /\ ~undone =>
    list = wanted \/ (wanted = Emptied /\ list = Preset)
=============================================================================
