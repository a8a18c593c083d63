------------------------- MODULE DesktopFilesProofs -------------------------
(***************************************************************************)
(* The commands that work on the user's files, for any number of them.     *)
(*                                                                         *)
(* Encryption, decryption and shredding (FileVault): as long as the page   *)
(* has not been left during an operation, at most one command codes at a   *)
(* time, so the name it found free stays free (a shred beside it frees     *)
(* names and fills none), and what it wrote is changed by a shred of that  *)
(* name only.                                                              *)
(*                                                                         *)
(* The organizer with its undo (Organizer): as long as one command runs    *)
(* alone, the target it picked is free and the moves on record lead from   *)
(* the disk before the batch to the disk of now; reverting the last of     *)
(* them leaves the others leading there.                                   *)
(***************************************************************************)
EXTENDS FileVault, Organizer, TLAPS

Place == {"idle", "begin", "pick", "write", "rename", "overwrite", "passes", "unlink", "answered"}

TaskType ==
  [at : Place, kind : {"none", "shred", "encrypt", "decrypt"},
   path : Name \cup {NoName}, key : VaultKeys \cup {NoName},
   content : Content \cup {NoContent}, out : Name \cup {NoName},
   own : BOOLEAN, heard : BOOLEAN, ok : BOOLEAN]

Whole == {c \in Content : c.data # Half}
FilesType == files \in [Name -> Whole \cup {NoContent}]
PageType ==
  /\ shredFile \in Name \cup {NoName} /\ vaultFile \in Name \cup {NoName}
  /\ isVaultProcessing \in BOOLEAN /\ disturbed \in BOOLEAN
TypeInv == FilesType /\ PageType /\ task \in [Tasks -> TaskType]

Coding(k) == k.kind \in {"encrypt", "decrypt"}
Wrote(k) == Coding(k) /\ k.at = "answered" /\ k.ok

(* What a command knows at each of its steps. *)
Sound(k) ==
  /\ k.at # "idle" => k.path \in Name /\ k.kind # "none"
  /\ k.at \in {"pick", "write", "rename"} => Coding(k) /\ k.content \in Whole
  /\ k.at \in {"write", "rename"} \/ Wrote(k) => k.out \in Name
  /\ k.at \in {"overwrite", "passes", "unlink"} => k.kind = "shred" /\ k.path \in shredded

(* The name a command is about to give is free; the one it gave, unless it
   was shredded since, holds what the command wrote. *)
Settled(k) ==
  /\ k.at \in {"write", "rename"} => files[k.out] = NoContent
  /\ Wrote(k) /\ k.out \notin shredded => files[k.out] = k.content

Alone ==
  /\ \A t, u \in Tasks : Coding(task[t]) /\ Coding(task[u]) => t = u
  /\ \A t \in Tasks : Coding(task[t]) => isVaultProcessing

VaultInv ==
  /\ TypeInv
  /\ \A t \in Tasks : Sound(task[t])
  /\ ~disturbed => Alone /\ \A t \in Tasks : Settled(task[t])

(* What a step may do to the files for the name found to stay free and the
   result to stay: change those that are there and whose shred has begun. *)
OnlyShredded ==
  \A n \in Name : files'[n] # files[n] => files[n] # NoContent /\ n \in shredded'

-----------------------------------------------------------------------------
(* An empty list of passphrases, and one passphrase, are within the bound. *)
LEMMA Layers ==
  /\ <<>> \in BoundedSeq(VaultKeys, MaxLayers)
  /\ BoundedSeq(VaultKeys, 1) \subseteq BoundedSeq(VaultKeys, MaxLayers)
<1>1. 0 \in 0..MaxLayers /\ 0..1 \subseteq 0..MaxLayers
  BY BoundAssumption DEF BoundAssumption
<1>2. \A n : BoundedSeq(VaultKeys, n) = UNION {[1..m -> VaultKeys] : m \in 0..n}
  BY DEF BoundedSeq, SeqOf
<1>3. <<>> \in [1..0 -> VaultKeys]
  OBVIOUS
<1>4. <<>> \in BoundedSeq(VaultKeys, MaxLayers)
  BY <1>1, <1>2, <1>3, Zenon
<1>5. ASSUME NEW m \in 0..1 PROVE [1..m -> VaultKeys] \subseteq BoundedSeq(VaultKeys, MaxLayers)
  BY <1>1, <1>2
<1>6. BoundedSeq(VaultKeys, 1) \subseteq BoundedSeq(VaultKeys, MaxLayers)
  <2> SUFFICES ASSUME NEW s \in UNION {[1..m -> VaultKeys] : m \in 0..1}
               PROVE  s \in BoundedSeq(VaultKeys, MaxLayers)
    BY <1>2
  <2>1. PICK m \in 0..1 : s \in [1..m -> VaultKeys]
    OBVIOUS
  <2> QED BY <2>1, <1>5
<1> QED BY <1>4, <1>6

(* What the user types and what a shred writes is whole. *)
LEMMA WholeContents ==
  /\ [data : Documents, keys : BoundedSeq(VaultKeys, 1)] \subseteq Whole
  /\ \A d \in Documents \cup {Noise, Blank} : [data |-> d, keys |-> <<>>] \in Whole
BY Layers, DataAssumption DEF DataAssumption, Whole, Content

(* A command that is not running satisfies all that is asked of one. *)
LEMMA IdleFacts ==
  /\ Idle \in TaskType /\ ~Coding(Idle) /\ Idle.at = "idle"
BY DEF Idle, TaskType, Place, Coding

LEMMA IdleSound == Sound(Idle) /\ Settled(Idle) /\ Sound(Idle)' /\ Settled(Idle)'
BY IdleFacts DEF Idle, Sound, Settled, Wrote, Coding

LEMMA VaultStart == VaultInit => VaultInv
<1> SUFFICES ASSUME VaultInit PROVE VaultInv
  OBVIOUS
<1>1. FilesType
  BY WholeContents DEF VaultInit, FilesType
<1>2. \A t \in Tasks : task[t] = Idle
  BY DEF VaultInit
<1>3. task \in [Tasks -> TaskType]
  BY IdleFacts DEF VaultInit
<1>4. PageType
  BY DEF VaultInit, PageType
<1> QED
  BY <1>1, <1>2, <1>3, <1>4, IdleFacts, IdleSound DEF VaultInv, TypeInv, Alone

-----------------------------------------------------------------------------
(* The step of one command keeps the invariant if the command is sound and
   settled after it, only files under shred change, and coding is not begun
   beside another one. *)
LEMMA OneMoves ==
  ASSUME VaultInv, NEW t \in Tasks, NEW r \in TaskType,
         task' = [task EXCEPT ![t] = r], Sound(r)', ~disturbed => Settled(r)',
         FilesType', OnlyShredded, shredded \subseteq shredded',
         PageType', disturbed' = disturbed,
         ~disturbed => /\ Coding(r) => isVaultProcessing'
                       /\ \A u \in Tasks \ {t} :
                            Coding(task[u]) => isVaultProcessing' /\ ~Coding(r)
  PROVE  VaultInv'
<1>1. task' \in [Tasks -> TaskType] /\ task'[t] = r
      /\ \A u \in Tasks \ {t} : task'[u] = task[u]
  BY DEF VaultInv, TypeInv
<1>2. TypeInv'
  BY <1>1 DEF TypeInv
<1>3. \A u \in Tasks : Sound(task[u])'
  <2> SUFFICES ASSUME NEW u \in Tasks, u # t PROVE Sound(task[u])'
    BY <1>1 DEF Sound, Coding, Wrote
  <2> QED BY <1>1 DEF Sound, VaultInv, Coding, Wrote
<1>4. ASSUME ~disturbed' PROVE Alone'
  BY <1>1, <1>4 DEF Alone, VaultInv, Coding
<1>5. ASSUME ~disturbed', NEW u \in Tasks PROVE Settled(task[u])'
  <2>1. CASE u = t
    BY <1>1, <1>5, <2>1 DEF Settled, Wrote, Coding
  <2>2. CASE u # t
    <3>1. task'[u] = task[u] /\ Sound(task[u]) /\ Settled(task[u])
      BY <1>1, <1>5, <2>2 DEF VaultInv
    <3> DEFINE k == task[u]
    <3>2. k.at \in {"write", "rename"} => files'[k.out] = NoContent
      BY <3>1 DEF Sound, Settled, OnlyShredded
    <3>3. Wrote(k) /\ k.out \notin shredded' => files'[k.out] = k.content
      BY <3>1 DEF Sound, Settled, OnlyShredded
    <3> QED BY <3>1, <3>2, <3>3 DEF Settled, Wrote, Coding
  <2> QED BY <2>1, <2>2
<1> QED BY <1>2, <1>3, <1>4, <1>5 DEF VaultInv

(* A command goes on: its page, and whether it codes, stay as they are. *)
LEMMA CarriesOn ==
  ASSUME VaultInv, NEW t \in Tasks, NEW r \in TaskType,
         task' = [task EXCEPT ![t] = r], Sound(r)', ~disturbed => Settled(r)',
         FilesType', OnlyShredded, shredded \subseteq shredded',
         UNCHANGED <<fortressPage, disturbed>>, Coding(r) => Coding(task[t])
  PROVE  VaultInv'
<1>1. PageType' /\ disturbed' = disturbed /\ isVaultProcessing' = isVaultProcessing
  BY DEF VaultInv, TypeInv, PageType, fortressPage, shredPage, vaultPage
<1>2. ~disturbed => /\ Coding(r) => isVaultProcessing'
                    /\ \A u \in Tasks \ {t} :
                         Coding(task[u]) => isVaultProcessing' /\ ~Coding(r)
  BY <1>1 DEF VaultInv, Alone
<1> QED BY <1>1, <1>2, OneMoves

At(k, a) == [k EXCEPT !.at = a]
Failed(k) == [k EXCEPT !.at = "answered", !.ok = FALSE]

(* GoesTo and Fails replace the whole record of the command, and nothing in
   it but what they name. *)
LEMMA Replaced ==
  ASSUME TypeInv, NEW t \in Tasks
  PROVE  /\ \A a \in Place :
              /\ At(task[t], a) \in TaskType
              /\ GoesTo(t, a) => task' = [task EXCEPT ![t] = At(task[t], a)]
              /\ At(task[t], a).at = a /\ At(task[t], a).ok = task[t].ok
              /\ At(task[t], a).kind = task[t].kind /\ At(task[t], a).path = task[t].path
              /\ At(task[t], a).out = task[t].out /\ At(task[t], a).content = task[t].content
         /\ Failed(task[t]) \in TaskType
         /\ Fails(t) => task' = [task EXCEPT ![t] = Failed(task[t])]
         /\ Failed(task[t]).at = "answered" /\ Failed(task[t]).ok = FALSE
         /\ Failed(task[t]).kind = task[t].kind /\ Failed(task[t]).path = task[t].path
         /\ Failed(task[t]).out = task[t].out /\ Failed(task[t]).content = task[t].content
<1>1. task[t] \in TaskType
  BY DEF TypeInv
<1>2. ASSUME NEW a \in Place
      PROVE  /\ At(task[t], a) \in TaskType
             /\ GoesTo(t, a) => task' = [task EXCEPT ![t] = At(task[t], a)]
             /\ At(task[t], a).at = a /\ At(task[t], a).ok = task[t].ok
             /\ At(task[t], a).kind = task[t].kind /\ At(task[t], a).path = task[t].path
             /\ At(task[t], a).out = task[t].out /\ At(task[t], a).content = task[t].content
  BY <1>1 DEF At, TaskType, GoesTo, TypeInv
<1>3. /\ Failed(task[t]) \in TaskType
      /\ Failed(task[t]).at = "answered" /\ Failed(task[t]).ok = FALSE
      /\ Failed(task[t]).kind = task[t].kind /\ Failed(task[t]).path = task[t].path
      /\ Failed(task[t]).out = task[t].out /\ Failed(task[t]).content = task[t].content
  BY <1>1 DEF Failed, TaskType, Place
<1>4. Fails(t) => task' = [task EXCEPT ![t] = Failed(task[t])]
  BY <1>1 DEF Failed, Fails, TypeInv, TaskType
<1> QED BY <1>2, <1>3, <1>4

(* A command that fails reports nothing written. *)
LEMMA FailingKeeps ==
  ASSUME VaultInv, NEW t \in Tasks, task[t].at # "idle", Fails(t),
         FilesType', OnlyShredded, shredded \subseteq shredded',
         UNCHANGED <<fortressPage, disturbed>>
  PROVE  VaultInv'
<1>0. TypeInv /\ Sound(task[t])
  BY DEF VaultInv
<1>1. PICK r \in TaskType :
        /\ task' = [task EXCEPT ![t] = r] /\ r.at = "answered" /\ r.ok = FALSE
        /\ r.kind = task[t].kind /\ r.path = task[t].path
  BY <1>0, Replaced
<1>2. Sound(r)' /\ Settled(r)'
  BY <1>0, <1>1 DEF Sound, Settled, Wrote
<1>3. Coding(r) => Coding(task[t])
  BY <1>1 DEF Coding
<1> QED BY <1>1, <1>2, <1>3, CarriesOn

LEMMA ReadKeeps ==
  ASSUME VaultInv, NEW t \in Tasks, Read(t)
  PROVE  VaultInv'
<1> DEFINE n == task[t].path
           read == [task[t] EXCEPT !.at = "pick", !.content = files[n]]
<1>1. TypeInv /\ Sound(task[t]) /\ task[t].at = "begin" /\ task[t].kind # "shred"
      /\ UNCHANGED <<files, shredded, fortressPage, disturbed>>
      /\ FilesType' /\ OnlyShredded /\ shredded \subseteq shredded'
  BY DEF Read, VaultInv, TypeInv, FilesType, OnlyShredded, diskState
<1>2. CASE Fails(t)
  BY <1>1, <1>2, FailingKeeps
<1>3. CASE Stored(n) /\ task' = [task EXCEPT ![t].at = "pick", ![t].content = files[n]]
  <2>1. task[t] \in TaskType /\ n \in Name /\ files[n] \in Whole /\ Coding(task[t])
    BY <1>1, <1>3 DEF TypeInv, FilesType, Sound, Stored, TaskType, Coding
  <2>2. read \in TaskType /\ read.at = "pick" /\ read.content = files[n]
        /\ read.kind = task[t].kind /\ read.path = n
    BY <2>1 DEF TaskType, Place, Whole
  <2>3. task' = [task EXCEPT ![t] = read]
    BY <1>1, <1>3, <2>1 DEF TypeInv, TaskType
  <2>r. PICK r \in TaskType : r = read
    BY <2>2
  <2>4. Sound(r)' /\ Settled(r)' /\ Coding(r)
    BY <1>1, <2>1, <2>2, <2>r DEF Sound, Settled, Wrote, Coding
  <2> QED BY <1>1, <2>1, <2>r, <2>3, <2>4, CarriesOn
<1> QED BY <1>2, <1>3 DEF Read

(* The name that is found is a name, and is free. *)
LEMMA FreshIsFree ==
  ASSUME NEW c \in Name, NEW n \in FreshName(c)
  PROVE  n \in Name /\ ~Stored(n)
<1>1. CASE ~Stored(c)
  BY <1>1 DEF FreshName
<1>2. CASE Stored(c)
  <2>1. PICK k \in (c.copy + 1)..MaxNameCopy : ~Stored([c EXCEPT !.copy = k])
                                               /\ n = [c EXCEPT !.copy = k]
    BY <1>2 DEF FreshName
  <2>2. k \in 0..MaxNameCopy
    BY <2>1, BoundAssumption DEF BoundAssumption, Name
  <2> QED BY <2>1, <2>2 DEF Name
<1> QED BY <1>1, <1>2

LEMMA PickKeeps ==
  ASSUME VaultInv, NEW t \in Tasks, Pick(t)
  PROVE  VaultInv'
<1> DEFINE k == task[t]
           result == Result(k.content, k.kind, k.key)
           candidate == Candidate(k.path, k.kind)
<1>1. TypeInv /\ Sound(k) /\ k.at = "pick" /\ k \in TaskType
      /\ UNCHANGED <<files, shredded, fortressPage, disturbed>>
      /\ FilesType' /\ OnlyShredded /\ shredded \subseteq shredded'
  BY DEF Pick, VaultInv, TypeInv, FilesType, OnlyShredded, diskState, counters
<1>2. CASE Fails(t)
  BY <1>1, <1>2, FailingKeeps
<1>3. CASE /\ result \in Content /\ candidate \in Name
           /\ \E n \in FreshName(candidate) :
                task' = [task EXCEPT ![t].at = "write", ![t].out = n,
                                     ![t].content = Result(@, k.kind, k.key)]
  <2>1. PICK n \in FreshName(candidate) :
               task' = [task EXCEPT ![t].at = "write", ![t].out = n,
                                    ![t].content = Result(@, k.kind, k.key)]
    BY <1>3
  <2>2. n \in Name /\ ~Stored(n)
    BY <1>3, FreshIsFree
  <2> DEFINE picked == [k EXCEPT !.at = "write", !.out = n, !.content = result]
  <2>3. k.content \in Whole /\ k.path \in Name /\ Coding(k)
    BY <1>1 DEF Sound
  <2>4. result \in Whole
    BY <1>3, <2>3 DEF Result, Whole, Content
  <2>5. picked \in TaskType /\ picked.at = "write" /\ picked.out = n
        /\ picked.content = result /\ picked.kind = k.kind /\ picked.path = k.path
    BY <1>1, <1>3, <2>2 DEF TaskType, Place
  <2>6. task' = [task EXCEPT ![t] = picked]
    BY <1>1, <2>1 DEF TypeInv, TaskType
  <2>r. PICK r \in TaskType : r = picked
    BY <2>5
  <2>7. Sound(r)' /\ Settled(r)' /\ Coding(r)
    BY <1>1, <2>2, <2>3, <2>4, <2>5, <2>r DEF Sound, Settled, Wrote, Coding, Stored
  <2> QED BY <1>1, <2>3, <2>r, <2>6, <2>7, CarriesOn
<1> QED BY <1>2, <1>3 DEF Pick

LEMMA WriteStagingKeeps ==
  ASSUME VaultInv, NEW t \in Tasks, WriteStaging(t)
  PROVE  VaultInv'
<1>1. TypeInv /\ Sound(task[t]) /\ task[t].at = "write"
      /\ (~disturbed => Settled(task[t]))
      /\ UNCHANGED <<files, shredded, fortressPage, disturbed>>
      /\ FilesType' /\ OnlyShredded /\ shredded \subseteq shredded'
  BY DEF WriteStaging, VaultInv, TypeInv, FilesType, OnlyShredded, diskState
<1>2. CASE Fails(t)
  BY <1>1, <1>2, FailingKeeps
<1>3. CASE GoesTo(t, "rename")
  <2>1. PICK r \in TaskType :
          /\ task' = [task EXCEPT ![t] = r] /\ r.at = "rename"
          /\ r.kind = task[t].kind /\ r.path = task[t].path
          /\ r.out = task[t].out /\ r.content = task[t].content
    BY <1>1, <1>3, Replaced DEF Place
  <2>2. Sound(r)' /\ (~disturbed => Settled(r)') /\ (Coding(r) => Coding(task[t]))
    BY <1>1, <2>1 DEF Sound, Settled, Wrote, Coding
  <2> QED BY <1>1, <2>1, <2>2, CarriesOn
<1> QED BY <1>2, <1>3 DEF WriteStaging

(* Two records that differ in `own` and `heard` only. *)
Alike(r, k) ==
  /\ r.at = k.at /\ r.kind = k.kind /\ r.path = k.path
  /\ r.content = k.content /\ r.out = k.out /\ r.ok = k.ok

LEMMA RenameStagingKeeps ==
  ASSUME VaultInv, NEW t \in Tasks, RenameStaging(t)
  PROVE  VaultInv'
<1> DEFINE k == task[t]
<1>1. TypeInv /\ Sound(k) /\ k.at = "rename" /\ k \in TaskType
      /\ UNCHANGED <<shredded, fortressPage, disturbed>>
      /\ shredded \subseteq shredded' /\ Coding(k) /\ k.content \in Whole /\ k.out \in Name
  BY DEF RenameStaging, VaultInv, TypeInv, Sound
<1>2. CASE Fails(t) /\ UNCHANGED files
  <2>1. FilesType' /\ OnlyShredded
    BY <1>1, <1>2 DEF TypeInv, FilesType, OnlyShredded
  <2> QED BY <1>1, <1>2, <2>1, FailingKeeps
<1>3. CASE /\ files' = [files EXCEPT ![k.out] = k.content]
           /\ task' = [u \in Tasks |->
                IF u = t THEN [task[t] EXCEPT !.at = "answered"]
                ELSE [task[u] EXCEPT !.own = @ /\ ~(task[u].kind = "shred"
                                                    /\ task[u].at # "begin"
                                                    /\ task[u].path = task[t].out)]]
  <2>1. task'[t] = At(k, "answered")
    BY <1>3 DEF At
  <2>2. /\ task'[t] \in TaskType /\ task'[t].at = "answered" /\ task'[t].kind = k.kind
        /\ task'[t].path = k.path /\ task'[t].out = k.out /\ task'[t].content = k.content
    <3>1. k \in TaskType /\ "answered" \in Place
      BY <1>1 DEF Place
    <3> QED BY <2>1, <3>1 DEF At, TaskType
  <2>3. ASSUME NEW u \in Tasks, u # t
        PROVE  task'[u] \in TaskType /\ Alike(task'[u], task[u])
    <3>1. PICK b \in BOOLEAN : task'[u] = [task[u] EXCEPT !.own = b]
      BY <1>3, <2>3
    <3>2. task[u] \in TaskType
      BY <1>1 DEF TypeInv
    <3> QED BY <3>1, <3>2 DEF TaskType, Alike
  <2>4. FilesType' /\ PageType'
    BY <1>1, <1>3 DEF TypeInv, FilesType, PageType, fortressPage, shredPage, vaultPage
  <2>5. TypeInv'
    <3>1. task' = [u \in Tasks |-> task'[u]]
      BY <1>3
    <3>2. \A u \in Tasks : task'[u] \in TaskType
      BY <2>2, <2>3
    <3> QED BY <2>4, <3>1, <3>2 DEF TypeInv
  <2>6. ASSUME NEW u \in Tasks PROVE Sound(task[u])'
    <3>1. CASE u = t
      BY <1>1, <2>2, <3>1 DEF Sound, Coding, Wrote
    <3>2. CASE u # t
      <4>1. Alike(task'[u], task[u]) /\ Sound(task[u]) /\ shredded' = shredded
        BY <1>1, <2>3, <3>2 DEF VaultInv
      <4> QED BY <4>1 DEF Alike, Sound, Coding, Wrote
    <3> QED BY <3>1, <3>2
  <2>7. ASSUME ~disturbed' PROVE Alone' /\ \A u \in Tasks : Settled(task[u])'
    <3>1. Alone /\ isVaultProcessing' = isVaultProcessing /\ disturbed' = disturbed
      BY <1>1, <2>7 DEF VaultInv, fortressPage, vaultPage
    <3>2. \A u \in Tasks : Coding(task'[u]) <=> Coding(task[u])
      BY <2>2, <2>3 DEF Alike, Coding
    <3>3. Alone'
      BY <3>1, <3>2 DEF Alone
    <3>4. ASSUME NEW u \in Tasks, u # t PROVE Settled(task[u])'
      <4>1. ~Coding(task'[u])
        BY <1>1, <3>1, <3>2, <3>4 DEF Alone
      <4> QED BY <4>1, <2>6 DEF Settled, Sound, Wrote, Coding
    <3>5. files'[k.out] = k.content
      BY <1>1, <1>3 DEF TypeInv, FilesType
    <3>6. Settled(task[t])'
      BY <3>5, <2>2 DEF Settled
    <3> QED BY <3>3, <3>4, <3>6
  <2> QED BY <2>5, <2>6, <2>7 DEF VaultInv
<1> QED BY <1>1, <1>2, <1>3 DEF RenameStaging

-----------------------------------------------------------------------------
(* The shred. *)

(* A shred goes on to `a`; its name is on the list of the shredded by then. *)
LEMMA ShredGoesOn ==
  ASSUME VaultInv, NEW t \in Tasks, NEW a \in {"overwrite", "passes", "unlink", "answered"},
         GoesTo(t, a), task[t].kind = "shred", task[t].at # "idle",
         task[t].path \in shredded',
         FilesType', OnlyShredded, shredded \subseteq shredded',
         UNCHANGED <<fortressPage, disturbed>>
  PROVE  VaultInv'
<1>0. TypeInv /\ Sound(task[t]) /\ a \in Place
  BY DEF VaultInv, Place
<1>1. PICK r \in TaskType :
        /\ task' = [task EXCEPT ![t] = r] /\ r.at = a
        /\ r.kind = task[t].kind /\ r.path = task[t].path
  <2>1. /\ At(task[t], a) \in TaskType /\ task' = [task EXCEPT ![t] = At(task[t], a)]
        /\ At(task[t], a).at = a /\ At(task[t], a).kind = task[t].kind
        /\ At(task[t], a).path = task[t].path
    BY <1>0, Replaced
  <2> QED BY <2>1, Zenon
<1>2. Sound(r)' /\ Settled(r)' /\ ~Coding(r)
  BY <1>0, <1>1 DEF Sound, Settled, Wrote, Coding
<1> QED BY <1>1, <1>2, CarriesOn

LEMMA OpenKeeps ==
  ASSUME VaultInv, NEW t \in Tasks, Open(t)
  PROVE  VaultInv'
<1> DEFINE n == task[t].path
<1>1. TypeInv /\ Sound(task[t]) /\ task[t].at = "begin" /\ task[t].kind = "shred"
      /\ UNCHANGED <<fortressPage, disturbed>> /\ n \in Name
  BY DEF Open, VaultInv, Sound
<1>2. CASE Fails(t) /\ UNCHANGED diskState
  <2>1. FilesType' /\ OnlyShredded /\ shredded \subseteq shredded'
    BY <1>1, <1>2 DEF TypeInv, FilesType, OnlyShredded, diskState
  <2> QED BY <1>1, <1>2, <2>1, FailingKeeps
<1>3. CASE /\ \/ Stored(n) /\ files' = [files EXCEPT ![n] = NoContent]
              \/ UNCHANGED files
           /\ GoesTo(t, "answered") \/ GoesTo(t, "overwrite")
           /\ shredded' = shredded \cup {n}
  <2>1. FilesType' /\ OnlyShredded /\ shredded \subseteq shredded' /\ n \in shredded'
    BY <1>1, <1>3 DEF TypeInv, FilesType, OnlyShredded, Stored
  <2> QED BY <1>1, <1>3, <2>1, ShredGoesOn
<1> QED BY <1>2, <1>3 DEF Open

(* What a write of a shred changes: its own file, if that has a name. *)
LEMMA PutFacts ==
  ASSUME VaultInv, NEW t \in Tasks, task[t].at \in {"overwrite", "passes"},
         NEW d \in {Noise, Blank}, Put(t, d) \/ UNCHANGED files, UNCHANGED shredded
  PROVE  FilesType' /\ OnlyShredded /\ shredded \subseteq shredded'
<1>1. TypeInv /\ task[t].path \in Name /\ task[t].path \in shredded
  BY DEF VaultInv, Sound
<1>2. [data |-> d, keys |-> <<>>] \in Whole
  BY WholeContents
<1> QED BY <1>1, <1>2 DEF TypeInv, FilesType, OnlyShredded, Put, Stored

LEMMA OverwriteKeeps ==
  ASSUME VaultInv, NEW t \in Tasks, Overwrite(t)
  PROVE  VaultInv'
<1>1. task[t].at = "overwrite" /\ task[t].kind = "shred" /\ task[t].path \in shredded'
      /\ UNCHANGED <<shredded, fortressPage, disturbed>>
      /\ (Put(t, Noise) \/ UNCHANGED files)
  BY DEF Overwrite, VaultInv, Sound
<1>2. FilesType' /\ OnlyShredded /\ shredded \subseteq shredded'
  BY <1>1, PutFacts
<1>3. Fails(t) \/ GoesTo(t, "passes")
  BY DEF Overwrite
<1> QED BY <1>1, <1>2, <1>3, FailingKeeps, ShredGoesOn

LEMMA TruncateKeeps ==
  ASSUME VaultInv, NEW t \in Tasks, Truncate(t)
  PROVE  VaultInv'
<1>1. task[t].at = "passes" /\ task[t].kind = "shred" /\ task[t].path \in shredded'
      /\ UNCHANGED <<shredded, fortressPage, disturbed>>
      /\ (Put(t, Noise) \/ Put(t, Blank))
  BY DEF Truncate, VaultInv, Sound
<1>2. FilesType' /\ OnlyShredded /\ shredded \subseteq shredded'
  BY <1>1, PutFacts
<1>3. Fails(t) \/ GoesTo(t, "unlink")
  BY DEF Truncate
<1> QED BY <1>1, <1>2, <1>3, FailingKeeps, ShredGoesOn

LEMMA UnlinkKeeps ==
  ASSUME VaultInv, NEW t \in Tasks, Unlink(t)
  PROVE  VaultInv'
<1> DEFINE n == task[t].path
<1>1. TypeInv /\ task[t].at = "unlink" /\ task[t].kind = "shred" /\ n \in shredded
      /\ n \in Name /\ UNCHANGED <<shredded, fortressPage, disturbed>>
      /\ ((Stored(n) /\ files' = [files EXCEPT ![n] = NoContent]) \/ UNCHANGED files)
      /\ (Fails(t) \/ GoesTo(t, "answered"))
  BY DEF Unlink, VaultInv, Sound
<1>2. FilesType' /\ OnlyShredded /\ shredded \subseteq shredded'
  BY <1>1 DEF TypeInv, FilesType, OnlyShredded, Stored
<1> QED BY <1>1, <1>2, FailingKeeps, ShredGoesOn

-----------------------------------------------------------------------------
(* The page. *)

(* Steps that leave files, commands and disturbances alone, and keep the
   vault's part of the page. *)
LEMMA PageMoves ==
  ASSUME VaultInv, PageType', UNCHANGED <<files, shredded, task, disturbed, isVaultProcessing>>
  PROVE  VaultInv'
<1>1. TypeInv'
  BY DEF VaultInv, TypeInv, FilesType
<1>2. \A t \in Tasks : Sound(task[t])'
  BY DEF VaultInv, Sound, Wrote, Coding
<1>3. ASSUME ~disturbed' PROVE Alone' /\ \A t \in Tasks : Settled(task[t])'
  BY <1>3 DEF VaultInv, Alone, Coding, Settled, Wrote
<1> QED BY <1>1, <1>2, <1>3 DEF VaultInv

LEMMA SelectionKeeps ==
  ASSUME VaultInv,
         ToggleConfirm \/ \E n \in Name : SelectShredFile(n) \/ SelectVaultFile(n)
  PROVE  VaultInv'
<1>1. PageType
  BY DEF VaultInv, TypeInv
<1>2. CASE ToggleConfirm
  BY <1>1, <1>2, PageMoves
     DEF ToggleConfirm, PageType, diskState, vaultPage, counters
<1>3. ASSUME NEW n \in Name, SelectShredFile(n) PROVE VaultInv'
  BY <1>1, <1>3, PageMoves
     DEF SelectShredFile, PageType, diskState, vaultPage, counters
<1>4. ASSUME NEW n \in Name, SelectVaultFile(n) PROVE VaultInv'
  BY <1>1, <1>4, PageMoves
     DEF SelectVaultFile, PageType, diskState, shredPage, counters
<1> QED BY <1>2, <1>3, <1>4

(* The record of a command that starts. *)
LEMMA Started ==
  ASSUME VaultInv, NEW t \in Tasks, NEW kind \in {"shred", "encrypt", "decrypt"},
         NEW path \in Name, NEW key \in VaultKeys \cup {NoName}, Start(t, kind, path, key)
  PROVE  \E r \in TaskType :
           /\ task' = [task EXCEPT ![t] = r] /\ r.kind = kind
           /\ Sound(r)' /\ Settled(r)'
<1> DEFINE new == [Idle EXCEPT !.at = "begin", !.kind = kind, !.path = path,
                               !.key = key, !.heard = TRUE]
<1>1. new \in TaskType /\ new.at = "begin" /\ new.kind = kind /\ new.path = path
  BY DEF Idle, TaskType, Place
<1>2. Sound(new)' /\ Settled(new)'
  BY <1>1 DEF Sound, Settled, Wrote, Coding
<1> QED BY <1>1, <1>2 DEF Start

LEMMA ExecuteShredKeeps ==
  ASSUME VaultInv, NEW t \in Tasks, ExecuteShred(t)
  PROVE  VaultInv'
<1>1. TypeInv /\ shredFile \in Name /\ PageType' /\ isVaultProcessing' = isVaultProcessing
      /\ UNCHANGED <<files, shredded, disturbed>> /\ Start(t, "shred", shredFile, NoName)
  BY DEF ExecuteShred, Start, VaultInv, TypeInv, PageType, diskState, vaultPage
<1>2. PICK r \in TaskType :
        task' = [task EXCEPT ![t] = r] /\ r.kind = "shred" /\ Sound(r)' /\ Settled(r)'
  BY <1>1, Started
<1>3. FilesType' /\ OnlyShredded /\ shredded \subseteq shredded' /\ ~Coding(r)
  BY <1>1, <1>2 DEF TypeInv, FilesType, OnlyShredded, Coding
<1>4. ~disturbed => \A u \in Tasks \ {t} : Coding(task[u]) => isVaultProcessing'
  BY <1>1 DEF VaultInv, Alone
<1> QED BY <1>1, <1>2, <1>3, <1>4, OneMoves

(* Coding is begun only while no other command codes. *)
LEMMA ExecuteVaultKeeps ==
  ASSUME VaultInv, NEW t \in Tasks, NEW kind \in {"encrypt", "decrypt"}, NEW key \in VaultKeys,
         ExecuteVault(t, kind, key)
  PROVE  VaultInv'
<1>1. TypeInv /\ vaultFile \in Name /\ PageType' /\ ~isVaultProcessing /\ isVaultProcessing'
      /\ UNCHANGED <<files, shredded, disturbed>> /\ Start(t, kind, vaultFile, key)
  BY DEF ExecuteVault, Start, VaultInv, TypeInv, PageType, diskState, shredPage
<1>2. PICK r \in TaskType :
        task' = [task EXCEPT ![t] = r] /\ Sound(r)' /\ Settled(r)'
  BY <1>1, Started
<1>3. FilesType' /\ OnlyShredded /\ shredded \subseteq shredded'
  BY <1>1 DEF TypeInv, FilesType, OnlyShredded
<1>4. ~disturbed => \A u \in Tasks : ~Coding(task[u])
  BY <1>1 DEF VaultInv, Alone
<1> QED BY <1>1, <1>2, <1>3, <1>4, OneMoves

LEMMA ShredAnsweredKeeps ==
  ASSUME VaultInv, NEW t \in Tasks, ShredAnswered(t)
  PROVE  VaultInv'
<1>1. TypeInv /\ PageType' /\ isVaultProcessing' = isVaultProcessing
      /\ UNCHANGED <<files, shredded, disturbed>> /\ task' = [task EXCEPT ![t] = Idle]
  BY DEF ShredAnswered, VaultInv, TypeInv, PageType, diskState, vaultPage, counters
<1>2. FilesType' /\ OnlyShredded /\ shredded \subseteq shredded'
  BY <1>1 DEF TypeInv, FilesType, OnlyShredded
<1>3. ~disturbed => \A u \in Tasks \ {t} : Coding(task[u]) => isVaultProcessing'
  BY <1>1 DEF VaultInv, Alone
<1> QED BY <1>1, <1>2, <1>3, IdleFacts, IdleSound, OneMoves

(* The command that answers is the one that codes, or was started before the
   page was left. *)
LEMMA VaultAnsweredKeeps ==
  ASSUME VaultInv, NEW t \in Tasks, VaultAnswered(t)
  PROVE  VaultInv'
<1>1. TypeInv /\ PageType' /\ UNCHANGED <<files, shredded, disturbed>>
      /\ task' = [task EXCEPT ![t] = Idle]
  BY DEF VaultAnswered, VaultInv, TypeInv, PageType, diskState, shredPage, counters
<1>2. FilesType' /\ OnlyShredded /\ shredded \subseteq shredded'
  BY <1>1 DEF TypeInv, FilesType, OnlyShredded
<1>3. Coding(task[t])
  BY DEF VaultAnswered, VaultInv, TypeInv, Sound, Coding, TaskType
<1>4. ~disturbed => \A u \in Tasks \ {t} : ~Coding(task[u])
  BY <1>3 DEF VaultInv, Alone
<1> QED BY <1>1, <1>2, <1>4, IdleFacts, IdleSound, OneMoves

LEMMA LeavePageKeeps ==
  ASSUME VaultInv, LeavePage
  PROVE  VaultInv'
<1>1. ASSUME NEW u \in Tasks
      PROVE  task'[u] \in TaskType /\ Alike(task'[u], task[u])
  <2>1. task'[u] = [task[u] EXCEPT !.heard = FALSE] /\ task[u] \in TaskType
    BY DEF LeavePage, VaultInv, TypeInv
  <2> QED BY <2>1 DEF TaskType, Alike
<1>2. TypeInv'
  <2>1. task' = [u \in Tasks |-> task'[u]]
    BY DEF LeavePage
  <2>2. FilesType' /\ PageType'
    BY DEF LeavePage, ForgetPage, VaultInv, TypeInv, FilesType, PageType, diskState
  <2> QED BY <1>1, <2>1, <2>2 DEF TypeInv
<1>3. ASSUME NEW u \in Tasks PROVE Sound(task[u])'
  <2>1. Alike(task'[u], task[u]) /\ Sound(task[u]) /\ shredded' = shredded
    BY <1>1 DEF VaultInv, LeavePage, diskState
  <2> QED BY <2>1 DEF Alike, Sound, Coding, Wrote
<1>4. ASSUME ~disturbed' PROVE Alone' /\ \A u \in Tasks : Settled(task[u])'
  <2>1. \A u \in Tasks : task[u] = Idle
    BY <1>4 DEF LeavePage, Running
  <2>2. \A u \in Tasks : ~Coding(task'[u]) /\ task'[u].at = "idle"
    BY <1>1, <2>1, IdleFacts DEF Alike, Coding
  <2> QED BY <2>2 DEF Alone, Settled, Wrote
<1> QED BY <1>2, <1>3, <1>4 DEF VaultInv

LEMMA UserSavesKeeps ==
  ASSUME VaultInv, NEW n \in Name, NEW d \in Documents,
         UserSaves(n, [data |-> d, keys |-> <<>>])
  PROVE  VaultInv'
<1>1. [data |-> d, keys |-> <<>>] \in Whole
  BY WholeContents
<1>2. TypeInv'
  BY <1>1 DEF UserSaves, VaultInv, TypeInv, FilesType, PageType, fortressPage, shredPage, vaultPage
<1>3. \A t \in Tasks : Sound(task[t])'
  BY DEF UserSaves, VaultInv, Sound, Wrote, Coding
<1> QED BY <1>2, <1>3 DEF VaultInv, UserSaves

LEMMA DieKeeps ==
  ASSUME VaultInv, Die
  PROVE  VaultInv'
<1>1. \A t \in Tasks : task'[t] = Idle
  BY DEF Die
<1>2. TypeInv'
  BY IdleFacts DEF Die, ForgetPage, VaultInv, TypeInv, FilesType, PageType, diskState
<1>3. \A t \in Tasks : Sound(task[t])'
  BY <1>1, IdleFacts DEF Sound, Wrote, Coding
<1> QED BY <1>2, <1>3 DEF VaultInv, Die

LEMMA VaultStep == VaultInv /\ [VaultNext]_vaultVars => VaultInv'
<1> SUFFICES ASSUME VaultInv, [VaultNext]_vaultVars PROVE VaultInv'
  OBVIOUS
<1>1. ASSUME NEW t \in Tasks, TaskStep(t) PROVE VaultInv'
  <2>1. CASE ExecuteShred(t)
    BY <2>1, ExecuteShredKeeps
  <2>2. CASE ShredAnswered(t)
    BY <2>2, ShredAnsweredKeeps
  <2>3. CASE VaultAnswered(t)
    BY <2>3, VaultAnsweredKeeps
  <2>4. CASE \E kind \in {"encrypt", "decrypt"}, key \in VaultKeys : ExecuteVault(t, kind, key)
    BY <2>4, ExecuteVaultKeeps
  <2>5. CASE Read(t)
    BY <2>5, ReadKeeps
  <2>6. CASE Pick(t)
    BY <2>6, PickKeeps
  <2>7. CASE WriteStaging(t)
    BY <2>7, WriteStagingKeeps
  <2>8. CASE RenameStaging(t)
    BY <2>8, RenameStagingKeeps
  <2>9. CASE Open(t)
    BY <2>9, OpenKeeps
  <2>10. CASE Overwrite(t)
    BY <2>10, OverwriteKeeps
  <2>11. CASE Truncate(t)
    BY <2>11, TruncateKeeps
  <2>12. CASE Unlink(t)
    BY <2>12, UnlinkKeeps
  <2> QED
    BY <1>1, <2>1, <2>2, <2>3, <2>4, <2>5, <2>6, <2>7, <2>8, <2>9, <2>10, <2>11, <2>12
       DEF TaskStep
<1>2. CASE ToggleConfirm \/ \E n \in Name : SelectShredFile(n) \/ SelectVaultFile(n)
  BY <1>2, SelectionKeeps
<1>3. CASE \E n \in Name, d \in Documents : UserSaves(n, [data |-> d, keys |-> <<>>])
  BY <1>3, UserSavesKeeps
<1>4. CASE LeavePage
  BY <1>4, LeavePageKeeps
<1>5. CASE Die
  BY <1>5, DieKeeps
<1>6. CASE UNCHANGED vaultVars
  BY <1>6, PageMoves
     DEF vaultVars, diskState, fortressPage, shredPage, vaultPage, counters, VaultInv, TypeInv, PageType
<1> QED
  BY <1>1, <1>2, <1>3, <1>4, <1>5, <1>6 DEF VaultNext

-----------------------------------------------------------------------------
(* Until a second coding or a shred disturbs it, the name an operation found
   free stays free and its result stays, for any number of commands, documents
   and passphrases (crypto.rs, CyberFortress.tsx). *)
THEOREM VaultInvariance == VaultSpec => []VaultInv
<1>1. VaultInit => VaultInv
  BY VaultStart
<1>2. VaultInv /\ [VaultNext]_vaultVars => VaultInv'
  BY VaultStep
<1> QED BY <1>1, <1>2, PTL DEF VaultSpec

(* No name holds a file cut off in the middle, whatever write or rename
   fails and whenever the process dies, and what an operation reported to
   have written is there until a shred takes it. *)
THEOREM WrittenFilesAreWhole == VaultSpec => []ResultsAreWhole
<1>1. VaultInv => ResultsAreWhole
  <2> SUFFICES ASSUME VaultInv PROVE ResultsAreWhole
    OBVIOUS
  <2>1. ASSUME NEW n \in Name, Stored(n) PROVE files[n].data # Half
    BY <2>1 DEF VaultInv, TypeInv, FilesType, Stored, Whole
  <2>2. ASSUME NEW t \in Tasks, task[t].kind \in {"encrypt", "decrypt"},
               task[t].at = "answered", task[t].ok, ~disturbed, task[t].out \notin shredded
        PROVE  files[task[t].out] = task[t].content
    BY <2>2 DEF VaultInv, Settled, Wrote, Coding
  <2> QED BY <2>1, <2>2 DEF ResultsAreWhole
<1> QED BY <1>1, VaultInvariance, PTL

(* The box that releases a shred was ticked for the file that is shown,
   whatever is chosen or dropped in between (handleSelectShredFile). *)
THEOREM TickFollowsFile == VaultSpec => []TickIsForShownFile
<1>1. VaultInit => TickIsForShownFile
  BY DEF VaultInit, TickIsForShownFile
<1>2. TickIsForShownFile /\ [VaultNext]_vaultVars => TickIsForShownFile'
  <2> SUFFICES ASSUME TickIsForShownFile, [VaultNext]_vaultVars PROVE TickIsForShownFile'
    OBVIOUS
  <2> USE DEF TickIsForShownFile
  <2>1. ASSUME NEW t \in Tasks, TaskStep(t) PROVE TickIsForShownFile'
    BY <2>1 DEF TaskStep, ExecuteShred, ShredAnswered, VaultAnswered, ExecuteVault, Read, Pick,
                WriteStaging, RenameStaging, Open, Overwrite, Truncate, Unlink,
                fortressPage, shredPage
  <2>2. CASE ToggleConfirm
    BY <2>2 DEF ToggleConfirm
  <2>3. ASSUME NEW n \in Name, SelectShredFile(n) \/ SelectVaultFile(n)
        PROVE  TickIsForShownFile'
    BY <2>3 DEF SelectShredFile, SelectVaultFile, shredPage
  <2>4. CASE \E n \in Name, d \in Documents : UserSaves(n, [data |-> d, keys |-> <<>>])
    BY <2>4 DEF UserSaves, fortressPage, shredPage
  <2>5. CASE LeavePage \/ Die
    BY <2>5 DEF LeavePage, Die, ForgetPage
  <2>6. CASE UNCHANGED vaultVars
    BY <2>6 DEF vaultVars, fortressPage, shredPage
  <2> QED BY <2>1, <2>2, <2>3, <2>4, <2>5, <2>6 DEF VaultNext
<1> QED BY <1>1, <1>2, PTL DEF VaultSpec

(* A step that changes a file that is there before and after it. *)
Replaces(n) == Stored(n) /\ Stored(n)' /\ ~disturbed /\ files[n]' # files[n]
UnderShred(n) == \E t \in Tasks : task[t].kind = "shred" /\ task[t].path = n /\ n \in shredded

(* No encryption or decryption replaces a file: what changes a file that
   stays is the shred of that file (get_unique_path and the rename). *)
THEOREM NoFileReplaced == VaultSpec => NothingReplaced
<1>1. ASSUME VaultInv, [VaultNext]_vaultVars, NEW n \in Name, Replaces(n)
      PROVE  UnderShred(n)
  <2> USE <1>1 DEF Replaces
  <2>1. ASSUME NEW t \in Tasks, TaskStep(t) PROVE UnderShred(n)
    <3>1. CASE files' = files
      BY <3>1
    <3>2. CASE RenameStaging(t)
      <4>1. Settled(task[t]) /\ Sound(task[t]) /\ task[t].at = "rename"
        BY <3>2 DEF VaultInv, RenameStaging
      <4>2. ~Stored(task[t].out) /\ task[t].out \in Name
        BY <4>1 DEF Settled, Sound, Stored
      <4>3. files'[n] = files[n]
        BY <3>2, <4>2 DEF RenameStaging, VaultInv, TypeInv, FilesType
      <4> QED BY <4>3
    <3>3. CASE Open(t)
      <4>1. task[t].path \in Name
        BY <3>3 DEF VaultInv, Sound, Open
      <4>2. files'[n] = files[n] \/ files'[n] = NoContent
        BY <3>3, <4>1 DEF Open, diskState, VaultInv, TypeInv, FilesType
      <4> QED BY <4>2 DEF Stored
    <3>4. CASE Overwrite(t) \/ Truncate(t)
      <4>1. task[t].kind = "shred" /\ task[t].path \in shredded
        BY <3>4 DEF VaultInv, Sound, Overwrite, Truncate
      <4>2. files'[n] # files[n] => n = task[t].path
        BY <3>4 DEF Overwrite, Truncate, Put, VaultInv, TypeInv, FilesType
      <4> QED BY <4>1, <4>2 DEF UnderShred
    <3>5. CASE Unlink(t)
      <4>1. task[t].path \in Name
        BY <3>5 DEF VaultInv, Sound, Unlink
      <4>2. files'[n] = files[n] \/ files'[n] = NoContent
        BY <3>5, <4>1 DEF Unlink, VaultInv, TypeInv, FilesType
      <4> QED BY <4>2 DEF Stored
    <3> QED
      BY <2>1, <3>1, <3>2, <3>3, <3>4, <3>5
         DEF TaskStep, ExecuteShred, ExecuteVault, Start, ShredAnswered, VaultAnswered,
             Read, Pick, WriteStaging, diskState
  <2>2. ASSUME NEW m \in Name, NEW d \in Documents, UserSaves(m, [data |-> d, keys |-> <<>>])
        PROVE  UnderShred(n)
    BY <2>2 DEF UserSaves, Stored, VaultInv, TypeInv, FilesType
  <2>3. ASSUME files' = files PROVE UnderShred(n)
    BY <2>3
  <2> QED
    BY <2>1, <2>2, <2>3
       DEF VaultNext, SelectShredFile, SelectVaultFile, ToggleConfirm, LeavePage, Die,
           vaultVars, diskState
<1>2. VaultInv /\ [VaultNext]_vaultVars =>
        [\A n \in Name : Stored(n) /\ Stored(n)' /\ ~disturbed /\ files[n]' # files[n] =>
           \E t \in Tasks : task[t].kind = "shred" /\ task[t].path = n /\ n \in shredded]_vaultVars
  BY <1>1 DEF Replaces, UnderShred
<1> QED BY <1>2, VaultInvariance, PTL DEF VaultSpec, NothingReplaced

-----------------------------------------------------------------------------
(* The organizer. *)

(* A sequence without its element at p. *)
LEMMA Removed ==
  ASSUME NEW S, NEW s \in Seq(S), NEW p \in 1..Len(s)
  PROVE  /\ RemoveAt(s, p) \in Seq(S) /\ Len(RemoveAt(s, p)) = Len(s) - 1
         /\ DOMAIN RemoveAt(s, p) = 1..(Len(s) - 1)
         /\ \A i \in 1..(Len(s) - 1) : RemoveAt(s, p)[i] = IF i < p THEN s[i] ELSE s[i + 1]
<1> DEFINE front == SubSeq(s, 1, p - 1)
           rest == SubSeq(s, p + 1, Len(s))
           both == front \o rest
<1>0. Len(s) \in Nat /\ p \in Nat /\ p >= 1 /\ p <= Len(s)
  OBVIOUS
<1>1. front \in Seq(S) /\ Len(front) = p - 1 /\ \A i \in 1..(p - 1) : front[i] = s[i]
  BY <1>0
<1>2. rest \in Seq(S) /\ Len(rest) = Len(s) - p /\ \A i \in 1..(Len(s) - p) : rest[i] = s[p + i]
  BY <1>0
<1> HIDE DEF front, rest
<1>3. both \in Seq(S) /\ Len(both) = Len(s) - 1
  <2>1. both \in Seq(S) /\ Len(both) = Len(front) + Len(rest)
    <3>1. front \in Seq(S) /\ rest \in Seq(S)
      BY <1>1, <1>2
    <3> QED BY ONLY <3>1 DEF both
  <2>2. (p - 1) + (Len(s) - p) = Len(s) - 1
    BY <1>0
  <2> QED BY <1>1, <1>2, <2>1, <2>2
<1>4. ASSUME NEW i \in 1..(Len(s) - 1)
      PROVE  both[i] = IF i < p THEN s[i] ELSE s[i + 1]
  <2>1. CASE i < p
    BY <1>0, <1>1, <1>2, <2>1
  <2>2. CASE ~(i < p)
    <3>1. both[i] = rest[i - (p - 1)] /\ i - (p - 1) \in 1..(Len(s) - p)
      BY <1>0, <1>1, <1>2, <2>2
    <3>2. p + (i - (p - 1)) = i + 1
      BY <1>0
    <3> QED BY <1>2, <2>2, <3>1, <3>2
  <2> QED BY <2>1, <2>2
<1>5. RemoveAt(s, p) = both
  BY DEF RemoveAt, front, rest
<1> HIDE DEF both
<1> QED BY <1>3, <1>4, <1>5

Held == Files \cup {NoFile, Torn}
Disk == [Path -> Held]
CommandPlace == {"idle", "next", "move", "copy", "remove", "take", "answered", "check"}
CommandType ==
  [at : CommandPlace, kind : {"none", "execute", "undo"}, todo : SUBSET Move, done : Seq(Move),
   from : Path \cup {NoFile}, to : Path \cup {NoFile}, ok : BOOLEAN, rescan : SUBSET Dirs]

OrganizerTypeOK ==
  /\ disk \in Disk /\ snapshot \in Disk /\ undoStack \in Seq(Move)
  /\ cmd \in [Commands -> CommandType]
  /\ selectedDir \in SUBSET Dirs /\ scanning \in SUBSET Dirs /\ scannedFiles \in SUBSET Path
  /\ canUndo \in BOOLEAN /\ alone \in BOOLEAN /\ sound \in BOOLEAN

(* Moves made one after the other lead from a disk s to a disk d. *)
Valid(s, m) == s[m.old] # NoFile /\ s[m.new] = NoFile
Applied(s, m) == [s EXCEPT ![m.old] = NoFile, ![m.new] = s[m.old]]
Trace(s, moves, d) ==
  \E h \in [0..Len(moves) -> Disk] :
    /\ h[0] = s /\ h[Len(moves)] = d
    /\ \A i \in 1..Len(moves) : Valid(h[i - 1], moves[i]) /\ h[i] = Applied(h[i - 1], moves[i])

Apart(moves) == \A i \in DOMAIN moves : moves[i].old # moves[i].new
Moving(k) == k.at \in {"move", "copy", "remove"}
Making(k) == k.kind = "execute" /\ (k.at = "next" \/ Moving(k))
TheMove(k) == [old |-> k.from, new |-> k.to]

(* What a command is at. *)
Fits(k) ==
  /\ k.at # "idle" => k.kind # "none"
  /\ Moving(k) => k.from \in Path /\ k.to \in Path

(* What a command knows that runs by itself: a target that execute picked is
   free, a copy has its content, and the undo list is the last batch's. *)
KnowsAlone(k) ==
  /\ Apart(k.done)
  /\ Moving(k) => k.from # k.to
  /\ k.kind = "execute" /\ k.at \in {"move", "copy"} => Valid(disk, TheMove(k))
  /\ k.at = "remove" => disk[k.to] = disk[k.from]
  /\ k.at \in {"copy", "remove"} => ~sound
  /\ k.kind = "undo" /\ k.at # "take" => undoStack = <<>>
  /\ ~Making(k) => Apart(undoStack)

(* And if nothing failed: the moves made, or left to revert, lead from the
   disk before the batch to the one of now. *)
KnowsSound(k) ==
  /\ k.at \in {"take", "answered", "check"} => Trace(snapshot, undoStack, disk)
  /\ k.at = "next" => Trace(snapshot, k.done, disk)
  /\ k.at = "move" /\ k.kind = "execute" => Trace(snapshot, k.done, disk)
  /\ k.at = "move" /\ k.kind = "undo" =>
       /\ Valid(disk, TheMove(k)) /\ Trace(snapshot, k.done, Applied(disk, TheMove(k)))

AtRest ==
  /\ undoStack # <<>> => canUndo
  /\ Apart(undoStack)
  /\ sound => Trace(snapshot, undoStack, disk)

AloneInv ==
  /\ \A c, d \in Commands : cmd[c] # Resting /\ cmd[d] # Resting => c = d
  /\ \A c \in Commands : cmd[c] # Resting =>
       KnowsAlone(cmd[c]) /\ (sound => KnowsSound(cmd[c]))
  /\ Busy = {} => AtRest

OrganizerInv ==
  /\ OrganizerTypeOK
  /\ \A c \in Commands : Fits(cmd[c])
  /\ alone => AloneInv

-----------------------------------------------------------------------------
LEMMA NoMoves ==
  ASSUME NEW s \in Disk PROVE Trace(s, <<>>, s)
<1> DEFINE h == [i \in 0..0 |-> s]
<1>1. h \in [0..0 -> Disk] /\ h[0] = s
  OBVIOUS
<1>2. Len(<<>>) = 0 /\ 1..0 = {}
  OBVIOUS
<1> HIDE DEF h
<1> QED BY <1>1, <1>2 DEF Trace

LEMMA NothingMoved ==
  ASSUME NEW s, NEW d, Trace(s, <<>>, d) PROVE s = d
<1>1. Len(<<>>) = 0
  OBVIOUS
<1> QED BY <1>1 DEF Trace

LEMMA AppliedType ==
  ASSUME NEW s \in Disk, NEW m \in Move PROVE Applied(s, m) \in Disk
<1>1. PICK p, q : p = m.old /\ q = m.new
  OBVIOUS
<1>2. p \in Path /\ q \in Path
  BY <1>1 DEF Move
<1>3. s[p] \in Held /\ NoFile \in Held
  BY <1>2 DEF Disk, Held
<1>4. [s EXCEPT ![p] = NoFile, ![q] = s[p]] \in [Path -> Held]
  BY <1>2, <1>3 DEF Disk
<1> QED BY <1>1, <1>4 DEF Applied, Disk

LEMMA MoveMade ==
  ASSUME NEW s, NEW moves \in Seq(Move), NEW d \in Disk, Trace(s, moves, d), NEW m \in Move,
         Valid(d, m)
  PROVE  Trace(s, Append(moves, m), Applied(d, m))
<1>1. PICK n : n = Len(moves) /\ n \in Nat
  OBVIOUS
<1>2. PICK h \in [0..n -> Disk] :
        /\ h[0] = s /\ h[n] = d
        /\ \A i \in 1..n : Valid(h[i - 1], moves[i]) /\ h[i] = Applied(h[i - 1], moves[i])
  BY <1>1 DEF Trace
<1> DEFINE g == [i \in 0..(n + 1) |-> IF i = n + 1 THEN Applied(d, m) ELSE h[i]]
<1>3. PICK more : more = Append(moves, m)
  OBVIOUS
<1>4. Len(more) = n + 1 /\ more[n + 1] = m /\ \A i \in 1..n : more[i] = moves[i]
  BY <1>1, <1>3
<1>5. Applied(d, m) \in Disk
  BY AppliedType
<1>6. /\ g \in [0..(n + 1) -> Disk]
      /\ g[n + 1] = Applied(d, m) /\ \A i \in 0..n : g[i] = h[i]
  <2>1. ASSUME NEW i \in 0..(n + 1), i # n + 1 PROVE h[i] \in Disk
    BY <1>1, <1>2, <2>1
  <2>2. \A i \in 0..n : i \in 0..(n + 1) /\ i # n + 1
    BY <1>1
  <2> QED BY <1>1, <1>5, <2>1, <2>2
<1> HIDE DEF g
<1>7. g[0] = s
  BY <1>1, <1>2, <1>6
<1>8. ASSUME NEW i \in 1..(n + 1)
      PROVE  Valid(g[i - 1], more[i]) /\ g[i] = Applied(g[i - 1], more[i])
  <2>1. CASE i = n + 1
    <3>1. g[i - 1] = d /\ more[i] = m /\ g[i] = Applied(d, m)
      BY <1>1, <1>2, <1>4, <1>6, <2>1
    <3> QED BY <3>1
  <2>2. CASE i # n + 1
    <3>1. i \in 1..n /\ i - 1 \in 0..n /\ i \in 0..n
      BY <1>1, <2>2
    <3>2. g[i - 1] = h[i - 1] /\ g[i] = h[i] /\ more[i] = moves[i]
      BY <1>4, <1>6, <3>1
    <3> QED BY <1>2, <3>1, <3>2
  <2> QED BY <2>1, <2>2
<1>9. Trace(s, more, Applied(d, m))
  BY <1>4, <1>6, <1>7, <1>8 DEF Trace
<1> QED BY <1>3, <1>9

LEMMA LastMove ==
  ASSUME NEW s, NEW moves \in Seq(Move), moves # <<>>, NEW d \in Disk, Trace(s, moves, d)
  PROVE  LET m == moves[Len(moves)]
             back == [old |-> m.new, new |-> m.old]
         IN  /\ Valid(d, back)
             /\ Trace(s, RemoveAt(moves, Len(moves)), Applied(d, back))
<1>1. PICK n, m, back : /\ n = Len(moves) /\ m = moves[n] /\ back = [old |-> m.new, new |-> m.old]
  OBVIOUS
<1>2. n \in Nat /\ n > 0 /\ m \in Move /\ \A i \in 1..n : moves[i] \in Move
  BY <1>1
<1>3. PICK h \in [0..n -> Disk] :
        /\ h[0] = s /\ h[n] = d
        /\ \A i \in 1..n : Valid(h[i - 1], moves[i]) /\ h[i] = Applied(h[i - 1], moves[i])
  BY <1>1 DEF Trace
<1>4. PICK e : e = h[n - 1]
  OBVIOUS
<1>5. e \in Disk /\ Valid(e, m) /\ d = Applied(e, m)
  <2>1. n \in 1..n /\ n - 1 \in 0..n
    BY <1>2
  <2> QED BY <1>1, <1>3, <1>4, <2>1
<1>6. Valid(d, back) /\ Applied(d, back) = e
  <2>1. m.old \in Path /\ m.new \in Path /\ back.old = m.new /\ back.new = m.old
    BY <1>1, <1>2 DEF Move
  <2>2. m.old # m.new
    BY <1>5 DEF Valid
  <2>3. d[m.old] = NoFile /\ d[m.new] = e[m.old] /\ \A p \in Path \ {m.old, m.new} : d[p] = e[p]
    BY <1>5, <2>1, <2>2 DEF Applied, Disk
  <2>4. Valid(d, back)
    BY <1>5, <2>1, <2>3 DEF Valid
  <2>5. PICK f : f = Applied(d, back)
    OBVIOUS
  <2>6. f \in Disk
    <3>1. back \in Move /\ d \in Disk
      BY <1>1, <2>1 DEF Move
    <3> QED BY <2>5, <3>1, AppliedType
  <2>7. ASSUME NEW p \in Path PROVE f[p] = e[p]
    BY <1>5, <2>1, <2>2, <2>3, <2>5, <2>7 DEF Applied, Valid, Disk
  <2>8. f = e
    BY <1>5, <2>6, <2>7 DEF Disk
  <2> QED BY <2>4, <2>5, <2>8
<1>7. PICK left : left = RemoveAt(moves, n)
  OBVIOUS
<1>8. Len(left) = n - 1 /\ \A i \in 1..(n - 1) : left[i] = moves[i]
  <2>1. n \in 1..Len(moves)
    BY <1>1, <1>2
  <2>2. /\ Len(left) = Len(moves) - 1
        /\ \A i \in 1..(Len(moves) - 1) : left[i] = IF i < n THEN moves[i] ELSE moves[i + 1]
    BY <1>7, <2>1, Removed
  <2> QED BY <1>1, <1>2, <2>2
<1> DEFINE g == [i \in 0..(n - 1) |-> h[i]]
<1>9. g \in [0..(n - 1) -> Disk] /\ \A i \in 0..(n - 1) : g[i] = h[i]
  BY <1>2, <1>3
<1> HIDE DEF g
<1>10. ASSUME NEW i \in 1..(n - 1)
       PROVE  Valid(g[i - 1], left[i]) /\ g[i] = Applied(g[i - 1], left[i])
  <2>1. i \in 1..n /\ i - 1 \in 0..(n - 1) /\ i \in 0..(n - 1)
    BY <1>2
  <2> QED BY <1>3, <1>8, <1>9, <2>1
<1>11. g[0] = s /\ g[n - 1] = e
  BY <1>2, <1>3, <1>4, <1>9
<1>12. Trace(s, left, e)
  BY <1>8, <1>9, <1>10, <1>11 DEF Trace
<1> QED BY <1>1, <1>6, <1>7, <1>12

-----------------------------------------------------------------------------
OthersRest(c) == \A d \in Commands : d # c => cmd[d] = Resting

LEMMA RestingType == Resting \in CommandType /\ Fits(Resting) /\ Resting.at = "idle"
<1>1. <<>> \in Seq(Move)
  OBVIOUS
<1> QED BY <1>1 DEF Resting, CommandType, CommandPlace, Fits, Moving

LEMMA CommandFacts ==
  ASSUME OrganizerInv, NEW c \in Commands
  PROVE  cmd[c] \in CommandType /\ Fits(cmd[c]) /\ (cmd[c].at # "idle" => cmd[c] # Resting)
BY RestingType DEF OrganizerInv, OrganizerTypeOK

LEMMA AloneFacts ==
  ASSUME OrganizerInv, alone, NEW c \in Commands, cmd[c] # Resting
  PROVE  OthersRest(c) /\ KnowsAlone(cmd[c]) /\ (sound => KnowsSound(cmd[c]))
BY DEF OrganizerInv, AloneInv, OthersRest

LEMMA RestFacts ==
  ASSUME OrganizerInv, alone, Busy = {}
  PROVE  AtRest /\ \A c \in Commands : cmd[c] = Resting
BY DEF OrganizerInv, AloneInv, Busy

(* What a step of one command has to show. *)
LEMMA StepOfOne ==
  ASSUME OrganizerInv, OrganizerTypeOK', NEW c \in Commands, NEW k, k = cmd'[c],
         \A d \in Commands : d # c => cmd'[d] = cmd[d],
         Fits(k),
         alone' => OthersRest(c),
         alone' /\ k = Resting => AtRest',
         alone' /\ k # Resting => KnowsAlone(k)',
         alone' /\ k # Resting /\ sound' => KnowsSound(k)'
  PROVE  OrganizerInv'
<1>1. ASSUME NEW d \in Commands PROVE Fits(cmd'[d])
  BY DEF OrganizerInv
<1>2. ASSUME alone' PROVE AloneInv'
  <2>1. \A d \in Commands : d # c => cmd'[d] = Resting
    BY <1>2 DEF OthersRest
  <2>2. \A d, e \in Commands : cmd'[d] # Resting /\ cmd'[e] # Resting => d = e
    BY <2>1
  <2>3. ASSUME NEW d \in Commands, cmd'[d] # Resting
        PROVE  (KnowsAlone(cmd[d]) /\ (sound => KnowsSound(cmd[d])))'
    <3>1. d = c
      BY <2>1, <2>3
    <3>2. k # Resting
      BY <2>3, <3>1
    <3>3. KnowsAlone(k)' /\ (sound' => KnowsSound(k)')
      BY <1>2, <3>2
    <3> QED BY <3>1, <3>3
  <2>4. ASSUME Busy' = {} PROVE AtRest'
    <3>1. k = Resting
      BY <2>4 DEF Busy
    <3> QED BY <1>2, <3>1
  <2> QED BY <2>2, <2>3, <2>4 DEF AloneInv
<1> QED BY <1>1, <1>2 DEF OrganizerInv

(* What a step of the page has to show. *)
LEMMA PageStep ==
  ASSUME OrganizerInv, OrganizerTypeOK', UNCHANGED <<disk, undoStack, cmd, snapshot, sound>>,
         alone' => alone, canUndo' = canUndo
  PROVE  OrganizerInv'
<1>1. \A c \in Commands : Fits(cmd'[c])
  BY DEF OrganizerInv
<1>2. ASSUME alone' PROVE AloneInv'
  <2>1. AloneInv
    BY <1>2 DEF OrganizerInv
  <2>2. Busy' = Busy
    BY DEF Busy
  <2>3. AtRest => AtRest'
    BY DEF AtRest
  <2>4. ASSUME NEW c \in Commands PROVE (KnowsAlone(cmd[c]) => KnowsAlone(cmd[c])') /\
                                        (KnowsSound(cmd[c]) => KnowsSound(cmd[c])')
    BY DEF KnowsAlone, KnowsSound
  <2> QED BY <2>1, <2>2, <2>3, <2>4 DEF AloneInv
<1> QED BY <1>1, <1>2 DEF OrganizerInv

LEMMA PageKeeps ==
  ASSUME OrganizerInv, (\E d \in Dirs : SelectDir(d)) \/ Scan \/ ScanDone
  PROVE  OrganizerInv'
<1>1. OrganizerTypeOK
  BY DEF OrganizerInv
<1>2. /\ UNCHANGED <<disk, undoStack, cmd, snapshot, sound, alone, canUndo>>
      /\ selectedDir' \in SUBSET Dirs /\ scanning' \in SUBSET Dirs /\ scannedFiles' \in SUBSET Path
  BY <1>1 DEF SelectDir, Scan, ScanDone, history, OrganizerTypeOK
<1>3. OrganizerTypeOK'
  BY <1>1, <1>2 DEF OrganizerTypeOK
<1> QED BY <1>2, <1>3, PageStep

LEMMA SaveFileKeeps ==
  ASSUME OrganizerInv, NEW f \in Files, NEW p \in Path, SaveFile(f, p)
  PROVE  OrganizerInv'
<1>1. OrganizerTypeOK
  BY DEF OrganizerInv
<1>2. f \in Held
  BY DEF Held
<1>3. [disk EXCEPT ![p] = f] \in Disk
  BY <1>1, <1>2 DEF OrganizerTypeOK, Disk
<1>4. OrganizerTypeOK'
  BY <1>1, <1>3 DEF SaveFile, OrganizerTypeOK, page
<1>5. alone' = FALSE /\ cmd' = cmd
  BY DEF SaveFile
<1> QED BY <1>4, <1>5 DEF OrganizerInv

LEMMA CrashKeeps ==
  ASSUME OrganizerInv, Crash PROVE OrganizerInv'
<1>1. OrganizerTypeOK
  BY DEF OrganizerInv
<1>2. /\ \A c \in Commands : cmd'[c] = Resting
      /\ undoStack' = <<>> /\ sound' = FALSE
  BY DEF Crash
<1>3. OrganizerTypeOK'
  <2>1. cmd' \in [Commands -> CommandType]
    BY RestingType DEF Crash
  <2>2. undoStack' \in Seq(Move)
    BY <1>2
  <2> QED BY <1>1, <2>1, <2>2 DEF Crash, OrganizerTypeOK
<1>4. \A c \in Commands : Fits(cmd'[c])
  BY <1>2, RestingType
<1>5. AtRest'
  <2>1. Apart(<<>>)
    BY DEF Apart
  <2> QED BY <1>2, <2>1 DEF AtRest
<1>6. AloneInv'
  BY <1>2, <1>5 DEF AloneInv
<1> QED BY <1>3, <1>4, <1>6 DEF OrganizerInv

-----------------------------------------------------------------------------
(* Commands that start. *)
LEMMA ExecuteKeeps ==
  ASSUME OrganizerInv, NEW c \in Commands, NEW chosen \in SUBSET scannedFiles, NEW d \in Dirs,
         NEW style \in {"category", "prefix", "plain"}, Execute(c, chosen, d, style)
  PROVE  OrganizerInv'
<1>1. OrganizerTypeOK /\ \A p \in chosen : p \in Path /\ Target(p, d, style) \in Path
  BY DEF OrganizerInv, Execute, OrganizerTypeOK
<1>2. PICK ops : ops = {[old |-> p, new |-> Target(p, d, style)] : p \in chosen}
  OBVIOUS
<1>3. ops \in SUBSET Move
  BY <1>1, <1>2 DEF Move
<1>4. PICK k : k = [Resting EXCEPT !.at = "next", !.kind = "execute", !.todo = ops]
  OBVIOUS
<1>5. /\ k \in CommandType /\ Fits(k) /\ k.at = "next" /\ k.kind = "execute" /\ k.done = <<>>
      /\ k # Resting
  <2>1. <<>> \in Seq(Move)
    OBVIOUS
  <2> QED BY <1>3, <1>4, <2>1 DEF Resting, CommandType, CommandPlace, Fits, Moving
<1>6. /\ cmd' = [cmd EXCEPT ![c] = k] /\ UNCHANGED <<disk, undoStack, page>>
      /\ snapshot' = disk /\ alone' = (Busy = {}) /\ sound' = TRUE
  BY <1>2, <1>4 DEF Execute
<1>7. OrganizerTypeOK' /\ cmd'[c] = k /\ \A e \in Commands : e # c => cmd'[e] = cmd[e]
  BY <1>1, <1>5, <1>6 DEF OrganizerTypeOK, page
<1>8. Apart(<<>>)
  BY DEF Apart
<1>9. KnowsAlone(k)'
  BY <1>5, <1>8 DEF KnowsAlone, Moving, Making
<1>10. KnowsSound(k)'
  <2>1. Trace(disk, <<>>, disk)
    BY <1>1, NoMoves DEF OrganizerTypeOK
  <2> QED BY <1>5, <1>6, <2>1 DEF KnowsSound
<1>11. alone' => OthersRest(c)
  BY <1>6 DEF Busy, OthersRest
<1> QED BY <1>5, <1>7, <1>9, <1>10, <1>11, StepOfOne

LEMMA UndoKeeps ==
  ASSUME OrganizerInv, NEW c \in Commands, Undo(c) PROVE OrganizerInv'
<1>1. OrganizerTypeOK
  BY DEF OrganizerInv
<1>2. PICK scope : scope = IF scanning = {} THEN selectedDir ELSE {}
  OBVIOUS
<1>3. PICK k : k = [Resting EXCEPT !.at = "take", !.kind = "undo", !.rescan = scope]
  OBVIOUS
<1>4. /\ k \in CommandType /\ Fits(k) /\ k.at = "take" /\ k.kind = "undo" /\ k.done = <<>>
      /\ k # Resting
  <2>1. <<>> \in Seq(Move)
    OBVIOUS
  <2>2. scope \in SUBSET Dirs
    BY <1>1, <1>2 DEF OrganizerTypeOK
  <2> QED BY <1>3, <2>1, <2>2 DEF Resting, CommandType, CommandPlace, Fits, Moving
<1>5. /\ cmd' = [cmd EXCEPT ![c] = k] /\ UNCHANGED <<disk, undoStack, page, snapshot, sound>>
      /\ alone' = (alone /\ Busy = {})
  BY <1>2, <1>3 DEF Undo
<1>6. OrganizerTypeOK' /\ cmd'[c] = k /\ \A e \in Commands : e # c => cmd'[e] = cmd[e]
  BY <1>1, <1>4, <1>5 DEF OrganizerTypeOK, page
<1>7. ASSUME alone' PROVE AtRest /\ OthersRest(c)
  BY <1>5, <1>7, RestFacts DEF OthersRest
<1>8. Apart(<<>>)
  BY DEF Apart
<1>9. ASSUME alone' PROVE KnowsAlone(k)' /\ (sound' => KnowsSound(k)')
  <2>1. AtRest
    BY <1>7, <1>9
  <2> QED BY <1>4, <1>5, <1>8, <2>1 DEF AtRest, KnowsAlone, KnowsSound, Moving, Making
<1> QED BY <1>4, <1>6, <1>7, <1>9, StepOfOne

-----------------------------------------------------------------------------
(* What the steps of a command that runs alone leave behind. *)
Underway(r, c) ==
  /\ r = cmd[c] /\ r \in CommandType /\ Fits(r)
  /\ alone => OthersRest(c) /\ KnowsAlone(r) /\ (sound => KnowsSound(r))

LEMMA StepStarts ==
  ASSUME OrganizerInv, NEW c \in Commands, cmd[c].at # "idle", NEW r, r = cmd[c]
  PROVE  Underway(r, c)
BY CommandFacts, AloneFacts DEF Underway

(* cmd with a changed record for c. *)
LEMMA Becomes ==
  ASSUME OrganizerTypeOK, NEW c \in Commands, NEW k \in CommandType, cmd' = [cmd EXCEPT ![c] = k]
  PROVE  /\ cmd' \in [Commands -> CommandType] /\ k = cmd'[c]
         /\ \A d \in Commands : d # c => cmd'[d] = cmd[d]
BY DEF OrganizerTypeOK

LEMMA FreeNameType ==
  ASSUME NEW p \in Path, NEW q \in FreeName(p)
  PROVE  q \in Path /\ ~Exists(q)
<1> DEFINE free == {n \in (p.copy + 1)..MaxCopy : ~Exists([p EXCEPT !.copy = n])}
<1>1. CASE ~Exists(p)
  BY <1>1 DEF FreeName
<1>2. CASE Exists(p)
  <2>1. FreeName(p) = {[p EXCEPT !.copy = n] : n \in {m \in free : \A k \in free : m <= k}}
    BY <1>2 DEF FreeName
  <2>2. PICK n \in (p.copy + 1)..MaxCopy : q = [p EXCEPT !.copy = n] /\ ~Exists([p EXCEPT !.copy = n])
    BY <2>1
  <2>3. p.copy \in Nat /\ n \in 0..MaxCopy
    BY <2>2, CopyAssumption DEF Path
  <2>4. q \in Path
    BY <2>2, <2>3 DEF Path
  <2> QED BY <2>2, <2>4
<1> QED BY <1>1, <1>2

LEMMA PickTargetKeeps ==
  ASSUME OrganizerInv, NEW c \in Commands, NEW op \in cmd[c].todo, PickTarget(c, op)
  PROVE  OrganizerInv'
<1>1. OrganizerTypeOK
  BY DEF OrganizerInv
<1>2. PICK r : r = cmd[c]
  OBVIOUS
<1>3. r.at = "next" /\ r.kind = "execute" /\ op \in r.todo
  BY <1>2 DEF PickTarget
<1>4. Underway(r, c)
  BY <1>2, <1>3, StepStarts
<1>5. r \in CommandType /\ op \in Move /\ op.old \in Path /\ op.new \in Path
  BY <1>3, <1>4 DEF Underway, CommandType, Move
<1>6. UNCHANGED <<disk, undoStack, page, snapshot, alone>>
  BY DEF PickTarget
<1>7. ASSUME NEW to \in FreeName(op.new), Exists(op.old), sound' = sound,
             cmd' = [cmd EXCEPT ![c].at = "move", ![c].todo = @ \ {op},
                                ![c].from = op.old, ![c].to = to]
      PROVE  OrganizerInv'
  <2>1. PICK k : k = [r EXCEPT !.at = "move", !.todo = @ \ {op}, !.from = op.old, !.to = to]
    OBVIOUS
  <2>2. to \in Path /\ ~Exists(to)
    BY <1>5, <1>7, FreeNameType
  <2>3. /\ k \in CommandType /\ k.at = "move" /\ k.kind = "execute" /\ k.done = r.done
        /\ k.from = op.old /\ k.to = to
    BY <1>3, <1>5, <2>1, <2>2 DEF CommandType, CommandPlace
  <2>4. Fits(k) /\ k # Resting
    BY <1>5, <2>2, <2>3, RestingType DEF Fits, Moving
  <2>5. cmd' = [cmd EXCEPT ![c] = k]
    BY <1>1, <1>2, <1>7, <2>1 DEF OrganizerTypeOK
  <2>6. /\ cmd' \in [Commands -> CommandType] /\ k = cmd'[c]
        /\ \A d \in Commands : d # c => cmd'[d] = cmd[d]
    BY <1>1, <2>3, <2>5, Becomes
  <2>7. OrganizerTypeOK'
    BY <1>1, <1>6, <1>7, <2>6 DEF OrganizerTypeOK, page
  <2>8. Valid(disk, TheMove(k))
    BY <1>7, <2>2, <2>3 DEF Valid, TheMove, Exists
  <2>9. k.from # k.to
    BY <1>7, <2>2, <2>3
  <2>10. ASSUME alone' PROVE OthersRest(c) /\ KnowsAlone(k)' /\ (sound' => KnowsSound(k)')
    <3>1. OthersRest(c) /\ KnowsAlone(r) /\ (sound => KnowsSound(r))
      BY <1>4, <1>6, <2>10 DEF Underway
    <3>2. KnowsAlone(k)'
      BY <1>3, <1>6, <1>7, <2>3, <2>8, <2>9, <3>1 DEF KnowsAlone, Moving, Making
    <3>3. sound' => KnowsSound(k)'
      BY <1>3, <1>6, <1>7, <2>3, <3>1 DEF KnowsSound
    <3> QED BY <3>1, <3>2, <3>3
  <2> QED BY <2>4, <2>6, <2>7, <2>10, StepOfOne
<1>8. ASSUME sound' = FALSE, cmd' = [cmd EXCEPT ![c].todo = @ \ {op}, ![c].ok = FALSE]
      PROVE  OrganizerInv'
  <2>1. PICK k : k = [r EXCEPT !.todo = @ \ {op}, !.ok = FALSE]
    OBVIOUS
  <2>2. k \in CommandType /\ k.at = "next" /\ k.kind = "execute" /\ k.done = r.done
    BY <1>3, <1>5, <2>1 DEF CommandType
  <2>3. Fits(k) /\ k # Resting
    BY <2>2, RestingType DEF Fits, Moving
  <2>4. cmd' = [cmd EXCEPT ![c] = k]
    BY <1>1, <1>2, <1>8, <2>1 DEF OrganizerTypeOK
  <2>5. /\ cmd' \in [Commands -> CommandType] /\ k = cmd'[c]
        /\ \A d \in Commands : d # c => cmd'[d] = cmd[d]
    BY <1>1, <2>2, <2>4, Becomes
  <2>6. OrganizerTypeOK'
    BY <1>1, <1>6, <1>8, <2>5 DEF OrganizerTypeOK, page
  <2>7. ASSUME alone' PROVE OthersRest(c) /\ KnowsAlone(k)'
    <3>1. OthersRest(c) /\ KnowsAlone(r)
      BY <1>4, <1>6, <2>7 DEF Underway
    <3> QED BY <1>6, <1>8, <2>2, <3>1 DEF KnowsAlone, Moving, Making
  <2> QED BY <1>8, <2>3, <2>5, <2>6, <2>7, StepOfOne
<1> QED BY <1>7, <1>8 DEF PickTarget

(* A failed move: the next one, and the answer will be an error. *)
LEMMA MoveFailsKeeps ==
  ASSUME OrganizerInv, NEW c \in Commands, cmd[c].at \in {"copy", "remove"}, MoveFails(c),
         disk' \in Disk, UNCHANGED <<undoStack, page, snapshot, alone, sound>>
  PROVE  OrganizerInv'
<1>1. OrganizerTypeOK
  BY DEF OrganizerInv
<1>2. PICK r : r = cmd[c]
  OBVIOUS
<1>3. Underway(r, c) /\ r.at \in {"copy", "remove"}
  BY <1>2, StepStarts
<1>4. r \in CommandType /\ Fits(r)
  BY <1>3 DEF Underway
<1>5. PICK k : k = [r EXCEPT !.at = "next", !.ok = FALSE]
  OBVIOUS
<1>6. k \in CommandType /\ k.at = "next" /\ k.kind = r.kind /\ k.done = r.done
  BY <1>4, <1>5 DEF CommandType, CommandPlace
<1>7. Fits(k) /\ k # Resting
  BY <1>3, <1>4, <1>6, RestingType DEF Fits, Moving
<1>8. cmd' = [cmd EXCEPT ![c] = k]
  BY <1>1, <1>2, <1>5 DEF OrganizerTypeOK, MoveFails
<1>9. /\ cmd' \in [Commands -> CommandType] /\ k = cmd'[c]
      /\ \A d \in Commands : d # c => cmd'[d] = cmd[d]
  BY <1>1, <1>6, <1>8, Becomes
<1>10. OrganizerTypeOK'
  BY <1>1, <1>9 DEF OrganizerTypeOK, page
<1>11. ASSUME alone' PROVE OthersRest(c) /\ ~sound' /\ KnowsAlone(k)'
  <2>1. OthersRest(c) /\ KnowsAlone(r)
    BY <1>3, <1>11 DEF Underway
  <2> QED BY <1>3, <1>6, <2>1 DEF KnowsAlone, Moving, Making
<1> QED BY <1>7, <1>9, <1>10, <1>11, StepOfOne

LEMMA ApartMore ==
  ASSUME NEW moves \in Seq(Move), Apart(moves), NEW m \in Move, m.old # m.new
  PROVE  Apart(Append(moves, m))
<1>1. PICK more : more = Append(moves, m)
  OBVIOUS
<1>2. /\ more \in Seq(Move) /\ Len(more) = Len(moves) + 1 /\ more[Len(moves) + 1] = m
      /\ \A i \in 1..Len(moves) : more[i] = moves[i]
  BY <1>1
<1>3. \A i \in DOMAIN more : more[i].old # more[i].new
  BY <1>2 DEF Apart
<1> QED BY <1>1, <1>3 DEF Apart

(* A move made, by renaming or by copying and removing. *)
LEMMA MovedKeeps ==
  ASSUME OrganizerInv, NEW c \in Commands, cmd[c].at \in {"move", "remove"}, cmd' = Moved(c),
         disk' \in Disk, UNCHANGED <<undoStack, page, snapshot, alone, sound>>,
         cmd[c].at = "move" => disk' = Applied(disk, TheMove(cmd[c]))
  PROVE  OrganizerInv'
<1>1. OrganizerTypeOK
  BY DEF OrganizerInv
<1>2. PICK r : r = cmd[c]
  OBVIOUS
<1>3. Underway(r, c) /\ r.at \in {"move", "remove"}
  BY <1>2, StepStarts
<1>4. r \in CommandType /\ Fits(r) /\ r.from \in Path /\ r.to \in Path /\ r.done \in Seq(Move)
      /\ r.kind \in {"execute", "undo"}
  BY <1>3 DEF Underway, Fits, Moving, CommandType
<1>5. PICK m : m = TheMove(r)
  OBVIOUS
<1>6. m \in Move /\ m.old = r.from /\ m.new = r.to
  BY <1>4, <1>5 DEF TheMove, Move
<1>7. PICK done : done = IF r.kind = "undo" THEN r.done ELSE Append(r.done, m)
  OBVIOUS
<1>8. done \in Seq(Move)
  BY <1>4, <1>6, <1>7
<1>9. PICK k : k = [r EXCEPT !.at = "next", !.done = done]
  OBVIOUS
<1>10. k \in CommandType /\ k.at = "next" /\ k.kind = r.kind /\ k.done = done
  BY <1>4, <1>8, <1>9 DEF CommandType, CommandPlace
<1>11. Fits(k) /\ k # Resting
  BY <1>4, <1>10, RestingType DEF Fits, Moving
<1>12. cmd' = [cmd EXCEPT ![c] = k]
  BY <1>1, <1>2, <1>5, <1>7, <1>9 DEF OrganizerTypeOK, Moved, TheMove
<1>13. /\ cmd' \in [Commands -> CommandType] /\ k = cmd'[c]
       /\ \A d \in Commands : d # c => cmd'[d] = cmd[d]
  BY <1>1, <1>10, <1>12, Becomes
<1>14. OrganizerTypeOK'
  BY <1>1, <1>13 DEF OrganizerTypeOK, page
<1>15. ASSUME alone' PROVE OthersRest(c) /\ KnowsAlone(k)' /\ (sound' => KnowsSound(k)')
  <2>1. OthersRest(c) /\ KnowsAlone(r) /\ (sound => KnowsSound(r))
    BY <1>3, <1>15 DEF Underway
  <2>2. Apart(r.done) /\ r.from # r.to
    BY <1>3, <2>1 DEF KnowsAlone, Moving
  <2>3. Apart(done)
    BY <1>4, <1>6, <1>7, <2>2, ApartMore
  <2>4. KnowsAlone(k)'
    BY <1>3, <1>10, <2>1, <2>3 DEF KnowsAlone, Moving, Making
  <2>5. ASSUME sound' PROVE KnowsSound(k)'
    <3>1. r.at = "move" /\ KnowsSound(r)
      BY <1>3, <2>1, <2>5 DEF KnowsAlone
    <3>2. disk' = Applied(disk, m)
      BY <1>2, <1>5, <3>1
    <3>3. CASE r.kind = "undo"
      <4>1. Trace(snapshot, r.done, Applied(disk, m))
        BY <1>5, <3>1, <3>3 DEF KnowsSound
      <4> QED BY <1>7, <1>10, <3>2, <3>3, <4>1 DEF KnowsSound
    <3>4. CASE r.kind = "execute"
      <4>1. Trace(snapshot, r.done, disk) /\ Valid(disk, m)
        BY <1>5, <2>1, <3>1, <3>4 DEF KnowsSound, KnowsAlone
      <4>2. disk \in Disk
        BY <1>1 DEF OrganizerTypeOK
      <4>3. Trace(snapshot, Append(r.done, m), Applied(disk, m))
        BY <1>4, <1>6, <4>1, <4>2, MoveMade
      <4> QED BY <1>7, <1>10, <3>2, <3>4, <4>3 DEF KnowsSound
    <3> QED BY <1>4, <3>3, <3>4
  <2> QED BY <2>1, <2>4, <2>5
<1> QED BY <1>11, <1>13, <1>14, <1>15, StepOfOne

LEMMA RenameKeeps ==
  ASSUME OrganizerInv, NEW c \in Commands, Rename(c) PROVE OrganizerInv'
<1>1. OrganizerTypeOK
  BY DEF OrganizerInv
<1>2. PICK r : r = cmd[c]
  OBVIOUS
<1>3. Underway(r, c) /\ r.at = "move" /\ UNCHANGED <<undoStack, page, snapshot, alone>>
  BY <1>2, StepStarts DEF Rename
<1>4. r \in CommandType /\ Fits(r) /\ r.from \in Path /\ r.to \in Path
  BY <1>3 DEF Underway, Fits, Moving
<1>5. CASE /\ disk' = [disk EXCEPT ![cmd[c].from] = NoFile, ![cmd[c].to] = disk[cmd[c].from]]
           /\ cmd' = Moved(c) /\ sound' = sound
  <2>1. TheMove(r) \in Move
    BY <1>4 DEF TheMove, Move
  <2>2. disk' = Applied(disk, TheMove(r))
    BY <1>2, <1>5 DEF Applied, TheMove
  <2>3. Applied(disk, TheMove(r)) \in Disk
    BY <1>1, <2>1, AppliedType DEF OrganizerTypeOK
  <2> QED BY <1>2, <1>3, <1>5, <2>2, <2>3, MovedKeeps
<1>6. CASE /\ ~Exists(cmd[c].from) \/ Fault
           /\ cmd' = [cmd EXCEPT ![c].at = "copy"]
           /\ sound' = FALSE /\ disk' = disk
  <2>1. PICK k : k = [r EXCEPT !.at = "copy"]
    OBVIOUS
  <2>2. /\ k \in CommandType /\ k.at = "copy" /\ k.kind = r.kind /\ k.done = r.done
        /\ k.from = r.from /\ k.to = r.to
    BY <1>4, <2>1 DEF CommandType, CommandPlace
  <2>3. Fits(k) /\ k # Resting
    BY <1>3, <1>4, <2>2, RestingType DEF Fits, Moving
  <2>4. cmd' = [cmd EXCEPT ![c] = k]
    BY <1>1, <1>2, <1>6, <2>1 DEF OrganizerTypeOK
  <2>5. /\ cmd' \in [Commands -> CommandType] /\ k = cmd'[c]
        /\ \A d \in Commands : d # c => cmd'[d] = cmd[d]
    BY <1>1, <2>2, <2>4, Becomes
  <2>6. OrganizerTypeOK'
    BY <1>1, <1>3, <1>6, <2>5 DEF OrganizerTypeOK, page
  <2>7. ASSUME alone' PROVE OthersRest(c) /\ KnowsAlone(k)'
    <3>1. OthersRest(c) /\ KnowsAlone(r)
      BY <1>3, <2>7 DEF Underway
    <3>2. TheMove(k) = TheMove(r)
      BY <2>2 DEF TheMove
    <3> QED BY <1>3, <1>6, <2>2, <3>1, <3>2 DEF KnowsAlone, Moving, Making
  <2> QED BY <1>6, <2>3, <2>5, <2>6, <2>7, StepOfOne
<1> QED BY <1>5, <1>6 DEF Rename

LEMMA CopyKeeps ==
  ASSUME OrganizerInv, NEW c \in Commands, Copy(c) PROVE OrganizerInv'
<1>1. OrganizerTypeOK
  BY DEF OrganizerInv
<1>2. PICK r : r = cmd[c]
  OBVIOUS
<1>3. Underway(r, c) /\ r.at = "copy" /\ UNCHANGED <<undoStack, page, snapshot, alone, sound>>
  BY <1>2, StepStarts DEF Copy
<1>4. r \in CommandType /\ Fits(r) /\ r.from \in Path /\ r.to \in Path
  BY <1>3 DEF Underway, Fits, Moving
<1>5. disk[r.from] \in Held /\ Torn \in Held /\ disk \in Disk
  BY <1>1, <1>4 DEF OrganizerTypeOK, Disk, Held
<1>6. CASE MoveFails(c) /\ (disk' = disk \/ disk' = [disk EXCEPT ![cmd[c].to] = Torn])
  <2>1. disk' \in Disk
    BY <1>2, <1>4, <1>5, <1>6 DEF Disk
  <2> QED BY <1>2, <1>3, <1>6, <2>1, MoveFailsKeeps
<1>7. CASE disk' = [disk EXCEPT ![cmd[c].to] = disk[cmd[c].from]] /\ cmd' = [cmd EXCEPT ![c].at = "remove"]
  <2>1. disk' \in Disk /\ disk'[r.to] = disk[r.from] /\ disk'[r.from] = disk[r.from]
    BY <1>2, <1>4, <1>5, <1>7 DEF Disk
  <2>2. PICK k : k = [r EXCEPT !.at = "remove"]
    OBVIOUS
  <2>3. /\ k \in CommandType /\ k.at = "remove" /\ k.kind = r.kind /\ k.done = r.done
        /\ k.from = r.from /\ k.to = r.to
    BY <1>4, <2>2 DEF CommandType, CommandPlace
  <2>4. Fits(k) /\ k # Resting
    BY <1>3, <1>4, <2>3, RestingType DEF Fits, Moving
  <2>5. cmd' = [cmd EXCEPT ![c] = k]
    BY <1>1, <1>2, <1>7, <2>2 DEF OrganizerTypeOK
  <2>6. /\ cmd' \in [Commands -> CommandType] /\ k = cmd'[c]
        /\ \A d \in Commands : d # c => cmd'[d] = cmd[d]
    BY <1>1, <2>3, <2>5, Becomes
  <2>7. OrganizerTypeOK'
    BY <1>1, <1>3, <2>1, <2>6 DEF OrganizerTypeOK, page
  <2>8. ASSUME alone' PROVE OthersRest(c) /\ KnowsAlone(k)' /\ ~sound'
    <3>1. OthersRest(c) /\ KnowsAlone(r)
      BY <1>3, <2>8 DEF Underway
    <3>2. (disk[k.to] = disk[k.from])'
      BY <2>1, <2>3
    <3> QED BY <1>3, <2>3, <3>1, <3>2 DEF KnowsAlone, Moving, Making
  <2> QED BY <2>4, <2>6, <2>7, <2>8, StepOfOne
<1> QED BY <1>6, <1>7 DEF Copy

LEMMA RemoveSourceKeeps ==
  ASSUME OrganizerInv, NEW c \in Commands, RemoveSource(c) PROVE OrganizerInv'
<1>1. cmd[c].at = "remove" /\ UNCHANGED <<undoStack, page, snapshot, alone, sound>>
  BY DEF RemoveSource
<1>2. disk \in Disk /\ NoFile \in Held
  BY DEF OrganizerInv, OrganizerTypeOK, Held
<1>3. CASE disk' = [disk EXCEPT ![cmd[c].from] = NoFile] /\ cmd' = Moved(c)
  <2>1. disk' \in Disk
    BY <1>2, <1>3 DEF Disk
  <2> QED BY <1>1, <1>3, <2>1, MovedKeeps
<1>4. CASE disk' = disk /\ MoveFails(c)
  BY <1>1, <1>2, <1>4, MoveFailsKeeps
<1> QED BY <1>3, <1>4 DEF RemoveSource

-----------------------------------------------------------------------------
(* Undo takes the list and goes through it from its end. *)
LEMMA TakeKeeps ==
  ASSUME OrganizerInv, NEW c \in Commands, Take(c) PROVE OrganizerInv'
<1>1. OrganizerTypeOK
  BY DEF OrganizerInv
<1>2. PICK r : r = cmd[c]
  OBVIOUS
<1>3. /\ Underway(r, c) /\ r.at = "take" /\ undoStack' = <<>>
      /\ UNCHANGED <<disk, page, snapshot, alone, sound>>
  BY <1>2, StepStarts DEF Take, history
<1>4. r \in CommandType /\ Fits(r) /\ undoStack \in Seq(Move) /\ <<>> \in Seq(Move)
  BY <1>1, <1>3 DEF Underway, OrganizerTypeOK
<1>5. PICK k : k = IF undoStack = <<>> THEN [r EXCEPT !.at = "answered", !.ok = FALSE]
                   ELSE [r EXCEPT !.at = "next", !.done = undoStack]
  OBVIOUS
<1>6. /\ k \in CommandType /\ k.kind = r.kind
      /\ \/ k.at = "answered" /\ undoStack = <<>>
         \/ k.at = "next" /\ k.done = undoStack
  <2>1. CASE undoStack = <<>>
    BY <1>4, <1>5, <2>1 DEF CommandType, CommandPlace
  <2>2. CASE undoStack # <<>>
    BY <1>4, <1>5, <2>2 DEF CommandType, CommandPlace
  <2> QED BY <2>1, <2>2
<1>7. Fits(k) /\ k # Resting
  BY <1>3, <1>4, <1>6, RestingType DEF Fits, Moving
<1>8. cmd' = [cmd EXCEPT ![c] = k]
  BY <1>1, <1>2, <1>5 DEF OrganizerTypeOK, Take
<1>9. /\ cmd' \in [Commands -> CommandType] /\ k = cmd'[c]
      /\ \A d \in Commands : d # c => cmd'[d] = cmd[d]
  BY <1>1, <1>6, <1>8, Becomes
<1>10. OrganizerTypeOK'
  BY <1>1, <1>3, <1>4, <1>9 DEF OrganizerTypeOK, page
<1>11. ASSUME alone' PROVE OthersRest(c) /\ KnowsAlone(k)' /\ (sound' => KnowsSound(k)')
  <2>1. OthersRest(c) /\ KnowsAlone(r) /\ (sound => KnowsSound(r))
    BY <1>3, <1>11 DEF Underway
  <2>2. Apart(undoStack) /\ Apart(r.done) /\ Apart(<<>>)
    BY <1>3, <2>1 DEF KnowsAlone, Making, Moving, Apart
  <2>3. Apart(k.done)
    <3>1. CASE undoStack = <<>>
      BY <1>4, <1>5, <2>2, <3>1 DEF CommandType
    <3>2. CASE undoStack # <<>>
      BY <1>4, <1>5, <2>2, <3>2 DEF CommandType
    <3> QED BY <3>1, <3>2
  <2>4. KnowsAlone(k)'
    BY <1>3, <1>6, <2>2, <2>3 DEF KnowsAlone, Moving, Making
  <2>5. ASSUME sound PROVE KnowsSound(k)'
    <3>1. Trace(snapshot, undoStack, disk)
      BY <1>3, <2>1, <2>5 DEF KnowsSound
    <3> QED BY <1>3, <1>6, <3>1 DEF KnowsSound
  <2> QED BY <1>3, <2>1, <2>4, <2>5
<1> QED BY <1>7, <1>9, <1>10, <1>11, StepOfOne

LEMMA PickOriginalKeeps ==
  ASSUME OrganizerInv, NEW c \in Commands, PickOriginal(c) PROVE OrganizerInv'
<1>1. OrganizerTypeOK
  BY DEF OrganizerInv
<1>2. PICK r : r = cmd[c]
  OBVIOUS
<1>3. /\ Underway(r, c) /\ r.at = "next" /\ r.kind = "undo" /\ r.done # <<>>
      /\ UNCHANGED <<disk, undoStack, page, snapshot, alone>>
  BY <1>2, StepStarts DEF PickOriginal
<1>4. r \in CommandType /\ Fits(r) /\ r.done \in Seq(Move)
  BY <1>3 DEF Underway, CommandType
<1>5. PICK n, m, left : n = Len(r.done) /\ m = r.done[n] /\ left = RemoveAt(r.done, n)
  OBVIOUS
<1>6. n \in 1..Len(r.done) /\ m \in Move /\ m.old \in Path /\ m.new \in Path
  <2>1. PICK moves : moves = r.done
    OBVIOUS
  <2>2. moves \in Seq(Move) /\ moves # <<>> /\ n = Len(moves) /\ m = moves[n]
    BY <1>3, <1>4, <1>5, <2>1
  <2>3. n \in 1..Len(moves) /\ m \in Move
    BY ONLY <2>2
  <2> QED BY <2>1, <2>3 DEF Move
<1>7. /\ left \in Seq(Move) /\ Len(left) = n - 1
      /\ \A i \in 1..(n - 1) : left[i] = IF i < n THEN r.done[i] ELSE r.done[i + 1]
  BY <1>4, <1>5, <1>6, Removed
<1>8. Apart(r.done) => Apart(left) /\ m.old # m.new
  BY <1>4, <1>5, <1>6, <1>7 DEF Apart
<1>9. CASE /\ cmd' = [cmd EXCEPT ![c].at = "move", ![c].done = left,
                                 ![c].from = m.new, ![c].to = m.old]
           /\ sound' = sound
  <2>1. PICK k : k = [r EXCEPT !.at = "move", !.done = left, !.from = m.new, !.to = m.old]
    OBVIOUS
  <2>2. /\ k \in CommandType /\ k.at = "move" /\ k.kind = "undo" /\ k.done = left
        /\ k.from = m.new /\ k.to = m.old
    BY <1>3, <1>4, <1>6, <1>7, <2>1 DEF CommandType, CommandPlace
  <2>3. Fits(k) /\ k # Resting
    BY <1>6, <2>2, RestingType DEF Fits, Moving
  <2>4. cmd' = [cmd EXCEPT ![c] = k]
    BY <1>1, <1>2, <1>9, <2>1 DEF OrganizerTypeOK
  <2>5. /\ cmd' \in [Commands -> CommandType] /\ k = cmd'[c]
        /\ \A d \in Commands : d # c => cmd'[d] = cmd[d]
    BY <1>1, <2>2, <2>4, Becomes
  <2>6. OrganizerTypeOK'
    BY <1>1, <1>3, <1>9, <2>5 DEF OrganizerTypeOK, page
  <2>7. ASSUME alone' PROVE OthersRest(c) /\ KnowsAlone(k)' /\ (sound' => KnowsSound(k)')
    <3>1. OthersRest(c) /\ KnowsAlone(r) /\ (sound => KnowsSound(r))
      BY <1>3, <2>7 DEF Underway
    <3>2. KnowsAlone(k)'
      BY <1>3, <1>8, <2>2, <3>1 DEF KnowsAlone, Moving, Making
    <3>3. ASSUME sound' PROVE KnowsSound(k)'
      <4>1. Trace(snapshot, r.done, disk) /\ disk \in Disk
        BY <1>1, <1>3, <1>9, <3>1, <3>3 DEF KnowsSound, OrganizerTypeOK
      <4>2. TheMove(k) = [old |-> m.new, new |-> m.old]
        BY <2>2 DEF TheMove
      <4>3. Valid(disk, TheMove(k)) /\ Trace(snapshot, left, Applied(disk, TheMove(k)))
        BY <1>3, <1>4, <1>5, <4>1, <4>2, LastMove
      <4> QED BY <1>3, <2>2, <4>3 DEF KnowsSound
    <3> QED BY <3>1, <3>2, <3>3
  <2> QED BY <2>3, <2>5, <2>6, <2>7, StepOfOne
<1>10. CASE cmd' = [cmd EXCEPT ![c].done = left, ![c].ok = FALSE] /\ sound' = FALSE
  <2>1. PICK k : k = [r EXCEPT !.done = left, !.ok = FALSE]
    OBVIOUS
  <2>2. k \in CommandType /\ k.at = "next" /\ k.kind = "undo" /\ k.done = left
    BY <1>3, <1>4, <1>7, <2>1 DEF CommandType
  <2>3. Fits(k) /\ k # Resting
    BY <2>2, RestingType DEF Fits, Moving
  <2>4. cmd' = [cmd EXCEPT ![c] = k]
    BY <1>1, <1>2, <1>10, <2>1 DEF OrganizerTypeOK
  <2>5. /\ cmd' \in [Commands -> CommandType] /\ k = cmd'[c]
        /\ \A d \in Commands : d # c => cmd'[d] = cmd[d]
    BY <1>1, <2>2, <2>4, Becomes
  <2>6. OrganizerTypeOK'
    BY <1>1, <1>3, <1>10, <2>5 DEF OrganizerTypeOK, page
  <2>7. ASSUME alone' PROVE OthersRest(c) /\ KnowsAlone(k)'
    <3>1. OthersRest(c) /\ KnowsAlone(r)
      BY <1>3, <2>7 DEF Underway
    <3> QED BY <1>3, <1>8, <2>2, <3>1 DEF KnowsAlone, Moving, Making
  <2> QED BY <1>10, <2>3, <2>5, <2>6, <2>7, StepOfOne
<1> QED BY <1>2, <1>5, <1>9, <1>10 DEF PickOriginal, NextToRevert

-----------------------------------------------------------------------------
(* Commands that end: only their place changes. *)
LEMMA PlaceKeeps ==
  ASSUME OrganizerInv, NEW c \in Commands, NEW place \in {"answered", "check"},
         cmd[c].at \in {"next", "answered"}, cmd[c].at = "next" => cmd[c].kind = "undo" /\ cmd[c].done = <<>>,
         cmd' = [cmd EXCEPT ![c].at = place],
         scannedFiles' \in SUBSET Path,
         UNCHANGED <<disk, undoStack, selectedDir, scanning, canUndo, snapshot, alone, sound>>
  PROVE  OrganizerInv'
<1>1. OrganizerTypeOK
  BY DEF OrganizerInv
<1>2. PICK r : r = cmd[c]
  OBVIOUS
<1>3. Underway(r, c) /\ r.at \in {"next", "answered"} /\ (r.at = "next" => r.kind = "undo" /\ r.done = <<>>)
  BY <1>2, StepStarts
<1>4. r \in CommandType /\ Fits(r)
  BY <1>3 DEF Underway
<1>5. PICK k : k = [r EXCEPT !.at = place]
  OBVIOUS
<1>6. k \in CommandType /\ k.at \in {"answered", "check"} /\ k.kind = r.kind /\ k.done = r.done
  BY <1>4, <1>5 DEF CommandType, CommandPlace
<1>7. Fits(k) /\ k # Resting
  BY <1>3, <1>4, <1>6, RestingType DEF Fits, Moving
<1>8. cmd' = [cmd EXCEPT ![c] = k]
  BY <1>1, <1>2, <1>5 DEF OrganizerTypeOK
<1>9. /\ cmd' \in [Commands -> CommandType] /\ k = cmd'[c]
      /\ \A d \in Commands : d # c => cmd'[d] = cmd[d]
  BY <1>1, <1>6, <1>8, Becomes
<1>10. OrganizerTypeOK'
  BY <1>1, <1>9 DEF OrganizerTypeOK
<1>11. ASSUME alone' PROVE OthersRest(c) /\ KnowsAlone(k)' /\ (sound' => KnowsSound(k)')
  <2>1. OthersRest(c) /\ KnowsAlone(r) /\ (sound => KnowsSound(r))
    BY <1>3, <1>11 DEF Underway
  <2>2. r.at = "next" => undoStack = <<>>
    BY <1>3, <2>1 DEF KnowsAlone
  <2>3. Apart(undoStack)
    BY <1>3, <2>1 DEF KnowsAlone, Making, Moving
  <2>4. KnowsAlone(k)'
    BY <1>3, <1>6, <2>1, <2>3 DEF KnowsAlone, Moving, Making
  <2>5. ASSUME sound PROVE KnowsSound(k)'
    <3>1. Trace(snapshot, undoStack, disk)
      BY <1>3, <2>1, <2>2, <2>5 DEF KnowsSound
    <3> QED BY <1>6, <3>1 DEF KnowsSound
  <2> QED BY <2>1, <2>4, <2>5
<1> QED BY <1>7, <1>9, <1>10, <1>11, StepOfOne

LEMMA EndsKeep ==
  ASSUME OrganizerInv, NEW c \in Commands, UndoEnds(c) \/ ExecuteAnswered(c)
  PROVE  OrganizerInv'
<1>1. scannedFiles \in SUBSET Path
  BY DEF OrganizerInv, OrganizerTypeOK
<1>2. CASE UndoEnds(c)
  BY <1>1, <1>2, PlaceKeeps DEF UndoEnds, page, history
<1>3. CASE ExecuteAnswered(c)
  BY <1>1, <1>3, PlaceKeeps DEF ExecuteAnswered, history
<1> QED BY <1>2, <1>3

LEMMA RecordKeeps ==
  ASSUME OrganizerInv, NEW c \in Commands, Record(c) PROVE OrganizerInv'
<1>1. OrganizerTypeOK
  BY DEF OrganizerInv
<1>2. PICK r : r = cmd[c]
  OBVIOUS
<1>3. /\ Underway(r, c) /\ r.at = "next" /\ r.kind = "execute"
      /\ UNCHANGED <<disk, page, snapshot, sound>>
      /\ undoStack' = IF r.done = <<>> THEN undoStack ELSE r.done
      /\ alone' = (alone /\ r.done # <<>>)
  BY <1>2, StepStarts DEF Record
<1>4. r \in CommandType /\ Fits(r) /\ r.done \in Seq(Move) /\ <<>> \in Seq(Move)
  BY <1>3 DEF Underway, CommandType
<1>5. PICK k : k = [r EXCEPT !.at = "answered", !.done = <<>>]
  OBVIOUS
<1>6. k \in CommandType /\ k.at = "answered" /\ k.kind = "execute" /\ k.done = <<>>
  BY <1>3, <1>4, <1>5 DEF CommandType, CommandPlace
<1>7. Fits(k) /\ k # Resting
  BY <1>6, RestingType DEF Fits, Moving
<1>8. cmd' = [cmd EXCEPT ![c] = k]
  BY <1>1, <1>2, <1>5 DEF OrganizerTypeOK, Record
<1>9. /\ cmd' \in [Commands -> CommandType] /\ k = cmd'[c]
      /\ \A d \in Commands : d # c => cmd'[d] = cmd[d]
  BY <1>1, <1>6, <1>8, Becomes
<1>10. undoStack' \in Seq(Move) /\ alone' \in BOOLEAN
  BY <1>1, <1>3, <1>4 DEF OrganizerTypeOK
<1>11. OrganizerTypeOK'
  BY <1>1, <1>3, <1>9, <1>10 DEF OrganizerTypeOK, page
<1>12. ASSUME alone' PROVE OthersRest(c) /\ KnowsAlone(k)' /\ (sound' => KnowsSound(k)')
  <2>1. OthersRest(c) /\ KnowsAlone(r) /\ (sound => KnowsSound(r)) /\ undoStack' = r.done
    BY <1>3, <1>12 DEF Underway
  <2>2. Apart(<<>>) /\ Apart(r.done)
    BY <2>1 DEF KnowsAlone, Apart
  <2>3. KnowsAlone(k)'
    BY <1>6, <2>1, <2>2 DEF KnowsAlone, Moving, Making
  <2>4. ASSUME sound PROVE KnowsSound(k)'
    <3>1. Trace(snapshot, r.done, disk)
      BY <1>3, <2>1, <2>4 DEF KnowsSound
    <3> QED BY <1>3, <1>6, <2>1, <3>1 DEF KnowsSound
  <2> QED BY <1>3, <2>1, <2>3, <2>4
<1> QED BY <1>7, <1>9, <1>11, <1>12, StepOfOne

LEMMA AnsweredKeeps ==
  ASSUME OrganizerInv, NEW c \in Commands, CheckUndo(c) \/ UndoAnswered(c)
  PROVE  OrganizerInv'
<1>1. OrganizerTypeOK
  BY DEF OrganizerInv
<1>2. PICK r : r = cmd[c]
  OBVIOUS
<1>3. /\ Underway(r, c) /\ r.at \in {"check", "answered"}
      /\ r.at = "answered" => r.kind = "undo"
      /\ cmd' = [cmd EXCEPT ![c] = Resting]
      /\ UNCHANGED <<disk, undoStack, selectedDir, scannedFiles, snapshot, alone, sound>>
      /\ scanning' = scanning \/ scanning' = r.rescan
      /\ canUndo' \in BOOLEAN
      /\ r.at = "check" => canUndo' = (undoStack # <<>>)
  <2>1. cmd[c].at # "idle" /\ canUndo' \in BOOLEAN
    BY <1>1 DEF CheckUndo, UndoAnswered, OrganizerTypeOK
  <2> QED BY <1>2, <2>1, StepStarts DEF CheckUndo, UndoAnswered, history
<1>4. Resting \in CommandType /\ Fits(Resting)
  BY RestingType
<1>5. /\ cmd' \in [Commands -> CommandType] /\ Resting = cmd'[c]
      /\ \A d \in Commands : d # c => cmd'[d] = cmd[d]
  BY <1>1, <1>3, <1>4, Becomes
<1>6. scanning' \in SUBSET Dirs
  BY <1>1, <1>3 DEF OrganizerTypeOK, Underway, CommandType
<1>7. OrganizerTypeOK'
  BY <1>1, <1>3, <1>5, <1>6 DEF OrganizerTypeOK
<1>8. ASSUME alone' PROVE OthersRest(c) /\ AtRest'
  <2>1. OthersRest(c) /\ KnowsAlone(r) /\ (sound => KnowsSound(r))
    BY <1>3, <1>8 DEF Underway
  <2>2. r.kind = "undo" => undoStack = <<>>
    BY <1>3, <2>1 DEF KnowsAlone
  <2>3. undoStack # <<>> => canUndo'
    BY <1>3, <2>2
  <2>4. Apart(undoStack)
    BY <1>3, <2>1 DEF KnowsAlone, Making, Moving
  <2>5. sound => Trace(snapshot, undoStack, disk)
    BY <1>3, <2>1 DEF KnowsSound
  <2> QED BY <1>3, <2>1, <2>3, <2>4, <2>5 DEF AtRest
<1> QED BY <1>4, <1>5, <1>7, <1>8, StepOfOne

-----------------------------------------------------------------------------
LEMMA OrganizerStart == OrganizerInit => OrganizerInv
<1> SUFFICES ASSUME OrganizerInit PROVE OrganizerInv
  OBVIOUS
<1>1. OrganizerTypeOK
  <2>1. disk \in Disk /\ snapshot \in Disk
    BY DEF OrganizerInit, Disk, Held
  <2>2. undoStack \in Seq(Move)
    BY DEF OrganizerInit
  <2>3. cmd \in [Commands -> CommandType]
    BY RestingType DEF OrganizerInit
  <2> QED BY <2>1, <2>2, <2>3 DEF OrganizerInit, OrganizerTypeOK
<1>2. \A c \in Commands : cmd[c] = Resting
  BY DEF OrganizerInit
<1>3. AtRest
  <2>1. Apart(<<>>)
    BY DEF Apart
  <2>2. Trace(snapshot, undoStack, disk)
    BY <1>1, NoMoves DEF OrganizerInit, OrganizerTypeOK
  <2> QED BY <2>1, <2>2 DEF OrganizerInit, AtRest
<1>4. AloneInv
  BY <1>2, <1>3 DEF AloneInv
<1> QED BY <1>1, <1>2, <1>4, RestingType DEF OrganizerInv

LEMMA OrganizerStep == OrganizerInv /\ [OrganizerNext]_organizerVars => OrganizerInv'
<1>1. ASSUME OrganizerInv, OrganizerNext PROVE OrganizerInv'
  <2>1. ASSUME NEW c \in Commands, Step(c) PROVE OrganizerInv'
    BY <1>1, <2>1, UndoKeeps, PickOriginalKeeps, RenameKeeps, CopyKeeps, RemoveSourceKeeps,
       RecordKeeps, TakeKeeps, EndsKeep, AnsweredKeeps, PickTargetKeeps, ExecuteKeeps DEF Step
  <2> QED BY <1>1, <2>1, PageKeeps, SaveFileKeeps, CrashKeeps DEF OrganizerNext
<1>2. ASSUME OrganizerInv, UNCHANGED organizerVars PROVE OrganizerInv'
  <2>1. OrganizerTypeOK'
    BY <1>2 DEF OrganizerInv, OrganizerTypeOK, organizerVars, page, history
  <2> QED BY <1>2, <2>1, PageStep DEF organizerVars, page, history
<1> QED BY <1>1, <1>2

(* The organizer: as long as one command runs alone, the moves it made, or
   has left to revert, lead from the disk before the batch to that of now,
   and its targets are free. *)
THEOREM OrganizerInvariance == OrganizerSpec => []OrganizerInv
BY OrganizerStart, OrganizerStep, PTL DEF OrganizerSpec

(* An undo that reports success, with no failure, second command or file of
   the user in between, has put every file of the batch back
   (organizer_undo): for batches of any size, over any names. *)
THEOREM UndoAlwaysRestores == OrganizerSpec => []UndoRestores
<1>1. ASSUME OrganizerInv, NEW c \in Commands, cmd[c].kind = "undo", cmd[c].at = "answered",
             alone, sound
      PROVE  disk = snapshot
  <2>1. PICK r : r = cmd[c]
    OBVIOUS
  <2>2. r.kind = "undo" /\ r.at = "answered" /\ KnowsAlone(r) /\ KnowsSound(r)
    BY <1>1, <2>1, CommandFacts, AloneFacts
  <2>3. Trace(snapshot, <<>>, disk)
    BY <2>2 DEF KnowsAlone, KnowsSound
  <2> QED BY <2>3, NothingMoved
<1>2. OrganizerInv => UndoRestores
  BY <1>1 DEF UndoRestores
<1> QED BY <1>2, OrganizerInvariance, PTL

(* At rest the page offers to undo whatever the backend has to undo
   (checkUndo), also after a batch that failed in part. *)
THEOREM UndoAlwaysOffered == OrganizerSpec => []UndoIsOffered
<1>1. OrganizerInv => UndoIsOffered
  BY RestFacts DEF UndoIsOffered, AtRest
<1> QED BY <1>1, OrganizerInvariance, PTL

(* The contents a step of one command takes off the disk. *)
Vanishes(f) == OnDisk(f) /\ ~OnDisk(f)'
Interfered ==
  \/ ~alone
  \/ ~sound /\ \E c \in Commands : cmd[c].kind = "undo" /\ cmd[c].at \in {"move", "copy"}

(* Over a free name only nothing is written. *)
LEMMA FreeTargetKeepsFiles ==
  ASSUME OrganizerTypeOK, NEW f \in Files, OnDisk(f), NEW to \in Path, disk[to] = NoFile,
         NEW d \in Disk, disk' = d, \A p \in Path : p # to /\ disk[p] = f => d[p] = f \/ d[to] = f
  PROVE  OnDisk(f)'
<1>1. PICK p \in Path : disk[p] = f
  BY DEF OnDisk
<1>2. p # to
  BY <1>1, FilesAssumption
<1>3. d[p] = f \/ d[to] = f
  BY <1>1, <1>2
<1> QED BY <1>3 DEF OnDisk

LEMMA RenameLosesNothing ==
  ASSUME OrganizerInv, NEW c \in Commands, Rename(c), NEW f \in Files, Vanishes(f)
  PROVE  Interfered
<1> SUFFICES ASSUME ~Interfered PROVE FALSE
  OBVIOUS
<1>1. OrganizerTypeOK
  BY DEF OrganizerInv
<1>2. PICK r : r = cmd[c]
  OBVIOUS
<1>3. Underway(r, c) /\ r.at = "move"
  BY <1>2, StepStarts DEF Rename
<1>4. r \in CommandType /\ r.from \in Path /\ r.to \in Path /\ r.kind \in {"execute", "undo"}
  BY <1>3 DEF Underway, Fits, Moving, CommandType
<1>5. alone /\ KnowsAlone(r) /\ (r.kind = "undo" => sound /\ KnowsSound(r))
  BY <1>2, <1>3 DEF Interfered, Underway
<1>6. disk[r.to] = NoFile /\ r.from # r.to
  BY <1>3, <1>4, <1>5 DEF KnowsAlone, KnowsSound, Valid, TheMove, Moving
<1>7. OnDisk(f) /\ ~OnDisk(f)'
  BY DEF Vanishes
<1>8. CASE disk' = disk
  BY <1>7, <1>8 DEF OnDisk
<1>9. CASE disk' = [disk EXCEPT ![r.from] = NoFile, ![r.to] = disk[r.from]]
  <2>1. PICK d : d = [disk EXCEPT ![r.from] = NoFile, ![r.to] = disk[r.from]]
    OBVIOUS
  <2>2. NoFile \in Held /\ disk \in [Path -> Held]
    BY <1>1 DEF OrganizerTypeOK, Disk, Held
  <2>3. d \in Disk /\ d[r.to] = disk[r.from] /\ \A p \in Path : p # r.to /\ p # r.from => d[p] = disk[p]
    BY <1>4, <1>6, <2>1, <2>2 DEF Disk
  <2>4. \A p \in Path : p # r.to /\ disk[p] = f => d[p] = f \/ d[r.to] = f
    BY <2>3
  <2> QED BY <1>1, <1>4, <1>6, <1>7, <1>9, <2>1, <2>3, <2>4, FreeTargetKeepsFiles
<1> QED BY <1>2, <1>8, <1>9 DEF Rename

LEMMA CopyLosesNothing ==
  ASSUME OrganizerInv, NEW c \in Commands, Copy(c), NEW f \in Files, Vanishes(f)
  PROVE  Interfered
<1> SUFFICES ASSUME ~Interfered PROVE FALSE
  OBVIOUS
<1>1. OrganizerTypeOK
  BY DEF OrganizerInv
<1>2. PICK r : r = cmd[c]
  OBVIOUS
<1>3. Underway(r, c) /\ r.at = "copy"
  BY <1>2, StepStarts DEF Copy
<1>4. r \in CommandType /\ r.from \in Path /\ r.to \in Path /\ r.kind \in {"execute", "undo"}
  BY <1>3 DEF Underway, Fits, Moving, CommandType
<1>5. alone /\ KnowsAlone(r) /\ r.kind = "execute"
  BY <1>2, <1>3, <1>4 DEF Interfered, Underway, KnowsAlone
<1>6. disk[r.to] = NoFile
  BY <1>3, <1>5 DEF KnowsAlone, Valid, TheMove
<1>7. OnDisk(f) /\ ~OnDisk(f)'
  BY DEF Vanishes
<1>8. CASE disk' = disk
  BY <1>7, <1>8 DEF OnDisk
<1>9. ASSUME NEW x \in Held, disk' = [disk EXCEPT ![r.to] = x] PROVE FALSE
  <2>1. PICK d : d = [disk EXCEPT ![r.to] = x]
    OBVIOUS
  <2>2. d \in Disk /\ \A p \in Path : p # r.to => d[p] = disk[p]
    BY <1>1, <1>4, <2>1 DEF Disk, OrganizerTypeOK
  <2>3. disk' = d /\ \A p \in Path : p # r.to /\ disk[p] = f => d[p] = f \/ d[r.to] = f
    BY <1>9, <2>1, <2>2
  <2>4. PICK to \in Path : to = r.to
    BY <1>4
  <2>5. OnDisk(f)'
    BY <1>1, <1>6, <1>7, <2>2, <2>3, <2>4, FreeTargetKeepsFiles
  <2> QED BY <1>7, <2>5
<1>10. disk[r.from] \in Held /\ Torn \in Held
  BY <1>1, <1>4 DEF OrganizerTypeOK, Disk, Held
<1> QED BY <1>2, <1>8, <1>9, <1>10 DEF Copy

LEMMA RemoveSourceLosesNothing ==
  ASSUME OrganizerInv, NEW c \in Commands, RemoveSource(c), NEW f \in Files, Vanishes(f)
  PROVE  Interfered
<1> SUFFICES ASSUME ~Interfered PROVE FALSE
  OBVIOUS
<1>1. OrganizerTypeOK
  BY DEF OrganizerInv
<1>2. PICK r : r = cmd[c]
  OBVIOUS
<1>3. Underway(r, c) /\ r.at = "remove"
  BY <1>2, StepStarts DEF RemoveSource
<1>4. r.from \in Path /\ r.to \in Path /\ KnowsAlone(r)
  BY <1>3 DEF Underway, Fits, Moving, Interfered
<1>5. disk[r.to] = disk[r.from] /\ r.from # r.to
  BY <1>3, <1>4 DEF KnowsAlone, Moving
<1>6. PICK p \in Path : disk[p] = f
  BY DEF Vanishes, OnDisk
<1>7. PICK d : d = disk'
  OBVIOUS
<1>8. d = disk \/ d = [disk EXCEPT ![r.from] = NoFile]
  BY <1>2, <1>7 DEF RemoveSource
<1>9. d[p] = f \/ d[r.to] = f
  BY <1>1, <1>4, <1>5, <1>6, <1>8 DEF OrganizerTypeOK, Disk
<1> QED BY <1>4, <1>6, <1>7, <1>9 DEF Vanishes, OnDisk

LEMMA SaveLosesNothing ==
  ASSUME OrganizerInv, NEW g \in Files, NEW q \in Path, SaveFile(g, q), NEW f \in Files
  PROVE  ~Vanishes(f)
<1> SUFFICES ASSUME Vanishes(f) PROVE FALSE
  OBVIOUS
<1>1. OrganizerTypeOK /\ OnDisk(f) /\ disk[q] = NoFile
  BY DEF OrganizerInv, Vanishes, SaveFile, Exists
<1>2. PICK d : d = [disk EXCEPT ![q] = g]
  OBVIOUS
<1>3. d \in Disk /\ disk' = d /\ \A p \in Path : p # q => d[p] = disk[p]
  BY <1>1, <1>2 DEF OrganizerTypeOK, Disk, Held, SaveFile
<1>4. OnDisk(f)'
  BY <1>1, <1>3, FreeTargetKeepsFiles
<1> QED BY <1>4 DEF Vanishes

(* No step takes a content off the disk but a move over a name that a second
   command or the user took in between, or of an undo after something failed
   in it or its batch (safe_move_file replaces what is at its target). *)
THEOREM FilesOnlyVanishByInterference == OrganizerSpec => FilesVanishOnlyByInterference
<1>1. ASSUME OrganizerInv, [OrganizerNext]_organizerVars, NEW f \in Files, Vanishes(f)
      PROVE  Interfered
  <2>1. CASE disk' = disk
    BY <1>1, <2>1 DEF Vanishes, OnDisk
  <2>2. ASSUME NEW c \in Commands, Step(c), disk' # disk
        PROVE  Rename(c) \/ Copy(c) \/ RemoveSource(c)
    <3>1. ASSUME NEW op, PickTarget(c, op) PROVE FALSE
      BY <2>2, <3>1 DEF PickTarget
    <3>2. ASSUME NEW d, NEW chosen, NEW style, Execute(c, chosen, d, style) PROVE FALSE
      BY <2>2, <3>2 DEF Execute
    <3> QED BY <2>2, <3>1, <3>2 DEF Step, Undo, PickOriginal, Record, Take, UndoEnds,
                                    ExecuteAnswered, CheckUndo, UndoAnswered
  <2>3. ASSUME OrganizerNext, disk' # disk
        PROVE  \/ \E c \in Commands : Rename(c) \/ Copy(c) \/ RemoveSource(c)
               \/ \E g \in Files, q \in Path : SaveFile(g, q)
    <3>1. (\E d \in Dirs : SelectDir(d)) \/ Scan \/ ScanDone \/ Crash => disk' = disk
      BY DEF SelectDir, Scan, ScanDone, Crash
    <3> QED BY <2>2, <2>3, <3>1 DEF OrganizerNext
  <2>4. CASE disk' # disk
    <3>1. OrganizerNext
      BY <1>1, <2>4 DEF organizerVars
    <3> QED BY <1>1, <2>3, <2>4, <3>1, RenameLosesNothing, CopyLosesNothing,
               RemoveSourceLosesNothing, SaveLosesNothing
  <2> QED BY <2>1, <2>4
<1>2. OrganizerInv /\ [OrganizerNext]_organizerVars =>
        [\A f \in Files : OnDisk(f) /\ ~OnDisk(f)' =>
          \/ ~alone
          \/ ~sound /\ \E c \in Commands : cmd[c].kind = "undo" /\ cmd[c].at \in {"move", "copy"}
        ]_organizerVars
  BY <1>1 DEF Vanishes, Interfered
<1> QED BY <1>2, OrganizerInvariance, PTL DEF OrganizerSpec, FilesVanishOnlyByInterference

=============================================================================
