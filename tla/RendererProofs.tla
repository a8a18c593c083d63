--------------------------- MODULE RendererProofs ---------------------------
(***************************************************************************)
(* Four parts of the renderer, each on its own state: the lists of the API *)
(* studio, the vault of the password generator, the runs of workflow       *)
(* chains and the notes of the scratchpad.  Each argument is about what is *)
(* under way: what a call, a store, a run or an encryption carries is what *)
(* its owner had, or the model's history says that it is not.              *)
(***************************************************************************)
EXTENDS ApiWorkspace, PasswordVault, WorkflowChains, Scratchpad, WellFoundedInduction, TLAPS

(* A set of numbers up to m that has an element has a greatest one. *)
LEMMA GreatestOf ==
  ASSUME NEW m \in Nat, NEW T \in SUBSET (1..m), T # {}
  PROVE  \E j \in T : \A k \in T : k <= j
<1> DEFINE gaps == {m - k : k \in T}
<1>1. gaps \subseteq Nat /\ gaps # {}
  <2>1. \A k \in T : k \in 1..m
    OBVIOUS
  <2>2. \A k \in T : m - k \in Nat
    BY <2>1
  <2> QED BY <2>2
<1>2. PICK g \in gaps : \A h \in gaps : ~(<<h, g>> \in OpToRel(<, Nat))
  BY <1>1, NatLessThanWellFounded, WFMin, Zenon
<1>3. PICK j \in T : g = m - j
  BY <1>2
<1>4. ASSUME NEW k \in T PROVE k <= j
  <2>1. m - k \in gaps /\ m - k \in Nat /\ g \in Nat
    BY <1>1
  <2>2. ~(m - k < g)
    BY <1>2, <2>1 DEF OpToRel
  <2> QED BY <1>3, <2>2
<1> QED BY <1>4

(* A sequence without its p-th element. *)
LEMMA Removed ==
  ASSUME NEW S, NEW s \in Seq(S), NEW p \in 1..Len(s)
  PROVE  /\ RemoveAt(s, p) \in Seq(S) /\ Len(RemoveAt(s, p)) = Len(s) - 1
         /\ DOMAIN RemoveAt(s, p) = 1..(Len(s) - 1)
         /\ \A i \in 1..(Len(s) - 1) : RemoveAt(s, p)[i] = IF i < p THEN s[i] ELSE s[i + 1]
<1> DEFINE front == SubSeq(s, 1, p - 1)
           rest == SubSeq(s, p + 1, Len(s))
           both == front \o rest
<1>0. Len(s) \in Nat /\ p \in Nat /\ p >= 1 /\ p <= Len(s)
  OBVIOUS
<1>1. front \in Seq(S) /\ Len(front) = p - 1 /\ \A i \in 1..(p - 1) : front[i] = s[i]
  BY <1>0
<1>2. rest \in Seq(S) /\ Len(rest) = Len(s) - p /\ \A i \in 1..(Len(s) - p) : rest[i] = s[p + i]
  BY <1>0
<1> HIDE DEF front, rest
<1>3. both \in Seq(S) /\ Len(both) = Len(s) - 1
  <2>1. both \in Seq(S) /\ Len(both) = Len(front) + Len(rest)
    <3>1. front \in Seq(S) /\ rest \in Seq(S)
      BY <1>1, <1>2
    <3> QED BY ONLY <3>1 DEF both
  <2>2. (p - 1) + (Len(s) - p) = Len(s) - 1
    BY <1>0
  <2> QED BY <1>1, <1>2, <2>1, <2>2
<1>4. ASSUME NEW i \in 1..(Len(s) - 1)
      PROVE  both[i] = IF i < p THEN s[i] ELSE s[i + 1]
  <2>1. CASE i < p
    BY <1>0, <1>1, <1>2, <2>1
  <2>2. CASE ~(i < p)
    <3>1. both[i] = rest[i - (p - 1)] /\ i - (p - 1) \in 1..(Len(s) - p)
      BY <1>0, <1>1, <1>2, <2>2
    <3>2. p + (i - (p - 1)) = i + 1
      BY <1>0
    <3> QED BY <1>2, <2>2, <3>1, <3>2
  <2> QED BY <2>1, <2>2
<1>5. RemoveAt(s, p) = both
  BY DEF RemoveAt, front, rest
<1> HIDE DEF both
<1> QED BY <1>3, <1>4, <1>5

-----------------------------------------------------------------------------
(* The lists of the API studio. *)
Value == Nat \cup {Emptied, Absent}
StudioCall == [op : {"store"}, value : Value] \cup {Retrieve}
Answer == [value : Value, stale : BOOLEAN]

StudioTypeOK ==
  /\ studioOpen \in BOOLEAN /\ stale \in BOOLEAN /\ touched \in BOOLEAN /\ undone \in BOOLEAN
  /\ list \in Value /\ local \in Value /\ secure \in Value /\ download \in Value
  /\ wanted \in Value \ {Absent} /\ version \in Nat
  /\ calls \in Seq(StudioCall) /\ retrieved \in SUBSET Answer

(* What the user is owed: the last change, or the preset for an emptied list. *)
Wanted(v) == v = wanted \/ (wanted = Emptied /\ v = Preset)
(* A copy that may also be missing, if nothing was ever changed. *)
Kept(v) == Wanted(v) \/ (v = Absent /\ wanted = Preset)

(* What the encrypted copy will be when a call runs, or all have. *)
SecureAt(i) == IF i = 1 THEN secure ELSE calls[i - 1].value
SecureAfterAll == SecureAt(Len(calls) + 1)

(* A page asks once and stores last what it shows. *)
CallsOfPage ==
  /\ \A i, j \in DOMAIN calls : calls[i] = Retrieve /\ calls[j] = Retrieve => i = j
  /\ \A i \in DOMAIN calls : calls[i] = Retrieve => retrieved = {} /\ studioOpen
  /\ retrieved # {} => studioOpen
  /\ studioOpen /\ calls # <<>> => calls[Len(calls)] = StoreCall(list)
  /\ studioOpen /\ calls = <<>> /\ ~stale => secure = list

(* Until a change was undone: what is shown, stored and asked for. *)
CopiesInv ==
  /\ studioOpen /\ ~Awaited => Wanted(list)
  /\ studioOpen /\ Awaited /\ ~touched => Wanted(list) \/ list = Preset
  /\ studioOpen => local = list
  /\ ~studioOpen /\ local # Absent => Wanted(local)
  /\ ~studioOpen /\ ~stale => Kept(SecureAfterAll)
  /\ ~stale /\ ~touched => \A i \in DOMAIN calls : calls[i] = Retrieve => Kept(SecureAt(i))
  /\ ~touched => \A a \in retrieved : ~a.stale => Kept(a.value)

StudioInv == StudioTypeOK /\ CallsOfPage /\ (~undone => CopiesInv)

(* A first launch: the preset everywhere, nothing under way. *)
LEMMA StudioStart == StudioInit => StudioInv
<1> SUFFICES ASSUME StudioInit PROVE StudioInv
  OBVIOUS
<1> USE StudioAssumption DEF StudioAssumption, StudioInit, Preset
<1>1. StudioTypeOK
  <2>1. calls \in Seq(StudioCall) /\ retrieved \in SUBSET Answer
    OBVIOUS
  <2>2. Preset \in Value /\ Absent \in Value /\ Preset # Absent
    BY DEF Value
  <2>3. studioOpen \in BOOLEAN /\ stale \in BOOLEAN /\ touched \in BOOLEAN /\ undone \in BOOLEAN
    OBVIOUS
  <2> QED BY <2>1, <2>2, <2>3 DEF StudioTypeOK
<1>2. CallsOfPage
  BY DEF CallsOfPage
<1>3. CopiesInv
  BY DEF CopiesInv, Awaited, Wanted, Kept, SecureAfterAll, SecureAt, ToSet
<1> QED BY <1>1, <1>2, <1>3 DEF StudioInv

(* The page opens with the copy of localStorage and asks for the other one. *)
LEMMA OpenStudioKeeps == ASSUME StudioInv, OpenStudio PROVE StudioInv'
<1> PICK v : v = IF local = Absent THEN Preset ELSE local
  OBVIOUS
<1> PICK n : n = Len(calls)
  OBVIOUS
<1> USE DEF StudioInv
<1>1. StudioTypeOK /\ CallsOfPage /\ ~studioOpen /\ studioOpen' /\ list' = v /\ local' = v
      /\ calls' = calls \o <<Retrieve, StoreCall(v)>> /\ touched' = FALSE
      /\ UNCHANGED <<secure, retrieved, download, wanted, stale, undone, version>>
  BY DEF OpenStudio, Render, counts
<1>2. v \in Value /\ v # Absent
  BY <1>1, StudioAssumption DEF StudioAssumption, StudioTypeOK, Value, Preset
<1>3. Retrieve \in StudioCall /\ StoreCall(v) \in StudioCall /\ StoreCall(v) # Retrieve
  BY <1>2 DEF StudioCall, StoreCall, Retrieve
<1>4. /\ calls' \in Seq(StudioCall) /\ Len(calls') = n + 2 /\ n \in Nat
      /\ \A i \in 1..n : calls'[i] = calls[i] /\ calls[i] # Retrieve
      /\ calls'[n + 1] = Retrieve /\ calls'[n + 2] = StoreCall(v)
      /\ DOMAIN calls' = 1..(n + 2) /\ retrieved = {}
  <2>1. calls \in Seq(StudioCall) /\ <<Retrieve, StoreCall(v)>> \in Seq(StudioCall)
    BY <1>1, <1>3 DEF StudioTypeOK
  <2>2. \A i \in 1..n : calls[i] # Retrieve
    BY <1>1, <2>1 DEF CallsOfPage
  <2>3. retrieved = {}
    BY <1>1 DEF CallsOfPage
  <2> QED BY <1>1, <2>1, <2>2, <2>3
<1>5. StudioTypeOK'
  BY <1>1, <1>2, <1>4 DEF StudioTypeOK
<1>6. CallsOfPage'
  BY <1>1, <1>3, <1>4 DEF CallsOfPage
<1>7. ASSUME ~undone PROVE CopiesInv'
  <2>1. CopiesInv
    BY <1>7
  <2>2. Awaited'
    BY <1>4 DEF Awaited, ToSet
  <2>3. Wanted(v)' \/ v = Preset
    BY <1>1, <2>1 DEF CopiesInv, Wanted
  <2>4. ~stale => Kept(SecureAt(n + 1))'
    <3>1. ~stale => Kept(SecureAt(n + 1))
      BY <1>1, <2>1 DEF CopiesInv, SecureAfterAll
    <3>2. SecureAt(n + 1)' = SecureAt(n + 1)
      BY <1>1, <1>4 DEF SecureAt
    <3> QED BY <1>1, <3>1, <3>2 DEF Kept, Wanted
  <2> QED BY <1>1, <1>3, <1>4, <2>2, <2>3, <2>4 DEF CopiesInv
<1> QED BY <1>1, <1>5, <1>6, <1>7

(* Appending a store moves no other call. *)
LEMMA StoreAppended ==
  ASSUME StudioInv, NEW v \in Value, calls' = Append(calls, StoreCall(v)),
         UNCHANGED <<secure>>
  PROVE  /\ calls' \in Seq(StudioCall) /\ Len(calls') = Len(calls) + 1
         /\ DOMAIN calls' = 1..(Len(calls) + 1)
         /\ \A i \in DOMAIN calls : calls'[i] = calls[i] /\ SecureAt(i)' = SecureAt(i)
         /\ calls'[Len(calls')] = StoreCall(v) /\ StoreCall(v) # Retrieve
         /\ Retrieve \in ToSet(calls') <=> Retrieve \in ToSet(calls)
<1>1. StoreCall(v) \in StudioCall /\ StoreCall(v) # Retrieve /\ calls \in Seq(StudioCall)
  BY DEF StudioCall, StoreCall, Retrieve, StudioInv, StudioTypeOK
<1>2. /\ calls' \in Seq(StudioCall) /\ Len(calls') = Len(calls) + 1
      /\ DOMAIN calls' = 1..(Len(calls) + 1)
      /\ \A i \in DOMAIN calls : calls'[i] = calls[i]
      /\ calls'[Len(calls')] = StoreCall(v)
  BY <1>1
<1>3. \A i \in DOMAIN calls : SecureAt(i)' = SecureAt(i)
  BY <1>1, <1>2 DEF SecureAt
<1>4. Retrieve \in ToSet(calls') <=> Retrieve \in ToSet(calls)
  BY <1>1, <1>2 DEF ToSet
<1> QED BY <1>1, <1>2, <1>3, <1>4

(* A change by the user is shown, written and stored last. *)
LEMMA ChangeKeeps ==
  ASSUME StudioInv, NEW v \in {version + 1, Emptied}, Change(v) PROVE StudioInv'
<1> USE DEF StudioInv
<1>1. StudioTypeOK /\ CallsOfPage /\ studioOpen /\ list' = v /\ local' = v /\ wanted' = v
      /\ calls' = Append(calls, StoreCall(v)) /\ version' = version + 1
      /\ touched' = (touched \/ Awaited)
      /\ UNCHANGED <<studioOpen, secure, retrieved, download, stale, undone>>
  BY DEF Change, RenderAndStore, Render
<1>2. v \in Value \ {Absent}
  BY <1>1, StudioAssumption DEF StudioAssumption, StudioTypeOK, Value
<1>3. /\ calls' \in Seq(StudioCall) /\ Len(calls') = Len(calls) + 1
      /\ DOMAIN calls' = 1..(Len(calls) + 1) /\ DOMAIN calls = 1..Len(calls) /\ Len(calls) \in Nat
      /\ \A i \in DOMAIN calls : calls'[i] = calls[i]
      /\ calls'[Len(calls')] = StoreCall(v) /\ StoreCall(v) # Retrieve
      /\ Awaited' <=> Awaited
  BY <1>1, <1>2, StoreAppended DEF Awaited, StudioTypeOK
<1>4. StudioTypeOK'
  BY <1>1, <1>2, <1>3 DEF StudioTypeOK
<1>5. CallsOfPage'
  BY <1>1, <1>3 DEF CallsOfPage
<1>6. ASSUME ~undone PROVE CopiesInv'
  <2>1. ~touched' => ~Awaited /\ retrieved = {} /\ \A i \in DOMAIN calls' : calls'[i] # Retrieve
    BY <1>1, <1>3 DEF Awaited, ToSet
  <2> QED BY <1>1, <1>2, <1>3, <2>1 DEF CopiesInv, Wanted
<1> QED BY <1>1, <1>4, <1>5, <1>6

(* The encrypted copy of a list that missed nothing is what is wanted. *)
LEMMA ArriveKeeps ==
  ASSUME StudioInv, NEW a \in retrieved, Arrive(a) PROVE StudioInv'
<1> USE DEF StudioInv
<1>1. StudioTypeOK /\ CallsOfPage /\ studioOpen /\ retrieved' = {} /\ a \in Answer
      /\ undone' = (undone \/ (list' # wanted /\ (touched \/ a.stale)))
      /\ UNCHANGED <<studioOpen, secure, download, wanted, stale, touched, version>>
      /\ \A i \in DOMAIN calls : calls[i] # Retrieve
  BY DEF Arrive, CallsOfPage, StudioTypeOK, counts
<1>2. Retrieve \notin ToSet(calls)
  BY <1>1 DEF ToSet
<1>3. CASE a.value \notin {Absent, Emptied}
  <2>1. a.value \in Value /\ list' = a.value /\ local' = a.value
        /\ calls' = Append(calls, StoreCall(a.value))
    BY <1>1, <1>3 DEF Arrive, RenderAndStore, Render, Answer
  <2>2. /\ calls' \in Seq(StudioCall) /\ Len(calls') = Len(calls) + 1
        /\ DOMAIN calls' = 1..(Len(calls) + 1) /\ DOMAIN calls = 1..Len(calls) /\ Len(calls) \in Nat
        /\ \A i \in DOMAIN calls : calls'[i] = calls[i]
        /\ calls'[Len(calls')] = StoreCall(a.value) /\ StoreCall(a.value) # Retrieve
        /\ Retrieve \notin ToSet(calls')
    BY <1>1, <1>2, <2>1, StoreAppended DEF StudioTypeOK
  <2>3. StudioTypeOK'
    BY <1>1, <2>1, <2>2 DEF StudioTypeOK
  <2>4. CallsOfPage' /\ \A i \in DOMAIN calls' : calls'[i] # Retrieve
    BY <1>1, <2>1, <2>2 DEF CallsOfPage
  <2>5. ASSUME ~undone' PROVE CopiesInv'
    <3>1. Wanted(list')
      BY <1>1, <1>3, <2>1, <2>5 DEF CopiesInv, Kept, Wanted
    <3> QED BY <1>1, <2>1, <2>4, <3>1 DEF CopiesInv, Wanted
  <2> QED BY <2>3, <2>4, <2>5
<1>4. CASE a.value \in {Absent, Emptied}
  <2>1. UNCHANGED <<list, local, calls>>
    BY <1>4 DEF Arrive
  <2>2. StudioTypeOK' /\ CallsOfPage'
    BY <1>1, <2>1 DEF StudioTypeOK, CallsOfPage
  <2>3. ASSUME ~undone' PROVE CopiesInv'
    <3>1. Awaited
      BY DEF Awaited
    <3>2. CASE touched \/ a.stale
      BY <1>1, <2>1, <2>3, <3>2 DEF CopiesInv, Wanted
    <3>3. CASE ~touched /\ ~a.stale
      <4>1. Kept(a.value) /\ (Wanted(list) \/ list = Preset)
        BY <1>1, <2>3, <3>1, <3>3 DEF CopiesInv
      <4>2. Wanted(list)
        BY <1>1, <1>4, <4>1, StudioAssumption
           DEF StudioAssumption, StudioTypeOK, Kept, Wanted, Preset
      <4> QED BY <1>1, <2>1, <2>3, <4>2 DEF CopiesInv, Wanted
    <3> QED BY <3>2, <3>3
  <2> QED BY <2>2, <2>3
<1> QED BY <1>3, <1>4

(* What is left of the calls when the first one has run. *)
LEMMA FirstGone ==
  ASSUME StudioInv, NEW c, Call(c)
  PROVE  /\ c \in StudioCall /\ c = calls[1] /\ calls # <<>>
         /\ calls' \in Seq(StudioCall) /\ Len(calls') = Len(calls) - 1 /\ Len(calls) \in Nat \ {0}
         /\ DOMAIN calls = 1..Len(calls) /\ DOMAIN calls' = 1..(Len(calls) - 1)
         /\ \A i \in DOMAIN calls' : calls'[i] = calls[i + 1] /\ i + 1 \in DOMAIN calls
         /\ IsStore(c) => (Retrieve \in ToSet(calls') <=> Retrieve \in ToSet(calls))
<1>1. calls \in Seq(StudioCall) /\ calls # <<>> /\ c = calls[1] /\ calls' = Tail(calls)
  BY DEF StudioInv, StudioTypeOK, Call
<1>2. /\ c \in StudioCall
      /\ calls' \in Seq(StudioCall) /\ Len(calls') = Len(calls) - 1 /\ Len(calls) \in Nat \ {0}
      /\ DOMAIN calls = 1..Len(calls) /\ DOMAIN calls' = 1..(Len(calls) - 1)
      /\ \A i \in DOMAIN calls' : calls'[i] = calls[i + 1] /\ i + 1 \in DOMAIN calls
  BY <1>1
<1>3. ASSUME IsStore(c)
      PROVE  Retrieve \in ToSet(calls') <=> Retrieve \in ToSet(calls)
  <2>1. c # Retrieve
    BY <1>3 DEF IsStore, Retrieve
  <2>2. \A i \in DOMAIN calls : i = 1 \/ (i - 1 \in DOMAIN calls' /\ calls'[i - 1] = calls[i])
    BY <1>2
  <2>3. (\E i \in DOMAIN calls : calls[i] = Retrieve)
          <=> \E i \in DOMAIN calls' : calls'[i] = Retrieve
    <3>1. ASSUME NEW i \in DOMAIN calls, calls[i] = Retrieve
          PROVE  \E j \in DOMAIN calls' : calls'[j] = Retrieve
      <4>1. i # 1
        BY <1>1, <2>1, <3>1
      <4> QED BY <2>2, <3>1, <4>1
    <3>2. ASSUME NEW j \in DOMAIN calls', calls'[j] = Retrieve
          PROVE  \E i \in DOMAIN calls : calls[i] = Retrieve
      BY <1>2, <3>2
    <3> QED BY <3>1, <3>2
  <2> QED BY <2>3 DEF ToSet
<1> QED BY <1>1, <1>2, <1>3

(* A store that runs makes the encrypted copy what it carries. *)
LEMMA StoreRunsKeeps ==
  ASSUME StudioInv, NEW c, StoreRuns(c) PROVE StudioInv'
<1> USE DEF StudioInv
<1>1. StudioTypeOK /\ CallsOfPage /\ Call(c) /\ IsStore(c) /\ secure' = c.value
      /\ stale' = (stale /\ \E d \in ToSet(calls) : IsStore(d) /\ d.value # wanted)
      /\ UNCHANGED <<studioOpen, list, local, retrieved, download, wanted, touched, undone, version>>
  BY DEF StoreRuns, counts
<1> DEFINE n == Len(calls)
<1>2. /\ c \in StudioCall /\ c = calls[1] /\ n \in Nat \ {0}
      /\ calls' \in Seq(StudioCall) /\ Len(calls') = n - 1
      /\ DOMAIN calls = 1..n /\ DOMAIN calls' = 1..(n - 1)
      /\ \A i \in DOMAIN calls' : calls'[i] = calls[i + 1] /\ i + 1 \in DOMAIN calls
      /\ Awaited' <=> Awaited
  BY <1>1, FirstGone DEF Awaited
<1>3. c.value \in Value
  BY <1>1, <1>2 DEF StudioCall, IsStore, Retrieve
<1>4. StudioTypeOK'
  BY <1>1, <1>2, <1>3 DEF StudioTypeOK
<1>5. ASSUME stale, ~stale', NEW i \in DOMAIN calls, calls[i] # Retrieve PROVE calls[i].value = wanted
  <2>1. calls[i] \in StudioCall /\ calls[i] \in ToSet(calls)
    BY <1>1, <1>5 DEF StudioTypeOK, ToSet
  <2>2. IsStore(calls[i])
    BY <1>5, <2>1 DEF StudioCall, IsStore
  <2> QED BY <1>1, <1>5, <2>1, <2>2
<1>6. CallsOfPage'
  <2>1. ASSUME NEW i \in DOMAIN calls', NEW j \in DOMAIN calls',
               calls'[i] = Retrieve, calls'[j] = Retrieve
        PROVE  i = j
    <3>1. i + 1 = j + 1
      BY <1>1, <1>2, <2>1 DEF CallsOfPage
    <3> QED BY <1>2, <3>1
  <2>2. ASSUME NEW i \in DOMAIN calls', calls'[i] = Retrieve PROVE retrieved' = {} /\ studioOpen'
    BY <1>1, <1>2, <2>2 DEF CallsOfPage
  <2>3. studioOpen' /\ calls' # <<>> => calls'[Len(calls')] = StoreCall(list')
    <3>1. calls' # <<>> => n - 1 \in DOMAIN calls'
      BY <1>2
    <3> QED BY <1>1, <1>2, <3>1 DEF CallsOfPage
  <2>4. studioOpen' /\ calls' = <<>> => secure' = list'
    <3>1. calls' = <<>> => n = 1
      BY <1>2
    <3> QED BY <1>1, <1>2, <3>1 DEF CallsOfPage, StoreCall
  <2> QED BY <1>1, <2>1, <2>2, <2>3, <2>4 DEF CallsOfPage
<1>7. ASSUME ~undone' PROVE CopiesInv'
  <2>1. CopiesInv
    BY <1>1, <1>7
  <2>2. ASSUME NEW i \in 1..n PROVE SecureAt(i)' = SecureAt(i + 1)
    BY <1>1, <1>2 DEF SecureAt
  <2>3. SecureAfterAll' = SecureAfterAll
    BY <1>2, <2>2 DEF SecureAfterAll
  <2>4. ASSUME ~studioOpen', ~stale' PROVE Kept(SecureAfterAll)'
    <3>1. CASE ~stale
      BY <1>1, <2>1, <2>3, <2>4, <3>1 DEF CopiesInv, Kept, Wanted
    <3>2. CASE stale
      <4>1. calls[n] # Retrieve
        BY <1>1, <1>2, <2>4 DEF CallsOfPage
      <4>2. SecureAfterAll = wanted
        BY <1>2, <1>5, <2>4, <3>2, <4>1 DEF SecureAfterAll, SecureAt
      <4> QED BY <1>1, <2>3, <4>2 DEF Kept, Wanted
    <3> QED BY <3>1, <3>2
  <2>5. ASSUME ~stale', ~touched', NEW i \in DOMAIN calls', calls'[i] = Retrieve
        PROVE  Kept(SecureAt(i))'
    <3>1. i + 1 \in DOMAIN calls /\ calls[i + 1] = Retrieve /\ SecureAt(i)' = SecureAt(i + 1)
      BY <1>2, <2>2, <2>5
    <3>2. CASE ~stale
      BY <1>1, <2>1, <2>5, <3>1, <3>2 DEF CopiesInv, Kept, Wanted
    <3>3. CASE stale
      <4>1. i \in DOMAIN calls /\ calls[i] # Retrieve
        BY <1>1, <1>2, <3>1 DEF CallsOfPage
      <4>2. SecureAt(i + 1) = wanted
        BY <1>2, <1>5, <2>5, <3>3, <4>1 DEF SecureAt
      <4> QED BY <1>1, <3>1, <4>2 DEF Kept, Wanted
    <3> QED BY <3>2, <3>3
  <2> QED BY <1>1, <1>2, <2>1, <2>4, <2>5 DEF CopiesInv, Wanted, Kept
<1> QED BY <1>4, <1>6, <1>7

(* The answer is what the encrypted copy is when the question is answered. *)
LEMMA RetrieveRunsKeeps ==
  ASSUME StudioInv, NEW c, RetrieveRuns(c) PROVE StudioInv'
<1> USE DEF StudioInv
<1>1. StudioTypeOK /\ CallsOfPage /\ Call(c) /\ c = Retrieve
      /\ retrieved' = {[value |-> secure, stale |-> stale]}
      /\ UNCHANGED <<studioOpen, list, local, secure, download, wanted, stale, touched, undone,
                     version>>
  BY DEF RetrieveRuns, counts, copies
<1> DEFINE n == Len(calls)
<1>2. /\ Retrieve = calls[1] /\ n \in Nat \ {0}
      /\ calls' \in Seq(StudioCall) /\ Len(calls') = n - 1
      /\ DOMAIN calls = 1..n /\ DOMAIN calls' = 1..(n - 1)
      /\ \A i \in DOMAIN calls' : calls'[i] = calls[i + 1] /\ i + 1 \in DOMAIN calls
  BY <1>1, FirstGone
<1>3. StudioTypeOK'
  BY <1>1, <1>2 DEF StudioTypeOK, Answer
<1>4. studioOpen /\ calls[n] = StoreCall(list) /\ n > 1
      /\ \A i \in DOMAIN calls' : calls'[i] # Retrieve
  BY <1>1, <1>2 DEF CallsOfPage, StoreCall, Retrieve
<1>5. CallsOfPage'
  BY <1>1, <1>2, <1>4 DEF CallsOfPage
<1>6. Awaited /\ Awaited'
  BY <1>1, <1>2 DEF Awaited, ToSet
<1>7. ASSUME ~undone PROVE CopiesInv'
  <2>1. ~stale /\ ~touched => Kept(secure)
    BY <1>2, <1>7 DEF CopiesInv, SecureAt
  <2>2. CopiesInv /\ retrieved' = {[value |-> secure, stale |-> stale]}
    BY <1>1, <1>7
  <2> QED BY <1>1, <1>4, <1>6, <2>1, <2>2 DEF CopiesInv, Wanted, Kept
<1> QED BY <1>1, <1>3, <1>5, <1>7

(* A store that failed leaves a copy that missed something. *)
LEMMA CallFailsKeeps ==
  ASSUME StudioInv, NEW c, CallFails(c) PROVE StudioInv'
<1> USE DEF StudioInv
<1>1. StudioTypeOK /\ CallsOfPage /\ Call(c)
      /\ stale' = (stale \/ IsStore(c))
      /\ undone' = (undone \/ (c = Retrieve /\ list # wanted))
      /\ UNCHANGED <<studioOpen, list, local, secure, retrieved, download, wanted, touched, version>>
  BY DEF CallFails, copies
<1> DEFINE n == Len(calls)
<1>2. /\ c \in StudioCall /\ c = calls[1] /\ n \in Nat \ {0}
      /\ calls' \in Seq(StudioCall) /\ Len(calls') = n - 1
      /\ DOMAIN calls = 1..n /\ DOMAIN calls' = 1..(n - 1)
      /\ \A i \in DOMAIN calls' : calls'[i] = calls[i + 1] /\ i + 1 \in DOMAIN calls
      /\ IsStore(c) => (Awaited' <=> Awaited)
  BY <1>1, FirstGone DEF Awaited
<1>3. StudioTypeOK'
  BY <1>1, <1>2 DEF StudioTypeOK
<1>4. IsStore(c) \/ c = Retrieve
  BY <1>2 DEF StudioCall, IsStore
<1>5. c = Retrieve => /\ studioOpen /\ n > 1 /\ retrieved = {}
                      /\ \A i \in DOMAIN calls' : calls'[i] # Retrieve
  <2> SUFFICES ASSUME c = Retrieve
               PROVE /\ studioOpen /\ n > 1 /\ retrieved = {}
                     /\ \A i \in DOMAIN calls' : calls'[i] # Retrieve
    OBVIOUS
  <2> QED BY <1>1, <1>2 DEF CallsOfPage, StoreCall, Retrieve
<1>6. CallsOfPage'
  <2>1. ASSUME NEW i \in DOMAIN calls', NEW j \in DOMAIN calls',
               calls'[i] = Retrieve, calls'[j] = Retrieve
        PROVE  i = j
    <3>1. i + 1 = j + 1
      BY <1>1, <1>2, <2>1 DEF CallsOfPage
    <3> QED BY <1>2, <3>1
  <2>2. ASSUME NEW i \in DOMAIN calls', calls'[i] = Retrieve PROVE retrieved' = {} /\ studioOpen'
    BY <1>1, <1>2, <2>2 DEF CallsOfPage
  <2>3. studioOpen' /\ calls' # <<>> => calls'[Len(calls')] = StoreCall(list')
    <3>1. calls' # <<>> => n - 1 \in DOMAIN calls'
      BY <1>2
    <3> QED BY <1>1, <1>2, <3>1 DEF CallsOfPage
  <2>4. studioOpen' /\ calls' = <<>> => stale'
    <3>1. calls' = <<>> => n = 1
      BY <1>2
    <3>2. n = 1 => IsStore(c)
      BY <1>4, <1>5
    <3>3. IsStore(c) => stale'
      BY <1>1, Zenon
    <3> QED BY <3>1, <3>2, <3>3
  <2> QED BY <1>1, <2>1, <2>2, <2>3, <2>4 DEF CallsOfPage
<1>7. ASSUME ~undone' PROVE CopiesInv'
  <2>1. CopiesInv
    BY <1>1, <1>7
  <2>2. CASE IsStore(c)
    BY <1>1, <1>2, <2>1, <2>2 DEF CopiesInv, Wanted, Kept
  <2>3. CASE c = Retrieve
    <3>1. list = wanted /\ ~Awaited'
      BY <1>1, <1>5, <1>7, <2>3 DEF Awaited, ToSet
    <3> QED BY <1>1, <1>5, <2>1, <2>3, <3>1 DEF CopiesInv, Wanted, Kept
  <2> QED BY <1>4, <2>2, <2>3
<1> QED BY <1>3, <1>6, <1>7

(* A page that is left takes its question out of the queue, and nothing else. *)
LEMMA QuestionWithdrawn ==
  ASSUME StudioInv, calls' = RemoveFirst(calls, Retrieve), UNCHANGED secure
  PROVE  /\ calls' \in Seq(StudioCall) /\ \A i \in DOMAIN calls' : calls'[i] # Retrieve
         /\ studioOpen /\ calls # <<>> => calls' # <<>> /\ SecureAfterAll' = list
         /\ calls = <<>> => calls' = <<>> /\ SecureAfterAll' = secure
<1> DEFINE n == Len(calls)
<1>1. calls \in Seq(StudioCall) /\ CallsOfPage /\ n \in Nat /\ DOMAIN calls = 1..n
  BY DEF StudioInv, StudioTypeOK
<1>2. CASE ~\E i \in 1..n : calls[i] = Retrieve
  <2>1. calls' = calls
    BY <1>2 DEF RemoveFirst
  <2> QED BY <1>1, <1>2, <2>1 DEF CallsOfPage, SecureAfterAll, SecureAt, StoreCall
<1>3. CASE \E i \in 1..n : calls[i] = Retrieve
  <2>1. PICK p \in 1..n : calls[p] = Retrieve
    BY <1>3
  <2>2. {i \in 1..n : calls[i] = Retrieve} = {p}
    BY <1>1, <2>1 DEF CallsOfPage
  <2>3. SelectInSeq(calls, LAMBDA v : v = Retrieve) = p
    BY <2>2 DEF SelectInSeq, Min
  <2>4. calls' = RemoveAt(calls, p)
    BY <1>3, <2>3 DEF RemoveFirst
  <2>5. /\ calls' \in Seq(StudioCall) /\ Len(calls') = n - 1 /\ DOMAIN calls' = 1..(n - 1)
        /\ \A i \in 1..(n - 1) : calls'[i] = IF i < p THEN calls[i] ELSE calls[i + 1]
    <3>1. /\ RemoveAt(calls, p) \in Seq(StudioCall) /\ Len(RemoveAt(calls, p)) = n - 1
          /\ DOMAIN RemoveAt(calls, p) = 1..(n - 1)
          /\ \A i \in 1..(n - 1) :
               RemoveAt(calls, p)[i] = IF i < p THEN calls[i] ELSE calls[i + 1]
      BY <1>1, <2>1, Removed
    <3> QED BY ONLY <2>4, <3>1, Zenon
  <2>6. ASSUME NEW i \in DOMAIN calls' PROVE calls'[i] # Retrieve
    <3>1. \A j \in 1..n : calls[j] = Retrieve => j = p
      BY <1>1, <2>1 DEF CallsOfPage
    <3>2. i \in Nat /\ i <= n - 1 /\ i >= 1
      BY <1>1, <2>5
    <3>3. CASE i < p
      BY <1>1, <2>5, <3>1, <3>2, <3>3
    <3>4. CASE ~(i < p)
      <4>1. i + 1 \in 1..n /\ i + 1 # p /\ calls'[i] = calls[i + 1]
        BY <1>1, <2>1, <2>5, <3>2, <3>4
      <4> QED BY <3>1, <4>1
    <3> QED BY <3>3, <3>4
  <2>7. studioOpen /\ calls # <<>> /\ calls[n] = StoreCall(list) /\ p < n
    BY <1>1, <2>1 DEF CallsOfPage, StoreCall, Retrieve
  <2>8. SecureAfterAll' = list
    BY <1>1, <2>1, <2>5, <2>7 DEF SecureAfterAll, SecureAt, StoreCall
  <2> QED BY <1>1, <2>1, <2>5, <2>6, <2>7, <2>8
<1> QED BY <1>2, <1>3

(* What is left when the page is: the copies and the stores under way. *)
LEMMA ForgetStudioKeeps ==
  ASSUME StudioInv, studioOpen, ForgetStudio,
         UNCHANGED <<local, secure, download, wanted, version>>,
         calls' \in Seq(StudioCall), \A i \in DOMAIN calls' : calls'[i] # Retrieve,
         stale' \in BOOLEAN, ~stale' => ~stale /\ SecureAfterAll' = list
  PROVE  StudioInv'
<1> USE DEF StudioInv
<1>1. StudioTypeOK /\ CallsOfPage /\ ~studioOpen' /\ list' = Absent /\ ~touched' /\ retrieved' = {}
      /\ undone' = (undone \/ (studioOpen /\ Awaited /\ list # wanted))
      /\ studioOpen' \in BOOLEAN /\ touched' \in BOOLEAN /\ undone' \in BOOLEAN
  BY DEF ForgetStudio
<1>2. StudioTypeOK'
  BY <1>1 DEF StudioTypeOK, Value
<1>3. CallsOfPage'
  BY <1>1 DEF CallsOfPage
<1>4. ASSUME ~undone' PROVE CopiesInv'
  <2>1. CopiesInv /\ Wanted(list)
    BY <1>1, <1>4 DEF CopiesInv, Wanted
  <2> QED BY <1>1, <2>1 DEF CopiesInv, Wanted, Kept
<1> QED BY <1>2, <1>3, <1>4

(* Another page. *)
LEMMA LeaveStudioKeeps ==
  ASSUME StudioInv, LeaveStudio PROVE StudioInv'
<1>1. studioOpen /\ ForgetStudio /\ calls' = RemoveFirst(calls, Retrieve)
      /\ UNCHANGED <<local, secure, download, wanted, stale, version>>
  BY DEF LeaveStudio, copies, counts
<1>2. ~stale => SecureAfterAll' = list
  BY <1>1, QuestionWithdrawn DEF StudioInv, CallsOfPage
<1>3. stale' \in BOOLEAN
  BY <1>1 DEF StudioInv, StudioTypeOK
<1> QED BY <1>1, <1>2, <1>3, QuestionWithdrawn, ForgetStudioKeeps

(* The end of the program drops the calls that did not run. *)
LEMMA QuitStudioKeeps ==
  ASSUME StudioInv, QuitStudio PROVE StudioInv'
<1> DEFINE lost == \E c \in ToSet(calls) : IsStore(c)
<1>1. (studioOpen \/ calls # <<>>) /\ ForgetStudio /\ calls' = <<>>
      /\ stale' = (stale \/ lost) /\ UNCHANGED <<local, secure, download, wanted, version>>
  BY DEF QuitStudio, copies, counts
<1>2. calls' \in Seq(StudioCall) /\ (\A i \in DOMAIN calls' : calls'[i] # Retrieve)
      /\ SecureAfterAll' = secure
  BY <1>1 DEF SecureAfterAll, SecureAt
<1>3. stale' \in BOOLEAN
  BY <1>1 DEF StudioInv, StudioTypeOK
<1>4. calls \in Seq(StudioCall) /\ CallsOfPage
  BY DEF StudioInv, StudioTypeOK
<1>5. CASE calls = <<>>
  <2>1. ~stale' => ~stale /\ SecureAfterAll' = list
    BY <1>1, <1>2, <1>4, <1>5 DEF CallsOfPage
  <2> QED BY <1>1, <1>2, <1>3, <1>5, <2>1, ForgetStudioKeeps
<1>6. CASE calls # <<>>
  <2>1. PICK c \in ToSet(calls) : IsStore(c)
    <3>1. Len(calls) \in DOMAIN calls /\ calls[Len(calls)] \in ToSet(calls)
          /\ calls[Len(calls)] \in StudioCall
      BY <1>4, <1>6 DEF ToSet
    <3>2. calls[Len(calls)] # Retrieve
      BY <1>4, <1>6, <3>1 DEF CallsOfPage, StoreCall, Retrieve
    <3> QED BY <3>1, <3>2 DEF StudioCall, IsStore
  <2>2. stale'
    BY <1>1, <2>1
  <2>3. CASE studioOpen
    BY <1>1, <1>2, <1>3, <2>2, <2>3, ForgetStudioKeeps
  <2>4. CASE ~studioOpen
    <3>1. /\ ~studioOpen' /\ list' = Absent /\ ~touched' /\ retrieved' = {} /\ undone' = undone
          /\ studioOpen' \in BOOLEAN /\ touched' \in BOOLEAN /\ undone' \in BOOLEAN
      BY <1>1, <2>4 DEF ForgetStudio, StudioInv, StudioTypeOK
    <3>2. StudioTypeOK'
      BY <1>1, <1>2, <1>3, <3>1 DEF StudioInv, StudioTypeOK, Value
    <3>3. CallsOfPage'
      BY <1>1, <3>1 DEF CallsOfPage
    <3>4. ~undone' => CopiesInv'
      BY <1>1, <2>2, <2>4, <3>1 DEF StudioInv, CopiesInv, Wanted
    <3> QED BY <3>2, <3>3, <3>4 DEF StudioInv
  <2> QED BY <2>3, <2>4
<1> QED BY <1>5, <1>6

(* With the page closed. *)
LEMMA BackupKeeps ==
  ASSUME StudioInv, DownloadBackup \/ RestoreBackup \/ LocalCopyLost PROVE StudioInv'
<1> USE DEF StudioInv
<1>1. /\ ~studioOpen /\ UNCHANGED <<studioOpen, list, secure, calls, retrieved, touched, undone,
                                    version>>
      /\ \/ download' = local /\ UNCHANGED <<local, wanted, stale>>
         \/ download # Absent /\ local' = download /\ wanted' = download /\ stale' = TRUE
            /\ UNCHANGED download
         \/ local' = Absent /\ UNCHANGED <<download, wanted, stale>>
  BY DEF DownloadBackup, RestoreBackup, LocalCopyLost, copies, counts
<1>2. StudioTypeOK'
  BY <1>1 DEF StudioTypeOK, Value
<1>3. CallsOfPage'
  BY <1>1 DEF CallsOfPage
<1>4. Awaited' <=> Awaited
  BY <1>1 DEF Awaited
<1>5. ~Awaited
  BY <1>1 DEF CallsOfPage, Awaited, ToSet
<1>6. ASSUME ~undone PROVE CopiesInv'
  <2>1. CopiesInv /\ SecureAfterAll' = SecureAfterAll /\ retrieved = {}
        /\ \A i \in DOMAIN calls : calls[i] # Retrieve
    BY <1>1, <1>6 DEF SecureAfterAll, SecureAt, CallsOfPage
  <2> QED BY <1>1, <2>1 DEF CopiesInv, Wanted, Kept
<1> QED BY <1>1, <1>2, <1>3, <1>6

(* Every step of the page and of its copies keeps the invariant. *)
LEMMA StudioStep == StudioInv /\ [StudioNext]_studioVars => StudioInv'
<1> SUFFICES ASSUME StudioInv, [StudioNext]_studioVars PROVE StudioInv'
  OBVIOUS
<1>1. CASE StudioNext
  BY <1>1, OpenStudioKeeps, LeaveStudioKeeps, QuitStudioKeeps, ArriveKeeps, ChangeKeeps,
     StoreRunsKeeps, RetrieveRunsKeeps, CallFailsKeeps, BackupKeeps DEF StudioNext
<1>2. CASE UNCHANGED studioVars
  BY <1>2 DEF studioVars, copies, counts, StudioInv, StudioTypeOK, CallsOfPage, CopiesInv,
              Awaited, Wanted, Kept, SecureAfterAll, SecureAt
<1> QED BY <1>1, <1>2

(* The lists of the API studio: what is shown, written, stored and asked for
   is what the user made last, whatever call fails, is lost or comes late. *)
THEOREM StudioInvariance == StudioSpec => []StudioInv
<1>1. StudioInit => StudioInv
  BY StudioStart
<1>2. StudioInv /\ [StudioNext]_studioVars => StudioInv'
  BY StudioStep
<1> QED BY <1>1, <1>2, PTL DEF StudioSpec

(* The page that has its encrypted copy shows the user's last change
   (useSecureStorage.ts), through any visits and any number of calls under way,
   unless the change was undone in one of the ways EditsSurvive names. *)
THEOREM StudioEditsSurvive == StudioSpec => []EditsSurvive
<1>1. StudioInv => EditsSurvive
  BY DEF StudioInv, CopiesInv, EditsSurvive, Wanted
<1> QED BY <1>1, StudioInvariance, PTL

-----------------------------------------------------------------------------
(* The vault of the password generator. *)
VaultList == SUBSET Entries
Saving == [items : VaultList, closes : BOOLEAN, heard : BOOLEAN]
Import == [base : VaultList, file : VaultList, heard : BOOLEAN]

PasswordTypeOK ==
  /\ pageOpen \in BOOLEAN /\ isSaveModalOpen \in BOOLEAN /\ crossed \in BOOLEAN
  /\ vaultItems \in VaultList /\ stored \in VaultList /\ kept \in VaultList /\ backup \in VaultList
  /\ loading \in SUBSET VaultList /\ saving \in Seq(Saving) /\ importing \in SUBSET Import

(* What the storage has when every store under way has ended in its order. *)
StoredAfterAll == IF saving = <<>> THEN stored ELSE saving[Len(saving)].items

(* Until two of them crossed: the list of the last store, and the one the
   page shows or is about to, is the one the user made. *)
ListsAgree ==
  /\ StoredAfterAll = kept
  /\ pageOpen /\ loading = {} => vaultItems = kept
  /\ \A items \in loading : items = kept

PasswordInv ==
  /\ PasswordTypeOK
  /\ isSaveModalOpen => pageOpen
  /\ loading # {} => pageOpen
  /\ ~crossed => ListsAgree

(* A first launch: nothing stored, nothing under way. *)
LEMMA PasswordStart == PasswordInit => PasswordInv
<1> SUFFICES ASSUME PasswordInit PROVE PasswordInv
  OBVIOUS
<1>1. saving \in Seq(Saving) /\ loading \in SUBSET VaultList /\ importing \in SUBSET Import
      /\ {} \in VaultList
  BY DEF PasswordInit, VaultList
<1>2. PasswordTypeOK
  BY <1>1 DEF PasswordInit, PasswordTypeOK
<1> QED BY <1>2 DEF PasswordInit, PasswordInv, ListsAgree, StoredAfterAll

(* A change of the list, with the store of what it became. *)
LEMMA ListStored ==
  ASSUME PasswordInv, NEW items \in VaultList, NEW closes \in BOOLEAN, NEW heard \in BOOLEAN,
         saving' = Append(saving, [items |-> items, closes |-> closes, heard |-> heard]),
         kept' \in VaultList, vaultItems' \in VaultList, crossed' \in BOOLEAN,
         importing' \in SUBSET Import,
         UNCHANGED <<pageOpen, isSaveModalOpen, stored, loading, backup>>,
         ~crossed' => /\ items = kept' /\ (pageOpen /\ loading = {} => vaultItems' = items)
                      /\ loading = {}
  PROVE  PasswordInv'
<1>1. saving \in Seq(Saving)
  BY DEF PasswordInv, PasswordTypeOK
<1>2. [items |-> items, closes |-> closes, heard |-> heard] \in Saving
  BY DEF Saving
<1>3. /\ saving' \in Seq(Saving) /\ saving' # <<>>
      /\ saving'[Len(saving')] = [items |-> items, closes |-> closes, heard |-> heard]
  BY <1>1, <1>2
<1>4. StoredAfterAll' = items
  BY <1>3 DEF StoredAfterAll
<1>5. PasswordTypeOK'
  BY <1>3 DEF PasswordInv, PasswordTypeOK
<1> QED BY <1>4, <1>5 DEF PasswordInv, ListsAgree

(* A password is added to the list the page shows. *)
LEMMA SaveToVaultKeeps ==
  ASSUME PasswordInv, NEW e \in Entries, SaveToVault(e) PROVE PasswordInv'
<1>1. PasswordTypeOK /\ pageOpen
  BY DEF SaveToVault, PasswordInv
<1>2. /\ vaultItems' = vaultItems \cup {e} /\ kept' = kept \cup {e}
      /\ saving' = Append(saving, [items |-> vaultItems', closes |-> TRUE, heard |-> TRUE])
      /\ crossed' = (crossed \/ loading # {})
      /\ UNCHANGED <<pageOpen, isSaveModalOpen, stored, loading, importing, backup>>
  BY DEF SaveToVault, Store, Crosses
<1>3. vaultItems' \in VaultList /\ kept' \in VaultList /\ importing' \in SUBSET Import
      /\ crossed' \in BOOLEAN
  BY <1>1, <1>2 DEF PasswordTypeOK, VaultList
<1>4. ~crossed' => loading = {} /\ vaultItems' = kept'
  BY <1>1, <1>2 DEF PasswordInv, ListsAgree
<1>5. TRUE \in BOOLEAN
  OBVIOUS
<1> QED BY <1>2, <1>3, <1>4, <1>5, ListStored

(* An entry is taken out of the list the page shows. *)
LEMMA DeleteVaultItemKeeps ==
  ASSUME PasswordInv, NEW e \in Entries, DeleteVaultItem(e) PROVE PasswordInv'
<1>1. PasswordTypeOK /\ pageOpen
  BY DEF DeleteVaultItem, PasswordInv
<1>2. /\ vaultItems' = vaultItems \ {e} /\ kept' = kept \ {e}
      /\ saving' = Append(saving, [items |-> vaultItems', closes |-> FALSE, heard |-> TRUE])
      /\ crossed' = (crossed \/ loading # {})
      /\ UNCHANGED <<pageOpen, isSaveModalOpen, stored, loading, importing, backup>>
  BY DEF DeleteVaultItem, Store, Crosses
<1>3. vaultItems' \in VaultList /\ kept' \in VaultList /\ importing' \in SUBSET Import
      /\ crossed' \in BOOLEAN
  BY <1>1, <1>2 DEF PasswordTypeOK, VaultList
<1>4. ~crossed' => loading = {} /\ vaultItems' = kept'
  BY <1>1, <1>2 DEF PasswordInv, ListsAgree
<1>5. TRUE \in BOOLEAN /\ FALSE \in BOOLEAN
  OBVIOUS
<1> QED BY <1>2, <1>3, <1>4, <1>5, ListStored

(* The backup is merged with a list that is still the user's, or they crossed. *)
LEMMA BackupReadKeeps ==
  ASSUME PasswordInv, NEW r \in importing, BackupRead(r) PROVE PasswordInv'
<1>1. PasswordTypeOK /\ r \in Import
  BY DEF PasswordInv, PasswordTypeOK
<1> DEFINE items == r.file \cup r.base
<1>2. /\ vaultItems' = (IF r.heard THEN items ELSE vaultItems) /\ kept' = kept \cup r.file
      /\ saving' = Append(saving, [items |-> items, closes |-> FALSE, heard |-> r.heard])
      /\ crossed' = (crossed \/ (r.base # kept \/ (pageOpen /\ (loading # {} \/ ~r.heard))))
      /\ importing' = {} /\ UNCHANGED <<pageOpen, isSaveModalOpen, stored, loading, backup>>
  BY DEF BackupRead, ImportInto, Crosses
<1>3. /\ vaultItems' \in VaultList /\ kept' \in VaultList /\ importing' \in SUBSET Import
      /\ crossed' \in BOOLEAN /\ items \in VaultList /\ r.heard \in BOOLEAN
  BY <1>1, <1>2 DEF PasswordTypeOK, VaultList, Import
<1>4. ~crossed' => items = kept' /\ loading = {} /\ (pageOpen => vaultItems' = items)
  BY <1>1, <1>2 DEF PasswordInv
<1>5. FALSE \in BOOLEAN
  OBVIOUS
<1> QED BY <1>2, <1>3, <1>4, <1>5, ListStored

(* Steps after which all stores leave what they left before. *)
LEMMA PageChanges ==
  ASSUME PasswordInv, PasswordTypeOK', (isSaveModalOpen \/ loading # {} => pageOpen)',
         ~crossed' => /\ ~crossed /\ StoredAfterAll' = StoredAfterAll /\ kept' = kept
                      /\ (pageOpen /\ loading = {} => vaultItems = kept)'
                      /\ \A items \in loading' : items = kept
  PROVE  PasswordInv'
BY DEF PasswordInv, ListsAgree

(* The page asks for the list that the stores under way will leave. *)
LEMMA OpenGeneratorKeeps ==
  ASSUME PasswordInv, OpenGenerator PROVE PasswordInv'
<1>1. PasswordTypeOK
  BY DEF PasswordInv
<1>2. /\ pageOpen' = TRUE /\ vaultItems' = {} /\ isSaveModalOpen' = FALSE /\ loading' = {stored}
      /\ crossed' = (crossed \/ saving # <<>>)
      /\ UNCHANGED <<stored, saving, importing, backup, kept>>
  BY DEF OpenGenerator, Crosses
<1>3. PasswordTypeOK'
  BY <1>1, <1>2 DEF PasswordTypeOK, VaultList
<1>4. ~crossed' => ~crossed /\ stored = kept /\ StoredAfterAll' = StoredAfterAll
  BY <1>1, <1>2 DEF PasswordInv, ListsAgree, StoredAfterAll
<1> QED BY <1>2, <1>3, <1>4, PageChanges

(* The list arrives, or is lost with the page. *)
LEMMA LoadKeeps ==
  ASSUME PasswordInv, LoadFails \/ \E items \in loading : Loaded(items) PROVE PasswordInv'
<1>1. PasswordTypeOK
  BY DEF PasswordInv
<1>2. CASE LoadFails
  <2>1. /\ loading' = {} /\ vaultItems' = {} /\ crossed' = TRUE
        /\ UNCHANGED <<pageOpen, isSaveModalOpen, stored, saving, importing, backup, kept>>
    BY <1>2 DEF LoadFails, Crosses
  <2>2. PasswordTypeOK'
    BY <1>1, <2>1 DEF PasswordTypeOK, VaultList
  <2> QED BY <2>1, <2>2 DEF PasswordInv
<1>3. ASSUME NEW items \in loading, Loaded(items) PROVE PasswordInv'
  <2>1. /\ loading' = {} /\ vaultItems' = items /\ items \in VaultList
        /\ UNCHANGED <<pageOpen, isSaveModalOpen, stored, saving, importing, backup, kept, crossed>>
    BY <1>1, <1>3 DEF Loaded, PasswordTypeOK
  <2>2. PasswordTypeOK'
    BY <1>1, <2>1 DEF PasswordTypeOK, VaultList
  <2>3. StoredAfterAll' = StoredAfterAll
    BY <2>1 DEF StoredAfterAll
  <2> QED BY <2>1, <2>2, <2>3, PageChanges DEF PasswordInv, ListsAgree
<1> QED BY <1>2, <1>3

(* What changes the page only. *)
LEMMA PageKeeps ==
  ASSUME PasswordInv,
         ExportVault \/ ChooseBackup \/ (\E open \in BOOLEAN : SaveModal(open))
           \/ UNCHANGED passwordVars
  PROVE  PasswordInv'
<1>1. PasswordTypeOK
  BY DEF PasswordInv
<1>2. /\ UNCHANGED <<pageOpen, vaultItems, stored, loading, saving, kept, crossed>>
      /\ isSaveModalOpen' => pageOpen
      /\ isSaveModalOpen' \in BOOLEAN /\ backup' \in VaultList /\ importing' \in SUBSET Import
  <2>1. CASE ExportVault
    BY <1>1, <2>1 DEF ExportVault, pageState, PasswordInv, PasswordTypeOK
  <2>2. CASE ChooseBackup
    <3>1. [base |-> vaultItems, file |-> backup, heard |-> TRUE] \in Import
      BY <1>1 DEF PasswordTypeOK, Import
    <3> QED BY <1>1, <2>2, <3>1 DEF ChooseBackup, pageState, PasswordInv, PasswordTypeOK
  <2>3. ASSUME NEW open \in BOOLEAN, SaveModal(open)
        PROVE  /\ UNCHANGED <<pageOpen, vaultItems, stored, loading, saving, kept, crossed>>
               /\ isSaveModalOpen' => pageOpen
               /\ isSaveModalOpen' \in BOOLEAN /\ backup' \in VaultList
               /\ importing' \in SUBSET Import
    BY <1>1, <2>3 DEF SaveModal, PasswordTypeOK
  <2>4. CASE UNCHANGED passwordVars
    BY <1>1, <2>4 DEF passwordVars, pageState, PasswordInv, PasswordTypeOK
  <2> QED BY <2>1, <2>2, <2>3, <2>4
<1>3. PasswordTypeOK'
  BY <1>1, <1>2 DEF PasswordTypeOK
<1>4. StoredAfterAll' = StoredAfterAll
  BY <1>2 DEF StoredAfterAll
<1> QED BY <1>2, <1>3, <1>4, PageChanges DEF PasswordInv, ListsAgree

(* The store that ends is the oldest one, or they crossed. *)
LEMMA SaveEndsKeeps ==
  ASSUME PasswordInv, NEW i \in DOMAIN saving, SaveEnds(i) \/ SaveThrows(i) PROVE PasswordInv'
<1> DEFINE n == Len(saving)
<1>1. PasswordTypeOK /\ saving \in Seq(Saving) /\ i \in 1..n /\ n \in Nat /\ saving[i] \in Saving
  BY DEF PasswordInv, PasswordTypeOK
<1>2. /\ saving' = RemoveAt(saving, i)
      /\ UNCHANGED <<pageOpen, vaultItems, loading, importing, backup, kept>>
      /\ crossed' \in BOOLEAN /\ isSaveModalOpen' \in BOOLEAN /\ (isSaveModalOpen' => isSaveModalOpen)
      /\ stored' \in {stored, saving[i].items}
      /\ ~crossed' => ~crossed /\ i = 1 /\ stored' = saving[i].items
  <2>1. CASE SaveEnds(i)
    <3>1. /\ isSaveModalOpen' = (isSaveModalOpen /\ ~(saving[i].closes /\ saving[i].heard))
          /\ crossed' = (crossed \/ i > 1)
      BY <2>1 DEF SaveEnds, Crosses
    <3>2. crossed' \in BOOLEAN /\ isSaveModalOpen' \in BOOLEAN
          /\ (isSaveModalOpen' => isSaveModalOpen) /\ (~crossed' => ~crossed /\ ~(i > 1))
      BY <3>1
    <3> QED BY <1>1, <2>1, <3>2 DEF SaveEnds
  <2>2. CASE SaveThrows(i)
    BY <1>1, <2>2 DEF SaveThrows, Crosses, pageState, PasswordTypeOK
  <2> QED BY <2>1, <2>2
<1>3. /\ saving' \in Seq(Saving) /\ Len(saving') = n - 1
      /\ \A j \in 1..(n - 1) : saving'[j] = IF j < i THEN saving[j] ELSE saving[j + 1]
  <2>1. /\ RemoveAt(saving, i) \in Seq(Saving) /\ Len(RemoveAt(saving, i)) = n - 1
        /\ \A j \in 1..(n - 1) :
             RemoveAt(saving, i)[j] = IF j < i THEN saving[j] ELSE saving[j + 1]
    BY <1>1, Removed
  <2> QED BY ONLY <1>2, <2>1, Zenon
<1>4. PasswordTypeOK'
  BY <1>1, <1>2, <1>3 DEF PasswordTypeOK, Saving
<1>5. ASSUME ~crossed' PROVE StoredAfterAll' = StoredAfterAll
  <2>1. i = 1 /\ stored' = saving[1].items
    BY <1>2, <1>5
  <2>2. CASE n = 1
    <3>1. saving' = <<>> /\ saving # <<>>
      BY <1>1, <1>3, <2>2
    <3> QED BY <2>1, <2>2, <3>1 DEF StoredAfterAll
  <2>3. CASE n # 1
    <3>1. saving' # <<>> /\ saving # <<>> /\ n - 1 \in 1..(n - 1) /\ ~(n - 1 < 1) /\ (n - 1) + 1 = n
      BY <1>1, <1>3, <2>3
    <3>2. saving'[n - 1] = saving[n]
      BY <1>3, <2>1, <3>1
    <3> QED BY <1>3, <3>1, <3>2 DEF StoredAfterAll
  <2> QED BY <2>2, <2>3
<1> QED BY <1>2, <1>4, <1>5, PageChanges DEF PasswordInv, ListsAgree

(* The page is left: what is stored goes on; the program ends: it does not. *)
LEMMA LeaveGeneratorKeeps ==
  ASSUME PasswordInv, LeaveGenerator \/ QuitGenerator PROVE PasswordInv'
<1>1. PasswordTypeOK /\ saving \in Seq(Saving)
  BY DEF PasswordInv, PasswordTypeOK
<1>2. ForgetGenerator
  BY DEF LeaveGenerator, QuitGenerator
<1>3. CASE LeaveGenerator
  <2>1. ASSUME NEW i \in DOMAIN saving
        PROVE  /\ [saving[i] EXCEPT !.heard = FALSE] \in Saving
               /\ [saving[i] EXCEPT !.heard = FALSE].items = saving[i].items
    <3>1. saving[i] \in Saving
      BY <1>1, <2>1
    <3> QED BY <3>1 DEF Saving
  <2>2. /\ saving' \in Seq(Saving) /\ Len(saving') = Len(saving) /\ DOMAIN saving' = DOMAIN saving
        /\ \A i \in DOMAIN saving : saving'[i].items = saving[i].items
    <3>1. saving' = [i \in DOMAIN saving |-> [saving[i] EXCEPT !.heard = FALSE]]
      BY <1>3 DEF LeaveGenerator
    <3>2. DOMAIN saving = 1..Len(saving) /\ Len(saving) \in Nat
      BY <1>1
    <3>3. DOMAIN saving' = 1..Len(saving) /\ \A i \in DOMAIN saving' : saving'[i] \in Saving
      BY <2>1, <3>1, <3>2
    <3>4. saving' \in Seq(Saving) /\ Len(saving') = Len(saving)
      BY <3>1, <3>2, <3>3
    <3> QED BY <2>1, <3>1, <3>2, <3>4
  <2>3. importing' \in SUBSET Import
    <3>1. \A r \in importing : [r EXCEPT !.heard = FALSE] \in Import
      BY <1>1 DEF PasswordTypeOK, Import
    <3> QED BY <1>3, <3>1 DEF LeaveGenerator
  <2>4. PasswordTypeOK'
    BY <1>1, <1>2, <1>3, <2>2, <2>3 DEF ForgetGenerator, LeaveGenerator, PasswordTypeOK, VaultList
  <2>5. StoredAfterAll' = StoredAfterAll
    <3>1. saving' = <<>> <=> saving = <<>>
      BY <1>1, <2>2
    <3>2. saving # <<>> => Len(saving) \in DOMAIN saving
      BY <1>1
    <3> QED BY <1>2, <2>2, <3>1, <3>2 DEF StoredAfterAll, ForgetGenerator
  <2> QED BY <1>2, <1>3, <2>4, <2>5, PageChanges DEF ForgetGenerator, LeaveGenerator
<1>4. CASE QuitGenerator
  <2>1. saving' = <<>> /\ importing' = {} /\ crossed' = (crossed \/ saving # <<>>)
    BY <1>4 DEF QuitGenerator, Crosses
  <2>b. crossed' \in BOOLEAN /\ saving' \in Seq(Saving) /\ importing' \in SUBSET Import
    BY <2>1
  <2>2. PasswordTypeOK'
    BY <1>1, <1>2, <2>b DEF ForgetGenerator, PasswordTypeOK, VaultList
  <2>3. ~crossed' => ~crossed /\ StoredAfterAll' = StoredAfterAll
    BY <1>1, <1>2, <2>1 DEF StoredAfterAll, ForgetGenerator, PasswordTypeOK
  <2> QED BY <1>2, <2>2, <2>3, PageChanges DEF ForgetGenerator
<1> QED BY <1>3, <1>4

(* Every step of the page and of its storage keeps the invariant. *)
LEMMA PasswordStep == PasswordInv /\ [PasswordNext]_passwordVars => PasswordInv'
BY OpenGeneratorKeeps, LoadKeeps, PageKeeps, LeaveGeneratorKeeps, SaveToVaultKeeps,
   DeleteVaultItemKeeps, BackupReadKeeps, SaveEndsKeeps DEF PasswordNext

(* The vault of the password generator: until two calls crossed, the last
   store under way carries the list the user made, and so does the page. *)
THEOREM PasswordInvariance == PasswordSpec => []PasswordInv
<1>1. PasswordInit => PasswordInv
  BY PasswordStart
<1>2. PasswordInv /\ [PasswordNext]_passwordVars => PasswordInv'
  BY PasswordStep
<1> QED BY <1>1, <1>2, PTL DEF PasswordSpec

(* Once no store is under way, storage and page have just the passwords the
   user saved or restored and did not delete (PasswordGenerator.tsx), for any
   number of stores that overlapped, unless two calls crossed. *)
THEOREM VaultEntriesKept == PasswordSpec => []VaultKeepsEntries
<1>1. PasswordInv => VaultKeepsEntries
  BY DEF PasswordInv, ListsAgree, StoredAfterAll, VaultKeepsEntries
<1> QED BY <1>1, PasswordInvariance, PTL

-----------------------------------------------------------------------------
(* The runs of workflow chains. *)
Kind == {"status 200", "other status", "value"}
Output == [by : ChainId, kind : Kind]
StepResult == [stepId : ChainId, status : {"success", "failed", "skipped"},
               input : Output \cup {Null}, output : Output \cup {Null}]
Run == [at : {"loop", "await"}, chain : WorkflowChain, results : Seq(StepResult),
        lastOutput : Output \cup {Null}, outcome : {Null, "failed"}]

ChainsTypeOK ==
  /\ storedChains \in {Null} \cup Seq(WorkflowChain)
  /\ chains \in Seq(WorkflowChain) /\ chains # <<>>
  /\ run \in {Null} \cup Run

(* The results so far follow the steps of the chain that was started. *)
Follow(results, steps, lastOutput, outcome) ==
  LET n == Len(results)
  IN  /\ n <= Len(steps)
      /\ \A i \in 1..n :
           /\ results[i].stepId = steps[i].id
           /\ results[i].status = "skipped" <=> ~steps[i].enabled
           /\ results[i].status = "failed" => i = n
           /\ results[i].input = OutputBefore(results, steps, i)
      /\ lastOutput = OutputBefore(results, steps, n + 1)
      /\ outcome = "failed" <=> n > 0 /\ results[n].status = "failed"

SoFar(r) == Follow(r.results, r.chain.steps, r.lastOutput, r.outcome)

ChainsInv ==
  /\ ChainsTypeOK
  /\ run # Null => SoFar(run)
  /\ ReportsFollowTheChain

-----------------------------------------------------------------------------
(* The list that is read is a list of chains, and is not empty. *)
LEMMA ListRead ==
  ASSUME NEW s \in {Null} \cup Seq(WorkflowChain)
  PROVE  GetChains(s) \in Seq(WorkflowChain) /\ GetChains(s) # <<>>
BY ChainsAssumption DEF ChainsAssumption, GetChains

(* A chain that is saved into the list leaves a list of chains. *)
LEMMA ListWritten ==
  ASSUME NEW s \in {Null} \cup Seq(WorkflowChain), NEW c \in WorkflowChain
  PROVE  WithChain(s, c) \in Seq(WorkflowChain)
<1> DEFINE l == GetChains(s)
           at == {i \in DOMAIN l : l[i].id = c.id}
<1>1. l \in Seq(WorkflowChain)
  BY ListRead
<1> HIDE DEF l
<1>2. <<c>> \o l \in Seq(WorkflowChain)
  BY <1>1
<1>3. [i \in DOMAIN l |-> IF i \in at THEN c ELSE l[i]] \in Seq(WorkflowChain)
  <2>1. DOMAIN l = 1..Len(l) /\ Len(l) \in Nat /\ \A i \in DOMAIN l : l[i] \in WorkflowChain
    BY <1>1
  <2>2. [i \in DOMAIN l |-> IF i \in at THEN c ELSE l[i]] \in [1..Len(l) -> WorkflowChain]
    BY <2>1
  <2> QED BY <2>1, <2>2
<1>4. WithChain(s, c) = IF at = {} THEN <<c>> \o l
                        ELSE [i \in DOMAIN l |-> IF i \in at THEN c ELSE l[i]]
  BY DEF WithChain, l
<1> QED BY <1>2, <1>3, <1>4

(* The page always has a chain to show. *)
LEMMA ActiveIsChain ==
  ASSUME ChainsTypeOK
  PROVE  ActiveChain \in WorkflowChain
<1> DEFINE same == {i \in DOMAIN chains : chains[i].id = activeChainId}
<1>1. \A i \in DOMAIN chains : chains[i] \in WorkflowChain
  BY DEF ChainsTypeOK
<1>2. 1 \in DOMAIN chains
  BY DEF ChainsTypeOK
<1>3. same # {} => (CHOOSE i \in same : TRUE) \in same
  OBVIOUS
<1>4. ActiveChain = IF same = {} THEN chains[1] ELSE chains[CHOOSE i \in same : TRUE]
  BY DEF ActiveChain
<1> QED BY <1>1, <1>2, <1>3, <1>4

(* Written or not, what is stored can be read. *)
LEMMA WriteType ==
  ASSUME ChainsTypeOK, NEW l \in Seq(WorkflowChain), Write(l)
  PROVE  /\ storedChains' \in {Null} \cup Seq(WorkflowChain)
         /\ GetChains(storedChains') \in Seq(WorkflowChain) /\ GetChains(storedChains') # <<>>
<1>1. storedChains' \in {Null} \cup Seq(WorkflowChain)
  BY ListRead DEF Write, ChainsTypeOK
<1> QED BY <1>1, ListRead

(* The user's edits make steps of steps. *)
LEMMA EditedSteps ==
  ASSUME NEW steps \in Seq(ChainStep), NEW new \in NewSteps(steps)
  PROVE  new \in Seq(ChainStep)
<1>1. ASSUME NEW i \in DOMAIN steps PROVE [steps EXCEPT ![i].enabled = ~@] \in Seq(ChainStep)
  <2>1. steps[i] \in ChainStep
    BY <1>1
  <2>2. PICK b \in BOOLEAN : b = ~steps[i].enabled
    OBVIOUS
  <2>3. [steps[i] EXCEPT !.enabled = b] \in ChainStep
    BY <2>1 DEF ChainStep
  <2>4. [steps EXCEPT ![i] = [steps[i] EXCEPT !.enabled = b]] \in Seq(ChainStep)
    BY <1>1, <2>3
  <2>5. [steps EXCEPT ![i].enabled = ~@] = [steps EXCEPT ![i] = [steps[i] EXCEPT !.enabled = b]]
    BY <2>2
  <2> QED BY <2>4, <2>5
<1>2. ASSUME NEW i \in DOMAIN steps PROVE RemoveAt(steps, i) \in Seq(ChainStep)
  BY <1>2, Removed
<1>3. ASSUME NEW step \in [id : FreshIds, type : AddedTypes, enabled : {TRUE}]
      PROVE  Append(steps, step) \in Seq(ChainStep)
  <2>1. step \in ChainStep
    BY ChainsAssumption DEF ChainsAssumption, ChainStep, ChainId, FreshIds
  <2> QED BY <2>1
<1>4. \/ \E i \in DOMAIN steps : new = [steps EXCEPT ![i].enabled = ~@]
      \/ \E i \in DOMAIN steps : new = RemoveAt(steps, i)
      \/ \E step \in [id : FreshIds, type : AddedTypes, enabled : {TRUE}] : new = Append(steps, step)
  BY DEF NewSteps
<1> QED BY <1>1, <1>2, <1>3, <1>4

-----------------------------------------------------------------------------
(* A result that is appended changes nothing that was given to the steps up to
   the one it is of. *)
LEMMA OutputsStay ==
  ASSUME NEW S, NEW results \in Seq(S), NEW x \in S, NEW steps, NEW i \in 1..(Len(results) + 1)
  PROVE  OutputBefore(Append(results, x), steps, i) = OutputBefore(results, steps, i)
<1> DEFINE before == {j \in 1..(i - 1) : steps[j].enabled}
<1>1. CASE before = {}
  BY <1>1 DEF OutputBefore
<1>2. CASE before # {}
  <2>0. i - 1 \in Nat /\ i - 1 <= Len(results)
    OBVIOUS
  <2>1. \E j \in before : \A k \in before : k <= j
    BY <1>2, <2>0, GreatestOf
  <2>2. PICK j : j = CHOOSE g \in before : \A k \in before : k <= g
    OBVIOUS
  <2>3. j \in 1..Len(results)
    BY <2>0, <2>1, <2>2
  <2>4. Append(results, x)[j] = results[j]
    BY <2>3
  <2> QED BY <1>2, <2>2, <2>4 DEF OutputBefore
<1> QED BY <1>1, <1>2

OutputOfLast(results, T) ==
  IF T = {} THEN Null ELSE results[CHOOSE j \in T : \A k \in T : k <= j].output

(* What the step after the i-th is given. *)
LEMMA NextOutput ==
  ASSUME NEW results, NEW steps, NEW i \in Nat \ {0}
  PROVE  /\ steps[i].enabled => OutputBefore(results, steps, i + 1) = results[i].output
         /\ ~steps[i].enabled =>
              OutputBefore(results, steps, i + 1) = OutputBefore(results, steps, i)
<1> DEFINE now == {j \in 1..((i + 1) - 1) : steps[j].enabled}
           before == {j \in 1..(i - 1) : steps[j].enabled}
<1>1. CASE steps[i].enabled
  <2>1. i \in now /\ \A k \in now : k \in Nat /\ k <= i
    BY <1>1
  <2>2. (CHOOSE j \in now : \A k \in now : k <= j) = i
    BY <2>1
  <2>3. now # {} /\ OutputBefore(results, steps, i + 1) =
          IF now = {} THEN Null ELSE results[CHOOSE j \in now : \A k \in now : k <= j].output
    BY <2>1 DEF OutputBefore
  <2> HIDE DEF now
  <2>4. OutputBefore(results, steps, i + 1)
          = results[CHOOSE j \in now : \A k \in now : k <= j].output
    BY <2>3
  <2>5. OutputBefore(results, steps, i + 1) = results[i].output
    BY <2>2, <2>4
  <2> QED BY <1>1, <2>5
<1>2. CASE ~steps[i].enabled
  <2>1. now = before
    BY <1>2
  <2>2. OutputBefore(results, steps, i + 1) = OutputOfLast(results, now)
    BY Zenon DEF OutputBefore, OutputOfLast
  <2>3. OutputBefore(results, steps, i) = OutputOfLast(results, before)
    BY Zenon DEF OutputBefore, OutputOfLast
  <2> HIDE DEF now, before
  <2>4. OutputBefore(results, steps, i + 1) = OutputBefore(results, steps, i)
    BY <2>1, <2>2, <2>3
  <2> QED BY <1>2, <2>4
<1> QED BY <1>1, <1>2

-----------------------------------------------------------------------------
(* A result that is appended for the next step of the chain continues the
   results so far. *)
LEMMA ResultContinues ==
  ASSUME NEW r \in Run, SoFar(r), r.outcome # "failed", NEW result \in StepResult,
         NEW last \in Output \cup {Null}, NEW outcome \in {Null, "failed"},
         NEW step \in ChainStep, Len(r.results) < Len(r.chain.steps),
         step = r.chain.steps[Len(r.results) + 1],
         NEW next, next = [at |-> "loop", chain |-> r.chain,
                           results |-> Append(r.results, result),
                           lastOutput |-> last, outcome |-> outcome],
         result.stepId = step.id, result.status = "skipped" <=> ~step.enabled,
         result.input = r.lastOutput,
         step.enabled => last = result.output, ~step.enabled => last = r.lastOutput,
         outcome = "failed" <=> result.status = "failed"
  PROVE  next \in Run /\ SoFar(next)
<1>1. PICK n, steps, results, old :
        /\ n = Len(r.results) /\ steps = r.chain.steps /\ old = r.results
        /\ results = Append(old, result)
  OBVIOUS
<1>2. old \in Seq(StepResult) /\ n \in Nat /\ steps \in Seq(ChainStep) /\ n < Len(steps)
      /\ n = Len(old) /\ Len(steps) \in Nat /\ step = steps[n + 1]
  BY <1>1 DEF Run, WorkflowChain
<1>3. /\ results \in Seq(StepResult) /\ Len(results) = n + 1 /\ results[n + 1] = result
      /\ \A i \in 1..n : results[i] = old[i]
  <2>1. n = Len(old) /\ results = Append(old, result) /\ old \in Seq(StepResult)
    BY <1>1, <1>2
  <2> QED BY ONLY <2>1, result \in StepResult
<1>4. next \in Run
  BY <1>1, <1>3 DEF Run
<1>5. ASSUME NEW i \in 1..(n + 1)
      PROVE  OutputBefore(results, steps, i) = OutputBefore(old, steps, i)
  BY <1>1, <1>2, <1>5, OutputsStay
<1>6. /\ \A i \in 1..n :
           /\ old[i].stepId = steps[i].id
           /\ old[i].status = "skipped" <=> ~steps[i].enabled
           /\ old[i].status = "failed" => i = n
           /\ old[i].input = OutputBefore(old, steps, i)
      /\ r.lastOutput = OutputBefore(old, steps, n + 1)
      /\ n > 0 => old[n].status # "failed"
  BY <1>1 DEF SoFar, Follow
<1>7. ASSUME NEW i \in 1..(n + 1)
      PROVE  /\ results[i].stepId = steps[i].id
             /\ results[i].status = "skipped" <=> ~steps[i].enabled
             /\ results[i].status = "failed" => i = n + 1
             /\ results[i].input = OutputBefore(results, steps, i)
  <2>1. CASE i = n + 1
    BY <1>2, <1>3, <1>5, <1>6, <2>1
  <2>2. CASE i \in 1..n
    BY <1>2, <1>3, <1>5, <1>6, <2>2
  <2> QED BY <1>2, <2>1, <2>2
<1>8. last = OutputBefore(results, steps, (n + 1) + 1)
  <2>1. n + 1 \in Nat \ {0}
    BY <1>2
  <2>2. /\ steps[n + 1].enabled
             => OutputBefore(results, steps, (n + 1) + 1) = results[n + 1].output
        /\ ~steps[n + 1].enabled
             => OutputBefore(results, steps, (n + 1) + 1) = OutputBefore(results, steps, n + 1)
    BY <2>1, NextOutput
  <2>3. OutputBefore(results, steps, n + 1) = OutputBefore(old, steps, n + 1)
    BY <1>2, <1>5
  <2> QED BY <1>2, <1>3, <1>6, <2>2, <2>3
<1>9. outcome = "failed" <=> n + 1 > 0 /\ results[n + 1].status = "failed"
  BY <1>2, <1>3
<1>10. SoFar(next)
  <2>1. next.results = results /\ next.chain.steps = steps /\ next.lastOutput = last
        /\ next.outcome = outcome
    BY <1>1
  <2>2. Len(results) <= Len(steps)
    BY <1>2, <1>3
  <2>3. Follow(results, steps, last, outcome)
    BY <1>3, <1>7, <1>8, <1>9, <2>2 DEF Follow
  <2> QED BY <2>1, <2>3 DEF SoFar
<1> QED BY <1>4, <1>10

(* A result that is recorded keeps the invariant. *)
LEMMA RecordContinues ==
  ASSUME ChainsInv, run # Null, run.outcome # "failed", NEW result \in StepResult,
         NEW last \in Output \cup {Null}, NEW outcome \in {Null, "failed"},
         NEW step \in ChainStep, Len(run.results) < Len(run.chain.steps),
         step = run.chain.steps[Len(run.results) + 1],
         run' = [run EXCEPT !.at = "loop", !.results = Append(@, result), !.lastOutput = last,
                            !.outcome = outcome],
         result.stepId = step.id, result.status = "skipped" <=> ~step.enabled,
         result.input = run.lastOutput,
         step.enabled => last = result.output, ~step.enabled => last = run.lastOutput,
         outcome = "failed" <=> result.status = "failed",
         UNCHANGED <<storedChains, chains, executionReport>>
  PROVE  ChainsInv'
<1>1. run \in Run /\ SoFar(run)
  BY DEF ChainsInv, ChainsTypeOK
<1>2. run' = [at |-> "loop", chain |-> run.chain, results |-> Append(run.results, result),
              lastOutput |-> last, outcome |-> outcome]
  BY <1>1 DEF Run
<1>3. \A next : next = [at |-> "loop", chain |-> run.chain,
                        results |-> Append(run.results, result), lastOutput |-> last,
                        outcome |-> outcome] => next \in Run /\ SoFar(next)
  BY <1>1, ResultContinues
<1>4. PICK next : next = run'
  OBVIOUS
<1>5. next \in Run /\ SoFar(next)
  BY <1>2, <1>3, <1>4
<1>6. run' \in Run /\ SoFar(run')
  BY <1>4, <1>5
<1> QED BY <1>6 DEF ChainsInv, ChainsTypeOK, ReportsFollowTheChain

(* The step of the loop is the one after the last result. *)
LEMMA LoopStep ==
  ASSUME ChainsInv, NEW step, Looping(step)
  PROVE  /\ run # Null /\ run \in Run /\ run.outcome # "failed" /\ step \in ChainStep
         /\ Len(run.results) < Len(run.chain.steps)
         /\ step = run.chain.steps[Len(run.results) + 1]
<1>1. run \in Run /\ run.results \in Seq(StepResult) /\ run.chain.steps \in Seq(ChainStep)
      /\ run # Null /\ SoFar(run)
  BY DEF Looping, ChainsInv, ChainsTypeOK, Run, WorkflowChain
<1> DEFINE n == Len(run.results)
           steps == run.chain.steps
<1>2. n \in Nat /\ n <= Len(steps) /\ Len(steps) \in Nat
  BY <1>1 DEF SoFar, Follow
<1>3. SubSeq(steps, n + 1, Len(steps)) # <<>> /\ step = Head(SubSeq(steps, n + 1, Len(steps)))
  BY DEF Looping, StepsLeft
<1>4. n < Len(steps)
  <2>1. SUFFICES ASSUME n = Len(steps) PROVE FALSE
    BY <1>2
  <2>2. SubSeq(steps, n + 1, Len(steps)) = <<>>
    BY <1>1, <1>2, <2>1
  <2> QED BY <1>3, <2>2
<1>5. step = steps[n + 1]
  BY <1>1, <1>2, <1>3, <1>4
<1>6. step \in ChainStep
  BY <1>1, <1>2, <1>4, <1>5
<1> QED BY <1>1, <1>4, <1>5, <1>6 DEF Looping

(* A disabled step is recorded as skipped. *)
LEMMA SkipStepKeeps ==
  ASSUME ChainsInv, NEW step, SkipStep(step) PROVE ChainsInv'
<1> DEFINE result == [stepId |-> step.id, status |-> "skipped", input |-> run.lastOutput,
                      output |-> Null]
<1>1. /\ Looping(step) /\ ~step.enabled /\ UNCHANGED <<storedChains, chains, executionReport>>
      /\ run' = [run EXCEPT !.at = "loop", !.results = Append(@, result),
                            !.lastOutput = run.lastOutput, !.outcome = run.outcome]
  BY DEF SkipStep, Recorded
<1>2. /\ run # Null /\ run \in Run /\ run.outcome # "failed" /\ step \in ChainStep
      /\ Len(run.results) < Len(run.chain.steps)
      /\ step = run.chain.steps[Len(run.results) + 1]
  BY <1>1, LoopStep
<1>3. /\ result \in StepResult /\ run.lastOutput \in Output \cup {Null}
      /\ run.outcome \in {Null, "failed"}
  BY <1>2 DEF StepResult, Run, ChainStep
<1> QED BY <1>1, <1>2, <1>3, RecordContinues

(* What a step ends with: an output of one of the kinds, or a failure. *)
LEMMA OutcomeKinds ==
  ASSUME NEW step, NEW last, NEW kind \in Outcomes(step, last)
  PROVE  kind \in Kind \cup {"failed"}
<1>1. CASE step.type = "HTTP_REQUEST"
  BY <1>1 DEF Outcomes, Kind
<1>2. CASE step.type = "ASSERT"
  <2>1. last.kind = "status 200" => last.kind # "other status"
    OBVIOUS
  <2> QED BY <1>2, <2>1 DEF Outcomes, Kind
<1>3. CASE step.type = "TRANSFORM"
  BY <1>3 DEF Outcomes, Kind
<1>4. CASE step.type \notin {"HTTP_REQUEST", "ASSERT", "TRANSFORM"}
  BY <1>4 DEF Outcomes, Kind
<1> QED BY <1>1, <1>2, <1>3, <1>4

(* An enabled step is recorded with its output, or as failed. *)
LEMMA EndStepKeeps ==
  ASSUME ChainsInv, NEW step, EndStep(step) PROVE ChainsInv'
<1>1. Looping(step) /\ step.enabled /\ UNCHANGED <<storedChains, chains, executionReport>>
  BY DEF EndStep
<1>2. PICK kind \in Outcomes(step, run.lastOutput) :
        LET failed == kind = "failed"
            output == IF failed THEN Null ELSE [by |-> step.id, kind |-> kind]
        IN  Recorded(run, [stepId |-> step.id, status |-> IF failed THEN "failed" ELSE "success",
                           input |-> run.lastOutput, output |-> output],
                     output, IF failed THEN "failed" ELSE run.outcome)
  BY DEF EndStep
<1>3. /\ run # Null /\ run \in Run /\ run.outcome # "failed" /\ step \in ChainStep
      /\ Len(run.results) < Len(run.chain.steps)
      /\ step = run.chain.steps[Len(run.results) + 1]
  BY <1>1, LoopStep
<1>4. kind \in Kind \cup {"failed"}
  BY OutcomeKinds
<1>5. CASE kind = "failed"
  <2> DEFINE result == [stepId |-> step.id, status |-> "failed", input |-> run.lastOutput,
                        output |-> Null]
  <2>1. run' = [run EXCEPT !.at = "loop", !.results = Append(@, result), !.lastOutput = Null,
                           !.outcome = "failed"]
    BY <1>2, <1>5 DEF Recorded
  <2>2. result \in StepResult
    BY <1>3 DEF StepResult, Run, ChainStep
  <2> QED BY <1>1, <1>3, <2>1, <2>2, RecordContinues
<1>6. CASE kind # "failed"
  <2> DEFINE output == [by |-> step.id, kind |-> kind]
             result == [stepId |-> step.id, status |-> "success", input |-> run.lastOutput,
                        output |-> output]
  <2>1. run' = [run EXCEPT !.at = "loop", !.results = Append(@, result), !.lastOutput = output,
                           !.outcome = run.outcome]
    BY <1>2, <1>6 DEF Recorded
  <2>2. output \in Output /\ result \in StepResult /\ run.outcome \in {Null, "failed"}
    BY <1>3, <1>4, <1>6 DEF Output, StepResult, Run, ChainStep
  <2> QED BY <1>1, <1>3, <2>1, <2>2, RecordContinues
<1> QED BY <1>5, <1>6

(* A step that awaits records nothing. *)
LEMMA AwaitStepKeeps ==
  ASSUME ChainsInv, NEW step, AwaitStep(step) PROVE ChainsInv'
<1>1. run # Null /\ run \in Run /\ SoFar(run) /\ run' = [run EXCEPT !.at = "await"]
      /\ UNCHANGED <<storedChains, chains, executionReport>>
  BY DEF ChainsInv, ChainsTypeOK, AwaitStep, Looping, chainPage
<1>2. /\ run' \in Run /\ run'.results = run.results /\ run'.chain = run.chain
      /\ run'.lastOutput = run.lastOutput /\ run'.outcome = run.outcome
  BY <1>1 DEF Run
<1>3. SoFar(run')
  BY <1>1, <1>2 DEF SoFar, Follow
<1> QED BY <1>1, <1>2, <1>3 DEF ChainsInv, ChainsTypeOK, ReportsFollowTheChain

(* A finished run's results are those a report may have. *)
LEMMA FinishKeeps ==
  ASSUME ChainsInv, Finish PROVE ChainsInv'
<1>1. PICK report : report = executionReport'
  OBVIOUS
<1>2. PICK n, steps, results : n = Len(run.results) /\ steps = run.chain.steps
                               /\ results = run.results
  OBVIOUS
<1>3. /\ run # Null /\ run \in Run /\ SoFar(run) /\ run' = Null
      /\ UNCHANGED <<storedChains, chains>>
      /\ results \in Seq(StepResult) /\ n \in Nat /\ n = Len(results)
      /\ steps \in Seq(ChainStep) /\ Len(steps) \in Nat
  BY <1>2 DEF Finish, ChainsInv, ChainsTypeOK, Run, WorkflowChain
<1>4. report.pressed = steps /\ report.stepResults = results
      /\ report.status = IF run.outcome = "failed" THEN "failed" ELSE "success"
  BY <1>1, <1>2 DEF Finish
<1>5. /\ n <= Len(steps)
      /\ \A i \in 1..n :
           /\ results[i].stepId = steps[i].id
           /\ results[i].status = "skipped" <=> ~steps[i].enabled
           /\ results[i].status = "failed" => i = n
           /\ results[i].input = OutputBefore(results, steps, i)
      /\ run.outcome = "failed" <=> n > 0 /\ results[n].status = "failed"
  BY <1>2, <1>3 DEF SoFar, Follow
<1>6. report.status = "success" <=> \A i \in 1..n : results[i].status # "failed"
  <2>1. report.status = "success" <=> ~(n > 0 /\ results[n].status = "failed")
    BY <1>4, <1>5
  <2>2. (\A i \in 1..n : results[i].status # "failed") <=> ~(n > 0 /\ results[n].status = "failed")
    BY <1>3, <1>5
  <2> QED BY <2>1, <2>2
<1>7. n = Len(steps) \/ (n > 0 /\ results[n].status = "failed")
  <2>1. SUFFICES ASSUME run.outcome # "failed", n # Len(steps) PROVE FALSE
    BY <1>5
  <2>2. PICK empty : empty = <<>> /\ empty = SubSeq(steps, n + 1, Len(steps))
    BY <1>2, <2>1 DEF Finish, StepsLeft
  <2>3. n + 1 <= Len(steps) /\ n + 1 \in Nat \ {0}
    BY <1>3, <1>5, <2>1
  <2>4. Len(SubSeq(steps, n + 1, Len(steps))) = Len(steps) - (n + 1) + 1
    BY <1>3, <2>3
  <2>5. Len(SubSeq(steps, n + 1, Len(steps))) = 0
    <3>1. Len(empty) = 0
      BY <2>2
    <3> QED BY <2>2, <3>1
  <2> QED BY <1>3, <2>3, <2>4, <2>5
<1>8. FollowsChain(report)
  BY <1>3, <1>4, <1>5, <1>6, <1>7 DEF FollowsChain
<1> QED BY <1>1, <1>3, <1>8 DEF ChainsInv, ChainsTypeOK, ReportsFollowTheChain

-----------------------------------------------------------------------------
(* The page's handlers leave the run in progress alone. *)
LEMMA HandlersKeep ==
  ASSUME ChainsInv, ChainsTypeOK', UNCHANGED run,
         executionReport' = Null \/ UNCHANGED executionReport
  PROVE  ChainsInv'
<1>1. run # Null => SoFar(run)
  BY DEF ChainsInv
<1>2. (run # Null => SoFar(run))'
  BY <1>1
<1>3. ReportsFollowTheChain'
  BY DEF ChainsInv, ReportsFollowTheChain
<1> QED BY <1>2, <1>3 DEF ChainsInv

(* Another chain is shown. *)
LEMMA SelectKeeps ==
  ASSUME ChainsInv, NEW id, Select(id) PROVE ChainsInv'
<1>1. UNCHANGED <<storedChains, chains, run>> /\ executionReport' = Null
  BY DEF Select
<1>2. ChainsTypeOK'
  BY <1>1 DEF ChainsInv, ChainsTypeOK
<1> QED BY <1>1, <1>2, HandlersKeep

(* A chain is created. *)
LEMMA CreateNewKeeps ==
  ASSUME ChainsInv, NEW id \in FreshIds, NEW step \in FreshIds, CreateNew(id, step)
  PROVE  ChainsInv'
<1> DEFINE new == [id |-> id,
                   steps |-> <<[id |-> step, type |-> "TRANSFORM", enabled |-> TRUE]>>]
           written == WithChain(storedChains, new)
<1>1. new \in WorkflowChain
  <2>1. id \in ChainId /\ step \in ChainId
    BY DEF FreshIds, ChainId
  <2>2. [id |-> step, type |-> "TRANSFORM", enabled |-> TRUE] \in ChainStep
    BY <2>1 DEF ChainStep, StepType
  <2> QED BY <2>1, <2>2 DEF WorkflowChain
<1>2. written \in Seq(WorkflowChain)
  <2>1. storedChains \in {Null} \cup Seq(WorkflowChain)
    BY DEF ChainsInv, ChainsTypeOK
  <2> QED BY <1>1, <2>1, ListWritten
<1>3. Write(written) /\ chains' = GetChains(storedChains') /\ UNCHANGED <<run, executionReport>>
  BY DEF CreateNew
<1> HIDE DEF written
<1>4. ChainsTypeOK'
  <2>1. /\ storedChains' \in {Null} \cup Seq(WorkflowChain)
        /\ GetChains(storedChains') \in Seq(WorkflowChain) /\ GetChains(storedChains') # <<>>
    BY <1>2, <1>3, WriteType DEF ChainsInv
  <2> QED BY <1>3, <2>1 DEF ChainsInv, ChainsTypeOK
<1> QED BY <1>3, <1>4, HandlersKeep

(* The steps of the chain that is shown are edited. *)
LEMMA EditStepsKeeps ==
  ASSUME ChainsInv, NEW steps \in NewSteps(ActiveChain.steps), EditSteps(steps)
  PROVE  ChainsInv'
<1> DEFINE new == [ActiveChain EXCEPT !.steps = steps]
           written == WithChain(storedChains, new)
<1>1. new \in WorkflowChain
  <2>1. ActiveChain \in WorkflowChain
    BY ActiveIsChain DEF ChainsInv
  <2>2. ActiveChain.steps \in Seq(ChainStep)
    BY <2>1 DEF WorkflowChain
  <2>3. steps \in Seq(ChainStep)
    BY <2>2, EditedSteps
  <2> QED BY <2>1, <2>3 DEF WorkflowChain
<1>2. written \in Seq(WorkflowChain)
  <2>1. storedChains \in {Null} \cup Seq(WorkflowChain)
    BY DEF ChainsInv, ChainsTypeOK
  <2> QED BY <1>1, <2>1, ListWritten
<1>3. Write(written) /\ chains' = GetChains(storedChains') /\ UNCHANGED <<run, executionReport>>
  BY DEF EditSteps
<1> HIDE DEF written
<1>4. ChainsTypeOK'
  <2>1. /\ storedChains' \in {Null} \cup Seq(WorkflowChain)
        /\ GetChains(storedChains') \in Seq(WorkflowChain) /\ GetChains(storedChains') # <<>>
    BY <1>2, <1>3, WriteType DEF ChainsInv
  <2> QED BY <1>3, <2>1 DEF ChainsInv, ChainsTypeOK
<1> QED BY <1>3, <1>4, HandlersKeep

(* The templates replace the list. *)
LEMMA ResetTemplatesKeeps ==
  ASSUME ChainsInv, ResetTemplates PROVE ChainsInv'
<1>1. PrebuiltTemplates \in Seq(WorkflowChain) /\ PrebuiltTemplates # <<>>
  BY ChainsAssumption DEF ChainsAssumption
<1>2. Write(PrebuiltTemplates) /\ chains' = PrebuiltTemplates /\ executionReport' = Null
      /\ UNCHANGED run
  BY DEF ResetTemplates
<1>3. storedChains' \in {Null} \cup Seq(WorkflowChain)
  BY <1>1, <1>2, WriteType DEF ChainsInv
<1>4. ChainsTypeOK'
  BY <1>1, <1>2, <1>3 DEF ChainsInv, ChainsTypeOK
<1> QED BY <1>2, <1>4, HandlersKeep

(* A run starts with no results. *)
LEMMA RunChainKeeps ==
  ASSUME ChainsInv, RunChain PROVE ChainsInv'
<1>1. /\ run' = [at |-> "loop", chain |-> ActiveChain, results |-> <<>>, lastOutput |-> Null,
                 outcome |-> Null]
      /\ executionReport' = Null /\ UNCHANGED <<storedChains, chains>>
  BY DEF RunChain
<1>2. ActiveChain \in WorkflowChain /\ ActiveChain.steps \in Seq(ChainStep)
  BY ActiveIsChain DEF ChainsInv, WorkflowChain
<1>3. run' \in Run
  BY <1>1, <1>2 DEF Run
<1>4. PICK r, chain : r = run' /\ chain = ActiveChain
  OBVIOUS
<1>5. r = [at |-> "loop", chain |-> chain, results |-> <<>>, lastOutput |-> Null, outcome |-> Null]
      /\ chain.steps \in Seq(ChainStep)
  BY <1>1, <1>2, <1>4
<1>6. OutputBefore(r.results, r.chain.steps, 0 + 1) = Null
  BY DEF OutputBefore
<1>7. SoFar(r)
  BY <1>5, <1>6, ChainsAssumption DEF SoFar, Follow, ChainsAssumption
<1>8. SoFar(run')
  BY <1>4, <1>7
<1> QED BY <1>1, <1>3, <1>8 DEF ChainsInv, ChainsTypeOK, ReportsFollowTheChain

-----------------------------------------------------------------------------
(* The first list of chains, and no run. *)
LEMMA ChainsInitInv == ChainsInit => ChainsInv
<1> SUFFICES ASSUME ChainsInit PROVE ChainsInv
  OBVIOUS
<1>1. storedChains \in {Null} \cup Seq(WorkflowChain)
  BY ChainsAssumption DEF ChainsInit, ChainsAssumption
<1>2. GetChains(storedChains) \in Seq(WorkflowChain) /\ GetChains(storedChains) # <<>>
  BY <1>1, ListRead
<1> QED BY <1>1, <1>2 DEF ChainsInit, ChainsInv, ChainsTypeOK, ReportsFollowTheChain

(* Every step of the page and of the executor keeps the invariant. *)
LEMMA ChainsStep == ChainsInv /\ [ChainsNext]_chainVars => ChainsInv'
<1> SUFFICES ASSUME ChainsInv, [ChainsNext]_chainVars PROVE ChainsInv'
  OBVIOUS
<1>1. ASSUME NEW c \in Range(chains), Select(c.id) PROVE ChainsInv'
  BY <1>1, SelectKeeps
<1>2. ASSUME NEW id \in FreshIds, NEW step \in FreshIds, CreateNew(id, step) PROVE ChainsInv'
  BY <1>2, CreateNewKeeps
<1>3. ASSUME NEW steps \in NewSteps(ActiveChain.steps), EditSteps(steps) PROVE ChainsInv'
  BY <1>3, EditStepsKeeps
<1>4. CASE ResetTemplates
  BY <1>4, ResetTemplatesKeeps
<1>5. CASE RunChain
  BY <1>5, RunChainKeeps
<1>6. CASE Finish
  BY <1>6, FinishKeeps
<1>7. ASSUME NEW step, SkipStep(step) PROVE ChainsInv'
  BY <1>7, SkipStepKeeps
<1>8. ASSUME NEW step, AwaitStep(step) PROVE ChainsInv'
  BY <1>8, AwaitStepKeeps
<1>9. ASSUME NEW step, EndStep(step) PROVE ChainsInv'
  BY <1>9, EndStepKeeps
<1>10. CASE UNCHANGED chainVars
  <2>1. UNCHANGED <<storedChains, chains, executionReport, run>>
    BY <1>10 DEF chainVars, chainPage
  <2>2. ChainsTypeOK'
    BY <2>1 DEF ChainsInv, ChainsTypeOK
  <2> QED BY <2>1, <2>2, HandlersKeep
<1> QED BY <1>1, <1>2, <1>3, <1>4, <1>5, <1>6, <1>7, <1>8, <1>9, <1>10 DEF ChainsNext

(* A run of a chain: its results are those of the steps of the chain that
   was started, whatever is edited, reset or deleted at its awaits. *)
THEOREM ChainsInvariance == ChainsSpec => []ChainsInv
BY ChainsInitInv, ChainsStep, PTL DEF ChainsSpec

(* A report is about the chain as it was when the run was started
   (chainExecutor.ts), for chains of any length and any number of edits. *)
THEOREM ReportsFollow == ChainsSpec => []ReportsFollowTheChain
<1>1. ChainsInv => ReportsFollowTheChain
  BY DEF ChainsInv
<1> QED BY <1>1, ChainsInvariance, PTL

-----------------------------------------------------------------------------
(* The notes of the scratchpad. *)
Blob == [text : Contents, password : NotePasswords]
NoteRecord == [id : NoteIds, content : Contents, blob : Blob \cup {NoBlob}]
Locking == [id : NoteIds, text : Contents, password : NotePasswords, edited : BOOLEAN]
Unlocking == [id : NoteIds, blob : Blob, password : NotePasswords, resealed : BOOLEAN]

NotesTypeOK ==
  /\ notes \in Seq(NoteRecord) /\ notes # <<>>
  /\ snapshots \in Seq(Contents)
  /\ encrypting \in Seq(Locking) /\ decrypting \in SUBSET Unlocking
  /\ reading \in SUBSET [id : NoteIds, text : Contents]

OneNoteEach(s) == \A i, j \in DOMAIN s : s[i].id = s[j].id => i = j
IdsOf(s) == {s[i].id : i \in DOMAIN s}
NoteOf(s, id) == s[CHOOSE i \in DOMAIN s : s[i].id = id]
WithNote(s, id, c, b) ==
  [i \in DOMAIN s |-> IF s[i].id = id THEN [s[i] EXCEPT !.content = c, !.blob = b] ELSE s[i]]

(* What is about to be locked is the text of its note, unless that was edited. *)
LocksKnow(s, ops) ==
  \A i \in DOMAIN ops : ops[i].id \in IdsOf(s) /\ ~ops[i].edited /\ NoteOf(s, ops[i].id).blob = NoBlob
                          => ops[i].text = NoteOf(s, ops[i].id).content
(* What is being decrypted is what its note holds, unless that was locked anew. *)
UnlocksKnow(s, ops) ==
  \A d \in ops : d.id \in IdsOf(s) /\ ~d.resealed /\ NoteOf(s, d.id).blob # NoBlob
                   => d.blob = NoteOf(s, d.id).blob

NotesInv ==
  /\ NotesTypeOK
  /\ OneNoteEach(notes) /\ IdsOf(notes) \subseteq usedIds
  /\ \A i \in DOMAIN encrypting : encrypting[i].id \in usedIds
  /\ \A d \in decrypting : d.id \in usedIds
  /\ LocksKnow(notes, encrypting) /\ UnlocksKnow(notes, decrypting)

-----------------------------------------------------------------------------
(* With one note for each id, a note is found by its id. *)
LEMMA NoteFound ==
  ASSUME NEW s, OneNoteEach(s), NEW i \in DOMAIN s
  PROVE  NoteOf(s, s[i].id) = s[i] /\ s[i].id \in IdsOf(s)
<1> DEFINE j == CHOOSE j \in DOMAIN s : s[j].id = s[i].id
<1>1. j \in DOMAIN s /\ s[j].id = s[i].id
  OBVIOUS
<1>2. j = i
  BY <1>1 DEF OneNoteEach
<1>3. NoteOf(s, s[i].id) = s[j]
  BY DEF NoteOf
<1> QED BY <1>2, <1>3 DEF IdsOf

(* What is found by an id of the list is a note with that id. *)
LEMMA NoteIsRecord ==
  ASSUME NEW s \in Seq(NoteRecord), NEW id \in IdsOf(s)
  PROVE  NoteOf(s, id) \in NoteRecord /\ NoteOf(s, id).id = id
<1>1. PICK i \in DOMAIN s : s[i].id = id
  BY DEF IdsOf
<1> DEFINE j == CHOOSE j \in DOMAIN s : s[j].id = id
<1>2. j \in DOMAIN s /\ s[j].id = id
  BY <1>1
<1>3. s[j] \in NoteRecord
  BY <1>2
<1>4. NoteOf(s, id) = s[j]
  BY DEF NoteOf
<1> QED BY <1>2, <1>3, <1>4

(* A note that is rewritten changes no other note and no id. *)
LEMMA NoteSet ==
  ASSUME NEW s \in Seq(NoteRecord), OneNoteEach(s), NEW id, NEW c \in Contents,
         NEW b \in Blob \cup {NoBlob}
  PROVE  LET t == WithNote(s, id, c, b)
         IN  /\ t \in Seq(NoteRecord) /\ Len(t) = Len(s) /\ OneNoteEach(t) /\ IdsOf(t) = IdsOf(s)
             /\ \A x \in IdsOf(s) :
                  /\ x = id => NoteOf(t, x).content = c /\ NoteOf(t, x).blob = b
                  /\ x # id => NoteOf(t, x) = NoteOf(s, x)
<1> DEFINE t == WithNote(s, id, c, b)
<1>1. DOMAIN s = 1..Len(s) /\ Len(s) \in Nat /\ \A i \in DOMAIN s : s[i] \in NoteRecord
  OBVIOUS
<1>2. ASSUME NEW i \in DOMAIN s
      PROVE  /\ t[i] = IF s[i].id = id THEN [s[i] EXCEPT !.content = c, !.blob = b] ELSE s[i]
             /\ t[i] \in NoteRecord /\ t[i].id = s[i].id
  <2>1. t[i] = IF s[i].id = id THEN [s[i] EXCEPT !.content = c, !.blob = b] ELSE s[i]
    BY DEF WithNote
  <2>2. s[i] \in NoteRecord
    BY <1>1
  <2> QED BY <2>1, <2>2 DEF NoteRecord
<1>3. t = [i \in DOMAIN s |-> t[i]] /\ DOMAIN t = DOMAIN s
  BY DEF WithNote
<1> HIDE DEF t
<1>4. t \in Seq(NoteRecord)
  <2>1. t \in [1..Len(s) -> NoteRecord]
    BY <1>1, <1>2, <1>3
  <2> QED BY <1>1, <2>1
<1>5. OneNoteEach(t)
  BY <1>2, <1>3 DEF OneNoteEach
<1>6. IdsOf(t) = IdsOf(s)
  BY <1>2, <1>3 DEF IdsOf
<1>7. ASSUME NEW x \in IdsOf(s)
      PROVE  /\ x = id => NoteOf(t, x).content = c /\ NoteOf(t, x).blob = b
             /\ x # id => NoteOf(t, x) = NoteOf(s, x)
  <2>1. PICK i \in DOMAIN s : s[i].id = x
    BY DEF IdsOf
  <2>2. NoteOf(s, x) = s[i]
    BY <2>1, NoteFound
  <2>3. i \in DOMAIN t /\ t[i].id = x
    BY <1>2, <1>3, <2>1
  <2>4. NoteOf(t, x) = t[i]
    BY <1>5, <2>3, NoteFound
  <2>5. s[i] \in NoteRecord
    BY <1>1
  <2> QED BY <1>2, <2>1, <2>2, <2>4, <2>5 DEF NoteRecord
<1>8. Len(t) = Len(s)
  BY <1>1, <1>3, <1>4
<1> QED BY <1>4, <1>5, <1>6, <1>7, <1>8 DEF t

(* A sequence with one element put before it. *)
LEMMA PutFirst ==
  ASSUME NEW S, NEW u \in Seq(S), NEW s \in Seq(S), Len(u) = 1
  PROVE  /\ u \o s \in Seq(S) /\ Len(u \o s) = 1 + Len(s) /\ (u \o s)[1] = u[1]
         /\ \A i \in 1..Len(s) : (u \o s)[i + 1] = s[i]
<1>1. Len(u) \in Nat /\ Len(s) \in Nat
  OBVIOUS
<1>2. u \o s \in Seq(S) /\ Len(u \o s) = Len(u) + Len(s)
  BY ONLY u \in Seq(S), s \in Seq(S)
<1>3. \A i \in 1..(Len(u) + Len(s)) :
        (u \o s)[i] = IF i <= Len(u) THEN u[i] ELSE s[i - Len(u)]
  BY ONLY u \in Seq(S), s \in Seq(S)
<1>4. ASSUME NEW i \in 1..Len(s) PROVE (u \o s)[i + 1] = s[i]
  <2>1. i + 1 \in 1..(Len(u) + Len(s)) /\ ~(i + 1 <= Len(u)) /\ (i + 1) - Len(u) = i
    BY <1>1
  <2> QED BY <1>3, <2>1
<1>5. (u \o s)[1] = u[1]
  BY <1>1, <1>3
<1> QED BY <1>1, <1>2, <1>4, <1>5

(* A note with a new id changes no other note. *)
LEMMA NoteAdded ==
  ASSUME NEW s \in Seq(NoteRecord), OneNoteEach(s), NEW r \in NoteRecord, r.id \notin IdsOf(s),
         NEW t, t = Append(s, r) \/ t = <<r>> \o s
  PROVE  /\ t \in Seq(NoteRecord) /\ t # <<>> /\ OneNoteEach(t) /\ IdsOf(t) = IdsOf(s) \cup {r.id}
         /\ \A x \in IdsOf(s) : NoteOf(t, x) = NoteOf(s, x)
<1>1. Len(s) \in Nat /\ DOMAIN s = 1..Len(s)
  OBVIOUS
<1>2. \E k \in 1..(Len(s) + 1), shift \in {0, 1} :
        /\ t \in Seq(NoteRecord) /\ Len(t) = Len(s) + 1 /\ t[k] = r
        /\ k = IF shift = 1 THEN 1 ELSE Len(s) + 1
        /\ \A i \in 1..Len(s) : t[i + shift] = s[i]
  <2>1. CASE t = Append(s, r)
    <3>1. t \in Seq(NoteRecord) /\ Len(t) = Len(s) + 1 /\ t[Len(s) + 1] = r
          /\ \A i \in 1..Len(s) : t[i + 0] = s[i]
      BY <1>1, <2>1
    <3> QED BY <1>1, <3>1
  <2>2. CASE t = <<r>> \o s
    <3>1. PICK u : u = <<r>>
      OBVIOUS
    <3>2. u \in Seq(NoteRecord) /\ Len(u) = 1 /\ u[1] = r
      BY <3>1
    <3>3. t = u \o s
      BY <2>2, <3>1
    <3>4. t \in Seq(NoteRecord) /\ Len(t) = 1 + Len(s) /\ t[1] = u[1]
          /\ \A i \in 1..Len(s) : t[i + 1] = s[i]
      BY <3>2, <3>3, PutFirst
    <3> QED BY <1>1, <3>2, <3>4
  <2> QED BY <2>1, <2>2
<1>3. PICK k \in 1..(Len(s) + 1), shift \in {0, 1} :
        /\ t \in Seq(NoteRecord) /\ Len(t) = Len(s) + 1 /\ t[k] = r
        /\ k = IF shift = 1 THEN 1 ELSE Len(s) + 1
        /\ \A i \in 1..Len(s) : t[i + shift] = s[i]
  BY <1>2
<1>4. DOMAIN t = 1..(Len(s) + 1)
  BY <1>3
<1>5. ASSUME NEW i \in DOMAIN t
      PROVE  i = k \/ (i - shift \in DOMAIN s /\ t[i] = s[i - shift])
  <2>1. CASE i = k
    BY <2>1
  <2>2. CASE i # k
    <3>1. i - shift \in 1..Len(s) /\ (i - shift) + shift = i
      BY <1>1, <1>3, <1>4, <2>2
    <3> QED BY <1>1, <1>3, <3>1
  <2> QED BY <2>1, <2>2
<1>6. ASSUME NEW i \in DOMAIN s PROVE i + shift \in DOMAIN t /\ t[i + shift] = s[i]
  BY <1>1, <1>3, <1>4
<1>7. OneNoteEach(t)
  <2> SUFFICES ASSUME NEW i \in DOMAIN t, NEW j \in DOMAIN t, t[i].id = t[j].id PROVE i = j
    BY DEF OneNoteEach
  <2>1. \A h \in DOMAIN s : s[h].id # r.id
    BY DEF IdsOf
  <2>2. CASE i = k
    BY <1>3, <1>5, <2>1, <2>2
  <2>3. CASE j = k
    BY <1>3, <1>5, <2>1, <2>3
  <2>4. CASE i # k /\ j # k
    <3>1. i - shift \in DOMAIN s /\ j - shift \in DOMAIN s /\ s[i - shift].id = s[j - shift].id
      BY <1>5, <2>4
    <3>2. i - shift = j - shift
      BY <3>1 DEF OneNoteEach
    <3> QED BY <1>4, <3>2
  <2> QED BY <2>2, <2>3, <2>4
<1>8. IdsOf(t) = IdsOf(s) \cup {r.id}
  <2>1. k \in DOMAIN t
    BY <1>4
  <2>2. ASSUME NEW i \in DOMAIN t PROVE t[i].id \in IdsOf(s) \cup {r.id}
    BY <1>3, <1>5 DEF IdsOf
  <2>3. ASSUME NEW i \in DOMAIN s PROVE s[i].id \in IdsOf(t)
    BY <1>6 DEF IdsOf
  <2>4. r.id \in IdsOf(t)
    BY <1>3, <2>1 DEF IdsOf
  <2> QED BY <2>2, <2>3, <2>4 DEF IdsOf
<1>9. ASSUME NEW x \in IdsOf(s) PROVE NoteOf(t, x) = NoteOf(s, x)
  <2>1. PICK i \in DOMAIN s : s[i].id = x
    BY DEF IdsOf
  <2>2. NoteOf(s, x) = s[i]
    BY <2>1, NoteFound
  <2>3. NoteOf(t, x) = t[i + shift]
    BY <1>6, <1>7, <2>1, NoteFound
  <2> QED BY <1>6, <2>2, <2>3
<1>10. t # <<>>
  BY <1>3, <1>1
<1> QED BY <1>3, <1>7, <1>8, <1>9, <1>10

(* A note that is deleted changes no other note. *)
LEMMA NoteGone ==
  ASSUME NEW s \in Seq(NoteRecord), OneNoteEach(s), NEW p \in DOMAIN s
  PROVE  /\ RemoveAt(s, p) \in Seq(NoteRecord) /\ Len(RemoveAt(s, p)) = Len(s) - 1
         /\ OneNoteEach(RemoveAt(s, p))
         /\ IdsOf(RemoveAt(s, p)) \subseteq IdsOf(s)
         /\ \A x \in IdsOf(RemoveAt(s, p)) : NoteOf(RemoveAt(s, p), x) = NoteOf(s, x)
<1>1. Len(s) \in Nat /\ DOMAIN s = 1..Len(s)
  OBVIOUS
<1>2. PICK t : t = RemoveAt(s, p)
  OBVIOUS
<1>3. /\ t \in Seq(NoteRecord) /\ Len(t) = Len(s) - 1 /\ DOMAIN t = 1..(Len(s) - 1)
      /\ \A i \in 1..(Len(s) - 1) : t[i] = IF i < p THEN s[i] ELSE s[i + 1]
  BY <1>1, <1>2, Removed
<1>4. ASSUME NEW i \in DOMAIN t
      PROVE  \E h \in DOMAIN s : t[i] = s[h] /\ h = IF i < p THEN i ELSE i + 1
  BY <1>1, <1>3
<1>5. OneNoteEach(t)
  <2> SUFFICES ASSUME NEW i \in DOMAIN t, NEW j \in DOMAIN t, t[i].id = t[j].id PROVE i = j
    BY DEF OneNoteEach
  <2>1. PICK h \in DOMAIN s : t[i] = s[h] /\ h = IF i < p THEN i ELSE i + 1
    BY <1>4
  <2>2. PICK g \in DOMAIN s : t[j] = s[g] /\ g = IF j < p THEN j ELSE j + 1
    BY <1>4
  <2>3. h = g
    BY <2>1, <2>2 DEF OneNoteEach
  <2> QED BY <1>1, <1>3, <2>1, <2>2, <2>3
<1>6. ASSUME NEW x \in IdsOf(t) PROVE x \in IdsOf(s) /\ NoteOf(t, x) = NoteOf(s, x)
  <2>1. PICK i \in DOMAIN t : t[i].id = x
    BY DEF IdsOf
  <2>2. PICK h \in DOMAIN s : t[i] = s[h]
    BY <1>4
  <2>3. NoteOf(t, x) = t[i]
    BY <1>5, <2>1, NoteFound
  <2>4. NoteOf(s, x) = s[h] /\ x \in IdsOf(s)
    BY <2>1, <2>2, NoteFound
  <2> QED BY <2>2, <2>3, <2>4
<1> QED BY <1>2, <1>3, <1>5, <1>6

(* The encryptions of a note that was edited are marked, and nothing else. *)
LEMMA EditedOps ==
  ASSUME NEW ops \in Seq(Locking), NEW id
  PROVE  /\ Edited(ops, id) \in Seq(Locking) /\ DOMAIN Edited(ops, id) = DOMAIN ops
         /\ \A i \in DOMAIN ops :
              /\ Edited(ops, id)[i].id = ops[i].id /\ Edited(ops, id)[i].text = ops[i].text
              /\ ~Edited(ops, id)[i].edited => ~ops[i].edited /\ ops[i].id # id
<1>1. DOMAIN ops = 1..Len(ops) /\ Len(ops) \in Nat /\ \A i \in DOMAIN ops : ops[i] \in Locking
  OBVIOUS
<1>2. PICK e : e = Edited(ops, id)
  OBVIOUS
<1>3. ASSUME NEW i \in DOMAIN ops
      PROVE  /\ e[i] \in Locking /\ e[i].id = ops[i].id /\ e[i].text = ops[i].text
             /\ ~e[i].edited => ~ops[i].edited /\ ops[i].id # id
  <2>1. PICK b \in BOOLEAN : b = (ops[i].edited \/ ops[i].id = id)
    OBVIOUS
  <2>2. e[i] = [ops[i] EXCEPT !.edited = b]
    BY <1>2, <2>1 DEF Edited
  <2>3. e[i] \in Locking /\ e[i].id = ops[i].id /\ e[i].text = ops[i].text /\ e[i].edited = b
    BY <1>1, <2>2 DEF Locking
  <2>4. ~b => ~ops[i].edited /\ ops[i].id # id
    BY <2>1
  <2> QED BY <2>3, <2>4
<1>4. DOMAIN e = DOMAIN ops
  BY <1>2 DEF Edited
<1>5. e \in Seq(Locking)
  <2>1. e = [i \in DOMAIN ops |-> e[i]]
    BY <1>2 DEF Edited
  <2>2. e \in [1..Len(ops) -> Locking]
    BY <1>1, <1>3, <2>1
  <2> QED BY <1>1, <2>2
<1> QED BY <1>2, <1>3, <1>4, <1>5

BlobsKept == \A id \in IdsOf(notes) \cap IdsOf(notes') : NoteOf(notes', id).blob = NoteOf(notes, id).blob

(* The active note is one of the list. *)
LEMMA ActiveIsThere ==
  ASSUME NotesInv
  PROVE  /\ Active \in IdsOf(notes) /\ Active \in NoteIds /\ Active \in usedIds
         /\ Note(Active) = NoteOf(notes, Active) /\ NoteOf(notes, Active) \in NoteRecord
         /\ IsEncrypted(Active) <=> NoteOf(notes, Active).blob # NoBlob
<1>1. notes \in Seq(NoteRecord) /\ 1 \in DOMAIN notes /\ IdsOf(notes) \subseteq usedIds
  BY DEF NotesInv, NotesTypeOK
<1>2. Active \in IdsOf(notes)
  BY <1>1 DEF Active, Ids, IdsOf
<1>3. NoteOf(notes, Active) \in NoteRecord /\ NoteOf(notes, Active).id = Active
  BY <1>1, <1>2, NoteIsRecord
<1>4. Active \in NoteIds
  BY <1>3 DEF NoteRecord
<1>5. Note(Active) = NoteOf(notes, Active)
  BY DEF Note, NoteOf
<1> QED BY <1>1, <1>2, <1>3, <1>4, <1>5 DEF IsEncrypted

(* Setting the text of a note marks what is under way for it. *)
LEMMA ContentEdited ==
  ASSUME NotesInv, NEW id, NEW c \in Contents, UpdateContent(id, c), UNCHANGED <<decrypting, usedIds>>,
         snapshots' \in Seq(Contents), reading' \in SUBSET [id : NoteIds, text : Contents]
  PROVE  NotesInv' /\ BlobsKept
<1>1. /\ notes \in Seq(NoteRecord) /\ notes # <<>> /\ OneNoteEach(notes) /\ encrypting \in Seq(Locking)
      /\ IdsOf(notes) \subseteq usedIds
  BY DEF NotesInv, NotesTypeOK
<1>2. /\ Edited(encrypting, id) \in Seq(Locking)
      /\ DOMAIN Edited(encrypting, id) = DOMAIN encrypting
      /\ \A i \in DOMAIN encrypting :
           /\ Edited(encrypting, id)[i].id = encrypting[i].id
           /\ Edited(encrypting, id)[i].text = encrypting[i].text
           /\ ~Edited(encrypting, id)[i].edited => ~encrypting[i].edited /\ encrypting[i].id # id
  BY <1>1, EditedOps
<1>3. encrypting' = Edited(encrypting, id)
  BY DEF UpdateContent
<1>4. /\ notes' \in Seq(NoteRecord) /\ notes' # <<>> /\ OneNoteEach(notes')
      /\ IdsOf(notes') = IdsOf(notes)
      /\ \A x \in IdsOf(notes) :
           /\ NoteOf(notes', x).blob = NoteOf(notes, x).blob
           /\ x # id => NoteOf(notes', x) = NoteOf(notes, x)
  <2>1. CASE id \in Ids
    <3>1. id \in IdsOf(notes)
      BY <2>1 DEF Ids, IdsOf
    <3>2. PICK b : b = NoteOf(notes, id).blob
      OBVIOUS
    <3>3. b \in Blob \cup {NoBlob}
      BY <1>1, <3>1, <3>2, NoteIsRecord DEF NoteRecord
    <3>4. notes' = WithNote(notes, id, c, b)
      BY <2>1, <3>2 DEF UpdateContent, SetNote, WithNote, Note, NoteOf
    <3>5. PICK t : t = notes'
      OBVIOUS
    <3>6. /\ t \in Seq(NoteRecord) /\ Len(t) = Len(notes) /\ OneNoteEach(t)
          /\ IdsOf(t) = IdsOf(notes)
          /\ \A x \in IdsOf(notes) :
               /\ x = id => NoteOf(t, x).content = c /\ NoteOf(t, x).blob = b
               /\ x # id => NoteOf(t, x) = NoteOf(notes, x)
      <4>1. t = WithNote(notes, id, c, b)
        BY <3>4, <3>5
      <4>2. PICK s : s = notes
        OBVIOUS
      <4>3. s \in Seq(NoteRecord) /\ OneNoteEach(s) /\ t = WithNote(s, id, c, b)
        BY <1>1, <4>1, <4>2
      <4>4. LET u == WithNote(s, id, c, b)
            IN  /\ u \in Seq(NoteRecord) /\ Len(u) = Len(s) /\ OneNoteEach(u)
                /\ IdsOf(u) = IdsOf(s)
                /\ \A x \in IdsOf(s) :
                     /\ x = id => NoteOf(u, x).content = c /\ NoteOf(u, x).blob = b
                     /\ x # id => NoteOf(u, x) = NoteOf(s, x)
        BY <3>3, <4>3, NoteSet, Zenon
      <4> QED BY <4>2, <4>3, <4>4
    <3>7. t # <<>>
      BY <1>1, <3>6
    <3>8. ASSUME NEW x \in IdsOf(notes) PROVE NoteOf(t, x).blob = NoteOf(notes, x).blob
      BY <3>2, <3>6
    <3> QED BY <3>5, <3>6, <3>7, <3>8
  <2>2. CASE id \notin Ids
    BY <1>1, <2>2 DEF UpdateContent
  <2> QED BY <2>1, <2>2
<1>5. NotesTypeOK'
  BY <1>2, <1>3, <1>4 DEF NotesInv, NotesTypeOK
<1>6. LocksKnow(notes', encrypting')
  <2> SUFFICES ASSUME NEW i \in DOMAIN encrypting', encrypting'[i].id \in IdsOf(notes'),
                      ~encrypting'[i].edited, NoteOf(notes', encrypting'[i].id).blob = NoBlob
               PROVE  encrypting'[i].text = NoteOf(notes', encrypting'[i].id).content
    BY DEF LocksKnow
  <2>1. /\ i \in DOMAIN encrypting /\ encrypting'[i].id = encrypting[i].id
        /\ encrypting'[i].text = encrypting[i].text /\ ~encrypting[i].edited /\ encrypting[i].id # id
    BY <1>2, <1>3
  <2>2. NoteOf(notes', encrypting[i].id) = NoteOf(notes, encrypting[i].id)
    BY <1>4, <2>1
  <2>3. encrypting[i].text = NoteOf(notes, encrypting[i].id).content
    BY <1>4, <2>1, <2>2 DEF NotesInv, LocksKnow
  <2> QED BY <2>1, <2>2, <2>3
<1>7. UnlocksKnow(notes', decrypting')
  BY <1>4 DEF NotesInv, UnlocksKnow
<1>8. /\ \A i \in DOMAIN encrypting' : encrypting'[i].id \in usedIds'
      /\ \A d \in decrypting' : d.id \in usedIds'
  BY <1>2, <1>3 DEF NotesInv
<1> QED BY <1>1, <1>4, <1>5, <1>6, <1>7, <1>8 DEF NotesInv, BlobsKept

(* What touches no note and starts nothing. *)
LEMMA NotesAlone ==
  ASSUME NotesInv, UNCHANGED <<notes, usedIds>>, UNCHANGED encrypting \/ encrypting' = <<>>,
         UNCHANGED decrypting \/ decrypting' = {},
         snapshots' \in Seq(Contents), reading' \in SUBSET [id : NoteIds, text : Contents]
  PROVE  NotesInv' /\ BlobsKept
<1>1. NotesTypeOK'
  <2>1. encrypting' \in Seq(Locking) /\ decrypting' \in SUBSET Unlocking
    <3>1. encrypting \in Seq(Locking) /\ decrypting \in SUBSET Unlocking
      BY DEF NotesInv, NotesTypeOK
    <3>2. <<>> \in Seq(Locking) /\ {} \in SUBSET Unlocking
      OBVIOUS
    <3> QED BY <3>1, <3>2
  <2>2. notes' \in Seq(NoteRecord) /\ notes' # <<>>
    BY DEF NotesInv, NotesTypeOK
  <2> QED BY <2>1, <2>2 DEF NotesTypeOK
<1>2. /\ \A i \in DOMAIN encrypting' : encrypting'[i].id \in usedIds'
      /\ \A d \in decrypting' : d.id \in usedIds'
  BY DEF NotesInv
<1>3. LocksKnow(notes', encrypting')
  <2>1. LocksKnow(notes, encrypting)
    BY DEF NotesInv
  <2>2. LocksKnow(notes, <<>>)
    BY DEF LocksKnow
  <2> QED BY <2>1, <2>2
<1>4. UnlocksKnow(notes', decrypting')
  <2>1. UnlocksKnow(notes, decrypting)
    BY DEF NotesInv
  <2>2. UnlocksKnow(notes, {})
    BY DEF UnlocksKnow
  <2> QED BY <2>1, <2>2
<1>5. OneNoteEach(notes') /\ IdsOf(notes') \subseteq usedIds'
  <2>1. OneNoteEach(notes) /\ IdsOf(notes) \subseteq usedIds
    BY DEF NotesInv
  <2> QED BY <2>1
<1>6. BlobsKept
  BY DEF BlobsKept
<1> QED BY <1>1, <1>2, <1>3, <1>4, <1>5, <1>6 DEF NotesInv

(* Typing and restoring a snapshot. *)
LEMMA EditKeeps ==
  ASSUME NotesInv,
         \/ \E c \in Contents : EditNote(c)
         \/ \E i \in DOMAIN snapshots : RestoreSnapshot(i)
  PROVE  NotesInv' /\ BlobsKept
<1>1. snapshots \in Seq(Contents) /\ reading \in SUBSET [id : NoteIds, text : Contents]
  BY DEF NotesInv, NotesTypeOK
<1>2. ASSUME NEW c \in Contents, EditNote(c) PROVE NotesInv' /\ BlobsKept
  <2>1. UpdateContent(Active, c) /\ UNCHANGED <<decrypting, usedIds, snapshots, reading>>
    BY <1>2 DEF EditNote
  <2> QED BY <1>1, <2>1, ContentEdited
<1>3. ASSUME NEW i \in DOMAIN snapshots, RestoreSnapshot(i) PROVE NotesInv' /\ BlobsKept
  <2>1. UpdateContent(Active, snapshots[i]) /\ UNCHANGED <<decrypting, usedIds, snapshots, reading>>
    BY <1>3 DEF RestoreSnapshot
  <2>2. snapshots[i] \in Contents
    BY <1>1
  <2> QED BY <1>1, <2>1, <2>2, ContentEdited
<1> QED BY <1>2, <1>3

(* The text of an image that was read, also into a note that is not active. *)
LEMMA ImageReadKeeps ==
  ASSUME NotesInv, NEW r \in reading, ImageRead(r) PROVE NotesInv' /\ BlobsKept
<1>1. snapshots \in Seq(Contents) /\ r \in [id : NoteIds, text : Contents]
  BY DEF NotesInv, NotesTypeOK
<1>2. InsertImage[r.text] \in Contents
  BY <1>1, ContentsAssumption DEF ContentsAssumption
<1>3. UNCHANGED <<decrypting, usedIds, snapshots>> /\ reading' = {}
  BY DEF ImageRead
<1>4. CASE IsEncrypted(Active)
  <2>1. UNCHANGED <<notes, encrypting>>
    BY <1>4 DEF ImageRead
  <2> QED BY <1>1, <1>3, <2>1, NotesAlone
<1>5. CASE ~IsEncrypted(Active)
  <2>1. UpdateContent(r.id, InsertImage[r.text])
    BY <1>5 DEF ImageRead
  <2> QED BY <1>1, <1>2, <1>3, <2>1, ContentEdited
<1> QED BY <1>4, <1>5

(* What changes no note. *)
LEMMA AloneKeeps ==
  ASSUME NotesInv,
         \/ AutoSnapshot \/ DropImage \/ LeavePage \/ UNCHANGED noteVars
         \/ \E id \in Ids : SelectNote(id)
         \/ \E open \in BOOLEAN : VaultModal(open)
  PROVE  NotesInv' /\ BlobsKept
<1>1. snapshots \in Seq(Contents) /\ reading \in SUBSET [id : NoteIds, text : Contents]
  BY DEF NotesInv, NotesTypeOK
<1>2. CASE AutoSnapshot
  <2>1. Note(Active).content \in Contents
    BY ActiveIsThere DEF NoteRecord
  <2>2. PICK all : all = <<Note(Active).content>> \o snapshots
    OBVIOUS
  <2>3. all \in Seq(Contents)
    BY <1>1, <2>1, <2>2
  <2>4. snapshots' = IF Len(all) <= MaxSnapshots THEN all ELSE SubSeq(all, 1, MaxSnapshots)
    BY <1>2, <2>2 DEF AutoSnapshot
  <2>5. snapshots' \in Seq(Contents)
    <3>1. CASE Len(all) <= MaxSnapshots
      BY <2>3, <2>4, <3>1
    <3>2. CASE ~(Len(all) <= MaxSnapshots)
      BY <2>3, <2>4, <3>2, ContentsAssumption DEF ContentsAssumption
    <3> QED BY <3>1, <3>2
  <2>6. UNCHANGED <<notes, usedIds, encrypting, decrypting, reading>>
    BY <1>2 DEF AutoSnapshot
  <2> QED BY <1>1, <2>5, <2>6, NotesAlone
<1>3. CASE DropImage
  <2>1. Active \in NoteIds /\ Note(Active).content \in Contents
    BY ActiveIsThere DEF NoteRecord
  <2>2. reading' \in SUBSET [id : NoteIds, text : Contents]
        /\ UNCHANGED <<notes, usedIds, encrypting, decrypting, snapshots>>
    BY <1>3, <2>1 DEF DropImage
  <2> QED BY <1>1, <2>2, NotesAlone
<1>4. CASE LeavePage
  <2>1. UNCHANGED <<notes, usedIds, snapshots>> /\ encrypting' = <<>> /\ decrypting' = {}
        /\ reading' = {}
    BY <1>4 DEF LeavePage
  <2> QED BY <1>1, <2>1, NotesAlone
<1>5. CASE \/ UNCHANGED noteVars \/ \E id \in Ids : SelectNote(id)
           \/ \E open \in BOOLEAN : VaultModal(open)
  <2>1. UNCHANGED <<notes, usedIds, encrypting, decrypting, snapshots, reading>>
    BY <1>5 DEF noteVars, SelectNote, VaultModal
  <2> QED BY <1>1, <2>1, NotesAlone
<1> QED BY <1>2, <1>3, <1>4, <1>5

(* A new note, from the page or from a file. *)
LEMMA AddNoteKeeps ==
  ASSUME NotesInv, NEW id \in NoteIds, NEW c \in Contents, NEW atEnd \in BOOLEAN,
         AddNote(id, c, atEnd)
  PROVE  NotesInv' /\ BlobsKept
<1>1. /\ notes \in Seq(NoteRecord) /\ OneNoteEach(notes) /\ id \notin IdsOf(notes)
      /\ IdsOf(notes) \subseteq usedIds /\ usedIds' = usedIds \cup {id}
      /\ UNCHANGED <<snapshots, encrypting, decrypting, reading>> /\ id \notin usedIds
  BY DEF NotesInv, NotesTypeOK, AddNote
<1>2. Fresh(id, c) \in NoteRecord /\ Fresh(id, c).id = id
  BY DEF Fresh, NoteRecord
<1>3. PICK t : t = notes'
  OBVIOUS
<1>4. t = Append(notes, Fresh(id, c)) \/ t = <<Fresh(id, c)>> \o notes
  BY <1>3 DEF AddNote
<1>5. /\ t \in Seq(NoteRecord) /\ t # <<>> /\ OneNoteEach(t) /\ IdsOf(t) = IdsOf(notes) \cup {id}
      /\ \A x \in IdsOf(notes) : NoteOf(t, x) = NoteOf(notes, x)
  <2>1. PICK s, r : s = notes /\ r = Fresh(id, c)
    OBVIOUS
  <2>2. s \in Seq(NoteRecord) /\ OneNoteEach(s) /\ r \in NoteRecord /\ r.id = id
        /\ r.id \notin IdsOf(s) /\ (t = Append(s, r) \/ t = <<r>> \o s)
    BY <1>1, <1>2, <1>4, <2>1
  <2>3. /\ t \in Seq(NoteRecord) /\ t # <<>> /\ OneNoteEach(t)
        /\ IdsOf(t) = IdsOf(s) \cup {r.id}
        /\ \A x \in IdsOf(s) : NoteOf(t, x) = NoteOf(s, x)
    BY ONLY <2>2, NoteAdded, ZenonT(60)
  <2> QED BY <2>1, <2>2, <2>3
<1>6. NotesTypeOK'
  BY <1>1, <1>3, <1>5 DEF NotesInv, NotesTypeOK
<1>7. LocksKnow(t, encrypting)
  <2> SUFFICES ASSUME NEW i \in DOMAIN encrypting, encrypting[i].id \in IdsOf(t),
                      ~encrypting[i].edited, NoteOf(t, encrypting[i].id).blob = NoBlob
               PROVE  encrypting[i].text = NoteOf(t, encrypting[i].id).content
    BY DEF LocksKnow
  <2>1. encrypting[i].id \in IdsOf(notes)
    BY <1>1, <1>5 DEF NotesInv
  <2> QED BY <1>5, <2>1 DEF NotesInv, LocksKnow
<1>8. UnlocksKnow(t, decrypting)
  <2> SUFFICES ASSUME NEW d \in decrypting, d.id \in IdsOf(t), ~d.resealed,
                      NoteOf(t, d.id).blob # NoBlob
               PROVE  d.blob = NoteOf(t, d.id).blob
    BY DEF UnlocksKnow
  <2>1. d.id \in IdsOf(notes)
    BY <1>1, <1>5 DEF NotesInv
  <2> QED BY <1>5, <2>1 DEF NotesInv, UnlocksKnow
<1>9. LocksKnow(notes', encrypting') /\ UnlocksKnow(notes', decrypting')
  BY <1>1, <1>3, <1>7, <1>8
<1>10. /\ \A i \in DOMAIN encrypting' : encrypting'[i].id \in usedIds'
       /\ \A d \in decrypting' : d.id \in usedIds'
  BY <1>1 DEF NotesInv
<1> QED BY <1>1, <1>3, <1>5, <1>6, <1>9, <1>10 DEF NotesInv, BlobsKept

(* A note is deleted, whatever is under way for it. *)
LEMMA DeleteNoteKeeps ==
  ASSUME NotesInv, NEW id \in Ids, DeleteNote(id) PROVE NotesInv' /\ BlobsKept
<1>1. /\ notes \in Seq(NoteRecord) /\ OneNoteEach(notes) /\ Len(notes) > 1
      /\ IdsOf(notes) \subseteq usedIds
      /\ UNCHANGED <<snapshots, encrypting, decrypting, reading, usedIds>>
  BY DEF NotesInv, NotesTypeOK, DeleteNote
<1>2. PICK p : p = CHOOSE i \in DOMAIN notes : notes[i].id = id
  OBVIOUS
<1>3. p \in DOMAIN notes
  BY <1>2 DEF Ids
<1>4. PICK t : t = notes'
  OBVIOUS
<1>5. t = RemoveAt(notes, p)
  BY <1>2, <1>4 DEF DeleteNote
<1>6. /\ t \in Seq(NoteRecord) /\ Len(t) = Len(notes) - 1 /\ OneNoteEach(t)
      /\ IdsOf(t) \subseteq IdsOf(notes)
      /\ \A x \in IdsOf(t) : NoteOf(t, x) = NoteOf(notes, x)
  BY <1>1, <1>3, <1>5, NoteGone
<1>7. t # <<>>
  BY <1>1, <1>6
<1>8. NotesTypeOK'
  BY <1>1, <1>4, <1>6, <1>7 DEF NotesInv, NotesTypeOK
<1>9. LocksKnow(t, encrypting) /\ UnlocksKnow(t, decrypting)
  BY <1>6 DEF NotesInv, LocksKnow, UnlocksKnow
<1> QED BY <1>1, <1>4, <1>6, <1>8, <1>9 DEF NotesInv, BlobsKept

(* An encryption starts with the text of the moment. *)
LEMMA LockNoteKeeps ==
  ASSUME NotesInv, NEW p \in NotePasswords, LockNote(p) PROVE NotesInv' /\ BlobsKept
<1> DEFINE op == [id |-> Active, text |-> Note(Active).content, password |-> p, edited |-> FALSE]
<1>1. /\ UNCHANGED <<notes, snapshots, decrypting, reading, usedIds>>
      /\ encrypting' = Append(encrypting, op) /\ encrypting \in Seq(Locking)
  BY DEF LockNote, NotesInv, NotesTypeOK
<1>2. op \in Locking /\ op.text = NoteOf(notes, op.id).content /\ op.id \in usedIds
  BY ActiveIsThere DEF Locking, NoteRecord
<1> HIDE DEF op
<1>3. /\ encrypting' \in Seq(Locking) /\ DOMAIN encrypting' = 1..(Len(encrypting) + 1)
      /\ DOMAIN encrypting = 1..Len(encrypting) /\ Len(encrypting) \in Nat
      /\ encrypting'[Len(encrypting) + 1] = op
      /\ \A i \in 1..Len(encrypting) : encrypting'[i] = encrypting[i]
  BY <1>1, <1>2
<1>4. ASSUME NEW i \in DOMAIN encrypting'
      PROVE  encrypting'[i] = op \/ (i \in DOMAIN encrypting /\ encrypting'[i] = encrypting[i])
  BY <1>3
<1>5. LocksKnow(notes, encrypting')
  <2>1. LocksKnow(notes, encrypting)
    BY DEF NotesInv
  <2> QED BY <1>2, <1>4, <2>1 DEF LocksKnow
<1>6. \A i \in DOMAIN encrypting' : encrypting'[i].id \in usedIds
  BY <1>2, <1>4 DEF NotesInv
<1>7. NotesTypeOK'
  BY <1>1, <1>3 DEF NotesInv, NotesTypeOK
<1>8. /\ OneNoteEach(notes') /\ IdsOf(notes') \subseteq usedIds' /\ LocksKnow(notes', encrypting')
      /\ UnlocksKnow(notes', decrypting') /\ \A d \in decrypting' : d.id \in usedIds'
  <2>1. OneNoteEach(notes) /\ IdsOf(notes) \subseteq usedIds /\ UnlocksKnow(notes, decrypting)
        /\ \A d \in decrypting : d.id \in usedIds
    BY DEF NotesInv
  <2> QED BY <1>1, <1>5, <2>1
<1>9. BlobsKept
  BY <1>1 DEF BlobsKept
<1> QED BY <1>1, <1>6, <1>7, <1>8, <1>9 DEF NotesInv

(* A decryption starts with what the note holds. *)
LEMMA UnlockNoteKeeps ==
  ASSUME NotesInv, NEW p \in NotePasswords, UnlockNote(p) PROVE NotesInv' /\ BlobsKept
<1> DEFINE op == [id |-> Active, blob |-> Note(Active).blob, password |-> p, resealed |-> FALSE]
<1>1. /\ UNCHANGED <<notes, snapshots, encrypting, reading, usedIds>> /\ decrypting' = {op}
      /\ IsEncrypted(Active)
  BY DEF UnlockNote
<1>2. op \in Unlocking /\ op.blob = NoteOf(notes, op.id).blob /\ op.id \in usedIds
  BY <1>1, ActiveIsThere DEF Unlocking, NoteRecord
<1> HIDE DEF op
<1>3. NotesTypeOK'
  BY <1>1, <1>2 DEF NotesInv, NotesTypeOK
<1>4. UnlocksKnow(notes, decrypting') /\ \A d \in decrypting' : d.id \in usedIds
  BY <1>1, <1>2 DEF UnlocksKnow
<1>5. /\ OneNoteEach(notes') /\ IdsOf(notes') \subseteq usedIds' /\ LocksKnow(notes', encrypting')
      /\ UnlocksKnow(notes', decrypting')
      /\ \A i \in DOMAIN encrypting' : encrypting'[i].id \in usedIds'
  <2>1. OneNoteEach(notes) /\ IdsOf(notes) \subseteq usedIds /\ LocksKnow(notes, encrypting)
        /\ \A i \in DOMAIN encrypting : encrypting[i].id \in usedIds
    BY DEF NotesInv
  <2> QED BY <1>1, <1>4, <2>1
<1>6. BlobsKept
  BY <1>1 DEF BlobsKept
<1> QED BY <1>1, <1>3, <1>4, <1>5, <1>6 DEF NotesInv

(* What the property says of a step. *)
TextKept ==
  \A id \in IdsOf(notes) \cap IdsOf(notes') :
    /\ NoteOf(notes, id).blob = NoBlob /\ NoteOf(notes', id).blob # NoBlob =>
         \/ NoteOf(notes', id).blob.text = NoteOf(notes, id).content
         \/ \E i \in DOMAIN encrypting : encrypting[i].id = id /\ encrypting[i].edited
    /\ NoteOf(notes, id).blob # NoBlob /\ NoteOf(notes', id).blob = NoBlob =>
         \/ NoteOf(notes', id).content = NoteOf(notes, id).blob.text
         \/ \E d \in decrypting : d.id = id /\ d.resealed

(* A step that locks and unlocks no note. *)
LEMMA BlobsKeptTextKept == BlobsKept => TextKept
BY DEF BlobsKept, TextKept

Resealed(ops, id) == {[d EXCEPT !.resealed = @ \/ d.id = id] : d \in ops}

(* The decryptions of a note that is locked anew are marked. *)
LEMMA ResealedOps ==
  ASSUME NEW ops \in SUBSET Unlocking, NEW id, NEW e \in Resealed(ops, id)
  PROVE  /\ e \in Unlocking
         /\ \E d \in ops : /\ e.id = d.id /\ e.blob = d.blob
                           /\ ~e.resealed => ~d.resealed /\ d.id # id
<1>1. PICK d \in ops : e = [d EXCEPT !.resealed = d.resealed \/ d.id = id]
  BY DEF Resealed
<1>2. PICK b \in BOOLEAN : b = (d.resealed \/ d.id = id)
  OBVIOUS
<1>3. e = [d EXCEPT !.resealed = b] /\ d \in Unlocking
  BY <1>1, <1>2
<1>4. e \in Unlocking /\ e.id = d.id /\ e.blob = d.blob /\ e.resealed = b
  BY <1>3 DEF Unlocking
<1>5. ~b => ~d.resealed /\ d.id # id
  BY <1>2
<1> QED BY <1>4, <1>5

(* An encryption ends: its note is sealed, whichever is active by now. *)
LEMMA NoteLockedKeeps ==
  ASSUME NotesInv, NEW p \in DOMAIN encrypting, NoteLocked(p) PROVE NotesInv' /\ TextKept
<1>1. /\ notes \in Seq(NoteRecord) /\ notes # <<>> /\ OneNoteEach(notes)
      /\ IdsOf(notes) \subseteq usedIds /\ encrypting \in Seq(Locking)
      /\ decrypting \in SUBSET Unlocking /\ UNCHANGED <<snapshots, reading, usedIds>>
  BY DEF NotesInv, NotesTypeOK, NoteLocked, Seal
<1>2. PICK op, id, rest : op = encrypting[p] /\ id = op.id /\ rest = RemoveAt(encrypting, p)
  OBVIOUS
<1>3. op \in Locking /\ id \in NoteIds /\ op.text \in Contents /\ op.password \in NotePasswords
  <2>1. encrypting[p] \in Locking
    BY <1>1
  <2> QED BY <1>2, <2>1 DEF Locking
<1>4. PICK b : b = [text |-> op.text, password |-> op.password]
  OBVIOUS
<1>5. b \in Blob /\ b # NoBlob /\ b.text = op.text
  BY <1>3, <1>4, ContentsAssumption DEF Blob, ContentsAssumption
<1>6. /\ encrypting' = Edited(rest, id)
      /\ IF id \in Ids THEN SetNote(id, EmptyText, b) ELSE UNCHANGED notes
      /\ decrypting' = Resealed(decrypting, id)
  BY <1>2, <1>4 DEF NoteLocked, Seal, Resealed
<1>7. /\ rest \in Seq(Locking)
      /\ \A i \in DOMAIN rest : \E h \in DOMAIN encrypting : rest[i] = encrypting[h]
  <2>1. DOMAIN encrypting = 1..Len(encrypting) /\ Len(encrypting) \in Nat
    BY <1>1
  <2>2. /\ rest \in Seq(Locking) /\ DOMAIN rest = 1..(Len(encrypting) - 1)
        /\ \A i \in 1..(Len(encrypting) - 1) :
             rest[i] = IF i < p THEN encrypting[i] ELSE encrypting[i + 1]
    BY <1>1, <1>2, <2>1, Removed
  <2>3. \A i \in 1..(Len(encrypting) - 1) : i \in 1..Len(encrypting) /\ i + 1 \in 1..Len(encrypting)
    BY <2>1
  <2> QED BY <2>1, <2>2, <2>3
<1>8. /\ encrypting' \in Seq(Locking)
      /\ \A i \in DOMAIN encrypting' : \E h \in DOMAIN encrypting :
           /\ encrypting'[i].id = encrypting[h].id /\ encrypting'[i].text = encrypting[h].text
           /\ ~encrypting'[i].edited => ~encrypting[h].edited /\ encrypting[h].id # id
  <2>1. /\ Edited(rest, id) \in Seq(Locking) /\ DOMAIN Edited(rest, id) = DOMAIN rest
        /\ \A i \in DOMAIN rest :
             /\ Edited(rest, id)[i].id = rest[i].id /\ Edited(rest, id)[i].text = rest[i].text
             /\ ~Edited(rest, id)[i].edited => ~rest[i].edited /\ rest[i].id # id
    BY <1>7, EditedOps
  <2> QED BY <1>6, <1>7, <2>1
<1>9. /\ decrypting' \in SUBSET Unlocking
      /\ \A e \in decrypting' : \E d \in decrypting :
           /\ e.id = d.id /\ e.blob = d.blob
           /\ ~e.resealed => ~d.resealed /\ d.id # id
  BY <1>1, <1>6, ResealedOps
<1>10. PICK t : t = notes'
  OBVIOUS
<1>11. /\ t \in Seq(NoteRecord) /\ t # <<>> /\ OneNoteEach(t) /\ IdsOf(t) = IdsOf(notes)
       /\ \A x \in IdsOf(notes) :
            /\ x = id => NoteOf(t, x).blob = b
            /\ x # id => NoteOf(t, x) = NoteOf(notes, x)
  <2>1. CASE id \in Ids
    <3>1. t = WithNote(notes, id, EmptyText, b)
      BY <1>6, <1>10, <2>1 DEF SetNote, WithNote
    <3>2. PICK s : s = notes
      OBVIOUS
    <3>3. s \in Seq(NoteRecord) /\ OneNoteEach(s) /\ t = WithNote(s, id, EmptyText, b)
          /\ EmptyText \in Contents /\ b \in Blob \cup {NoBlob}
      BY <1>1, <1>5, <3>1, <3>2, ContentsAssumption DEF ContentsAssumption
    <3>4. LET u == WithNote(s, id, EmptyText, b)
          IN  /\ u \in Seq(NoteRecord) /\ Len(u) = Len(s) /\ OneNoteEach(u)
              /\ IdsOf(u) = IdsOf(s)
              /\ \A x \in IdsOf(s) :
                   /\ x = id => NoteOf(u, x).content = EmptyText /\ NoteOf(u, x).blob = b
                   /\ x # id => NoteOf(u, x) = NoteOf(s, x)
      BY <3>3, NoteSet, Zenon
    <3>5. t # <<>>
      BY <1>1, <3>2, <3>3, <3>4
    <3> QED BY <3>2, <3>3, <3>4, <3>5
  <2>2. CASE id \notin Ids
    <3>1. t = notes
      BY <1>6, <1>10, <2>2
    <3>2. id \notin IdsOf(notes)
      BY <2>2 DEF Ids, IdsOf
    <3> QED BY <1>1, <3>1, <3>2
  <2> QED BY <2>1, <2>2
<1>12. NotesTypeOK'
  BY <1>1, <1>8, <1>9, <1>10, <1>11 DEF NotesInv, NotesTypeOK
<1>13. LocksKnow(t, encrypting')
  <2> SUFFICES ASSUME NEW i \in DOMAIN encrypting', encrypting'[i].id \in IdsOf(t),
                      ~encrypting'[i].edited, NoteOf(t, encrypting'[i].id).blob = NoBlob
               PROVE  encrypting'[i].text = NoteOf(t, encrypting'[i].id).content
    BY DEF LocksKnow
  <2>1. PICK h \in DOMAIN encrypting :
          /\ encrypting'[i].id = encrypting[h].id /\ encrypting'[i].text = encrypting[h].text
          /\ ~encrypting[h].edited /\ encrypting[h].id # id
    BY <1>8
  <2>2. NoteOf(t, encrypting[h].id) = NoteOf(notes, encrypting[h].id)
    BY <1>11, <2>1
  <2>3. encrypting[h].text = NoteOf(notes, encrypting[h].id).content
    BY <1>11, <2>1, <2>2 DEF NotesInv, LocksKnow
  <2> QED BY <2>1, <2>2, <2>3
<1>14. UnlocksKnow(t, decrypting')
  <2> SUFFICES ASSUME NEW e \in decrypting', e.id \in IdsOf(t), ~e.resealed,
                      NoteOf(t, e.id).blob # NoBlob
               PROVE  e.blob = NoteOf(t, e.id).blob
    BY DEF UnlocksKnow
  <2>1. PICK d \in decrypting : e.id = d.id /\ e.blob = d.blob /\ ~d.resealed /\ d.id # id
    BY <1>9
  <2>2. NoteOf(t, d.id) = NoteOf(notes, d.id)
    BY <1>11, <2>1
  <2>3. d.blob = NoteOf(notes, d.id).blob
    BY <1>11, <2>1, <2>2 DEF NotesInv, UnlocksKnow
  <2> QED BY <2>1, <2>2, <2>3
<1>15. /\ \A i \in DOMAIN encrypting' : encrypting'[i].id \in usedIds
       /\ \A d \in decrypting' : d.id \in usedIds
  BY <1>8, <1>9 DEF NotesInv
<1>16. NotesInv'
  BY <1>1, <1>10, <1>11, <1>12, <1>13, <1>14, <1>15 DEF NotesInv
<1>17. ASSUME NEW x \in IdsOf(notes), NoteOf(notes, x).blob = NoBlob, NoteOf(t, x).blob # NoBlob
       PROVE  \/ NoteOf(t, x).blob.text = NoteOf(notes, x).content
              \/ \E i \in DOMAIN encrypting : encrypting[i].id = x /\ encrypting[i].edited
  <2>1. x = id /\ NoteOf(t, x).blob = b
    BY <1>11, <1>17
  <2>2. CASE encrypting[p].edited
    BY <1>2, <2>1, <2>2
  <2>3. CASE ~encrypting[p].edited
    <3>1. encrypting[p].text = NoteOf(notes, x).content
      BY <1>2, <1>17, <2>1, <2>3 DEF NotesInv, LocksKnow
    <3> QED BY <1>2, <1>5, <2>1, <3>1
  <2> QED BY <2>2, <2>3
<1>18. ASSUME NEW x \in IdsOf(notes), NoteOf(notes, x).blob # NoBlob PROVE NoteOf(t, x).blob # NoBlob
  BY <1>5, <1>11, <1>18
<1>19. TextKept
  BY <1>10, <1>17, <1>18 DEF TextKept
<1> QED BY <1>16, <1>19

(* A decryption ends: its note is opened, whichever is active by now. *)
LEMMA NoteUnlockedKeeps ==
  ASSUME NotesInv, NEW d \in decrypting, NoteUnlocked(d) PROVE NotesInv' /\ TextKept
<1>1. /\ notes \in Seq(NoteRecord) /\ notes # <<>> /\ OneNoteEach(notes)
      /\ IdsOf(notes) \subseteq usedIds /\ encrypting \in Seq(Locking)
      /\ snapshots \in Seq(Contents) /\ reading \in SUBSET [id : NoteIds, text : Contents]
      /\ d \in Unlocking /\ UNCHANGED <<snapshots, reading, usedIds>> /\ decrypting' = {}
  BY DEF NotesInv, NotesTypeOK, NoteUnlocked
<1>2. CASE ~(d.password = d.blob.password /\ d.id \in Ids)
  <2>1. UNCHANGED <<notes, encrypting>>
    BY <1>2 DEF NoteUnlocked
  <2> QED BY <1>1, <2>1, NotesAlone, BlobsKeptTextKept
<1>3. CASE d.password = d.blob.password /\ d.id \in Ids
  <2>1. PICK id, c : id = d.id /\ c = d.blob.text
    OBVIOUS
  <2>2. c \in Contents
    BY <1>1, <2>1 DEF Unlocking, Blob
  <2>3. SetNote(id, c, NoBlob) /\ encrypting' = Edited(encrypting, id)
    BY <1>3, <2>1 DEF NoteUnlocked
  <2>4. /\ Edited(encrypting, id) \in Seq(Locking)
        /\ DOMAIN Edited(encrypting, id) = DOMAIN encrypting
        /\ \A i \in DOMAIN encrypting :
             /\ Edited(encrypting, id)[i].id = encrypting[i].id
             /\ Edited(encrypting, id)[i].text = encrypting[i].text
             /\ ~Edited(encrypting, id)[i].edited => ~encrypting[i].edited /\ encrypting[i].id # id
    BY <1>1, EditedOps
  <2>5. PICK t : t = notes'
    OBVIOUS
  <2>6. /\ t \in Seq(NoteRecord) /\ t # <<>> /\ OneNoteEach(t) /\ IdsOf(t) = IdsOf(notes)
        /\ \A x \in IdsOf(notes) :
             /\ x = id => NoteOf(t, x).blob = NoBlob /\ NoteOf(t, x).content = c
             /\ x # id => NoteOf(t, x) = NoteOf(notes, x)
    <3>1. t = WithNote(notes, id, c, NoBlob)
      BY <2>3, <2>5 DEF SetNote, WithNote
    <3>2. PICK s : s = notes
      OBVIOUS
    <3>3. s \in Seq(NoteRecord) /\ OneNoteEach(s) /\ t = WithNote(s, id, c, NoBlob)
          /\ NoBlob \in Blob \cup {NoBlob}
      BY <1>1, <3>1, <3>2
    <3>4. LET u == WithNote(s, id, c, NoBlob)
          IN  /\ u \in Seq(NoteRecord) /\ Len(u) = Len(s) /\ OneNoteEach(u)
              /\ IdsOf(u) = IdsOf(s)
              /\ \A x \in IdsOf(s) :
                   /\ x = id => NoteOf(u, x).content = c /\ NoteOf(u, x).blob = NoBlob
                   /\ x # id => NoteOf(u, x) = NoteOf(s, x)
      BY <2>2, <3>3, NoteSet, Zenon
    <3>5. t # <<>>
      BY <1>1, <3>2, <3>3, <3>4
    <3> QED BY <3>2, <3>3, <3>4, <3>5
  <2>7. NotesTypeOK'
    BY <1>1, <2>3, <2>4, <2>5, <2>6 DEF NotesTypeOK
  <2>8. LocksKnow(t, encrypting')
    <3> SUFFICES ASSUME NEW i \in DOMAIN encrypting', encrypting'[i].id \in IdsOf(t),
                        ~encrypting'[i].edited, NoteOf(t, encrypting'[i].id).blob = NoBlob
                 PROVE  encrypting'[i].text = NoteOf(t, encrypting'[i].id).content
      BY DEF LocksKnow
    <3>1. /\ i \in DOMAIN encrypting /\ encrypting'[i].id = encrypting[i].id
          /\ encrypting'[i].text = encrypting[i].text /\ ~encrypting[i].edited
          /\ encrypting[i].id # id
      BY <2>3, <2>4
    <3>2. NoteOf(t, encrypting[i].id) = NoteOf(notes, encrypting[i].id)
      BY <2>6, <3>1
    <3>3. encrypting[i].text = NoteOf(notes, encrypting[i].id).content
      BY <2>6, <3>1, <3>2 DEF NotesInv, LocksKnow
    <3> QED BY <3>1, <3>2, <3>3
  <2>9. UnlocksKnow(t, decrypting')
    BY <1>1 DEF UnlocksKnow
  <2>10. /\ \A i \in DOMAIN encrypting' : encrypting'[i].id \in usedIds
         /\ \A e \in decrypting' : e.id \in usedIds
    BY <1>1, <2>3, <2>4 DEF NotesInv
  <2>11. NotesInv'
    BY <1>1, <2>5, <2>6, <2>7, <2>8, <2>9, <2>10 DEF NotesInv
  <2>12. ASSUME NEW x \in IdsOf(notes), NoteOf(notes, x).blob # NoBlob, NoteOf(t, x).blob = NoBlob
         PROVE  \/ NoteOf(t, x).content = NoteOf(notes, x).blob.text
                \/ \E e \in decrypting : e.id = x /\ e.resealed
    <3>1. x = id /\ NoteOf(t, x).content = c
      BY <2>6, <2>12
    <3>2. CASE d.resealed
      BY <2>1, <3>1, <3>2
    <3>3. CASE ~d.resealed
      <4>1. d.blob = NoteOf(notes, x).blob
        BY <2>1, <2>12, <3>1, <3>3 DEF NotesInv, UnlocksKnow
      <4> QED BY <2>1, <3>1, <4>1
    <3> QED BY <3>2, <3>3
  <2>13. ASSUME NEW x \in IdsOf(notes), NoteOf(notes, x).blob = NoBlob
         PROVE  NoteOf(t, x).blob = NoBlob
    BY <2>6, <2>13
  <2>14. TextKept
    BY <2>5, <2>12, <2>13 DEF TextKept
  <2> QED BY <2>11, <2>14
<1> QED BY <1>2, <1>3

-----------------------------------------------------------------------------
(* The first launch: one note without text. *)
LEMMA NotesStart == NotesInit => NotesInv
<1> SUFFICES ASSUME NotesInit PROVE NotesInv
  OBVIOUS
<1>1. activeNoteId \in NoteIds
  BY ContentsAssumption DEF NotesInit, ContentsAssumption
<1>2. PICK s, r : s = notes /\ r = Fresh(activeNoteId, EmptyText)
  OBVIOUS
<1>3. r \in NoteRecord /\ r.id = activeNoteId
  BY <1>1, <1>2, ContentsAssumption DEF Fresh, NoteRecord, ContentsAssumption
<1>4. s = <<r>>
  BY <1>2 DEF NotesInit
<1>5. s \in Seq(NoteRecord) /\ s # <<>> /\ DOMAIN s = {1} /\ s[1] = r
  BY <1>3, <1>4
<1>6. OneNoteEach(s) /\ IdsOf(s) = {activeNoteId}
  BY <1>3, <1>5 DEF OneNoteEach, IdsOf
<1>7. NotesTypeOK
  BY <1>2, <1>5 DEF NotesInit, NotesTypeOK
<1>8. encrypting = <<>> /\ decrypting = {} /\ usedIds = {activeNoteId}
  BY DEF NotesInit
<1> QED BY <1>2, <1>6, <1>7, <1>8 DEF NotesInv, LocksKnow, UnlocksKnow

(* Every step keeps the invariant and the texts. *)
LEMMA NotesStep == NotesInv /\ [NotesNext]_noteVars => NotesInv' /\ TextKept
<1> SUFFICES ASSUME NotesInv, [NotesNext]_noteVars PROVE NotesInv' /\ TextKept
  OBVIOUS
<1>1. ASSUME NEW id \in NoteIds, NEW c \in Contents, NewNote(id, c) \/ FileDropped(id, c)
      PROVE  NotesInv' /\ BlobsKept
  <2>1. AddNote(id, c, TRUE) \/ AddNote(id, c, FALSE)
    BY <1>1 DEF NewNote, FileDropped
  <2> QED BY <2>1, AddNoteKeeps
<1>2. ASSUME NEW p \in NotePasswords, LockNote(p) \/ UnlockNote(p) PROVE NotesInv' /\ BlobsKept
  BY <1>2, LockNoteKeeps, UnlockNoteKeeps
<1>3. ASSUME NEW id \in Ids, DeleteNote(id) PROVE NotesInv' /\ BlobsKept
  BY <1>3, DeleteNoteKeeps
<1>4. ASSUME NEW r \in reading, ImageRead(r) PROVE NotesInv' /\ BlobsKept
  BY <1>4, ImageReadKeeps
<1>5. ASSUME NEW i \in DOMAIN encrypting, NoteLocked(i) PROVE NotesInv' /\ TextKept
  BY <1>5, NoteLockedKeeps
<1>6. ASSUME NEW d \in decrypting, NoteUnlocked(d) PROVE NotesInv' /\ TextKept
  BY <1>6, NoteUnlockedKeeps
<1>7. CASE \/ \E c \in Contents : EditNote(c)
           \/ \E i \in DOMAIN snapshots : RestoreSnapshot(i)
  BY <1>7, EditKeeps, BlobsKeptTextKept
<1>8. CASE \/ AutoSnapshot \/ DropImage \/ LeavePage \/ UNCHANGED noteVars
           \/ \E id \in Ids : SelectNote(id)
           \/ \E open \in BOOLEAN : VaultModal(open)
  BY <1>8, AloneKeeps, BlobsKeptTextKept
<1> QED BY <1>1, <1>2, <1>3, <1>4, <1>5, <1>6, <1>7, <1>8, BlobsKeptTextKept DEF NotesNext

(* The scratchpad: one note for each id, and what is being encrypted or
   decrypted is what its note has, unless that is marked. *)
THEOREM NotesInvariance == NotesSpec => []NotesInv
BY NotesStart, NotesStep, PTL DEF NotesSpec

(* A note is locked with its text and unlocked to what was locked
   (Scratchpad.tsx), whatever is selected, added, deleted or dropped while
   AES runs. *)
THEOREM VaultTextKept == NotesSpec => VaultKeepsText
<1>1. TextKept => \A id \in Ids \cap Ids' :
       LET before == Note(id)
           after == Note(id)'
       IN /\ before.blob = NoBlob /\ after.blob # NoBlob =>
               \/ after.blob.text = before.content
               \/ \E i \in DOMAIN encrypting : encrypting[i].id = id /\ encrypting[i].edited
          /\ before.blob # NoBlob /\ after.blob = NoBlob =>
               \/ after.content = before.blob.text
               \/ \E d \in decrypting : d.id = id /\ d.resealed
  <2>1. Ids = IdsOf(notes) /\ Ids' = IdsOf(notes')
    BY DEF Ids, IdsOf
  <2>2. ASSUME NEW id PROVE Note(id) = NoteOf(notes, id) /\ Note(id)' = NoteOf(notes', id)
    BY DEF Note, NoteOf
  <2> QED BY <2>1, <2>2 DEF TextKept
<1> QED BY <1>1, NotesStep, NotesInvariance, PTL DEF NotesSpec, VaultKeepsText
=============================================================================
