--------------------------- MODULE JournalProofs ---------------------------
(***************************************************************************)
(* What Journal guarantees for any number of threads, any contents and any *)
(* retention limit.                                                        *)
(*                                                                         *)
(* Whatever fails and whenever the process dies: the types, the head of    *)
(* the chain (AnyInv), and that what was acknowledged is in memory or in   *)
(* a line of the file that a restart reads, unless the history is damaged  *)
(* (Intact).                                                               *)
(* When the process may die at any step but the disk does what it is asked *)
(* ("io" is not among the faults): memory and file agree at each point of  *)
(* each command (IInv), and the journal implements AuditLog.               *)
(* When reads and writes may fail but the process lives ("crash" is not    *)
(* among the faults): readers see a chain (LiveInv).                       *)
(***************************************************************************)
EXTENDS Journal, FiniteSetTheorems, TLAPS

(* Which Mutexes a thread holds is fixed by where it is. *)
LockInv ==
  \A t \in Threads :
    /\ owner["INIT"] = t <=> pc[t] \in {"load_entries", "load_last", "load_seq", "load_file"}
    /\ owner["ENTRIES"] = t <=>
         pc[t] \in {"load_last", "load_seq", "load_file", "append", "commit", "truncate",
                    "rewrite", "clr_last", "clr_seq", "wipe", "wipe_file"}
    /\ owner["LAST"] = t <=>
         pc[t] \in {"load_seq", "load_file", "rec_entries", "append", "commit", "truncate",
                    "rewrite", "clr_seq", "wipe", "wipe_file"}
    /\ owner["SEQ"] = t <=>
         pc[t] \in {"load_file", "rec_last", "rec_entries", "append", "commit", "truncate",
                    "rewrite", "wipe", "wipe_file"}

(* Memory is empty and no command is past ensure_initialized until it is
   loaded; nobody loads it twice. *)
LoadInv ==
  /\ ~initialized =>
       /\ entries = <<>>
       /\ \A t \in Threads : pc[t] \in {"idle", "call", "load_entries", "load_last",
                                         "load_seq", "load_file"}
  /\ initialized =>
       \A t \in Threads : pc[t] \notin {"load_entries", "load_last", "load_seq", "load_file"}

(* curSeq and lastHash are the head of the chain es. *)
AtHead(es) ==
  IF es = <<>> THEN curSeq = 0 /\ lastHash = None
               ELSE curSeq = es[Len(es)].seq /\ lastHash = es[Len(es)].hash

(* The numbers of a chain have no gap, not only between neighbours. *)
Contiguous(es) == \A i \in 1..Len(es) : es[i].seq = es[1].seq + i - 1

Chain(es) == es \in Seq(Entry) /\ VerifyAuditChain(es) /\ Contiguous(es)

(* The steps at which a command has changed one of memory and file but not
   yet the other. *)
Between == {"commit", "truncate", "rewrite", "wipe_file"}

(* No command is at such a step: the file is memory. *)
InSync ==
  initialized /\ (\A t \in Threads : pc[t] \notin Between) => file.lines = entries

(* What relates them when t is at one. *)
AtStep(t) ==
  /\ pc[t] = "commit" =>
       \E id \in Ids : draft = NextEntry(id) /\ file.lines = Append(entries, draft)
  /\ pc[t] = "truncate" =>
       entries = Newest(file.lines) /\ draft = file.lines[Len(file.lines)]
  /\ pc[t] = "rewrite" => file.lines = <<>>
  /\ pc[t] = "wipe_file" => entries = <<>>
  /\ pc[t] \in {"commit", "truncate", "rewrite"} => draft # None

FileInv == file.open = FALSE /\ InSync /\ \A t \in Threads : AtStep(t)

DataInv == AtHead(entries) /\ Chain(entries) /\ Chain(file.lines) /\ FileInv

IInv == TypeOK /\ LockInv /\ LoadInv /\ DataInv

-----------------------------------------------------------------------------
(* Chains. *)

(* What Chain says of each entry. *)
LEMMA ChainFacts ==
  ASSUME NEW es, Chain(es)
  PROVE  /\ Len(es) \in Nat /\ es = [j \in 1..Len(es) |-> es[j]]
         /\ \A i \in 1..Len(es) :
              /\ es[i] \in Entry /\ es[i].seq \in Nat /\ es[i].seq >= 1
              /\ es[i].seq = es[1].seq + i - 1
              /\ es[1].seq \in Nat
              /\ (i = 1 /\ es[i].seq = 1) => es[i].prev = Genesis
              /\ i > 1 => es[i].prev = es[i - 1].hash /\ es[i].seq = es[i - 1].seq + 1
              /\ es[i].hash = HashOf(es[i].id, es[i].seq, es[i].prev)
<1>1. Len(es) \in Nat /\ es = [j \in 1..Len(es) |-> es[j]] /\ \A i \in 1..Len(es) : es[i] \in Entry
  BY DEF Chain
<1>2. \A i \in 1..Len(es) : es[i].seq \in Nat
  BY <1>1, SequenceAssumption DEF Entry
<1> QED
  BY <1>1, <1>2 DEF Chain, VerifyAuditChain, Contiguous

(* journal_record drafts a whole entry. *)
LEMMA NextEntryType ==
  ASSUME TypeOK, NEW id \in Ids, curSeq < MaxSequence
  PROVE  NextEntry(id) \in Entry
<1> DEFINE prev == IF lastHash = None THEN Genesis ELSE lastHash
<1>1. prev \in Hash
  BY HashAssumption, NoneAssumption DEF TypeOK
<1>2. curSeq + 1 \in 1..MaxSequence
  BY SequenceAssumption DEF TypeOK
<1>3. HashOf(id, curSeq + 1, prev) \in Hash
  BY <1>1, <1>2, HashAssumption
<1>4. NextEntry(id) = [id |-> id, seq |-> curSeq + 1, prev |-> prev, hash |-> HashOf(id, curSeq + 1, prev)]
  BY DEF NextEntry
<1> QED
  BY <1>1, <1>2, <1>3, <1>4 DEF Entry

(* journal_record extends a chain: the entry built on the head continues it. *)
LEMMA ChainAppend ==
  ASSUME TypeOK, NEW es, Chain(es), AtHead(es), NEW id \in Ids, curSeq < MaxSequence
  PROVE  NextEntry(id) \in Entry /\ Chain(Append(es, NextEntry(id)))
<1> DEFINE e == NextEntry(id)
           prev == IF lastHash = None THEN Genesis ELSE lastHash
<1>1. prev \in Hash
  BY HashAssumption, NoneAssumption DEF TypeOK
<1>2. curSeq + 1 \in 1..MaxSequence
  BY SequenceAssumption DEF TypeOK
<1>3. HashOf(id, curSeq + 1, prev) \in Hash
  BY <1>1, <1>2, HashAssumption
<1>4. e = [id |-> id, seq |-> curSeq + 1, prev |-> prev, hash |-> HashOf(id, curSeq + 1, prev)]
  BY DEF NextEntry
<1>5. e \in Entry
  BY <1>1, <1>2, <1>3, <1>4 DEF Entry
<1> HIDE DEF e, prev
<1>6. /\ Append(es, e) \in Seq(Entry)
      /\ Len(Append(es, e)) = Len(es) + 1
      /\ \A i \in 1..Len(es) : Append(es, e)[i] = es[i]
      /\ Append(es, e)[Len(es) + 1] = e
      /\ Len(es) \in Nat
  BY <1>5 DEF Chain
<1>7. CASE es = <<>>
  <2>1. Len(es) = 0 /\ e.seq = 1 /\ e.prev = Genesis
    BY <1>4, <1>7 DEF AtHead, prev
  <2> QED
    BY <1>4, <1>5, <1>6, <2>1 DEF Chain, VerifyAuditChain, Contiguous, e
<1>8. CASE es # <<>>
  <2>1. Len(es) >= 1 /\ es[Len(es)] \in Entry
    BY <1>8 DEF Chain
  <2>2. e.prev = es[Len(es)].hash /\ e.seq = es[Len(es)].seq + 1
    BY <1>4, <1>8, <2>1, NoneAssumption DEF AtHead, prev, Entry
  <2>3. es[Len(es)].seq = es[1].seq + Len(es) - 1 /\ es[1].seq \in Nat
    BY <1>6, <2>1, ChainFacts
  <2>4. VerifyAuditChain(Append(es, e))
    <3> DEFINE x == Append(es, e)
    <3> SUFFICES ASSUME NEW i \in 1..Len(es) + 1
                 PROVE  /\ x[i].seq >= 1
                        /\ (i = 1 /\ x[i].seq = 1) => x[i].prev = Genesis
                        /\ i > 1 => /\ x[i].prev = x[i - 1].hash
                                    /\ x[i].seq = x[i - 1].seq + 1
                        /\ x[i].hash = HashOf(x[i].id, x[i].seq, x[i].prev)
      BY <1>6 DEF VerifyAuditChain
    <3>1. CASE i \in 1..Len(es)
      <4>1. x[i] = es[i] /\ (i > 1 => x[i - 1] = es[i - 1])
        BY <1>6, <3>1
      <4> QED
        BY <3>1, <4>1, ChainFacts
    <3>2. CASE i = Len(es) + 1
      <4>1. i > 1 /\ i - 1 = Len(es) /\ Append(es, e)[i - 1] = es[Len(es)]
        BY <1>6, <2>1, <3>2
      <4> QED
        BY <1>4, <1>6, <2>1, <2>2, <3>2, <4>1, ChainFacts
    <3> QED
      BY <1>6, <3>1, <3>2
  <2>5. Contiguous(Append(es, e))
    <3>1. \A i \in 1..Len(es) : Append(es, e)[i].seq = es[1].seq + i - 1
      BY <1>6, ChainFacts
    <3>2. Append(es, e)[Len(es) + 1].seq = es[1].seq + (Len(es) + 1) - 1
      BY <1>6, <2>2, <2>3
    <3>3. Append(es, e)[1] = es[1]
      BY <1>6, <2>1
    <3> QED
      BY <1>6, <3>1, <3>2, <3>3 DEF Contiguous
  <2> QED
    BY <1>5, <1>6, <2>4, <2>5 DEF Chain, e
<1> QED
  BY <1>7, <1>8

(* Dropping the oldest entries of a chain leaves a chain with the same head. *)
LEMMA ChainSuffix ==
  ASSUME NEW es, Chain(es), NEW k \in 1..Len(es)
  PROVE  LET s == SubSeq(es, k, Len(es))
         IN  Chain(s) /\ s # <<>> /\ s[Len(s)] = es[Len(es)]
<1> DEFINE s == SubSeq(es, k, Len(es))
<1>1. /\ s \in Seq(Entry)
      /\ Len(s) = Len(es) - k + 1
      /\ \A i \in 1..Len(s) : s[i] = es[k + i - 1] /\ k + i - 1 \in 1..Len(es)
      /\ Len(es) \in Nat
  BY DEF Chain
<1> HIDE DEF s
<1>2. ASSUME NEW m \in 1..Len(es)
      PROVE  /\ es[m].seq \in Nat /\ es[m].seq >= 1 /\ es[1].seq \in Nat /\ es[1].seq >= 1
             /\ es[m].seq = es[1].seq + m - 1
             /\ es[m].seq = 1 => m = 1
  <2>1. 1 \in 1..Len(es) /\ m \in Nat
    BY <1>1
  <2>2. es[m].seq \in Nat /\ es[m].seq >= 1 /\ es[m].seq = es[1].seq + m - 1
    BY ChainFacts
  <2>3. es[1].seq \in Nat /\ es[1].seq >= 1
    BY <2>1, ChainFacts
  <2> QED
    BY <2>1, <2>2, <2>3
<1>3. VerifyAuditChain(s)
  <2> SUFFICES ASSUME NEW i \in 1..Len(s)
               PROVE  /\ s[i].seq >= 1
                      /\ (i = 1 /\ s[i].seq = 1) => s[i].prev = Genesis
                      /\ i > 1 => /\ s[i].prev = s[i - 1].hash
                                  /\ s[i].seq = s[i - 1].seq + 1
                      /\ s[i].hash = HashOf(s[i].id, s[i].seq, s[i].prev)
    BY DEF VerifyAuditChain
  <2>1. PICK m \in 1..Len(es) : m = k + i - 1 /\ s[i] = es[m]
    BY <1>1
  <2>2. i > 1 => s[i - 1] = es[m - 1] /\ m > 1
    <3> SUFFICES ASSUME i > 1  PROVE s[i - 1] = es[m - 1] /\ m > 1
      OBVIOUS
    <3>1. i - 1 \in 1..Len(s) /\ k + (i - 1) - 1 = m - 1 /\ m > 1
      BY <1>1, <2>1
    <3> QED
      BY <1>1, <3>1
  <2>3. /\ es[m].hash = HashOf(es[m].id, es[m].seq, es[m].prev)
        /\ (m = 1 /\ es[m].seq = 1) => es[m].prev = Genesis
        /\ m > 1 => es[m].prev = es[m - 1].hash /\ es[m].seq = es[m - 1].seq + 1
    BY ChainFacts
  <2> QED
    BY <1>2, <2>1, <2>2, <2>3
<1>4. Contiguous(s)
  <2>1. 1 \in 1..Len(s) /\ s[1] = es[k]
    <3>1. 1 \in 1..Len(s) /\ k + 1 - 1 = k
      BY <1>1
    <3> QED
      BY <1>1, <3>1
  <2>2. s[1].seq = es[1].seq + k - 1 /\ es[1].seq \in Nat
    BY <1>2, <2>1
  <2>3. ASSUME NEW i \in 1..Len(s)  PROVE s[i].seq = s[1].seq + i - 1
    <3>1. s[i] = es[k + i - 1] /\ k + i - 1 \in 1..Len(es)
      BY <1>1
    <3>2. s[i].seq = es[1].seq + (k + i - 1) - 1
      BY <1>2, <3>1
    <3>3. k \in Int /\ i \in Int /\ es[1].seq \in Int
      BY <1>1, <2>2
    <3>4. \A a, b, c \in Int : a + (b + c - 1) - 1 = (a + b - 1) + c - 1
      OBVIOUS
    <3> QED
      BY <2>2, <3>2, <3>3, <3>4
  <2> QED
    BY <2>3 DEF Contiguous
<1>5. s # <<>> /\ s[Len(s)] = es[Len(es)]
  BY <1>1
<1> QED
  BY <1>1, <1>3, <1>4, <1>5 DEF Chain, s

(* The retention limit is such a drop. *)
LEMMA ChainNewest ==
  ASSUME NEW es, Chain(es), es # <<>>
  PROVE  /\ Chain(Newest(es))
         /\ Newest(es) # <<>>
         /\ Newest(es)[Len(Newest(es))] = es[Len(es)]
<1>1. Len(es) \in Nat
  BY DEF Chain
<1>2. CASE Len(es) > MAX_JOURNAL_ENTRIES
  <2>1. Len(es) - MAX_JOURNAL_ENTRIES + 1 \in 1..Len(es)
    BY <1>1, <1>2, CapAssumption
  <2> QED
    BY <1>2, <2>1, ChainSuffix DEF Newest
<1>3. CASE ~(Len(es) > MAX_JOURNAL_ENTRIES)
  BY <1>3 DEF Newest
<1> QED
  BY <1>2, <1>3

(* ensure_initialized loads a file that holds a chain as that very chain:
   nothing is skipped and the sort moves nothing. *)
LEMMA LoadedChain ==
  ASSUME NEW es, Chain(es)
  PROVE  Loaded(es) = es
<1> DEFINE n == Len(es)
           Whole == {k \in 1..n : es[k] # Torn}
           Before(k) == {j \in Whole : \/ es[j].seq < es[k].seq
                                       \/ es[j].seq = es[k].seq /\ j < k}
<1>1. n \in Nat /\ es = [i \in 1..n |-> es[i]] /\ \A i \in 1..n : es[i] \in Entry
  BY ChainFacts
<1>2. \A k \in 1..n : es[k] # Torn
  BY <1>1, TornAssumption
<1>3. Whole = 1..n
  BY <1>2
<1> HIDE DEF Whole
<1>4. Cardinality(Whole) = n
  <2>1. \A m \in Nat : Cardinality(1..m) = m
    BY FS_Interval
  <2> QED
    BY <1>1, <1>3, <2>1
<1>5. \A k \in Whole : Before(k) = 1..k - 1
  <2>1. ASSUME NEW k \in 1..n, NEW j \in 1..n
        PROVE  (es[j].seq < es[k].seq \/ (es[j].seq = es[k].seq /\ j < k)) <=> j < k
    <3>1. es[j].seq = es[1].seq + j - 1 /\ es[k].seq = es[1].seq + k - 1 /\ es[1].seq \in Nat
      BY ChainFacts
    <3> QED
      BY <1>1, <3>1
  <2>2. ASSUME NEW k \in 1..n  PROVE \A j : j \in Before(k) <=> j \in 1..n /\ j < k
    BY <1>3, <2>1
  <2>3. ASSUME NEW k \in 1..n  PROVE \A j : j \in 1..n /\ j < k <=> j \in 1..k - 1
    BY <1>1
  <2>4. ASSUME NEW k \in 1..n  PROVE Before(k) = 1..k - 1
    <3> HIDE DEF Before
    <3> QED
      BY <2>2, <2>3
  <2> QED
    BY <1>3, <2>4
<1>6. \A k \in Whole : Cardinality(Before(k)) = k - 1
  <2> SUFFICES ASSUME NEW k \in Whole  PROVE Cardinality(1..k - 1) = k - 1
    BY <1>5
  <2> QED
    BY <1>1, <1>3, FS_Interval
<1>7. \A i \in 1..n : (CHOOSE k \in Whole : Cardinality(Before(k)) = i - 1) = i
  BY <1>1, <1>3, <1>6
<1>8. Loaded(es) = [i \in 1..Cardinality(Whole) |->
                      es[CHOOSE k \in Whole : Cardinality(Before(k)) = i - 1]]
  BY DEF Loaded, Whole
<1> HIDE DEF Before
<1> QED
  BY <1>1, <1>4, <1>7, <1>8

-----------------------------------------------------------------------------
(* Reading a file of whole and torn lines. *)

Held(es) == {es[j] : j \in 1..Len(es)}

(* The lines that parse, those that are sorted before one of them, and where
   the sort puts it. *)
Whole(lines) == {k \in 1..Len(lines) : lines[k] # Torn}
Before(lines, k) == {j \in Whole(lines) : \/ lines[j].seq < lines[k].seq
                                          \/ lines[j].seq = lines[k].seq /\ j < k}
Rank(lines, k) == Cardinality(Before(lines, k))

(* The loaded journal, in these words. *)
LEMMA LoadedIs ==
  ASSUME NEW lines
  PROVE  Loaded(lines) = [i \in 1..Cardinality(Whole(lines)) |->
                            lines[CHOOSE k \in Whole(lines) : Rank(lines, k) = i - 1]]
BY DEF Loaded, Whole, Before, Rank

(* The lines that parse are finitely many entries. *)
LEMMA WholeLines ==
  ASSUME NEW lines \in Seq(Entry \cup {Torn})
  PROVE  /\ IsFiniteSet(Whole(lines)) /\ Cardinality(Whole(lines)) \in Nat
         /\ \A k \in Whole(lines) : k \in Nat /\ lines[k] \in Entry /\ lines[k].seq \in Nat
<1>1. Len(lines) \in Nat /\ \A k \in 1..Len(lines) : lines[k] \in Entry \cup {Torn}
  OBVIOUS
<1>2. IsFiniteSet(1..Len(lines)) /\ Whole(lines) \subseteq 1..Len(lines)
  BY <1>1, FS_Interval DEF Whole
<1>3. IsFiniteSet(Whole(lines)) /\ Cardinality(Whole(lines)) \in Nat
  BY <1>2, FS_Subset, FS_CardinalityType
<1>4. \A k \in Whole(lines) : k \in Nat /\ lines[k] \in Entry
  BY <1>1 DEF Whole
<1> QED
  BY <1>3, <1>4, SequenceAssumption DEF Entry

(* The sort puts the lines that parse at different places, in their order. *)
LEMMA RankOrders ==
  ASSUME NEW lines \in Seq(Entry \cup {Torn}), NEW j \in Whole(lines), NEW k \in Whole(lines)
  PROVE  /\ Rank(lines, k) \in Nat /\ Rank(lines, k) < Cardinality(Whole(lines))
         /\ j \in Before(lines, k) => Rank(lines, j) < Rank(lines, k)
<1> DEFINE W == Whole(lines)
           B(m) == Before(lines, m)
<1>1. /\ IsFiniteSet(W) /\ Cardinality(W) \in Nat
      /\ \A m \in W : m \in Nat /\ lines[m].seq \in Nat
  BY WholeLines
<1>2. \A m \in W : B(m) \subseteq W /\ m \notin B(m)
  BY <1>1 DEF Before
<1>3. \A m \in W : IsFiniteSet(B(m)) /\ Cardinality(B(m)) \in Nat
  BY <1>1, <1>2, FS_Subset, FS_CardinalityType
<1> HIDE DEF W, B
<1>4. Cardinality(B(k)) < Cardinality(W)
  <2>1. Cardinality(B(k)) <= Cardinality(W) /\ Cardinality(B(k)) # Cardinality(W)
    BY <1>1, <1>2, FS_Subset DEF W
  <2> QED
    BY <1>1, <1>3, <2>1 DEF W
<1>5. ASSUME j \in B(k)  PROVE Cardinality(B(j)) < Cardinality(B(k))
  <2>1. B(j) \subseteq B(k)
    <3> SUFFICES ASSUME NEW m \in B(j)  PROVE m \in B(k)
      OBVIOUS
    <3>1. m \in W /\ j \in W /\ k \in W
      BY <1>2 DEF W
    <3>2. /\ m \in Nat /\ j \in Nat /\ k \in Nat
          /\ lines[m].seq \in Nat /\ lines[j].seq \in Nat /\ lines[k].seq \in Nat
      BY <1>1, <3>1
    <3>3. /\ lines[m].seq < lines[j].seq \/ (lines[m].seq = lines[j].seq /\ m < j)
          /\ lines[j].seq < lines[k].seq \/ (lines[j].seq = lines[k].seq /\ j < k)
      BY <1>5 DEF B, Before
    <3>4. lines[m].seq < lines[k].seq \/ (lines[m].seq = lines[k].seq /\ m < k)
      BY <3>2, <3>3
    <3> QED
      BY <3>1, <3>4 DEF W, B, Before
  <2>2. B(j) # B(k)
    BY <1>2, <1>5 DEF W
  <2>3. IsFiniteSet(B(k)) /\ Cardinality(B(k)) \in Nat /\ Cardinality(B(j)) \in Nat
    BY <1>3 DEF W
  <2>4. Cardinality(B(j)) <= Cardinality(B(k)) /\ Cardinality(B(j)) # Cardinality(B(k))
    BY <2>1, <2>2, <2>3, FS_Subset
  <2> QED
    BY <2>3, <2>4
<1> QED
  BY <1>3, <1>4, <1>5 DEF Rank, W, B

(* So each place is taken by exactly one of them. *)
LEMMA RankBijects ==
  ASSUME NEW lines \in Seq(Entry \cup {Torn})
  PROVE  /\ \A j, k \in Whole(lines) : Rank(lines, j) = Rank(lines, k) => j = k
         /\ \A r \in 0..Cardinality(Whole(lines)) - 1 :
              \E k \in Whole(lines) : Rank(lines, k) = r
<1> DEFINE W == Whole(lines)
           n == Cardinality(W)
           f == [k \in W |-> Rank(lines, k)]
<1>1. n \in Nat /\ IsFiniteSet(W) /\ \A m \in W : m \in Nat /\ lines[m].seq \in Nat
  BY WholeLines
<1>2. ASSUME NEW j \in W, NEW k \in W, Rank(lines, j) = Rank(lines, k)  PROVE j = k
  <2>1. j \notin Before(lines, k) /\ k \notin Before(lines, j)
    BY <1>2, RankOrders
  <2>2. /\ ~(lines[j].seq < lines[k].seq \/ (lines[j].seq = lines[k].seq /\ j < k))
        /\ ~(lines[k].seq < lines[j].seq \/ (lines[k].seq = lines[j].seq /\ k < j))
    BY <2>1 DEF Before
  <2> QED
    BY <1>1, <2>2
<1>3. \A k \in W : Rank(lines, k) \in 0..n - 1
  BY <1>1, RankOrders
<1> HIDE DEF W, n
<1>4. f \in Injection(W, 0..n - 1)
  BY <1>2, <1>3 DEF Injection, IsInjective
<1>5. IsFiniteSet(0..n - 1) /\ Cardinality(0..n - 1) = n
  BY <1>1, FS_Interval
<1>6. f \in Surjection(W, 0..n - 1)
  BY <1>4, <1>5, FS_Injection DEF n
<1>7. \A r \in 0..n - 1 : \E k \in W : Rank(lines, k) = r
  BY <1>6 DEF Surjection
<1> QED
  BY <1>2, <1>7 DEF W, n

(* What is loaded are the lines that parse, all of them and nothing else. *)
LEMMA LoadedLines ==
  ASSUME NEW lines \in Seq(Entry \cup {Torn})
  PROVE  /\ Loaded(lines) \in Seq(Entry)
         /\ \A i \in 1..Len(Loaded(lines)) :
              \E k \in Whole(lines) : Rank(lines, k) = i - 1 /\ Loaded(lines)[i] = lines[k]
         /\ \A k \in Whole(lines) : lines[k] \in Held(Loaded(lines))
<1> DEFINE W == Whole(lines)
           n == Cardinality(W)
           at(i) == CHOOSE k \in W : Rank(lines, k) = i - 1
           es == [i \in 1..n |-> lines[at(i)]]
<1>1. n \in Nat /\ \A k \in W : lines[k] \in Entry
  BY WholeLines
<1>2. ASSUME NEW i \in 1..n  PROVE at(i) \in W /\ Rank(lines, at(i)) = i - 1
  <2>1. i - 1 \in 0..n - 1
    BY <1>1
  <2>2. \E k \in W : Rank(lines, k) = i - 1
    BY <2>1, RankBijects
  <2> QED
    BY <2>2
<1>3. ASSUME NEW k \in W  PROVE \E i \in 1..n : at(i) = k
  <2>1. Rank(lines, k) + 1 \in 1..n /\ (Rank(lines, k) + 1) - 1 = Rank(lines, k)
    BY <1>1, RankOrders
  <2>2. at(Rank(lines, k) + 1) \in W /\ Rank(lines, at(Rank(lines, k) + 1)) = Rank(lines, k)
    BY <1>2, <2>1
  <2> QED
    BY <2>1, <2>2, RankBijects
<1>4. Loaded(lines) = es
  BY LoadedIs
<1> HIDE DEF W, n, at
<1>5. es \in Seq(Entry) /\ Len(es) = n
  BY <1>1, <1>2
<1>6. \A k \in W : lines[k] \in Held(es)
  BY <1>3, <1>5 DEF Held
<1> HIDE DEF es
<1>7. \A i \in 1..n : \E k \in W : Rank(lines, k) = i - 1 /\ es[i] = lines[k]
  BY <1>2 DEF es
<1> QED
  BY <1>4, <1>5, <1>6, <1>7 DEF W

-----------------------------------------------------------------------------
(* Entries in the order of their numbers, with or without gaps. *)

Increasing(es) == \A i, j \in 1..Len(es) : i < j => es[i].seq < es[j].seq
Distinct(lines) ==
  \A j, k \in Whole(lines) : lines[j].seq = lines[k].seq => j = k

(* Lines with different numbers are loaded in the order of their numbers. *)
LEMMA LoadedIncreasing ==
  ASSUME NEW lines \in Seq(Entry \cup {Torn}), Distinct(lines)
  PROVE  Increasing(Loaded(lines))
<1> DEFINE es == Loaded(lines)
<1>1. es \in Seq(Entry) /\ Len(es) \in Nat
  BY LoadedLines
<1> SUFFICES ASSUME NEW i \in 1..Len(es), NEW j \in 1..Len(es), i < j
             PROVE  es[i].seq < es[j].seq
  BY DEF Increasing
<1>2. PICK k \in Whole(lines) : Rank(lines, k) = i - 1 /\ es[i] = lines[k]
  BY LoadedLines
<1>3. PICK m \in Whole(lines) : Rank(lines, m) = j - 1 /\ es[j] = lines[m]
  BY LoadedLines
<1>4. lines[k].seq \in Nat /\ lines[m].seq \in Nat
  BY WholeLines
<1>5. k # m
  BY <1>1, <1>2, <1>3
<1>6. m \notin Before(lines, k)
  BY <1>1, <1>2, <1>3, RankOrders
<1>7. ~(lines[m].seq < lines[k].seq)
  BY <1>6 DEF Before
<1>8. lines[m].seq # lines[k].seq
  BY <1>5 DEF Distinct
<1> QED
  BY <1>2, <1>3, <1>4, <1>7, <1>8

(* Entries are numbered by naturals. *)
LEMMA EntrySeq == \A e \in Entry : e.seq \in Nat
BY SequenceAssumption DEF Entry

(* How many numbers follow a up to b. *)
LEMMA IntervalSize ==
  ASSUME NEW a \in Int, NEW b \in Int, a <= b
  PROVE  IsFiniteSet(a + 1..b) /\ Cardinality(a + 1..b) = b - a
<1>1. a + 1 \in Int /\ b - (a + 1) + 1 = b - a /\ (a + 1 > b => b - a = 0)
  OBVIOUS
<1> QED
  BY <1>1, FS_Interval

(* Numbers that increase are at least as far apart as their places. *)
LEMMA Spaced ==
  ASSUME NEW es \in Seq(Entry), Increasing(es), NEW i \in 1..Len(es), NEW j \in 1..Len(es), i <= j
  PROVE  j - i <= es[j].seq - es[i].seq
<1>0. \A k \in 1..Len(es) : es[k] \in Entry
  OBVIOUS
<1>1. \A k \in 1..Len(es) : es[k].seq \in Nat
  BY <1>0, EntrySeq
<1>2. i \in Nat /\ j \in Nat /\ Len(es) \in Nat
  OBVIOUS
<1>3. es[i].seq <= es[j].seq
  BY <1>1, <1>2 DEF Increasing
<1> DEFINE S == i + 1..j
           T == es[i].seq + 1..es[j].seq
           f == [k \in S |-> es[k].seq]
<1>4. f \in Injection(S, T)
  <2>1. ASSUME NEW k \in S  PROVE k \in 1..Len(es) /\ es[k].seq \in T
    <3>1. k \in 1..Len(es) /\ i < k /\ k <= j
      BY <1>2
    <3> QED
      BY <1>1, <1>2, <3>1 DEF Increasing
  <2>2. ASSUME NEW k \in S, NEW m \in S, es[k].seq = es[m].seq  PROVE k = m
    BY <1>1, <1>2, <2>1, <2>2 DEF Increasing
  <2> QED
    BY <2>1, <2>2 DEF Injection, IsInjective
<1>5. /\ IsFiniteSet(T) /\ Cardinality(S) = j - i
      /\ Cardinality(T) = es[j].seq - es[i].seq
  <2>1. es[i].seq \in Int /\ es[j].seq \in Int /\ i \in Int /\ j \in Int
    BY <1>1, <1>2
  <2> QED
    BY <1>3, <2>1, IntervalSize
<1>6. Cardinality(S) <= Cardinality(T)
  BY <1>4, <1>5, FS_Injection
<1> QED
  BY <1>5, <1>6

(* The retention limit keeps the last entry and those numbered within the
   limit of it, in their order. *)
LEMMA NewestKeeps ==
  ASSUME NEW es \in Seq(Entry), es # <<>>
  PROVE  /\ Newest(es) \in Seq(Entry) /\ Newest(es) # <<>>
         /\ Newest(es)[Len(Newest(es))] = es[Len(es)]
         /\ Increasing(es) =>
              /\ Increasing(Newest(es))
              /\ \A e \in Held(es) :
                   e.seq > es[Len(es)].seq - MAX_JOURNAL_ENTRIES => e \in Held(Newest(es))
<1>1. Len(es) \in Nat /\ Len(es) \in 1..Len(es)
  OBVIOUS
<1>2. CASE Len(es) > MAX_JOURNAL_ENTRIES
  <2> DEFINE k == Len(es) - MAX_JOURNAL_ENTRIES + 1
             s == SubSeq(es, k, Len(es))
  <2>1. k \in 1..Len(es)
    BY <1>1, <1>2, CapAssumption
  <2>2. /\ s \in Seq(Entry) /\ Len(s) = Len(es) - k + 1
        /\ \A j \in 1..Len(s) : s[j] = es[k + j - 1] /\ k + j - 1 \in 1..Len(es)
    BY <1>1, <2>1
  <2>3. s # <<>> /\ s[Len(s)] = es[Len(es)]
    BY <1>1, <2>1, <2>2
  <2>4. Newest(es) = s
    BY <1>2 DEF Newest
  <2> HIDE DEF s
  <2>5. ASSUME Increasing(es)  PROVE Increasing(s)
    <3> SUFFICES ASSUME NEW i \in 1..Len(s), NEW j \in 1..Len(s), i < j
                 PROVE  s[i].seq < s[j].seq
      BY DEF Increasing
    <3>1. k + i - 1 < k + j - 1
      BY <1>1, <2>1
    <3> QED
      BY <2>2, <2>5, <3>1 DEF Increasing
  <2>6. ASSUME Increasing(es), NEW i \in 1..Len(es),
               es[i].seq > es[Len(es)].seq - MAX_JOURNAL_ENTRIES
        PROVE  es[i] \in Held(s)
    <3>1. Len(es) - i <= es[Len(es)].seq - es[i].seq
      BY <1>1, <2>6, Spaced
    <3>2. es[Len(es)].seq \in Nat /\ es[i].seq \in Nat
      <4>1. es[Len(es)] \in Entry /\ es[i] \in Entry
        BY <1>1
      <4> QED
        BY <4>1, EntrySeq
    <3>3. i >= k
      BY <1>1, <2>6, <3>1, <3>2, CapAssumption
    <3>4. i - k + 1 \in 1..Len(s) /\ s[i - k + 1] = es[i]
      BY <1>1, <2>1, <2>2, <3>3
    <3> QED
      BY <3>4 DEF Held
  <2> QED
    BY <2>2, <2>3, <2>4, <2>5, <2>6 DEF Held
<1>3. CASE ~(Len(es) > MAX_JOURNAL_ENTRIES)
  BY <1>1, <1>3 DEF Newest
<1> QED
  BY <1>2, <1>3

(* A new entry whose number is above all others keeps the order. *)
LEMMA IncreasingAppend ==
  ASSUME NEW es \in Seq(Entry), Increasing(es), NEW e \in Entry,
         es # <<>> => es[Len(es)].seq < e.seq
  PROVE  Increasing(Append(es, e))
<1>1. /\ Len(Append(es, e)) = Len(es) + 1 /\ Len(es) \in Nat
      /\ Append(es, e)[Len(es) + 1] = e
      /\ \A j \in 1..Len(es) : Append(es, e)[j] = es[j]
  OBVIOUS
<1>2. e.seq \in Nat /\ \A j \in 1..Len(es) : es[j].seq \in Nat
  <2>1. \A j \in 1..Len(es) : es[j] \in Entry
    OBVIOUS
  <2> QED
    BY <2>1, EntrySeq
<1> SUFFICES ASSUME NEW i \in 1..Len(es) + 1, NEW j \in 1..Len(es) + 1, i < j
             PROVE  Append(es, e)[i].seq < Append(es, e)[j].seq
  BY <1>1 DEF Increasing
<1>3. CASE j \in 1..Len(es)
  BY <1>1, <1>3 DEF Increasing
<1>4. CASE j = Len(es) + 1
  <2>1. i \in 1..Len(es) /\ Len(es) \in 1..Len(es) /\ es # <<>>
    BY <1>1, <1>4
  <2>2. es[i].seq <= es[Len(es)].seq
    BY <1>1, <1>2, <2>1 DEF Increasing
  <2> QED
    BY <1>1, <1>2, <1>4, <2>1, <2>2
<1> QED
  BY <1>1, <1>3, <1>4

(* Appending an entry keeps what was held and adds the entry. *)
LEMMA HeldAppend ==
  ASSUME NEW S, NEW es \in Seq(S), NEW e \in S
  PROVE  Held(Append(es, e)) = Held(es) \cup {e}
<1>1. /\ Len(Append(es, e)) = Len(es) + 1 /\ Len(es) \in Nat
      /\ Append(es, e)[Len(es) + 1] = e
      /\ \A j \in 1..Len(es) : Append(es, e)[j] = es[j]
  OBVIOUS
<1>2. \A x : x \in Held(Append(es, e)) <=> x \in Held(es) \/ x = e
  <2>1. \A j : j \in 1..Len(es) + 1 <=> j \in 1..Len(es) \/ j = Len(es) + 1
    BY <1>1
  <2> QED
    BY <1>1, <2>1 DEF Held
<1> QED
  BY <1>2

-----------------------------------------------------------------------------
(* Control: the Mutexes. *)

(* What Acquire does, Mutex by Mutex. *)
Takes(t, from, lock, to) ==
  /\ pc[t] = from /\ owner[lock] = None
  /\ owner' = [owner EXCEPT ![lock] = t]
  /\ pc' = [pc EXCEPT ![t] = to]

(* Taking a Mutex: which one, from where and to where. *)
LEMMA AcquireCases ==
  ASSUME NEW t, Acquire(t)
  PROVE  \/ Takes(t, "load_entries", "ENTRIES", "load_last")
         \/ Takes(t, "load_last", "LAST", "load_seq")
         \/ Takes(t, "load_seq", "SEQ", "load_file")
         \/ Takes(t, "rec_seq", "SEQ", "rec_last")
         \/ Takes(t, "rec_last", "LAST", "rec_entries")
         \/ Takes(t, "rec_entries", "ENTRIES", "append")
         \/ Takes(t, "clr_entries", "ENTRIES", "clr_last")
         \/ Takes(t, "clr_last", "LAST", "clr_seq")
         \/ Takes(t, "clr_seq", "SEQ", "wipe")
<1>1. DOMAIN Wants = {"load_entries", "load_last", "load_seq", "rec_seq", "rec_last",
                      "rec_entries", "clr_entries", "clr_last", "clr_seq"}
  BY DEF Wants
<1>2. \A p \in DOMAIN Wants : pc[t] = p => Takes(t, p, Wants[p].lock, Wants[p].next)
  BY DEF Acquire, Goto, Takes
<1>3. /\ Wants["load_entries"].lock = "ENTRIES" /\ Wants["load_entries"].next = "load_last"
      /\ Wants["load_last"].lock = "LAST" /\ Wants["load_last"].next = "load_seq"
      /\ Wants["load_seq"].lock = "SEQ" /\ Wants["load_seq"].next = "load_file"
      /\ Wants["rec_seq"].lock = "SEQ" /\ Wants["rec_seq"].next = "rec_last"
      /\ Wants["rec_last"].lock = "LAST" /\ Wants["rec_last"].next = "rec_entries"
      /\ Wants["rec_entries"].lock = "ENTRIES" /\ Wants["rec_entries"].next = "append"
      /\ Wants["clr_entries"].lock = "ENTRIES" /\ Wants["clr_entries"].next = "clr_last"
      /\ Wants["clr_last"].lock = "LAST" /\ Wants["clr_last"].next = "clr_seq"
      /\ Wants["clr_seq"].lock = "SEQ" /\ Wants["clr_seq"].next = "wipe"
  BY DEF Wants
<1> QED
  BY <1>1, <1>2, <1>3 DEF Acquire

(* Every step leaves each Mutex with the threads whose program counter says
   so. *)
LEMMA LockStep ==
  ASSUME TypeOK, LockInv, LoadInv, [Next]_vars
  PROVE  LockInv'
<1> USE NoneAssumption DEF TypeOK, LockInv, Locks, Goto
<1>0. CASE UNCHANGED vars
  BY <1>0 DEF vars, threads
<1>1. ASSUME NEW t \in Threads, NEW o \in Ops, Call(t, o)  PROVE LockInv'
  BY <1>1 DEF Call
<1>2. ASSUME NEW t \in Threads, EnsureInitialized(t)  PROVE LockInv'
  <2>1. First[op[t]] \in {"rec_seq", "clr_entries", "read"}
    BY DEF First, Commands
  <2> QED
    BY <1>2, <2>1 DEF EnsureInitialized
<1>3. ASSUME NEW t \in Threads, Acquire(t)  PROVE LockInv'
  BY <1>3, AcquireCases DEF Takes
<1>4. ASSUME NEW t \in Threads, Load(t)  PROVE LockInv'
  <2>1. First[op[t]] \in {"rec_seq", "clr_entries", "read"}
    BY DEF First, Commands
  <2> QED
    BY <1>4, <2>1 DEF Load, Release
<1>5. ASSUME NEW t \in Threads, Return(t)  PROVE LockInv'
  BY <1>5 DEF Return, Release
<1>6. ASSUME NEW t \in Threads, owner' = owner,
             \/ pc[t] = "append" /\ Goto(t, "commit")
             \/ pc[t] = "commit" /\ Goto(t, "truncate")
             \/ pc[t] = "truncate" /\ Goto(t, "rewrite")
             \/ pc[t] = "wipe" /\ Goto(t, "wipe_file")
      PROVE LockInv'
  BY <1>6
<1>7. ASSUME NEW t \in Threads, Step(t)  PROVE LockInv'
  BY <1>2, <1>3, <1>4, <1>5, <1>6, <1>7
     DEF Step, Read, AppendToFile, AppendFails, Commit, Acknowledge, Truncate,
         TruncateFails, Rewrite, Wipe, WipeFile
<1>8. ASSUME Crash  PROVE LockInv'
  BY <1>8 DEF Crash
<1> QED
  BY <1>0, <1>1, <1>7, <1>8 DEF Next

(* Every step keeps commands out of the journal until it is loaded, and the
   loaders out of it afterwards. *)
LEMMA LoadStep ==
  ASSUME TypeOK, LockInv, LoadInv, [Next]_vars
  PROVE  LoadInv'
<1> USE NoneAssumption DEF TypeOK, LoadInv, Goto
<1>0. CASE UNCHANGED vars
  BY <1>0 DEF vars, threads, memory
<1>1. ASSUME NEW t \in Threads, NEW o \in Ops, Call(t, o)  PROVE LoadInv'
  BY <1>1 DEF Call, memory
<1>2. ASSUME NEW t \in Threads, EnsureInitialized(t)  PROVE LoadInv'
  <2>1. First[op[t]] \in {"rec_seq", "clr_entries", "read"}
    BY DEF First, Commands
  <2> QED
    BY <1>2, <2>1 DEF EnsureInitialized, memory
<1>3. ASSUME NEW t \in Threads, Acquire(t)  PROVE LoadInv'
  <2>1. UNCHANGED memory
    BY <1>3 DEF Acquire
  <2> QED
    BY <1>3, <2>1, AcquireCases DEF Takes, memory
<1>4. ASSUME NEW t \in Threads, Load(t)  PROVE LoadInv'
  <2>1. First[op[t]] \in {"rec_seq", "clr_entries", "read"}
    BY DEF First, Commands
  <2> QED
    BY <1>4, <2>1 DEF Load, LockInv
<1>5. ASSUME NEW t \in Threads, initialized, initialized' = initialized, Return(t)
      PROVE  LoadInv'
  BY <1>5 DEF Return
<1>6. ASSUME NEW t \in Threads, initialized, initialized' = initialized,
             \/ Goto(t, "commit") \/ Goto(t, "truncate") \/ Goto(t, "rewrite")
             \/ Goto(t, "wipe_file")
      PROVE LoadInv'
  BY <1>6
<1>7. ASSUME NEW t \in Threads, Step(t)  PROVE LoadInv'
  BY <1>2, <1>3, <1>4, <1>5, <1>6, <1>7
     DEF Step, Read, AppendToFile, AppendFails, Commit, Acknowledge, Truncate,
         TruncateFails, Rewrite, Wipe, WipeFile, memory
<1>8. ASSUME Crash  PROVE LoadInv'
  BY <1>8 DEF Crash
<1> QED
  BY <1>0, <1>1, <1>7, <1>8 DEF Next

-----------------------------------------------------------------------------
(* Data: entries, head and file. *)

(* The parts of the data invariant, put together after a step. *)
LEMMA DataNext ==
  ASSUME AtHead(entries)', Chain(entries'), Chain(file'.lines), FileInv'
  PROVE  DataInv'
  BY DEF DataInv, Chain, VerifyAuditChain, Contiguous

(* A step that changes no data and keeps every thread out of the steps between
   memory and file keeps the data invariant. *)
LEMMA DataUnchanged ==
  ASSUME DataInv, UNCHANGED <<memory, file, draft>>,
         \A u \in Threads : pc'[u] = pc[u] \/ {pc[u], pc'[u]} \cap Between = {}
  PROVE  DataInv'
<1>1. /\ entries' = entries /\ file' = file /\ draft' = draft /\ initialized' = initialized
      /\ curSeq' = curSeq /\ lastHash' = lastHash
      /\ \A id : NextEntry(id)' = NextEntry(id)
  BY DEF memory, NextEntry
<1>2. AtHead(entries)' /\ Chain(entries') /\ Chain(file'.lines)
  BY <1>1 DEF DataInv, AtHead
<1>3. \A u \in Threads : pc'[u] \in Between \/ pc[u] \in Between => pc'[u] = pc[u]
  OBVIOUS
<1>4. FileInv'
  BY <1>1, <1>3 DEF DataInv, FileInv, InSync, AtStep, Between, Newest
<1> QED
  BY <1>2, <1>4 DEF DataInv

(* The thread that holds SEQ is the only one between memory and file. *)
LEMMA OnlyWriter ==
  ASSUME LockInv, NEW t \in Threads, pc[t] \in Between \cup {"load_file", "append", "wipe"},
         NEW u \in Threads, u # t
  PROVE  pc[u] \notin Between \cup {"load_file", "append", "wipe"}
  BY DEF LockInv, Between

(* A thread outside the steps between memory and file satisfies what is asked there. *)
LEMMA IdleAtStep ==
  ASSUME NEW u, (pc[u] \notin Between)'  PROVE AtStep(u)'
  BY DEF AtStep, Between

(* The empty log is a chain. *)
LEMMA EmptyChain == Chain(<<>>)
  BY DEF Chain, VerifyAuditChain, Contiguous

(* ensure_initialized makes memory the chain in the file. *)
LEMMA LoadData ==
  ASSUME IInv, "io" \notin Faults, NEW t \in Threads, Load(t)
  PROVE  DataInv'
<1>1. Loaded(file.lines) = file.lines /\ Chain(file.lines)
  BY LoadedChain DEF IInv, DataInv
<1>2. \A k \in 1..Len(file.lines) : file.lines[k] # Torn
  BY <1>1, ChainFacts, TornAssumption
<1>3. entries' = file.lines /\ file' = file /\ initialized' = TRUE /\ draft' = draft
  BY <1>1, <1>2 DEF Load
<1>4. pc[t] = "load_file" /\ pc' = [pc EXCEPT ![t] = First[op[t]]]
  BY DEF Load, Goto
<1>5. First[op[t]] \notin Between
  BY DEF IInv, TypeOK, First, Commands, Between
<1>6. \A u \in Threads : pc'[u] \notin Between
  BY <1>4, <1>5, OnlyWriter DEF IInv, TypeOK, Between
<1>7. AtHead(entries)'
  BY <1>3 DEF Load, AtHead
<1>8. Chain(entries') /\ Chain(file'.lines)
  BY <1>1, <1>3
<1>9. FileInv'
  BY <1>3, <1>6, IdleAtStep DEF FileInv, InSync, IInv, DataInv
<1> QED
  BY <1>7, <1>8, <1>9, DataNext

(* journal_record writes the line: the file is one entry ahead of memory. *)
LEMMA AppendData ==
  ASSUME IInv, NEW t \in Threads, AppendToFile(t)
  PROVE  DataInv' /\ draft' \in Entry
<1>1. pc[t] = "append" /\ Room /\ pc' = [pc EXCEPT ![t] = "commit"]
  BY DEF AppendToFile, Goto
<1>2. PICK id \in Ids : draft' = NextEntry(id) /\ file' = AppendLine(file, NextEntry(id))
  BY DEF AppendToFile
<1>3. UNCHANGED memory /\ NextEntry(id)' = NextEntry(id)
  BY DEF AppendToFile, memory, NextEntry
<1>4. \A u \in Threads : pc[u] \notin Between
  BY <1>1, OnlyWriter DEF IInv, Between
<1>5. file.lines = entries /\ file.open = FALSE
  BY <1>1, <1>4 DEF IInv, DataInv, FileInv, InSync, LoadInv
<1>6. file'.lines = Append(entries, draft') /\ file'.open = FALSE
  BY <1>2, <1>5 DEF AppendLine
<1>7. NextEntry(id) \in Entry /\ Chain(Append(entries, NextEntry(id)))
  BY <1>1, ChainAppend DEF IInv, DataInv, Room
<1>8. AtHead(entries)' /\ Chain(entries')
  BY <1>3 DEF IInv, DataInv, AtHead, memory
<1>9. Chain(file'.lines)
  BY <1>2, <1>6, <1>7
<1>10. FileInv'
  <2>1. pc'[t] = "commit" /\ \A u \in Threads : u # t => pc'[u] \notin Between
    BY <1>1, <1>4 DEF IInv, TypeOK
  <2>2. (draft = NextEntry(id) /\ file.lines = Append(entries, draft) /\ file.open = FALSE)'
    BY <1>2, <1>3, <1>6 DEF memory
  <2>3. draft' # None
    BY <1>2, <1>7, NoneAssumption
  <2>4. AtStep(t)'
    BY <2>1, <2>2, <2>3 DEF AtStep
  <2> QED
    BY <2>1, <2>2, <2>4, IdleAtStep DEF FileInv, InSync, Between
<1> QED
  BY <1>2, <1>7, <1>8, <1>9, <1>10, DataNext

(* Memory catches up with the file, trimmed to the retention limit. *)
LEMMA CommitData ==
  ASSUME IInv, NEW t \in Threads, Commit(t)
  PROVE  DataInv'
<1> DEFINE es == Append(entries, draft)
<1>1. PICK id \in Ids : draft = NextEntry(id) /\ file.lines = es
  BY DEF Commit, IInv, DataInv, FileInv, AtStep
<1>2. Chain(es) /\ es # <<>> /\ es[Len(es)] = draft /\ Len(es) = Len(entries) + 1
      /\ draft \in Entry
  <2>1. Chain(es) /\ draft \in Entry
    BY <1>1 DEF IInv, DataInv, FileInv, AtStep, Commit, TypeOK
  <2> QED
    BY <2>1 DEF IInv, TypeOK
<1>3. /\ entries' = Newest(es) /\ curSeq' = draft.seq /\ lastHash' = draft.hash
      /\ file' = file /\ initialized' = initialized
  BY DEF Commit
<1>4. Chain(Newest(es)) /\ Newest(es) # <<>> /\ Newest(es)[Len(Newest(es))] = draft
  BY <1>2, ChainNewest
<1>5. AtHead(entries)' /\ Chain(entries') /\ Chain(file'.lines)
  BY <1>1, <1>2, <1>3, <1>4 DEF AtHead
<1>6. \A u \in Threads : u # t => pc'[u] = pc[u] /\ pc[u] \notin Between
  <2>1. pc' = [pc EXCEPT ![t] = "truncate"] \/ pc' = [pc EXCEPT ![t] = "idle"]
    BY DEF Commit, Acknowledge, Return, Goto
  <2> QED
    BY <2>1, OnlyWriter DEF Commit, Between, IInv, TypeOK
<1>7. CASE Len(entries) + 1 > MAX_JOURNAL_ENTRIES
  <2>1. pc'[t] = "truncate" /\ draft' = draft
    BY <1>7 DEF Commit, Goto, IInv, TypeOK
  <2>2. (entries = Newest(file.lines))' /\ (draft = file.lines[Len(file.lines)])'
    BY <1>1, <1>2, <1>3, <2>1 DEF Newest
  <2>3. draft' # None
    BY <1>2, <2>1, NoneAssumption
  <2>4. AtStep(t)'
    BY <2>1, <2>2, <2>3 DEF AtStep
  <2>5. \A u \in Threads : AtStep(u)'
    BY <1>6, <2>4, IdleAtStep
  <2> QED
    BY <1>3, <1>5, <2>1, <2>5 DEF DataInv, FileInv, InSync, Between, IInv
<1>8. CASE ~(Len(entries) + 1 > MAX_JOURNAL_ENTRIES)
  <2>1. pc'[t] = "idle"
    BY <1>8 DEF Commit, Acknowledge, Return, Goto, IInv, TypeOK
  <2>2. (file.lines = entries)'
    BY <1>1, <1>2, <1>3, <1>8 DEF Newest
  <2>3. \A u \in Threads : AtStep(u)'
    BY <1>6, <2>1, IdleAtStep DEF Between
  <2> QED
    BY <1>3, <1>5, <2>2, <2>3 DEF DataInv, FileInv, InSync, IInv
<1> QED
  BY <1>7, <1>8

(* The pruned file is truncated, then written as what memory holds. *)
LEMMA RewriteData ==
  ASSUME IInv, NEW t \in Threads, "io" \notin Faults, Truncate(t) \/ Rewrite(t)
  PROVE  DataInv'
<1>1. entries' = entries /\ curSeq' = curSeq /\ lastHash' = lastHash /\ initialized' = initialized
  BY DEF Truncate, Rewrite, memory
<1>2. \/ pc[t] = "truncate" /\ file' = EmptyFile /\ draft' = draft
         /\ pc' = [pc EXCEPT ![t] = "rewrite"]
      \/ pc[t] = "rewrite" /\ file' = FileOf(entries) /\ pc' = [pc EXCEPT ![t] = "idle"]
  BY DEF Truncate, Rewrite, Acknowledge, Return, Goto
<1>3. \A u \in Threads : u # t => pc'[u] = pc[u] /\ pc[u] \notin Between
  BY <1>2, OnlyWriter DEF Between, IInv, TypeOK
<1>4. AtHead(entries)' /\ Chain(entries')
  BY <1>1 DEF IInv, DataInv, AtHead
<1>5. Chain(file'.lines)
  BY <1>1, <1>2, <1>4, EmptyChain DEF EmptyFile, FileOf
<1>6. FileInv'
  <2>1. CASE pc[t] = "truncate"
    <3>1. file' = EmptyFile /\ draft' = draft /\ pc'[t] = "rewrite" /\ draft # None
      BY <1>2, <2>1 DEF IInv, DataInv, FileInv, AtStep, TypeOK
    <3>2. AtStep(t)'
      BY <3>1 DEF AtStep, EmptyFile
    <3> QED
      BY <1>3, <3>1, <3>2, IdleAtStep DEF FileInv, InSync, Between, EmptyFile
  <2>2. CASE pc[t] = "rewrite"
    <3>1. file' = FileOf(entries) /\ pc'[t] = "idle"
      BY <1>2, <2>2 DEF IInv, TypeOK
    <3> QED
      BY <1>1, <1>3, <3>1, IdleAtStep DEF FileInv, InSync, Between, FileOf
  <2> QED
    BY <1>2, <2>1, <2>2
<1> QED
  BY <1>4, <1>5, <1>6, DataNext

(* journal_clear empties memory, then the file. *)
LEMMA WipeData ==
  ASSUME IInv, NEW t \in Threads, "io" \notin Faults, Wipe(t) \/ WipeFile(t)
  PROVE  DataInv'
<1>1. \/ /\ pc[t] = "wipe" /\ entries' = <<>> /\ curSeq' = 0 /\ lastHash' = None
         /\ file' = file /\ pc' = [pc EXCEPT ![t] = "wipe_file"]
      \/ /\ pc[t] = "wipe_file" /\ entries' = entries /\ curSeq' = curSeq /\ lastHash' = lastHash
         /\ file' = EmptyFile /\ pc' = [pc EXCEPT ![t] = "idle"]
  BY DEF Wipe, WipeFile, Return, Goto, memory
<1>2. \A u \in Threads : u # t => pc'[u] = pc[u] /\ pc[u] \notin Between
  BY <1>1, OnlyWriter DEF Between, IInv, TypeOK
<1>3. AtHead(entries)' /\ Chain(entries')
  BY <1>1, EmptyChain DEF IInv, DataInv, AtHead
<1>4. Chain(file'.lines)
  <2>1. (file.lines)' = file.lines \/ (file.lines)' = <<>>
    BY <1>1 DEF EmptyFile
  <2> QED
    BY <2>1, EmptyChain DEF IInv, DataInv
<1>5. FileInv'
  <2>1. CASE pc[t] = "wipe"
    <3>1. file' = file /\ pc'[t] = "wipe_file" /\ entries' = <<>> /\ file.open = FALSE
      BY <1>1, <2>1 DEF IInv, DataInv, FileInv, TypeOK
    <3>2. AtStep(t)'
      BY <3>1 DEF AtStep
    <3> QED
      BY <1>2, <3>1, <3>2, IdleAtStep DEF FileInv, InSync, Between
  <2>2. CASE pc[t] = "wipe_file"
    <3>1. file' = EmptyFile /\ pc'[t] = "idle" /\ entries = <<>>
      BY <1>1, <2>2 DEF IInv, DataInv, FileInv, AtStep, TypeOK
    <3> QED
      BY <1>1, <1>2, <2>2, <3>1, IdleAtStep DEF FileInv, InSync, Between, EmptyFile
  <2> QED
    BY <1>1, <2>1, <2>2
<1> QED
  BY <1>3, <1>4, <1>5, DataNext

-----------------------------------------------------------------------------
(* The invariant. *)

(* The invariant holds when the process starts. *)
LEMMA InitIInv == Init => IInv
<1> SUFFICES ASSUME Init  PROVE IInv
  OBVIOUS
<1>1. TypeOK
  <2>1. entries \in Seq(Entry) /\ curSeq \in 0..MaxSequence
    BY SequenceAssumption DEF Init
  <2>2. file \in [lines : Seq(Entry \cup {Torn}), open : BOOLEAN]
    BY DEF Init, EmptyFile
  <2>3. pc \in [Threads -> Points] /\ op \in [Threads -> Commands]
    BY DEF Init, Points, Commands
  <2> QED
    BY <2>1, <2>2, <2>3 DEF Init, TypeOK
<1>2. LockInv /\ LoadInv
  BY NoneAssumption DEF Init, LockInv, LoadInv, Locks
<1>3. FileInv
  BY DEF Init, FileInv, InSync, AtStep, EmptyFile
<1>4. AtHead(entries) /\ Chain(entries) /\ Chain(file.lines)
  BY EmptyChain DEF Init, AtHead, EmptyFile
<1> QED
  BY <1>1, <1>2, <1>3, <1>4 DEF IInv, DataInv

(* Every step keeps memory, head and file as the point of each thread says. *)
LEMMA DataStep ==
  ASSUME IInv, [Next]_vars, "io" \notin Faults
  PROVE  DataInv'
<1> USE DEF TypeOK, IInv, Goto
<1>0. CASE UNCHANGED vars
  BY <1>0, DataUnchanged DEF vars, threads
<1>1. ASSUME NEW t \in Threads, NEW o \in Ops, Call(t, o)  PROVE DataInv'
  BY <1>1, DataUnchanged DEF Call, Between
<1>2. ASSUME NEW t \in Threads, EnsureInitialized(t)  PROVE DataInv'
  <2>1. First[op[t]] \in {"rec_seq", "clr_entries", "read"}
    BY DEF First, Commands
  <2> QED
    BY <1>2, <2>1, DataUnchanged DEF EnsureInitialized, Between
<1>3. ASSUME NEW t \in Threads, Acquire(t)  PROVE DataInv'
  <2>1. UNCHANGED <<memory, file, draft>>
    BY <1>3 DEF Acquire
  <2> QED
    BY <1>3, <2>1, AcquireCases, DataUnchanged DEF Takes, Between
<1>4. ASSUME NEW t \in Threads, Read(t) \/ AppendFails(t)  PROVE DataInv'
  BY <1>4, DataUnchanged DEF Read, AppendFails, Return, Between
<1>5. ASSUME NEW t \in Threads, Step(t)  PROVE DataInv'
  <2>1. ~TruncateFails(t)
    BY DEF TruncateFails
  <2> QED
    BY <1>2, <1>3, <1>4, <1>5, <2>1, LoadData, AppendData, CommitData, RewriteData, WipeData
       DEF Step
<1>6. ASSUME Crash  PROVE DataInv'
  <2>1. /\ entries' = <<>> /\ curSeq' = 0 /\ lastHash' = None /\ file' = file
        /\ initialized' = FALSE /\ \A u \in Threads : pc'[u] = "idle"
    BY <1>6 DEF Crash
  <2>2. FileInv'
    BY <2>1, IdleAtStep DEF DataInv, FileInv, InSync, Between
  <2>3. AtHead(entries)' /\ Chain(entries') /\ Chain(file'.lines)
    BY <2>1, EmptyChain DEF DataInv, AtHead
  <2> QED
    BY <2>2, <2>3, DataNext
<1> QED
  BY <1>0, <1>1, <1>5, <1>6 DEF Next

(* What may be in the file: whole entries and torn lines. *)
FileType == [lines : Seq(Entry \cup {Torn}), open : BOOLEAN]

(* Appending to the file, whole or torn, leaves a file of such lines. *)
LEMMA AppendTypes ==
  ASSUME NEW f \in FileType, NEW e \in Entry
  PROVE  AppendLine(f, e) \in FileType /\ TornAppends(f, e) \subseteq FileType
<1> DEFINE Line == Entry \cup {Torn}
           merged == [f.lines EXCEPT ![Len(f.lines)] = Torn]
<1>1. Torn \in Line /\ e \in Line /\ f.lines \in Seq(Line) /\ Len(f.lines) \in Nat
  BY DEF FileType
<1> HIDE DEF Line
<1>2. merged \in Seq(Line)
  <2>1. f.lines \in [1..Len(f.lines) -> Line]
    BY <1>1
  <2>2. merged \in [1..Len(f.lines) -> Line]
    BY <1>1, <2>1
  <2> QED
    BY <1>1, <2>2
<1>3. \A x \in {Torn, e} : Append(f.lines, x) \in Seq(Line)
  BY <1>1
<1>4. FileType = [lines : Seq(Line), open : BOOLEAN]
  BY DEF FileType, Line
<1>5. AppendLine(f, e) \in FileType
  BY <1>2, <1>3, <1>4 DEF AppendLine
<1>6. ASSUME NEW g \in TornAppends(f, e)  PROVE g \in FileType
  <2>1. CASE f.open
    <3>1. g = [lines |-> merged, open |-> TRUE]
      BY <1>6, <2>1 DEF TornAppends
    <3> QED
      BY <1>2, <1>4, <3>1
  <2>2. CASE ~f.open
    <3>1. PICK x \in {Torn, e} : g = [lines |-> Append(f.lines, x), open |-> TRUE]
      BY <1>6, <2>2 DEF TornAppends
    <3> QED
      BY <1>3, <1>4, <3>1
  <2> QED
    BY <2>1, <2>2
<1> QED
  BY <1>5, <1>6

(* The entry that a command has drafted is whole. *)
DraftWhole ==
  \A t \in Threads : pc[t] \in {"commit", "truncate", "rewrite"} => draft \in Entry

(* Every step keeps the types, whatever fails. *)
LEMMA TypeStep ==
  ASSUME TypeOK, DraftWhole, [Next]_vars, AtHead(entries)', entries' \in Seq(Entry)
  PROVE  TypeOK'
<1>1. (entries \in Seq(Entry) /\ lastHash \in Hash \cup {None} /\ curSeq \in 0..MaxSequence)'
  <2>1. CASE entries' = <<>>
    BY <2>1, SequenceAssumption DEF AtHead
  <2>2. CASE entries' # <<>>
    <3>1. entries'[Len(entries')] \in Entry
      BY <2>2
    <3> QED
      BY <2>2, <3>1, SequenceAssumption DEF AtHead, Entry
  <2> QED
    BY <2>1, <2>2
<1> DEFINE Control == /\ owner \in [Locks -> Threads \cup {None}]
                      /\ pc \in [Threads -> Points]
                      /\ op \in [Threads -> Commands]
           Data == /\ initialized \in BOOLEAN
                   /\ file \in FileType
                   /\ draft \in Entry \cup {None}
                   /\ acked \subseteq Entry
                   /\ glued \subseteq Entry
                   /\ damaged \in BOOLEAN
<1>2. Control /\ Data /\ entries \in Seq(Entry)
  BY DEF TypeOK, FileType
<1>3. ASSUME UNCHANGED vars  PROVE Control' /\ Data'
  BY <1>2, <1>3 DEF vars, memory, threads, history
<1>4. ASSUME NEW t \in Threads, Return(t)  PROVE Control'
  BY <1>2, <1>4 DEF Return, Release, Goto, Points, Commands
<1>5. ASSUME NEW t \in Threads, Acknowledge(t), draft \in Entry
      PROVE  Control' /\ (draft \in Entry \cup {None} /\ acked \subseteq Entry)'
  BY <1>2, <1>4, <1>5 DEF Acknowledge
<1>6. ASSUME NEW t \in Threads, pc[t] \in {"commit", "truncate", "rewrite"}
      PROVE  draft \in Entry
  BY <1>6 DEF DraftWhole
<1>7. EmptyFile \in FileType /\ \A es \in Seq(Entry) : FileOf(es) \in FileType
  BY DEF EmptyFile, FileOf, FileType
<1>8. ASSUME Room, NEW id \in Ids
      PROVE  /\ NextEntry(id) \in Entry /\ AppendLine(file, NextEntry(id)) \in FileType
             /\ TornAppends(file, NextEntry(id)) \subseteq FileType
  BY <1>2, <1>8, NextEntryType, AppendTypes DEF Room
<1>9. ASSUME NEW t \in Threads, NEW o \in Ops, Call(t, o)  PROVE Control' /\ Data'
  BY <1>2, <1>9, OpsAssumption DEF Call, memory, history, Goto, Points
<1>10. ASSUME NEW t \in Threads, EnsureInitialized(t)  PROVE Control' /\ Data'
  <2>1. First[op[t]] \in Points /\ "load_entries" \in Points
    BY <1>2 DEF First, Commands, Points, Wants
  <2> QED
    BY <1>2, <1>10, <2>1 DEF EnsureInitialized, memory, history, Goto, Locks
<1>11. ASSUME NEW t \in Threads, Acquire(t)  PROVE Control' /\ Data'
  <2>1. UNCHANGED <<memory, file, op, draft, history>>
    BY <1>11 DEF Acquire
  <2>2. {"load_last", "load_seq", "load_file", "rec_last", "rec_entries", "append",
         "clr_last", "clr_seq", "wipe"} \subseteq Points
    BY DEF Points, Wants
  <2> QED
    BY <1>2, <1>11, <2>1, <2>2, AcquireCases DEF Takes, memory, history, Locks
<1>12. ASSUME NEW t \in Threads, Load(t)  PROVE Control' /\ Data'
  <2>1. First[op[t]] \in Points
    BY <1>2 DEF First, Commands, Points, Wants
  <2> QED
    BY <1>2, <1>12, <2>1 DEF Load, Release, history, Goto
<1>13. ASSUME NEW t \in Threads, Read(t)  PROVE Control' /\ Data'
  BY <1>2, <1>4, <1>13 DEF Read, memory, history
<1>14. ASSUME NEW t \in Threads, AppendFails(t)  PROVE Control' /\ Data'
  <2>1. file' \in FileType
    BY <1>2, <1>8, <1>14 DEF AppendFails
  <2> QED
    BY <1>2, <1>4, <1>14, <2>1 DEF AppendFails, memory, history
<1>15. ASSUME NEW t \in Threads, AppendToFile(t)  PROVE Control' /\ Data'
  <2>1. draft' \in Entry /\ file' \in FileType
    BY <1>8, <1>15 DEF AppendToFile
  <2> QED
    BY <1>2, <1>15, <2>1 DEF AppendToFile, Goto, Points, memory, history
<1>16. ASSUME NEW t \in Threads, Commit(t)  PROVE Control' /\ Data'
  BY <1>2, <1>5, <1>6, <1>16 DEF Commit, Goto, Points, history
<1>17. ASSUME NEW t \in Threads, Truncate(t) \/ TruncateFails(t)  PROVE Control' /\ Data'
  BY <1>2, <1>5, <1>6, <1>7, <1>17 DEF Truncate, TruncateFails, Goto, Points, memory, history
<1>18. ASSUME NEW t \in Threads, Rewrite(t)  PROVE Control' /\ Data'
  <2>1. ASSUME NEW n \in 0..Len(entries) - 1
        PROVE  TornAppends(FileOf(SubSeq(entries, 1, n)), entries[n + 1]) \subseteq FileType
    <3>1. SubSeq(entries, 1, n) \in Seq(Entry) /\ entries[n + 1] \in Entry
      BY <1>2
    <3> QED
      BY <1>7, <3>1, AppendTypes
  <2>2. file' \in FileType
    BY <1>2, <1>7, <1>18, <2>1 DEF Rewrite
  <2> QED
    BY <1>2, <1>5, <1>6, <1>18, <2>2 DEF Rewrite, memory
<1>19. ASSUME NEW t \in Threads, Wipe(t) \/ WipeFile(t)  PROVE Control' /\ Data'
  BY <1>2, <1>4, <1>7, <1>19 DEF Wipe, WipeFile, Goto, Points, memory, history
<1>20. ASSUME Crash  PROVE Control' /\ Data'
  BY <1>2, <1>20 DEF Crash, Points, Commands
<1>21. Control' /\ Data'
  BY <1>3, <1>9, <1>10, <1>11, <1>12, <1>13, <1>14, <1>15, <1>16, <1>17, <1>18, <1>19, <1>20
     DEF Next, Step
<1> QED
  BY <1>1, <1>21 DEF TypeOK, FileType

(* IInv holds in every reachable state. *)
THEOREM Invariance ==
  ASSUME "io" \notin Faults
  PROVE  Spec => []IInv
<1>1. IInv /\ [Next]_vars => IInv'
  <2> SUFFICES ASSUME IInv, [Next]_vars  PROVE IInv'
    OBVIOUS
  <2>1. LockInv' /\ LoadInv' /\ DataInv'
    BY LockStep, LoadStep, DataStep DEF IInv
  <2>2. AtHead(entries)' /\ entries' \in Seq(Entry)
    BY <2>1 DEF DataInv, Chain
  <2>3. DraftWhole
    BY DEF IInv, TypeOK, DataInv, FileInv, AtStep, DraftWhole
  <2> QED
    BY <2>1, <2>2, <2>3, TypeStep DEF IInv, DataInv
<1> QED
  BY InitIInv, <1>1, PTL DEF Spec

(* Whatever a reader finds under the entries' Mutex passes the chain check,
   after any interleaving of commands and any number of crashes. *)
THEOREM ReadersSeeAChain ==
  ASSUME "io" \notin Faults
  PROVE  Spec => []VisibleChainVerifies
<1>1. IInv => VisibleChainVerifies
  BY DEF IInv, DataInv, Chain, VisibleChainVerifies
<1> QED
  BY <1>1, Invariance, PTL

(* A restart loads exactly what was in memory when no command was writing. *)
THEOREM RestartsRecover ==
  ASSUME "io" \notin Faults
  PROVE  Spec => []RestartRecoversMemory
<1>1. IInv => RestartRecoversMemory
  <2> SUFFICES ASSUME IInv, initialized, owner["SEQ"] = None
               PROVE  Loaded(file.lines) = entries
    BY DEF RestartRecoversMemory
  <2>1. \A t \in Threads : pc[t] \notin Between
    BY NoneAssumption DEF IInv, LockInv, Between
  <2>2. file.lines = entries /\ Chain(entries)
    BY <2>1 DEF IInv, DataInv, FileInv, InSync
  <2> QED
    BY <2>2, LoadedChain
<1> QED
  BY <1>1, Invariance, PTL

-----------------------------------------------------------------------------
(* Whatever fails: types, head and draft. *)

(* The steps of a command that has drafted an entry. *)
Drafting == {"commit", "truncate", "rewrite"}

(* What a command that has drafted an entry, or has cleared memory, relies on. *)
DraftInv ==
  \A t \in Threads :
    /\ pc[t] \in Drafting => draft \in Entry
    /\ pc[t] = "commit" => curSeq < MaxSequence /\ \E id \in Ids : draft = NextEntry(id)
    /\ pc[t] = "wipe_file" => entries = <<>> /\ acked = {}

(* What needs nothing of the file: it holds under any faults. *)
AnyInv == TypeOK /\ LockInv /\ LoadInv /\ AtHead(entries) /\ DraftInv

(* With nobody between memory and file, there is no draft to speak of. *)
LEMMA DraftAtRest ==
  ASSUME \A u \in Threads : pc'[u] \notin Between
  PROVE  DraftInv'
BY DEF DraftInv, Drafting, Between

(* A step that changes neither memory nor what was acknowledged, and takes no
   thread between memory and file. *)
LEMMA DraftUnchanged ==
  ASSUME AnyInv, UNCHANGED <<memory, draft, acked>>,
         \A u \in Threads : pc'[u] \in Between => pc'[u] = pc[u]
  PROVE  entries' \in Seq(Entry) /\ AtHead(entries)' /\ DraftInv'
<1>1. /\ entries' = entries /\ curSeq' = curSeq /\ lastHash' = lastHash
      /\ acked' = acked /\ draft' = draft
      /\ \A id : NextEntry(id)' = NextEntry(id)
  BY DEF memory, NextEntry
<1>2. entries' \in Seq(Entry) /\ AtHead(entries)'
  BY <1>1 DEF AnyInv, TypeOK, AtHead
<1>3. DraftInv'
  BY <1>1 DEF AnyInv, DraftInv, Drafting, Between
<1> QED
  BY <1>2, <1>3

(* Every step keeps head and draft, whatever fails. *)
LEMMA AnyStep ==
  ASSUME AnyInv, [Next]_vars
  PROVE  entries' \in Seq(Entry) /\ AtHead(entries)' /\ DraftInv'
<1> DEFINE Goal == entries' \in Seq(Entry) /\ AtHead(entries)' /\ DraftInv'
<1> USE DEF Goto
<1>a. /\ entries \in Seq(Entry) /\ file.lines \in Seq(Entry \cup {Torn})
      /\ pc \in [Threads -> Points] /\ op \in [Threads -> Commands]
      /\ AtHead(entries) /\ LockInv /\ DraftInv
  BY DEF AnyInv, TypeOK
<1>b. ASSUME entries' = entries, curSeq' = curSeq, lastHash' = lastHash
      PROVE  entries' \in Seq(Entry) /\ AtHead(entries)'
  BY <1>a, <1>b DEF AtHead
<1>0. CASE UNCHANGED vars
  BY <1>0, DraftUnchanged DEF vars, threads, history
<1>1. ASSUME NEW t \in Threads, NEW o \in Ops, Call(t, o)  PROVE Goal
  BY <1>a, <1>1, DraftUnchanged DEF Call, Between, history
<1>2. ASSUME NEW t \in Threads, EnsureInitialized(t)  PROVE Goal
  <2>1. First[op[t]] \in {"rec_seq", "clr_entries", "read"}
    BY <1>a DEF First, Commands
  <2> QED
    BY <1>a, <1>2, <2>1, DraftUnchanged DEF EnsureInitialized, Between, history
<1>3. ASSUME NEW t \in Threads, Acquire(t)  PROVE Goal
  <2>1. UNCHANGED <<memory, draft, acked>>
    BY <1>3 DEF Acquire, history
  <2> QED
    BY <1>a, <1>3, <2>1, AcquireCases, DraftUnchanged DEF Takes, Between
<1>4. ASSUME NEW t \in Threads, Load(t)  PROVE Goal
  <2>1. First[op[t]] \in {"rec_seq", "clr_entries", "read"}
    BY <1>a DEF First, Commands
  <2>a. pc[t] = "load_file" /\ pc' = [pc EXCEPT ![t] = First[op[t]]]
    BY <1>4 DEF Load
  <2>b. \A u \in Threads : u # t => pc[u] \notin Between
    BY <1>a, <2>a, OnlyWriter
  <2>2. \A u \in Threads : pc'[u] \notin Between
    BY <1>a, <2>a, <2>b, <2>1 DEF Between
  <2>c. entries' = Loaded(file.lines) \/ entries' = <<>>
    BY <1>4 DEF Load
  <2>3. entries' \in Seq(Entry)
    <3>1. file.lines \in Seq(Entry \cup {Torn})
      BY <1>a
    <3>2. Loaded(file.lines) \in Seq(Entry) /\ <<>> \in Seq(Entry)
      BY <3>1, LoadedLines
    <3> QED
      BY <2>c, <3>2
  <2>4. AtHead(entries)'
    BY <1>4 DEF Load, AtHead
  <2> QED
    BY <2>2, <2>3, <2>4, DraftAtRest
<1>5. ASSUME NEW t \in Threads, Read(t) \/ AppendFails(t) \/ WipeFile(t)  PROVE Goal
  BY <1>a, <1>5, DraftUnchanged DEF Read, AppendFails, WipeFile, Return, Between, history
<1>6. ASSUME NEW t \in Threads, AppendToFile(t)  PROVE Goal
  <2>1. /\ pc[t] = "append" /\ pc' = [pc EXCEPT ![t] = "commit"] /\ curSeq < MaxSequence
        /\ entries' = entries /\ curSeq' = curSeq /\ lastHash' = lastHash
    BY <1>6 DEF AppendToFile, Room, memory
  <2>2. PICK id \in Ids : draft' = NextEntry(id)
    BY <1>6 DEF AppendToFile
  <2>3. NextEntry(id)' = NextEntry(id) /\ NextEntry(id) \in Entry
    BY <2>1, NextEntryType DEF NextEntry, AnyInv
  <2>4. \A u \in Threads : pc'[u] = (IF u = t THEN "commit" ELSE pc[u])
                        /\ (u # t => pc[u] \notin Between)
    BY <1>a, <2>1, OnlyWriter
  <2>5. DraftInv'
    BY <2>1, <2>2, <2>3, <2>4 DEF DraftInv, Drafting, Between
  <2> QED
    BY <1>b, <2>1, <2>5
<1>7. ASSUME NEW t \in Threads, Commit(t)  PROVE Goal
  <2>1. draft \in Entry /\ Append(entries, draft) \in Seq(Entry)
    BY <1>a, <1>7 DEF Commit, DraftInv, Drafting
  <2> DEFINE es == Append(entries, draft)
  <2>2. es # <<>> /\ es[Len(es)] = draft
    BY <1>a, <2>1
  <2>3. entries' \in Seq(Entry) /\ entries' # <<>> /\ entries'[Len(entries')] = draft
    BY <1>7, <2>1, <2>2, NewestKeeps DEF Commit
  <2>4. AtHead(entries)'
    BY <1>7, <2>3 DEF Commit, AtHead
  <2>5. DraftInv'
    <3>1. pc[t] = "commit"
          /\ \/ pc' = [pc EXCEPT ![t] = "truncate"] /\ draft' = draft
             \/ pc' = [pc EXCEPT ![t] = "idle"]
      BY <1>7 DEF Commit, Acknowledge, Return
    <3>2. \A u \in Threads : (u # t => pc'[u] \notin Between)
                          /\ (u = t => pc'[u] \in {"truncate", "idle"})
                          /\ (pc'[u] = "truncate" => draft' = draft)
      BY <1>a, <3>1, OnlyWriter DEF Between
    <3> QED
      BY <2>1, <3>2 DEF DraftInv, Drafting, Between
  <2> QED
    BY <2>3, <2>4, <2>5
<1>8. ASSUME NEW t \in Threads, Truncate(t)  PROVE Goal
  <2>1. /\ pc[t] = "truncate" /\ pc' = [pc EXCEPT ![t] = "rewrite"] /\ draft' = draft
        /\ entries' = entries /\ curSeq' = curSeq /\ lastHash' = lastHash
    BY <1>8 DEF Truncate, memory
  <2>2. draft \in Entry
    BY <1>a, <2>1 DEF DraftInv, Drafting
  <2>3. \A u \in Threads : (u # t => pc'[u] \notin Between) /\ (u = t => pc'[u] = "rewrite")
    BY <1>a, <2>1, OnlyWriter DEF Between
  <2>4. DraftInv'
    BY <2>1, <2>2, <2>3 DEF DraftInv, Drafting, Between
  <2> QED
    BY <1>b, <2>1, <2>4
<1>9. ASSUME NEW t \in Threads, TruncateFails(t) \/ Rewrite(t)  PROVE Goal
  <2>1. /\ pc[t] \in {"truncate", "rewrite"} /\ pc' = [pc EXCEPT ![t] = "idle"]
        /\ entries' = entries /\ curSeq' = curSeq /\ lastHash' = lastHash
    BY <1>9 DEF TruncateFails, Rewrite, Acknowledge, Return, memory
  <2>2. \A u \in Threads : pc'[u] \notin Between
    BY <1>a, <2>1, OnlyWriter DEF Between
  <2> QED
    BY <1>b, <2>1, <2>2, DraftAtRest
<1>10. ASSUME NEW t \in Threads, Wipe(t)  PROVE Goal
  <2>1. /\ pc[t] = "wipe" /\ pc' = [pc EXCEPT ![t] = "wipe_file"]
        /\ entries' = <<>> /\ curSeq' = 0 /\ lastHash' = None /\ acked' = {}
    BY <1>10 DEF Wipe
  <2>2. \A u \in Threads : u # t => pc'[u] \notin Between
    BY <1>a, <2>1, OnlyWriter DEF Between
  <2>3. DraftInv'
    BY <1>a, <2>1, <2>2 DEF DraftInv, Drafting, Between
  <2> QED
    BY <2>1, <2>3 DEF AtHead
<1>11. ASSUME Crash  PROVE Goal
  <2>1. /\ entries' = <<>> /\ curSeq' = 0 /\ lastHash' = None
        /\ \A u \in Threads : pc'[u] = "idle"
    BY <1>11 DEF Crash
  <2>2. \A u \in Threads : pc'[u] \notin Between
    BY <2>1 DEF Between
  <2> QED
    BY <2>1, <2>2, DraftAtRest DEF AtHead
<1> HIDE DEF Goal
<1>12. Goal
  BY <1>1, <1>2, <1>3, <1>4, <1>5, <1>6, <1>7, <1>8, <1>9, <1>10, <1>11, <1>0 DEF Next, Step, Goal
<1> QED
  BY <1>12 DEF Goal

(* AnyInv holds in every reachable state. *)
THEOREM AnyInvariance == Spec => []AnyInv
<1>1. Init => AnyInv
  <2> SUFFICES ASSUME Init  PROVE AnyInv
    OBVIOUS
  <2>1. TypeOK /\ LockInv /\ LoadInv /\ AtHead(entries)
    BY InitIInv DEF IInv, DataInv
  <2>2. DraftInv
    BY DEF Init, DraftInv, Drafting
  <2> QED
    BY <2>1, <2>2 DEF AnyInv
<1>2. AnyInv /\ [Next]_vars => AnyInv'
  <2> SUFFICES ASSUME AnyInv, [Next]_vars  PROVE AnyInv'
    OBVIOUS
  <2>1. LockInv' /\ LoadInv'
    BY LockStep, LoadStep DEF AnyInv
  <2>2. entries' \in Seq(Entry) /\ AtHead(entries)' /\ DraftInv'
    BY AnyStep
  <2>3. DraftWhole
    BY DEF AnyInv, DraftInv, DraftWhole, Drafting
  <2> QED
    BY <2>1, <2>2, <2>3, TypeStep DEF AnyInv
<1> QED
  BY <1>1, <1>2, PTL DEF Spec

(* Every variable keeps its type, whatever fails and whenever the process
   dies: in particular what a torn file is loaded as are whole entries, and
   curSeq stays within its bound. *)
THEOREM TypeCorrectness == Spec => []TypeOK
<1>1. AnyInv => TypeOK
  BY DEF AnyInv
<1> QED
  BY <1>1, AnyInvariance, PTL

(* The next journal_record extends the chain that readers see: the head kept
   in CURRENT_SEQUENCE and LAST_HASH is the head of JOURNAL_ENTRIES, after any
   failed write, torn file or restart. *)
THEOREM HeadsAgree == Spec => []HeadMatchesEntries
<1>1. AnyInv => HeadMatchesEntries
  BY DEF AnyInv, AtHead, HeadMatchesEntries
<1> QED
  BY <1>1, AnyInvariance, PTL

-----------------------------------------------------------------------------
(* What is acknowledged stays, whatever fails and whenever the process dies,
   as long as the history is not damaged. *)

(* What a whole line of the file is worth: the last one, when it lacks its
   newline, is lost with the next append. *)
SafeLines(f) == {k \in Whole(f.lines) : ~(f.open /\ k = Len(f.lines))}
Safe(f) == {f.lines[k] : k \in SafeLines(f)}

(* What was acknowledged and not glued, and what the command that is pruning
   the file will have acknowledged when it returns. *)
Kept == acked \ glued
Owed == {draft} \cup {e \in acked : e.seq > draft.seq - MAX_JOURNAL_ENTRIES}

(* The numbers in the file do not exceed n. *)
Upto(f, n) == \A e \in Safe(f) : e.seq <= n

(* With nobody between memory and file, both hold what was acknowledged and
   the next number is new to the file. *)
AtRest ==
  /\ Kept \subseteq Safe(file)
  /\ initialized => Kept \subseteq Held(entries) /\ Upto(file, curSeq)

(* What they hold when t is between the two. *)
Midway(t) ==
  /\ pc[t] = "commit" =>
       /\ Kept \subseteq Held(entries) \cup {draft}
       /\ Upto(file, draft.seq)
  /\ pc[t] \in {"commit", "truncate"} =>
       /\ draft \in Safe(file) \cup glued
       /\ Kept \subseteq Safe(file)
  /\ pc[t] \in {"truncate", "rewrite"} =>
       /\ Owed \ glued \subseteq Held(entries)
       /\ Upto(file, curSeq)

Intact ==
  /\ Increasing(entries) /\ Distinct(file.lines)
  /\ (\A t \in Threads : pc[t] \notin Between) => AtRest
  /\ \A t \in Threads : Midway(t)

Merged(lines) == [lines EXCEPT ![Len(lines)] = Torn]

(* Gluing a text to the last line costs that line. *)
LEMMA MergedLines ==
  ASSUME NEW lines \in Seq(Entry \cup {Torn})
  PROVE  /\ Merged(lines) \in Seq(Entry \cup {Torn}) /\ Len(Merged(lines)) = Len(lines)
         /\ Whole(Merged(lines)) = {k \in Whole(lines) : k # Len(lines)}
         /\ \A k \in Whole(Merged(lines)) : Merged(lines)[k] = lines[k]
<1> DEFINE Line == Entry \cup {Torn}
<1>1. lines \in [1..Len(lines) -> Line] /\ Len(lines) \in Nat /\ Torn \in Line
  OBVIOUS
<1> HIDE DEF Line
<1>2. Merged(lines) \in [1..Len(lines) -> Line]
  BY <1>1 DEF Merged
<1>3. Merged(lines) \in Seq(Line) /\ Len(Merged(lines)) = Len(lines)
  BY <1>1, <1>2
<1>4. \A k \in 1..Len(lines) : Merged(lines)[k] = (IF k = Len(lines) THEN Torn ELSE lines[k])
  BY <1>1 DEF Merged
<1>5. Whole(Merged(lines)) = {k \in Whole(lines) : k # Len(lines)}
  BY <1>3, <1>4 DEF Whole
<1>6. \A k \in Whole(Merged(lines)) : Merged(lines)[k] = lines[k]
  BY <1>4, <1>5 DEF Whole
<1> QED
  BY <1>3, <1>5, <1>6 DEF Line

(* A line appended after a terminated one is worth what it holds. *)
LEMMA LongerLines ==
  ASSUME NEW lines \in Seq(Entry \cup {Torn}), NEW x \in Entry \cup {Torn}
  PROVE  /\ Append(lines, x) \in Seq(Entry \cup {Torn}) /\ Len(Append(lines, x)) = Len(lines) + 1
         /\ Whole(Append(lines, x)) =
              Whole(lines) \cup (IF x = Torn THEN {} ELSE {Len(lines) + 1})
         /\ Append(lines, x)[Len(lines) + 1] = x
         /\ \A k \in Whole(lines) : k # Len(lines) + 1 /\ Append(lines, x)[k] = lines[k]
<1> DEFINE Line == Entry \cup {Torn}
<1> HIDE DEF Line
<1>1. lines \in Seq(Line) /\ x \in Line
  BY DEF Line
<1>2. /\ Append(lines, x) \in Seq(Line) /\ Len(Append(lines, x)) = Len(lines) + 1
      /\ Append(lines, x)[Len(lines) + 1] = x /\ Len(lines) \in Nat
      /\ \A k \in 1..Len(lines) : Append(lines, x)[k] = lines[k]
  BY <1>1
<1>3. \A k : k \in 1..Len(lines) + 1 <=> k \in 1..Len(lines) \/ k = Len(lines) + 1
  BY <1>2
<1>4. \A k : k \in Whole(Append(lines, x)) <=>
               k \in Whole(lines) \/ (x # Torn /\ k = Len(lines) + 1)
  BY <1>2, <1>3 DEF Whole
<1>5. \A k \in Whole(lines) : k # Len(lines) + 1 /\ Append(lines, x)[k] = lines[k]
  BY <1>2 DEF Whole
<1>6. Whole(Append(lines, x)) = Whole(lines) \cup (IF x = Torn THEN {} ELSE {Len(lines) + 1})
  BY <1>4
<1> QED
  BY <1>2, <1>5, <1>6 DEF Line

(* What a whole line holds is an entry. *)
LEMMA SafeEntries ==
  ASSUME NEW f \in FileType
  PROVE  Safe(f) \subseteq Entry /\ \A k \in SafeLines(f) : k \in Whole(f.lines)
<1>1. f.lines \in Seq(Entry \cup {Torn})
  BY DEF FileType
<1>2. \A k \in SafeLines(f) : k \in Whole(f.lines) /\ f.lines[k] \in Entry
  BY <1>1, WholeLines DEF SafeLines
<1> QED
  BY <1>2 DEF Safe

(* A write to a file whose last line is open leaves its whole lines. *)
LEMMA MergedFile ==
  ASSUME NEW f \in FileType, f.open, Distinct(f.lines), NEW b \in BOOLEAN,
         NEW g, g = [lines |-> Merged(f.lines), open |-> b]
  PROVE  Distinct(g.lines) /\ Safe(g) = Safe(f)
<1>1. f.lines \in Seq(Entry \cup {Torn}) /\ g.lines = Merged(f.lines) /\ g.open = b
  BY DEF FileType
<1>2. /\ Whole(g.lines) = {k \in Whole(f.lines) : k # Len(f.lines)}
      /\ Len(g.lines) = Len(f.lines)
      /\ \A k \in Whole(g.lines) : g.lines[k] = f.lines[k]
  BY <1>1, MergedLines
<1>3. SafeLines(g) = SafeLines(f) /\ SafeLines(f) = Whole(g.lines)
  BY <1>1, <1>2 DEF SafeLines
<1>4. Safe(g) = Safe(f)
  BY <1>2, <1>3 DEF Safe
<1>5. Distinct(g.lines)
  BY <1>2 DEF Distinct
<1> QED
  BY <1>4, <1>5

Longer(f, x, b) == [lines |-> Append(f.lines, x), open |-> b]

(* A write to a file whose last line is terminated keeps them all, and adds
   the entry when it is completed. *)
LEMMA LongerFile ==
  ASSUME NEW f \in FileType, ~f.open, Distinct(f.lines), NEW b \in BOOLEAN,
         NEW e \in Entry, NEW n \in Nat, Upto(f, n), n < e.seq,
         NEW x \in {Torn, e}
  PROVE  /\ Distinct(Longer(f, x, b).lines)
         /\ b \/ x = Torn => Safe(Longer(f, x, b)) = Safe(f)
         /\ ~b /\ x = e => Safe(Longer(f, x, b)) = Safe(f) \cup {e}
<1> DEFINE g == Longer(f, x, b)
<1>1. /\ f.lines \in Seq(Entry \cup {Torn}) /\ g.lines = Append(f.lines, x) /\ g.open = b
      /\ x \in Entry \cup {Torn} /\ Torn # e
  BY TornAssumption DEF FileType, Longer
<1> HIDE DEF g
<1> DEFINE last == Len(f.lines) + 1
<1>2. /\ Whole(g.lines) = Whole(f.lines) \cup (IF x = Torn THEN {} ELSE {last})
      /\ Len(g.lines) = last /\ g.lines[last] = x
      /\ \A k \in Whole(f.lines) : k # last /\ g.lines[k] = f.lines[k]
  <2>1. f.lines \in Seq(Entry \cup {Torn}) /\ x \in Entry \cup {Torn}
    BY <1>1
  <2>2. /\ Len(Append(f.lines, x)) = last
        /\ Whole(Append(f.lines, x)) = Whole(f.lines) \cup (IF x = Torn THEN {} ELSE {last})
        /\ Append(f.lines, x)[last] = x
        /\ \A k \in Whole(f.lines) : k # last /\ Append(f.lines, x)[k] = f.lines[k]
    BY <2>1, LongerLines
  <2> QED
    BY <1>1, <2>2
<1> HIDE DEF last
<1>3. SafeLines(f) = Whole(f.lines)
  BY DEF SafeLines
<1>4. \A k \in Whole(f.lines) : f.lines[k].seq < e.seq
  <2>1. \A k \in Whole(f.lines) : f.lines[k] \in Safe(f)
    BY <1>3 DEF Safe
  <2>2. \A k \in Whole(f.lines) : f.lines[k].seq \in Nat /\ e.seq \in Nat
    BY <1>1, WholeLines, EntrySeq
  <2> QED
    BY <2>1, <2>2 DEF Upto
<1>5. Distinct(g.lines)
  <2> SUFFICES ASSUME NEW j \in Whole(g.lines), NEW k \in Whole(g.lines),
                      g.lines[j].seq = g.lines[k].seq
               PROVE  j = k
    BY DEF Distinct
  <2>1. e.seq \in Nat /\ \A m \in Whole(f.lines) : f.lines[m].seq \in Nat
    BY <1>1, WholeLines, EntrySeq
  <2>2. \A m \in Whole(g.lines) : m \in Whole(f.lines) \/ (m = last /\ g.lines[m] = e)
    BY <1>1, <1>2
  <2>3. CASE j \in Whole(f.lines) /\ k \in Whole(f.lines)
    BY <1>2, <2>3 DEF Distinct
  <2>4. CASE j = last /\ k = last
    BY <2>4
  <2>5. CASE j \in Whole(f.lines) /\ k = last /\ g.lines[k] = e
    <3>1. f.lines[j].seq = e.seq
      BY <1>2, <2>5
    <3> QED
      BY <1>4, <2>1, <2>5, <3>1
  <2>6. CASE j = last /\ g.lines[j] = e /\ k \in Whole(f.lines)
    <3>1. f.lines[k].seq = e.seq
      BY <1>2, <2>6
    <3> QED
      BY <1>4, <2>1, <2>6, <3>1
  <2> QED
    BY <2>2, <2>3, <2>4, <2>5, <2>6
<1>6. \A k \in SafeLines(f) : g.lines[k] = f.lines[k]
  BY <1>2, <1>3
<1>7. ASSUME b \/ x = Torn  PROVE Safe(g) = Safe(f)
  <2>1. SafeLines(g) = SafeLines(f)
    BY <1>1, <1>2, <1>3, <1>7 DEF SafeLines
  <2> QED
    BY <1>6, <2>1 DEF Safe
<1>8. ASSUME ~b, x = e  PROVE Safe(g) = Safe(f) \cup {e}
  <2>1. \A k : k \in SafeLines(g) <=> k \in SafeLines(f) \/ k = last
    BY <1>1, <1>2, <1>3, <1>8 DEF SafeLines
  <2>2. g.lines[last] = e
    BY <1>2, <1>8
  <2>3. \A y : y \in Safe(g) <=> y \in Safe(f) \/ y = e
    BY <1>6, <2>1, <2>2 DEF Safe
  <2> QED
    BY <2>3
<1> QED
  BY <1>5, <1>7, <1>8 DEF g

(* journal_record's write: it succeeds, glued or not, or stops half way. *)
LEMMA WrittenFile ==
  ASSUME NEW f \in FileType, Distinct(f.lines), NEW e \in Entry,
         NEW n \in Nat, Upto(f, n), n < e.seq
  PROVE  /\ Distinct(AppendLine(f, e).lines)
         /\ Safe(AppendLine(f, e)) = Safe(f) \cup (IF f.open THEN {} ELSE {e})
         /\ \A g \in TornAppends(f, e) : Distinct(g.lines) /\ Safe(g) = Safe(f)
<1>1. CASE f.open
  <2>1. AppendLine(f, e) = [lines |-> Merged(f.lines), open |-> FALSE]
    BY <1>1 DEF AppendLine, Merged
  <2>2. Distinct(AppendLine(f, e).lines) /\ Safe(AppendLine(f, e)) = Safe(f)
    BY <1>1, <2>1, MergedFile
  <2>3. ASSUME NEW g \in TornAppends(f, e)  PROVE Distinct(g.lines) /\ Safe(g) = Safe(f)
    <3>1. g = [lines |-> Merged(f.lines), open |-> TRUE]
      BY <1>1, <2>3 DEF TornAppends, Merged
    <3> QED
      BY <1>1, <3>1, MergedFile
  <2> QED
    BY <1>1, <2>2, <2>3
<1>2. CASE ~f.open
  <2>1. AppendLine(f, e) = Longer(f, e, FALSE) /\ e \in {Torn, e}
    BY <1>2 DEF AppendLine, Longer
  <2>2. /\ Distinct(Longer(f, e, FALSE).lines)
        /\ Safe(Longer(f, e, FALSE)) = Safe(f) \cup {e}
    BY <1>2, <2>1, LongerFile
  <2>3. ASSUME NEW g \in TornAppends(f, e)  PROVE Distinct(g.lines) /\ Safe(g) = Safe(f)
    <3>1. PICK x \in {Torn, e} : g = Longer(f, x, TRUE)
      BY <1>2, <2>3 DEF TornAppends, Longer
    <3>2. Distinct(Longer(f, x, TRUE).lines) /\ Safe(Longer(f, x, TRUE)) = Safe(f)
      BY <1>2, LongerFile
    <3> QED
      BY <3>1, <3>2
  <2> QED
    BY <1>2, <2>1, <2>2, <2>3
<1> QED
  BY <1>1, <1>2

(* The rewritten file holds what memory holds, and an emptied one nothing. *)
LEMMA RewrittenFile ==
  ASSUME NEW es \in Seq(Entry), Increasing(es)
  PROVE  Distinct(FileOf(es).lines) /\ Safe(FileOf(es)) = Held(es)
<1>1. FileOf(es).lines = es /\ FileOf(es).open = FALSE
  BY DEF FileOf
<1>2. \A k \in 1..Len(es) : es[k] # Torn /\ es[k].seq \in Nat
  <2>1. \A k \in 1..Len(es) : es[k] \in Entry
    OBVIOUS
  <2> QED
    BY <2>1, TornAssumption, EntrySeq
<1>3. Whole(es) = 1..Len(es)
  BY <1>2 DEF Whole
<1>4. SafeLines(FileOf(es)) = 1..Len(es)
  BY <1>1, <1>3 DEF SafeLines
<1>5. Safe(FileOf(es)) = Held(es)
  BY <1>1, <1>4 DEF Safe, Held
<1>6. Distinct(es)
  <2> SUFFICES ASSUME NEW j \in 1..Len(es), NEW k \in 1..Len(es), es[j].seq = es[k].seq
               PROVE  j = k
    BY <1>3 DEF Distinct
  <2>1. ~(es[j].seq < es[k].seq) /\ ~(es[k].seq < es[j].seq) /\ j \in Nat /\ k \in Nat
    BY <1>2
  <2>2. ~(j < k) /\ ~(k < j)
    BY <2>1 DEF Increasing
  <2> QED
    BY <2>1, <2>2
<1> QED
  BY <1>1, <1>5, <1>6

LEMMA NothingSafe == Distinct(EmptyFile.lines) /\ Safe(EmptyFile) = {}
<1> DEFINE es == <<>>
<1>1. es \in Seq(Entry) /\ Held(es) = {} /\ Increasing(es)
  BY DEF Held, Increasing
<1>2. EmptyFile = FileOf(es)
  BY DEF EmptyFile, FileOf
<1> HIDE DEF es
<1> QED
  BY <1>1, <1>2, RewrittenFile

(* The last of increasing entries has the greatest number. *)
LEMMA HeldUpto ==
  ASSUME NEW es \in Seq(Entry), Increasing(es), es # <<>>
  PROVE  \A e \in Held(es) : e.seq <= es[Len(es)].seq
<1>1. \A k \in 1..Len(es) : es[k].seq \in Nat
  <2>1. \A k \in 1..Len(es) : es[k] \in Entry
    OBVIOUS
  <2> QED
    BY <2>1, EntrySeq
<1>2. ASSUME NEW k \in 1..Len(es)  PROVE es[k].seq <= es[Len(es)].seq
  <2>1. k \in Nat /\ Len(es) \in Nat /\ Len(es) \in 1..Len(es) /\ k <= Len(es)
    OBVIOUS
  <2> QED
    BY <1>1, <2>1 DEF Increasing
<1> QED
  BY <1>2 DEF Held

(* A restart loads every safe line. *)
LEMMA SafeLoaded ==
  ASSUME NEW f \in FileType  PROVE Safe(f) \subseteq Held(Loaded(f.lines))
<1>1. f.lines \in Seq(Entry \cup {Torn})
  BY DEF FileType
<1> QED
  BY <1>1, LoadedLines DEF Safe, SafeLines

(* Before its first write, and after its last, a command leaves nothing between. *)
LEMMA AloneAt ==
  ASSUME AnyInv, Intact, NEW t \in Threads
  PROVE  /\ pc[t] \in {"load_file", "append", "wipe"} =>
              AtRest /\ \A u \in Threads : pc[u] \notin Between
         /\ pc[t] \in Between => \A u \in Threads : u # t => pc[u] \notin Between
<1>1. ASSUME pc[t] \in Between \cup {"load_file", "append", "wipe"}, NEW u \in Threads, u # t
      PROVE  pc[u] \notin Between
  BY <1>1, OnlyWriter DEF AnyInv
<1>2. ASSUME pc[t] \in {"load_file", "append", "wipe"}
      PROVE  \A u \in Threads : pc[u] \notin Between
  BY <1>1, <1>2 DEF Between
<1> QED
  BY <1>1, <1>2 DEF Intact

LEMMA IntactAtRest ==
  ASSUME \A u \in Threads : pc'[u] \notin Between,
         Increasing(entries'), Distinct(file'.lines), Kept' \subseteq Safe(file'),
         initialized' => Kept' \subseteq Held(entries') /\ Upto(file', curSeq')
  PROVE  Intact'
BY DEF Intact, AtRest, Midway, Between

LEMMA IntactMidway ==
  ASSUME NEW t \in Threads, \A u \in Threads : u # t => pc'[u] \notin Between,
         pc'[t] \in Between,
         Increasing(entries'), Distinct(file'.lines), Midway(t)'
  PROVE  Intact'
<1>1. \A u \in Threads : u # t => Midway(u)'
  BY DEF Midway, Between
<1> QED
  BY <1>1 DEF Intact

LEMMA IntactUnchanged ==
  ASSUME Intact, UNCHANGED <<memory, file, draft, acked, glued>>,
         \A u \in Threads : pc[u] \in Between \/ pc'[u] \in Between => pc'[u] = pc[u]
  PROVE  Intact'
<1>1. /\ entries' = entries /\ curSeq' = curSeq /\ initialized' = initialized
      /\ file' = file /\ draft' = draft /\ Kept' = Kept /\ Owed' = Owed /\ glued' = glued
  BY DEF memory, Kept, Owed
<1>2. AtRest => AtRest'
  BY <1>1 DEF AtRest
<1>3. \A u \in Threads : Midway(u)'
  BY <1>1 DEF Intact, Midway, Between
<1> QED
  BY <1>1, <1>2, <1>3 DEF Intact

(* Between two writes curSeq is the number of the last entry. *)
LEMMA HeadUpto ==
  ASSUME AnyInv, Intact  PROVE \A e \in Held(entries) : e.seq <= curSeq
<1>1. entries \in Seq(Entry) /\ Increasing(entries) /\ AtHead(entries)
  BY DEF AnyInv, TypeOK, Intact
<1>2. CASE entries = <<>>
  BY <1>2 DEF Held
<1>3. CASE entries # <<>>
  BY <1>1, <1>3, HeldUpto DEF AtHead
<1> QED
  BY <1>2, <1>3

(* What a restart loads. *)
LEMMA LoadIntact ==
  ASSUME AnyInv, Intact, NEW t \in Threads, Load(t), ~damaged'
  PROVE  Intact'
<1>1. /\ pc[t] = "load_file" /\ pc' = [pc EXCEPT ![t] = First[op[t]]]
      /\ entries' = Loaded(file.lines)
      /\ file' = file /\ acked' = acked /\ glued' = glued
      /\ curSeq' = (IF entries' = <<>> THEN 0 ELSE entries'[Len(entries')].seq)
  BY DEF Load, Goto
<1>2. AtRest /\ \A u \in Threads : pc[u] \notin Between
  BY <1>1, AloneAt
<1>3. First[op[t]] \in {"rec_seq", "clr_entries", "read"}
  BY DEF AnyInv, TypeOK, First, Commands
<1>4. \A u \in Threads : pc'[u] \notin Between
  BY <1>1, <1>2, <1>3 DEF AnyInv, TypeOK, Between
<1>5. file \in FileType /\ file.lines \in Seq(Entry \cup {Torn}) /\ Distinct(file.lines)
  BY DEF AnyInv, TypeOK, FileType, Intact
<1>6. entries' \in Seq(Entry) /\ Increasing(entries')
  BY <1>1, <1>5, LoadedLines, LoadedIncreasing
<1>7. Safe(file) \subseteq Held(entries')
  BY <1>1, <1>5, SafeLoaded
<1>8. Kept' = Kept
  BY <1>1 DEF Kept
<1>9. Upto(file', curSeq')
  <2>1. CASE entries' = <<>>
    <3>1. Held(entries') = {}
      BY <2>1 DEF Held
    <3> QED
      BY <1>1, <1>7, <3>1 DEF Upto
  <2>2. CASE entries' # <<>>
    BY <1>1, <1>6, <1>7, <2>2, HeldUpto DEF Upto
  <2> QED
    BY <2>1, <2>2
<1> QED
  BY <1>1, <1>2, <1>4, <1>5, <1>6, <1>7, <1>8, <1>9, IntactAtRest DEF AtRest

(* journal_record's write, glued to a torn line or not. *)
LEMMA AppendIntact ==
  ASSUME AnyInv, Intact, NEW t \in Threads, AppendToFile(t)
  PROVE  Intact'
<1>1. /\ pc[t] = "append" /\ pc' = [pc EXCEPT ![t] = "commit"] /\ curSeq < MaxSequence
      /\ entries' = entries /\ curSeq' = curSeq /\ acked' = acked
      /\ glued' = (IF file.open THEN glued \cup {draft'} ELSE glued \ {draft'})
  BY DEF AppendToFile, Room, memory, Goto
<1>2. PICK id \in Ids : draft' = NextEntry(id) /\ file' = AppendLine(file, NextEntry(id))
  BY DEF AppendToFile
<1>3. draft' \in Entry /\ draft'.seq = curSeq + 1 /\ curSeq \in Nat
  BY <1>1, <1>2, NextEntryType DEF AnyInv, TypeOK, NextEntry
<1>4. /\ AtRest /\ initialized /\ \A u \in Threads : pc[u] \notin Between
  BY <1>1, AloneAt DEF AnyInv, LoadInv
<1>5. /\ Kept \subseteq Safe(file) /\ Kept \subseteq Held(entries) /\ Upto(file, curSeq)
      /\ file \in FileType /\ Distinct(file.lines) /\ Increasing(entries)
  BY <1>4 DEF AtRest, AnyInv, TypeOK, FileType, Intact
<1>6. file' = AppendLine(file, draft')
  BY <1>2
<1>7. Distinct(file'.lines) /\ Safe(file') = Safe(file) \cup (IF file.open THEN {} ELSE {draft'})
  BY <1>3, <1>5, <1>6, WrittenFile
<1>8. Kept' \subseteq Kept \cup (IF file.open THEN {} ELSE {draft'})
  BY <1>1 DEF Kept
<1>9. Upto(file', draft'.seq)
  <2>1. \A e \in Safe(file) : e.seq <= curSeq /\ e.seq \in Nat
    BY <1>5, SafeEntries, EntrySeq DEF Upto
  <2> QED
    BY <1>3, <1>7, <2>1 DEF Upto
<1>10. /\ Kept' \subseteq Held(entries') \cup {draft'} /\ Kept' \subseteq Safe(file')
       /\ draft' \in Safe(file') \cup glued'
  BY <1>1, <1>5, <1>7, <1>8
<1>11. /\ \A u \in Threads : u # t => pc'[u] \notin Between
       /\ pc'[t] = "commit"
  BY <1>1, <1>4 DEF AnyInv, TypeOK
<1>12. Midway(t)'
  BY <1>9, <1>10, <1>11 DEF Midway
<1> QED
  BY <1>1, <1>5, <1>7, <1>11, <1>12, IntactMidway DEF Between

(* A write that fails leaves every whole line. *)
LEMMA AppendFailsIntact ==
  ASSUME AnyInv, Intact, NEW t \in Threads, AppendFails(t)
  PROVE  Intact'
<1>1. /\ pc[t] = "append" /\ pc' = [pc EXCEPT ![t] = "idle"]
      /\ entries' = entries /\ curSeq' = curSeq /\ initialized' = initialized
      /\ Kept' = Kept
      /\ \/ file' = file
         \/ Room /\ \E id \in Ids : file' \in TornAppends(file, NextEntry(id))
  BY DEF AppendFails, Return, Goto, memory, history, Kept
<1>2. /\ AtRest /\ initialized /\ \A u \in Threads : pc[u] \notin Between
  BY <1>1, AloneAt DEF AnyInv, LoadInv
<1>3. /\ Kept \subseteq Safe(file) /\ Kept \subseteq Held(entries) /\ Upto(file, curSeq)
      /\ file \in FileType /\ Distinct(file.lines) /\ Increasing(entries)
  BY <1>2 DEF AtRest, AnyInv, TypeOK, FileType, Intact
<1>4. Distinct(file'.lines) /\ Safe(file') = Safe(file)
  <2>1. CASE file' = file
    BY <1>3, <2>1
  <2>2. CASE Room /\ \E id \in Ids : file' \in TornAppends(file, NextEntry(id))
    <3>1. PICK id \in Ids : file' \in TornAppends(file, NextEntry(id))
      BY <2>2
    <3>2. PICK e \in Entry : e = NextEntry(id) /\ e.seq = curSeq + 1
      BY <2>2, NextEntryType DEF Room, AnyInv, NextEntry
    <3>3. curSeq \in Nat /\ curSeq < e.seq /\ file' \in TornAppends(file, e)
      BY <3>1, <3>2 DEF AnyInv, TypeOK
    <3> QED
      BY <1>3, <3>3, WrittenFile
  <2> QED
    BY <1>1, <2>1, <2>2
<1>5. Upto(file', curSeq')
  BY <1>1, <1>3, <1>4 DEF Upto
<1>6. \A u \in Threads : pc'[u] \notin Between
  BY <1>1, <1>2 DEF AnyInv, TypeOK, Between
<1> QED
  BY <1>1, <1>3, <1>4, <1>5, <1>6, IntactAtRest

(* A command that returns acknowledges what it owes. *)
LEMMA AcknowledgesOwed ==
  ASSUME AnyInv, NEW t \in Threads, pc[t] \in Drafting, Acknowledge(t)
  PROVE  acked' = Owed
<1>1. draft \in Entry /\ draft.seq \in Nat
  BY EntrySeq DEF AnyInv, DraftInv
<1>2. draft.seq > draft.seq - MAX_JOURNAL_ENTRIES
  BY <1>1, CapAssumption
<1> QED
  BY <1>2 DEF Acknowledge, Owed

(* What is owed survives the retention limit. *)
LEMMA OwedKept ==
  ASSUME AnyInv, Intact, NEW t \in Threads, pc[t] = "commit"
  PROVE  /\ Increasing(Newest(Append(entries, draft)))
         /\ Owed \ glued \subseteq Held(Newest(Append(entries, draft)))
         /\ Owed \ glued \subseteq Safe(file) /\ Upto(file, draft.seq)
<1> DEFINE es == Append(entries, draft)
<1>1. PICK id \in Ids : draft = NextEntry(id)
  BY DEF AnyInv, DraftInv
<1>2. draft.seq = curSeq + 1 /\ curSeq \in Nat
  BY <1>1 DEF NextEntry, AnyInv, TypeOK
<1>3. draft \in Entry /\ entries \in Seq(Entry) /\ Increasing(entries)
  BY DEF AnyInv, TypeOK, Intact, DraftInv, Drafting
<1>4. entries # <<>> => entries[Len(entries)].seq < draft.seq
  BY <1>2 DEF AnyInv, AtHead
<1>5. es \in Seq(Entry) /\ es # <<>> /\ es[Len(es)] = draft
  BY <1>3
<1>6. Increasing(es) /\ Held(es) = Held(entries) \cup {draft}
  BY <1>3, <1>4, IncreasingAppend, HeldAppend
<1>7. Midway(t)
  BY DEF Intact
<1>8. /\ Kept \subseteq Held(entries) \cup {draft} /\ Kept \subseteq Safe(file)
      /\ draft \in Safe(file) \cup glued /\ Upto(file, draft.seq)
  BY <1>7 DEF Midway
<1> HIDE DEF es
<1>9. \A e \in Owed \ glued : /\ e \in Held(es) /\ e \in Safe(file)
                              /\ e.seq > draft.seq - MAX_JOURNAL_ENTRIES
  <2>1. draft.seq > draft.seq - MAX_JOURNAL_ENTRIES
    BY <1>2, CapAssumption
  <2> QED
    BY <1>6, <1>8, <2>1 DEF Owed, Kept
<1>10. /\ Increasing(Newest(es))
       /\ \A e \in Held(es) : e.seq > draft.seq - MAX_JOURNAL_ENTRIES => e \in Held(Newest(es))
  BY <1>5, <1>6, NewestKeeps
<1> QED
  BY <1>8, <1>9, <1>10 DEF es

LEMMA CommitIntact ==
  ASSUME AnyInv, Intact, NEW t \in Threads, Commit(t)
  PROVE  Intact'
<1>1. /\ pc[t] = "commit" /\ curSeq' = draft.seq
      /\ entries' = Newest(Append(entries, draft))
      /\ file' = file /\ initialized' = initialized /\ glued' = glued
  BY DEF Commit, history
<1>2. /\ Increasing(entries') /\ Distinct(file'.lines)
      /\ Owed \ glued \subseteq Held(entries') /\ Owed \ glued \subseteq Safe(file)
      /\ Upto(file, draft.seq)
  BY <1>1, OwedKept DEF Intact
<1>3. \A u \in Threads : u # t => pc[u] \notin Between
  BY <1>1, AloneAt DEF Between
<1>4. pc \in [Threads -> Points]
  BY DEF AnyInv, TypeOK
<1>5. CASE pc' = [pc EXCEPT ![t] = "truncate"] /\ draft' = draft /\ acked' = acked
  <2>1. Owed' = Owed /\ Kept' = Kept
    BY <1>1, <1>5 DEF Owed, Kept
  <2>2. draft \in Safe(file) \cup glued /\ Kept \subseteq Safe(file)
    BY <1>1 DEF Intact, Midway
  <2>3. pc'[t] = "truncate" /\ \A u \in Threads : u # t => pc'[u] \notin Between
    BY <1>3, <1>4, <1>5
  <2>4. Midway(t)'
    BY <1>1, <1>2, <1>5, <2>1, <2>2, <2>3 DEF Midway
  <2> QED
    BY <1>2, <2>3, <2>4, IntactMidway DEF Between
<1>6. CASE Acknowledge(t)
  <2>1. acked' = Owed
    BY <1>1, <1>6, AcknowledgesOwed DEF Drafting
  <2>2. Kept' = Owed \ glued
    BY <1>1, <2>1 DEF Kept
  <2>3. pc' = [pc EXCEPT ![t] = "idle"]
    BY <1>6 DEF Acknowledge, Return, Goto
  <2>4. \A u \in Threads : pc'[u] \notin Between
    BY <1>3, <1>4, <2>3 DEF Between
  <2> QED
    BY <1>1, <1>2, <2>2, <2>4, IntactAtRest
<1> QED
  BY <1>5, <1>6 DEF Commit, Goto, history

(* The file is empty for a moment; memory has what is owed. *)
LEMMA TruncateIntact ==
  ASSUME AnyInv, Intact, NEW t \in Threads, Truncate(t)
  PROVE  Intact'
<1>1. /\ pc[t] = "truncate" /\ pc' = [pc EXCEPT ![t] = "rewrite"]
      /\ entries' = entries /\ curSeq' = curSeq /\ glued' = glued
      /\ Owed' = Owed /\ file' = EmptyFile
  BY DEF Truncate, Goto, memory, history, Owed
<1>2. Increasing(entries') /\ Owed \ glued \subseteq Held(entries)
  BY <1>1 DEF Intact, Midway
<1>3. Distinct(file'.lines) /\ Upto(file', curSeq')
  BY <1>1, NothingSafe DEF Upto
<1>4. pc'[t] = "rewrite" /\ \A u \in Threads : u # t => pc'[u] \notin Between
  BY <1>1, AloneAt DEF AnyInv, TypeOK, Between
<1>5. Midway(t)'
  BY <1>1, <1>2, <1>3, <1>4 DEF Midway
<1> QED
  BY <1>2, <1>3, <1>4, <1>5, IntactMidway DEF Between

(* The pruned file was left as it was, or written anew. *)
LEMMA RewriteIntact ==
  ASSUME AnyInv, Intact, NEW t \in Threads, TruncateFails(t) \/ Rewrite(t), ~damaged'
  PROVE  Intact'
<1>1. /\ pc[t] \in {"truncate", "rewrite"} /\ Acknowledge(t)
      /\ entries' = entries /\ curSeq' = curSeq /\ initialized' = initialized
  BY DEF TruncateFails, Rewrite, memory
<1>2. acked' = Owed /\ pc' = [pc EXCEPT ![t] = "idle"]
  BY <1>1, AcknowledgesOwed DEF Drafting, Acknowledge, Return, Goto
<1>3. \A u \in Threads : pc'[u] \notin Between
  BY <1>1, <1>2, AloneAt DEF AnyInv, TypeOK, Between
<1>4. /\ entries \in Seq(Entry) /\ Increasing(entries)
      /\ Owed \ glued \subseteq Held(entries) /\ Upto(file, curSeq) /\ Distinct(file.lines)
  BY <1>1 DEF AnyInv, TypeOK, Intact, Midway
<1>5. CASE TruncateFails(t)
  <2>1. file' = file /\ glued' = glued /\ pc[t] = "truncate"
    BY <1>5 DEF TruncateFails
  <2>2. Kept' = Owed \ glued
    BY <1>2, <2>1 DEF Kept
  <2>3. Owed \ glued \subseteq Safe(file)
    <3>1. Kept \subseteq Safe(file) /\ draft \in Safe(file) \cup glued
      BY <2>1 DEF Intact, Midway
    <3> QED
      BY <3>1 DEF Kept, Owed
  <2> QED
    BY <1>1, <1>3, <1>4, <2>1, <2>2, <2>3, IntactAtRest
<1>6. CASE Rewrite(t)
  <2>1. file' = FileOf(entries) /\ glued' = glued \ Held(entries)
    BY <1>6 DEF Rewrite, Held
  <2>2. Distinct(file'.lines) /\ Safe(file') = Held(entries)
    BY <1>4, <2>1, RewrittenFile
  <2>3. Kept' \subseteq Held(entries)
    BY <1>2, <1>4, <2>1 DEF Kept
  <2>4. Upto(file', curSeq')
    BY <1>1, <2>2, HeadUpto DEF Upto
  <2> QED
    BY <1>1, <1>3, <1>4, <2>2, <2>3, <2>4, IntactAtRest
<1> QED
  BY <1>5, <1>6

(* A clear leaves nothing to lose. *)
LEMMA WipeIntact ==
  ASSUME AnyInv, Intact, NEW t \in Threads, Wipe(t)
  PROVE  Intact'
<1>1. /\ pc[t] = "wipe" /\ pc' = [pc EXCEPT ![t] = "wipe_file"]
      /\ entries' = <<>> /\ file' = file
  BY DEF Wipe, Goto
<1>2. Increasing(entries') /\ Distinct(file'.lines)
  BY <1>1 DEF Intact, Increasing
<1>3. pc'[t] = "wipe_file" /\ \A u \in Threads : u # t => pc'[u] \notin Between
  BY <1>1, AloneAt DEF AnyInv, TypeOK
<1>4. Midway(t)'
  BY <1>3 DEF Midway
<1> QED
  BY <1>2, <1>3, <1>4, IntactMidway DEF Between

(* Once it has reached the file, whatever damage there was is gone. *)
LEMMA WipeFileIntact ==
  ASSUME AnyInv, NEW t \in Threads, WipeFile(t), ~damaged'
  PROVE  Intact'
<1>1. /\ pc[t] = "wipe_file" /\ pc' = [pc EXCEPT ![t] = "idle"] /\ file' = EmptyFile
      /\ entries' = entries /\ acked' = acked
  BY DEF WipeFile, Return, Goto, memory
<1>2. entries' = <<>> /\ acked' = {}
  BY <1>1 DEF AnyInv, DraftInv
<1>3. \A u \in Threads : pc'[u] \notin Between
  <2>1. \A u \in Threads : u # t => pc[u] \notin Between
    BY <1>1, OnlyWriter DEF AnyInv, Between
  <2> QED
    BY <1>1, <2>1 DEF AnyInv, TypeOK, Between
<1>4. /\ Increasing(entries') /\ Distinct(file'.lines) /\ Kept' = {}
      /\ Upto(file', curSeq')
  BY <1>1, <1>2, NothingSafe DEF Increasing, Kept, Upto
<1> QED
  BY <1>3, <1>4, IntactAtRest

(* Between any two file operations but those of the rewrite, the file has it all. *)
LEMMA CrashIntact ==
  ASSUME AnyInv, Intact, Crash, ~damaged'
  PROVE  Intact'
<1>1. /\ \A u \in Threads : pc[u] # "rewrite"
      /\ entries' = <<>> /\ ~initialized' /\ file' = file /\ Kept' = Kept
      /\ \A u \in Threads : pc'[u] = "idle"
  BY DEF Crash, Kept
<1>2. Kept \subseteq Safe(file)
  <2>1. CASE \A u \in Threads : pc[u] \notin Between
    BY <2>1 DEF Intact, AtRest
  <2>2. ASSUME NEW u \in Threads, pc[u] \in Between  PROVE Kept \subseteq Safe(file)
    <3>1. CASE pc[u] = "wipe_file"
      BY <3>1 DEF AnyInv, DraftInv, Kept
    <3>2. CASE pc[u] \in {"commit", "truncate"}
      BY <3>2 DEF Intact, Midway
    <3> QED
      BY <1>1, <2>2, <3>1, <3>2 DEF Between
  <2> QED
    BY <2>1, <2>2
<1>3. /\ \A u \in Threads : pc'[u] \notin Between
      /\ Increasing(entries') /\ Distinct(file'.lines)
  BY <1>1 DEF Between, Increasing, Intact
<1> QED
  BY <1>1, <1>2, <1>3, IntactAtRest

(* Every step keeps what was acknowledged, or damages the history. *)
LEMMA IntactStep ==
  ASSUME AnyInv, damaged \/ Intact, [Next]_vars, ~damaged'
  PROVE  Intact'
<1>a. pc \in [Threads -> Points] /\ op \in [Threads -> Commands]
  BY DEF AnyInv, TypeOK
<1>0. CASE UNCHANGED vars
  BY <1>0, IntactUnchanged DEF vars, threads, history
<1>1. ASSUME NEW t \in Threads, NEW o \in Ops, Call(t, o)  PROVE Intact'
  BY <1>a, <1>1, IntactUnchanged DEF Call, Goto, Between, history
<1>2. ASSUME NEW t \in Threads, EnsureInitialized(t)  PROVE Intact'
  <2>1. First[op[t]] \in {"rec_seq", "clr_entries", "read"}
    BY <1>a DEF First, Commands
  <2> QED
    BY <1>a, <1>2, <2>1, IntactUnchanged DEF EnsureInitialized, Goto, Between, history
<1>3. ASSUME NEW t \in Threads, Acquire(t)  PROVE Intact'
  <2>1. Intact /\ UNCHANGED <<memory, file, draft, acked, glued>>
    BY <1>3 DEF Acquire, history
  <2> QED
    BY <1>a, <1>3, <2>1, AcquireCases, IntactUnchanged DEF Takes, Between
<1>4. ASSUME NEW t \in Threads, Read(t)  PROVE Intact'
  BY <1>a, <1>4, IntactUnchanged DEF Read, Return, Goto, Between, history
<1>5. ASSUME NEW t \in Threads, Load(t)  PROVE Intact'
  BY <1>5, LoadIntact DEF Load
<1>6. ASSUME NEW t \in Threads, AppendToFile(t)  PROVE Intact'
  BY <1>6, AppendIntact DEF AppendToFile
<1>7. ASSUME NEW t \in Threads, AppendFails(t)  PROVE Intact'
  BY <1>7, AppendFailsIntact DEF AppendFails, history
<1>8. ASSUME NEW t \in Threads, Commit(t)  PROVE Intact'
  <2>1. damaged' = damaged
    BY <1>8 DEF Commit, history
  <2> QED
    BY <1>8, <2>1, CommitIntact
<1>9. ASSUME NEW t \in Threads, Truncate(t)  PROVE Intact'
  BY <1>9, TruncateIntact DEF Truncate, history
<1>10. ASSUME NEW t \in Threads, TruncateFails(t) \/ Rewrite(t)  PROVE Intact'
  <2>1. ~damaged
    BY <1>10 DEF TruncateFails, Rewrite
  <2> QED
    BY <1>10, <2>1, RewriteIntact
<1>11. ASSUME NEW t \in Threads, Wipe(t)  PROVE Intact'
  BY <1>11, WipeIntact DEF Wipe
<1>12. ASSUME NEW t \in Threads, WipeFile(t)  PROVE Intact'
  BY <1>12, WipeFileIntact
<1>13. ASSUME Crash  PROVE Intact'
  BY <1>13, CrashIntact DEF Crash
<1> QED
  BY <1>0, <1>1, <1>2, <1>3, <1>4, <1>5, <1>6, <1>7, <1>8, <1>9, <1>10, <1>11, <1>12, <1>13
     DEF Next, Step

(* An entry whose caller was told success is in the journal until a clear or
   the retention limit removes it: after any number of appends that failed or
   stopped half way, of restarts and of commands in any order, unless its line
   was glued to a torn one, the rewrite of the pruned file was cut short, a
   clear did not reach the file or a restart could not read it. *)
THEOREM AcknowledgedEntriesSurvive == Spec => []AckedSurvive
<1> DEFINE Safety == damaged \/ Intact
<1>1. Init => Safety
  <2> SUFFICES ASSUME Init  PROVE Intact
    OBVIOUS
  <2>1. Increasing(entries) /\ Distinct(file.lines)
    BY NothingSafe DEF Init, Increasing
  <2>2. AtRest /\ \A t \in Threads : Midway(t)
    BY DEF Init, AtRest, Kept, Midway
  <2> QED
    BY <2>1, <2>2 DEF Intact
<1>2. AnyInv /\ Safety /\ [Next]_vars => Safety'
  BY IntactStep
<1>3. AnyInv /\ Safety => AckedSurvive
  <2> SUFFICES ASSUME AnyInv, Intact, initialized, owner["SEQ"] = None
               PROVE  acked \ glued \subseteq {entries[j] : j \in 1..Len(entries)}
    BY DEF AckedSurvive
  <2>1. \A t \in Threads : pc[t] \notin Between
    BY NoneAssumption DEF AnyInv, LockInv, Between
  <2>2. Kept \subseteq Held(entries)
    BY <2>1 DEF Intact, AtRest
  <2> QED
    BY <2>2 DEF Kept, Held
<1> QED
  BY <1>1, <1>2, <1>3, AnyInvariance, PTL DEF Spec

-----------------------------------------------------------------------------
(* The journal implements the audit log. *)

Rewriting == \E t \in Threads : pc[t] = "rewrite"

(* A step that leaves the file alone, and keeps every thread out of the
   rewrite, leaves the durable log alone whatever it does to memory. *)
LEMMA LogStutters ==
  ASSUME ~Rewriting, ~Rewriting', (file.lines)' = file.lines
  PROVE  DurableLog' = DurableLog
  BY DEF Rewriting, DurableLog

(* Every step appends one entry to the durable log, drops its oldest entries,
   empties it or leaves it as it is. *)
LEMMA LogStep ==
  ASSUME IInv, [Next]_vars, "io" \notin Faults
  PROVE  [Log!LogNext]_DurableLog
<1> USE DEF IInv, TypeOK, Goto
<1>a. ASSUME entries' = entries, file' = file,
             \A u \in Threads : pc'[u] = pc[u] \/ {pc[u], pc'[u]} \cap {"rewrite"} = {}
      PROVE  DurableLog' = DurableLog
  <2>1. Rewriting' <=> Rewriting
    BY <1>a DEF Rewriting
  <2> QED
    BY <1>a, <2>1 DEF DurableLog, Rewriting
<1>b. ASSUME NEW t \in Threads, pc[t] \in (Between \ {"rewrite"}) \cup {"load_file", "append", "wipe"},
             NEW p \in Points, pc' = [pc EXCEPT ![t] = p], p # "rewrite"
      PROVE  ~Rewriting /\ ~Rewriting'
  BY <1>b, OnlyWriter DEF Rewriting, Between
<1>0. CASE UNCHANGED vars
  BY <1>0, <1>a DEF vars, threads, memory
<1>1. ASSUME NEW t \in Threads, NEW o \in Ops, Call(t, o)  PROVE DurableLog' = DurableLog
  BY <1>1, <1>a DEF Call, memory
<1>2. ASSUME NEW t \in Threads, EnsureInitialized(t)  PROVE DurableLog' = DurableLog
  <2>1. First[op[t]] \in {"rec_seq", "clr_entries", "read"}
    BY DEF First, Commands
  <2> QED
    BY <1>2, <2>1, <1>a DEF EnsureInitialized, memory
<1>3. ASSUME NEW t \in Threads, Acquire(t)  PROVE DurableLog' = DurableLog
  <2>1. UNCHANGED <<memory, file>>
    BY <1>3 DEF Acquire
  <2> QED
    BY <1>3, <2>1, AcquireCases, <1>a DEF Takes, memory
<1>4. ASSUME NEW t \in Threads, Load(t)  PROVE DurableLog' = DurableLog
  <2>1. First[op[t]] \in {"rec_seq", "clr_entries", "read"}
    BY DEF First, Commands
  <2>2. First[op[t]] \in Points
    BY <2>1 DEF Points, Wants
  <2> QED
    BY <1>4, <2>1, <2>2, <1>b, LogStutters DEF Load
<1>5. ASSUME NEW t \in Threads, Read(t) \/ AppendFails(t)  PROVE DurableLog' = DurableLog
  BY <1>5, <1>a DEF Read, AppendFails, Return, memory
<1>6. ASSUME NEW t \in Threads, AppendToFile(t)  PROVE Log!LogAppend
  <2>1. PICK id \in Ids : file' = AppendLine(file, NextEntry(id))
    BY <1>6 DEF AppendToFile
  <2>2. ~Rewriting /\ ~Rewriting'
    BY <1>6, <1>b DEF AppendToFile, Points
  <2>3. file.lines = entries /\ file.open = FALSE /\ AtHead(entries)
    <3>1. initialized /\ \A u \in Threads : pc[u] \notin Between
      BY <1>6, OnlyWriter DEF AppendToFile, LoadInv, Between
    <3> QED
      BY <3>1 DEF DataInv, FileInv, InSync
  <2>4. DurableLog = entries /\ DurableLog' = Append(entries, NextEntry(id))
    BY <2>1, <2>2, <2>3 DEF AppendLine, DurableLog, Rewriting
  <2> DEFINE e == NextEntry(id)
  <2>5. e \in Entry
    BY <1>6, AppendData, ChainAppend DEF AppendToFile, Room, DataInv
  <2>6. /\ Len(DurableLog') = Len(DurableLog) + 1
        /\ DurableLog'[Len(DurableLog')] = e
    BY <2>4, <2>5
  <2>7. Log!Extends(e)
    <3> DEFINE prev == IF lastHash = None THEN Genesis ELSE lastHash
               seq == IF entries = <<>> THEN 1 ELSE entries[Len(entries)].seq + 1
               last == IF entries = <<>> THEN Genesis ELSE entries[Len(entries)].hash
    <3>1. seq = curSeq + 1
      BY <2>3 DEF AtHead
    <3>2. last = prev
      <4>1. CASE entries = <<>>
        BY <2>3, <4>1 DEF AtHead
      <4>2. CASE entries # <<>>
        <5>1. entries[Len(entries)] \in Entry
          BY <4>2
        <5> QED
          BY <2>3, <4>2, <5>1, NoneAssumption DEF AtHead, Entry
      <4> QED
        BY <4>1, <4>2
    <3>3. e = [id |-> id, seq |-> seq, prev |-> last, hash |-> HashOf(id, seq, last)]
      BY <3>1, <3>2 DEF NextEntry
    <3> HIDE DEF e, prev
    <3> QED
      BY <2>4, <3>3 DEF Log!Extends
  <2> HIDE DEF e
  <2> QED
    BY <2>4, <2>6, <2>7 DEF Log!LogAppend, e
<1>7. ASSUME NEW t \in Threads, Commit(t)  PROVE DurableLog' = DurableLog
  <2>1. /\ pc[t] = "commit" /\ file' = file
        /\ \E p \in {"truncate", "idle"} : pc' = [pc EXCEPT ![t] = p]
    BY <1>7 DEF Commit, Acknowledge, Return
  <2>2. {"truncate", "idle"} \subseteq Points
    BY DEF Points
  <2> QED
    BY <2>1, <2>2, <1>b, LogStutters DEF Between
<1>8. ASSUME NEW t \in Threads, Truncate(t)  PROVE [Log!LogNext]_DurableLog
  <2>1. pc[t] = "truncate" /\ pc' = [pc EXCEPT ![t] = "rewrite"] /\ entries' = entries
    BY <1>8 DEF Truncate, memory
  <2>2. ~Rewriting /\ Rewriting'
    BY <2>1, OnlyWriter DEF Rewriting, Between
  <2>3. DurableLog = file.lines /\ DurableLog' = Newest(file.lines) /\ Len(file.lines) \in Nat
    BY <2>1, <2>2 DEF DurableLog, Rewriting, DataInv, FileInv, AtStep
  <2>4. CASE Len(file.lines) > MAX_JOURNAL_ENTRIES
    <3> DEFINE k == Len(file.lines) - MAX_JOURNAL_ENTRIES
    <3>1. k \in 1..Len(DurableLog) - 1
      BY <2>3, <2>4, CapAssumption
    <3>2. DurableLog' = SubSeq(DurableLog, k + 1, Len(DurableLog))
      BY <2>3, <2>4 DEF Newest
    <3> QED
      BY <3>1, <3>2 DEF Log!LogPrune, Log!LogNext
  <2>5. CASE ~(Len(file.lines) > MAX_JOURNAL_ENTRIES)
    BY <2>3, <2>5 DEF Newest
  <2> QED
    BY <2>4, <2>5
<1>9. ASSUME NEW t \in Threads, Rewrite(t)  PROVE DurableLog' = DurableLog
  <2>1. /\ pc[t] = "rewrite" /\ pc' = [pc EXCEPT ![t] = "idle"]
        /\ file' = FileOf(entries)
    BY <1>9 DEF Rewrite, Acknowledge, Return
  <2>2. Rewriting /\ ~Rewriting'
    BY <2>1, OnlyWriter DEF Rewriting, Between
  <2> QED
    BY <2>1, <2>2 DEF DurableLog, Rewriting, FileOf
<1>10. ASSUME NEW t \in Threads, Wipe(t)  PROVE DurableLog' = DurableLog
  <2>1. "wipe_file" \in Points
    BY DEF Points
  <2> QED
    BY <1>10, <2>1, <1>b, LogStutters DEF Wipe
<1>11. ASSUME NEW t \in Threads, WipeFile(t)  PROVE Log!LogEmpty
  <2>1. ~Rewriting' /\ file' = EmptyFile
    BY <1>11, <1>b DEF WipeFile, Return, Between, Points
  <2> QED
    BY <2>1 DEF DurableLog, Rewriting, EmptyFile, Log!LogEmpty
<1>12. ASSUME Crash  PROVE [Log!LogNext]_DurableLog
  <2>1. file' = file /\ ~Rewriting'
    BY <1>12 DEF Crash, Rewriting
  <2>2. CASE Rewriting
    <3>1. file.lines = <<>>
      BY <2>2 DEF Rewriting, DataInv, FileInv, AtStep
    <3> QED
      BY <2>1, <3>1 DEF DurableLog, Rewriting, Log!LogEmpty, Log!LogNext
  <2>3. CASE ~Rewriting
    BY <2>1, <2>3, LogStutters
  <2> QED
    BY <2>2, <2>3
<1>13. \A t \in Threads : ~TruncateFails(t)
  BY DEF TruncateFails
<1> QED
  BY <1>0, <1>1, <1>2, <1>3, <1>4, <1>5, <1>6, <1>7, <1>8, <1>9, <1>10, <1>11, <1>12, <1>13
     DEF Next, Step, Log!LogNext

(* The journal keeps the audit log's promise: what is durable only ever grows
   by an entry sealed with the hash of the last one, loses its oldest entries
   to the retention limit, or is emptied; no interleaving or crash changes,
   reorders or removes an entry in the middle. *)
THEOREM JournalImplementsAuditLog ==
  ASSUME "io" \notin Faults
  PROVE  Spec => ImplementsAuditLog
<1>1. Init => Log!LogInit
  BY DEF Init, EmptyFile, DurableLog, Log!LogInit
<1>2. IInv /\ [Next]_vars => [Log!LogNext]_DurableLog
  BY LogStep
<1> QED
  BY <1>1, <1>2, Invariance, PTL DEF Spec, ImplementsAuditLog, Log!LogSpec

-----------------------------------------------------------------------------
(* When writes fail but the process lives.  The file may then be anything, and
   only what is in memory can be relied on: it is read once, when memory is
   first loaded and nothing has been written yet. *)

LiveInv == AnyInv /\ Chain(entries) /\ (~initialized => file.lines = <<>>)

(* Every step keeps memory a chain. *)
LEMMA LiveStep ==
  ASSUME LiveInv, [Next]_vars, "crash" \notin Faults
  PROVE  Chain(entries') /\ (~initialized => file.lines = <<>>)'
<1> DEFINE Goal == Chain(entries') /\ (~initialized' => file'.lines = <<>>)
<1> USE DEF Goto
<1>a. /\ Chain(entries) /\ (~initialized => file.lines = <<>>)
      /\ TypeOK /\ LoadInv /\ AtHead(entries) /\ DraftInv
  BY DEF LiveInv, AnyInv
<1>b. ASSUME entries' = entries, initialized' = initialized, initialized \/ file' = file
      PROVE  Goal
  BY <1>a, <1>b
<1>0. CASE UNCHANGED vars
  BY <1>0, <1>b DEF vars, memory
<1>1. ASSUME NEW t \in Threads, NEW o \in Ops, Call(t, o)  PROVE Goal
  BY <1>1, <1>b DEF Call, memory
<1>2. ASSUME NEW t \in Threads, EnsureInitialized(t) \/ Acquire(t) \/ Read(t)  PROVE Goal
  BY <1>2, <1>b DEF EnsureInitialized, Acquire, Read, memory
<1>3. ASSUME NEW t \in Threads, Load(t)  PROVE Goal
  <2>1. ~initialized /\ file.lines = <<>>
    BY <1>a, <1>3 DEF Load, LoadInv
  <2>2. entries' = <<>> /\ initialized'
    BY <1>3, <2>1, EmptyChain, LoadedChain DEF Load
  <2> QED
    BY <2>2, EmptyChain
<1>4. ASSUME NEW t \in Threads,
             AppendToFile(t) \/ AppendFails(t) \/ Truncate(t) \/ TruncateFails(t)
             \/ Rewrite(t) \/ WipeFile(t)
      PROVE  Goal
  <2>1. initialized
    BY <1>a, <1>4 DEF LoadInv, AppendToFile, AppendFails, Truncate, TruncateFails, Rewrite, WipeFile
  <2>2. entries' = entries /\ initialized' = initialized
    BY <1>4 DEF AppendToFile, AppendFails, Truncate, TruncateFails, Rewrite, WipeFile, memory
  <2> QED
    BY <1>b, <2>1, <2>2
<1>5. ASSUME NEW t \in Threads, Commit(t)  PROVE Goal
  <2>1. initialized /\ initialized' = initialized /\ entries' = Newest(Append(entries, draft))
    BY <1>a, <1>5 DEF LoadInv, Commit
  <2>2. PICK id \in Ids : draft = NextEntry(id) /\ curSeq < MaxSequence
    BY <1>a, <1>5 DEF Commit, DraftInv
  <2>3. Chain(Append(entries, draft)) /\ draft \in Entry
    BY <1>a, <2>2, ChainAppend
  <2>4. Append(entries, draft) # <<>>
    BY <1>a, <2>3 DEF Chain
  <2> QED
    BY <2>1, <2>3, <2>4, ChainNewest
<1>6. ASSUME NEW t \in Threads, Wipe(t)  PROVE Goal
  <2>1. initialized /\ initialized' = initialized /\ entries' = <<>>
    BY <1>a, <1>6 DEF LoadInv, Wipe
  <2> QED
    BY <2>1, EmptyChain
<1>7. Crash => FALSE
  <2>1. Crash => "crash" \in Faults
    BY DEF Crash
  <2> QED
    BY <2>1
<1> HIDE DEF Goal
<1>8. ASSUME NEW t \in Threads, Step(t)  PROVE Goal
  BY <1>2, <1>3, <1>4, <1>5, <1>6, <1>8 DEF Step
<1>9. Next => Goal
  BY <1>1, <1>7, <1>8 DEF Next
<1> QED
  BY <1>0, <1>9 DEF Goal

(* As long as the process lives, no failed read or write, at whatever step of
   any command, breaks the chain that readers check. *)
THEOREM FailedWritesKeepTheChain ==
  ASSUME "crash" \notin Faults
  PROVE  Spec => []VisibleChainVerifies
<1> DEFINE Live == Chain(entries) /\ (~initialized => file.lines = <<>>)
<1>1. Init => Live
  BY EmptyChain DEF Init, EmptyFile
<1>2. AnyInv /\ Live /\ [Next]_vars => Live'
  <2> SUFFICES ASSUME AnyInv, Live, [Next]_vars  PROVE Live'
    OBVIOUS
  <2>1. LiveInv
    BY DEF LiveInv
  <2>2. Chain(entries') /\ (~initialized => file.lines = <<>>)'
    BY <2>1, LiveStep
  <2> QED
    BY <2>2 DEF Chain, VerifyAuditChain, Contiguous
<1>3. Live => VisibleChainVerifies
  BY DEF Chain, VisibleChainVerifies
<1> QED
  BY <1>1, <1>2, <1>3, AnyInvariance, PTL DEF Spec

=============================================================================
