------------------------------ MODULE Journal ------------------------------
(***************************************************************************)
(* The activity journal of the desktop application                         *)
(* (src-tauri/src/journal.rs): an append-only log of entries, each sealed  *)
(* with the hash of its predecessor, kept in memory and in a JSONL file.   *)
(*                                                                         *)
(* Every command runs in tokio::task::spawn_blocking, so commands are      *)
(* threads that meet only at four Mutexes.  A step of a thread is the      *)
(* acquisition of one Mutex, or the code up to the next file operation.    *)
(* The process may die between any two steps; memory is then lost and the  *)
(* file stays.                                                             *)
(***************************************************************************)
EXTENDS Integers, Sequences, FiniteSets

CONSTANTS
  Threads,              \* the blocking threads that run journal commands
  Ops,                  \* the commands called: a subset of the three below
  Ids,                  \* what tells the contents of two entries apart
  Hash, Genesis,        \* the hashes, and GENESIS_PREV_HASH among them
  HashOf(_, _, _),      \* SHA-256 of an entry's content, number and prevHash
  MAX_JOURNAL_ENTRIES,  \* how many entries the journal retains
  MaxSequence,          \* bound on the entries' numbers and on the lines of the file
  Torn,                 \* a line of the file that is not a whole entry
  None,                 \* "no thread", "no entry", "no hash"
  Faults                \* "crash": the process dies; "io": reads and writes fail

Commands == {"record", "clear", "read"}

Entry == [id : Ids, seq : 1..MaxSequence, prev : Hash, hash : Hash]

ASSUME OpsAssumption == Ops \subseteq Commands
ASSUME CapAssumption == MAX_JOURNAL_ENTRIES \in Nat \ {0}
ASSUME SequenceAssumption == MaxSequence \in Nat
ASSUME HashAssumption ==
  /\ Genesis \in Hash
  /\ \A i \in Ids, s \in 1..MaxSequence, p \in Hash : HashOf(i, s, p) \in Hash
ASSUME NoneAssumption == None \notin Threads \cup Entry \cup Hash
ASSUME TornAssumption == Torn \notin Entry
ASSUME FaultsAssumption == Faults \subseteq {"crash", "io"}

VARIABLES
  entries,      \* JOURNAL_ENTRIES
  lastHash,     \* LAST_HASH
  curSeq,       \* CURRENT_SEQUENCE
  initialized,  \* INITIALIZED
  file,         \* the JSONL file: its lines, and whether the last lacks its newline
  owner,        \* who holds each Mutex
  pc, op,       \* where each thread is, and the command it runs (when idle: "read")
  draft,        \* the `record` of the thread that is writing it
  acked,        \* history: the entries whose callers were told success, less
                \* those a later clear or the retention limit removes
  glued,        \* history: the entries whose line was appended to a torn one
  damaged       \* history: since the last clear that succeeded, the rewrite of
                \* the file was cut short, a clear did not reach it, or a
                \* restart could not read it

memory == <<entries, lastHash, curSeq, initialized>>
threads == <<owner, pc, op>>
history == <<acked, glued, damaged>>
vars == <<memory, file, threads, draft, history>>

Locks == {"INIT", "ENTRIES", "LAST", "SEQ"}

-----------------------------------------------------------------------------
(* The hash chain. *)

(* verify_audit_chain.  Its check that a pruned log starts with a
   well-formed prevHash holds of every member of Hash. *)
VerifyAuditChain(es) ==
  \A i \in 1..Len(es) :
     /\ es[i].seq >= 1
     /\ (i = 1 /\ es[i].seq = 1) => es[i].prev = Genesis
     /\ i > 1 => /\ es[i].prev = es[i - 1].hash
                 /\ es[i].seq = es[i - 1].seq + 1
     /\ es[i].hash = HashOf(es[i].id, es[i].seq, es[i].prev)

(* Mutant: every entry claims to be the first of a chain. *)
NextEntryForgetsHead(id) ==
  [id |-> id, seq |-> curSeq + 1, prev |-> Genesis,
   hash |-> HashOf(id, curSeq + 1, Genesis)]

(* The entry journal_record builds on the current head of the chain. *)
NextEntry(id) ==
  LET prev == IF lastHash = None THEN Genesis ELSE lastHash
  IN  [id |-> id, seq |-> curSeq + 1, prev |-> prev,
       hash |-> HashOf(id, curSeq + 1, prev)]

(* Mutants: the retention limit keeps the oldest entries, or one too few. *)
NewestKeepsOldest(es) ==
  IF Len(es) > MAX_JOURNAL_ENTRIES THEN SubSeq(es, 1, MAX_JOURNAL_ENTRIES) ELSE es
NewestDropsOneMore(es) ==
  IF Len(es) >= MAX_JOURNAL_ENTRIES
  THEN SubSeq(es, Len(es) - MAX_JOURNAL_ENTRIES + 2, Len(es))
  ELSE es

(* split_off: the MAX_JOURNAL_ENTRIES newest entries. *)
Newest(es) ==
  IF Len(es) > MAX_JOURNAL_ENTRIES
  THEN SubSeq(es, Len(es) - MAX_JOURNAL_ENTRIES + 1, Len(es))
  ELSE es

-----------------------------------------------------------------------------
(* The file. *)

EmptyFile == [lines |-> <<>>, open |-> FALSE]
FileOf(es) == [lines |-> es, open |-> FALSE]

(* Appending to a file whose last line was never terminated glues the new
   text to that line, which then parses as neither entry. *)
AppendLine(f, e) ==
  IF f.open THEN [lines |-> [f.lines EXCEPT ![Len(f.lines)] = Torn], open |-> FALSE]
            ELSE [lines |-> Append(f.lines, e), open |-> FALSE]

(* An append that stops before the newline leaves a fragment, or the whole
   entry without its newline. *)
TornAppends(f, e) ==
  IF f.open THEN {[lines |-> [f.lines EXCEPT ![Len(f.lines)] = Torn], open |-> TRUE]}
            ELSE {[lines |-> Append(f.lines, x), open |-> TRUE] : x \in {Torn, e}}

(* Mutant: loading stops at the first line that does not parse. *)
LoadedUpToTorn(lines) ==
  LET Good == {n \in 0..Len(lines) : \A k \in 1..n : lines[k] # Torn}
  IN  SubSeq(lines, 1, CHOOSE n \in Good : \A m \in Good : m <= n)

(* ensure_initialized: the lines that parse, sorted by sequence (stable). *)
Loaded(lines) ==
  LET Whole == {k \in 1..Len(lines) : lines[k] # Torn}
      Before(k) == {j \in Whole : \/ lines[j].seq < lines[k].seq
                                  \/ lines[j].seq = lines[k].seq /\ j < k}
  IN  [i \in 1..Cardinality(Whole) |->
         lines[CHOOSE k \in Whole : Cardinality(Before(k)) = i - 1]]

-----------------------------------------------------------------------------
(* Threads and Mutexes. *)

(* Where a thread blocks on a Mutex, which one, and where it goes on. *)
Wants ==
  [load_entries |-> [lock |-> "ENTRIES", next |-> "load_last"],
   load_last    |-> [lock |-> "LAST",    next |-> "load_seq"],
   load_seq     |-> [lock |-> "SEQ",     next |-> "load_file"],
   rec_seq      |-> [lock |-> "SEQ",     next |-> "rec_last"],
   rec_last     |-> [lock |-> "LAST",    next |-> "rec_entries"],
   rec_entries  |-> [lock |-> "ENTRIES", next |-> "append"],
   clr_entries  |-> [lock |-> "ENTRIES", next |-> "clr_last"],
   clr_last     |-> [lock |-> "LAST",    next |-> "clr_seq"],
   clr_seq      |-> [lock |-> "SEQ",     next |-> "wipe"]]

First == [record |-> "rec_seq", clear |-> "clr_entries", read |-> "read"]

Points == DOMAIN Wants \cup {"idle", "call", "load_file", "read", "append", "commit",
                             "truncate", "rewrite", "wipe", "wipe_file"}

Goto(t, point) == pc' = [pc EXCEPT ![t] = point]

(* Mutant: journal_record and the loader leave CURRENT_SEQUENCE locked. *)
ReleaseKeepsSeq(t) ==
  owner' = [l \in Locks |-> IF owner[l] = t /\ l # "SEQ" THEN None ELSE owner[l]]

Release(t) == owner' = [l \in Locks |-> IF owner[l] = t THEN None ELSE owner[l]]
Return(t) == Release(t) /\ Goto(t, "idle") /\ op' = [op EXCEPT ![t] = "read"]

Call(t, o) ==
  /\ pc[t] = "idle"
  /\ op' = [op EXCEPT ![t] = o]
  /\ Goto(t, "call")
  /\ UNCHANGED <<memory, file, owner, draft, history>>

(* The head of ensure_initialized, called first by every command. *)
EnsureInitialized(t) ==
  /\ pc[t] = "call"
  /\ owner["INIT"] = None
  /\ IF initialized
     THEN Goto(t, First[op[t]]) /\ UNCHANGED owner
     ELSE Goto(t, "load_entries") /\ owner' = [owner EXCEPT !["INIT"] = t]
  /\ UNCHANGED <<memory, file, op, draft, history>>

Acquire(t) ==
  /\ pc[t] \in DOMAIN Wants
  /\ owner[Wants[pc[t]].lock] = None
  /\ owner' = [owner EXCEPT ![Wants[pc[t]].lock] = t]
  /\ Goto(t, Wants[pc[t]].next)
  /\ UNCHANGED <<memory, file, op, draft, history>>

(* The rest of ensure_initialized.  When read_to_string fails, as it does on a
   file torn inside a character, nothing is loaded and nobody is told. *)
Load(t) ==
  /\ pc[t] = "load_file"
  /\ \/ entries' = Loaded(file.lines)
     \/ "io" \in Faults /\ entries' = <<>>
  /\ damaged' = (damaged \/ entries' # Loaded(file.lines))
  /\ curSeq' = IF entries' = <<>> THEN 0 ELSE entries'[Len(entries')].seq
  /\ lastHash' = IF entries' = <<>> THEN None ELSE entries'[Len(entries')].hash
  /\ initialized' = TRUE
  /\ Release(t)
  /\ Goto(t, First[op[t]])
  /\ UNCHANGED <<file, op, draft, acked, glued>>

(* journal_query, journal_verify_chain, journal_export, journal_get_stats:
   one look at the entries under their Mutex. *)
Read(t) ==
  /\ pc[t] = "read"
  /\ owner["ENTRIES"] = None
  /\ Return(t)
  /\ UNCHANGED <<memory, file, draft, history>>

(* The bound: room for one more number and one more line. *)
Room == curSeq < MaxSequence /\ Len(file.lines) < MaxSequence

(* Mutant: success is returned though the line was only buffered. *)
AppendToBuffer(t) ==
  /\ pc[t] = "append" /\ Room
  /\ \E id \in Ids : draft' = NextEntry(id)
  /\ Goto(t, "commit")
  /\ UNCHANGED <<memory, file, owner, op, history>>

(* journal_record: the line reaches the file before memory changes. *)
AppendToFile(t) ==
  /\ pc[t] = "append" /\ Room
  /\ \E id \in Ids : /\ draft' = NextEntry(id)
                     /\ file' = AppendLine(file, NextEntry(id))
  /\ glued' = IF file.open THEN glued \cup {draft'} ELSE glued \ {draft'}
  /\ Goto(t, "commit")
  /\ UNCHANGED <<memory, owner, op, acked, damaged>>

(* Mutant: the head moves before the write that may fail. *)
AppendFailsAfterHead(t) ==
  /\ pc[t] = "append" /\ Room
  /\ \E id \in Ids : lastHash' = NextEntry(id).hash /\ curSeq' = NextEntry(id).seq
  /\ Return(t)
  /\ UNCHANGED <<entries, initialized, file, draft, history>>

(* The file cannot be opened, or the write stops half way: the command
   returns success: false and memory is as before. *)
AppendFails(t) ==
  /\ pc[t] = "append"
  /\ \/ UNCHANGED file
     \/ "io" \in Faults /\ Room /\ \E id \in Ids : file' \in TornAppends(file, NextEntry(id))
  /\ Return(t)
  /\ UNCHANGED <<memory, draft, history>>

(* The command returns success for the entry it drafted. *)
Acknowledge(t) ==
  /\ acked' = {e \in acked \cup {draft} : e.seq > draft.seq - MAX_JOURNAL_ENTRIES}
  /\ draft' = None
  /\ Return(t)

Commit(t) ==
  /\ pc[t] = "commit"
  /\ curSeq' = draft.seq
  /\ lastHash' = draft.hash
  /\ entries' = Newest(Append(entries, draft))
  /\ IF Len(entries) + 1 > MAX_JOURNAL_ENTRIES
     THEN Goto(t, "truncate") /\ UNCHANGED <<owner, op, draft, history>>
     ELSE Acknowledge(t) /\ UNCHANGED <<glued, damaged>>
  /\ UNCHANGED <<initialized, file>>

(* fs::write truncates the file, then writes it; its errors are ignored. *)
Truncate(t) ==
  /\ pc[t] = "truncate"
  /\ file' = EmptyFile
  /\ Goto(t, "rewrite")
  /\ UNCHANGED <<memory, owner, op, draft, history>>

TruncateFails(t) ==
  /\ pc[t] = "truncate" /\ "io" \in Faults
  /\ Acknowledge(t)
  /\ UNCHANGED <<memory, file, glued, damaged>>

Rewrite(t) ==
  /\ pc[t] = "rewrite"
  /\ \/ /\ file' = FileOf(entries)
        /\ glued' = glued \ {entries[i] : i \in 1..Len(entries)}
        /\ UNCHANGED damaged
     \/ /\ "io" \in Faults
        /\ \E n \in 0..Len(entries) - 1 :
             file' \in TornAppends(FileOf(SubSeq(entries, 1, n)), entries[n + 1])
        /\ damaged' = TRUE
        /\ UNCHANGED glued
  /\ Acknowledge(t)
  /\ UNCHANGED memory

(* journal_clear: memory first, then the file; a failed write is ignored. *)
Wipe(t) ==
  /\ pc[t] = "wipe"
  /\ entries' = <<>> /\ lastHash' = None /\ curSeq' = 0
  /\ acked' = {}
  /\ Goto(t, "wipe_file")
  /\ UNCHANGED <<initialized, file, owner, op, draft, glued, damaged>>

(* Mutant: only memory is cleared. *)
WipeFileSkipped(t) ==
  /\ pc[t] = "wipe_file"
  /\ Return(t)
  /\ UNCHANGED <<memory, file, draft, history>>

WipeFile(t) ==
  /\ pc[t] = "wipe_file"
  /\ \/ file' = EmptyFile /\ damaged' = FALSE
     \/ "io" \in Faults /\ UNCHANGED file /\ damaged' = TRUE
  /\ Return(t)
  /\ UNCHANGED <<memory, draft, acked, glued>>

Crash ==
  /\ "crash" \in Faults
  /\ damaged' = (damaged \/ \E t \in Threads : pc[t] = "rewrite")
  /\ entries' = <<>> /\ lastHash' = None /\ curSeq' = 0 /\ initialized' = FALSE
  /\ owner' = [l \in Locks |-> None]
  /\ pc' = [t \in Threads |-> "idle"]
  /\ draft' = None
  /\ op' = [t \in Threads |-> "read"]
  /\ UNCHANGED <<file, acked, glued>>

-----------------------------------------------------------------------------
Init ==
  /\ entries = <<>> /\ lastHash = None /\ curSeq = 0 /\ initialized = FALSE
  /\ file = EmptyFile
  /\ owner = [l \in Locks |-> None]
  /\ pc = [t \in Threads |-> "idle"]
  /\ op = [t \in Threads |-> "read"]
  /\ draft = None
  /\ acked = {} /\ glued = {} /\ damaged = FALSE

(* What a thread does on its own once it has been called. *)
Step(t) ==
  \/ EnsureInitialized(t) \/ Acquire(t) \/ Load(t) \/ Read(t)
  \/ AppendToFile(t) \/ AppendFails(t) \/ Commit(t)
  \/ Truncate(t) \/ TruncateFails(t) \/ Rewrite(t)
  \/ Wipe(t) \/ WipeFile(t)

Next ==
  \/ \E t \in Threads : Step(t) \/ \E o \in Ops : Call(t, o)
  \/ Crash

Spec == Init /\ [][Next]_vars

(* The blocking pool runs every thread that can take a step.  A Mutex is not
   first-come first-served, but a waiter is woken whenever the holder lets
   go, and the next command of another caller takes a trip through the IPC
   first: a thread to which the Mutex is free again and again gets it. *)
FairSpec == Spec /\ \A t \in Threads : SF_vars(Step(t))


-----------------------------------------------------------------------------
(* Properties. *)

TypeOK ==
  /\ entries \in Seq(Entry)
  /\ lastHash \in Hash \cup {None}
  /\ curSeq \in 0..MaxSequence
  /\ initialized \in BOOLEAN
  /\ file \in [lines : Seq(Entry \cup {Torn}), open : BOOLEAN]
  /\ owner \in [Locks -> Threads \cup {None}]
  /\ pc \in [Threads -> Points]
  /\ op \in [Threads -> Commands]
  /\ draft \in Entry \cup {None}
  /\ acked \subseteq Entry
  /\ glued \subseteq Entry
  /\ damaged \in BOOLEAN

(* Whatever a command that takes the entries' Mutex finds there passes
   journal_verify_chain: no interleaving, pruning or restart makes the journal
   accuse its own user of tampering, as long as reads and writes do not fail
   and the process die as well (a restart may then miss a line). *)
VisibleChainVerifies == owner["ENTRIES"] = None => VerifyAuditChain(entries)

(* Whenever no command is changing the journal, a restart would load exactly
   the entries now in memory: the file that ensure_initialized parses never
   drifts from the Vec that queries answer from. *)
RestartRecoversMemory ==
  initialized /\ owner["SEQ"] = None => Loaded(file.lines) = entries

(* The head kept in two Mutexes of its own is the head of the entries kept in
   a third, so the next journal_record extends the chain readers see. *)
HeadMatchesEntries ==
  initialized /\ owner["SEQ"] = None =>
    IF entries = <<>> THEN curSeq = 0 /\ lastHash = None
                      ELSE /\ curSeq = entries[Len(entries)].seq
                           /\ lastHash = entries[Len(entries)].hash

(* An entry whose caller was told success: true, and which neither a clear
   nor the retention limit has removed since, is in the journal after any
   number of restarts. *)
AckedAlwaysSurvive ==
  initialized /\ owner["SEQ"] = None =>
    acked \subseteq {entries[j] : j \in 1..Len(entries)}

(* The same, whatever fails and whenever the process dies, unless one of three
   things happened since the last clear: the rewrite of the pruned file was
   cut short, a clear did not reach the file (the old entries come back and
   crowd the new ones out), or a restart could not read it.  An append that
   stops half way costs no more than the one entry whose line is glued to what
   it left, and not even that once the file is rewritten. *)
AckedSurvive ==
  damaged \/ (initialized /\ owner["SEQ"] = None =>
                 acked \ glued \subseteq {entries[j] : j \in 1..Len(entries)})

(* The file is a hash chain that only grows at its end, loses its oldest
   entries or is emptied.  During the rewrite of the pruned file, when the
   file is empty on disk, the log is what the rewrite is about to put there. *)
DurableLog == IF \E t \in Threads : pc[t] = "rewrite" THEN entries ELSE file.lines
Log == INSTANCE AuditLog WITH log <- DurableLog
ImplementsAuditLog == Log!LogSpec

(* Every command returns. *)
CallsReturn == \A t \in Threads : pc[t] # "idle" ~> pc[t] = "idle"

(* Every command returns as long as journal_clear is not used: recording,
   loading and reading take the Mutexes in orders that cannot deadlock. *)
CallsReturnWithoutClear == [](\A t \in Threads : op[t] # "clear") => CallsReturn

=============================================================================
