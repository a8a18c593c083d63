------------------------------ MODULE AuditLog ------------------------------
(***************************************************************************)
(* What the activity journal promises: a sequence of entries that always   *)
(* forms one hash chain.  Entries join it at the end; the oldest leave it  *)
(* when it is pruned; it is emptied on request, or when the process dies   *)
(* while the pruned file is being rewritten.  Nothing else happens to it:  *)
(* no entry is changed, reordered, inserted, or removed from the middle.   *)
(***************************************************************************)
EXTENDS Integers, Sequences

CONSTANTS Ids, Genesis, HashOf(_, _, _)

VARIABLE log

(* The entry that extends the chain: its number and prevHash are those the
   last entry fixes. *)
Extends(e) ==
  LET seq == IF log = <<>> THEN 1 ELSE log[Len(log)].seq + 1
      prev == IF log = <<>> THEN Genesis ELSE log[Len(log)].hash
  IN  \E id \in Ids : e = [id |-> id, seq |-> seq, prev |-> prev,
                           hash |-> HashOf(id, seq, prev)]

LogAppend ==
  /\ Len(log') = Len(log) + 1
  /\ Extends(log'[Len(log')])
  /\ log' = Append(log, log'[Len(log')])

(* The oldest entries are dropped; at least one stays. *)
LogPrune == \E k \in 1..Len(log) - 1 : log' = SubSeq(log, k + 1, Len(log))

LogEmpty == log' = <<>>

LogInit == log = <<>>
LogNext == LogAppend \/ LogPrune \/ LogEmpty
LogSpec == LogInit /\ [][LogNext]_log

=============================================================================
