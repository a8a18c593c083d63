----------------------------- MODULE MCJournal -----------------------------
(* Journal on a small instance.  A hash is the chain it seals, written as a
   sequence of <<id, sequence number>>: two entries have the same hash only
   if they and everything before them are equal. *)
EXTENDS Journal, TLC

MCHash == UNION {[1..n -> Ids \X (1..MaxSequence)] : n \in 0..MaxSequence}
MCGenesis == <<>>
MCHashOf(id, seq, prev) ==
  IF Len(prev) = MaxSequence THEN prev ELSE Append(prev, <<id, seq>>)

Symmetry == Permutations(Threads) \cup Permutations(Ids)

=============================================================================
