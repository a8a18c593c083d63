--------------------------- MODULE WebhookProofs ---------------------------
(***************************************************************************)
(* What Webhook guarantees for any number of handlers, orders, keys and    *)
(* queue entries, whichever deliveries are lost, repeated or garbled and   *)
(* wherever handlers die.                                                  *)
(***************************************************************************)
EXTENDS Webhook, FiniteSetTheorems, FunctionTheorems, TLAPS

Request == [at : Points, event : Event \cup {None}, entry : 0..MaxDlq, key : Keys \cup {None}]

(* What a handler carries with it, by where it is. *)
Carries(r) ==
  /\ req[r].at \in {"find_order", "insert_tx", "mail", "enqueue_mail", "revoke_tx", "answer"} =>
       req[r].event \in Event
  /\ req[r].at = "revoke_tx" => req[r].event.name = "order_refunded"
  /\ req[r].at \in {"mail", "enqueue_mail"} => req[r].key \in Keys
  /\ req[r].at \in {"read_entry", "resolve"} => req[r].entry # 0
  /\ req[r].at = "read_entry" => req[r].event = None
  /\ req[r].entry <= Len(dlq)
  /\ req[r].at # "read_entry" /\ req[r].entry # 0 => dlq[req[r].entry].event = req[r].event

(* An entry of the queue is a failed event or an unsent mail. *)
Entries == \A i \in 1..Len(dlq) : dlq[i].mail # None => dlq[i].event = None

TypeInv == TypeOK /\ Entries /\ \A r \in Handlers : Carries(r)

-----------------------------------------------------------------------------
(* The first state is typed. *)
LEMMA TypeInit == Init => TypeInv
<1> SUFFICES ASSUME Init PROVE TypeInv
  OBVIOUS
<1>1. Idle \in Request
  BY DlqAssumption DEF Idle, Request, Points
<1>2. dlq \in Seq(DlqEntry) /\ Len(dlq) = 0
  BY DEF Init
<1>3. TypeOK
  BY <1>1, <1>2, DlqAssumption DEF Init, TypeOK, Request
<1>4. \A r \in Handlers : req[r] = Idle
  BY DEF Init
<1>5. \A r \in Handlers : Carries(r)
  BY <1>2, <1>4 DEF Carries, Idle
<1>6. Entries
  BY <1>2 DEF Entries
<1> QED BY <1>3, <1>5, <1>6 DEF TypeInv

(* A step by r alone: the queue is as it was, and r is where it may be. *)
LEMMA QueueKept ==
  ASSUME TypeInv, dlq' = dlq, NEW r \in Handlers, NEW x \in Request, req' = [req EXCEPT ![r] = x],
         Carries(r)'
  PROVE  /\ req' \in [Handlers -> Request] /\ Entries'
         /\ \A h \in Handlers : Carries(h)'
BY DEF TypeInv, TypeOK, Request, Carries, Entries

(* A step by r alone that adds an entry to the queue. *)
LEMMA QueueGrows ==
  ASSUME TypeInv, NEW r \in Handlers, NEW x \in Request, req' = [req EXCEPT ![r] = x],
         NEW e \in DlqEntry, Len(dlq) < MaxDlq, dlq' = Append(dlq, e),
         e.mail # None => e.event = None, Carries(r)'
  PROVE  /\ req' \in [Handlers -> Request] /\ Entries'
         /\ \A h \in Handlers : Carries(h)'
         /\ dlq' \in Seq(DlqEntry) /\ Len(dlq') <= MaxDlq
<1> USE DEF TypeInv, TypeOK
<1>1. /\ dlq' \in Seq(DlqEntry) /\ Len(dlq') = Len(dlq) + 1 /\ Len(dlq) \in Nat
      /\ dlq'[Len(dlq) + 1] = e
      /\ \A i \in 1..Len(dlq) : dlq'[i] = dlq[i]
  OBVIOUS
<1>2. req' \in [Handlers -> Request]
  BY DEF Request
<1>3. Entries'
  <2> SUFFICES ASSUME NEW i \in 1..Len(dlq'), dlq'[i].mail # None
               PROVE  dlq'[i].event = None
    BY DEF Entries
  <2>1. i \in 1..Len(dlq) \/ i = Len(dlq) + 1
    BY <1>1
  <2> QED BY <1>1, <2>1 DEF Entries
<1>4. ASSUME NEW h \in Handlers, h # r PROVE Carries(h)'
  <2>1. req'[h] = req[h] /\ Carries(h) /\ req[h].entry \in Nat
    BY <1>4
  <2> QED BY <1>1, <2>1 DEF Carries
<1> QED BY <1>1, <1>2, <1>3, <1>4, DlqAssumption

(* Where a handler may go on: it is somewhere it may be. *)
LEMMA Goes ==
  ASSUME TypeInv, NEW r \in Handlers, UNCHANGED dlq,
         \/ Finish(r)
         \/ /\ req[r].at \in {"find_order", "mail", "enqueue_mail", "revoke_tx"}
            /\ Processed(r)
         \/ req[r].at \in {"find_order", "insert_tx", "revoke_tx"} /\ Threw(r)
         \/ req[r].at = "mail" /\ Await(r, "enqueue_mail")
         \/ req[r].at = "find_order" /\ Await(r, "insert_tx")
  PROVE  req' \in [Handlers -> Request] /\ Entries' /\ \A h \in Handlers : Carries(h)'
<1> USE DEF TypeInv, TypeOK
<1>1. Carries(r) /\ req[r] \in Request
  BY DEF Request
<1>2. CASE Finish(r)
  <2>1. Idle \in Request
    BY DlqAssumption DEF Idle, Request, Points
  <2>2. Carries(r)'
    BY <1>2 DEF Finish, Carries, Idle
  <2> QED BY <1>2, <2>1, <2>2, QueueKept DEF Finish
<1>3. ASSUME NEW point \in Points \ {"read_entry"}, Await(r, point), req[r].at # "read_entry",
             point \in {"find_order", "insert_tx", "mail", "enqueue_mail", "answer"} =>
               req[r].event \in Event,
             point \in {"mail", "enqueue_mail"} => req[r].key \in Keys,
             point = "resolve" => req[r].entry # 0,
             point # "revoke_tx"
      PROVE  req' \in [Handlers -> Request] /\ Entries' /\ \A h \in Handlers : Carries(h)'
  <2>1. req' = [req EXCEPT ![r] = [req[r] EXCEPT !.at = point]]
    BY <1>3 DEF Await
  <2>2. [req[r] EXCEPT !.at = point] \in Request
    BY <1>1, <1>3 DEF Request
  <2>3. Carries(r)'
    BY <1>1, <1>3, <2>1 DEF Carries
  <2> QED BY <2>1, <2>2, <2>3, QueueKept
<1>4. {"answer", "resolve", "enqueue_event", "count_retry", "enqueue_mail", "insert_tx"} \subseteq Points
  BY DEF Points
<1>5. CASE req[r].at \in {"find_order", "mail", "enqueue_mail", "revoke_tx"} /\ Processed(r)
  BY <1>1, <1>3, <1>4, <1>5 DEF Processed, Carries
<1>6. CASE req[r].at \in {"find_order", "insert_tx", "revoke_tx"} /\ Threw(r)
  BY <1>1, <1>3, <1>4, <1>6 DEF Threw, Carries
<1>7. CASE req[r].at = "mail" /\ Await(r, "enqueue_mail")
  BY <1>1, <1>3, <1>4, <1>7 DEF Carries
<1>8. CASE req[r].at = "find_order" /\ Await(r, "insert_tx")
  BY <1>1, <1>3, <1>4, <1>8 DEF Carries
<1> QED BY <1>2, <1>5, <1>6, <1>7, <1>8

(* What the queue, the requests and the tables are after each action. *)
LEMMA ReadEntryType ==
  ASSUME TypeInv, NEW r \in Handlers, ReadEntry(r)
  PROVE  req' \in [Handlers -> Request] /\ Entries' /\ \A h \in Handlers : Carries(h)'
<1> USE DEF TypeInv, TypeOK
<1> DEFINE e == dlq[req[r].entry]
<1>1. /\ Carries(r) /\ req[r] \in Request /\ req[r].entry \in 1..Len(dlq) /\ e \in DlqEntry
      /\ dlq' = dlq
  BY DEF Request, ReadEntry, Carries
<1>2. CASE e.mail # None
  <2>1. req' = [req EXCEPT ![r] = [req[r] EXCEPT !.at = "resolve"]]
    BY <1>2 DEF ReadEntry, Await
  <2>2. [req[r] EXCEPT !.at = "resolve"] \in Request
    BY <1>1 DEF Request, Points
  <2>3. req[r].event = None /\ e.event = None
    BY <1>1, <1>2 DEF ReadEntry, Carries, Entries
  <2>4. Carries(r)'
    BY <1>1, <2>1, <2>3 DEF Carries
  <2> QED BY <1>1, <2>1, <2>2, <2>4, QueueKept
<1>3. CASE e.mail = None /\ e.event = None
  BY <1>1, <1>3, Goes DEF ReadEntry
<1>4. CASE e.mail = None /\ e.event # None
  <2> DEFINE point == FirstAwait(e.event, req[r].entry)
  <2>1. req' = [req EXCEPT ![r] = [req[r] EXCEPT !.at = point, !.event = e.event]]
    BY <1>4 DEF ReadEntry
  <2>2. /\ e.event \in Event
        /\ point \in {"revoke_tx", "find_order", "count_retry"}
        /\ point = "revoke_tx" => e.event.name = "order_refunded"
    BY <1>1, <1>4 DEF FirstAwait, DlqEntry
  <2>3. [req[r] EXCEPT !.at = point, !.event = e.event] \in Request
    BY <1>1, <2>2 DEF Request, Points
  <2>4. Carries(r)'
    BY <1>1, <2>1, <2>2 DEF Carries
  <2> QED BY <1>1, <2>1, <2>3, <2>4, QueueKept
<1> QED BY <1>2, <1>3, <1>4

(* A delivery or a retry arrives. *)
LEMMA ArrivalType ==
  ASSUME TypeInv, NEW r \in Handlers,
         \/ \E event \in pending : Deliver(r, event) \/ DeliverGarbage(r, event)
         \/ \E i \in 1..Len(dlq) : Retry(r, i)
  PROVE  req' \in [Handlers -> Request] /\ Entries' /\ \A h \in Handlers : Carries(h)'
<1> USE DEF TypeInv, TypeOK
<1>1. ASSUME NEW x \in Request, req' = [req EXCEPT ![r] = x], UNCHANGED dlq,
             x.entry <= Len(dlq), x.at \in {"find_order", "revoke_tx"} => x.event \in Event,
             x.at = "revoke_tx" => x.event.name = "order_refunded",
             \/ x.at \in {"find_order", "revoke_tx", "enqueue_event"} /\ x.entry = 0
             \/ x.at = "read_entry" /\ x.entry # 0 /\ x.event = None
      PROVE  req' \in [Handlers -> Request] /\ Entries' /\ \A h \in Handlers : Carries(h)'
  <2>1. Carries(r)'
    BY <1>1 DEF Carries
  <2> QED BY <1>1, <2>1, QueueKept
<1>2. ASSUME NEW event \in pending, Deliver(r, event)
      PROVE  req' \in [Handlers -> Request] /\ Entries' /\ \A h \in Handlers : Carries(h)'
  <2> DEFINE x == [at |-> FirstAwait(event, 0), event |-> event, entry |-> 0, key |-> None]
  <2>1. x \in Request
    BY DlqAssumption DEF Request, Points, FirstAwait
  <2>2. /\ x.entry <= Len(dlq) /\ x.event \in Event /\ x.entry = 0
        /\ x.at = "revoke_tx" => x.event.name = "order_refunded"
        /\ x.at \in {"find_order", "revoke_tx", "enqueue_event"}
    BY DEF FirstAwait
  <2>3. req' = [req EXCEPT ![r] = x] /\ UNCHANGED dlq
    BY <1>2 DEF Deliver
  <2> HIDE DEF x
  <2> QED BY <1>1, <2>1, <2>2, <2>3
<1>3. ASSUME NEW event \in pending, DeliverGarbage(r, event)
      PROVE  req' \in [Handlers -> Request] /\ Entries' /\ \A h \in Handlers : Carries(h)'
  <2> DEFINE x == [Idle EXCEPT !.at = "enqueue_event"]
  <2>1. x \in Request /\ x.entry = 0 /\ x.at = "enqueue_event" /\ x.entry <= Len(dlq)
    BY DlqAssumption DEF Request, Points, Idle
  <2>2. req' = [req EXCEPT ![r] = x] /\ UNCHANGED dlq
    BY <1>3 DEF DeliverGarbage
  <2> HIDE DEF x
  <2> QED BY <1>1, <2>1, <2>2
<1>4. ASSUME NEW i \in 1..Len(dlq), Retry(r, i)
      PROVE  req' \in [Handlers -> Request] /\ Entries' /\ \A h \in Handlers : Carries(h)'
  <2> DEFINE x == [Idle EXCEPT !.at = "read_entry", !.entry = i]
  <2>1. /\ x \in Request /\ x.at = "read_entry" /\ x.entry # 0 /\ x.event = None
        /\ x.entry <= Len(dlq)
    <3>1. Len(dlq) \in Nat /\ Len(dlq) <= MaxDlq
      OBVIOUS
    <3>2. i \in 0..MaxDlq /\ i # 0 /\ i <= Len(dlq)
      BY <3>1, DlqAssumption
    <3>3. Idle \in Request /\ Idle.event = None
      BY DlqAssumption DEF Idle, Request, Points
    <3>4. ASSUME NEW y \in Request
          PROVE  LET z == [y EXCEPT !.at = "read_entry", !.entry = i]
                 IN  z \in Request /\ z.at = "read_entry" /\ z.entry = i /\ z.event = y.event
      BY <3>2 DEF Request, Points
    <3> QED BY <3>2, <3>3, <3>4
  <2>2. req' = [req EXCEPT ![r] = x] /\ UNCHANGED dlq
    BY <1>4 DEF Retry
  <2> HIDE DEF x
  <2> QED BY <1>1, <2>1, <2>2
<1> QED BY <1>2, <1>3, <1>4

(* A licence is stored, and its handler carries its key. *)
LEMMA InsertType ==
  ASSUME TypeInv, NEW r \in Handlers, InsertTx(r)
  PROVE  /\ licenses' \subseteq [key : Keys, order : Orders, revoked : BOOLEAN]
         /\ req' \in [Handlers -> Request] /\ Entries' /\ \A h \in Handlers : Carries(h)'
<1> USE DEF TypeInv, TypeOK
<1>1. PICK k \in Keys :
        /\ licenses' = licenses \cup
             {[key |-> k, order |-> req[r].event.order, revoked |-> FALSE]}
        /\ req' = [req EXCEPT ![r] = [req[r] EXCEPT !.at = "mail", !.key = k]]
  BY DEF InsertTx
<1>2. /\ req[r] \in Request /\ req[r].event \in Event /\ Carries(r) /\ req[r].at = "insert_tx"
      /\ dlq' = dlq
  BY DEF Request, Carries, InsertTx
<1>3. licenses' \subseteq [key : Keys, order : Orders, revoked : BOOLEAN]
  <2>1. req[r].event.order \in Orders
    BY <1>2 DEF Event
  <2>2. [key |-> k, order |-> req[r].event.order, revoked |-> FALSE]
          \in [key : Keys, order : Orders, revoked : BOOLEAN]
    BY <2>1
  <2> QED BY <1>1, <2>2
<1>4. [req[r] EXCEPT !.at = "mail", !.key = k] \in Request
  BY <1>2 DEF Request, Points
<1>5. Carries(r)'
  BY <1>1, <1>2 DEF Carries
<1> QED BY <1>1, <1>2, <1>3, <1>4, <1>5, QueueKept

(* An entry changes its status and nothing else. *)
LEMMA ResolveType ==
  ASSUME TypeInv, NEW r \in Handlers, Resolve(r)
  PROVE  /\ dlq' \in Seq(DlqEntry) /\ Len(dlq') <= MaxDlq
         /\ req' \in [Handlers -> Request] /\ Entries' /\ \A h \in Handlers : Carries(h)'
<1> USE DEF TypeInv, TypeOK
<1>1. Idle \in Request
  BY DlqAssumption DEF Idle, Request, Points
<1>2. req' = [req EXCEPT ![r] = Idle]
  BY DEF Resolve, Finish
<1>3. /\ dlq' \in Seq(DlqEntry) /\ Len(dlq') = Len(dlq) /\ Len(dlq) <= MaxDlq
      /\ \A i \in 1..Len(dlq) : dlq'[i].event = dlq[i].event /\ dlq'[i].mail = dlq[i].mail
  <2>1. dlq' = [dlq EXCEPT ![req[r].entry] = [dlq[req[r].entry] EXCEPT !.status = "resolved"]]
    BY DEF Resolve
  <2>2. req[r].entry \in 1..Len(dlq)
    BY DEF Carries, Resolve
  <2>3. ASSUME NEW e \in DlqEntry
        PROVE  LET f == [e EXCEPT !.status = "resolved"]
               IN  f \in DlqEntry /\ f.event = e.event /\ f.mail = e.mail
    BY DEF DlqEntry
  <2>4. dlq[req[r].entry] \in DlqEntry
    BY <2>2
  <2>5. dlq \in Seq(DlqEntry) /\ Len(dlq) <= MaxDlq
    OBVIOUS
  <2> HIDE DEF TypeInv, TypeOK
  <2>6. dlq' \in Seq(DlqEntry) /\ Len(dlq') = Len(dlq)
    BY <2>1, <2>2, <2>3, <2>4, <2>5
  <2>7. \A i \in 1..Len(dlq) : dlq'[i] = dlq[i] \/ i = req[r].entry
    BY <2>1, <2>5
  <2>8. dlq'[req[r].entry] = [dlq[req[r].entry] EXCEPT !.status = "resolved"]
    BY <2>1, <2>2, <2>5
  <2>9. /\ dlq'[req[r].entry].event = dlq[req[r].entry].event
        /\ dlq'[req[r].entry].mail = dlq[req[r].entry].mail
    BY <2>3, <2>4, <2>8
  <2> QED BY <2>5, <2>6, <2>7, <2>9
<1>4. Entries'
  BY <1>3 DEF Entries
<1>5. ASSUME NEW h \in Handlers PROVE Carries(h)'
  <2>1. CASE h = r
    BY <1>2, <1>3, <2>1 DEF Carries, Idle
  <2>2. CASE h # r
    <3>1. req'[h] = req[h] /\ Carries(h) /\ req[h].entry \in Nat
      BY <1>2, <2>2
    <3> QED BY <1>3, <3>1 DEF Carries
  <2> QED BY <2>1, <2>2
<1> QED BY <1>1, <1>2, <1>3, <1>4, <1>5 DEF Request

(* RevokeTx keeps a licence's key and order, and only ever revokes. *)
LEMMA RevokedRow ==
  ASSUME NEW l \in [key : Keys, order : Orders, revoked : BOOLEAN], NEW b \in BOOLEAN
  PROVE  LET m == [l EXCEPT !.revoked = @ \/ b]
         IN  /\ m \in [key : Keys, order : Orders, revoked : BOOLEAN]
             /\ m.key = l.key /\ m.order = l.order
             /\ l.revoked => m = l
OBVIOUS

(* An entry is added, or the queue cannot be written. *)
LEMMA EnqueueType ==
  ASSUME TypeInv, NEW r \in Handlers, EnqueueMail(r) \/ EnqueueEvent(r)
  PROVE  /\ dlq' \in Seq(DlqEntry) /\ Len(dlq') <= MaxDlq
         /\ req' \in [Handlers -> Request] /\ Entries' /\ \A h \in Handlers : Carries(h)'
<1> USE DEF TypeInv, TypeOK
<1>1. Carries(r) /\ req[r] \in Request /\ Len(dlq) \in Nat
  BY DEF Request
<1>2. CASE EnqueueMail(r) /\ dlq' # dlq
  <2> DEFINE e == [event |-> None, mail |-> req[r].key, status |-> "failed"]
  <2>1. Len(dlq) < MaxDlq /\ dlq' = Append(dlq, e) /\ Processed(r) /\ req[r].at = "enqueue_mail"
    BY <1>2 DEF EnqueueMail
  <2>2. e \in DlqEntry /\ e.event = None
    BY <1>1, <2>1 DEF Carries, DlqEntry
  <2> DEFINE point == IF req[r].entry = 0 THEN "answer" ELSE "resolve"
  <2> DEFINE x == [req[r] EXCEPT !.at = point]
  <2>3. x \in Request /\ req' = [req EXCEPT ![r] = x]
    BY <1>1, <2>1 DEF Request, Points, Processed, Await
  <2>4. Carries(r)'
    <3> HIDE DEF e
    <3>1. /\ Len(dlq') = Len(dlq) + 1 /\ req[r].entry \in Nat
          /\ \A i \in 1..Len(dlq) : dlq'[i] = dlq[i]
      BY <1>1, <2>1, <2>2 DEF Request
    <3> QED BY <1>1, <2>1, <2>3, <3>1 DEF Carries
  <2> HIDE DEF e, x
  <2> QED BY <2>1, <2>2, <2>3, <2>4, QueueGrows
<1>3. CASE EnqueueEvent(r) /\ dlq' # dlq
  <2> DEFINE e == [event |-> req[r].event, mail |-> None, status |-> "failed"]
  <2>1. /\ Len(dlq) < MaxDlq /\ dlq' = Append(dlq, e) /\ req' = [req EXCEPT ![r] = Idle]
    BY <1>3 DEF EnqueueEvent, Finish
  <2>2. e \in DlqEntry /\ e.mail = None
    BY <1>1 DEF Request, DlqEntry
  <2>3. Idle \in Request
    BY DlqAssumption DEF Idle, Request, Points
  <2>4. Carries(r)'
    <3> HIDE DEF e
    <3>1. Len(dlq') = Len(dlq) + 1
      BY <2>1, <2>2
    <3> QED BY <1>1, <2>1, <3>1 DEF Carries, Idle
  <2> HIDE DEF e
  <2> QED BY <2>1, <2>2, <2>3, <2>4, QueueGrows
<1>4. CASE dlq' = dlq
  <2>1. UNCHANGED dlq
    BY <1>4
  <2>2. Finish(r) \/ (req[r].at = "enqueue_mail" /\ Processed(r))
    BY DEF EnqueueMail, EnqueueEvent
  <2> QED BY <2>1, <2>2, Goes
<1> QED BY <1>2, <1>3, <1>4

(* Every step keeps the types and what handlers carry. *)
LEMMA TypeStep == TypeInv /\ [Next]_vars => TypeInv'
<1> SUFFICES ASSUME TypeInv, [Next]_vars PROVE TypeInv'
  OBVIOUS
<1>0. TypeOK
  BY DEF TypeInv
<1>1. ASSUME NEW o \in Orders, Pay(o) \/ Refund(o) PROVE TypeInv'
  BY <1>1 DEF Pay, Refund, TypeInv, TypeOK, Event, Entries, Carries
<1>2. ASSUME NEW r \in Handlers,
             \/ \E event \in pending : Deliver(r, event) \/ DeliverGarbage(r, event)
             \/ \E i \in 1..Len(dlq) : Retry(r, i)
      PROVE  TypeInv'
  <2>1. UNCHANGED <<store, licenses, dlq, mailbox, acked, dropped>>
    BY <1>2 DEF Deliver, DeliverGarbage, Retry
  <2> QED BY <1>0, <1>2, <2>1, ArrivalType DEF TypeInv, TypeOK, Request, store
<1>3. ASSUME NEW r \in Handlers, ReadEntry(r) PROVE TypeInv'
  <2>1. UNCHANGED <<store, licenses, dlq, mailbox, acked, dropped>>
    BY <1>3 DEF ReadEntry
  <2> QED BY <1>0, <1>3, <2>1, ReadEntryType DEF TypeInv, TypeOK, Request, store
<1>4. ASSUME NEW r \in Handlers, FindOrder(r) \/ InsertFails(r) \/ CountRetry(r) PROVE TypeInv'
  <2>1. UNCHANGED <<store, licenses, dlq, mailbox, acked, dropped>>
    BY <1>4 DEF FindOrder, InsertFails, CountRetry
  <2>2. req' \in [Handlers -> Request] /\ Entries' /\ \A h \in Handlers : Carries(h)'
    BY <1>4, <2>1, Goes DEF FindOrder, InsertFails, CountRetry
  <2> QED BY <1>0, <2>1, <2>2 DEF TypeInv, TypeOK, Request, store
<1>5. ASSUME NEW r \in Handlers, InsertTx(r) PROVE TypeInv'
  BY <1>0, <1>5, InsertType DEF InsertTx, TypeInv, TypeOK, Request, store
<1>6. ASSUME NEW r \in Handlers, SendMail(r) PROVE TypeInv'
  <2>1. req' \in [Handlers -> Request] /\ Entries' /\ \A h \in Handlers : Carries(h)'
    BY <1>6, Goes DEF SendMail
  <2>2. req[r].key \in Keys
    BY <1>6 DEF SendMail, TypeInv, Carries
  <2> QED BY <1>0, <1>6, <2>1, <2>2 DEF SendMail, TypeInv, TypeOK, Request, store
<1>7. ASSUME NEW r \in Handlers, RevokeTx(r) PROVE TypeInv'
  <2>1. req' \in [Handlers -> Request] /\ Entries' /\ \A h \in Handlers : Carries(h)'
    BY <1>7, Goes DEF RevokeTx
  <2>2. licenses' \subseteq [key : Keys, order : Orders, revoked : BOOLEAN]
    <3> SUFFICES ASSUME NEW m \in licenses'
                 PROVE  m \in [key : Keys, order : Orders, revoked : BOOLEAN]
      OBVIOUS
    <3>1. PICK l \in licenses : m = l \/ m = [l EXCEPT !.revoked = @ \/ l.order = req[r].event.order]
      BY <1>7 DEF RevokeTx
    <3>2. l \in [key : Keys, order : Orders, revoked : BOOLEAN]
      BY <1>0 DEF TypeOK
    <3>3. (l.order = req[r].event.order) \in BOOLEAN
      OBVIOUS
    <3>4. [l EXCEPT !.revoked = @ \/ l.order = req[r].event.order]
             \in [key : Keys, order : Orders, revoked : BOOLEAN]
      BY <3>2, <3>3, RevokedRow
    <3> QED BY <3>1, <3>2, <3>4
  <2> QED BY <1>0, <1>7, <2>1, <2>2 DEF RevokeTx, TypeInv, TypeOK, Request, store
<1>8. ASSUME NEW r \in Handlers, EnqueueMail(r) \/ EnqueueEvent(r) PROVE TypeInv'
  <2>1. req[r].at = "enqueue_mail" => req[r].key \in Keys
    BY DEF TypeInv, Carries
  <2> QED BY <1>0, <1>8, <2>1, EnqueueType
          DEF EnqueueMail, EnqueueEvent, TypeInv, TypeOK, Request, store
<1>9. ASSUME NEW r \in Handlers, Resolve(r) PROVE TypeInv'
  BY <1>0, <1>9, ResolveType DEF Resolve, TypeInv, TypeOK, Request, store
<1>10. ASSUME NEW r \in Handlers, AnswerOk(r) \/ Abort(r) PROVE TypeInv'
  <2>1. req' \in [Handlers -> Request] /\ Entries' /\ \A h \in Handlers : Carries(h)'
    BY <1>10, Goes DEF AnswerOk, Abort
  <2>2. /\ req[r].at = "answer" => req[r].event \in Event
        /\ req[r].at \in {"mail", "enqueue_mail"} => req[r].key \in Keys
    BY DEF TypeInv, Carries
  <2> QED BY <1>0, <1>10, <2>1, <2>2 DEF AnswerOk, Abort, TypeInv, TypeOK, Request, store
<1>11. CASE UNCHANGED vars
  BY <1>11 DEF vars, store, TypeInv, TypeOK, Entries, Carries
<1> QED BY <1>1, <1>2, <1>3, <1>4, <1>5, <1>6, <1>7, <1>8, <1>9, <1>10, <1>11 DEF Next, Step

(* The tables, the queue and the requests keep their types. *)
THEOREM TypeCorrectness == Spec => []TypeOK
<1>1. Spec => []TypeInv
  BY TypeInit, TypeStep, PTL DEF Spec
<1> QED BY <1>1, PTL DEF TypeInv

-----------------------------------------------------------------------------
(* A licence may be revoked; its key and order stay, and nothing takes it back. *)
LEMMA LicensesKept ==
  ASSUME TypeInv, [Next]_vars, NEW l \in licenses
  PROVE  \E m \in licenses' : m.key = l.key /\ m.order = l.order /\ (l.revoked => m = l)
<1>1. CASE l \in licenses'
  BY <1>1
<1>2. ASSUME NEW r \in Handlers, RevokeTx(r), l \notin licenses'
      PROVE  \E m \in licenses' : m.key = l.key /\ m.order = l.order /\ (l.revoked => m = l)
  <2> DEFINE m == [l EXCEPT !.revoked = @ \/ l.order = req[r].event.order]
  <2>1. m \in licenses'
    BY <1>2 DEF RevokeTx
  <2>2. l \in [key : Keys, order : Orders, revoked : BOOLEAN]
    BY DEF TypeInv, TypeOK
  <2>3. m.key = l.key /\ m.order = l.order /\ (l.revoked => m = l)
    BY <2>2, RevokedRow
  <2> QED BY <2>1, <2>3
<1>3. (\A r \in Handlers : ~RevokeTx(r)) => l \in licenses'
  BY DEF Next, Step, vars, Pay, Refund, Deliver, DeliverGarbage, Retry, ReadEntry, FindOrder,
     InsertTx, InsertFails, SendMail, EnqueueMail, EnqueueEvent, Resolve, CountRetry, AnswerOk,
     Abort
<1> QED BY <1>1, <1>2, <1>3

(* Late, repeated or retried events never make a revoked licence valid again. *)
THEOREM RevocationsStay == Spec => RevokedStaysRevoked
<1>1. TypeInv /\ [Next]_vars => [\A l \in licenses : l.revoked => l \in licenses']_vars
  BY LicensesKept
<1>2. Spec => []TypeInv
  BY TypeInit, TypeStep, PTL DEF Spec
<1> QED BY <1>1, <1>2, PTL DEF Spec, RevokedStaysRevoked

-----------------------------------------------------------------------------
(* Where h may be after a step: where it was, idle, at a point nothing has been
   achieved at, or further on with the work that point stands for done. *)
Moved(h) ==
  \/ req'[h] = req[h]
  \/ req'[h].at \in {"idle", "read_entry", "find_order", "revoke_tx", "enqueue_event", "count_retry"}
  \/ /\ req'[h].at = "insert_tx" /\ req'[h].event = req[h].event
     /\ FindOrder(h) /\ OfOrder(req[h].event.order) = {}
  \/ InsertTx(h) /\ req'[h].at = "mail" /\ req'[h].event = req[h].event
  \/ SendMail(h) /\ req'[h] = [req[h] EXCEPT !.at = "enqueue_mail"]
  \/ ReadEntry(h) /\ req'[h].at = "resolve" /\ req'[h].event = None
  \/ /\ req'[h].at \in {"answer", "resolve"} /\ req'[h].event = req[h].event
     /\ \/ FindOrder(h) /\ OfOrder(req[h].event.order) # {}
        \/ SendMail(h) \/ EnqueueMail(h) \/ RevokeTx(h)

(* Every step moves a handler so. *)
LEMMA Moves == ASSUME TypeInv, [Next]_vars, NEW h \in Handlers PROVE Moved(h)
<1> USE DEF TypeInv, TypeOK
<1>1. CASE UNCHANGED req
  BY <1>1 DEF Moved
<1>2. ASSUME NEW r \in Handlers, NEW x, req' = [req EXCEPT ![r] = x], h # r PROVE Moved(h)
  BY <1>2 DEF Moved
<1>3. ASSUME NEW x, req' = [req EXCEPT ![h] = x] PROVE req'[h] = x
  BY <1>3
<1>4. ASSUME NEW r \in Handlers, NEW event \in pending, Deliver(r, event) \/ DeliverGarbage(r, event)
      PROVE  Moved(h)
  <2>1. CASE Deliver(r, event)
    <3>1. req'[r].at \in {"find_order", "revoke_tx", "enqueue_event"}
      BY <2>1 DEF Deliver, FirstAwait
    <3> QED BY <2>1, <3>1, <1>2 DEF Deliver, Moved
  <2>2. CASE DeliverGarbage(r, event)
    <3>1. req'[r].at = "enqueue_event"
      BY <2>2 DEF DeliverGarbage, Idle
    <3> QED BY <2>2, <3>1, <1>2 DEF DeliverGarbage, Moved
  <2> QED BY <1>4, <2>1, <2>2
<1>5. ASSUME NEW r \in Handlers, NEW i \in 1..Len(dlq), Retry(r, i) PROVE Moved(h)
  <2>1. req'[r].at = "read_entry"
    BY <1>5 DEF Retry, Idle
  <2> QED BY <1>5, <2>1, <1>2 DEF Retry, Moved
<1>6. ASSUME NEW r \in Handlers, Finish(r) PROVE Moved(h)
  BY <1>2, <1>6 DEF Finish, Idle, Moved
<1>7. ASSUME NEW r \in Handlers, Threw(r) PROVE Moved(h)
  <2>1. req'[r].at \in {"enqueue_event", "count_retry"}
    BY <1>7 DEF Threw, Await
  <2> QED BY <1>2, <1>7, <2>1 DEF Threw, Await, Moved
<1>8. ASSUME NEW r \in Handlers, Processed(r),
             \/ FindOrder(r) /\ OfOrder(req[r].event.order) # {}
             \/ SendMail(r) \/ EnqueueMail(r) \/ RevokeTx(r)
      PROVE  Moved(h)
  <2>1. req'[r].at \in {"answer", "resolve"} /\ req'[r].event = req[r].event
    BY <1>8 DEF Processed, Await
  <2> QED BY <1>2, <1>8, <2>1 DEF Processed, Await, Moved
<1>9. ASSUME NEW r \in Handlers, ReadEntry(r) PROVE Moved(h)
  <2> DEFINE e == dlq[req[r].entry]
  <2>1. CASE e.mail # None
    <3>1. req'[r].at = "resolve" /\ req'[r].event = None
      BY <1>9, <2>1 DEF ReadEntry, Await, Carries
    <3> QED BY <1>2, <1>9, <2>1, <3>1 DEF ReadEntry, Await, Moved
  <2>2. CASE e.mail = None /\ e.event = None
    BY <1>6, <1>9, <2>2 DEF ReadEntry
  <2>3. CASE e.mail = None /\ e.event # None
    <3>1. req' = [req EXCEPT ![r] = [req[r] EXCEPT !.at = FirstAwait(e.event, req[r].entry),
                                                   !.event = e.event]]
      BY <1>9, <2>3 DEF ReadEntry
    <3>2. FirstAwait(e.event, req[r].entry) \in {"find_order", "revoke_tx", "enqueue_event", "count_retry"}
      BY DEF FirstAwait
    <3>3. req'[r].at = FirstAwait(e.event, req[r].entry)
      BY <3>1
    <3> HIDE DEF e
    <3> QED BY <1>2, <3>1, <3>2, <3>3 DEF Moved
  <2> QED BY <2>1, <2>2, <2>3
<1>10. ASSUME NEW r \in Handlers, FindOrder(r) PROVE Moved(h)
  <2>1. CASE OfOrder(req[r].event.order) = {} /\ Await(r, "insert_tx")
    <3>1. req'[r].at = "insert_tx" /\ req'[r].event = req[r].event
      BY <2>1 DEF Await
    <3> QED BY <1>2, <1>10, <2>1, <3>1 DEF Await, Moved
  <2> QED BY <1>7, <1>8, <1>10, <2>1 DEF FindOrder
<1>11. ASSUME NEW r \in Handlers, InsertTx(r) PROVE Moved(h)
  <2>1. PICK k : req' = [req EXCEPT ![r].at = "mail", ![r].key = k]
    BY <1>11 DEF InsertTx
  <2>2. req'[r].at = "mail" /\ req'[r].event = req[r].event
    BY <2>1
  <2> QED BY <1>2, <1>11, <2>1, <2>2 DEF Moved
<1>12. ASSUME NEW r \in Handlers, SendMail(r) PROVE Moved(h)
  <2>1. CASE Await(r, "enqueue_mail")
    <3>1. req'[r] = [req[r] EXCEPT !.at = "enqueue_mail"]
      BY <2>1 DEF Await
    <3> QED BY <1>2, <1>12, <2>1, <3>1 DEF Await, Moved
  <2> QED BY <1>8, <1>12, <2>1 DEF SendMail
<1>13. ASSUME NEW r \in Handlers,
              \/ InsertFails(r) \/ RevokeTx(r) \/ EnqueueMail(r) \/ EnqueueEvent(r) \/ Resolve(r)
              \/ CountRetry(r) \/ AnswerOk(r) \/ Abort(r)
       PROVE  Moved(h)
  BY <1>6, <1>7, <1>8, <1>13
     DEF InsertFails, RevokeTx, EnqueueMail, EnqueueEvent, Resolve, CountRetry, AnswerOk, Abort
<1>14. UNCHANGED vars \/ (\E o \in Orders : Pay(o) \/ Refund(o)) => UNCHANGED req
  BY DEF vars, Pay, Refund
<1> QED BY <1>1, <1>4, <1>5, <1>9, <1>10, <1>11, <1>12, <1>13, <1>14 DEF Next, Step

-----------------------------------------------------------------------------
(* A key on its way to a buyer is a stored one. *)
MailInv ==
  /\ MailedKeysAreStored
  /\ \A r \in Handlers :
       req[r].at \in {"mail", "enqueue_mail"} =>
         \E l \in licenses : l.key = req[r].key /\ l.order = req[r].event.order

(* A handler comes to the mail only with a licence it has just stored. *)
LEMMA MailStep == TypeInv /\ MailInv /\ [Next]_vars => MailInv'
<1> SUFFICES ASSUME TypeInv, MailInv, [Next]_vars PROVE MailInv'
  OBVIOUS
<1>1. \A l \in licenses : \E m \in licenses' : m.key = l.key /\ m.order = l.order
  BY LicensesKept
<1>2. \A k \in mailbox' : k \in mailbox \/ \E l \in licenses : l.key = k
  BY DEF Next, Step, vars, Pay, Refund, Deliver, DeliverGarbage, Retry, ReadEntry, FindOrder,
     InsertTx, InsertFails, SendMail, RevokeTx, EnqueueMail, EnqueueEvent, Resolve, CountRetry,
     AnswerOk, Abort, MailInv
<1>3. MailedKeysAreStored'
  BY <1>1, <1>2 DEF MailInv, MailedKeysAreStored
<1>4. ASSUME NEW h \in Handlers, req'[h].at \in {"mail", "enqueue_mail"}
      PROVE  \/ /\ req[h].at \in {"mail", "enqueue_mail"}
                /\ req'[h].key = req[h].key /\ req'[h].event = req[h].event
             \/ \E l \in licenses' : l.key = req'[h].key /\ l.order = req'[h].event.order
  <2>1. CASE InsertTx(h)
    <3>1. PICK k \in Keys :
            /\ licenses' = licenses \cup
                 {[key |-> k, order |-> req[h].event.order, revoked |-> FALSE]}
            /\ req' = [req EXCEPT ![h].at = "mail", ![h].key = k]
      BY <2>1 DEF InsertTx
    <3>2. req'[h].key = k /\ req'[h].event = req[h].event
      BY <3>1 DEF TypeInv, TypeOK
    <3> DEFINE l == [key |-> k, order |-> req[h].event.order, revoked |-> FALSE]
    <3>3. l \in licenses' /\ l.key = k /\ l.order = req[h].event.order
      BY <3>1
    <3> HIDE DEF l
    <3> QED BY <3>2, <3>3
  <2>2. CASE SendMail(h) /\ req'[h] = [req[h] EXCEPT !.at = "enqueue_mail"]
    BY <2>2 DEF SendMail, TypeInv, TypeOK
  <2> QED BY <1>4, <2>1, <2>2, Moves DEF Moved
<1> QED BY <1>1, <1>3, <1>4 DEF MailInv

(* No mail was sent at first. *)
LEMMA MailInit == Init => MailInv
BY DEF Init, MailInv, MailedKeysAreStored, Idle

(* No buyer is sent a key before the transaction that stores it has committed. *)
THEOREM MailsAreStored == Spec => []MailedKeysAreStored
<1>1. Spec => [](TypeInv /\ MailInv)
  BY TypeInit, TypeStep, MailInit, MailStep, PTL DEF Spec
<1> QED BY <1>1, PTL DEF MailInv

-----------------------------------------------------------------------------
(* A handler past its work, an answer and a resolved entry each stand for a
   stored licence. *)
CreatedOf(o) == [name |-> "order_created", order |-> o]

StoredInv ==
  /\ SuccessMeansStored
  /\ \A r \in Handlers, o \in Orders :
       req[r].at \in {"answer", "resolve"} /\ req[r].event = CreatedOf(o) => OfOrder(o) # {}

(* An entry is resolved by the retry of its own event. *)
LEMMA NewlyResolved ==
  ASSUME TypeInv, [Next]_vars, NEW i \in 1..Len(dlq'), dlq'[i].status = "resolved",
         ~(i \in 1..Len(dlq) /\ dlq[i].status = "resolved" /\ dlq[i].event = dlq'[i].event)
  PROVE  \E r \in Handlers : req[r].at = "resolve" /\ req[r].event = dlq'[i].event
<1>1. dlq \in Seq(DlqEntry) /\ Len(dlq) \in Nat
  BY DEF TypeInv, TypeOK
<1>2. ASSUME NEW x, x.status = "failed", dlq' = Append(dlq, x) PROVE FALSE
  BY <1>1, <1>2
<1>3. dlq' # dlq
  OBVIOUS
<1>4. \A r \in Handlers : ~EnqueueMail(r) /\ ~EnqueueEvent(r)
  BY <1>2, <1>3 DEF EnqueueMail, EnqueueEvent
<1>5. PICK r \in Handlers : Resolve(r)
  BY <1>3, <1>4 DEF Next, Step, vars, Pay, Refund, Deliver, DeliverGarbage, Retry, ReadEntry,
     FindOrder, InsertTx, InsertFails, SendMail, RevokeTx, CountRetry, AnswerOk, Abort
<1>6. req[r].at = "resolve" /\ Carries(r) /\ req[r].entry \in 1..Len(dlq)
  BY <1>5 DEF Resolve, TypeInv, TypeOK, Carries
<1>7. dlq[req[r].entry] \in DlqEntry
  BY <1>1, <1>6
<1>8. dlq' = [dlq EXCEPT ![req[r].entry] = [dlq[req[r].entry] EXCEPT !.status = "resolved"]]
  BY <1>5 DEF Resolve
<1>9. i \in 1..Len(dlq) /\ (i # req[r].entry => dlq'[i] = dlq[i])
  BY <1>1, <1>6, <1>8
<1>10. i = req[r].entry /\ dlq'[i].event = dlq[i].event
  <2>1. i = req[r].entry
    BY <1>9
  <2>2. dlq'[i] = [dlq[i] EXCEPT !.status = "resolved"]
    BY <1>1, <1>6, <1>8, <2>1
  <2> QED BY <1>7, <2>1, <2>2 DEF DlqEntry
<1> QED BY <1>6, <1>10 DEF Carries

(* A handler reaches its answer, or its entry, only with a licence stored. *)
LEMMA StoredStep == TypeInv /\ MailInv /\ StoredInv /\ [Next]_vars => StoredInv'
<1> SUFFICES ASSUME TypeInv, MailInv, StoredInv, [Next]_vars PROVE StoredInv'
  OBVIOUS
<1>1. ASSUME NEW o \in Orders, OfOrder(o) # {} PROVE OfOrder(o)' # {}
  BY <1>1, LicensesKept DEF OfOrder
<1>2. ASSUME NEW h \in Handlers, NEW o \in Orders,
             req'[h].at \in {"answer", "resolve"}, req'[h].event = CreatedOf(o)
      PROVE  OfOrder(o)' # {}
  <2>1. CASE req'[h] = req[h]
    BY <1>1, <1>2, <2>1 DEF StoredInv
  <2>2. req'[h].event # None
    <3>1. CreatedOf(o) \in Event
      BY DEF CreatedOf, Event
    <3> QED BY <1>2, <3>1, NoneAssumption
  <2>3. CASE req'[h].event = req[h].event
    <3>1. CreatedOf(o).order = o /\ CreatedOf(o).name # "order_refunded"
      BY DEF CreatedOf
    <3>2. CASE FindOrder(h) /\ OfOrder(req[h].event.order) # {}
      BY <1>1, <1>2, <2>3, <3>1, <3>2
    <3>3. CASE SendMail(h) \/ EnqueueMail(h)
      <4>1. req[h].at \in {"mail", "enqueue_mail"} /\ req[h].event.order = o
        BY <1>2, <2>3, <3>1, <3>3 DEF SendMail, EnqueueMail
      <4>2. PICK l \in licenses : l.order = o
        BY <4>1 DEF MailInv
      <4>3. l \in OfOrder(o)
        BY <4>2 DEF OfOrder
      <4> QED BY <1>1, <4>3
    <3>4. CASE RevokeTx(h)
      BY <1>2, <2>3, <3>1, <3>4 DEF RevokeTx, TypeInv, Carries
    <3> QED BY <1>2, <2>1, <2>2, <2>3, <3>2, <3>3, <3>4, Moves DEF Moved
  <2>4. req'[h] # [req[h] EXCEPT !.at = "enqueue_mail"]
    BY <1>2 DEF TypeInv, TypeOK
  <2> QED BY <1>2, <2>1, <2>2, <2>3, <2>4, Moves DEF Moved
<1>3. ASSUME NEW e \in acked', e \notin acked
      PROVE  \E r \in Handlers : req[r].at = "answer" /\ req[r].event = e
  BY <1>3 DEF Next, Step, vars, Pay, Refund, Deliver, DeliverGarbage, Retry, ReadEntry, FindOrder,
     InsertTx, InsertFails, SendMail, RevokeTx, EnqueueMail, EnqueueEvent, Resolve, CountRetry,
     AnswerOk, Abort
<1>4. ASSUME NEW e \in ResolvedEvents', e \notin ResolvedEvents
      PROVE  \E r \in Handlers : req[r].at = "resolve" /\ req[r].event = e
  <2>1. PICK i \in 1..Len(dlq') : dlq'[i].status = "resolved" /\ dlq'[i].event = e
    BY <1>4 DEF ResolvedEvents
  <2>2. ~(i \in 1..Len(dlq) /\ dlq[i].status = "resolved" /\ dlq[i].event = e)
    BY <1>4 DEF ResolvedEvents
  <2>3. dlq' # dlq
    BY <2>1, <2>2
  <2> QED BY <2>1, <2>2, <2>3, NewlyResolved
<1>5. SuccessMeansStored'
  BY <1>1, <1>3, <1>4 DEF StoredInv, SuccessMeansStored, CreatedOf
<1> QED BY <1>2, <1>5 DEF StoredInv

(* Nothing was answered at first. *)
LEMMA StoredInit == Init => StoredInv
BY DEF Init, StoredInv, SuccessMeansStored, ResolvedEvents, Idle

(* The server never reports success for an order it has no licence for, neither
   to the store nor in its queue. *)
THEOREM SuccessIsStored == Spec => []SuccessMeansStored
<1>1. Spec => [](TypeInv /\ MailInv)
  BY TypeInit, TypeStep, MailInit, MailStep, PTL DEF Spec
<1>2. Spec => []StoredInv
  BY <1>1, StoredInit, StoredStep, PTL DEF Spec
<1> QED BY <1>2, PTL DEF StoredInv

-----------------------------------------------------------------------------
(* The mail of a key is sent, lost, queued, or in a handler's hands. *)
MailSeenTo(k) ==
  \/ k \in mailbox \cup dropped
  \/ \E i \in 1..Len(dlq) : dlq[i].mail = k
  \/ \E r \in Handlers : req[r].key = k /\ req[r].at \in {"mail", "enqueue_mail"}

(* What the queue holds, it keeps. *)
LEMMA MailsKept ==
  ASSUME TypeInv, [Next]_vars, NEW i \in 1..Len(dlq)
  PROVE  i \in 1..Len(dlq') /\ dlq'[i].mail = dlq[i].mail
<1>1. dlq \in Seq(DlqEntry) /\ Len(dlq) \in Nat /\ dlq[i] \in DlqEntry
  BY DEF TypeInv, TypeOK
<1>2. CASE dlq' = dlq
  BY <1>2
<1>3. ASSUME NEW x, dlq' = Append(dlq, x) PROVE i \in 1..Len(dlq') /\ dlq'[i] = dlq[i]
  BY <1>1, <1>3
<1>4. ASSUME NEW r \in Handlers, Resolve(r)
      PROVE  i \in 1..Len(dlq') /\ dlq'[i].mail = dlq[i].mail
  <2>1. dlq' = [dlq EXCEPT ![req[r].entry] = [dlq[req[r].entry] EXCEPT !.status = "resolved"]]
    BY <1>4 DEF Resolve
  <2>2. i \in 1..Len(dlq') /\ (dlq'[i] = dlq[i] \/ dlq'[i] = [dlq[i] EXCEPT !.status = "resolved"])
    BY <1>1, <2>1
  <2> QED BY <1>1, <2>2 DEF DlqEntry
<1>5. (\A r \in Handlers : ~Resolve(r)) => dlq' = dlq \/ \E x : dlq' = Append(dlq, x)
  BY DEF Next, Step, vars, Pay, Refund, Deliver, DeliverGarbage, Retry, ReadEntry, FindOrder,
     InsertTx, InsertFails, SendMail, RevokeTx, EnqueueMail, EnqueueEvent, CountRetry, AnswerOk,
     Abort
<1> QED BY <1>2, <1>3, <1>4, <1>5

(* A handler's step leaves the others where they are. *)
LEMMA OneMoves ==
  ASSUME TypeInv, NEW h \in Handlers, NEW r \in Handlers, h # r,
         \/ Step(h) \/ Abort(h)
         \/ \E event \in pending : Deliver(h, event) \/ DeliverGarbage(h, event)
         \/ \E i \in 1..Len(dlq) : Retry(h, i)
  PROVE  req'[r] = req[r]
<1> USE DEF TypeInv, TypeOK
<1>1. CASE InsertTx(h)
  BY <1>1 DEF InsertTx
<1>2. CASE ReadEntry(h)
  BY <1>2 DEF ReadEntry, Await, Finish
<1>3. CASE FindOrder(h) \/ InsertFails(h) \/ SendMail(h) \/ RevokeTx(h) \/ EnqueueMail(h)
  BY <1>3 DEF FindOrder, InsertFails, SendMail, RevokeTx, EnqueueMail, Processed, Threw, Await
<1>4. CASE EnqueueEvent(h) \/ Resolve(h) \/ CountRetry(h) \/ AnswerOk(h) \/ Abort(h)
  BY <1>4 DEF EnqueueEvent, Resolve, CountRetry, AnswerOk, Abort, Finish
<1>5. CASE \/ \E event \in pending : Deliver(h, event) \/ DeliverGarbage(h, event)
           \/ \E i \in 1..Len(dlq) : Retry(h, i)
  BY <1>5 DEF Deliver, DeliverGarbage, Retry
<1> QED BY <1>1, <1>2, <1>3, <1>4, <1>5 DEF Step

(* A mail that is seen to stays seen to. *)
LEMMA MailSeenToStep ==
  ASSUME TypeInv, [Next]_vars, NEW k \in Keys, MailSeenTo(k)
  PROVE  MailSeenTo(k)'
<1>1. mailbox \cup dropped \subseteq (mailbox \cup dropped)'
  BY DEF Next, Step, vars, Pay, Refund, Deliver, DeliverGarbage, Retry, ReadEntry, FindOrder,
     InsertTx, InsertFails, SendMail, RevokeTx, EnqueueMail, EnqueueEvent, Resolve, CountRetry,
     AnswerOk, Abort
<1>2. CASE k \in mailbox \cup dropped
  BY <1>1, <1>2 DEF MailSeenTo
<1>3. CASE \E i \in 1..Len(dlq) : dlq[i].mail = k
  BY <1>3, MailsKept DEF MailSeenTo
<1>4. ASSUME NEW r \in Handlers, req[r].key = k, req[r].at \in {"mail", "enqueue_mail"}
      PROVE  MailSeenTo(k)'
  <2>1. CASE req'[r] = req[r]
    BY <1>4, <2>1 DEF MailSeenTo
  <2>2. CASE SendMail(r)
    <3>1. CASE Await(r, "enqueue_mail")
      BY <1>4, <3>1 DEF Await, MailSeenTo, TypeInv, TypeOK
    <3> QED BY <1>4, <2>2, <3>1 DEF SendMail, MailSeenTo
  <2>3. CASE EnqueueMail(r)
    <3>1. CASE dropped' = dropped \cup {req[r].key}
      BY <1>4, <3>1 DEF MailSeenTo
    <3>2. CASE dlq' = Append(dlq, [event |-> None, mail |-> req[r].key, status |-> "failed"])
      <4>1. dlq \in Seq(DlqEntry) /\ Len(dlq) \in Nat
        BY DEF TypeInv, TypeOK
      <4>2. Len(dlq') = Len(dlq) + 1 /\ dlq'[Len(dlq) + 1].mail = k
        BY <1>4, <3>2, <4>1
      <4>3. Len(dlq) + 1 \in 1..Len(dlq')
        BY <4>1, <4>2
      <4> QED BY <4>2, <4>3 DEF MailSeenTo
    <3> QED BY <2>3, <3>1, <3>2 DEF EnqueueMail
  <2>4. CASE Abort(r)
    BY <1>4, <2>4 DEF Abort, MailSeenTo
  <2>5. req[r] # Idle
    BY <1>4 DEF Idle
  <2>6. ASSUME NEW h \in Handlers,
               \/ Step(h) \/ Abort(h)
               \/ \E event \in pending : Deliver(h, event) \/ DeliverGarbage(h, event)
               \/ \E i \in 1..Len(dlq) : Retry(h, i)
        PROVE  h = r => SendMail(r) \/ EnqueueMail(r) \/ Abort(r)
    <3>1. ASSUME h = r PROVE ~ReadEntry(h) /\ ~FindOrder(h) /\ ~InsertTx(h) /\ ~InsertFails(h)
      BY <1>4, <3>1 DEF ReadEntry, FindOrder, InsertTx, InsertFails
    <3>2. ASSUME h = r PROVE ~RevokeTx(h) /\ ~EnqueueEvent(h) /\ ~Resolve(h) /\ ~CountRetry(h)
                             /\ ~AnswerOk(h)
      BY <1>4, <3>2 DEF RevokeTx, EnqueueEvent, Resolve, CountRetry, AnswerOk
    <3>3. ASSUME h = r PROVE (\A event : ~Deliver(h, event) /\ ~DeliverGarbage(h, event))
                             /\ (\A i : ~Retry(h, i))
      BY <2>5, <3>3 DEF Deliver, DeliverGarbage, Retry
    <3> QED BY <2>6, <3>1, <3>2, <3>3 DEF Step
  <2>7. ASSUME NEW h \in Handlers, h # r,
               \/ Step(h) \/ Abort(h)
               \/ \E event \in pending : Deliver(h, event) \/ DeliverGarbage(h, event)
               \/ \E i \in 1..Len(dlq) : Retry(h, i)
        PROVE  req'[r] = req[r]
    BY <2>7, OneMoves
  <2>8. UNCHANGED vars \/ (\E o \in Orders : Pay(o) \/ Refund(o)) => req' = req
    BY DEF vars, Pay, Refund
  <2> QED BY <2>1, <2>2, <2>3, <2>4, <2>6, <2>7, <2>8 DEF Next
<1> QED BY <1>2, <1>3, <1>4 DEF MailSeenTo

(* A new licence is its handler's to mail. *)
LEMMA LicenseOrigin ==
  ASSUME TypeInv, [Next]_vars, NEW m \in licenses'
  PROVE  \/ \E l \in licenses : l.key = m.key /\ l.order = m.order
         \/ \E r \in Handlers : InsertTx(r) /\ req'[r].key = m.key /\ req'[r].at = "mail"
<1>1. ASSUME NEW r \in Handlers, InsertTx(r)
      PROVE  m \in licenses \/ (req'[r].key = m.key /\ req'[r].at = "mail")
  BY <1>1 DEF InsertTx, TypeInv, TypeOK
<1>2. ASSUME NEW r \in Handlers, RevokeTx(r)
      PROVE  \E l \in licenses : l.key = m.key /\ l.order = m.order
  <2>1. PICK l \in licenses : m = l \/ m = [l EXCEPT !.revoked = @ \/ l.order = req[r].event.order]
    BY <1>2 DEF RevokeTx
  <2>2. l \in [key : Keys, order : Orders, revoked : BOOLEAN]
    BY DEF TypeInv, TypeOK
  <2> QED BY <2>1, <2>2, RevokedRow
<1>3. (\A r \in Handlers : ~InsertTx(r) /\ ~RevokeTx(r)) => m \in licenses
  BY DEF Next, Step, vars, Pay, Refund, Deliver, DeliverGarbage, Retry, ReadEntry, FindOrder,
     InsertFails, SendMail, EnqueueMail, EnqueueEvent, Resolve, CountRetry, AnswerOk, Abort
<1> QED BY <1>1, <1>2, <1>3

(* The mail of a stored licence is lost only by a crash before the mail is dealt
   with or by a queue that cannot be written. *)
THEOREM MailsAreSeenTo == Spec => []MailSentOrQueued
<1>1. Init => MailSentOrQueued
  BY DEF Init, MailSentOrQueued
<1>2. TypeInv /\ MailSentOrQueued /\ [Next]_vars => MailSentOrQueued'
  <2> SUFFICES ASSUME TypeInv, MailSentOrQueued, [Next]_vars, NEW m \in licenses'
               PROVE  MailSeenTo(m.key)'
    BY DEF MailSentOrQueued, MailSeenTo
  <2>1. ASSUME NEW l \in licenses, l.key = m.key PROVE MailSeenTo(m.key)'
    <3>1. l.key \in Keys /\ MailSeenTo(l.key)
      BY DEF MailSentOrQueued, MailSeenTo, TypeInv, TypeOK
    <3>2. MailSeenTo(l.key)'
      BY <3>1, MailSeenToStep
    <3> QED BY <2>1, <3>2 DEF MailSeenTo
  <2>2. ASSUME NEW r \in Handlers, req'[r].key = m.key, req'[r].at = "mail"
        PROVE  MailSeenTo(m.key)'
    BY <2>2 DEF MailSeenTo
  <2> QED BY <2>1, <2>2, LicenseOrigin
<1> QED BY <1>1, <1>2, TypeInit, TypeStep, PTL DEF Spec

-----------------------------------------------------------------------------
(* An order's licences and the handlers about to insert another are together no
   more than the handlers: those come from a check that found no licence. *)
Inserting(o) == {r \in Handlers : req[r].at = "insert_tx" /\ req[r].event.order = o}

OrderBound(o) == Cardinality(OfOrder(o)) + Cardinality(Inserting(o)) <= Cardinality(Handlers)

OrderInv == IsFiniteSet(licenses) /\ \A o \in Orders : OrderBound(o)

(* The sets that are counted are finite. *)
LEMMA Sizes ==
  ASSUME IsFiniteSet(licenses), NEW o
  PROVE  /\ IsFiniteSet(OfOrder(o)) /\ Cardinality(OfOrder(o)) \in Nat
         /\ IsFiniteSet(Inserting(o)) /\ Cardinality(Inserting(o)) \in Nat
         /\ Cardinality(Inserting(o)) <= Cardinality(Handlers)
         /\ IsFiniteSet(Handlers) /\ Cardinality(Handlers) \in Nat
<1>1. OfOrder(o) \in SUBSET licenses /\ Inserting(o) \in SUBSET Handlers
  BY DEF OfOrder, Inserting
<1> QED BY <1>1, FiniteAssumption, FS_Subset, FS_CardinalityType

(* Revoking licences makes no more of them. *)
LEMMA RevokeKeepsCount ==
  ASSUME TypeInv, OrderInv, NEW r \in Handlers, RevokeTx(r), NEW o
  PROVE  /\ IsFiniteSet(licenses') /\ IsFiniteSet(OfOrder(o)')
         /\ Cardinality(OfOrder(o)') <= Cardinality(OfOrder(o))
<1>1. CASE licenses' = licenses
  <2>1. OfOrder(o)' = OfOrder(o)
    BY <1>1 DEF OfOrder
  <2>2. IsFiniteSet(OfOrder(o)) /\ Cardinality(OfOrder(o)) \in Nat
    BY Sizes DEF OrderInv
  <2> QED BY <1>1, <2>1, <2>2 DEF OrderInv
<1>2. CASE licenses' = {[l EXCEPT !.revoked = @ \/ l.order = req[r].event.order] : l \in licenses}
  <2> DEFINE f == [l \in licenses |-> [l EXCEPT !.revoked = @ \/ l.order = req[r].event.order]]
             g == [l \in OfOrder(o) |-> [l EXCEPT !.revoked = @ \/ l.order = req[r].event.order]]
  <2>1. f \in Surjection(licenses, licenses')
    BY <1>2 DEF Surjection
  <2>2. IsFiniteSet(licenses')
    <3> HIDE DEF f
    <3> QED BY <2>1, FS_Surjection DEF OrderInv
  <2>3. \A l \in licenses : f[l].order = l.order
    <3> SUFFICES ASSUME NEW l \in licenses PROVE f[l].order = l.order
      OBVIOUS
    <3>1. l \in [key : Keys, order : Orders, revoked : BOOLEAN]
      BY DEF TypeInv, TypeOK
    <3> QED BY <3>1, RevokedRow
  <2>4. \A l \in OfOrder(o) : l \in licenses /\ l.order = o /\ g[l] = f[l]
    BY DEF OfOrder
  <2>5. licenses' = {f[l] : l \in licenses} /\ DOMAIN g = OfOrder(o)
    BY <1>2
  <2> HIDE DEF f, g
  <2>6. \A m \in OfOrder(o)' : \E l \in OfOrder(o) : m = g[l]
    BY <2>3, <2>4, <2>5 DEF OfOrder
  <2>7. \A l \in OfOrder(o) : g[l] \in OfOrder(o)'
    BY <2>3, <2>4, <2>5 DEF OfOrder
  <2>8. g \in Surjection(OfOrder(o), OfOrder(o)')
    <3>1. g \in [OfOrder(o) -> OfOrder(o)']
      <4>1. g = [l \in OfOrder(o) |-> g[l]]
        BY DEF g
      <4> QED BY <2>7, <4>1
    <3> QED BY <2>6, <3>1 DEF Surjection
  <2>9. IsFiniteSet(OfOrder(o))
    BY Sizes DEF OrderInv
  <2> QED BY <2>2, <2>8, <2>9, FS_Surjection
<1> QED BY <1>1, <1>2 DEF RevokeTx

(* Only the check for a duplicate sends a handler to insert. *)
LEMMA InsertingFrom ==
  ASSUME TypeInv, [Next]_vars, NEW o,
         \A r \in Handlers : FindOrder(r) /\ req[r].event.order = o => OfOrder(o) # {}
  PROVE  Inserting(o)' \in SUBSET Inserting(o)
<1> SUFFICES ASSUME NEW r \in Handlers, req'[r].at = "insert_tx", req'[r].event.order = o
             PROVE  req[r].at = "insert_tx" /\ req[r].event.order = o
  BY DEF Inserting
<1>1. req'[r] # [req[r] EXCEPT !.at = "enqueue_mail"]
  BY DEF TypeInv, TypeOK
<1> QED BY <1>1, Moves DEF Moved

(* A step that adds neither a licence nor a handler about to insert one keeps
   the bound. *)
LEMMA Shrunk ==
  ASSUME OrderInv, NEW o \in Orders, Inserting(o)' \in SUBSET Inserting(o),
         IsFiniteSet(OfOrder(o)'), Cardinality(OfOrder(o)') <= Cardinality(OfOrder(o))
  PROVE  OrderBound(o)'
<1>1. Cardinality(Inserting(o)') <= Cardinality(Inserting(o)) /\ IsFiniteSet(Inserting(o)')
  BY Sizes, FS_Subset DEF OrderInv
<1>2. Cardinality(Inserting(o)') \in Nat /\ Cardinality(OfOrder(o)') \in Nat
  BY <1>1, FS_CardinalityType
<1> QED BY <1>1, <1>2, Sizes DEF OrderInv, OrderBound

(* Every step keeps the bound on an order. *)
LEMMA OrderStep == TypeInv /\ OrderInv /\ [Next]_vars => OrderInv'
<1> SUFFICES ASSUME TypeInv, OrderInv, [Next]_vars PROVE OrderInv'
  OBVIOUS
<1>1. ASSUME NEW r \in Handlers, InsertTx(r) PROVE OrderInv'
  <2>1. PICK k \in Keys :
          /\ licenses' = licenses \cup
               {[key |-> k, order |-> req[r].event.order, revoked |-> FALSE]}
          /\ req' = [req EXCEPT ![r].at = "mail", ![r].key = k]
    BY <1>1 DEF InsertTx
  <2> DEFINE n == [key |-> k, order |-> req[r].event.order, revoked |-> FALSE]
  <2>2. n.order = req[r].event.order /\ licenses' = licenses \cup {n}
    BY <2>1
  <2> HIDE DEF n
  <2>3. IsFiniteSet(licenses')
    BY <2>2, FS_AddElement DEF OrderInv
  <2>4. \A h \in Handlers : req'[h] = IF h = r THEN [req[r] EXCEPT !.at = "mail", !.key = k] ELSE req[h]
    BY <2>1 DEF TypeInv, TypeOK
  <2>5. \A h \in Handlers : h # r => req'[h] = req[h]
    BY <2>4
  <2>6. req'[r].at = "mail" /\ req[r].at = "insert_tx"
    BY <1>1, <2>1 DEF InsertTx, TypeInv, TypeOK
  <2>7. ASSUME NEW o \in Orders PROVE OrderBound(o)'
    <3>1. Inserting(o)' = Inserting(o) \ {r}
      BY <2>5, <2>6 DEF Inserting
    <3>2. CASE req[r].event.order = o
      <4>1. OfOrder(o)' = OfOrder(o) \cup {n}
        BY <2>2, <3>2 DEF OfOrder
      <4>2. r \in Inserting(o)
        BY <2>6, <3>2 DEF Inserting
      <4>3. Cardinality(Inserting(o)') = Cardinality(Inserting(o)) - 1
        BY <3>1, <4>2, Sizes, FS_RemoveElement DEF OrderInv
      <4>4. \/ Cardinality(OfOrder(o)') = Cardinality(OfOrder(o))
            \/ Cardinality(OfOrder(o)') = Cardinality(OfOrder(o)) + 1
        BY <4>1, Sizes, FS_AddElement DEF OrderInv
      <4> QED BY <4>3, <4>4, Sizes DEF OrderInv, OrderBound
    <3>3. CASE req[r].event.order # o
      <4>1. OfOrder(o)' = OfOrder(o) /\ Inserting(o)' = Inserting(o)
        BY <2>2, <3>1, <3>3 DEF OfOrder, Inserting
      <4> QED BY <4>1 DEF OrderInv, OrderBound
    <3> QED BY <3>2, <3>3
  <2> QED BY <2>3, <2>7 DEF OrderInv
<1>2. ASSUME NEW r \in Handlers, RevokeTx(r) PROVE OrderInv'
  <2>1. ASSUME NEW o \in Orders PROVE OrderBound(o)'
    <3>1. Inserting(o)' \in SUBSET Inserting(o)
      <4>1. r \notin Inserting(o) /\ r \notin Inserting(o)'
        BY <1>2 DEF RevokeTx, Processed, Threw, Await, Inserting, TypeInv, TypeOK
      <4>2. ASSUME NEW h \in Handlers, h # r PROVE req'[h] = req[h]
        BY <1>2, <4>2, OneMoves DEF Step
      <4> QED BY <4>1, <4>2 DEF Inserting
    <3> QED BY <1>2, <3>1, RevokeKeepsCount, Shrunk
  <2>2. IsFiniteSet(licenses')
    BY <1>2, RevokeKeepsCount
  <2> QED BY <2>1, <2>2 DEF OrderInv
<1>3. ASSUME NEW o \in Orders, licenses' = licenses PROVE OrderBound(o)'
  <2>1. OfOrder(o)' = OfOrder(o)
    BY <1>3 DEF OfOrder
  <2>2. CASE OfOrder(o) = {}
    <3>1. Inserting(o)' \in SUBSET Handlers
      BY DEF Inserting
    <3>2. Cardinality(OfOrder(o)') = 0 /\ Cardinality(Inserting(o)') <= Cardinality(Handlers)
      BY <2>1, <2>2, <3>1, FiniteAssumption, FS_Subset, FS_EmptySet
    <3>3. Cardinality(Inserting(o)') \in Nat /\ Cardinality(Handlers) \in Nat
      BY <3>1, FiniteAssumption, FS_Subset, FS_CardinalityType
    <3> QED BY <3>2, <3>3 DEF OrderBound
  <2>3. CASE OfOrder(o) # {}
    <3>1. Inserting(o)' \in SUBSET Inserting(o)
      BY <2>3, InsertingFrom
    <3>2. IsFiniteSet(OfOrder(o)) /\ Cardinality(OfOrder(o)) \in Nat
      BY Sizes DEF OrderInv
    <3> QED BY <2>1, <3>1, <3>2, Shrunk
  <2> QED BY <2>2, <2>3
<1>4. (\A r \in Handlers : ~InsertTx(r) /\ ~RevokeTx(r)) => licenses' = licenses
  BY DEF Next, Step, vars, Pay, Refund, Deliver, DeliverGarbage, Retry, ReadEntry, FindOrder,
     InsertFails, SendMail, EnqueueMail, EnqueueEvent, Resolve, CountRetry, AnswerOk, Abort
<1> QED BY <1>1, <1>2, <1>3, <1>4 DEF OrderInv

(* No order ever has more licences than the server has handlers: what comes after
   the first one is stored adds none. *)
THEOREM Duplicates == Spec => []DuplicatesBounded
<1>1. Init => OrderInv
  <2> SUFFICES ASSUME Init PROVE OrderInv
    OBVIOUS
  <2>1. licenses = {} /\ \A o \in Orders : OfOrder(o) = {} /\ Inserting(o) = {}
    BY DEF Init, OfOrder, Inserting, Idle
  <2>2. IsFiniteSet(licenses) /\ Cardinality({}) = 0 /\ Cardinality(Handlers) \in Nat
    BY <2>1, FS_EmptySet, FiniteAssumption, FS_CardinalityType
  <2> QED BY <2>1, <2>2 DEF OrderInv, OrderBound
<1>2. OrderInv => DuplicatesBounded
  BY Sizes DEF OrderInv, OrderBound, DuplicatesBounded
<1>3. Spec => []OrderInv
  BY <1>1, OrderStep, TypeInit, TypeStep, PTL DEF Spec
<1> QED BY <1>2, <1>3, PTL

=============================================================================
