------------------------------ MODULE Webhook ------------------------------
(***************************************************************************)
(* The payment webhook of the licence server (server/src/routes/webhook.ts)*)
(* with its dead-letter queue.                                             *)
(*                                                                         *)
(* The store delivers an event again until it is answered with success, so *)
(* the same event may be in several handlers at once.  As everywhere in    *)
(* the server, a handler lets others run at every await: a step is one SQL *)
(* statement, transaction or e-mail, with the code up to the next await.   *)
(***************************************************************************)
EXTENDS Integers, Sequences, FiniteSets

CONSTANTS
  Handlers,     \* the requests the server works on at the same time
  Orders,       \* the store's orders
  Malformed,    \* those whose order_created event lacks a required field
  Keys,         \* the licence keys that may be generated: the bound on licences
  MaxDlq,       \* bound on the entries of the dead-letter queue
  None

ASSUME OrdersAssumption == Malformed \subseteq Orders
ASSUME FiniteAssumption == IsFiniteSet(Handlers) /\ IsFiniteSet(Keys)
ASSUME DlqAssumption == MaxDlq \in Nat
(* order_refunded stands for all three events that revoke. *)
Event == [name : {"order_created", "order_refunded"}, order : Orders]

ASSUME NoneAssumption == None \notin Orders \cup Keys \cup Event

(* What the queue keeps: a failed event, a body that was no JSON, or an
   e-mail that could not be sent (event_name order_email_delivery_failed). *)
DlqEntry ==
  [event : Event \cup {None}, mail : Keys \cup {None}, status : {"failed", "resolved"}]

VARIABLES
  paid, refunded,   \* what happened in the store
  pending,          \* the events the store has not seen answered with success
  licenses,         \* table licenses: [key, order, revoked]
  dlq,              \* table webhook_dlq, by id
  mailbox,          \* the keys that reached their buyer
  req,              \* the handlers
  acked,            \* history: the events answered with success
  dropped           \* history: the keys whose mail a crash or a failing queue dropped

store == <<paid, refunded, pending>>
vars == <<store, licenses, dlq, mailbox, req, acked, dropped>>

(* entry: the DLQ entry being retried, or 0 for a delivery. *)
Idle == [at |-> "idle", event |-> None, entry |-> 0, key |-> None]

OfOrder(o) == {l \in licenses : l.order = o}

-----------------------------------------------------------------------------
(* The store. *)

Pay(o) ==
  /\ o \notin paid
  /\ paid' = paid \cup {o}
  /\ pending' = pending \cup {[name |-> "order_created", order |-> o]}
  /\ UNCHANGED <<refunded, licenses, dlq, mailbox, req, acked, dropped>>

Refund(o) ==
  /\ o \in paid \ refunded
  /\ refunded' = refunded \cup {o}
  /\ pending' = pending \cup {[name |-> "order_refunded", order |-> o]}
  /\ UNCHANGED <<paid, licenses, dlq, mailbox, req, acked, dropped>>

-----------------------------------------------------------------------------
(* Handlers. *)

Await(r, point) == req' = [req EXCEPT ![r].at = point]
Finish(r) == req' = [req EXCEPT ![r] = Idle]

(* processWebhookPayload up to its first await; an order_created without
   its fields throws at once. *)
FirstAwait(event, entry) ==
  IF event.name = "order_refunded" THEN "revoke_tx"
  ELSE IF event.order \notin Malformed THEN "find_order"
  ELSE IF entry = 0 THEN "enqueue_event" ELSE "count_retry"

Deliver(r, event) ==
  /\ req[r] = Idle
  /\ event \in pending
  /\ req' = [req EXCEPT ![r] = [at |-> FirstAwait(event, 0), event |-> event,
                                entry |-> 0, key |-> None]]
  /\ UNCHANGED <<store, licenses, dlq, mailbox, acked, dropped>>

(* A delivery whose body does not parse is queued and answered 400. *)
DeliverGarbage(r, event) ==
  /\ req[r] = Idle
  /\ event \in pending
  /\ req' = [req EXCEPT ![r] = [Idle EXCEPT !.at = "enqueue_event"]]
  /\ UNCHANGED <<store, licenses, dlq, mailbox, acked, dropped>>

(* retryWebhookDlqEntry, whatever the entry's status. *)
Retry(r, i) ==
  /\ req[r] = Idle
  /\ req' = [req EXCEPT ![r] = [Idle EXCEPT !.at = "read_entry", !.entry = i]]
  /\ UNCHANGED <<store, licenses, dlq, mailbox, acked, dropped>>

(* An entry with no parsable payload is refused; a mail entry is an event
   that processWebhookPayload ignores. *)
ReadEntry(r) ==
  LET e == dlq[req[r].entry]
  IN  /\ req[r].at = "read_entry"
      /\ IF e.mail # None THEN Await(r, "resolve")
         ELSE IF e.event = None THEN Finish(r)
         ELSE req' = [req EXCEPT ![r].at = FirstAwait(e.event, req[r].entry),
                                 ![r].event = e.event]
      /\ UNCHANGED <<store, licenses, dlq, mailbox, acked, dropped>>

(* What processing leads to when it returns, and when it throws. *)
Processed(r) == Await(r, IF req[r].entry = 0 THEN "answer" ELSE "resolve")
Threw(r) == Await(r, IF req[r].entry = 0 THEN "enqueue_event" ELSE "count_retry")

(* Mutant: no check for a duplicate order. *)
FindOrderUnchecked(r) ==
  /\ req[r].at = "find_order"
  /\ Await(r, "insert_tx") \/ Threw(r)
  /\ UNCHANGED <<store, licenses, dlq, mailbox, acked, dropped>>

(* The check for a duplicate order. *)
FindOrder(r) ==
  /\ req[r].at = "find_order"
  /\ \/ IF OfOrder(req[r].event.order) # {} THEN Processed(r) ELSE Await(r, "insert_tx")
     \/ Threw(r)
  /\ UNCHANGED <<store, licenses, dlq, mailbox, acked, dropped>>

(* Mutant: the transaction is never committed. *)
InsertUncommitted(r) ==
  /\ req[r].at = "insert_tx"
  /\ \E k \in Keys \ {l.key : l \in licenses} :
       req' = [req EXCEPT ![r].at = "mail", ![r].key = k]
  /\ UNCHANGED <<store, licenses, dlq, mailbox, acked, dropped>>

(* Mutant: INSERT OR REPLACE, on the order. *)
InsertReplacesOrder(r) ==
  /\ req[r].at = "insert_tx"
  /\ \E k \in Keys \ {l.key : l \in licenses} :
       /\ licenses' = (licenses \ OfOrder(req[r].event.order)) \cup
            {[key |-> k, order |-> req[r].event.order, revoked |-> FALSE]}
       /\ req' = [req EXCEPT ![r].at = "mail", ![r].key = k]
  /\ UNCHANGED <<store, dlq, mailbox, acked, dropped>>

InsertTx(r) ==
  /\ req[r].at = "insert_tx"
  /\ \E k \in Keys \ {l.key : l \in licenses} :
       /\ licenses' = licenses \cup
            {[key |-> k, order |-> req[r].event.order, revoked |-> FALSE]}
       /\ req' = [req EXCEPT ![r].at = "mail", ![r].key = k]
  /\ UNCHANGED <<store, dlq, mailbox, acked, dropped>>

(* Mutant: the error of the transaction is caught and forgotten. *)
InsertFailsUnnoticed(r) ==
  /\ req[r].at = "insert_tx"
  /\ Processed(r)
  /\ UNCHANGED <<store, licenses, dlq, mailbox, acked, dropped>>

InsertFails(r) ==
  /\ req[r].at = "insert_tx"
  /\ Threw(r)
  /\ UNCHANGED <<store, licenses, dlq, mailbox, acked, dropped>>

(* Mutant: a failed mail is only logged. *)
SendMailUnqueued(r) ==
  /\ req[r].at = "mail"
  /\ Processed(r)
  /\ mailbox' \in {mailbox, mailbox \cup {req[r].key}}
  /\ UNCHANGED <<store, licenses, dlq, acked, dropped>>

SendMail(r) ==
  /\ req[r].at = "mail"
  /\ \/ Processed(r) /\ mailbox' = mailbox \cup {req[r].key}
     \/ Await(r, "enqueue_mail") /\ UNCHANGED mailbox
  /\ UNCHANGED <<store, licenses, dlq, acked, dropped>>

RevokeTx(r) ==
  /\ req[r].at = "revoke_tx"
  /\ \/ /\ licenses' = {[l EXCEPT !.revoked = @ \/ l.order = req[r].event.order] : l \in licenses}
        /\ Processed(r)
     \/ Threw(r) /\ UNCHANGED licenses
  /\ UNCHANGED <<store, dlq, mailbox, acked, dropped>>

-----------------------------------------------------------------------------
(* enqueueWebhookDlq: it swallows its own errors. *)

EnqueueMail(r) ==
  /\ req[r].at = "enqueue_mail"
  /\ \/ /\ Len(dlq) < MaxDlq
        /\ dlq' = Append(dlq, [event |-> None, mail |-> req[r].key, status |-> "failed"])
        /\ UNCHANGED dropped
     \/ dropped' = dropped \cup {req[r].key} /\ UNCHANGED dlq
  /\ Processed(r)
  /\ UNCHANGED <<store, licenses, mailbox, acked>>

(* ... then the answer is an error, and the store delivers again. *)
EnqueueEvent(r) ==
  /\ req[r].at = "enqueue_event"
  /\ \/ /\ Len(dlq) < MaxDlq
        /\ dlq' = Append(dlq, [event |-> req[r].event, mail |-> None, status |-> "failed"])
     \/ UNCHANGED dlq
  /\ Finish(r)
  /\ UNCHANGED <<store, licenses, mailbox, acked, dropped>>

Resolve(r) ==
  /\ req[r].at = "resolve"
  /\ dlq' = [dlq EXCEPT ![req[r].entry].status = "resolved"]
  /\ Finish(r)
  /\ UNCHANGED <<store, licenses, mailbox, acked, dropped>>

(* retry_count and error_message only: the status stays. *)
CountRetry(r) ==
  /\ req[r].at = "count_retry"
  /\ Finish(r)
  /\ UNCHANGED <<store, licenses, dlq, mailbox, acked, dropped>>

(* The answer may be lost on the way: the store then delivers again. *)
AnswerOk(r) ==
  /\ req[r].at = "answer"
  /\ acked' = acked \cup {req[r].event}
  /\ pending' \in {pending, pending \ {req[r].event}}
  /\ Finish(r)
  /\ UNCHANGED <<paid, refunded, licenses, dlq, mailbox, dropped>>

(* The process dies; or a statement outside the try blocks throws. *)
Abort(r) ==
  /\ req[r] # Idle
  /\ Finish(r)
  /\ dropped' = IF req[r].at \in {"mail", "enqueue_mail"}
                THEN dropped \cup {req[r].key} ELSE dropped
  /\ UNCHANGED <<store, licenses, dlq, mailbox, acked>>

-----------------------------------------------------------------------------
Init ==
  /\ paid = {} /\ refunded = {} /\ pending = {}
  /\ licenses = {} /\ dlq = <<>> /\ mailbox = {}
  /\ req = [r \in Handlers |-> Idle]
  /\ acked = {} /\ dropped = {}

Step(r) ==
  \/ ReadEntry(r) \/ FindOrder(r) \/ InsertTx(r) \/ InsertFails(r) \/ SendMail(r)
  \/ RevokeTx(r) \/ EnqueueMail(r) \/ EnqueueEvent(r) \/ Resolve(r) \/ CountRetry(r)
  \/ AnswerOk(r)

Next ==
  \/ \E o \in Orders : Pay(o) \/ Refund(o)
  \/ \E r \in Handlers :
       \/ Step(r)
       \/ Abort(r)
       \/ \E event \in pending : Deliver(r, event) \/ DeliverGarbage(r, event)
       \/ \E i \in 1..Len(dlq) : Retry(r, i)

Spec == Init /\ [][Next]_vars

-----------------------------------------------------------------------------
(* Properties. *)

Points == {"idle", "read_entry", "find_order", "insert_tx", "mail", "enqueue_mail",
           "revoke_tx", "enqueue_event", "resolve", "count_retry", "answer"}

TypeOK ==
  /\ paid \subseteq Orders /\ refunded \subseteq paid
  /\ pending \subseteq Event
  /\ licenses \subseteq [key : Keys, order : Orders, revoked : BOOLEAN]
  /\ dlq \in Seq(DlqEntry) /\ Len(dlq) <= MaxDlq
  /\ mailbox \subseteq Keys
  /\ req \in [Handlers -> [at : Points, event : Event \cup {None}, entry : 0..MaxDlq,
                           key : Keys \cup {None}]]
  /\ acked \subseteq Event
  /\ dropped \subseteq Keys

(* The duplicate check and the INSERT are separate: handlers in flight with the
   same order may each create a licence, but no delivery or retry that comes
   after the first licence is stored ever adds another. *)
DuplicatesBounded == \A o \in Orders : Cardinality(OfOrder(o)) <= Cardinality(Handlers)

ResolvedEvents == {dlq[i].event : i \in {j \in 1..Len(dlq) : dlq[j].status = "resolved"}}

(* An order answered with success, or resolved by a retry of its event, has a
   licence: success is never reported for work that was not done. *)
SuccessMeansStored ==
  \A o \in Orders :
    LET created == [name |-> "order_created", order |-> o]
    IN  (created \in acked \/ created \in ResolvedEvents) => OfOrder(o) # {}

(* A buyer never holds a key that the server does not know. *)
MailedKeysAreStored == mailbox \subseteq {l.key : l \in licenses}

(* A stored licence reaches its buyer, or its mail is in the queue, or a handler
   is about to see to it: only a crash between the transaction and the mail, or a
   queue that cannot be written, drops it. *)
MailSentOrQueued ==
  \A l \in licenses :
    \/ l.key \in mailbox \cup dropped
    \/ \E i \in 1..Len(dlq) : dlq[i].mail = l.key
    \/ \E r \in Handlers : req[r].key = l.key /\ req[r].at \in {"mail", "enqueue_mail"}

(* Nothing the webhook does makes a revoked licence valid again, not even the
   order's events delivered late or retried from the queue. *)
RevokedStaysRevoked ==
  [][\A l \in licenses : l.revoked => l \in licenses']_vars

(* An e-mail the queue calls resolved was sent. *)
ResolvedMailWasSent ==
  \A i \in 1..Len(dlq) :
    dlq[i].mail # None /\ dlq[i].status = "resolved" => dlq[i].mail \in mailbox

=============================================================================
