--------------------------- MODULE LicenseServer ---------------------------
(***************************************************************************)
(* The licence server (server/src): Express handlers over one libSQL       *)
(* database.  Node runs one handler at a time but lets another one in at   *)
(* every await, and every await here is a round trip to the database, so a *)
(* step is one SQL statement, or one withTransaction block, with the code  *)
(* up to the next await.  What a handler read before may be stale by then. *)
(*                                                                         *)
(* Statements name the licence by the text of the request, which activate, *)
(* verify and deactivate do not normalise: a "spelling" is that text, and  *)
(* Canonical is key.trim().toUpperCase().                                  *)
(***************************************************************************)
EXTENDS Integers, FiniteSets

CONSTANTS
  Handlers,         \* the requests the server works on at the same time
  Ops,              \* the endpoints called: a subset of Endpoints
  Keys,             \* the licence keys, as stored
  Spellings,        \* the texts that requests give as a key
  Canonical,        \* [Spellings -> Keys]
  Devices,          \* hashed device identifiers
  Codes,            \* coupon codes
  MaxActivations,   \* [Keys -> Nat]: no endpoint updates max_activations
  Days,             \* what an extension adds to expires_at
  Cooldown,         \* HWID_RESET_COOLDOWN_MS
  MaxTime,          \* bound on the clock and on expires_at
  ForeignKeys,      \* whether the connection enforces them (a PRAGMA, per connection)
  None

Endpoints ==
  {"activate", "verify", "deactivate", "reset_hardware",
   "generate", "revoke", "unrevoke", "extend", "reset_devices", "delete",
   "coupon_generate", "coupon_delete", "coupon_redeem"}

ASSUME OpsAssumption == Ops \subseteq Endpoints
ASSUME SpellingAssumption ==
  /\ Keys \subseteq Spellings
  /\ Canonical \in [Spellings -> Keys]
  /\ \A k \in Keys : Canonical[k] = k
ASSUME HandlersAssumption == IsFiniteSet(Handlers) /\ IsFiniteSet(Devices)
ASSUME LimitAssumption == MaxActivations \in [Keys -> Nat \ {0}]
ASSUME TimeAssumption == Days \in Nat \ {0} /\ Cooldown \in Nat \ {0} /\ MaxTime \in Nat \ {0}
ASSUME ForeignKeysAssumption == ForeignKeys \in BOOLEAN

(* expires = 0: never; reset = 0: last_hwid_reset was never set. *)
License == [expires : 0..MaxTime, revoked : BOOLEAN, reset : 0..MaxTime, lifetime : BOOLEAN]

ASSUME NoneAssumption ==
  /\ None \notin License \cup Spellings \cup Devices \cup Codes
  /\ None \notin Endpoints \cup {"unused", "used"}

VARIABLES
  licenses,     \* table licenses: [Keys -> License or None]
  activations,  \* table activations: its (license_key, device_id) pairs
  coupons,      \* table coupons: [Codes -> "unused", "used" or None]
  now,          \* Date.now()
  req,          \* the handlers: what each was asked, read, and awaits next
  saw,          \* history: what was true of a request at some moment since it arrived
  credits       \* history: how often each coupon was answered with success

tables == <<licenses, activations, coupons>>
vars == <<tables, now, req, saw, credits>>

Idle == [op |-> None, at |-> "idle", key |-> None, dev |-> None, code |-> None,
         until |-> 0]

-----------------------------------------------------------------------------
(* Handlers. *)

Await(r, point) == req' = [req EXCEPT ![r].at = point]
AwaitWith(r, point, until) == req' = [req EXCEPT ![r].at = point, ![r].until = until]
Answer(r) == req' = [req EXCEPT ![r] = Idle]

(* What each endpoint awaits first. *)
FirstAwait ==
  [activate |-> "get_license", verify |-> "get_license", reset_hardware |-> "get_license",
   deactivate |-> "delete_activation", generate |-> "insert_license",
   revoke |-> "set_revoked", unrevoke |-> "set_revoked", extend |-> "read_expiry",
   reset_devices |-> "delete_activations", delete |-> "delete_tx",
   coupon_generate |-> "insert_coupon", coupon_delete |-> "delete_coupon",
   coupon_redeem |-> "read_coupon"]

Arrive(r, op, key, dev, code) ==
  /\ req[r] = Idle
  /\ req' = [req EXCEPT ![r] = [op |-> op, at |-> FirstAwait[op], key |-> key, dev |-> dev,
                                code |-> code, until |-> 0]]
  /\ UNCHANGED <<tables, now, credits>>

(* A statement fails, or the process restarts: the handler is gone. *)
Abort(r) ==
  /\ req[r] # Idle
  /\ Answer(r)
  /\ UNCHANGED <<tables, now, credits>>

Tick == now < MaxTime /\ now' = now + 1 /\ UNCHANGED <<tables, req, credits>>

Rows(spelling) == {a \in activations : a[1] = spelling}
Expired(lic) == lic.expires # 0 /\ now > lic.expires
Cooling(lic) == lic.reset > 0 /\ now - lic.reset < Cooldown
Later(expires) == (IF expires > now THEN expires ELSE now) + Days

(* UPDATE licenses ... WHERE key = ?: no row, no effect. *)
Update(spelling, change(_)) ==
  licenses' = [k \in Keys |-> IF k = spelling /\ licenses[k] # None
                              THEN change(licenses[k]) ELSE licenses[k]]

-----------------------------------------------------------------------------
(* routes/license.ts *)

(* Mutant: a revoked licence is accepted. *)
RefusedUnlessRevoked(op, lic) ==
  IF lic = None THEN TRUE
  ELSE \/ op = "reset_hardware" /\ Cooling(lic)
       \/ op # "reset_hardware" /\ Expired(lic)

(* getLicense, and the checks that activate, verify and reset-hardware make
   on what it returns. *)
Refused(op, lic) ==
  IF lic = None THEN TRUE
  ELSE \/ lic.revoked
       \/ op = "reset_hardware" /\ Cooling(lic)
       \/ op # "reset_hardware" /\ Expired(lic)

GetLicense(r) ==
  /\ req[r].at = "get_license"
  /\ IF Refused(req[r].op, licenses[Canonical[req[r].key]]) THEN Answer(r)
     ELSE Await(r, IF req[r].op = "reset_hardware" THEN "reset_tx" ELSE "find_activation")
  /\ UNCHANGED <<tables, now, credits>>

FindActivation(r) ==
  /\ req[r].at = "find_activation"
  /\ IF <<req[r].key, req[r].dev>> \in activations THEN Await(r, "touch")
     ELSE IF req[r].op = "activate" THEN Await(r, "count")
     ELSE Answer(r)
  /\ UNCHANGED <<tables, now, credits>>

(* UPDATE activations SET last_seen, then the answer success or valid. *)
Touch(r) ==
  /\ req[r].at = "touch"
  /\ Answer(r)
  /\ UNCHANGED <<tables, now, credits>>

(* Mutant: off by one. *)
CountOneTooMany(r) ==
  /\ req[r].at = "count"
  /\ IF Cardinality(Rows(req[r].key)) > MaxActivations[Canonical[req[r].key]]
     THEN Answer(r) ELSE Await(r, "insert")
  /\ UNCHANGED <<tables, now, credits>>

(* getActivationCount against the limit read with the licence. *)
CountActivations(r) ==
  /\ req[r].at = "count"
  /\ IF Cardinality(Rows(req[r].key)) >= MaxActivations[Canonical[req[r].key]]
     THEN Answer(r) ELSE Await(r, "insert")
  /\ UNCHANGED <<tables, now, credits>>

(* A second row for the pair, or a row for no licence, is an error (500). *)
InsertActivation(r) ==
  LET row == <<req[r].key, req[r].dev>>
      orphan == row[1] \notin Keys \/ licenses[row[1]] = None
  IN  /\ req[r].at = "insert"
      /\ activations' = IF ForeignKeys /\ orphan THEN activations ELSE activations \cup {row}
      /\ Answer(r)
      /\ UNCHANGED <<licenses, coupons, now, credits>>

(* deactivate; and the admin's removal of one device. *)
DeleteActivation(r) ==
  /\ req[r].at = "delete_activation"
  /\ activations' = activations \ {<<req[r].key, req[r].dev>>}
  /\ Answer(r)
  /\ UNCHANGED <<licenses, coupons, now, credits>>

(* reset-hardware's transaction, on the normalised key. *)
ResetTx(r) ==
  /\ req[r].at = "reset_tx"
  /\ activations' = activations \ Rows(Canonical[req[r].key])
  /\ Update(Canonical[req[r].key], LAMBDA lic : [lic EXCEPT !.reset = now])
  /\ Answer(r)
  /\ UNCHANGED <<coupons, now, credits>>

-----------------------------------------------------------------------------
(* routes/admin.ts: keys.  A bulk action is a loop of these statements. *)

(* A licence as generate writes it. *)
NewLicenses ==
  {lic \in License : /\ ~lic.revoked /\ lic.reset = 0
                     /\ lic.expires \in {0, now + Days}
                     /\ lic.lifetime => lic.expires = 0}

(* generateKey draws a key that may exist: then the INSERT fails. *)
InsertLicense(r) ==
  /\ req[r].at = "insert_license"
  /\ IF licenses[req[r].key] = None
     THEN \E lic \in NewLicenses : licenses' = [licenses EXCEPT ![req[r].key] = lic]
     ELSE UNCHANGED licenses
  /\ Answer(r)
  /\ UNCHANGED <<activations, coupons, now, credits>>

SetRevoked(r) ==
  /\ req[r].at = "set_revoked"
  /\ Update(req[r].key, LAMBDA lic : [lic EXCEPT !.revoked = (req[r].op = "revoke")])
  /\ Answer(r)
  /\ UNCHANGED <<activations, coupons, now, credits>>

(* extend: newExpiresAt is computed from what was read, before the UPDATE. *)
ReadExpiry(r) ==
  LET lic == IF req[r].key \in Keys THEN licenses[req[r].key] ELSE None
  IN  /\ req[r].at = "read_expiry"
      /\ IF lic = None THEN Answer(r)
         ELSE IF lic.lifetime \/ lic.expires = 0 THEN Answer(r)
         ELSE /\ Later(lic.expires) <= MaxTime
              /\ AwaitWith(r, "write_expiry", Later(lic.expires))
      /\ UNCHANGED <<tables, now, credits>>

(* Mutant: the row is replaced, with is_revoked at its default. *)
WriteExpiryReplacesRow(r) ==
  /\ req[r].at = "write_expiry"
  /\ Update(req[r].key, LAMBDA lic : [lic EXCEPT !.expires = req[r].until, !.revoked = FALSE])
  /\ Answer(r)
  /\ UNCHANGED <<activations, coupons, now, credits>>
WriteExpiry(r) ==
  /\ req[r].at = "write_expiry"
  /\ Update(req[r].key, LAMBDA lic : [lic EXCEPT !.expires = req[r].until])
  /\ Answer(r)
  /\ UNCHANGED <<activations, coupons, now, credits>>

DeleteActivations(r) ==
  /\ req[r].at = "delete_activations"
  /\ activations' = activations \ Rows(req[r].key)
  /\ Answer(r)
  /\ UNCHANGED <<licenses, coupons, now, credits>>

DeleteTx(r) ==
  /\ req[r].at = "delete_tx"
  /\ activations' = activations \ Rows(req[r].key)
  /\ Update(req[r].key, LAMBDA lic : None)
  /\ Answer(r)
  /\ UNCHANGED <<coupons, now, credits>>

-----------------------------------------------------------------------------
(* routes/admin.ts: coupons. *)

InsertCoupon(r) ==
  /\ req[r].at = "insert_coupon"
  /\ IF coupons[req[r].code] = None
     THEN /\ coupons' = [coupons EXCEPT ![req[r].code] = "unused"]
          /\ credits' = [credits EXCEPT ![req[r].code] = 0]
     ELSE UNCHANGED <<coupons, credits>>
  /\ Answer(r)
  /\ UNCHANGED <<licenses, activations, now>>

DeleteCoupon(r) ==
  /\ req[r].at = "delete_coupon"
  /\ coupons' = [coupons EXCEPT ![req[r].code] = None]
  /\ Answer(r)
  /\ UNCHANGED <<licenses, activations, now, credits>>

(* redeem: "1. Check coupon validity". *)
ReadCoupon(r) ==
  /\ req[r].at = "read_coupon"
  /\ IF coupons[req[r].code] = "unused" THEN Await(r, "read_license") ELSE Answer(r)
  /\ UNCHANGED <<tables, now, credits>>

(* "2. Check license exists".  A licence that never expires but is not of
   tier lifetime gets an expiry here. *)
ReadLicense(r) ==
  LET lic == licenses[Canonical[req[r].key]]
  IN  /\ req[r].at = "read_license"
      /\ IF lic = None THEN Answer(r)
         ELSE IF lic.lifetime THEN Answer(r)
         ELSE /\ Later(lic.expires) <= MaxTime
              /\ AwaitWith(r, "redeem_tx", Later(lic.expires))
      /\ UNCHANGED <<tables, now, credits>>

(* Mutant: the coupon is never marked as used. *)
RedeemWithoutMark(r) ==
  /\ req[r].at = "redeem_tx"
  /\ Update(Canonical[req[r].key], LAMBDA lic : [lic EXCEPT !.expires = req[r].until])
  /\ credits' = [credits EXCEPT ![req[r].code] = @ + 1]
  /\ Answer(r)
  /\ UNCHANGED <<activations, coupons, now>>

(* "3. Atomically update license and mark coupon as used". *)
RedeemTx(r) ==
  /\ req[r].at = "redeem_tx"
  /\ Update(Canonical[req[r].key], LAMBDA lic : [lic EXCEPT !.expires = req[r].until])
  /\ coupons' = IF coupons[req[r].code] = None
                THEN coupons ELSE [coupons EXCEPT ![req[r].code] = "used"]
  /\ credits' = [credits EXCEPT ![req[r].code] = @ + 1]
  /\ Answer(r)
  /\ UNCHANGED <<activations, now>>

-----------------------------------------------------------------------------
Init ==
  /\ now = 1
  /\ licenses \in [Keys -> {None} \cup
                     {lic \in License : /\ ~lic.revoked /\ lic.reset = 0
                                        /\ lic.lifetime => lic.expires = 0}]
  /\ activations = {}
  /\ coupons = [c \in Codes |-> None]
  /\ req = [r \in Handlers |-> Idle]
  /\ saw = [r \in Handlers |-> {}]
  /\ credits = [c \in Codes |-> 0]

(* The requests: each endpoint with the parameters it takes. *)
Request(r) ==
  \/ \E op \in Ops \cap {"activate", "verify", "deactivate"}, key \in Spellings, dev \in Devices :
       Arrive(r, op, key, dev, None)
  \/ \E op \in Ops \cap {"reset_hardware", "revoke", "unrevoke", "extend", "reset_devices",
                        "delete"}, key \in Spellings :
       Arrive(r, op, key, None, None)
  \/ \E key \in Keys : "generate" \in Ops /\ Arrive(r, "generate", key, None, None)
  \/ \E key \in Spellings, code \in Codes :
       "coupon_redeem" \in Ops /\ Arrive(r, "coupon_redeem", key, None, code)
  \/ \E op \in Ops \cap {"coupon_generate", "coupon_delete"}, code \in Codes :
       Arrive(r, op, None, None, code)

Step(r) ==
  \/ GetLicense(r) \/ FindActivation(r) \/ Touch(r) \/ CountActivations(r)
  \/ InsertActivation(r) \/ DeleteActivation(r) \/ ResetTx(r)
  \/ InsertLicense(r) \/ SetRevoked(r) \/ ReadExpiry(r) \/ WriteExpiry(r)
  \/ DeleteActivations(r) \/ DeleteTx(r)
  \/ InsertCoupon(r) \/ DeleteCoupon(r) \/ ReadCoupon(r) \/ ReadLicense(r) \/ RedeemTx(r)

(* What is true, in this state, of the device a verify request asks about. *)
Facts(r) ==
  IF req[r].op # "verify" THEN {}
  ELSE LET lic == licenses[Canonical[req[r].key]]
       IN  {f \in {"licensed", "registered"} :
              \/ f = "registered" /\ <<req[r].key, req[r].dev>> \in activations
              \/ f = "licensed" /\ lic # None /\ ~lic.revoked /\ ~Expired(lic)}

Observe ==
  saw' = [r \in Handlers |-> IF req'[r].op = "verify" THEN saw[r] \cup Facts(r)' ELSE {}]

Next ==
  /\ \/ \E r \in Handlers : Request(r) \/ Step(r) \/ Abort(r)
     \/ Tick
  /\ Observe

Spec == Init /\ [][Next]_vars

-----------------------------------------------------------------------------
(* Properties. *)

Points == {"idle", "get_license", "find_activation", "touch", "count", "insert",
           "delete_activation", "reset_tx", "insert_license", "set_revoked", "read_expiry",
           "write_expiry", "delete_activations", "delete_tx", "insert_coupon",
           "delete_coupon", "read_coupon", "read_license", "redeem_tx"}

TypeOK ==
  /\ licenses \in [Keys -> License \cup {None}]
  /\ activations \subseteq Spellings \X Devices
  /\ coupons \in [Codes -> {"unused", "used", None}]
  /\ now \in 1..MaxTime
  /\ req \in [Handlers -> [op : Endpoints \cup {None}, at : Points,
                           key : Spellings \cup {None}, dev : Devices \cup {None},
                           code : Codes \cup {None}, until : 0..MaxTime]]
  /\ saw \in [Handlers -> SUBSET {"licensed", "registered"}]
  /\ credits \in [Codes -> Nat]

(* The devices that hold a slot of key k, however it was spelled. *)
SlotsOf(k) == {a \in activations : Canonical[a[1]] = k}

(* A licence is never active on more devices than it allows. *)
SlotLimit == \A k \in Keys : Cardinality(SlotsOf(k)) <= MaxActivations[k]

(* activate counts, then inserts: every handler in flight may act on a count
   that is stale, but the excess never outgrows the number of handlers, no
   matter how many requests are made or how devices come and go. *)
SlotOvershootBounded ==
  \A k \in Keys : Cardinality(SlotsOf(k)) <= MaxActivations[k] + Cardinality(Handlers) - 1

(* redeem reads is_used outside the transaction that sets it: the handlers in
   flight may all redeem a coupon, but nobody after the first has committed. *)
CouponOveruseBounded == \A c \in Codes : credits[c] <= Cardinality(Handlers)

(* verify answers valid only if, at some moment since it was asked, the licence
   was there, unrevoked and unexpired, and at some moment the device held a
   slot: a licence revoked or a device removed before the request arrived is
   never called valid. *)
VerifyNotStale ==
  \A r \in Handlers :
    req[r].op = "verify" /\ req[r].at = "touch" => saw[r] = {"licensed", "registered"}

(* An extension or redemption that read the licence before a revocation, and
   writes after it, does not undo it: only unrevoke does. *)
RevocationSticks ==
  [][\A k \in Keys :
       licenses[k] # None /\ licenses'[k] # None =>
         (licenses[k].revoked =>
            \/ licenses'[k].revoked
            \/ \E r \in Handlers : req[r].op = "unrevoke" /\ req[r].key = k)]_vars

=============================================================================
