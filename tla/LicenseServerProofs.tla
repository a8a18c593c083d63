------------------------ MODULE LicenseServerProofs ------------------------
(***************************************************************************)
(* What LicenseServer guarantees for any number of handlers, keys,         *)
(* spellings, devices and coupons, on a database that enforces its foreign *)
(* keys.                                                                   *)
(***************************************************************************)
EXTENDS LicenseServer, FiniteSetTheorems, TLAPS

(* A handler that redeems a coupon names a licence; one that may come to insert
   an activation names a device too; only two endpoints set is_revoked. *)
Naming ==
  \A r \in Handlers :
    /\ req[r].at = "get_license" /\ req[r].op # "reset_hardware" =>
         req[r].key \in Spellings /\ req[r].dev \in Devices
    /\ req[r].at \in {"find_activation", "count", "insert"} =>
         req[r].key \in Spellings /\ req[r].dev \in Devices
    /\ req[r].at \in {"read_coupon", "read_license"} => req[r].key \in Spellings
    /\ req[r].at = "set_revoked" => req[r].op \in {"revoke", "unrevoke"}

ReqType ==
  req \in [Handlers -> [op : Endpoints \cup {None}, at : Points,
                        key : Spellings \cup {None}, dev : Devices \cup {None},
                        code : Codes \cup {None}, until : 0..MaxTime]]

(* The handlers about to insert an activation of key k. *)
Inserters(k) == {r \in Handlers : req[r].at = "insert" /\ req[r].key = k}

(* A slot, or a handler about to take one: each handler counted before it got
   there, and then there was one slot left. *)
SlotBound ==
  \A k \in Keys :
    /\ IsFiniteSet(SlotsOf(k))
    /\ Cardinality(SlotsOf(k)) + Cardinality(Inserters(k))
         <= MaxActivations[k] + Cardinality(Handlers) - 1

SlotInv == TypeOK /\ Naming /\ activations \subseteq Keys \X Devices /\ SlotBound

-----------------------------------------------------------------------------
(* With foreign keys on, the slots of a key are the rows of that very text. *)
LEMMA SlotsAreRows ==
  ASSUME activations \subseteq Keys \X Devices, NEW k \in Keys
  PROVE  SlotsOf(k) = Rows(k)
BY SpellingAssumption DEF SlotsOf, Rows

(* The handlers about to insert are among all of them. *)
LEMMA InsertersFinite ==
  ASSUME NEW k
  PROVE  /\ IsFiniteSet(Inserters(k))
         /\ Cardinality(Inserters(k)) \in Nat
         /\ Cardinality(Inserters(k)) <= Cardinality(Handlers)
         /\ Cardinality(Handlers) \in Nat
BY HandlersAssumption, FS_Subset, FS_CardinalityType DEF Inserters

(* No slot is taken and no handler comes to take one: the bound stays. *)
LEMMA Shrinking ==
  ASSUME SlotBound, activations' \subseteq activations,
         \A r \in Handlers : req'[r].at = "insert" =>
           req[r].at = "insert" /\ req'[r].key = req[r].key
  PROVE  SlotBound'
<1> SUFFICES ASSUME NEW k \in Keys
             PROVE  /\ IsFiniteSet(SlotsOf(k)')
                    /\ Cardinality(SlotsOf(k)') + Cardinality(Inserters(k)')
                         <= MaxActivations[k] + Cardinality(Handlers) - 1
  BY DEF SlotBound
<1>1. SlotsOf(k)' \subseteq SlotsOf(k) /\ Inserters(k)' \subseteq Inserters(k)
  BY DEF SlotsOf, Inserters
<1>2. /\ IsFiniteSet(SlotsOf(k))
      /\ Cardinality(SlotsOf(k)) + Cardinality(Inserters(k))
           <= MaxActivations[k] + Cardinality(Handlers) - 1
  BY DEF SlotBound
<1>3. IsFiniteSet(SlotsOf(k)') /\ Cardinality(SlotsOf(k)') <= Cardinality(SlotsOf(k))
  BY <1>1, <1>2, FS_Subset
<1>4. Cardinality(Inserters(k)') <= Cardinality(Inserters(k))
  BY <1>1, InsertersFinite, FS_Subset
<1>5. /\ Cardinality(SlotsOf(k)) \in Nat /\ Cardinality(SlotsOf(k)') \in Nat
      /\ Cardinality(Inserters(k)) \in Nat /\ Cardinality(Inserters(k)') \in Nat
      /\ Cardinality(Handlers) \in Nat /\ MaxActivations[k] \in Nat
  <2>1. IsFiniteSet(Inserters(k)')
    BY <1>1, InsertersFinite, FS_Subset
  <2> QED BY <2>1, <1>2, <1>3, InsertersFinite, FS_CardinalityType, LimitAssumption
<1> QED BY <1>2, <1>3, <1>4, <1>5

(* A handler found a free slot: it may take its place among the inserters. *)
LEMMA Counting ==
  ASSUME SlotInv, NEW r \in Handlers, CountActivations(r)
  PROVE  SlotBound'
<1> SUFFICES ASSUME NEW k \in Keys
             PROVE  /\ IsFiniteSet(SlotsOf(k)')
                    /\ Cardinality(SlotsOf(k)') + Cardinality(Inserters(k)')
                         <= MaxActivations[k] + Cardinality(Handlers) - 1
  BY DEF SlotBound
<1>1. SlotsOf(k)' = SlotsOf(k) /\ IsFiniteSet(SlotsOf(k))
  BY DEF CountActivations, SlotsOf, SlotInv, SlotBound, tables
<1>2. Cardinality(Inserters(k)') \in Nat /\ Cardinality(Inserters(k)') <= Cardinality(Handlers)
  BY HandlersAssumption, FS_Subset, FS_CardinalityType DEF Inserters
<1>3. /\ Cardinality(SlotsOf(k)) \in Nat /\ Cardinality(Inserters(k)) \in Nat
      /\ Cardinality(Handlers) \in Nat /\ MaxActivations[k] \in Nat
  BY <1>1, InsertersFinite, FS_CardinalityType, LimitAssumption
<1>4. CASE req[r].key = k /\ Cardinality(Rows(k)) < MaxActivations[k]
  <2>1. Cardinality(SlotsOf(k)) < MaxActivations[k]
    BY <1>4, SlotsAreRows DEF SlotInv
  <2> QED BY <2>1, <1>1, <1>2, <1>3
<1>5. CASE ~(req[r].key = k /\ Cardinality(Rows(k)) < MaxActivations[k])
  <2>1. Inserters(k)' \subseteq Inserters(k)
    <3>1. MaxActivations[Canonical[k]] = MaxActivations[k]
      BY SpellingAssumption
    <3>2. Cardinality(Rows(k)) \in Nat
      BY <1>3, SlotsAreRows DEF SlotInv
    <3> QED BY <1>5, <1>3, <3>1, <3>2
            DEF CountActivations, Await, Answer, Idle, Inserters, SlotInv, TypeOK
  <2>2. Cardinality(Inserters(k)') <= Cardinality(Inserters(k))
    BY <2>1, InsertersFinite, FS_Subset
  <2> QED BY <2>2, <1>1, <1>2, <1>3 DEF SlotInv, SlotBound
<1> QED BY <1>4, <1>5

(* A handler takes a slot and leaves the inserters. *)
LEMMA Inserting ==
  ASSUME ForeignKeys, SlotInv, NEW r \in Handlers, InsertActivation(r)
  PROVE  activations' \subseteq Keys \X Devices /\ SlotBound'
<1> DEFINE row == <<req[r].key, req[r].dev>>
<1>1. \/ activations' = activations
      \/ /\ req[r].key \in Keys /\ req[r].dev \in Devices
         /\ activations' = activations \cup {row}
  BY DEF InsertActivation, SlotInv, Naming
<1>2. activations' \subseteq Keys \X Devices
  BY <1>1 DEF SlotInv
<1>3. SlotBound'
  <2> SUFFICES ASSUME NEW k \in Keys
               PROVE  /\ IsFiniteSet(SlotsOf(k)')
                      /\ Cardinality(SlotsOf(k)') + Cardinality(Inserters(k)')
                           <= MaxActivations[k] + Cardinality(Handlers) - 1
    BY DEF SlotBound
  <2>1. /\ IsFiniteSet(SlotsOf(k))
        /\ Cardinality(SlotsOf(k)) + Cardinality(Inserters(k))
             <= MaxActivations[k] + Cardinality(Handlers) - 1
        /\ Cardinality(SlotsOf(k)) \in Nat /\ MaxActivations[k] \in Nat
    BY FS_CardinalityType, LimitAssumption DEF SlotInv, SlotBound
  <2>2. CASE req[r].key = k
    <3>1. SlotsOf(k)' = SlotsOf(k) \/ SlotsOf(k)' = SlotsOf(k) \cup {row}
      BY <1>1, <2>2, SpellingAssumption DEF SlotsOf
    <3>2. /\ IsFiniteSet(SlotsOf(k)') /\ Cardinality(SlotsOf(k)') \in Nat
          /\ Cardinality(SlotsOf(k)') <= Cardinality(SlotsOf(k)) + 1
      <4>1. /\ IsFiniteSet(SlotsOf(k) \cup {row})
            /\ Cardinality(SlotsOf(k) \cup {row}) \in Nat
            /\ Cardinality(SlotsOf(k) \cup {row}) <= Cardinality(SlotsOf(k)) + 1
        <5> HIDE DEF row
        <5>1. /\ IsFiniteSet(SlotsOf(k) \cup {row})
              /\ Cardinality(SlotsOf(k) \cup {row}) =
                   IF row \in SlotsOf(k) THEN Cardinality(SlotsOf(k))
                                         ELSE Cardinality(SlotsOf(k)) + 1
          BY <2>1, FS_AddElement
        <5> QED BY <5>1, <2>1
      <4>2. CASE SlotsOf(k)' = SlotsOf(k)
        BY <4>2, <2>1
      <4>3. CASE SlotsOf(k)' = SlotsOf(k) \cup {row}
        <5> HIDE DEF row
        <5> QED BY <4>3, <4>1
      <4> QED BY <3>1, <4>2, <4>3
    <3>3. r \in Inserters(k) /\ Inserters(k)' = Inserters(k) \ {r}
      BY <2>2 DEF InsertActivation, Answer, Idle, Inserters, SlotInv, TypeOK
    <3>4. Cardinality(Inserters(k)') = Cardinality(Inserters(k)) - 1
      BY <3>3, InsertersFinite, FS_RemoveElement
    <3> QED BY <3>2, <3>4, <2>1, InsertersFinite
  <2>3. CASE req[r].key # k
    <3>1. SlotsOf(k)' = SlotsOf(k)
      BY <1>1, <2>3, SpellingAssumption DEF SlotsOf
    <3>2. Inserters(k)' = Inserters(k)
      BY <2>3 DEF InsertActivation, Answer, Idle, Inserters, SlotInv, TypeOK
    <3> QED BY <3>1, <3>2, <2>1
  <2> QED BY <2>2, <2>3
<1> QED BY <1>2, <1>3

-----------------------------------------------------------------------------
(* Requests stay typed and named. *)
LEMMA RequestStep ==
  ASSUME TypeOK, Naming, NEW r \in Handlers, Request(r) \/ Step(r) \/ Abort(r)
  PROVE  ReqType' /\ Naming'
<1> DEFINE Ready(x) ==
      /\ x.at = "get_license" /\ x.op # "reset_hardware" =>
           x.key \in Spellings /\ x.dev \in Devices
      /\ x.at \in {"find_activation", "count", "insert"} =>
           x.key \in Spellings /\ x.dev \in Devices
      /\ x.at \in {"read_coupon", "read_license"} => x.key \in Spellings
      /\ x.at = "set_revoked" => x.op \in {"revoke", "unrevoke"}
<1> DEFINE Good(x) ==
      /\ x \in [op : Endpoints \cup {None}, at : Points, key : Spellings \cup {None},
                dev : Devices \cup {None}, code : Codes \cup {None}, until : 0..MaxTime]
      /\ Ready(x)
<1>1. Good(req[r])
  BY DEF TypeOK, Naming
<1>2. SUFFICES \E x : Good(x) /\ req' = [req EXCEPT ![r] = x]
  BY DEF TypeOK, ReqType, Naming
<1>3. Good(Idle)
  BY TimeAssumption DEF Idle, Endpoints, Points
<1>4. CASE Answer(r)
  BY <1>3, <1>4 DEF Answer
<1>5. ASSUME NEW point \in Points, Ready([req[r] EXCEPT !.at = point]), Await(r, point)
      PROVE  \E x : Good(x) /\ req' = [req EXCEPT ![r] = x]
  <2>1. Good([req[r] EXCEPT !.at = point])
    BY <1>1, <1>5
  <2> QED BY <2>1, <1>5 DEF Await, TypeOK
<1>6. ASSUME NEW point \in {"write_expiry", "redeem_tx"}, NEW until \in 0..MaxTime,
             AwaitWith(r, point, until)
      PROVE  \E x : Good(x) /\ req' = [req EXCEPT ![r] = x]
  <2>1. Good([req[r] EXCEPT !.at = point, !.until = until])
    BY <1>1, <1>6 DEF Points
  <2> QED BY <2>1, <1>6 DEF AwaitWith, TypeOK
<1>7. CASE GetLicense(r)
  <2>1. ASSUME req[r].op = "reset_hardware" PROVE Ready([req[r] EXCEPT !.at = "reset_tx"])
    BY <1>1
  <2>2. ASSUME req[r].op # "reset_hardware"
        PROVE  Ready([req[r] EXCEPT !.at = "find_activation"])
    BY <1>1, <1>7, <2>2 DEF GetLicense
  <2>3. {"reset_tx", "find_activation"} \subseteq Points
    BY DEF Points
  <2> HIDE DEF Ready, Good
  <2> QED BY <1>4, <1>5, <1>7, <2>1, <2>2, <2>3 DEF GetLicense
<1>8. CASE FindActivation(r)
  <2>1. Ready([req[r] EXCEPT !.at = "touch"]) /\ Ready([req[r] EXCEPT !.at = "count"])
    BY <1>1, <1>8 DEF FindActivation
  <2>2. {"touch", "count"} \subseteq Points
    BY DEF Points
  <2> HIDE DEF Ready, Good
  <2> QED BY <1>4, <1>5, <1>8, <2>1, <2>2 DEF FindActivation
<1>9. CASE CountActivations(r)
  <2>1. Ready([req[r] EXCEPT !.at = "insert"]) /\ "insert" \in Points
    BY <1>1, <1>9 DEF CountActivations, Points
  <2> HIDE DEF Ready, Good
  <2> QED BY <1>4, <1>5, <1>9, <2>1 DEF CountActivations
<1>10. CASE ReadCoupon(r)
  <2>1. Ready([req[r] EXCEPT !.at = "read_license"]) /\ "read_license" \in Points
    BY <1>1, <1>10 DEF Points, ReadCoupon
  <2> HIDE DEF Ready, Good
  <2> QED BY <1>4, <1>5, <1>10, <2>1 DEF ReadCoupon
<1>11. CASE ReadLicense(r) \/ ReadExpiry(r)
  <2>1. ASSUME NEW k \in Keys, licenses[k] # None, Later(licenses[k].expires) <= MaxTime
        PROVE  Later(licenses[k].expires) \in 0..MaxTime
    BY <2>1, TimeAssumption DEF TypeOK, License, Later
  <2>2. ReadLicense(r) => Canonical[req[r].key] \in Keys
    BY SpellingAssumption DEF Naming, ReadLicense
  <2> HIDE DEF Ready, Good
  <2>3. CASE ReadLicense(r)
    BY <1>4, <1>6, <2>1, <2>2, <2>3 DEF ReadLicense
  <2>4. CASE ReadExpiry(r)
    BY <1>4, <1>6, <2>1, <2>4 DEF ReadExpiry
  <2> QED BY <1>11, <2>3, <2>4
<1>12. CASE Request(r)
  <2>1. ASSUME NEW op \in Endpoints, NEW key \in Spellings \cup {None},
               NEW dev \in Devices \cup {None}, NEW code \in Codes \cup {None},
               Arrive(r, op, key, dev, code),
               op \in {"activate", "verify"} => key \in Spellings /\ dev \in Devices,
               op = "coupon_redeem" => key \in Spellings
        PROVE  \E x : Good(x) /\ req' = [req EXCEPT ![r] = x]
    <3> DEFINE x == [op |-> op, at |-> FirstAwait[op], key |-> key, dev |-> dev,
                     code |-> code, until |-> 0]
    <3>1. FirstAwait[op] \in Points \ {"find_activation", "count", "insert", "read_license"}
      BY DEF FirstAwait, Endpoints, Points
    <3>2. FirstAwait[op] = "get_license" => op \in {"activate", "verify", "reset_hardware"}
      BY DEF FirstAwait, Endpoints
    <3>4. /\ FirstAwait[op] = "read_coupon" => op = "coupon_redeem"
          /\ FirstAwait[op] = "set_revoked" => op \in {"revoke", "unrevoke"}
      BY DEF FirstAwait, Endpoints
    <3>3. Good(x)
      BY <2>1, <3>1, <3>2, <3>4, TimeAssumption
    <3> QED BY <2>1, <3>3 DEF Arrive
  <2> HIDE DEF Ready, Good
  <2> QED BY <1>12, <2>1, OpsAssumption, SpellingAssumption DEF Request, Endpoints
<1>13. CASE \/ Touch(r) \/ InsertActivation(r) \/ DeleteActivation(r) \/ ResetTx(r)
            \/ InsertLicense(r) \/ SetRevoked(r) \/ WriteExpiry(r) \/ DeleteActivations(r)
            \/ DeleteTx(r) \/ InsertCoupon(r) \/ DeleteCoupon(r) \/ RedeemTx(r) \/ Abort(r)
  <2> HIDE DEF Ready, Good
  <2> QED BY <1>4, <1>13
          DEF Touch, InsertActivation, DeleteActivation, ResetTx, InsertLicense, SetRevoked,
              WriteExpiry, DeleteActivations, DeleteTx, InsertCoupon, DeleteCoupon, RedeemTx,
              Abort
<1> HIDE DEF Ready, Good
<1> QED BY <1>7, <1>8, <1>9, <1>10, <1>11, <1>12, <1>13 DEF Step

(* The tables stay typed. *)
LEMMA TablesStep ==
  ASSUME TypeOK, Naming, NEW r \in Handlers, Step(r)
  PROVE  /\ licenses' \in [Keys -> License \cup {None}]
         /\ activations' \subseteq Spellings \X Devices
         /\ coupons' \in [Codes -> {"unused", "used", None}]
         /\ credits' \in [Codes -> Nat]
<1> USE TypeOK DEF TypeOK
<1>1. CASE \/ GetLicense(r) \/ FindActivation(r) \/ Touch(r) \/ CountActivations(r)
           \/ ReadExpiry(r) \/ ReadCoupon(r) \/ ReadLicense(r)
  BY <1>1 DEF GetLicense, FindActivation, Touch, CountActivations, ReadExpiry, ReadCoupon,
              ReadLicense, tables
<1>2. CASE \/ DeleteActivation(r) \/ DeleteActivations(r)
  BY <1>2 DEF DeleteActivation, DeleteActivations
<1>3. CASE InsertActivation(r)
  BY <1>3 DEF InsertActivation, Naming
<1>4. CASE ResetTx(r)
  <2>1. \A lic \in License : [lic EXCEPT !.reset = now] \in License
    BY DEF License
  <2>2. licenses' \in [Keys -> License \cup {None}]
    BY <1>4, <2>1 DEF ResetTx, Update
  <2> QED BY <1>4, <2>2 DEF ResetTx
<1>5. CASE InsertLicense(r)
  BY <1>5 DEF InsertLicense, NewLicenses
<1>6. CASE SetRevoked(r)
  <2>1. \A lic \in License, b \in BOOLEAN : [lic EXCEPT !.revoked = b] \in License
    BY DEF License
  <2> QED BY <1>6, <2>1 DEF SetRevoked, Update
<1>7. CASE WriteExpiry(r)
  <2>1. \A lic \in License : [lic EXCEPT !.expires = req[r].until] \in License
    BY DEF License
  <2> QED BY <1>7, <2>1 DEF WriteExpiry, Update
<1>8. CASE DeleteTx(r)
  BY <1>8 DEF DeleteTx, Update
<1>9. CASE InsertCoupon(r) \/ DeleteCoupon(r)
  BY <1>9 DEF InsertCoupon, DeleteCoupon
<1>10. CASE RedeemTx(r)
  <2>1. \A lic \in License : [lic EXCEPT !.expires = req[r].until] \in License
    BY DEF License
  <2>2. licenses' \in [Keys -> License \cup {None}]
    BY <1>10, <2>1 DEF RedeemTx, Update
  <2>3. coupons' \in [Codes -> {"unused", "used", None}]
    BY <1>10 DEF RedeemTx
  <2>4. credits' \in [Codes -> Nat]
    <3>1. credits' = [c \in Codes |-> IF c = req[r].code THEN credits[c] + 1 ELSE credits[c]]
      BY <1>10 DEF RedeemTx
    <3>2. \A c \in Codes : credits[c] \in Nat /\ credits[c] + 1 \in Nat
      OBVIOUS
    <3> QED BY <3>1, <3>2
  <2> QED BY <1>10, <2>2, <2>3, <2>4 DEF RedeemTx
<1> QED BY <1>1, <1>2, <1>3, <1>4, <1>5, <1>6, <1>7, <1>8, <1>9, <1>10 DEF Step

TypeInv == TypeOK /\ Naming

(* The first state is typed. *)
LEMMA TypeInit == Init => TypeInv
<1> SUFFICES ASSUME Init PROVE TypeInv
  OBVIOUS
<1>1. Idle \in [op : Endpoints \cup {None}, at : Points, key : Spellings \cup {None},
               dev : Devices \cup {None}, code : Codes \cup {None}, until : 0..MaxTime]
  BY TimeAssumption DEF Idle, Points
<1>2. now \in 1..MaxTime
  BY TimeAssumption DEF Init
<1> QED BY <1>1, <1>2 DEF Init, TypeInv, TypeOK, Naming, Idle

(* Every step keeps the types. *)
LEMMA TypeStep == TypeInv /\ [Next]_vars => TypeInv'
<1> SUFFICES ASSUME TypeInv, [Next]_vars PROVE TypeInv'
  OBVIOUS
<1> USE DEF TypeInv
<1>1. CASE Next
  <2>1. saw' \in [Handlers -> SUBSET {"licensed", "registered"}]
    <3>1. \A r \in Handlers : Facts(r)' \subseteq {"licensed", "registered"}
      BY DEF Facts
    <3> QED BY <1>1, <3>1 DEF Next, Observe, TypeOK
  <2>2. CASE Tick
    <3>1. now' \in 1..MaxTime
      BY <2>2, TimeAssumption DEF Tick, TypeOK
    <3>2. TypeOK'
      BY <2>1, <2>2, <3>1 DEF Tick, tables, TypeOK
    <3>3. Naming'
      BY <2>2 DEF Tick, Naming
    <3> QED BY <3>2, <3>3
  <2>3. ASSUME NEW r \in Handlers, Request(r) \/ Step(r) \/ Abort(r)
        PROVE  TypeInv'
    <3>1. ReqType' /\ Naming'
      BY <2>3, RequestStep
    <3>2. /\ licenses' \in [Keys -> License \cup {None}]
          /\ activations' \subseteq Spellings \X Devices
          /\ coupons' \in [Codes -> {"unused", "used", None}]
          /\ credits' \in [Codes -> Nat]
      <4>1. CASE Step(r)
        BY <4>1, TablesStep
      <4>2. CASE Request(r) \/ Abort(r)
        BY <4>2 DEF Request, Arrive, Abort, tables, TypeOK
      <4> QED BY <2>3, <4>1, <4>2
    <3>3. now' = now
      BY <2>3 DEF Request, Arrive, Abort, Step, GetLicense, FindActivation, Touch,
         CountActivations, InsertActivation, DeleteActivation, ResetTx, InsertLicense,
         SetRevoked, ReadExpiry, WriteExpiry, DeleteActivations, DeleteTx, InsertCoupon,
         DeleteCoupon, ReadCoupon, ReadLicense, RedeemTx
    <3> QED BY <2>1, <3>1, <3>2, <3>3 DEF TypeOK, ReqType
  <2> QED BY <1>1, <2>2, <2>3 DEF Next
<1>2. CASE UNCHANGED vars
  BY <1>2 DEF vars, tables, TypeOK, Naming
<1> QED BY <1>1, <1>2

(* The tables and the requests keep their types, and the clock its bound, for
   any number of handlers, whatever the endpoints called. *)
THEOREM TypeCorrectness == Spec => []TypeOK
<1>1. Spec => []TypeInv
  BY TypeInit, TypeStep, PTL DEF Spec
<1> QED BY <1>1, PTL DEF TypeInv

-----------------------------------------------------------------------------
(* No slot is taken at first. *)
LEMMA SlotInit == ForeignKeys /\ Init => SlotInv
<1> SUFFICES ASSUME Init PROVE activations \subseteq Keys \X Devices /\ SlotBound
  BY TypeInit DEF SlotInv, TypeInv
<1>1. ASSUME NEW k \in Keys PROVE SlotsOf(k) = {} /\ Inserters(k) = {}
  BY DEF Init, SlotsOf, Inserters, Idle
<1>2. ASSUME NEW k \in Keys PROVE MaxActivations[k] + Cardinality(Handlers) - 1 >= 0
  BY LimitAssumption, HandlersAssumption, FS_CardinalityType
<1> QED BY <1>1, <1>2, FS_EmptySet DEF Init, SlotBound

(* Only CountActivations lets a handler come to insert. *)
LEMMA OthersKeepInserters ==
  ASSUME TypeInv, NEW r \in Handlers, Request(r) \/ Step(r) \/ Abort(r), ~CountActivations(r)
  PROVE  \A h \in Handlers : req'[h].at = "insert" =>
           req[h].at = "insert" /\ req'[h].key = req[h].key
<1> SUFFICES req'[r].at # "insert" /\ \E x : req' = [req EXCEPT ![r] = x]
  BY DEF TypeInv, TypeOK
<1>1. ASSUME NEW point \in Points \ {"insert"}, Await(r, point) \/ Answer(r)
      PROVE  req'[r].at # "insert" /\ \E x : req' = [req EXCEPT ![r] = x]
  <2>1. req' = [req EXCEPT ![r] = [req[r] EXCEPT !.at = point]] \/ req' = [req EXCEPT ![r] = Idle]
    BY <1>1 DEF Await, Answer, TypeInv, TypeOK
  <2> QED BY <2>1 DEF TypeInv, TypeOK, Idle
<1>2. ASSUME NEW until, AwaitWith(r, "write_expiry", until) \/ AwaitWith(r, "redeem_tx", until)
      PROVE  req'[r].at # "insert" /\ \E x : req' = [req EXCEPT ![r] = x]
  <2>1. PICK point \in {"write_expiry", "redeem_tx"} :
          req' = [req EXCEPT ![r] = [req[r] EXCEPT !.at = point, !.until = until]]
    BY <1>2 DEF AwaitWith, TypeInv, TypeOK
  <2>2. req'[r] = [req[r] EXCEPT !.at = point, !.until = until]
    BY <2>1 DEF TypeInv, TypeOK
  <2>3. req'[r].at = point
    BY <2>2 DEF TypeInv, TypeOK
  <2> QED BY <2>1, <2>3
<1>3. CASE Step(r) \/ Abort(r)
  <2>1. {"idle", "reset_tx", "find_activation", "touch", "count", "read_license"} \subseteq Points
    BY DEF Points
  <2>2. CASE GetLicense(r)
    BY <1>1, <2>1, <2>2 DEF GetLicense
  <2>3. CASE FindActivation(r)
    BY <1>1, <2>1, <2>3 DEF FindActivation
  <2>4. CASE ReadExpiry(r)
    BY <1>1, <1>2, <2>1, <2>4 DEF ReadExpiry
  <2>5. CASE ReadCoupon(r)
    BY <1>1, <2>1, <2>5 DEF ReadCoupon
  <2>6. CASE ReadLicense(r)
    BY <1>1, <1>2, <2>1, <2>6 DEF ReadLicense
  <2>7. CASE \/ Touch(r) \/ InsertActivation(r) \/ DeleteActivation(r) \/ ResetTx(r)
             \/ InsertLicense(r) \/ SetRevoked(r) \/ WriteExpiry(r) \/ DeleteActivations(r)
             \/ DeleteTx(r) \/ InsertCoupon(r) \/ DeleteCoupon(r) \/ RedeemTx(r) \/ Abort(r)
    <3>1. Answer(r)
      BY <2>7 DEF Touch, InsertActivation, DeleteActivation, ResetTx, InsertLicense,
         SetRevoked, WriteExpiry, DeleteActivations, DeleteTx, InsertCoupon, DeleteCoupon,
         RedeemTx, Abort
    <3> QED BY <1>1, <2>1, <3>1
  <2> QED BY <1>3, <2>2, <2>3, <2>4, <2>5, <2>6, <2>7 DEF Step
<1>4. CASE Request(r)
  <2>1. \A op \in Endpoints : FirstAwait[op] # "insert"
    BY DEF FirstAwait, Endpoints
  <2>2. ASSUME NEW op \in Endpoints, NEW key, NEW dev, NEW code, Arrive(r, op, key, dev, code)
        PROVE  req'[r].at # "insert" /\ \E x : req' = [req EXCEPT ![r] = x]
    BY <2>1, <2>2 DEF Arrive, TypeInv, TypeOK
  <2> QED BY <1>4, <2>2, OpsAssumption DEF Request, Endpoints
<1> QED BY <1>3, <1>4

(* Only InsertActivation adds an activation. *)
LEMMA OthersKeepSlots ==
  ASSUME NEW r \in Handlers, Request(r) \/ Step(r) \/ Abort(r), ~InsertActivation(r)
  PROVE  activations' \subseteq activations
BY DEF Request, Arrive, Abort, Step, tables, GetLicense, FindActivation, Touch,
       CountActivations, DeleteActivation, ResetTx, InsertLicense,
       SetRevoked, ReadExpiry, WriteExpiry, DeleteActivations, DeleteTx, InsertCoupon,
       DeleteCoupon, ReadCoupon, ReadLicense, RedeemTx

(* Every step keeps the bound on slots and inserters. *)
LEMMA SlotStep == ForeignKeys /\ SlotInv /\ [Next]_vars => SlotInv'
<1> SUFFICES ASSUME ForeignKeys, SlotInv, [Next]_vars
             PROVE  activations' \subseteq Keys \X Devices /\ SlotBound'
  BY TypeStep DEF SlotInv, TypeInv
<1>1. CASE Tick \/ UNCHANGED vars
  <2>1. activations' = activations /\ req' = req
    BY <1>1 DEF Tick, vars, tables
  <2> QED BY <2>1, Shrinking DEF SlotInv
<1>2. ASSUME NEW r \in Handlers, Request(r) \/ Step(r) \/ Abort(r)
      PROVE  activations' \subseteq Keys \X Devices /\ SlotBound'
  <2>1. CASE InsertActivation(r)
    BY <2>1, Inserting
  <2>2. CASE CountActivations(r)
    BY <2>2, Counting DEF CountActivations, tables, SlotInv
  <2>3. CASE ~InsertActivation(r) /\ ~CountActivations(r)
    BY <1>2, <2>3, Shrinking, OthersKeepInserters, OthersKeepSlots DEF SlotInv, TypeInv
  <2> QED BY <2>1, <2>2, <2>3
<1> QED BY <1>1, <1>2 DEF Next

(* However many devices and requests there are, a licence is never active on more
   devices than it allows plus one less than the handlers that run at once: the
   race between activate's count and its insert has no other consequence. *)
THEOREM SlotOvershoot == ASSUME ForeignKeys PROVE Spec => []SlotOvershootBounded
<1>1. Spec => []SlotInv
  BY SlotInit, SlotStep, PTL DEF Spec
<1>2. SlotInv => SlotOvershootBounded
  <2> SUFFICES ASSUME SlotInv, NEW k \in Keys
               PROVE  Cardinality(SlotsOf(k)) <= MaxActivations[k] + Cardinality(Handlers) - 1
    BY DEF SlotOvershootBounded
  <2>1. /\ Cardinality(SlotsOf(k)) \in Nat /\ MaxActivations[k] \in Nat
        /\ Cardinality(SlotsOf(k)) + Cardinality(Inserters(k))
             <= MaxActivations[k] + Cardinality(Handlers) - 1
    BY FS_CardinalityType, LimitAssumption DEF SlotInv, SlotBound
  <2> QED BY <2>1, InsertersFinite
<1> QED BY <1>1, <1>2, PTL

-----------------------------------------------------------------------------
(* A revocation in one licence, and what may follow it. *)
Sticks ==
  \A k \in Keys :
    licenses[k] # None /\ licenses'[k] # None =>
      (licenses[k].revoked =>
         \/ licenses'[k].revoked
         \/ \E r \in Handlers : req[r].op = "unrevoke" /\ req[r].key = k)

(* A step that lifts a revocation is an unrevoke. *)
LEMMA StickStep == TypeInv /\ [Next]_vars => Sticks
<1> SUFFICES ASSUME TypeInv, [Next]_vars, NEW k \in Keys,
                    licenses[k] # None, licenses'[k] # None, licenses[k].revoked
             PROVE  \/ licenses'[k].revoked
                    \/ \E r \in Handlers : req[r].op = "unrevoke" /\ req[r].key = k
  BY DEF Sticks
<1>1. licenses[k] \in License
  BY DEF TypeInv, TypeOK
<1>2. CASE UNCHANGED licenses
  BY <1>2
<1>3. ASSUME NEW r \in Handlers, ResetTx(r) \/ WriteExpiry(r) \/ RedeemTx(r)
      PROVE  licenses'[k].revoked
  <2>1. \/ licenses'[k] = licenses[k]
        \/ licenses'[k] = [licenses[k] EXCEPT !.reset = now]
        \/ licenses'[k] = [licenses[k] EXCEPT !.expires = req[r].until]
    BY <1>3 DEF ResetTx, WriteExpiry, RedeemTx, Update
  <2> QED BY <1>1, <2>1 DEF License
<1>4. ASSUME NEW r \in Handlers, InsertLicense(r)
      PROVE  licenses'[k].revoked
  BY <1>4 DEF InsertLicense, TypeInv, TypeOK
<1>5. ASSUME NEW r \in Handlers, DeleteTx(r)
      PROVE  licenses'[k].revoked
  BY <1>5 DEF DeleteTx, Update
<1>6. ASSUME NEW r \in Handlers, SetRevoked(r), req[r].op # "unrevoke" \/ req[r].key # k
      PROVE  licenses'[k].revoked
  <2>1. req[r].op \in {"revoke", "unrevoke"}
    BY <1>6 DEF SetRevoked, TypeInv, Naming
  <2>2. \/ licenses'[k] = licenses[k]
        \/ req[r].op = "revoke" /\ licenses'[k] = [licenses[k] EXCEPT !.revoked = TRUE]
    BY <1>6, <2>1 DEF SetRevoked, Update
  <2> QED BY <1>1, <2>2 DEF License
<1>7. ASSUME NEW r \in Handlers, Step(r), ~ResetTx(r), ~WriteExpiry(r), ~RedeemTx(r),
             ~InsertLicense(r), ~DeleteTx(r), ~SetRevoked(r)
      PROVE  UNCHANGED licenses
  BY <1>7 DEF Step, tables, GetLicense, FindActivation, Touch, CountActivations,
     InsertActivation, DeleteActivation, ReadExpiry, DeleteActivations, InsertCoupon,
     DeleteCoupon, ReadCoupon, ReadLicense
<1>8. ASSUME NEW r \in Handlers, Request(r) \/ Abort(r)
      PROVE  UNCHANGED licenses
  BY <1>8 DEF Request, Arrive, Abort, tables
<1>9. Tick \/ UNCHANGED vars => UNCHANGED licenses
  BY DEF Tick, vars, tables
<1> QED BY <1>2, <1>3, <1>4, <1>5, <1>6, <1>7, <1>8, <1>9 DEF Next

(* Whatever an extension, a redemption or a device reset read before a revocation,
   nothing it writes afterwards makes the licence valid again. *)
THEOREM RevocationsStick == Spec => RevocationSticks
<1>1. TypeInv /\ [Next]_vars => [Sticks]_vars
  BY StickStep
<1>2. Spec => []TypeInv
  BY TypeInit, TypeStep, PTL DEF Spec
<1>3. Spec => [][Sticks]_vars
  BY <1>1, <1>2, PTL DEF Spec
<1> QED BY <1>3 DEF RevocationSticks, Sticks

-----------------------------------------------------------------------------
(* The handlers that have read coupon c as unused and may yet redeem it. *)
Redeemers(c) == {r \in Handlers : req[r].at \in {"read_license", "redeem_tx"} /\ req[r].code = c}

(* A redemption, or a handler on its way to one: each of them read the coupon
   while it was unused, and then it had not been redeemed. *)
CouponBound ==
  \A c \in Codes :
    /\ coupons[c] = "unused" => credits[c] = 0
    /\ credits[c] + Cardinality(Redeemers(c)) <= Cardinality(Handlers)

(* The handlers about to redeem a coupon are among all of them, *)
LEMMA RedeemersFinite ==
  ASSUME NEW c
  PROVE  /\ IsFiniteSet(Redeemers(c))
         /\ Cardinality(Redeemers(c)) \in Nat
         /\ Cardinality(Redeemers(c)) <= Cardinality(Handlers)
         /\ Cardinality(Handlers) \in Nat
BY HandlersAssumption, FS_Subset, FS_CardinalityType DEF Redeemers

(* ... also after a step. *)
LEMMA RedeemersFiniteNext ==
  ASSUME NEW c
  PROVE  /\ Cardinality(Redeemers(c)') \in Nat
         /\ Cardinality(Redeemers(c)') <= Cardinality(Handlers)
BY HandlersAssumption, FS_Subset, FS_CardinalityType DEF Redeemers

(* No coupon is credited at first. *)
LEMMA CouponInit == Init => CouponBound
<1> SUFFICES ASSUME Init PROVE CouponBound
  OBVIOUS
<1>1. ASSUME NEW c \in Codes PROVE credits[c] = 0 /\ coupons[c] = None
  BY <1>1 DEF Init
<1>2. ASSUME NEW c \in Codes PROVE Redeemers(c) = {}
  BY DEF Init, Redeemers, Idle
<1>3. Cardinality(Handlers) \in Nat /\ Cardinality({}) = 0
  BY HandlersAssumption, FS_CardinalityType, FS_EmptySet
<1>4. ASSUME NEW c \in Codes PROVE credits[c] + Cardinality(Redeemers(c)) <= Cardinality(Handlers)
  BY <1>1, <1>2, <1>3
<1> QED BY <1>1, <1>4 DEF CouponBound

(* How a step changes the redeemers of a coupon. *)
LEMMA RedeemersStep ==
  ASSUME TypeInv, NEW r \in Handlers, NEW c, Request(r) \/ Step(r) \/ Abort(r)
  PROVE  /\ ~ReadCoupon(r) => Redeemers(c)' \subseteq Redeemers(c)
         /\ ReadCoupon(r) /\ (req[r].code # c \/ coupons[c] # "unused") =>
              Redeemers(c)' \subseteq Redeemers(c)
         /\ RedeemTx(r) /\ req[r].code = c => r \in Redeemers(c) /\ r \notin Redeemers(c)'
<1> USE DEF TypeInv
<1>1. ASSUME NEW point, Await(r, point), req[r].code # c \/ point \notin {"read_license", "redeem_tx"}
      PROVE  Redeemers(c)' \subseteq Redeemers(c)
  BY <1>1 DEF Await, Redeemers, TypeOK
<1>2. ASSUME Answer(r) PROVE Redeemers(c)' \subseteq Redeemers(c) /\ r \notin Redeemers(c)'
  BY <1>2 DEF Answer, Idle, Redeemers, TypeOK
<1>3. CASE GetLicense(r)
  BY <1>1, <1>2, <1>3 DEF GetLicense, ReadCoupon, RedeemTx
<1>4. CASE FindActivation(r) \/ CountActivations(r)
  BY <1>1, <1>2, <1>4 DEF FindActivation, CountActivations, ReadCoupon, RedeemTx
<1>5. CASE ReadExpiry(r)
  <2>1. ASSUME NEW until, AwaitWith(r, "write_expiry", until)
        PROVE  Redeemers(c)' \subseteq Redeemers(c)
    BY <2>1 DEF AwaitWith, Redeemers, TypeOK
  <2> QED BY <1>2, <1>5, <2>1 DEF ReadExpiry, ReadCoupon, RedeemTx
<1>6. CASE ReadLicense(r)
  <2>1. ASSUME NEW until, AwaitWith(r, "redeem_tx", until)
        PROVE  Redeemers(c)' \subseteq Redeemers(c)
    BY <1>6, <2>1 DEF AwaitWith, ReadLicense, Redeemers, TypeOK
  <2> QED BY <1>2, <1>6, <2>1 DEF ReadLicense, ReadCoupon, RedeemTx
<1>7. CASE ReadCoupon(r)
  BY <1>1, <1>2, <1>7 DEF ReadCoupon, RedeemTx
<1>8. CASE Request(r)
  <2>1. \A op \in Endpoints : FirstAwait[op] \notin {"read_license", "redeem_tx"}
    BY DEF FirstAwait, Endpoints
  <2>2. ASSUME NEW op \in Endpoints, NEW key, NEW dev, NEW code, Arrive(r, op, key, dev, code)
        PROVE  Redeemers(c)' \subseteq Redeemers(c)
    BY <2>1, <2>2 DEF Arrive, Redeemers, TypeOK
  <2>3. req[r].at = "idle"
    BY <1>8 DEF Request, Arrive, Idle
  <2> QED BY <1>8, <2>2, <2>3, OpsAssumption DEF Request, Endpoints, ReadCoupon, RedeemTx
<1>9. CASE \/ Touch(r) \/ InsertActivation(r) \/ DeleteActivation(r) \/ ResetTx(r)
           \/ InsertLicense(r) \/ SetRevoked(r) \/ WriteExpiry(r) \/ DeleteActivations(r)
           \/ DeleteTx(r) \/ InsertCoupon(r) \/ DeleteCoupon(r) \/ RedeemTx(r) \/ Abort(r)
  <2>1. Answer(r)
    BY <1>9 DEF Touch, InsertActivation, DeleteActivation, ResetTx, InsertLicense,
       SetRevoked, WriteExpiry, DeleteActivations, DeleteTx, InsertCoupon, DeleteCoupon,
       RedeemTx, Abort
  <2> QED BY <1>2, <2>1 DEF RedeemTx, Redeemers
<1> QED BY <1>3, <1>4, <1>5, <1>6, <1>7, <1>8, <1>9 DEF Step

(* Every step keeps the bound on credits and redeemers. *)
LEMMA CouponStep == TypeInv /\ CouponBound /\ [Next]_vars => CouponBound'
<1> SUFFICES ASSUME TypeInv, CouponBound, [Next]_vars, NEW c \in Codes
             PROVE  /\ coupons'[c] = "unused" => credits'[c] = 0
                    /\ credits'[c] + Cardinality(Redeemers(c)') <= Cardinality(Handlers)
  BY DEF CouponBound
<1>1. /\ coupons[c] \in {"unused", "used", None} /\ credits[c] \in Nat
      /\ coupons[c] = "unused" => credits[c] = 0
      /\ credits[c] + Cardinality(Redeemers(c)) <= Cardinality(Handlers)
  BY DEF TypeInv, TypeOK, CouponBound
<1>2. ASSUME Redeemers(c)' \subseteq Redeemers(c)
      PROVE  Cardinality(Redeemers(c)') <= Cardinality(Redeemers(c))
  BY <1>2, RedeemersFinite, FS_Subset
<1>3. CASE Tick \/ UNCHANGED vars
  <2>1. coupons' = coupons /\ credits' = credits /\ Redeemers(c)' = Redeemers(c)
    BY <1>3 DEF Tick, vars, tables, Redeemers
  <2> QED BY <1>1, <2>1
<1>4. ASSUME NEW r \in Handlers, Request(r) \/ Step(r) \/ Abort(r)
      PROVE  /\ coupons'[c] = "unused" => credits'[c] = 0
             /\ credits'[c] + Cardinality(Redeemers(c)') <= Cardinality(Handlers)
  <2>1. CASE ReadCoupon(r) /\ req[r].code = c /\ coupons[c] = "unused"
    <3>1. credits'[c] = 0
      BY <1>1, <2>1 DEF ReadCoupon
    <3> QED BY <3>1, RedeemersFiniteNext
  <2>2. CASE RedeemTx(r) /\ req[r].code = c
    <3>1. coupons'[c] # "unused" /\ credits'[c] = credits[c] + 1
      BY <2>2, NoneAssumption DEF RedeemTx, TypeInv, TypeOK
    <3>2. Redeemers(c)' \subseteq Redeemers(c) \ {r} /\ r \in Redeemers(c)
      BY <1>4, <2>2, RedeemersStep DEF RedeemTx, ReadCoupon
    <3>3. Cardinality(Redeemers(c)') <= Cardinality(Redeemers(c)) - 1
      <4>1. /\ IsFiniteSet(Redeemers(c) \ {r})
            /\ Cardinality(Redeemers(c) \ {r}) = Cardinality(Redeemers(c)) - 1
        BY <3>2, RedeemersFinite, FS_RemoveElement
      <4>2. Cardinality(Redeemers(c)') <= Cardinality(Redeemers(c) \ {r})
        BY <3>2, <4>1, FS_Subset
      <4> QED BY <4>1, <4>2
    <3> QED BY <1>1, <3>1, <3>3, RedeemersFinite, RedeemersFiniteNext
  <2>3. CASE /\ ~(ReadCoupon(r) /\ req[r].code = c /\ coupons[c] = "unused")
             /\ ~(RedeemTx(r) /\ req[r].code = c)
    <3>1. Redeemers(c)' \subseteq Redeemers(c)
      BY <1>4, <2>3, RedeemersStep
    <3>2. /\ credits'[c] = credits[c] \/ credits'[c] = 0
          /\ coupons'[c] = "unused" /\ credits'[c] # 0 =>
               coupons[c] = "unused" /\ credits'[c] = credits[c]
      <4>1. CASE RedeemTx(r)
        BY <2>3, <4>1, <1>1 DEF RedeemTx, TypeInv, TypeOK
      <4>2. CASE InsertCoupon(r)
        BY <4>2, <1>1 DEF InsertCoupon, TypeInv, TypeOK
      <4>3. CASE DeleteCoupon(r)
        BY <4>3, <1>1, NoneAssumption DEF DeleteCoupon, TypeInv, TypeOK
      <4>4. CASE ~RedeemTx(r) /\ ~InsertCoupon(r) /\ ~DeleteCoupon(r)
        <5>1. coupons' = coupons /\ credits' = credits
          BY <1>4, <4>4 DEF Request, Arrive, Abort, Step, tables, GetLicense, FindActivation,
             Touch, CountActivations, InsertActivation, DeleteActivation, ResetTx,
             InsertLicense, SetRevoked, ReadExpiry, WriteExpiry, DeleteActivations, DeleteTx,
             ReadCoupon, ReadLicense
        <5> QED BY <5>1
      <4> QED BY <4>1, <4>2, <4>3, <4>4
    <3> QED BY <1>1, <1>2, <3>1, <3>2, RedeemersFinite, RedeemersFiniteNext
  <2> QED BY <2>1, <2>2, <2>3
<1> QED BY <1>3, <1>4 DEF Next

(* A coupon extends at most as many licences as there were handlers at once: the
   race between redeem's check and its transaction has no other consequence. *)
THEOREM CouponOveruse == Spec => []CouponOveruseBounded
<1>1. Spec => [](TypeInv /\ CouponBound)
  BY TypeInit, TypeStep, CouponInit, CouponStep, PTL DEF Spec
<1>2. TypeInv /\ CouponBound => CouponOveruseBounded
  <2> SUFFICES ASSUME TypeInv, CouponBound, NEW c \in Codes
               PROVE  credits[c] <= Cardinality(Handlers)
    BY DEF CouponOveruseBounded
  <2>1. credits[c] \in Nat /\ credits[c] + Cardinality(Redeemers(c)) <= Cardinality(Handlers)
    BY DEF TypeInv, TypeOK, CouponBound
  <2> QED BY <2>1, RedeemersFinite
<1> QED BY <1>1, <1>2, PTL

-----------------------------------------------------------------------------
(* Where a verify request is tells what it has seen to be true: what is true now
   has been seen, and each check that was passed was passed when it was true. *)
VerifyInv ==
  \A r \in Handlers :
    req[r].op = "verify" =>
      /\ req[r].at \in {"get_license", "find_activation", "touch"}
      /\ Facts(r) \subseteq saw[r]
      /\ req[r].at # "get_license" => "licensed" \in saw[r]
      /\ req[r].at = "touch" => "registered" \in saw[r]

(* What a step by r does to a handler that is, or becomes, a verify request. *)
LEMMA VerifyMoves ==
  ASSUME TypeInv, VerifyInv, NEW r \in Handlers, Request(r) \/ Step(r) \/ Abort(r),
         NEW h \in Handlers, req'[h].op = "verify"
  PROVE  \/ req'[h].at = "get_license"
         \/ req'[h] = req[h]
         \/ /\ req[h].op = "verify" /\ req'[h].at = "find_activation"
            /\ "licensed" \in Facts(h)
         \/ /\ req[h].op = "verify" /\ req'[h].at = "touch"
            /\ req[h].at = "find_activation" /\ "registered" \in Facts(h)
<1> USE DEF TypeInv
<1>0. Idle.op # "verify"
  BY NoneAssumption DEF Idle, Endpoints
<1>1. CASE Answer(r)
  BY <1>0, <1>1 DEF Answer, TypeOK
<1>2. CASE GetLicense(r) /\ ~Answer(r)
  <2>1. req' = [req EXCEPT ![r].at = IF req[r].op = "reset_hardware" THEN "reset_tx"
                                     ELSE "find_activation"]
        /\ ~Refused(req[r].op, licenses[Canonical[req[r].key]])
    BY <1>2 DEF GetLicense, Await
  <2>2. CASE h = r
    <3>1. req[r].op = "verify" /\ req'[r].at = "find_activation"
      BY <2>1, <2>2 DEF TypeOK
    <3>2. "licensed" \in Facts(r)
      BY <2>1, <3>1 DEF Facts, Refused
    <3> QED BY <2>2, <3>1, <3>2
  <2>3. CASE h # r
    BY <2>1, <2>3 DEF TypeOK
  <2> QED BY <2>2, <2>3
<1>3. CASE FindActivation(r) /\ ~Answer(r)
  <2>1. \/ /\ req' = [req EXCEPT ![r].at = "touch"]
           /\ req[r].at = "find_activation" /\ <<req[r].key, req[r].dev>> \in activations
        \/ req' = [req EXCEPT ![r].at = "count"] /\ req[r].op = "activate"
    BY <1>3 DEF FindActivation, Await
  <2>2. CASE h = r
    BY <2>1, <2>2 DEF TypeOK, Facts
  <2>3. CASE h # r
    BY <2>1, <2>3 DEF TypeOK
  <2> QED BY <2>2, <2>3
<1>4. CASE (CountActivations(r) \/ ReadExpiry(r) \/ ReadCoupon(r) \/ ReadLicense(r)) /\ ~Answer(r)
  <2>1. /\ req[r].at \in {"count", "read_expiry", "read_coupon", "read_license"}
        /\ \E point, until : \/ req' = [req EXCEPT ![r].at = point]
                             \/ req' = [req EXCEPT ![r].at = point, ![r].until = until]
    BY <1>4 DEF CountActivations, ReadExpiry, ReadCoupon, ReadLicense, Await, AwaitWith
  <2>2. req[r].op # "verify"
    BY <2>1 DEF VerifyInv
  <2>3. CASE h = r
    <3>1. req'[r].op = req[r].op
      BY <2>1 DEF TypeOK
    <3> QED BY <2>2, <2>3, <3>1
  <2>4. CASE h # r
    BY <2>1, <2>4 DEF TypeOK
  <2> QED BY <2>3, <2>4
<1>5. CASE Request(r)
  <2>1. ASSUME NEW op \in Endpoints, NEW key, NEW dev, NEW code, Arrive(r, op, key, dev, code)
        PROVE  req'[h].at = "get_license" \/ req'[h] = req[h]
    BY <2>1 DEF Arrive, FirstAwait, TypeOK
  <2> QED BY <1>5, <2>1, OpsAssumption DEF Request, Endpoints
<1>6. CASE \/ Touch(r) \/ InsertActivation(r) \/ DeleteActivation(r) \/ ResetTx(r)
           \/ InsertLicense(r) \/ SetRevoked(r) \/ WriteExpiry(r) \/ DeleteActivations(r)
           \/ DeleteTx(r) \/ InsertCoupon(r) \/ DeleteCoupon(r) \/ RedeemTx(r) \/ Abort(r)
  BY <1>1, <1>6
     DEF Touch, InsertActivation, DeleteActivation, ResetTx, InsertLicense, SetRevoked,
         WriteExpiry, DeleteActivations, DeleteTx, InsertCoupon, DeleteCoupon, RedeemTx, Abort
<1> QED BY <1>1, <1>2, <1>3, <1>4, <1>5, <1>6 DEF Step

(* Every step keeps what a verify request has passed among what was true of it. *)
LEMMA VerifyStep == TypeInv /\ VerifyInv /\ [Next]_vars => VerifyInv'
<1> SUFFICES ASSUME TypeInv, VerifyInv, [Next]_vars, NEW h \in Handlers, req'[h].op = "verify"
             PROVE  /\ req'[h].at \in {"get_license", "find_activation", "touch"}
                    /\ Facts(h)' \subseteq saw'[h]
                    /\ req'[h].at # "get_license" => "licensed" \in saw'[h]
                    /\ req'[h].at = "touch" => "registered" \in saw'[h]
  BY DEF VerifyInv
<1>1. CASE UNCHANGED vars
  BY <1>1 DEF vars, tables, VerifyInv, Facts, Expired
<1>2. CASE Next
  <2>1. saw'[h] = saw[h] \cup Facts(h)'
    BY <1>2 DEF Next, Observe
  <2>2. \/ req'[h].at = "get_license"
        \/ req'[h] = req[h]
        \/ /\ req[h].op = "verify" /\ req'[h].at = "find_activation"
           /\ "licensed" \in Facts(h)
        \/ /\ req[h].op = "verify" /\ req'[h].at = "touch"
           /\ req[h].at = "find_activation" /\ "registered" \in Facts(h)
    <3>1. Tick => req' = req
      BY DEF Tick
    <3> QED BY <1>2, <3>1, VerifyMoves DEF Next
  <2> QED BY <2>1, <2>2 DEF VerifyInv
<1> QED BY <1>1, <1>2

(* However verify's two reads interleave with revocations, expiry, deletions and
   device removals, "valid" was true, piece by piece, while the request was served. *)
THEOREM VerifyAnswers == Spec => []VerifyNotStale
<1>1. Init => VerifyInv
  BY NoneAssumption DEF Init, VerifyInv, Idle, Endpoints
<1>2. Spec => [](TypeInv /\ VerifyInv)
  BY <1>1, TypeInit, TypeStep, VerifyStep, PTL DEF Spec
<1>3. TypeInv /\ VerifyInv => VerifyNotStale
  BY DEF TypeInv, TypeOK, VerifyInv, VerifyNotStale
<1> QED BY <1>2, <1>3, PTL

=============================================================================
