------------------------- MODULE ServerAccessProofs -------------------------
(***************************************************************************)
(* Who the licence server lets in: the administrator's login (AdminAccess) *)
(* and the rate limiter (RateLimiter), for any number of requests, clients *)
(* and passwords and any limits.                                           *)
(*                                                                         *)
(* FailuresBounded is not inductive: a failure is counted when an attempt  *)
(* ends.  What no step raises is the failures counted plus the attempts    *)
(* admitted and not ended.  Nor is WindowBounded: what was admitted must be*)
(* tied to the buckets, which the collector thins out.                     *)
(***************************************************************************)
EXTENDS AdminAccess, RateLimiter, FiniteSetTheorems, TLAPS

RequestType ==
  [op : {"none", "login", "change"},
   at : {"idle", "select", "insert", "update", "audit", "audit_failed"},
   client : Clients \cup {Missing}, password : Passwords \cup {Missing},
   new : Passwords \cup {Missing}, saw : SUBSET (Passwords \cup {Missing})]

RecordType == [count : Nat, lockedUntil : Nat]

(* The attempts of a client that were admitted and have not ended. *)
Pending(c) ==
  {r \in Requests : /\ inFlight[r].op = "login" /\ inFlight[r].client = c
                    /\ inFlight[r].at \in {"select", "insert"}}

PendingBounded ==
  \A c \in Clients :
    loginAttempts[c].count + Cardinality(Pending(c)) < MaxFailed + Cardinality(Requests)

(* What a request carries: a login and its client, a change and its new
   password. *)
CarriesWhatItNeeds ==
  \A r \in Requests :
    /\ inFlight[r].op = "login" => inFlight[r].client \in Clients
    /\ inFlight[r].at \in {"select", "insert"} =>
         inFlight[r].op \in {"login", "change"} /\ inFlight[r].password \in Passwords
    /\ inFlight[r].op = "change" => inFlight[r].new \in Passwords
    /\ inFlight[r].at = "update" => inFlight[r].op = "change"

SawIsCurrent ==
  \A r \in Requests :
    /\ inFlight[r].at = "select" => Master \in inFlight[r].saw
    /\ inFlight[r].at \in {"insert", "update", "audit"} /\ inFlight[r].op # "none" =>
         inFlight[r].password \in inFlight[r].saw

(* A first login that could bring ADMIN_SECRET back is on the list. *)
OvertakenIsComplete ==
  \A r \in Requests : inFlight[r].at = "insert" /\ r \notin overtaken => changedTo = Missing

AdminInv ==
  AdminTypeOK /\ CarriesWhatItNeeds /\ SawIsCurrent /\ OvertakenIsComplete /\ ChangeSticks

USE DEF Idle, NoRecord, RequestType, RecordType

(* The two records that every step of admin.ts reads or writes. *)
LEMMA TypeOf ==
  ASSUME AdminTypeOK
  PROVE  /\ inFlight \in [Requests -> RequestType]
         /\ loginAttempts \in [Clients -> RecordType]
  BY DEF AdminTypeOK

(* The parts of a step that several actions share, each for its types. *)
LEMMA InvalidType ==
  ASSUME AdminTypeOK, CarriesWhatItNeeds, NEW r \in Requests, Invalid(r)
  PROVE  /\ inFlight' \in [Requests -> RequestType]
         /\ loginAttempts' \in [Clients -> RecordType]
         /\ activeSessions' = activeSessions
         /\ \A q \in Requests : q # r => inFlight'[q] = inFlight[q]
         /\ inFlight'[r].at \in {"idle", "audit_failed"}
         /\ inFlight'[r].op \in {"none", inFlight[r].op}
         /\ inFlight'[r].client = inFlight[r].client \/ inFlight'[r].op = "none"
         /\ inFlight'[r].new = inFlight[r].new \/ inFlight'[r].op = "none"
  <1> USE TypeOf
  <1>1. CASE inFlight[r].op = "login"
    <2>1. inFlight[r].client \in Clients
      BY <1>1 DEF CarriesWhatItNeeds
    <2>2. loginAttempts' \in [Clients -> RecordType]
      BY <1>1, <2>1, LimitsAssumption DEF Invalid, RecordFailedAttempt, AdminTypeOK
    <2>3. inFlight' = [inFlight EXCEPT ![r].at = "audit_failed"] /\ activeSessions' = activeSessions
      BY <1>1 DEF Invalid, Go
    <2> QED
      BY <2>2, <2>3, SMTT(30)
  <1>2. CASE inFlight[r].op # "login"
    <2>1. /\ inFlight' = [inFlight EXCEPT ![r] = Idle]
          /\ UNCHANGED <<loginAttempts, activeSessions>>
      BY <1>2 DEF Invalid, Done
    <2> QED
      BY <2>1
  <1> QED
    BY <1>1, <1>2

(* A right password keeps the types, and moves no request by itself. *)
LEMMA ValidType ==
  ASSUME AdminTypeOK, CarriesWhatItNeeds, NEW r \in Requests, Valid(r)
  PROVE  loginAttempts' \in [Clients -> RecordType] /\ activeSessions' \subseteq Nat
  <1>1. CASE inFlight[r].op = "login"
    <2>1. clock + SessionTime \in Nat
      BY LimitsAssumption DEF AdminTypeOK
    <2>2. activeSessions' \subseteq Nat
      BY <1>1, <2>1 DEF Valid, AdminTypeOK
    <2>3. loginAttempts' = [loginAttempts EXCEPT ![inFlight[r].client] = NoRecord]
      BY <1>1 DEF Valid
    <2> QED
      BY <2>2, <2>3, TypeOf
  <1>2. CASE inFlight[r].op # "login"
    BY <1>2, TypeOf DEF Valid, AdminTypeOK
  <1> QED
    BY <1>1, <1>2

(* Writing the hash keeps the types. *)
LEMMA StoreHashType ==
  ASSUME AdminTypeOK, NEW r \in Requests, NEW p \in Passwords,
         NEW at \in {"update", "audit"}, StoreHash(r, p, at)
  PROVE  /\ inFlight' \in [Requests -> RequestType]
         /\ adminHash' = p
         /\ inFlight'[r] = [inFlight[r] EXCEPT !.at = at]
         /\ \A q \in Requests \ {r} :
              /\ inFlight'[q].op = inFlight[q].op /\ inFlight'[q].at = inFlight[q].at
              /\ inFlight'[q].client = inFlight[q].client /\ inFlight'[q].new = inFlight[q].new
              /\ inFlight'[q].password = inFlight[q].password
              /\ inFlight[q].at # "idle" => inFlight'[q].saw = inFlight[q].saw \cup {p}
  BY TypeOf DEF StoreHash

(* A server just installed has no hash, no session and no request. *)
LEMMA AdminInvInit == AdminInit => AdminInv
  <1> SUFFICES ASSUME AdminInit PROVE AdminInv
    OBVIOUS
  <1>1. AdminTypeOK
    BY DEF AdminInit, AdminTypeOK
  <1>2. CarriesWhatItNeeds /\ SawIsCurrent /\ OvertakenIsComplete /\ ChangeSticks
    BY DEF AdminInit, CarriesWhatItNeeds, SawIsCurrent, OvertakenIsComplete, ChangeSticks
  <1> QED
    BY <1>1, <1>2 DEF AdminInv

(* Every statement of the two endpoints, timer and restart keeps AdminInv. *)
LEMMA AdminInvNext == AdminInv /\ [AdminNext]_adminVars => AdminInv'
  <1> SUFFICES ASSUME AdminInv, [AdminNext]_adminVars PROVE AdminInv'
    OBVIOUS
  <1> USE TypeOf DEF AdminInv
  <1>1. ASSUME NEW r \in Requests, NEW c \in Clients, NEW p \in Passwords, Login(r, c, p)
        PROVE  AdminInv'
    <2>1. /\ inFlight' = [inFlight EXCEPT ![r] =
               [op |-> "login", at |-> "select", client |-> c, password |-> p,
                new |-> Missing, saw |-> {Master}]]
          /\ UNCHANGED <<adminHash, adminSecret, activeSessions, clock, changedTo, overtaken>>
      BY <1>1 DEF Login, Arrive
    <2>2. Master \in Passwords \cup {Missing} /\ Master' = Master
      BY <2>1, SecretsAssumption DEF Master, AdminTypeOK
    <2>3. loginAttempts' \in [Clients -> RecordType]
      BY <1>1 DEF Login, AfterCheck
    <2>4. AdminTypeOK'
      BY <2>1, <2>2, <2>3 DEF AdminTypeOK
    <2>5. CarriesWhatItNeeds' /\ SawIsCurrent' /\ OvertakenIsComplete' /\ ChangeSticks'
      BY <2>1, <2>2 DEF CarriesWhatItNeeds, SawIsCurrent, OvertakenIsComplete, ChangeSticks
    <2> QED
      BY <2>4, <2>5
  <1>2. ASSUME NEW r \in Requests, NEW s \in activeSessions, NEW c \in Clients,
               NEW p \in Passwords, NEW new \in Passwords, ChangePassword(r, s, c, p, new)
        PROVE  AdminInv'
    <2>1. UNCHANGED <<adminHash, adminSecret, loginAttempts, clock, changedTo, overtaken>>
      BY <1>2 DEF ChangePassword
    <2>2. Master \in Passwords \cup {Missing} /\ Master' = Master
      BY <2>1, SecretsAssumption DEF Master, AdminTypeOK
    <2>3. CASE /\ activeSessions' = activeSessions
               /\ inFlight' = [inFlight EXCEPT ![r] =
                    [op |-> "change", at |-> "select", client |-> c, password |-> p,
                     new |-> new, saw |-> {Master}]]
      <3>1. AdminTypeOK'
        BY <2>1, <2>2, <2>3 DEF AdminTypeOK
      <3>2. CarriesWhatItNeeds' /\ SawIsCurrent' /\ OvertakenIsComplete' /\ ChangeSticks'
        BY <2>1, <2>2, <2>3 DEF CarriesWhatItNeeds, SawIsCurrent, OvertakenIsComplete, ChangeSticks
      <3> QED
        BY <3>1, <3>2
    <2>4. CASE activeSessions' = activeSessions \ {s} /\ inFlight' = inFlight
      <3>1. AdminTypeOK'
        BY <2>1, <2>4 DEF AdminTypeOK
      <3>2. CarriesWhatItNeeds' /\ SawIsCurrent' /\ OvertakenIsComplete' /\ ChangeSticks'
        BY <2>1, <2>2, <2>4 DEF CarriesWhatItNeeds, SawIsCurrent, OvertakenIsComplete, ChangeSticks
      <3> QED
        BY <3>1, <3>2
    <2> QED
      BY <1>2, <2>3, <2>4 DEF ChangePassword, Arrive
  <1>3. ASSUME NEW r \in Requests, Select(r)
        PROVE  AdminInv'
    <2>1. /\ UNCHANGED <<adminHash, adminSecret, clock, changedTo, overtaken>>
          /\ inFlight[r].at = "select" /\ inFlight[r].password \in Passwords
          /\ inFlight[r].op \in {"login", "change"} /\ Master \in inFlight[r].saw
      BY <1>3 DEF Select, CarriesWhatItNeeds, SawIsCurrent
    <2>2. Master' = Master
      BY <2>1 DEF Master
    <2>3. CASE /\ Verdict(inFlight[r].password) = "valid" /\ Valid(r) /\ Go(r, AfterValid(r))
      <3>1. inFlight[r].password = Master
        BY <2>3 DEF Verdict, Master
      <3>2. /\ inFlight' = [inFlight EXCEPT ![r].at = AfterValid(r)]
            /\ AfterValid(r) \in {"audit", "update"}
            /\ AfterValid(r) = "update" => inFlight[r].op = "change"
        BY <2>1, <2>3 DEF Go, AfterValid
      <3>3. AdminTypeOK'
        <4>1. inFlight' \in [Requests -> RequestType]
          BY <3>2
        <4>2. loginAttempts' \in [Clients -> RecordType] /\ activeSessions' \subseteq Nat
          BY <2>3, ValidType
        <4> QED
          BY <2>1, <4>1, <4>2 DEF AdminTypeOK
      <3>4. CarriesWhatItNeeds' /\ SawIsCurrent'
        BY <2>1, <2>2, <3>1, <3>2 DEF CarriesWhatItNeeds, SawIsCurrent
      <3>5. OvertakenIsComplete' /\ ChangeSticks'
        BY <2>1, <3>2 DEF OvertakenIsComplete, ChangeSticks
      <3> QED
        BY <3>3, <3>4, <3>5
    <2>4. CASE /\ Verdict(inFlight[r].password) = "first" /\ Go(r, "insert")
               /\ UNCHANGED <<loginAttempts, activeSessions>>
      <3>1. inFlight[r].password = Master /\ adminHash = Missing
        BY <2>4 DEF Verdict, Master
      <3>2. inFlight' = [inFlight EXCEPT ![r].at = "insert"]
        BY <2>4 DEF Go
      <3>3. AdminTypeOK'
        BY <2>1, <2>4, <3>2 DEF AdminTypeOK
      <3>4. CarriesWhatItNeeds' /\ SawIsCurrent'
        BY <2>1, <2>2, <3>1, <3>2 DEF CarriesWhatItNeeds, SawIsCurrent
      <3>5. OvertakenIsComplete' /\ ChangeSticks'
        BY <2>1, <3>1, <3>2 DEF OvertakenIsComplete, ChangeSticks
      <3> QED
        BY <3>3, <3>4, <3>5
    <2>5. CASE Done(r) /\ UNCHANGED <<loginAttempts, activeSessions>>
      <3>1. inFlight' = [inFlight EXCEPT ![r] = Idle]
        BY <2>5 DEF Done
      <3>2. AdminTypeOK'
        BY <2>1, <2>5, <3>1 DEF AdminTypeOK
      <3>3. CarriesWhatItNeeds' /\ SawIsCurrent' /\ OvertakenIsComplete' /\ ChangeSticks'
        BY <2>1, <2>2, <3>1 DEF CarriesWhatItNeeds, SawIsCurrent, OvertakenIsComplete, ChangeSticks
      <3> QED
        BY <3>2, <3>3
    <2>6. CASE Invalid(r)
      <3>1. AdminTypeOK'
        BY <2>1, <2>6, InvalidType DEF AdminTypeOK
      <3>2. CarriesWhatItNeeds'
        BY <2>1, <2>6, InvalidType, SMTT(30) DEF CarriesWhatItNeeds
      <3>3. SawIsCurrent'
        BY <2>1, <2>2, <2>6, InvalidType, SMTT(30) DEF SawIsCurrent
      <3>4. OvertakenIsComplete' /\ ChangeSticks'
        BY <2>1, <2>2, <2>6, InvalidType, SMTT(30) DEF OvertakenIsComplete, ChangeSticks
      <3> QED
        BY <3>1, <3>2, <3>3, <3>4
    <2> QED
      BY <1>3, <2>3, <2>4, <2>5, <2>6 DEF Select
  <1>4. ASSUME NEW r \in Requests, Insert(r)
        PROVE  AdminInv'
    <2> DEFINE p == inFlight[r].password
               at == AfterValid(r)
    <2>1. /\ inFlight[r].at = "insert" /\ p \in Passwords /\ at \in {"update", "audit"}
          /\ at = "update" => inFlight[r].op = "change"
          /\ inFlight[r].password \in inFlight[r].saw /\ inFlight[r].op \in {"login", "change"}
      BY <1>4 DEF Insert, AfterValid, CarriesWhatItNeeds, SawIsCurrent
    <2>2. /\ StoreHash(r, p, at) /\ Valid(r) /\ overtaken' = overtaken \ {r}
          /\ changedTo' = (IF r \in overtaken THEN Missing ELSE changedTo)
          /\ UNCHANGED <<adminSecret, clock>>
      BY <1>4 DEF Insert
    <2> HIDE DEF p, at
    <2>3. /\ inFlight' \in [Requests -> RequestType] /\ adminHash' = p
          /\ inFlight'[r] = [inFlight[r] EXCEPT !.at = at]
          /\ \A q \in Requests \ {r} :
               /\ inFlight'[q].op = inFlight[q].op /\ inFlight'[q].at = inFlight[q].at
               /\ inFlight'[q].client = inFlight[q].client /\ inFlight'[q].new = inFlight[q].new
               /\ inFlight'[q].password = inFlight[q].password
               /\ inFlight[q].at # "idle" => inFlight'[q].saw = inFlight[q].saw \cup {p}
      BY <2>1, <2>2 DEF StoreHash
    <2>4. changedTo' = Missing
      BY <2>1, <2>2 DEF OvertakenIsComplete
    <2>5. Master' = p
      BY <2>1, <2>3, MissingAssumption DEF Master
    <2>6. AdminTypeOK'
      <3>1. loginAttempts' \in [Clients -> RecordType] /\ activeSessions' \subseteq Nat
        BY <2>2, ValidType
      <3> QED
        BY <2>1, <2>2, <2>3, <2>4, <3>1 DEF AdminTypeOK
    <2>7. CarriesWhatItNeeds'
      BY <2>1, <2>3, SMTT(30) DEF CarriesWhatItNeeds
    <2>7a. SawIsCurrent'
      BY <2>1, <2>3, <2>5 DEF SawIsCurrent
    <2>8. OvertakenIsComplete' /\ ChangeSticks'
      BY <2>4 DEF OvertakenIsComplete, ChangeSticks
    <2> QED
      BY <2>6, <2>7, <2>7a, <2>8
  <1>5. ASSUME NEW r \in Requests, VerifyFails(r)
        PROVE  AdminInv'
    <2>1. /\ UNCHANGED <<adminHash, adminSecret, clock, changedTo>> /\ Invalid(r)
          /\ overtaken' = overtaken \ {r}
      BY <1>5 DEF VerifyFails
    <2>2. Master' = Master
      BY <2>1 DEF Master
    <2>3. AdminTypeOK'
      BY <2>1, InvalidType DEF AdminTypeOK
    <2>4. CarriesWhatItNeeds' /\ SawIsCurrent' /\ OvertakenIsComplete' /\ ChangeSticks'
      BY <2>1, <2>2, InvalidType, SMTT(30)
      DEF CarriesWhatItNeeds, SawIsCurrent, OvertakenIsComplete, ChangeSticks
    <2> QED
      BY <2>3, <2>4
  <1>6. ASSUME NEW r \in Requests, Update(r)
        PROVE  AdminInv'
    <2> DEFINE p == inFlight[r].new
    <2>1. /\ inFlight[r].at = "update" /\ p \in Passwords /\ inFlight[r].op = "change"
          /\ inFlight[r].password \in inFlight[r].saw
      BY <1>6 DEF Update, CarriesWhatItNeeds, SawIsCurrent
    <2>2. /\ StoreHash(r, p, "audit") /\ changedTo' = p
          /\ overtaken' = {q \in Requests : inFlight[q].at = "insert"}
          /\ UNCHANGED <<adminSecret, loginAttempts, activeSessions, clock>>
      BY <1>6 DEF Update
    <2> HIDE DEF p
    <2>3. /\ inFlight' \in [Requests -> RequestType] /\ adminHash' = p
          /\ inFlight'[r] = [inFlight[r] EXCEPT !.at = "audit"]
          /\ \A q \in Requests \ {r} :
               /\ inFlight'[q].op = inFlight[q].op /\ inFlight'[q].at = inFlight[q].at
               /\ inFlight'[q].client = inFlight[q].client /\ inFlight'[q].new = inFlight[q].new
               /\ inFlight'[q].password = inFlight[q].password
               /\ inFlight[q].at # "idle" => inFlight'[q].saw = inFlight[q].saw \cup {p}
      BY <2>1, <2>2, StoreHashType
    <2>4. Master' = p
      BY <2>1, <2>3, MissingAssumption DEF Master
    <2>5. AdminTypeOK'
      BY <2>1, <2>2, <2>3 DEF AdminTypeOK
    <2>6. CarriesWhatItNeeds'
      BY <2>1, <2>3 DEF CarriesWhatItNeeds
    <2>6a. SawIsCurrent'
      BY <2>1, <2>3, <2>4 DEF SawIsCurrent
    <2>7. OvertakenIsComplete' /\ ChangeSticks'
      BY <2>1, <2>2, <2>3 DEF OvertakenIsComplete, ChangeSticks
    <2> QED
      BY <2>5, <2>6, <2>6a, <2>7
  <1>7. ASSUME NEW r \in Requests, UpdateFails(r) \/ RecordAudit(r)
        PROVE  AdminInv'
    <2>1. /\ inFlight' = [inFlight EXCEPT ![r] = Idle]
          /\ UNCHANGED <<adminHash, adminSecret, loginAttempts, activeSessions, clock, changedTo,
                         overtaken>>
      BY <1>7 DEF UpdateFails, RecordAudit, Done
    <2>2. Master' = Master
      BY <2>1 DEF Master
    <2>3. AdminTypeOK'
      BY <2>1 DEF AdminTypeOK
    <2>4. CarriesWhatItNeeds' /\ SawIsCurrent' /\ OvertakenIsComplete' /\ ChangeSticks'
      BY <2>1, <2>2 DEF CarriesWhatItNeeds, SawIsCurrent, OvertakenIsComplete, ChangeSticks
    <2> QED
      BY <2>3, <2>4
  <1>8. ASSUME CleanupAttempts \/ CleanupSessions \/ Tick
        PROVE  AdminInv'
    <2>1. UNCHANGED <<adminHash, adminSecret, inFlight, changedTo, overtaken>>
      BY <1>8 DEF CleanupAttempts, CleanupSessions, Tick
    <2>2. /\ loginAttempts' \in [Clients -> RecordType]
          /\ activeSessions' \subseteq Nat /\ clock' \in Nat
      <3>1. CASE CleanupAttempts
        BY <3>1 DEF CleanupAttempts, AdminTypeOK
      <3>2. CASE CleanupSessions
        BY <3>2 DEF CleanupSessions, AdminTypeOK
      <3>3. CASE Tick
        BY <3>3 DEF Tick, AdminTypeOK
      <3> QED
        BY <1>8, <3>1, <3>2, <3>3
    <2>3. Master' = Master
      BY <2>1 DEF Master
    <2>4. AdminTypeOK'
      BY <2>1, <2>2 DEF AdminTypeOK
    <2>5. CarriesWhatItNeeds' /\ SawIsCurrent' /\ OvertakenIsComplete' /\ ChangeSticks'
      BY <2>1, <2>3 DEF CarriesWhatItNeeds, SawIsCurrent, OvertakenIsComplete, ChangeSticks
    <2> QED
      BY <2>4, <2>5
  <1>9. CASE Restart
    <2>1. AdminTypeOK'
      BY <1>9 DEF Restart, AdminTypeOK
    <2>2. CarriesWhatItNeeds' /\ SawIsCurrent' /\ OvertakenIsComplete' /\ ChangeSticks'
      BY <1>9 DEF Restart, CarriesWhatItNeeds, SawIsCurrent, OvertakenIsComplete, ChangeSticks
    <2> QED
      BY <2>1, <2>2
  <1>10. CASE UNCHANGED adminVars
    <2>1. Master' = Master
      BY <1>10 DEF Master, adminVars
    <2> QED
      BY <1>10, <2>1 DEF AdminTypeOK, CarriesWhatItNeeds, SawIsCurrent, OvertakenIsComplete,
                         ChangeSticks, adminVars
  <1> QED
    BY <1>1, <1>2, <1>3, <1>4, <1>5, <1>6, <1>7, <1>8, <1>9, <1>10 DEF AdminNext

(* Every variable of the model of admin.ts keeps its type. *)
THEOREM AdminTypeCorrect == AdminSpec => []AdminTypeOK
  <1>1. AdminInv => AdminTypeOK
    BY DEF AdminInv
  <1> QED
    BY <1>1, AdminInvInit, AdminInvNext, PTL DEF AdminSpec

(* A changed password is in force until the next change, but for a first
   login that had already found no hash. *)
THEOREM ChangeAlwaysSticks == AdminSpec => []ChangeSticks
  <1>1. AdminInv => ChangeSticks
    BY DEF AdminInv
  <1> QED
    BY <1>1, AdminInvInit, AdminInvNext, PTL DEF AdminSpec

(* Who was let in gave a password that was right while the request ran. *)
THEOREM PasswordAlwaysRight == AdminSpec => []PasswordWasRight
  <1>1. AdminInv => PasswordWasRight
    BY DEF AdminInv, SawIsCurrent, PasswordWasRight
  <1> QED
    BY <1>1, AdminInvInit, AdminInvNext, PTL DEF AdminSpec

(* The bound survives a step that adds neither failures nor attempts. *)
LEMMA NoMorePending ==
  ASSUME AdminTypeOK, PendingBounded, loginAttempts' \in [Clients -> RecordType],
         \A c \in Clients : /\ loginAttempts'[c].count <= loginAttempts[c].count
                            /\ Pending(c)' \subseteq Pending(c)
  PROVE  PendingBounded'
  <1> SUFFICES ASSUME NEW c \in Clients
               PROVE  loginAttempts'[c].count + Cardinality(Pending(c)')
                        < MaxFailed + Cardinality(Requests)
    BY DEF PendingBounded
  <1>1. IsFiniteSet(Pending(c)) /\ Pending(c)' \subseteq Pending(c)
    BY RequestsAssumption, FS_Subset DEF Pending
  <1>2. /\ IsFiniteSet(Pending(c)')
        /\ Cardinality(Pending(c)') <= Cardinality(Pending(c))
    BY <1>1, FS_Subset
  <1>3. /\ Cardinality(Pending(c)) \in Nat /\ Cardinality(Pending(c)') \in Nat
        /\ Cardinality(Requests) \in Nat
    BY <1>1, <1>2, RequestsAssumption, FS_CardinalityType
  <1>4. loginAttempts[c].count \in Nat /\ loginAttempts'[c].count \in Nat
    BY TypeOf
  <1>5. loginAttempts[c].count + Cardinality(Pending(c)) < MaxFailed + Cardinality(Requests)
    BY DEF PendingBounded
  <1> QED
    BY <1>2, <1>3, <1>4, <1>5, LimitsAssumption

(* A failed attempt is counted and no longer pending. *)
LEMMA FailureIsCounted ==
  ASSUME AdminTypeOK, CarriesWhatItNeeds, PendingBounded, NEW r \in Requests,
         inFlight[r].at \in {"select", "insert"}, Invalid(r)
  PROVE  PendingBounded'
  <1>1. CASE inFlight[r].op # "login"
    <2>1. inFlight' = [inFlight EXCEPT ![r] = Idle] /\ loginAttempts' = loginAttempts
      BY <1>1 DEF Invalid, Done
    <2>2. \A c \in Clients : Pending(c)' \subseteq Pending(c)
      BY <2>1, TypeOf DEF Pending
    <2>3. \A c \in Clients : loginAttempts'[c].count <= loginAttempts[c].count
      BY <2>1, TypeOf
    <2> QED
      BY <2>1, <2>2, <2>3, NoMorePending, TypeOf
  <1>2. CASE inFlight[r].op = "login"
    <2>0. PICK d \in Clients : inFlight[r].client = d
      BY <1>2 DEF CarriesWhatItNeeds
    <2>1. /\ d \in Clients
          /\ inFlight' = [inFlight EXCEPT ![r].at = "audit_failed"]
          /\ \A c \in Clients \ {d} : loginAttempts'[c] = loginAttempts[c]
          /\ loginAttempts'[d].count = loginAttempts[d].count + 1
      BY <1>2, <2>0, TypeOf DEF Invalid, Go, RecordFailedAttempt
    <2>2. r \in Pending(d) /\ Pending(d)' = Pending(d) \ {r}
      BY <1>2, <2>0, <2>1, TypeOf DEF Pending
    <2>3. \A c \in Clients \ {d} : Pending(c)' = Pending(c)
      BY <1>2, <2>0, <2>1, TypeOf DEF Pending
    <2>4. IsFiniteSet(Pending(d))
      BY RequestsAssumption, FS_Subset DEF Pending
    <2>5. /\ Cardinality(Pending(d)) \in Nat /\ Cardinality(Requests) \in Nat
          /\ Cardinality(Pending(d)') = Cardinality(Pending(d)) - 1
      BY <2>2, <2>4, RequestsAssumption, FS_CardinalityType, FS_RemoveElement
    <2> SUFFICES ASSUME NEW c \in Clients
                 PROVE  loginAttempts'[c].count + Cardinality(Pending(c)')
                          < MaxFailed + Cardinality(Requests)
      BY DEF PendingBounded
    <2>6. loginAttempts[c].count + Cardinality(Pending(c)) < MaxFailed + Cardinality(Requests)
      BY DEF PendingBounded
    <2>7. CASE c = d
      <3>1. loginAttempts[d].count \in Nat
        BY <2>1, TypeOf
      <3>2. loginAttempts[d].count + Cardinality(Pending(d)) < MaxFailed + Cardinality(Requests)
        BY <2>1 DEF PendingBounded
      <3>3. loginAttempts'[d].count = loginAttempts[d].count + 1
        BY <2>1
      <3>4. loginAttempts'[d].count + Cardinality(Pending(d)')
              < MaxFailed + Cardinality(Requests)
        BY <2>5, <3>1, <3>2, <3>3, LimitsAssumption
      <3> QED
        BY <2>7, <3>4
    <2>8. CASE c # d
      BY <2>1, <2>3, <2>6, <2>8
    <2> QED
      BY <2>7, <2>8
  <1> QED
    BY <1>1, <1>2

(* Nothing is counted or pending at the start. *)
LEMMA PendingBoundedInit == AdminInit => PendingBounded
  <1> SUFFICES ASSUME AdminInit, NEW c \in Clients
               PROVE  loginAttempts[c].count + Cardinality(Pending(c))
                        < MaxFailed + Cardinality(Requests)
    BY DEF PendingBounded
  <1>1. Pending(c) = {} /\ loginAttempts[c].count = 0
    BY DEF AdminInit, Pending
  <1>2. Cardinality({}) = 0 /\ Cardinality(Requests) \in Nat
    BY FS_EmptySet, FS_CardinalityType, RequestsAssumption
  <1> QED
    BY <1>1, <1>2, LimitsAssumption

(* checkRateLimit admits an attempt below the limit only; every other step
   counts no more than it ends. *)
LEMMA PendingBoundedNext ==
  AdminInv /\ AdminInv' /\ PendingBounded /\ [AdminNext]_adminVars => PendingBounded'
  <1> SUFFICES ASSUME AdminInv, AdminInv', PendingBounded, [AdminNext]_adminVars
               PROVE  PendingBounded'
    OBVIOUS
  <1> USE TypeOf DEF AdminInv
  <1>0. loginAttempts' \in [Clients -> RecordType]
    BY DEF AdminTypeOK
  <1>1. ASSUME NEW r \in Requests, NEW c \in Clients, NEW p \in Passwords, Login(r, c, p)
        PROVE  PendingBounded'
    <2>1. /\ inFlight[r] = Idle
          /\ inFlight' = [inFlight EXCEPT ![r] =
               [op |-> "login", at |-> "select", client |-> c, password |-> p,
                new |-> Missing, saw |-> {Master}]]
          /\ \A d \in Clients \ {c} : loginAttempts'[d] = loginAttempts[d]
      BY <1>1 DEF Login, Arrive, AfterCheck
    <2>2. loginAttempts'[c].count < MaxFailed
      BY <1>1, LimitsAssumption DEF Login, AfterCheck
    <2>3. Pending(c)' \subseteq Requests /\ \A d \in Clients \ {c} : Pending(d)' \subseteq Pending(d)
      BY <2>1 DEF Pending
    <2>4. /\ Cardinality(Pending(c)') <= Cardinality(Requests)
          /\ IsFiniteSet(Pending(c)') /\ Cardinality(Requests) \in Nat
      BY <2>3, RequestsAssumption, FS_Subset, FS_CardinalityType
    <2>5. Cardinality(Pending(c)') \in Nat /\ loginAttempts'[c].count \in Nat
      BY <1>0, <2>4, FS_CardinalityType
    <2> SUFFICES ASSUME NEW d \in Clients
                 PROVE  loginAttempts'[d].count + Cardinality(Pending(d)')
                          < MaxFailed + Cardinality(Requests)
      BY DEF PendingBounded
    <2>6. CASE d = c
      BY <2>2, <2>4, <2>5, <2>6, LimitsAssumption
    <2>7. CASE d # c
      <3>1. Pending(d)' = Pending(d)
        BY <2>1, <2>7 DEF Pending
      <3> QED
        BY <2>1, <2>7, <3>1 DEF PendingBounded
    <2> QED
      BY <2>6, <2>7
  <1>2. ASSUME NEW r \in Requests, Select(r)
        PROVE  PendingBounded'
    <2>1. CASE Invalid(r)
      BY <1>2, <2>1, FailureIsCounted DEF Select
    <2>2. CASE Valid(r) /\ Go(r, AfterValid(r))
      <3>1. \A c \in Clients : Pending(c)' \subseteq Pending(c)
        BY <2>2 DEF Go, AfterValid, Pending
      <3>2. \A c \in Clients : loginAttempts'[c].count <= loginAttempts[c].count
        BY <2>2 DEF Valid
      <3> QED
        BY <1>0, <3>1, <3>2, NoMorePending
    <2>3. CASE (Go(r, "insert") \/ Done(r)) /\ loginAttempts' = loginAttempts
      <3>1. \A c \in Clients : Pending(c)' \subseteq Pending(c)
        BY <1>2, <2>3 DEF Select, Go, Done, Pending
      <3>2. \A c \in Clients : loginAttempts'[c].count <= loginAttempts[c].count
        BY <2>3
      <3> QED
        BY <1>0, <3>1, <3>2, NoMorePending
    <2> QED
      BY <1>2, <2>1, <2>2, <2>3 DEF Select
  <1>3. ASSUME NEW r \in Requests, VerifyFails(r)
        PROVE  PendingBounded'
    BY <1>3, FailureIsCounted DEF VerifyFails
  <1>4. ASSUME NEW r \in Requests, Insert(r)
        PROVE  PendingBounded'
    <2>1. \A c \in Clients : Pending(c)' \subseteq Pending(c)
      BY <1>4 DEF Insert, StoreHash, AfterValid, Pending
    <2>2. \A c \in Clients : loginAttempts'[c].count <= loginAttempts[c].count
      BY <1>4 DEF Insert, Valid
    <2> QED
      BY <1>0, <2>1, <2>2, NoMorePending
  <1>5. ASSUME NEW r \in Requests, Update(r)
        PROVE  PendingBounded'
    <2>1. \A c \in Clients : Pending(c)' \subseteq Pending(c)
      BY <1>5 DEF Update, StoreHash, Pending
    <2>2. \A c \in Clients : loginAttempts'[c].count <= loginAttempts[c].count
      BY <1>5 DEF Update
    <2> QED
      BY <1>0, <2>1, <2>2, NoMorePending
  <1>6. ASSUME NEW r \in Requests, UpdateFails(r) \/ RecordAudit(r)
        PROVE  PendingBounded'
    <2>1. \A c \in Clients : Pending(c)' \subseteq Pending(c)
      BY <1>6 DEF UpdateFails, RecordAudit, Done, Pending
    <2>2. \A c \in Clients : loginAttempts'[c].count <= loginAttempts[c].count
      BY <1>6 DEF UpdateFails, RecordAudit
    <2> QED
      BY <1>0, <2>1, <2>2, NoMorePending
  <1>7. ASSUME NEW r \in Requests, NEW s \in activeSessions, NEW c \in Clients,
               NEW p \in Passwords, NEW new \in Passwords, ChangePassword(r, s, c, p, new)
        PROVE  PendingBounded'
    <2>1. \A d \in Clients : Pending(d)' \subseteq Pending(d)
      BY <1>7 DEF ChangePassword, Arrive, Pending
    <2>2. \A d \in Clients : loginAttempts'[d].count <= loginAttempts[d].count
      BY <1>7 DEF ChangePassword
    <2> QED
      BY <1>0, <2>1, <2>2, NoMorePending
  <1>8. CASE CleanupAttempts \/ CleanupSessions \/ Tick \/ Restart \/ UNCHANGED adminVars
    <2>1. \A c \in Clients : Pending(c)' \subseteq Pending(c)
      BY <1>8 DEF CleanupAttempts, CleanupSessions, Tick, Restart, adminVars, Pending
    <2>2. \A c \in Clients : loginAttempts'[c].count <= loginAttempts[c].count
      BY <1>8 DEF CleanupAttempts, CleanupSessions, Tick, Restart, adminVars
    <2> QED
      BY <1>0, <2>1, <2>2, NoMorePending
  <1> QED
    BY <1>1, <1>2, <1>3, <1>4, <1>5, <1>6, <1>7, <1>8 DEF AdminNext

(* Attempts that overlap get past the limit of ten failures by no more than
   the requests under way. *)
THEOREM FailuresAreBounded == AdminSpec => []FailuresBounded
  <1>1. AdminInv /\ PendingBounded => FailuresBounded
    <2> SUFFICES ASSUME AdminInv, PendingBounded, NEW c \in Clients
                 PROVE  loginAttempts[c].count < MaxFailed + Cardinality(Requests)
      BY DEF FailuresBounded
    <2>1. IsFiniteSet(Pending(c))
      BY RequestsAssumption, FS_Subset DEF Pending
    <2>2. Cardinality(Pending(c)) \in Nat /\ Cardinality(Requests) \in Nat
      BY <2>1, RequestsAssumption, FS_CardinalityType
    <2>3. loginAttempts[c].count \in Nat
      BY TypeOf DEF AdminInv
    <2> QED
      BY <2>2, <2>3, LimitsAssumption DEF PendingBounded
  <1> QED
    BY <1>1, AdminInvInit, AdminInvNext, PendingBoundedInit, PendingBoundedNext, PTL
    DEF AdminSpec

-----------------------------------------------------------------------------
(* The steps that may end a lock of client c. *)
LockMayEnd(c) ==
  \/ clock' > clock
  \/ \A r \in Requests : inFlight'[r] = Idle
  \/ \E r \in Requests : /\ inFlight[r].client = c
                         /\ inFlight[r].at \in {"select", "insert"}
                         /\ inFlight'[r].at = "audit"

LEMMA LockHolds ==
  ASSUME AdminTypeOK, [AdminNext]_adminVars, NEW c \in Clients, Locked(c), ~Locked(c)'
  PROVE  LockMayEnd(c)
<1> SUFFICES ASSUME ~LockMayEnd(c) PROVE FALSE
  OBVIOUS
<1>1. PICK a, b : a = loginAttempts[c] /\ b = loginAttempts'[c]
  OBVIOUS
<1>2. /\ a \in RecordType /\ a.lockedUntil > clock /\ clock \in Nat
      /\ loginAttempts \in [Clients -> RecordType] /\ inFlight \in [Requests -> RequestType]
  BY <1>1, TypeOf DEF AdminTypeOK, Locked
<1>3. clock' = clock => b # a /\ ~(b.lockedUntil > clock)
  BY <1>1, <1>2 DEF Locked
<1>4. ASSUME NEW r \in Requests, NEW d \in Clients, NEW p \in Passwords, Login(r, d, p)
      PROVE  FALSE
  BY <1>1, <1>2, <1>3, <1>4 DEF Login, Admitted, Locked, AfterCheck
<1>5. ASSUME NEW r \in Requests, Invalid(r), clock' = clock
      PROVE  FALSE
  BY <1>1, <1>2, <1>3, <1>5, LimitsAssumption DEF Invalid, RecordFailedAttempt
<1>6. ASSUME NEW r \in Requests, Valid(r), inFlight[r].at \in {"select", "insert"},
             inFlight'[r].at = AfterValid(r), clock' = clock
      PROVE  FALSE
  BY <1>1, <1>2, <1>3, <1>6 DEF Valid, AfterValid, LockMayEnd
<1>7. ASSUME NEW r \in Requests, Select(r) PROVE FALSE
  BY <1>1, <1>2, <1>3, <1>5, <1>6, <1>7 DEF Select, Go
<1>8. ASSUME NEW r \in Requests, Insert(r) PROVE FALSE
  BY <1>1, <1>2, <1>3, <1>6, <1>8 DEF Insert, StoreHash
<1>9. ASSUME NEW r \in Requests, VerifyFails(r) PROVE FALSE
  BY <1>5, <1>9 DEF VerifyFails
<1>10. CASE CleanupAttempts
  BY <1>1, <1>2, <1>3, <1>10 DEF CleanupAttempts, Stale
<1>11. CASE Tick \/ Restart
  <2>1. CASE Tick
    BY <1>2, <2>1 DEF Tick, LockMayEnd
  <2>2. CASE Restart
    <3>1. \A r \in Requests : inFlight'[r] = Idle
      BY <2>2 DEF Restart
    <3> QED BY <3>1 DEF LockMayEnd
  <2> QED BY <1>11, <2>1, <2>2
<1>12. CASE loginAttempts' = loginAttempts /\ clock' = clock
  BY <1>1, <1>3, <1>12
<1> QED BY <1>4, <1>7, <1>8, <1>9, <1>10, <1>11, <1>12
        DEF AdminNext, adminVars, ChangePassword, Update, UpdateFails, RecordAudit, CleanupSessions

(* A lock lasts until its time is over (checkRateLimit, the clean-up timer),
   the process restarts or a login of that client that was admitted before
   goes through. *)
THEOREM LocksAreKept == AdminSpec => LockIsKept
<1>1. AdminInv /\ [AdminNext]_adminVars =>
        [\A c \in Clients : Locked(c) /\ ~Locked(c)' =>
           \/ clock' > clock
           \/ \A r \in Requests : inFlight'[r] = Idle
           \/ \E r \in Requests : /\ inFlight[r].client = c
                                  /\ inFlight[r].at \in {"select", "insert"}
                                  /\ inFlight'[r].at = "audit"]_adminVars
  BY LockHolds DEF AdminInv, LockMayEnd
<1> QED BY <1>1, AdminInvInit, AdminInvNext, PTL DEF AdminSpec, LockIsKept

-----------------------------------------------------------------------------
(* The rate limiter. *)

Entry == [ts : Nat, nr : Nat]
Span(entries, start) == {e \in entries : start <= e.ts /\ e.ts < start + WindowMs}

LimiterTypeOK ==
  /\ time \in Nat
  /\ timestamps \in [Keys -> SUBSET Entry] /\ admitted \in [Keys -> SUBSET Entry]
  /\ retryAt \in [Keys -> Nat]

(* What was admitted to a client, b of which are in its bucket. *)
Counted(a, b, now) ==
  /\ IsFiniteSet(a) /\ b \subseteq a
  /\ \A e \in a : e.ts <= now /\ e.nr <= Cardinality(a)
  /\ \A e \in a : now - e.ts < WindowMs => e \in b
  /\ \A start \in Nat : Cardinality(Span(a, start)) <= MaxRequests

(* By the time r there is room in the bucket b again. *)
Reopens(b, r) == r # 0 => Cardinality(Active(b, r)) < MaxRequests

LimiterInv ==
  /\ LimiterTypeOK
  /\ \A k \in Keys :
       /\ Counted(admitted[k], timestamps[k], time)
       /\ Cardinality(timestamps[k]) <= MaxRequests
       /\ Reopens(timestamps[k], retryAt[k])

LEMMA Fewer ==
  ASSUME NEW S, IsFiniteSet(S), NEW T, T \subseteq S
  PROVE  IsFiniteSet(T) /\ Cardinality(T) <= Cardinality(S)
         /\ Cardinality(T) \in Nat /\ Cardinality(S) \in Nat
BY FS_Subset, FS_CardinalityType

(* A smaller bucket, or a later moment, leaves fewer that count. *)
LEMMA FewerActive ==
  ASSUME NEW b \in SUBSET Entry, IsFiniteSet(b), NEW c, c \subseteq b, NEW now \in Nat,
         NEW then \in Nat, then <= now
  PROVE  /\ IsFiniteSet(Active(c, now)) /\ Active(c, now) \subseteq c
         /\ Cardinality(Active(c, now)) <= Cardinality(Active(b, then))
         /\ Cardinality(Active(c, now)) \in Nat /\ Cardinality(Active(b, then)) \in Nat
<1>1. Active(c, now) \subseteq c /\ Active(b, then) \subseteq b
  BY DEF Active
<1>2. IsFiniteSet(Active(b, then))
  BY <1>1, Fewer
<1>3. Active(c, now) \subseteq Active(b, then)
  BY WindowAssumption DEF Active, Entry
<1> QED BY <1>1, <1>2, <1>3, Fewer

LEMMA ActiveTwice ==
  ASSUME NEW a, NEW b, NEW now \in Nat, Counted(a, b, now)
  PROVE  Counted(a, Active(b, now), now)
BY DEF Counted, Active

(* Of the requests of one client, some stay in its bucket: all that count. *)
LEMMA BucketShrinks ==
  ASSUME LimiterInv, NEW k \in Keys, NEW b, b = Active(timestamps[k], time)
  PROVE  /\ b \in SUBSET Entry /\ IsFiniteSet(b) /\ Cardinality(b) \in Nat
         /\ Counted(admitted[k], b, time)
         /\ Cardinality(b) <= MaxRequests
         /\ Reopens(b, retryAt[k])
<1> DEFINE a == admitted[k]
           all == timestamps[k]
<1>1. /\ time \in Nat /\ a \in SUBSET Entry /\ all \in SUBSET Entry /\ retryAt[k] \in Nat
      /\ Counted(a, all, time) /\ Cardinality(all) <= MaxRequests /\ Reopens(all, retryAt[k])
  BY DEF LimiterInv, LimiterTypeOK
<1>2. IsFiniteSet(all)
  BY <1>1, Fewer DEF Counted
<1>3. b \subseteq all
  BY DEF Active
<1>4. IsFiniteSet(b) /\ Cardinality(b) <= Cardinality(all) /\ Cardinality(b) \in Nat
      /\ Cardinality(all) \in Nat
  BY <1>2, <1>3, Fewer
<1>5. Cardinality(b) <= MaxRequests
  BY <1>1, <1>4, WindowAssumption
<1>6. Counted(a, b, time)
  BY <1>1, ActiveTwice
<1>7. Reopens(b, retryAt[k])
  <2>1. PICK r, full : r = retryAt[k] /\ full = all
    OBVIOUS
  <2>2. r \in Nat /\ r <= r /\ full \in SUBSET Entry /\ IsFiniteSet(full) /\ b \subseteq full
    BY <1>1, <1>2, <1>3, <2>1
  <2>3. /\ Cardinality(Active(b, r)) <= Cardinality(Active(full, r))
        /\ Cardinality(Active(b, r)) \in Nat /\ Cardinality(Active(full, r)) \in Nat
    BY ONLY <2>2, FewerActive
  <2> QED BY <1>1, <2>1, <2>3, WindowAssumption DEF Reopens
<1> QED BY <1>1, <1>3, <1>4, <1>5, <1>6, <1>7

(* One more request within the limit: no span of the window sees too many. *)
LEMMA OneMore ==
  ASSUME NEW a \in SUBSET Entry, NEW b, NEW now \in Nat, Counted(a, b, now),
         b = Active(b, now), Cardinality(b) < MaxRequests,
         NEW e \in Entry, e.ts = now, e.nr = Cardinality(a) + 1
  PROVE  Counted(a \cup {e}, b \cup {e}, now) /\ Cardinality(b \cup {e}) <= MaxRequests
<1>1. IsFiniteSet(a) /\ b \subseteq a /\ IsFiniteSet(b) /\ Cardinality(a) \in Nat
      /\ Cardinality(b) \in Nat
  BY Fewer DEF Counted
<1>2. e \notin a
  BY <1>1 DEF Counted
<1>3. /\ IsFiniteSet(a \cup {e}) /\ Cardinality(a \cup {e}) = Cardinality(a) + 1
      /\ Cardinality(b \cup {e}) = Cardinality(b) + 1
  BY <1>1, <1>2, FS_AddElement
<1>4. Cardinality(b \cup {e}) <= MaxRequests
  BY <1>1, <1>3, WindowAssumption
<1>5. ASSUME NEW start \in Nat
      PROVE  Cardinality(Span(a \cup {e}, start)) <= MaxRequests
  <2>1. CASE start <= now /\ now < start + WindowMs
    <3>1. Span(a \cup {e}, start) \subseteq b \cup {e}
      <4>1. ASSUME NEW f \in a, start <= f.ts PROVE f \in b
        <5>1. now - f.ts < WindowMs
          BY <2>1, <4>1, WindowAssumption DEF Entry
        <5> QED BY <5>1 DEF Counted
      <4> QED BY <4>1 DEF Span
    <3>2. IsFiniteSet(b \cup {e})
      BY <1>1, FS_AddElement
    <3> QED BY <1>4, <3>1, <3>2, Fewer, WindowAssumption
  <2>2. CASE ~(start <= now /\ now < start + WindowMs)
    <3>1. Span(a \cup {e}, start) = Span(a, start)
      BY <2>2 DEF Span
    <3> QED BY <3>1 DEF Counted
  <2> QED BY <2>1, <2>2
<1>6. \A f \in a \cup {e} : f.ts <= now /\ f.nr <= Cardinality(a \cup {e})
  BY <1>1, <1>3 DEF Counted, Entry
<1>7. \A f \in a \cup {e} : now - f.ts < WindowMs => f \in b \cup {e}
  BY DEF Counted
<1> QED BY <1>1, <1>3, <1>4, <1>5, <1>6, <1>7 DEF Counted

(* Retry-After names the moment the oldest of a full bucket leaves. *)
LEMMA OldestLeaves ==
  ASSUME NEW b \in SUBSET Entry, IsFiniteSet(b), Cardinality(b) <= MaxRequests, NEW oldest \in b
  PROVE  RetryAt(oldest) \in Nat /\ Reopens(b, RetryAt(oldest))
<1>1. oldest.ts \in Nat /\ RetryAt(oldest) \in Nat
  BY WindowAssumption DEF Entry, RetryAt
<1>2. Active(b, RetryAt(oldest)) \subseteq b \ {oldest}
  BY <1>1, WindowAssumption DEF Active, RetryAt
<1>3. /\ IsFiniteSet(b \ {oldest}) /\ Cardinality(b \ {oldest}) = Cardinality(b) - 1
      /\ Cardinality(b) \in Nat
  BY FS_RemoveElement, FS_CardinalityType
<1>4. Cardinality(Active(b, RetryAt(oldest))) < MaxRequests
  BY <1>2, <1>3, Fewer, WindowAssumption
<1> QED BY <1>1, <1>4 DEF Reopens

LEMMA LimiterStart == LimiterInit => LimiterInv
<1> SUFFICES ASSUME LimiterInit PROVE LimiterInv
  OBVIOUS
<1>1. LimiterTypeOK
  BY DEF LimiterInit, LimiterTypeOK
<1>2. ASSUME NEW k \in Keys
      PROVE  /\ Counted(admitted[k], timestamps[k], time)
             /\ Cardinality(timestamps[k]) <= MaxRequests
             /\ Reopens(timestamps[k], retryAt[k])
  <2>1. admitted[k] = {} /\ timestamps[k] = {} /\ retryAt[k] = 0
    BY DEF LimiterInit
  <2>2. \A start \in Nat : Span({}, start) = {}
    BY DEF Span
  <2>3. Counted({}, {}, time)
    BY <2>2, FS_EmptySet, WindowAssumption DEF Counted
  <2> QED BY <2>1, <2>3, FS_EmptySet, WindowAssumption DEF Reopens
<1> QED BY <1>1, <1>2 DEF LimiterInv

LEMMA LimitedKeeps ==
  ASSUME LimiterInv, NEW ip \in Ips, Limited(ip) PROVE LimiterInv'
<1>1. PICK k : k = NormalizeIp[ip]
  OBVIOUS
<1>2. k \in Keys
  BY <1>1 DEF Keys
<1>3. PICK b : b = Active(timestamps[k], time)
  OBVIOUS
<1>4. PICK a : a = admitted[k]
  OBVIOUS
<1>5. /\ LimiterTypeOK /\ time' = time /\ a \in SUBSET Entry /\ time \in Nat
      /\ \A j \in Keys : /\ Counted(admitted[j], timestamps[j], time)
                         /\ Cardinality(timestamps[j]) <= MaxRequests
                         /\ Reopens(timestamps[j], retryAt[j])
  BY <1>2, <1>4 DEF LimiterInv, LimiterTypeOK, Limited
<1>6. /\ b \in SUBSET Entry /\ IsFiniteSet(b) /\ Cardinality(b) \in Nat
      /\ Counted(a, b, time) /\ Cardinality(b) <= MaxRequests
  BY <1>2, <1>3, <1>4, BucketShrinks
<1>7. ASSUME NEW a2 \in SUBSET Entry, NEW b2 \in SUBSET Entry, NEW r \in Nat,
             admitted' = [admitted EXCEPT ![k] = a2],
             timestamps' = [timestamps EXCEPT ![k] = b2],
             retryAt' = [retryAt EXCEPT ![k] = r],
             Counted(a2, b2, time), Cardinality(b2) <= MaxRequests, Reopens(b2, r)
      PROVE  LimiterInv'
  <2>1. LimiterTypeOK'
    BY <1>2, <1>5, <1>7 DEF LimiterTypeOK
  <2>2. ASSUME NEW j \in Keys
        PROVE  (/\ Counted(admitted[j], timestamps[j], time)
                /\ Cardinality(timestamps[j]) <= MaxRequests
                /\ Reopens(timestamps[j], retryAt[j]))'
    <3>1. CASE j = k
      <4>1. admitted'[j] = a2 /\ timestamps'[j] = b2 /\ retryAt'[j] = r
        BY <1>2, <1>5, <1>7, <3>1 DEF LimiterTypeOK
      <4> QED BY <1>5, <1>7, <4>1
    <3>2. CASE j # k
      <4>1. admitted'[j] = admitted[j] /\ timestamps'[j] = timestamps[j] /\ retryAt'[j] = retryAt[j]
        BY <1>5, <1>7, <3>2 DEF LimiterTypeOK
      <4> QED BY <1>5, <4>1
    <3> QED BY <3>1, <3>2
  <2> QED BY <2>1, <2>2 DEF LimiterInv
<1>8. ASSUME NEW oldest \in b, UNCHANGED admitted,
             timestamps' = [timestamps EXCEPT ![k] = b],
             retryAt' = [retryAt EXCEPT ![k] = RetryAt(oldest)]
      PROVE  LimiterInv'
  <2>1. RetryAt(oldest) \in Nat /\ Reopens(b, RetryAt(oldest))
    BY <1>6, OldestLeaves
  <2>2. admitted' = [admitted EXCEPT ![k] = a]
    BY <1>2, <1>4, <1>5, <1>8 DEF LimiterTypeOK
  <2> QED BY <1>5, <1>6, <1>7, <1>8, <2>1, <2>2
<1>9. ASSUME NEW e, e = [ts |-> time, nr |-> Cardinality(a) + 1], Cardinality(b) < MaxRequests,
             admitted' = [admitted EXCEPT ![k] = a \cup {e}],
             timestamps' = [timestamps EXCEPT ![k] = b \cup {e}],
             retryAt' = [retryAt EXCEPT ![k] = 0]
      PROVE  LimiterInv'
  <2>1. Cardinality(a) \in Nat
    BY <1>6, Fewer DEF Counted
  <2>2. e \in Entry /\ e.ts = time /\ e.nr = Cardinality(a) + 1
    BY <1>5, <1>9, <2>1 DEF Entry
  <2>3. b = Active(b, time)
    BY <1>3 DEF Active
  <2>4. Counted(a \cup {e}, b \cup {e}, time) /\ Cardinality(b \cup {e}) <= MaxRequests
    BY <1>5, <1>6, <1>9, <2>2, <2>3, OneMore
  <2>5. Reopens(b \cup {e}, 0)
    BY DEF Reopens
  <2>6. a \cup {e} \in SUBSET Entry /\ b \cup {e} \in SUBSET Entry
    BY <1>5, <1>6, <2>2
  <2> QED BY <1>7, <1>9, <2>4, <2>5, <2>6
<1> QED BY <1>1, <1>2, <1>3, <1>4, <1>5, <1>8, <1>9 DEF Limited, LimiterTypeOK

LEMMA CollectKeeps ==
  ASSUME LimiterInv, CollectGarbage PROVE LimiterInv'
<1>1. LimiterTypeOK /\ UNCHANGED <<time, admitted, retryAt>>
  BY DEF LimiterInv, CollectGarbage
<1>2. ASSUME NEW k \in Keys
      PROVE  /\ timestamps'[k] \in SUBSET Entry
             /\ Counted(admitted[k], timestamps'[k], time)
             /\ Cardinality(timestamps'[k]) <= MaxRequests
             /\ Reopens(timestamps'[k], retryAt[k])
  <2>1. PICK b : b = timestamps'[k]
    OBVIOUS
  <2>2. b = Active(timestamps[k], time)
    BY <2>1 DEF CollectGarbage
  <2> QED BY <2>1, <2>2, BucketShrinks
<1>3. timestamps' \in [Keys -> SUBSET Entry]
  BY <1>2 DEF CollectGarbage
<1>4. LimiterTypeOK'
  BY <1>1, <1>3 DEF LimiterTypeOK
<1> QED BY <1>1, <1>2, <1>4 DEF LimiterInv

LEMMA AdvanceKeeps ==
  ASSUME LimiterInv, Advance PROVE LimiterInv'
<1>1. LimiterTypeOK /\ UNCHANGED <<timestamps, admitted, retryAt>> /\ time' = time + 1
      /\ time \in Nat
  BY DEF LimiterInv, LimiterTypeOK, Advance
<1>2. LimiterTypeOK'
  BY <1>1 DEF LimiterTypeOK
<1>3. ASSUME NEW k \in Keys PROVE Counted(admitted[k], timestamps[k], time + 1)
  <2>1. Counted(admitted[k], timestamps[k], time) /\ admitted[k] \in SUBSET Entry
    BY <1>1 DEF LimiterInv, LimiterTypeOK
  <2>2. \A e \in admitted[k] : e.ts \in Nat
    BY <2>1 DEF Entry
  <2>3. \A e \in admitted[k] : e.ts <= time + 1
    BY <1>1, <2>1, <2>2 DEF Counted
  <2>4. \A e \in admitted[k] : (time + 1) - e.ts < WindowMs => e \in timestamps[k]
    BY <1>1, <2>1, <2>2, WindowAssumption DEF Counted
  <2> QED BY <2>1, <2>3, <2>4 DEF Counted
<1> QED BY <1>1, <1>2, <1>3 DEF LimiterInv

(* The rate limiter, for any limits, clients and order of requests: no span
   of the window has seen more than its limit, and everything of the present
   one is in the bucket. *)
THEOREM LimiterInvariance == LimiterSpec => []LimiterInv
<1>1. LimiterInv /\ [LimiterNext]_limiterVars => LimiterInv'
  <2>1. ASSUME LimiterInv, UNCHANGED limiterVars PROVE LimiterInv'
    BY <2>1 DEF limiterVars, LimiterInv, LimiterTypeOK
  <2> QED BY <2>1, LimitedKeeps, CollectKeeps, AdvanceKeeps DEF LimiterNext, Exempt
<1> QED BY <1>1, LimiterStart, PTL DEF LimiterSpec

(* However requests, spellings of an address and the collector fall, no span
   of WindowMs has more than MaxRequests of one client admitted. *)
THEOREM WindowAlwaysBounded == LimiterSpec => []WindowBounded
<1>1. LimiterInv => WindowBounded
  <2> SUFFICES ASSUME LimiterInv, NEW k \in Keys, NEW start \in 1..time
               PROVE  Cardinality({e \in admitted[k] : start <= e.ts /\ e.ts < start + WindowMs})
                        <= MaxRequests
    BY DEF WindowBounded
  <2>1. start \in Nat
    OBVIOUS
  <2> QED BY <2>1 DEF LimiterInv, Counted, Span
<1> QED BY <1>1, LimiterInvariance, PTL

(* Who waits as long as Retry-After says is let in, also at the boundary. *)
THEOREM RetryAfterAlwaysHolds == LimiterSpec => []RetryAfterHolds
<1>1. LimiterInv => RetryAfterHolds
  <2> SUFFICES ASSUME LimiterInv, NEW k \in Keys, retryAt[k] # 0, time >= retryAt[k]
               PROVE  Cardinality(Active(timestamps[k], time)) < MaxRequests
    BY DEF RetryAfterHolds
  <2>1. PICK b, r, now : b = timestamps[k] /\ r = retryAt[k] /\ now = time
    OBVIOUS
  <2>2. /\ b \in SUBSET Entry /\ r \in Nat /\ now \in Nat /\ r <= now
        /\ Counted(admitted[k], b, now) /\ Cardinality(Active(b, r)) < MaxRequests
    BY <2>1 DEF LimiterInv, LimiterTypeOK, Reopens
  <2>3. IsFiniteSet(b)
    BY <2>2, Fewer DEF Counted
  <2>4. /\ Cardinality(Active(b, now)) <= Cardinality(Active(b, r))
        /\ Cardinality(Active(b, now)) \in Nat /\ Cardinality(Active(b, r)) \in Nat
    BY <2>2, <2>3, FewerActive
  <2>5. Cardinality(Active(b, now)) < MaxRequests
    BY <2>2, <2>4, WindowAssumption
  <2> QED BY <2>1, <2>5
<1> QED BY <1>1, LimiterInvariance, PTL

=============================================================================
