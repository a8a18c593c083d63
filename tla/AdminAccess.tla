---------------------------- MODULE AdminAccess ----------------------------
(***************************************************************************)
(* Who gets into the licence server's administration                       *)
(* (server/src/routes/admin.ts): the login with its limit on failed        *)
(* attempts, the sessions, and the change of the password.                 *)
(*                                                                         *)
(* As in LicenseServer, a step is one SQL statement with the code up to    *)
(* the next await.  Sessions and failed attempts live in memory, the       *)
(* password hash in the table admin_settings; PBKDF2 tells passwords apart.*)
(***************************************************************************)
EXTENDS Integers, FiniteSets

CONSTANTS
  Requests,      \* requests the server works on at the same time
  Clients,       \* req.ip
  Passwords,
  Secrets,       \* what ADMIN_SECRET may be: passwords, or Missing
  MaxFailed,     \* 10 in the code
  LockTime,      \* five minutes there
  SessionTime,   \* 24 hours there
  MaxTime,       \* bound on the clock
  Missing

ASSUME RequestsAssumption == IsFiniteSet(Requests)
ASSUME MissingAssumption == Missing \notin Passwords
ASSUME SecretsAssumption == Secrets \subseteq Passwords \cup {Missing}
ASSUME LimitsAssumption ==
  /\ MaxFailed \in Nat \ {0} /\ LockTime \in Nat \ {0}
  /\ SessionTime \in Nat \ {0} /\ MaxTime \in Nat

VARIABLES
  adminHash,      \* the row admin_password_hash, or Missing
  adminSecret,    \* ADMIN_SECRET of this process
  loginAttempts,  \* AttemptRecord of each client
  activeSessions, \* when they expire (tokens of the same moment are alike)
  clock,
  inFlight,       \* the requests under way
  changedTo,      \* history: the password last changed to, or Missing
  overtaken       \* history: requests that had read "no hash" when it was changed

adminVars == <<adminHash, adminSecret, loginAttempts, activeSessions, clock, inFlight,
               changedTo, overtaken>>

NoRecord == [count |-> 0, lockedUntil |-> 0]
Idle == [op |-> "none", at |-> "idle", client |-> Missing, password |-> Missing,
         new |-> Missing, saw |-> {}]

(* What opens the administration at this moment. *)
Master == IF adminHash # Missing THEN adminHash ELSE adminSecret

Arrive(r, op, c, p, new) ==
  inFlight' = [inFlight EXCEPT ![r] =
    [op |-> op, at |-> "select", client |-> c, password |-> p, new |-> new,
     saw |-> {Master}]]

Go(r, at) == inFlight' = [inFlight EXCEPT ![r].at = at]
Done(r) == inFlight' = [inFlight EXCEPT ![r] = Idle]

(* The hash is written, and every request under way could have seen it. *)
StoreHash(r, p, at) ==
  /\ adminHash' = p
  /\ inFlight' = [q \in Requests |->
       IF q = r THEN [inFlight[q] EXCEPT !.at = at]
       ELSE IF inFlight[q] = Idle THEN Idle
       ELSE [inFlight[q] EXCEPT !.saw = @ \cup {p}]]

-----------------------------------------------------------------------------
(* Rate limiting for login *)

Locked(c) == loginAttempts[c].lockedUntil > clock
Admitted(c) == ~Locked(c)

(* Mutant: the failures of a lock that is over count on. *)
AfterCheckKept(c) == loginAttempts

(* checkRateLimit forgets the failures of a lock that is over. *)
AfterCheck(c) ==
  [loginAttempts EXCEPT ![c] = IF @.count >= MaxFailed THEN NoRecord ELSE @]

RecordFailedAttempt(c) ==
  loginAttempts' = [loginAttempts EXCEPT ![c] =
    [count |-> @.count + 1,
     lockedUntil |-> IF @.count + 1 >= MaxFailed THEN clock + LockTime ELSE @.lockedUntil]]

(* Mutant: every record that still counts is dropped. *)
StaleCounts(c) == loginAttempts[c].count > 0

(* The timer drops every record without a lock, the counting ones too. *)
Stale(c) == loginAttempts[c].lockedUntil <= clock

CleanupAttempts ==
  /\ loginAttempts' = [c \in Clients |-> IF Stale(c) THEN NoRecord ELSE loginAttempts[c]]
  /\ UNCHANGED <<adminHash, adminSecret, activeSessions, clock, inFlight, changedTo, overtaken>>

CleanupSessions ==
  /\ activeSessions' = {s \in activeSessions : s > clock}
  /\ UNCHANGED <<adminHash, adminSecret, loginAttempts, clock, inFlight, changedTo, overtaken>>

-----------------------------------------------------------------------------
(* The two endpoints.  A locked client is answered 429 and changes nothing. *)

Login(r, c, p) ==
  /\ inFlight[r] = Idle /\ Admitted(c)
  /\ loginAttempts' = AfterCheck(c)
  /\ Arrive(r, "login", c, p, Missing)
  /\ UNCHANGED <<adminHash, adminSecret, activeSessions, clock, changedTo, overtaken>>

(* requireAdminAuth looks at the session here only. *)
ChangePassword(r, s, c, p, new) ==
  /\ inFlight[r] = Idle /\ s \in activeSessions
  /\ IF s > clock
     THEN Arrive(r, "change", c, p, new) /\ UNCHANGED activeSessions
     ELSE activeSessions' = activeSessions \ {s} /\ UNCHANGED inFlight
  /\ UNCHANGED <<adminHash, adminSecret, loginAttempts, clock, changedTo, overtaken>>

(* verifyAdminPassword answered, for either endpoint. *)
Invalid(r) ==
  /\ UNCHANGED activeSessions
  /\ IF inFlight[r].op = "login"
     THEN RecordFailedAttempt(inFlight[r].client) /\ Go(r, "audit_failed")
     ELSE Done(r) /\ UNCHANGED loginAttempts

Valid(r) ==
  IF inFlight[r].op = "login"
  THEN /\ loginAttempts' = [loginAttempts EXCEPT ![inFlight[r].client] = NoRecord]
       /\ activeSessions' = activeSessions \cup {clock + SessionTime}
  ELSE UNCHANGED <<loginAttempts, activeSessions>>

AfterValid(r) == IF inFlight[r].op = "login" THEN "audit" ELSE "update"

(* Mutant: ADMIN_SECRET goes on being accepted. *)
VerdictSecretFirst(p) ==
  CASE p = adminSecret -> "first"
    [] p # adminSecret /\ adminHash # Missing -> IF p = adminHash THEN "valid" ELSE "invalid"
    [] OTHER -> IF adminSecret = Missing THEN "unconfigured" ELSE "invalid"
(* Mutant: so is a password somebody else is changing the present one to. *)
VerdictPending(p) ==
  IF p = Master \/ \E r \in Requests : inFlight[r].new = p THEN "valid" ELSE "invalid"

(* What the SELECT and the comparison come to. *)
Verdict(p) ==
  CASE adminHash # Missing -> IF p = adminHash THEN "valid" ELSE "invalid"
    [] adminHash = Missing /\ adminSecret = Missing -> "unconfigured"
    [] OTHER -> IF p = adminSecret THEN "first" ELSE "invalid"

Select(r) ==
  /\ inFlight[r].at = "select"
  /\ \/ Verdict(inFlight[r].password) = "valid" /\ Valid(r) /\ Go(r, AfterValid(r))
     \/ Verdict(inFlight[r].password) = "first" /\ Go(r, "insert")
        /\ UNCHANGED <<loginAttempts, activeSessions>>
     \/ Verdict(inFlight[r].password) = "unconfigured" /\ Done(r)
        /\ UNCHANGED <<loginAttempts, activeSessions>>
     \/ Verdict(inFlight[r].password) = "invalid" /\ Invalid(r)
  /\ UNCHANGED <<adminHash, adminSecret, clock, changedTo, overtaken>>

(* The first use of ADMIN_SECRET stores its hash, over one that is there. *)
Insert(r) ==
  /\ inFlight[r].at = "insert"
  /\ StoreHash(r, inFlight[r].password, AfterValid(r)) /\ Valid(r)
  /\ overtaken' = overtaken \ {r}
  /\ changedTo' = IF r \in overtaken THEN Missing ELSE changedTo
  /\ UNCHANGED <<adminSecret, clock>>

(* A failing statement of verifyAdminPassword reads as a wrong password. *)
VerifyFails(r) ==
  /\ inFlight[r].at \in {"select", "insert"} /\ Invalid(r)
  /\ overtaken' = overtaken \ {r}
  /\ UNCHANGED <<adminHash, adminSecret, clock, changedTo>>

Update(r) ==
  /\ inFlight[r].at = "update"
  /\ StoreHash(r, inFlight[r].new, "audit")
  /\ changedTo' = inFlight[r].new
  /\ overtaken' = {q \in Requests : inFlight[q].at = "insert"}
  /\ UNCHANGED <<adminSecret, loginAttempts, activeSessions, clock>>

UpdateFails(r) ==
  /\ inFlight[r].at = "update" /\ Done(r)
  /\ UNCHANGED <<adminHash, adminSecret, loginAttempts, activeSessions, clock, changedTo,
                 overtaken>>

(* recordAudit, whatever comes of it, then the answer. *)
RecordAudit(r) ==
  /\ inFlight[r].at \in {"audit", "audit_failed"} /\ Done(r)
  /\ UNCHANGED <<adminHash, adminSecret, loginAttempts, activeSessions, clock, changedTo,
                 overtaken>>

-----------------------------------------------------------------------------
(* The environment. *)

Tick ==
  /\ clock < MaxTime /\ clock' = clock + 1
  /\ UNCHANGED <<adminHash, adminSecret, loginAttempts, activeSessions, inFlight, changedTo,
                 overtaken>>

Restart ==
  /\ loginAttempts' = [c \in Clients |-> NoRecord] /\ activeSessions' = {}
  /\ inFlight' = [r \in Requests |-> Idle] /\ overtaken' = {}
  /\ UNCHANGED <<adminHash, adminSecret, clock, changedTo>>

AdminInit ==
  /\ adminHash = Missing /\ adminSecret \in Secrets
  /\ loginAttempts = [c \in Clients |-> NoRecord] /\ activeSessions = {} /\ clock = 0
  /\ inFlight = [r \in Requests |-> Idle] /\ changedTo = Missing /\ overtaken = {}

AdminNext ==
  \/ \E r \in Requests :
       \/ \E c \in Clients, p \in Passwords :
            \/ Login(r, c, p)
            \/ \E s \in activeSessions, new \in Passwords : ChangePassword(r, s, c, p, new)
       \/ Select(r) \/ Insert(r) \/ VerifyFails(r) \/ Update(r) \/ UpdateFails(r)
       \/ RecordAudit(r)
  \/ CleanupAttempts \/ CleanupSessions \/ Tick \/ Restart

AdminSpec == AdminInit /\ [][AdminNext]_adminVars

-----------------------------------------------------------------------------
AdminTypeOK ==
  /\ adminHash \in Passwords \cup {Missing} /\ adminSecret \in Secrets
  /\ loginAttempts \in [Clients -> [count : Nat, lockedUntil : Nat]]
  /\ activeSessions \subseteq Nat /\ clock \in Nat
  /\ inFlight \in [Requests ->
       [op : {"none", "login", "change"},
        at : {"idle", "select", "insert", "update", "audit", "audit_failed"},
        client : Clients \cup {Missing}, password : Passwords \cup {Missing},
        new : Passwords \cup {Missing}, saw : SUBSET (Passwords \cup {Missing})]]
  /\ changedTo \in Passwords \cup {Missing} /\ overtaken \subseteq Requests

(* admin.test.ts:49 has the eleventh attempt in a row refused.  The limit is
   checked before the awaits of an attempt and counted after them: only the
   attempts already admitted can fail beyond it. *)
FailuresBounded ==
  \A c \in Clients : loginAttempts[c].count < MaxFailed + Cardinality(Requests)

(* A lock ends by the clock, by a restart, or by a login of that client that
   was admitted before it, and no cleanup cuts it short. *)
LockIsKept ==
  [][\A c \in Clients : Locked(c) /\ ~Locked(c)' =>
       \/ clock' > clock
       \/ \A r \in Requests : inFlight'[r] = Idle
       \/ \E r \in Requests : /\ inFlight[r].client = c
                              /\ inFlight[r].at \in {"select", "insert"}
                              /\ inFlight'[r].at = "audit"]_adminVars

(* A login or a change that goes through gave a password that was the right
   one at some moment since the request came, whatever was changed meanwhile. *)
PasswordWasRight ==
  \A r \in Requests :
    inFlight[r].at \in {"update", "audit"} /\ inFlight[r].op # "none" =>
      inFlight[r].password \in inFlight[r].saw

(* A changed password stays until it is changed again: ADMIN_SECRET comes
   back only by a first login that had found no hash when it was changed. *)
ChangeSticks == changedTo # Missing => adminHash = changedTo

=============================================================================
