--------------------------- MODULE DesktopLicense ---------------------------
(***************************************************************************)
(* The licence of the desktop program: the commands of                     *)
(* src-tauri/src/license.rs, the encrypted file they keep it in together   *)
(* with everybody else's secrets (safe_storage.rs), and the page's state   *)
(* with its heartbeat (renderer/src/lib/LicenseContext.tsx).               *)
(*                                                                         *)
(* The commands are synchronous: the main thread runs each to its end and  *)
(* answers in the order of the calls.  A step is a call with its command,  *)
(* or the arrival of an answer.                                            *)
(***************************************************************************)
EXTENDS Naturals, Sequences

CONSTANTS
  LicenseKeys,  \* the keys a user may type that were signed for this device
  Expiry,       \* Expiry[k]: the hour after which k is refused; 0 means never
  TrialSpan,    \* TRIAL_DURATION_MS, in hours of the model
  MaxTime,      \* bound on the hours that pass
  MaxCalls,     \* bound on the user's calls under way
  MaxFailures,  \* bound on the reads and writes of the file that fail
  Beats,        \* names of heartbeat timers: the bound on those alive at once
  TornFile,     \* a file that does not decrypt
  Nothing

ASSUME ExpiryAssumption == Expiry \in [LicenseKeys -> Nat]
ASSUME NothingAssumption == Nothing \notin LicenseKeys \cup Nat \cup Beats
ASSUME TrialAssumption == "trial" \notin LicenseKeys /\ TrialSpan \in Nat
ASSUME BeatsAssumption == Beats \cap {"check", "activate", "deactivate"} = {}

VARIABLES
  now,
  secrets,      \* nexus_secrets.enc: [license, trial, other] or TornFile
  failures,     \* history: the reads and writes of the file that failed
  status,       \* the page's status; "closed" before the program starts
  shownKey,     \* the page's key: a licence, "trial" or Nothing
  answers,      \* the answers under way
  beat,         \* heartbeats: "off", "armed" (its timer) or "asked"
  liveBeat      \* the heartbeat of the current effect, or Nothing

licenseVars == <<now, secrets, failures, status, shownKey, answers, beat, liveBeat>>

(* other stands for the secrets of the AI client and of the API studio. *)
Secrets == [license : LicenseKeys \cup {Nothing}, trial : Nat \cup {Nothing}, other : BOOLEAN]
NoSecrets == [license |-> Nothing, trial |-> Nothing, other |-> FALSE]

ASSUME TornAssumption == TornFile \notin Secrets

-----------------------------------------------------------------------------
(* safe_storage.rs *)

(* What can be had from the file: nothing from a torn one. *)
Content(file) == IF file = TornFile THEN NoSecrets ELSE file

(* load_secrets_map: when the file cannot be read, or does not decrypt though
   it is whole, the map is empty as well and the caller is not told. *)
Load(file) == {[map |-> Content(file), failed |-> 0], [map |-> NoSecrets, failed |-> 1]}

(* save_secrets_map: the file is written in place; a write that fails leaves
   the old file or a torn one. *)
Saved(file, map) ==
  {[file |-> map, failed |-> 0], [file |-> file, failed |-> 1], [file |-> TornFile, failed |-> 1]}

AfterLoad(load, save) == [save EXCEPT !.failed = @ + load.failed]

(* Mutant: the map is saved without what was loaded. *)
StoredAlone(file, field, value) == Saved(file, [NoSecrets EXCEPT ![field] = value])

(* store_secret and delete_secret save the map they loaded, changed at one
   key; delete_secret only if the key was there. *)
Stored(file, field, value) ==
  UNION {{AfterLoad(load, save) : save \in Saved(file, [load.map EXCEPT ![field] = value])} :
           load \in Load(file)}

Deleted(file, field) ==
  UNION {IF load.map[field] = Nothing THEN {[file |-> file, failed |-> load.failed]}
         ELSE {AfterLoad(load, save) : save \in Saved(file, [load.map EXCEPT ![field] = Nothing])} :
           load \in Load(file)}

(* What a command leaves of the file, within the bound on failures. *)
Becomes(save) ==
  /\ failures + save.failed <= MaxFailures
  /\ secrets' = save.file /\ failures' = failures + save.failed

-----------------------------------------------------------------------------
(* license.rs *)

(* validate_license_key refuses an expired key. *)
ValidKey(k) == k \in LicenseKeys /\ (Expiry[k] = 0 \/ now <= Expiry[k])

(* get_or_create_trial on what was left of the file. *)
Trial(before, reply) ==
  \E load \in Load(before.file) :
    LET left == AfterLoad(load, before)
        trial == load.map.trial
    IN  IF trial # Nothing
        THEN Becomes(left) /\ reply = [valid |-> now < trial, key |-> "trial"]
        ELSE /\ \E save \in Stored(before.file, "trial", now + TrialSpan) :
                  Becomes(AfterLoad(left, save))
             /\ reply = [valid |-> TRUE, key |-> "trial"]

(* license_check and license_bg_verify: a stored licence that does not
   validate is deleted and the trial counts. *)
CheckLicense(reply) ==
  \E load \in Load(secrets) :
    LET stored == load.map.license
        unchanged == [file |-> secrets, failed |-> 0]
    IN  \/ /\ ValidKey(stored)
           /\ reply = [valid |-> TRUE, key |-> stored]
           /\ UNCHANGED <<secrets, failures>>
        \/ /\ ~ValidKey(stored)
           /\ \E save \in IF stored = Nothing THEN {unchanged} ELSE Deleted(secrets, "license") :
                Trial(AfterLoad(load, save), reply)

Reply == [valid : BOOLEAN, key : LicenseKeys \cup {"trial"}]
Replies(of, reply) ==
  answers' = Append(answers, [of |-> of, valid |-> reply.valid, key |-> reply.key])

(* Every heartbeat waits for one answer at most. *)
UserMayCall ==
  /\ status \notin {"closed", "checking"}
  /\ Len(SelectSeq(answers, LAMBDA a : a.of \notin Beats)) < MaxCalls

-----------------------------------------------------------------------------
(* LicenseContext.tsx *)

(* The effect on status: when it changes, the timer of the old heartbeat is
   cleared (not the call it may be waiting for) and 'active' arms a new one. *)
ShowStatus(s, key, beats) ==
  LET cleared == [b \in Beats |-> IF b = liveBeat /\ beats[b] = "armed" THEN "off" ELSE beats[b]]
  IN  /\ status' = s /\ shownKey' = key
      /\ IF s = status THEN beat' = beats /\ liveBeat' = liveBeat
         ELSE IF s # "active" THEN beat' = cleared /\ liveBeat' = Nothing
         ELSE \E b \in Beats : /\ cleared[b] = "off"
                               /\ beat' = [cleared EXCEPT ![b] = "armed"]
                               /\ liveBeat' = b

(* The program starts and the provider mounts. *)
Launch ==
  /\ status = "closed"
  /\ \E reply \in Reply : CheckLicense(reply) /\ Replies("check", reply)
  /\ status' = "checking"
  /\ UNCHANGED <<now, shownKey, beat, liveBeat>>

(* license_activate reports success whether or not the key could be stored. *)
Activate(k) ==
  /\ UserMayCall
  /\ IF ValidKey(k)
     THEN \E save \in Stored(secrets, "license", k) : Becomes(save)
     ELSE UNCHANGED <<secrets, failures>>
  /\ Replies("activate", [valid |-> ValidKey(k), key |-> k])
  /\ UNCHANGED <<now, status, shownKey, beat, liveBeat>>

(* license_deactivate and license_clear *)
Deactivate ==
  /\ UserMayCall
  /\ \E save \in Deleted(secrets, "license") : Becomes(save)
  /\ Replies("deactivate", [valid |-> TRUE, key |-> Nothing])
  /\ UNCHANGED <<now, status, shownKey, beat, liveBeat>>

(* A heartbeat's timer fires, or the window gets the focus or is online again. *)
Heartbeat(b) ==
  /\ beat[b] = "armed"
  /\ \E reply \in Reply : CheckLicense(reply) /\ Replies(b, reply)
  /\ beat' = [beat EXCEPT ![b] = "asked"]
  /\ UNCHANGED <<now, status, shownKey, liveBeat>>

(* Mutant: only a heartbeat of the current effect that was answered with a
   licence of the shown key goes on. *)
RearmOnSameKey(b) ==
  [beat EXCEPT ![b] = IF Head(answers).key = shownKey THEN "armed" ELSE "off"]

(* The finally block arms the timer again, also that of a heartbeat whose
   effect is gone; the cleanup of a status change comes after it. *)
Rearm(b) == [beat EXCEPT ![b] = "armed"]

HeartbeatAnswered(b) ==
  LET a == Head(answers)
  IN  IF a.valid THEN beat' = Rearm(b) /\ UNCHANGED <<status, shownKey, liveBeat>>
      ELSE ShowStatus("revoked", Nothing, Rearm(b))

(* Mutant: once revoked, an activation does not bring the page back. *)
ActivateAnsweredUnlessRevoked ==
  LET a == Head(answers)
  IN  IF a.valid /\ status # "revoked" THEN ShowStatus("active", a.key, beat)
      ELSE UNCHANGED <<status, shownKey, beat, liveBeat>>

ActivateAnswered ==
  LET a == Head(answers)
  IN  IF a.valid THEN ShowStatus("active", a.key, beat)
      ELSE UNCHANGED <<status, shownKey, beat, liveBeat>>

Answered ==
  LET a == Head(answers)
  IN  /\ answers # <<>>
      /\ answers' = Tail(answers)
      /\ \/ a.of = "check" /\ a.valid /\ ShowStatus("active", a.key, beat)
         \/ a.of = "check" /\ ~a.valid /\ ShowStatus("inactive", Nothing, beat)
         \/ a.of = "activate" /\ ActivateAnswered
         \/ a.of = "deactivate" /\ ShowStatus("inactive", Nothing, beat)
         \/ a.of \in Beats /\ HeartbeatAnswered(a.of)
      /\ UNCHANGED <<now, secrets, failures>>

(* Another page stores a secret of its own (aiClient.ts, ApiStudio.tsx). *)
StoreOther ==
  /\ status # "closed" /\ ~Content(secrets).other
  /\ \E save \in Stored(secrets, "other", TRUE) : Becomes(save)
  /\ UNCHANGED <<now, status, shownKey, answers, beat, liveBeat>>

Hour ==
  /\ now < MaxTime /\ now' = now + 1
  /\ UNCHANGED <<secrets, failures, status, shownKey, answers, beat, liveBeat>>

(* The program ends; only the file survives. *)
Quit ==
  /\ status # "closed"
  /\ status' = "closed" /\ shownKey' = Nothing /\ answers' = <<>>
  /\ beat' = [b \in Beats |-> "off"] /\ liveBeat' = Nothing
  /\ UNCHANGED <<now, secrets, failures>>

-----------------------------------------------------------------------------
LicenseInit ==
  /\ now = 0 /\ secrets = NoSecrets /\ failures = 0
  /\ status = "closed" /\ shownKey = Nothing /\ answers = <<>>
  /\ beat = [b \in Beats |-> "off"] /\ liveBeat = Nothing

LicenseNext ==
  \/ Launch \/ Deactivate \/ Answered \/ StoreOther \/ Hour \/ Quit
  \/ \E k \in LicenseKeys : Activate(k)
  \/ \E b \in Beats : Heartbeat(b)

LicenseSpec == LicenseInit /\ [][LicenseNext]_licenseVars

(* Timers fire and answers arrive. *)
LicenseFairness ==
  /\ WF_licenseVars(Answered)
  /\ \A b \in Beats : WF_licenseVars(Heartbeat(b))

-----------------------------------------------------------------------------
(* Whatever else is stored or deleted, the trial keeps its end, a valid
   licence stays until the user replaces or removes it, and the secrets of
   the other pages stay, unless a read or a write of the file fails in the
   same command or the file is already torn. *)
SecretsLostOnlyByFailure ==
  [][secrets # TornFile /\ failures' = failures =>
       /\ secrets.trial # Nothing => secrets'.trial = secrets.trial
       /\ secrets.other => secrets'.other
       /\ ValidKey(secrets.license) /\ secrets'.license # secrets.license
            => Len(answers') > Len(answers) /\ answers'[Len(answers')].of \in {"activate", "deactivate"}
    ]_licenseVars

(* With all answers in and no failed read or write, the page shows a paid key only
   if that key is stored or has expired since, and 'revoked' or 'inactive'
   only if no valid licence is stored: also when a heartbeat crosses an
   activation, or one of an earlier activation is still running. *)
PageAgreesWithStore ==
  answers = <<>> /\ failures = 0 =>
    /\ status = "active" /\ ValidKey(shownKey) => Content(secrets).license = shownKey
    /\ status \in {"revoked", "inactive"} => ~ValidKey(Content(secrets).license)

(* Neither a licence nor a trial entitles to what the page shows. *)
Lapsed ==
  /\ status = "active"
  /\ ~ValidKey(Content(secrets).license)
  /\ Content(secrets).trial # Nothing /\ now >= Content(secrets).trial

(* While the program runs, its heartbeat notices that licence and trial are
   over: no sequence of activations, removals and late answers stops it. *)
LapseIsNoticed == Lapsed ~> ~Lapsed

=============================================================================
