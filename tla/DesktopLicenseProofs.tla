------------------------ MODULE DesktopLicenseProofs ------------------------
(***************************************************************************)
(* What the licence of the desktop program guarantees for any keys, any    *)
(* number of heartbeats and any number of calls under way.                 *)
(***************************************************************************)
EXTENDS DesktopLicense, TLAPS

Callers == {"check", "activate", "deactivate"} \cup Beats

AnswerType == [of : Callers, valid : BOOLEAN, key : LicenseKeys \cup {"trial", Nothing}]

(* The types, and that only a write that fails tears the file. *)
LicenseTypeOK ==
  /\ now \in Nat
  /\ secrets \in Secrets \cup {TornFile}
  /\ failures \in Nat
  /\ failures = 0 => secrets # TornFile
  /\ status \in {"closed", "checking", "active", "inactive", "revoked"}
  /\ shownKey \in LicenseKeys \cup {"trial", Nothing}
  /\ answers \in Seq(AnswerType)
  /\ beat \in [Beats -> {"off", "armed", "asked"}]
  /\ liveBeat \in Beats \cup {Nothing}

(* What an answer makes the page show, if it is one that does. *)
Decisive(a) ==
  \/ a.of \in {"check", "deactivate"}
  \/ a.of = "activate" /\ a.valid
  \/ a.of \in Beats /\ ~a.valid
StatusBy(a) ==
  IF a.of \in Beats THEN "revoked"
  ELSE IF a.of # "deactivate" /\ a.valid THEN "active" ELSE "inactive"
KeyBy(a) == IF StatusBy(a) = "active" THEN a.key ELSE Nothing

(* The page's status s with key k is what the stored licence entitles to. *)
Agrees(s, k) ==
  /\ s = "active" /\ ValidKey(k) => Content(secrets).license = k
  /\ s \in {"revoked", "inactive"} => ~ValidKey(Content(secrets).license)

(* What the page will show once the answers under way are in: what the last
   decisive one says, or what it shows now.  That is what must agree with the
   store; what it shows in between need not. *)
LastDecisive(i) ==
  Decisive(answers[i]) /\ \A j \in i + 1..Len(answers) : ~Decisive(answers[j])
WillAgree ==
  failures = 0 =>
    /\ \A i \in 1..Len(answers) :
         LastDecisive(i) => Agrees(StatusBy(answers[i]), KeyBy(answers[i]))
    /\ (\A i \in 1..Len(answers) : ~Decisive(answers[i])) => Agrees(status, shownKey)

LicenseInv == LicenseTypeOK /\ WillAgree

-----------------------------------------------------------------------------
(* The file of secrets. *)

(* The empty map has the shape of a map. *)
LEMMA NoSecretsType == NoSecrets \in Secrets
BY DEF NoSecrets, Secrets

(* Setting one of the secrets keeps the shape and the others. *)
LEMMA SetSecret ==
  ASSUME NEW m \in Secrets
  PROVE  /\ \A k \in LicenseKeys \cup {Nothing} :
              LET n == [m EXCEPT !.license = k]
              IN  n \in Secrets /\ n.license = k /\ n.trial = m.trial /\ n.other = m.other
         /\ LET n == [m EXCEPT !.other = TRUE]
            IN  n \in Secrets /\ n.license = m.license /\ n.trial = m.trial /\ n.other
BY DEF Secrets

(* What can be had from a file has the shape of what is stored, torn or not. *)
LEMMA ContentType ==
  ASSUME NEW file \in Secrets \cup {TornFile}
  PROVE  Content(file) \in Secrets /\ (file # TornFile => Content(file) = file)
BY DEF Content, Secrets, NoSecrets

(* A load gives what can be had, or counts as a failure. *)
LEMMA LoadType ==
  ASSUME NEW file \in Secrets \cup {TornFile}, NEW load \in Load(file)
  PROVE  /\ load.map \in Secrets /\ load.failed \in {0, 1}
         /\ load.failed = 0 => load.map = Content(file)
BY ContentType, NoSecretsType DEF Load

(* Nothing is no key that validates. *)
LEMMA NothingIsInvalid == ~ValidKey(Nothing) /\ ~ValidKey("trial")
BY NothingAssumption, TrialAssumption DEF ValidKey

(* A save leaves the new map, or counts as a failure; the failure of the load
   before it counts as well. *)
LEMMA SavedType ==
  ASSUME NEW file \in Secrets \cup {TornFile}, NEW map \in Secrets, NEW load \in Load(file),
         NEW s \in Saved(file, map), NEW save, save = AfterLoad(load, s)
  PROVE  /\ save \in [file : Secrets \cup {TornFile}, failed : 0..2]
         /\ save.failed = 0 => save.file = map /\ load.map = Content(file)
<1>1. s \in [file : Secrets \cup {TornFile}, failed : {0, 1}]
      /\ (s.failed = 0 => s.file = map)
  BY DEF Saved
<1>2. load.failed \in {0, 1} /\ (load.failed = 0 => load.map = Content(file))
  BY LoadType
<1>3. save = [file |-> s.file, failed |-> s.failed + load.failed]
  BY <1>1 DEF AfterLoad
<1> QED
  BY <1>1, <1>2, <1>3

(* What a command may leave of the file, and how often it failed. *)
Saves == [file : Secrets \cup {TornFile}, failed : 0..2]

(* The map with one secret set, and that a secret may take a value. *)
Put(map, field, value) == [map EXCEPT ![field] = value]
Fits(field, value) == \A m \in Secrets : Put(m, field, value) \in Secrets

(* store_secret without a failure changes one secret of the file. *)
LEMMA StoredType ==
  ASSUME NEW file \in Secrets \cup {TornFile}, NEW field, NEW value, Fits(field, value),
         NEW save \in Stored(file, field, value)
  PROVE  /\ save \in Saves
         /\ save.failed = 0 => save.file = Put(Content(file), field, value)
<1>1. PICK load \in Load(file) :
        \E s \in Saved(file, [load.map EXCEPT ![field] = value]) : save = AfterLoad(load, s)
  BY DEF Stored
<1>2. PICK map : map = Put(load.map, field, value)
  OBVIOUS
<1>3. PICK s \in Saved(file, map) : save = AfterLoad(load, s)
  BY <1>1, <1>2 DEF Put
<1>4. map \in Secrets
  BY <1>2, LoadType DEF Fits
<1>5. /\ save \in Saves
      /\ save.failed = 0 => save.file = map /\ load.map = Content(file)
  BY <1>3, <1>4, SavedType DEF Saves
<1> QED
  BY <1>2, <1>5

(* delete_secret without a failure leaves a file without the licence. *)
LEMMA DeletedLicense ==
  ASSUME NEW file \in Secrets \cup {TornFile}, NEW save \in Deleted(file, "license")
  PROVE  /\ save \in Saves
         /\ save.failed = 0 =>
              /\ Content(save.file) = [Content(file) EXCEPT !.license = Nothing]
              /\ file # TornFile => save.file # TornFile
<1>0. Content(file) \in Secrets
  BY ContentType
<1>1. PICK load \in Load(file) :
        save \in IF load.map.license = Nothing THEN {[file |-> file, failed |-> load.failed]}
                 ELSE {AfterLoad(load, s) : s \in Saved(file, [load.map EXCEPT !.license = Nothing])}
  BY DEF Deleted
<1>2. /\ load.map \in Secrets /\ load.failed \in {0, 1}
      /\ load.failed = 0 => load.map = Content(file)
  BY LoadType
<1>3. CASE load.map.license = Nothing
  <2>1. save = [file |-> file, failed |-> load.failed]
    BY <1>1, <1>3
  <2>2. [load.map EXCEPT !.license = Nothing] = load.map
    BY <1>2, <1>3 DEF Secrets
  <2> QED
    BY <1>2, <2>1, <2>2 DEF Saves
<1>4. CASE load.map.license # Nothing
  <2>1. PICK map : map = [load.map EXCEPT !.license = Nothing]
    OBVIOUS
  <2>2. map \in Secrets
    BY <1>2, <2>1 DEF Secrets
  <2>3. PICK s \in Saved(file, map) : save = AfterLoad(load, s)
    BY <1>1, <1>4, <2>1
  <2>4. /\ save \in [file : Secrets \cup {TornFile}, failed : 0..2]
        /\ save.failed = 0 => save.file = map /\ load.map = Content(file)
    BY <2>2, <2>3, SavedType
  <2> QED
    BY <2>1, <2>2, <2>4, ContentType, TornAssumption DEF Saves
<1> QED
  BY <1>3, <1>4

(* license_check and license_bg_verify: a licence that validates is reported
   and nothing changes; one that does not is gone, and neither the trial that
   has begun nor another page's secret goes with it. *)
LEMMA CheckFacts ==
  ASSUME LicenseTypeOK, NEW reply \in Reply, CheckLicense(reply)
  PROVE  /\ secrets' \in Secrets \cup {TornFile}
         /\ failures' \in Nat /\ failures' >= failures
         /\ \/ /\ ValidKey(Content(secrets).license)
               /\ reply.valid /\ reply.key = Content(secrets).license
               /\ UNCHANGED <<secrets, failures>>
            \/ /\ reply.key = "trial"
               /\ failures' = failures => ~ValidKey(Content(secrets).license)
         /\ secrets # TornFile /\ failures' = failures =>
               /\ secrets' # TornFile
               /\ ~ValidKey(secrets.license) => secrets'.license = Nothing
               /\ secrets.trial # Nothing => secrets'.trial = secrets.trial
               /\ secrets.other => secrets'.other
<1>1. secrets \in Secrets \cup {TornFile} /\ failures \in Nat /\ now \in Nat
      /\ Content(secrets) \in Secrets /\ (secrets # TornFile => Content(secrets) = secrets)
  BY ContentType DEF LicenseTypeOK
<1>2. PICK load \in Load(secrets) :
        LET stored == load.map.license
            unchanged == [file |-> secrets, failed |-> 0]
        IN  \/ /\ ValidKey(stored)
               /\ reply = [valid |-> TRUE, key |-> stored]
               /\ UNCHANGED <<secrets, failures>>
            \/ /\ ~ValidKey(stored)
               /\ \E save \in IF stored = Nothing THEN {unchanged} ELSE Deleted(secrets, "license") :
                    Trial(AfterLoad(load, save), reply)
  BY DEF CheckLicense
<1>3. /\ load.map \in Secrets /\ load.failed \in {0, 1}
      /\ load.failed = 0 => load.map = Content(secrets)
      /\ load = [map |-> NoSecrets, failed |-> 1] \/ load.map = Content(secrets)
  BY <1>1, LoadType DEF Load
<1>4. CASE ValidKey(load.map.license) /\ reply = [valid |-> TRUE, key |-> load.map.license]
           /\ UNCHANGED <<secrets, failures>>
  <2>1. load.map = Content(secrets)
    BY <1>3, <1>4, NothingIsInvalid DEF NoSecrets
  <2>2. reply.valid /\ reply.key = Content(secrets).license
    BY <1>4, <2>1
  <2> QED
    BY <1>1, <1>4, <2>1, <2>2
<1>5. ASSUME ~ValidKey(load.map.license),
             NEW save \in IF load.map.license = Nothing THEN {[file |-> secrets, failed |-> 0]}
                          ELSE Deleted(secrets, "license"),
             Trial(AfterLoad(load, save), reply)
      PROVE  /\ secrets' \in Secrets \cup {TornFile}
             /\ failures' \in Nat /\ failures' >= failures
             /\ reply.key = "trial"
             /\ failures' = failures => ~ValidKey(Content(secrets).license)
             /\ secrets # TornFile /\ failures' = failures =>
                  /\ secrets' # TornFile
                  /\ secrets'.license = Nothing
                  /\ secrets.trial # Nothing => secrets'.trial = secrets.trial
                  /\ secrets.other => secrets'.other
  <2>0. /\ save \in Saves
        /\ load.failed = 0 /\ save.failed = 0 =>
             /\ Content(save.file) = [Content(secrets) EXCEPT !.license = Nothing]
             /\ secrets # TornFile => save.file # TornFile
    <3>1. CASE load.map.license = Nothing
      <4>1. save = [file |-> secrets, failed |-> 0]
        BY <1>5, <3>1
      <4>2. [load.map EXCEPT !.license = Nothing] = load.map
        BY <1>3, <3>1 DEF Secrets
      <4> QED
        BY <1>1, <1>3, <4>1, <4>2 DEF Saves
    <3>2. CASE load.map.license # Nothing
      BY <1>1, <1>5, <3>2, DeletedLicense
    <3> QED
      BY <3>1, <3>2
  <2>1. PICK before : before = AfterLoad(load, save)
    OBVIOUS
  <2>2. /\ before \in [file : Secrets \cup {TornFile}, failed : 0..3]
        /\ before.failed = 0 =>
             /\ load.failed = 0
             /\ Content(before.file) = [Content(secrets) EXCEPT !.license = Nothing]
             /\ secrets # TornFile => before.file # TornFile
    <3>1. before = [file |-> save.file, failed |-> save.failed + load.failed]
      BY <2>0, <2>1 DEF AfterLoad, Saves
    <3> QED
      BY <1>3, <2>0, <3>1 DEF Saves
  <2>3. PICK again \in Load(before.file) :
          IF again.map.trial # Nothing
          THEN /\ Becomes(AfterLoad(again, before))
               /\ reply = [valid |-> now < again.map.trial, key |-> "trial"]
          ELSE /\ \E s \in Stored(before.file, "trial", now + TrialSpan) :
                    Becomes(AfterLoad(AfterLoad(again, before), s))
               /\ reply = [valid |-> TRUE, key |-> "trial"]
    BY <1>5, <2>1 DEF Trial
  <2>4. reply.key = "trial"
    BY <2>3
  <2>5. /\ again.failed \in {0, 1}
        /\ again.failed = 0 => again.map = Content(before.file)
    BY <2>2, LoadType
  <2>6. PICK left : left = AfterLoad(again, before)
    OBVIOUS
  <2>7. left = [file |-> before.file, failed |-> before.failed + again.failed]
    BY <2>2, <2>6 DEF AfterLoad
  <2>8. CASE again.map.trial # Nothing
    <3>1. secrets' = before.file /\ failures' = failures + (before.failed + again.failed)
      BY <2>3, <2>6, <2>7, <2>8 DEF Becomes
    <3>2. ASSUME failures' = failures
          PROVE  /\ before.failed = 0 /\ load.failed = 0
                 /\ Content(secrets') = [Content(secrets) EXCEPT !.license = Nothing]
                 /\ secrets # TornFile => secrets' # TornFile
      BY <1>1, <2>2, <2>5, <3>1, <3>2
    <3>3. ASSUME secrets # TornFile, failures' = failures
          PROVE  secrets' # TornFile /\ secrets' = [secrets EXCEPT !.license = Nothing]
      BY <1>1, <2>2, <3>1, <3>2, <3>3, ContentType
    <3> QED
      BY <1>1, <1>3, <1>5, <2>2, <2>4, <2>5, <3>1, <3>2, <3>3 DEF Secrets
  <2>9. CASE again.map.trial = Nothing
    <3>1. PICK s \in Stored(before.file, "trial", now + TrialSpan) : Becomes(AfterLoad(left, s))
      BY <2>3, <2>6, <2>9
    <3>2. /\ s \in Saves
          /\ s.failed = 0 => s.file = Put(Content(before.file), "trial", now + TrialSpan)
      <4>1. Fits("trial", now + TrialSpan)
        BY <1>1, TrialAssumption DEF Secrets, Fits, Put
      <4>2. before.file \in Secrets \cup {TornFile}
        BY <2>2
      <4> QED
        BY ONLY <3>1, <4>1, <4>2, StoredType
    <3>3. AfterLoad(left, s) = [file |-> s.file, failed |-> s.failed + left.failed]
      BY <3>2 DEF AfterLoad, Saves
    <3>4. secrets' = s.file
          /\ failures' = failures + (s.failed + (before.failed + again.failed))
      BY <2>7, <3>1, <3>3 DEF Becomes
    <3>5. ASSUME failures' = failures
          PROVE  s.failed = 0 /\ before.failed = 0 /\ again.failed = 0 /\ load.failed = 0
      BY <1>1, <2>2, <2>5, <3>2, <3>4, <3>5 DEF Saves
    <3>6. ASSUME secrets # TornFile, failures' = failures
          PROVE  secrets' # TornFile /\ secrets.trial = Nothing
                 /\ secrets'.license = Nothing /\ secrets'.other = secrets.other
      <4>1. Content(before.file) = [secrets EXCEPT !.license = Nothing] /\ secrets \in Secrets
        BY <1>1, <2>2, <3>5, <3>6
      <4>2. PICK map : map = [[secrets EXCEPT !.license = Nothing] EXCEPT !.trial = now + TrialSpan]
        OBVIOUS
      <4>3. secrets' = map
        BY <3>2, <3>4, <3>5, <3>6, <4>1, <4>2 DEF Put
      <4>4. again.map = [secrets EXCEPT !.license = Nothing]
        BY <2>5, <3>5, <3>6, <4>1
      <4>5. secrets.trial = Nothing
        BY <2>9, <4>1, <4>4 DEF Secrets
      <4>6. map \in Secrets
        <5>1. [secrets EXCEPT !.license = Nothing] \in Secrets
          BY <4>1 DEF Secrets
        <5>2. now + TrialSpan \in Nat
          BY <1>1, TrialAssumption
        <5> QED
          BY <4>2, <5>1, <5>2 DEF Secrets
      <4>7. secrets' # TornFile
        BY <4>3, <4>6, TornAssumption
      <4> QED
        BY <4>1, <4>2, <4>3, <4>5, <4>7 DEF Secrets
    <3>7. failures' \in Nat /\ failures' >= failures
      BY <1>1, <2>2, <2>5, <3>2, <3>4 DEF Saves
    <3> QED
      BY <1>1, <1>3, <1>5, <2>4, <3>2, <3>4, <3>5, <3>6, <3>7 DEF Saves
  <2> QED
    BY <2>8, <2>9
<1>6. CASE ~ValidKey(load.map.license)
           /\ \E save \in IF load.map.license = Nothing THEN {[file |-> secrets, failed |-> 0]}
                          ELSE Deleted(secrets, "license") :
                Trial(AfterLoad(load, save), reply)
  <2>1. PICK save \in IF load.map.license = Nothing THEN {[file |-> secrets, failed |-> 0]}
                          ELSE Deleted(secrets, "license") :
                Trial(AfterLoad(load, save), reply)
    BY <1>6
  <2> QED
    BY <1>1, <1>5, <1>6, <2>1
<1> QED
  BY <1>2, <1>4, <1>6

-----------------------------------------------------------------------------
(* The answers under way. *)

(* No step of the commands makes a licence that was refused valid, or puts
   another in the place of the one that the page may show. *)
Persists == \A s, k : Agrees(s, k) => Agrees(s, k)'

(* A decisive answer joins the queue and agrees with the store it leaves. *)
LEMMA DecisiveJoins ==
  ASSUME LicenseTypeOK, NEW a \in AnswerType, answers' = Append(answers, a), Decisive(a),
         failures' = 0 => Agrees(StatusBy(a), KeyBy(a))'
  PROVE  WillAgree'
<1>1. /\ Len(answers') = Len(answers) + 1 /\ Len(answers) \in Nat
      /\ answers'[Len(answers) + 1] = a
  BY DEF LicenseTypeOK
<1>2. Decisive(answers'[Len(answers')])
  BY <1>1
<1>3. ASSUME NEW i \in 1..Len(answers'), LastDecisive(i)'  PROVE i = Len(answers) + 1
  <2>1. \A j \in i + 1..Len(answers') : ~Decisive(answers'[j])
    BY <1>3 DEF LastDecisive, Decisive
  <2> QED
    BY <1>1, <1>2, <2>1
<1>4. Len(answers') \in 1..Len(answers')
  BY <1>1
<1>5. StatusBy(a)' = StatusBy(a) /\ KeyBy(a)' = KeyBy(a)
  BY DEF StatusBy, KeyBy
<1> QED
  BY <1>1, <1>2, <1>3, <1>4, <1>5 DEF WillAgree, Decisive, StatusBy, KeyBy

(* Another joins, or none, while nothing that agreed stops agreeing. *)
LEMMA IndecisiveJoins ==
  ASSUME LicenseTypeOK, WillAgree, Persists, UNCHANGED <<status, shownKey>>,
         failures' = 0 => failures = 0,
         \/ answers' = answers
         \/ \E a \in AnswerType : answers' = Append(answers, a) /\ ~Decisive(a)
  PROVE  WillAgree'
<1>1. /\ Len(answers) \in Nat /\ Len(answers') \in Nat /\ Len(answers) <= Len(answers')
      /\ \A i \in 1..Len(answers) : answers'[i] = answers[i]
      /\ \A i \in 1..Len(answers') : i \notin 1..Len(answers) => ~Decisive(answers'[i])
  BY DEF LicenseTypeOK
<1>2. ASSUME NEW i \in 1..Len(answers'), LastDecisive(i)'
      PROVE  i \in 1..Len(answers) /\ LastDecisive(i)
  <2>1. Decisive(answers'[i]) /\ \A j \in i + 1..Len(answers') : ~Decisive(answers'[j])
    BY <1>2 DEF LastDecisive, Decisive
  <2>2. i \in 1..Len(answers)
    BY <1>1, <2>1
  <2>3. \A j \in i + 1..Len(answers) : j \in i + 1..Len(answers') /\ j \in 1..Len(answers)
    BY <1>1, <2>2
  <2> QED
    BY <1>1, <2>1, <2>2, <2>3 DEF LastDecisive
<1>3. ASSUME failures' = 0, NEW i \in 1..Len(answers'), LastDecisive(i)'
      PROVE  Agrees(StatusBy(answers[i]), KeyBy(answers[i]))' /\ answers'[i] = answers[i]
  BY <1>1, <1>2, <1>3 DEF WillAgree, Persists
<1>4. ASSUME failures' = 0, \A i \in 1..Len(answers') : ~Decisive(answers'[i])
      PROVE  Agrees(status, shownKey)'
  <2>1. \A i \in 1..Len(answers) : ~Decisive(answers[i])
    BY <1>1, <1>4
  <2> QED
    BY <1>4, <2>1 DEF WillAgree, Persists, Agrees
<1> QED
  BY <1>3, <1>4 DEF WillAgree, Decisive, StatusBy, KeyBy, Agrees

(* The page takes an answer in: a decisive one is what it shows from then on,
   another changes nothing it shows. *)
LEMMA AnsweredShows ==
  ASSUME LicenseTypeOK, Answered
  PROVE  LET a == Head(answers)
         IN  /\ a \in AnswerType /\ answers # <<>> /\ answers' = Tail(answers)
             /\ Decisive(a) => status' = StatusBy(a) /\ shownKey' = KeyBy(a)
             /\ ~Decisive(a) => UNCHANGED <<status, shownKey>>
             /\ UNCHANGED <<now, secrets, failures>>
<1> DEFINE a == Head(answers)
<1>1. a \in AnswerType /\ answers # <<>> /\ answers' = Tail(answers)
      /\ UNCHANGED <<now, secrets, failures>>
  BY DEF Answered, LicenseTypeOK
<1>2. a.of \in Callers /\ a.valid \in BOOLEAN
  BY <1>1 DEF AnswerType
<1>a. ASSUME NEW s, NEW k, NEW beats, ShowStatus(s, k, beats)
      PROVE  status' = s /\ shownKey' = k
  BY <1>a DEF ShowStatus
<1> USE <1>1, <1>2, <1>a, BeatsAssumption DEF Callers, Decisive, StatusBy, KeyBy
<1>3. CASE a.of = "check"
  BY <1>3 DEF Answered
<1>4. CASE a.of = "activate"
  BY <1>4 DEF Answered, ActivateAnswered
<1>5. CASE a.of = "deactivate"
  BY <1>5 DEF Answered
<1>6. CASE a.of \in Beats
  BY <1>6 DEF Answered, HeartbeatAnswered
<1> QED
  BY <1>1, <1>3, <1>4, <1>5, <1>6

(* So taking an answer in changes nothing of what the page will show. *)
LEMMA AnsweredAgrees ==
  ASSUME LicenseTypeOK, WillAgree, Answered
  PROVE  WillAgree'
<1> DEFINE a == Head(answers)
<1>1. /\ answers # <<>> /\ answers' = Tail(answers)
      /\ Decisive(a) => status' = StatusBy(a) /\ shownKey' = KeyBy(a)
      /\ ~Decisive(a) => status' = status /\ shownKey' = shownKey
      /\ now' = now /\ secrets' = secrets /\ failures' = failures
  BY AnsweredShows
<1>2. /\ Len(answers) \in Nat \ {0} /\ Len(answers') = Len(answers) - 1 /\ answers[1] = a
      /\ \A i \in 1..Len(answers') : answers'[i] = answers[i + 1] /\ i + 1 \in 1..Len(answers)
  BY <1>1 DEF LicenseTypeOK
<1> HIDE DEF a
<1>3. \A s, k : Agrees(s, k)' <=> Agrees(s, k)
  BY <1>1 DEF Agrees, ValidKey
<1>4. ASSUME failures = 0, NEW i \in 1..Len(answers'), LastDecisive(i)'
      PROVE  Agrees(StatusBy(answers'[i]), KeyBy(answers'[i]))
  <2>1. Decisive(answers'[i]) /\ \A j \in i + 1..Len(answers') : ~Decisive(answers'[j])
    BY <1>4 DEF LastDecisive, Decisive
  <2>2. ASSUME NEW j \in (i + 1) + 1..Len(answers)  PROVE ~Decisive(answers[j])
    <3>1. j - 1 \in i + 1..Len(answers') /\ j - 1 \in 1..Len(answers') /\ (j - 1) + 1 = j
      BY <1>2
    <3>2. answers'[j - 1] = answers[j]
      BY <1>2, <3>1
    <3> QED
      BY <2>1, <3>1, <3>2
  <2>3. i + 1 \in 1..Len(answers) /\ LastDecisive(i + 1)
    BY <1>2, <2>1, <2>2 DEF LastDecisive
  <2> QED
    BY <1>2, <1>4, <2>3 DEF WillAgree
<1>5. ASSUME failures = 0, \A i \in 1..Len(answers') : ~Decisive(answers'[i])
      PROVE  Agrees(status', shownKey')
  <2>1. ASSUME NEW j \in 2..Len(answers)  PROVE ~Decisive(answers[j])
    <3>1. j - 1 \in 1..Len(answers') /\ (j - 1) + 1 = j
      BY <1>2
    <3> QED
      BY <1>2, <1>5, <3>1
  <2>2. CASE Decisive(a)
    <3>1. 1 \in 1..Len(answers) /\ LastDecisive(1)
      BY <1>2, <2>1, <2>2 DEF LastDecisive
    <3> QED
      BY <1>1, <1>2, <1>5, <2>2, <3>1 DEF WillAgree
  <2>3. CASE ~Decisive(a)
    <3>1. \A i \in 1..Len(answers) : ~Decisive(answers[i])
      BY <1>2, <2>1, <2>3
    <3> QED
      BY <1>1, <1>5, <2>3, <3>1 DEF WillAgree
  <2> QED
    BY <2>2, <2>3
<1> QED
  BY <1>1, <1>3, <1>4, <1>5 DEF WillAgree, Decisive, StatusBy, KeyBy

-----------------------------------------------------------------------------
(* The invariant. *)

(* The command behind the mount and behind a heartbeat: the answer that joins
   the queue, and what it leaves of the store. *)
LEMMA CheckAgrees ==
  ASSUME LicenseTypeOK, WillAgree, NEW c \in {"check"} \cup Beats, NEW reply \in Reply,
         CheckLicense(reply), Replies(c, reply), now' = now,
         c = "check" \/ UNCHANGED <<status, shownKey>>
  PROVE  WillAgree'
<1> DEFINE a == [of |-> c, valid |-> reply.valid, key |-> reply.key]
<1>1. a \in AnswerType /\ answers' = Append(answers, a)
  BY DEF Replies, Reply, AnswerType, Callers
<1>2. failures \in Nat /\ failures' \in Nat /\ failures' >= failures
  BY CheckFacts DEF LicenseTypeOK
<1>3. ASSUME failures' = 0
      PROVE  /\ failures = 0
             /\ \/ /\ ValidKey(Content(secrets).license)
                   /\ reply.valid /\ reply.key = Content(secrets).license
                   /\ secrets' = secrets
                \/ /\ ~ValidKey(Content(secrets).license) /\ reply.key = "trial"
                   /\ Content(secrets').license = Nothing
  <2>1. failures = 0 /\ secrets # TornFile
    BY <1>2, <1>3 DEF LicenseTypeOK
  <2>2. /\ Content(secrets) = secrets /\ (secrets' # TornFile => Content(secrets') = secrets')
        /\ failures' = failures
    BY <1>2, <1>3, <2>1 DEF Content
  <2> QED
    BY <1>3, <2>1, <2>2, CheckFacts
<1>4. \A k : ValidKey(k)' <=> ValidKey(k)
  BY DEF ValidKey
<1>5. CASE Decisive(a)
  <2>1. failures' = 0 => Agrees(StatusBy(a), KeyBy(a))'
    BY <1>3, <1>4, <1>5, NothingIsInvalid, BeatsAssumption DEF Agrees, StatusBy, KeyBy, Decisive
  <2> QED
    BY <1>1, <1>5, <2>1, DecisiveJoins
<1>6. CASE ~Decisive(a) /\ failures' = 0
  <2>1. Persists
    BY <1>3, <1>4, <1>6, NothingIsInvalid DEF Persists, Agrees
  <2>2. UNCHANGED <<status, shownKey>>
    BY <1>6 DEF Decisive
  <2> QED
    BY <1>1, <1>3, <1>6, <2>1, <2>2, IndecisiveJoins
<1>7. CASE failures' # 0
  BY <1>7 DEF WillAgree
<1> QED
  BY <1>5, <1>6, <1>7

(* Every step: a command leaves a store that its answer reports, and whatever
   it does not report does not matter to what the page shows. *)
LEMMA AgreeStep ==
  ASSUME LicenseInv, [LicenseNext]_licenseVars
  PROVE  WillAgree'
<1> USE DEF LicenseInv
<1>a. ASSUME now' \in {now, now + 1}, secrets' = secrets  PROVE Persists
  <2>1. \A k : ValidKey(k)' => ValidKey(k)
    BY <1>a, ExpiryAssumption DEF ValidKey, LicenseTypeOK
  <2> QED
    BY <1>a, <2>1 DEF Persists, Agrees
<1>0. CASE UNCHANGED licenseVars
  BY <1>0, <1>a, IndecisiveJoins DEF licenseVars
<1>1. CASE Launch
  BY <1>1, CheckAgrees DEF Launch
<1>2. ASSUME NEW k \in LicenseKeys, Activate(k)  PROVE WillAgree'
  <2>0. PICK a : a = [of |-> "activate", valid |-> ValidKey(k), key |-> k]
    OBVIOUS
  <2>1. /\ a \in AnswerType /\ answers' = Append(answers, a)
        /\ now' = now /\ status' = status /\ shownKey' = shownKey
    BY <1>2, <2>0 DEF Activate, Replies, AnswerType, Callers, ValidKey
  <2>2. CASE ValidKey(k)
    <3>1. PICK save \in Stored(secrets, "license", k) : Becomes(save)
      BY <1>2, <2>2 DEF Activate
    <3>2. Fits("license", k)
      BY DEF Secrets, Fits, Put
    <3>3. /\ save.failed \in 0..2
          /\ save.failed = 0 => save.file = [Content(secrets) EXCEPT !.license = k]
          /\ secrets' = save.file /\ failures' = failures + save.failed
      <4>1. secrets \in Secrets \cup {TornFile}
        BY DEF LicenseTypeOK
      <4>2. /\ save \in Saves
            /\ save.failed = 0 => save.file = Put(Content(secrets), "license", k)
        BY ONLY <3>1, <3>2, <4>1, StoredType
      <4> QED
        BY <3>1, <4>2 DEF Becomes, Saves, Put
    <3>4. failures' = 0 => Content(secrets').license = k
      <4> SUFFICES ASSUME failures' = 0  PROVE Content(secrets').license = k
        OBVIOUS
      <4>1. PICK map : map = [Content(secrets) EXCEPT !.license = k]
        OBVIOUS
      <4>2. secrets' = map
        BY <3>3, <4>1 DEF LicenseTypeOK
      <4>3. map \in Secrets /\ map.license = k
        BY <4>1, ContentType DEF LicenseTypeOK, Secrets
      <4> QED
        BY <4>2, <4>3, ContentType, TornAssumption
    <3>5. failures' = 0 => Agrees(StatusBy(a), KeyBy(a))'
      BY <2>0, <2>2, <3>4, BeatsAssumption DEF Agrees, StatusBy, KeyBy
    <3>6. Decisive(a)
      BY <2>0, <2>2 DEF Decisive
    <3> QED
      BY <2>1, <3>5, <3>6, DecisiveJoins
  <2>3. CASE ~ValidKey(k)
    <3>1. secrets' = secrets /\ failures' = failures
      BY <1>2, <2>3 DEF Activate
    <3> QED
      BY <2>0, <2>1, <2>3, <3>1, <1>a, IndecisiveJoins, BeatsAssumption DEF Decisive
  <2> QED
    BY <2>2, <2>3
<1>3. CASE Deactivate
  <2> DEFINE a == [of |-> "deactivate", valid |-> TRUE, key |-> Nothing]
  <2>1. PICK save \in Deleted(secrets, "license") : Becomes(save)
    BY <1>3 DEF Deactivate
  <2>2. /\ a \in AnswerType /\ answers' = Append(answers, a) /\ Decisive(a)
        /\ now' = now
    BY <1>3 DEF Deactivate, Replies, AnswerType, Callers, Decisive
  <2>3. /\ save.failed \in 0..2 /\ secrets' = save.file
        /\ failures' = failures + save.failed
        /\ save.failed = 0 => Content(save.file) = [Content(secrets) EXCEPT !.license = Nothing]
    BY <2>1, DeletedLicense DEF Becomes, LicenseTypeOK, Saves
  <2>4. failures' = 0 => Content(secrets').license = Nothing
    BY <2>3, ContentType DEF LicenseTypeOK, Secrets
  <2>5. failures' = 0 => Agrees(StatusBy(a), KeyBy(a))'
    BY <2>2, <2>4, NothingIsInvalid, BeatsAssumption DEF Agrees, StatusBy, KeyBy, ValidKey
  <2> QED
    BY <2>2, <2>5, DecisiveJoins
<1>4. ASSUME NEW b \in Beats, Heartbeat(b)  PROVE WillAgree'
  BY <1>4, CheckAgrees DEF Heartbeat
<1>5. CASE Answered
  BY <1>5, AnsweredAgrees
<1>6. CASE StoreOther
  <2>1. PICK save \in Stored(secrets, "other", TRUE) : Becomes(save)
    BY <1>6 DEF StoreOther
  <2>2. Fits("other", TRUE)
    BY SetSecret DEF Fits, Put
  <2>3. /\ save.failed \in 0..2
        /\ save.failed = 0 => save.file = [Content(secrets) EXCEPT !.other = TRUE]
        /\ secrets' = save.file /\ failures' = failures + save.failed
    <3>1. secrets \in Secrets \cup {TornFile}
      BY DEF LicenseTypeOK
    <3>2. /\ save \in Saves
          /\ save.failed = 0 => save.file = Put(Content(secrets), "other", TRUE)
      BY ONLY <2>1, <2>2, <3>1, StoredType
    <3> QED
      BY <2>1, <3>2 DEF Becomes, Saves, Put
  <2>4. CASE failures' = 0
    <3>1. failures = 0 /\ Content(secrets').license = Content(secrets).license
      <4>1. PICK map : map = [Content(secrets) EXCEPT !.other = TRUE]
        OBVIOUS
      <4>2. failures = 0 /\ secrets' = map
        BY <2>3, <2>4, <4>1 DEF LicenseTypeOK
      <4>3. map \in Secrets /\ map.license = Content(secrets).license
        BY <4>1, ContentType, SetSecret DEF LicenseTypeOK
      <4> QED
        BY <4>2, <4>3, ContentType, TornAssumption
    <3>2. Persists
      BY <1>6, <3>1 DEF StoreOther, Persists, Agrees, ValidKey
    <3> QED
      BY <1>6, <3>1, <3>2, IndecisiveJoins DEF StoreOther
  <2>5. CASE failures' # 0
    BY <2>5 DEF WillAgree
  <2> QED
    BY <2>4, <2>5
<1>7. CASE Hour
  <2>1. Persists
    BY <1>7, <1>a DEF Hour
  <2> QED
    BY <1>7, <2>1, IndecisiveJoins DEF Hour
<1>8. CASE Quit
  BY <1>8 DEF Quit, WillAgree, Agrees
<1> QED
  BY <1>0, <1>1, <1>2, <1>3, <1>4, <1>5, <1>6, <1>7, <1>8 DEF LicenseNext

(* Every step keeps the types. *)
LEMMA LicenseTypeStep ==
  ASSUME LicenseTypeOK, [LicenseNext]_licenseVars
  PROVE  LicenseTypeOK'
<1> DEFINE Disk == /\ secrets \in Secrets \cup {TornFile} /\ failures \in Nat
                   /\ failures = 0 => secrets # TornFile
           Page == /\ status \in {"closed", "checking", "active", "inactive", "revoked"}
                   /\ shownKey \in LicenseKeys \cup {"trial", Nothing}
                   /\ beat \in [Beats -> {"off", "armed", "asked"}]
                   /\ liveBeat \in Beats \cup {Nothing}
<1>1. now \in Nat /\ Disk /\ Page /\ answers \in Seq(AnswerType)
  BY DEF LicenseTypeOK
<1>2. CASE UNCHANGED licenseVars
  BY <1>1, <1>2 DEF licenseVars, LicenseTypeOK
<1>a. ASSUME NEW reply \in Reply, CheckLicense(reply)  PROVE Disk'
  <2>1. failures' = 0 => failures = 0 /\ failures' = failures
    BY <1>1, <1>a, CheckFacts
  <2> QED
    BY <1>1, <1>a, <2>1, CheckFacts
<1>b. ASSUME NEW c \in Callers, NEW reply,
             reply \in [valid : BOOLEAN, key : LicenseKeys \cup {"trial", Nothing}],
             Replies(c, reply)
      PROVE  answers' \in Seq(AnswerType)
  <2>1. [of |-> c, valid |-> reply.valid, key |-> reply.key] \in AnswerType
    BY <1>b DEF AnswerType
  <2> QED
    BY <1>1, <1>b, <2>1 DEF Replies
<1>c. ASSUME NEW field, NEW value, Fits(field, value),
             NEW save \in Stored(secrets, field, value), Becomes(save)
      PROVE  Disk'
  <2>1. /\ save \in Saves
        /\ save.failed = 0 => save.file = Put(Content(secrets), field, value)
    BY <1>1, <1>c, StoredType
  <2>2. Put(Content(secrets), field, value) \in Secrets
    BY <1>1, <1>c, ContentType DEF Fits
  <2> QED
    BY <1>1, <1>c, <2>1, <2>2, TornAssumption DEF Becomes, Saves
<1>d. ASSUME NEW s \in {"active", "inactive", "revoked"},
             NEW k \in LicenseKeys \cup {"trial", Nothing},
             NEW beats \in [Beats -> {"off", "armed", "asked"}], ShowStatus(s, k, beats)
      PROVE  Page'
  <2> DEFINE cleared == [b \in Beats |->
                           IF b = liveBeat /\ beats[b] = "armed" THEN "off" ELSE beats[b]]
  <2>1. cleared \in [Beats -> {"off", "armed", "asked"}]
    OBVIOUS
  <2>2. /\ status' = s /\ shownKey' = k
        /\ \/ beat' = beats /\ liveBeat' = liveBeat
           \/ beat' = cleared /\ liveBeat' = Nothing
           \/ \E b \in Beats : beat' = [cleared EXCEPT ![b] = "armed"] /\ liveBeat' = b
    BY <1>d DEF ShowStatus
  <2> HIDE DEF cleared
  <2> QED
    BY <1>1, <2>1, <2>2
<1>3. CASE Launch
  BY <1>1, <1>3, <1>a, <1>b DEF Launch, Reply, Callers, LicenseTypeOK
<1>4. ASSUME NEW k \in LicenseKeys, Activate(k)  PROVE LicenseTypeOK'
  <2>1. Fits("license", k)
    BY DEF Secrets, Fits, Put
  <2>2. Disk'
    BY <1>1, <1>4, <1>c, <2>1 DEF Activate
  <2>3. answers' \in Seq(AnswerType)
    BY <1>4, <1>b DEF Activate, Callers, ValidKey
  <2> QED
    BY <1>1, <1>4, <2>2, <2>3 DEF Activate, LicenseTypeOK
<1>5. CASE Deactivate
  <2>1. PICK save \in Deleted(secrets, "license") : Becomes(save)
    BY <1>5 DEF Deactivate
  <2>2. /\ save.file \in Secrets \cup {TornFile} /\ save.failed \in 0..2
        /\ save.failed = 0 /\ secrets # TornFile => save.file # TornFile
        /\ secrets' = save.file /\ failures' = failures + save.failed
    BY <1>1, <2>1, DeletedLicense DEF Becomes, Saves
  <2>2a. Disk'
    BY <1>1, <2>2
  <2>3. answers' \in Seq(AnswerType)
    BY <1>5, <1>b DEF Deactivate, Callers
  <2> QED
    BY <1>1, <1>5, <2>2a, <2>3 DEF Deactivate, LicenseTypeOK
<1>6. ASSUME NEW b \in Beats, Heartbeat(b)  PROVE LicenseTypeOK'
  <2>1. PICK reply \in Reply : CheckLicense(reply) /\ Replies(b, reply)
    BY <1>6 DEF Heartbeat
  <2>2. Disk' /\ answers' \in Seq(AnswerType)
    BY <1>a, <1>b, <2>1 DEF Reply, Callers
  <2> QED
    BY <1>1, <1>6, <2>2 DEF Heartbeat, LicenseTypeOK
<1>7. CASE Answered
  <2> DEFINE a == Head(answers)
  <2>1. /\ a \in AnswerType /\ answers' \in Seq(AnswerType)
        /\ UNCHANGED <<now, secrets, failures>>
    BY <1>1, <1>7 DEF Answered
  <2>2. a.of \in Callers /\ a.key \in LicenseKeys \cup {"trial", Nothing}
    BY <2>1 DEF AnswerType
  <2>3. ASSUME NEW b \in Beats  PROVE Rearm(b) \in [Beats -> {"off", "armed", "asked"}]
    BY <1>1 DEF Rearm
  <2>4. Page'
    BY <1>1, <1>7, <1>d, <2>2, <2>3 DEF Answered, ActivateAnswered, HeartbeatAnswered
  <2> QED
    BY <1>1, <2>1, <2>4 DEF LicenseTypeOK
<1>8. CASE StoreOther
  <2>1. Fits("other", TRUE)
    BY SetSecret DEF Fits, Put
  <2>2. Disk'
    BY <1>8, <1>c, <2>1 DEF StoreOther
  <2> QED
    BY <1>1, <1>8, <2>2 DEF StoreOther, LicenseTypeOK
<1>9. CASE Hour
  BY <1>1, <1>9 DEF Hour, LicenseTypeOK
<1>10. CASE Quit
  BY <1>1, <1>10 DEF Quit, LicenseTypeOK
<1> QED
  BY <1>2, <1>3, <1>4, <1>5, <1>6, <1>7, <1>8, <1>9, <1>10 DEF LicenseNext

(* LicenseInv holds in every reachable state. *)
THEOREM LicenseInvariance == LicenseSpec => []LicenseInv
<1>1. LicenseInit => LicenseInv
  <2> SUFFICES ASSUME LicenseInit  PROVE LicenseInv
    OBVIOUS
  <2>1. NoSecrets \in Secrets /\ NoSecrets # TornFile
    BY NoSecretsType, TornAssumption
  <2>2. LicenseTypeOK
    BY <2>1 DEF LicenseInit, LicenseTypeOK
  <2>3. WillAgree
    BY DEF LicenseInit, WillAgree, Agrees
  <2> QED
    BY <2>2, <2>3 DEF LicenseInv
<1>2. LicenseInv /\ [LicenseNext]_licenseVars => LicenseInv'
  BY AgreeStep, LicenseTypeStep DEF LicenseInv
<1> QED
  BY <1>1, <1>2, PTL DEF LicenseSpec

(* When all answers are in and no read or write has failed, the page shows what the
   stored licence entitles to: however calls of the user, heartbeats of this
   and of earlier activations and their answers cross. *)
THEOREM PageAgrees == LicenseSpec => []PageAgreesWithStore
<1>1. LicenseInv => PageAgreesWithStore
  BY DEF LicenseInv, WillAgree, Agrees, PageAgreesWithStore
<1> QED
  BY <1>1, LicenseInvariance, PTL

(* As long as no read and no write of the file fails, only the user's own
   commands lose what the file holds: the end of the trial, the other pages'
   secrets, a licence that is valid. *)
THEOREM SecretsStay == LicenseSpec => SecretsLostOnlyByFailure
<1> DEFINE Lost ==
      secrets # TornFile /\ failures' = failures =>
        /\ secrets.trial # Nothing => secrets'.trial = secrets.trial
        /\ secrets.other => secrets'.other
        /\ ValidKey(secrets.license) /\ secrets'.license # secrets.license
             => Len(answers') > Len(answers)
                /\ answers'[Len(answers')].of \in {"activate", "deactivate"}
<1>1. LicenseTypeOK /\ [LicenseNext]_licenseVars => [Lost]_licenseVars
  <2> SUFFICES ASSUME LicenseTypeOK, LicenseNext, secrets # TornFile,
                      failures' = failures
               PROVE  Lost
    BY DEF licenseVars
  <2>0. secrets \in Secrets /\ Content(secrets) = secrets /\ failures \in Nat
        /\ answers \in Seq(AnswerType)
    BY ContentType DEF LicenseTypeOK
  <2>a. ASSUME secrets' = secrets  PROVE Lost
    BY <2>a
  <2>b. ASSUME NEW reply \in Reply, CheckLicense(reply)  PROVE Lost
    <3>1. ValidKey(secrets.license) => secrets' = secrets
      BY <2>0, <2>b, CheckFacts
    <3> QED
      BY <2>0, <2>b, <3>1, CheckFacts
  <2>c. ASSUME NEW field, NEW value, Fits(field, value),
               NEW save \in Stored(secrets, field, value), Becomes(save)
        PROVE  secrets' = Put(secrets, field, value)
    <3>1. /\ save \in Saves
          /\ save.failed = 0 => save.file = Put(Content(secrets), field, value)
      BY <2>0, <2>c, StoredType
    <3>2. failures + save.failed = failures /\ secrets' = save.file
      BY <2>c DEF Becomes
    <3> QED
      BY <2>0, <3>1, <3>2 DEF Saves
  <2>d. ASSUME NEW c, NEW reply, Replies(c, reply)
        PROVE  Len(answers') > Len(answers) /\ answers'[Len(answers')].of = c
    BY <2>0, <2>d DEF Replies
  <2>1. CASE Launch
    BY <2>1, <2>b DEF Launch
  <2>2. ASSUME NEW k \in LicenseKeys, Activate(k)  PROVE Lost
    <3>1. Len(answers') > Len(answers) /\ answers'[Len(answers')].of = "activate"
      BY <2>2, <2>d DEF Activate
    <3>2. Fits("license", k)
      BY DEF Secrets, Fits, Put
    <3>3. secrets' = secrets \/ secrets' = [secrets EXCEPT !.license = k]
      BY <2>2, <2>c, <3>2 DEF Activate, Put
    <3> QED
      BY <2>0, <3>1, <3>3 DEF Secrets
  <2>3. CASE Deactivate
    <3>1. Len(answers') > Len(answers) /\ answers'[Len(answers')].of = "deactivate"
      BY <2>3, <2>d DEF Deactivate
    <3>2. PICK save \in Deleted(secrets, "license") : Becomes(save)
      BY <2>3 DEF Deactivate
    <3>3. save.failed = 0 /\ secrets' = save.file
      <4>1. save.failed \in 0..2
        <5>1. secrets \in Secrets \cup {TornFile}
          BY <2>0
        <5>2. save \in Saves
          BY <3>2, <5>1, DeletedLicense
        <5> QED
          BY <5>2 DEF Saves
      <4>2. failures + save.failed = failures
        BY <3>2 DEF Becomes
      <4> QED
        BY <2>0, <3>2, <4>1, <4>2 DEF Becomes
    <3>4. secrets' = [secrets EXCEPT !.license = Nothing]
      BY <2>0, <3>3, <3>2, DeletedLicense, ContentType DEF Saves
    <3> QED
      BY <2>0, <3>1, <3>4 DEF Secrets
  <2>4. ASSUME NEW b \in Beats, Heartbeat(b)  PROVE Lost
    BY <2>4, <2>b DEF Heartbeat
  <2>5. CASE StoreOther
    <3>1. Fits("other", TRUE)
      BY SetSecret DEF Fits, Put
    <3>2. secrets' = [secrets EXCEPT !.other = TRUE]
      BY <2>5, <2>c, <3>1 DEF StoreOther, Put
    <3> QED
      BY <2>0, <3>2 DEF Secrets
  <2>6. CASE Answered \/ Hour \/ Quit
    BY <2>6, <2>a DEF Answered, Hour, Quit
  <2> HIDE DEF Lost
  <2> QED
    BY <2>1, <2>2, <2>3, <2>4, <2>5, <2>6 DEF LicenseNext
<1>2. LicenseInv => LicenseTypeOK
  BY DEF LicenseInv
<1> QED
  BY <1>1, <1>2, LicenseInvariance, PTL DEF LicenseSpec, SecretsLostOnlyByFailure

=============================================================================
