-------------------------- MODULE MCDesktopClient --------------------------
(***************************************************************************)
(* One instance of each of these pages of the renderer: the scratchpad,   *)
(* the workflow chains, the cron schedule, the password vault, the lists   *)
(* of the API studio and the licence.  They share no state in the code     *)
(* either, but for the secrets file, where the licence's model has the     *)
(* studio's entry as "other"; scene says which of them moves.              *)
(***************************************************************************)
EXTENDS Scratchpad, WorkflowChains, CronEngine, PasswordVault, ApiWorkspace,
        DesktopLicense, TLC

CONSTANTS k1, k2

VARIABLE scene

sceneVars == <<noteVars, chainVars, cronVars, passwordVars, studioVars, licenseVars, scene>>

(* Adding an image makes a note that was empty one that is not. *)
InsertImageDef == [c \in Contents |-> CHOOSE t \in Contents : t # EmptyText]

(* One key ends within the run, the other never. *)
ExpiryDef == (k1 :> 1) @@ (k2 :> 0)

Enabled(id, type) == [id |-> id, type |-> type, enabled |-> TRUE]
PrebuiltTemplatesDef == <<
  [id |-> "oauth", steps |-> <<Enabled("auth", "HTTP_REQUEST"), Enabled("check", "ASSERT")>>],
  [id |-> "sign", steps |-> <<Enabled("payload", "TRANSFORM"), Enabled("hmac", "CRYPTO_SIGN")>>]>>

(* Lists, ranges, steps that do not divide their range, days that many months
   lack, the two forms of Sunday, and one expression that is not accepted. *)
ExpressionsDef ==
  [minute : {{Every(7)}, {RangeStep(10, 30, 5), Just(59)}},
   hour : {{Between(9, 17)}, {StepFrom(6, 8), Just(0)}},
   dayOfMonth : {{AnyValue}, {Just(31)}, {Just(1), Every(14)}},
   month : {{AnyValue}, {StepFrom(4, 3), Just(1)}},
   dayOfWeek : {{AnyValue}, {Between(1, 5)}, {Just(7)}}]
  \cup
  [minute : {{Just(30)}}, hour : {{Just(2)}}, dayOfMonth : {{Just(29)}}, month : {{Just(2)}},
   dayOfWeek : {{AnyValue}, {Just(4)}, {Just(1), AnyValue}}]

(* The first minute, the end of a February and of a year, and the middle of a
   month before the February of a leap year. *)
StartTimesDef == {At(0), At(58 * 1440 + 1438), At(364 * 1440 + 1439), At(390 * 1440 + 777)}

SceneInit ==
  /\ scene \in {"notes", "chains", "cron", "passwords", "studio", "license"}
  /\ NotesInit /\ ChainsInit /\ CronInit /\ PasswordInit /\ StudioInit /\ LicenseInit
  /\ scene # "chains" => storedChains = PrebuiltTemplates
  /\ scene # "cron" =>
       /\ cronExpr = CHOOSE e \in Expressions : TRUE
       /\ startDate = CHOOSE t \in StartTimes : TRUE

SceneNext ==
  /\ UNCHANGED scene
  /\ \/ /\ scene = "notes" /\ NotesNext
        /\ UNCHANGED <<chainVars, cronVars, passwordVars, studioVars, licenseVars>>
     \/ /\ scene = "chains" /\ ChainsNext
        /\ UNCHANGED <<noteVars, cronVars, passwordVars, studioVars, licenseVars>>
     \/ /\ scene = "cron" /\ CronNext
        /\ UNCHANGED <<noteVars, chainVars, passwordVars, studioVars, licenseVars>>
     \/ /\ scene = "passwords" /\ PasswordNext
        /\ UNCHANGED <<noteVars, chainVars, cronVars, studioVars, licenseVars>>
     \/ /\ scene = "studio" /\ StudioNext
        /\ UNCHANGED <<noteVars, chainVars, cronVars, passwordVars, licenseVars>>
     \/ /\ scene = "license" /\ LicenseNext
        /\ UNCHANGED <<noteVars, chainVars, cronVars, passwordVars, studioVars>>

(* In the other scenes no answer and no heartbeat of the licence is due, so
   the fairness asks nothing of them. *)
SceneSpec == SceneInit /\ [][SceneNext]_sceneVars /\ LicenseFairness
=============================================================================
