------------------------------ MODULE MCAccess ------------------------------
(***************************************************************************)
(* One instance of each module about who may open what: the administrator's*)
(* password, the rate limiter and the encrypted workspace vault.  They     *)
(* share no state in the code either; scene says which of them moves.      *)
(***************************************************************************)
EXTENDS AdminAccess, RateLimiter, SyncClient, TLC

VARIABLE scene

NormalizeIpDef ==
  ("a" :> "a") @@ ("::ffff:a" :> "a") @@ ("office" :> "office") @@ ("b" :> "b")
IpsDef == DOMAIN NormalizeIpDef

(* One vault file: the user sets either its passphrase or another one. *)
FilesDef ==
  {[revision |-> 1, passphrase |-> CHOOSE p \in Passphrases : TRUE, data |-> d] : d \in Data}

Symmetry == Permutations(Requests)

SceneInit ==
  /\ scene \in {"admin", "limiter", "vault"}
  /\ AdminInit /\ LimiterInit /\ SyncInit

SceneNext ==
  /\ UNCHANGED scene
  /\ \/ scene = "admin" /\ AdminNext /\ UNCHANGED <<limiterVars, syncVars>>
     \/ scene = "limiter" /\ LimiterNext /\ UNCHANGED <<adminVars, syncVars>>
     \/ scene = "vault" /\ SyncNext /\ UNCHANGED <<adminVars, limiterVars>>
=============================================================================
