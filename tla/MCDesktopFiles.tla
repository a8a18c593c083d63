--------------------------- MODULE MCDesktopFiles ---------------------------
(***************************************************************************)
(* One instance of Organizer and one of FileVault, the commands that work  *)
(* on the user's files.  They share no state in the code either; scene     *)
(* says which of them moves.                                               *)
(***************************************************************************)
EXTENDS Organizer, FileVault, TLC

VARIABLE scene

(* Two threads and two values (contents for one, passphrases for the other)
   serve both: one small symmetry group instead of the product of two. *)
Symmetry == Permutations(Commands) \cup Permutations(Files)

VaultAtRest == files = [n \in Name |-> NoContent]
OrganizerAtRest == \A p \in Path : ~Exists(p)

SceneInit ==
  /\ OrganizerInit /\ VaultInit
  /\ \/ scene = "organizer" /\ VaultAtRest
     \/ scene = "vault" /\ OrganizerAtRest

SceneNext ==
  /\ UNCHANGED scene
  /\ \/ scene = "organizer" /\ OrganizerNext /\ UNCHANGED vaultVars
     \/ scene = "vault" /\ VaultNext /\ UNCHANGED organizerVars
=============================================================================
