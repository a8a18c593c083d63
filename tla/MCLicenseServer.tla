-------------------------- MODULE MCLicenseServer --------------------------
(* LicenseServer on a small instance: one licence for one device, requested
   by its key or by a text that only normalises to it. *)
EXTENDS LicenseServer, TLC

CONSTANTS key, lower

MCSpellings == {key, lower}
MCCanonical == [s \in MCSpellings |-> key]
MCMaxActivations == [k \in {key} |-> 1]

Symmetry == Permutations(Handlers) \cup Permutations(Devices)

=============================================================================
