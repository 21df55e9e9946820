--------------------------- MODULE MCProvisioning ---------------------------
(***************************************************************************)
(* Provisioning on two forms, one of each kind.  Provisioning.cfg has them *)
(* compete for one address, by which liveness is within reach; the proofs  *)
(* are for any number, and ProvisioningTwo.cfg adds an unrelated address.  *)
(***************************************************************************)
EXTENDS Provisioning, TLC

Symmetry == Permutations(Emails)
=============================================================================
