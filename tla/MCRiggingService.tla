-------------------------- MODULE MCRiggingService --------------------------
(* Small instances of RiggingService.                                      *)
EXTENDS RiggingService, TLC

MCSymmetry == Permutations(Keys) \cup Permutations(CaseIds)
=============================================================================
