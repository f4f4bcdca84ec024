--------------------------- MODULE MCCatalogDrafts ---------------------------
(***************************************************************************)
(* Instances of CatalogDrafts for TLC: at most one draft is there already, *)
(* the others are generated by the calls.                                  *)
(***************************************************************************)
EXTENDS CatalogDrafts, TLC

MCDraftsInit == DraftsInit /\ \A d, e \in Stored : d = e

MCDraftsSpec == MCDraftsInit /\ [][DraftsNext]_draftVars /\ DraftsFairness

DraftsSymmetry == Permutations(Calls) \cup Permutations(Skus)
=============================================================================
