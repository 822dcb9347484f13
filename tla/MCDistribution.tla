-------------------------- MODULE MCDistribution --------------------------
(***************************************************************************)
(* Instances of Distribution: one publisher that starts with a version of  *)
(* two modules and one that has to install it first.                       *)
(***************************************************************************)
EXTENDS Distribution

MCClients == {"ana", "ben"}
MCKinds == {"canonical", "semantic"}
MCSubsets == {{"canonical"}}
OneEdited == {"canonical"}
===========================================================================
