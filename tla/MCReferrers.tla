---------------------------- MODULE MCReferrers ----------------------------
(***************************************************************************)
(* An instance of Referrers: two signers of which one has two keys, a    *)
(* record over another snapshot that somebody attached, and an attestation *)
(* of another tool.                                                        *)
(***************************************************************************)
EXTENDS Referrers, TLC

CONSTANTS m1, m2, r1, r2, r3, stray, other

MCMachines == {m1, m2}
MCRecords == {r1, r2, r3, stray}
MCSigner == (r1 :> m1) @@ (r2 :> m2) @@ (r3 :> m2) @@ (stray :> other)
MCStrays == {stray}
MCForeign == {other}
=============================================================================
