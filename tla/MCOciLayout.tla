---------------------------- MODULE MCOciLayout ----------------------------
(***************************************************************************)
(* The directories that TLC checks OciLayout on: two digests, and a        *)
(* handle on its own, one beside a reader, or two that write.              *)
(***************************************************************************)
EXTENDS OciLayout, TLC

CONSTANTS w, v, r, a, b

MCOne == {w}
MCReader == {w, r}
MCTwo == {w, v}
MCDigests == {a, b}

\* The digests can be exchanged.
MCSymmetry == Permutations({a, b})

MCPlain == {}
MCCrash == {"crash"}
=============================================================================
