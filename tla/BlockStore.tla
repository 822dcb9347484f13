----------------------------- MODULE BlockStore -----------------------------
(***************************************************************************)
(* What a store promises (store/base.py), as the in-memory one keeps it    *)
(* (store/memory.py): every call takes effect at once.  "the two must be   *)
(* indistinguishable through the BlockStore interface" (memory.py:16-17):  *)
(* OciLayout is shown to implement this.                                   *)
(***************************************************************************)
EXTENDS Naturals

CONSTANTS Handles, Digests

VARIABLES
    blobs,       \* digests whose bytes are held
    tombstones,  \* digests whose bytes were destroyed
    reply        \* handle -> the last answer it was given: call, digest, answer

absVars == <<blobs, tombstones, reply>>

Init == blobs = {} /\ tombstones = {} /\ reply = [h \in Handles |-> <<>>]

\* put_bytes: a tombstone does not stop it, and is not taken back by it.
PutBytes(d) == blobs' = blobs \cup {d} /\ UNCHANGED <<tombstones, reply>>

Tombstone(d) ==
    /\ blobs' = blobs \ {d} /\ tombstones' = tombstones \cup {d}
    /\ UNCHANGED reply

Delete(d) ==
    /\ blobs' = blobs \ {d} /\ tombstones' = tombstones \ {d}
    /\ UNCHANGED reply

Has(d) == IF d \in blobs \/ d \in tombstones THEN "yes" ELSE "no"

IsResolvable(d) == IF d \in blobs /\ d \notin tombstones THEN "yes" ELSE "no"

GetBytes(d) ==
    CASE d \in tombstones -> "tombstoned"
      [] d \in blobs \ tombstones -> "bytes"
      [] OTHER -> "missing"

Answer(h, call, d, answer) ==
    /\ reply' = [reply EXCEPT ![h] = <<call, d, answer>>]
    /\ UNCHANGED <<blobs, tombstones>>

Next ==
    \E h \in Handles, d \in Digests :
        \/ PutBytes(d)
        \/ Tombstone(d)
        \/ Delete(d)
        \/ Answer(h, "has", d, Has(d))
        \/ Answer(h, "is_resolvable", d, IsResolvable(d))
        \/ Answer(h, "get_bytes", d, GetBytes(d))

Spec == Init /\ [][Next]_absVars
=============================================================================
