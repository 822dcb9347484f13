--------------------------- MODULE MCAuthenticity ---------------------------
(***************************************************************************)
(* The keys and the first root that TLC checks Authenticity on.            *)
(***************************************************************************)
EXTENDS Authenticity, TLC

MCEntry(s) == [scopes |-> s, since |-> 1, retired |-> 0, compromised |-> 0]
\* One maintainer who may do everything, and a key that is not listed.
MCTwo == {"ann", "bob"}
MCAnn == [rev |-> 1, quorum |-> 1, keys |-> "ann" :> MCEntry(Scopes \ {"propose"})]
\* An admitted key may govern and derive, and not ingest.
MCNew == {"govern", "commit"}
MCForm == {"sha512"}
MCOurs == {"retire", "compromise"}
MCAdmit == {"admit"}
\* What commits do: ingest a source.
MCEdit == {"ingest"}
\* The brain starts with one source ingested on its genesis.
MCPrior == <<[canon |-> {2}, prov |-> {<<2, "note">>}, tomb |-> {}]>>
MCPriorSigned == {Rec(2, "ann", "sha512")}
\* One version with its parent's document.
MCDepth == {1}
MCFeatures == {"elsewhere", "prune"}
=============================================================================
