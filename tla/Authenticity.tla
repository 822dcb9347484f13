---------------------------- MODULE Authenticity ----------------------------
(***************************************************************************)
(* Who may speak for a brain (authenticity/, and brain.py sign, rotate,    *)
(* countersign, revoke, pin, and the gates of pull).  A snapshot carries   *)
(* the list of keys its successor is judged by; signatures lie beside the  *)
(* snapshots and accumulate; a consumer may anchor what it trusts in a pin.*)
(*                                                                         *)
(* docs is every snapshot anybody made, in the order made, so a parent has *)
(* a smaller number than its child; held is what this brain's store holds. *)
(* Verification reads the store alone, and the properties compare what it  *)
(* concludes with the whole of docs.  Keys are their blobs, and a signature*)
(* either verifies (under one of two hash algorithms) or does not: the     *)
(* formats are outside the model.  Reconcile has the removal invariant.    *)
(***************************************************************************)
EXTENDS Naturals, Sequences, SequencesExt, FiniteSets

CONSTANTS
    Keys,           \* signing keys
    FirstRoot,      \* the trust root of the genesis
    NewScopes,      \* what an admitted key is granted
    Forms,          \* the forms of a record that occur
    Prior,          \* what this brain committed on its genesis before anything else
    PriorSigned,    \* and which of its snapshots it signed, with which keys
    OurKinds,       \* what revisions do: "admit", "retire", "compromise", "remove", "backdate"
    TheirKinds,     \* and what those made elsewhere do
    Edits,          \* what commits do: "ingest", "derive", "drop", "redact"
    Needed,         \* VerificationPolicy.required_signatures
    AllowPropose,   \* VerificationPolicy.allow_propose_head
    Unsigned,       \* VerificationPolicy.unsigned: "warn", "refuse" or "permit"
    RecordCap,      \* MAX_RECORDS_PER_SNAPSHOT
    Depths,         \* how many versions a prune retains or a publisher's history has
    MaxDocs,        \* bound: snapshots made by anybody
    MaxSigned,      \* bound: signatures made by anybody
    Features        \* the parts of the environment a run includes

Scopes == {"ingest", "commit", "drop:canonical", "redact", "govern", "propose"}
Proposable == {"ingest", "commit"}
Entry == [scopes : SUBSET Scopes, since : Nat, retired : Nat, compromised : Nat]
NoRoot == [rev |-> 0]
Modules == [canon : SUBSET Nat, prov : SUBSET (Nat \X {"note", "drop", "redact"}), tomb : SUBSET Nat]

\* The root model's validator: somebody may govern, and no entry claims the future.
WellFormed(r) ==
    /\ \E k \in DOMAIN r.keys : "govern" \in r.keys[k].scopes
    /\ \A k \in DOMAIN r.keys : r.keys[k].since <= r.rev /\ r.keys[k].retired <= r.rev
IsRoot(r) ==
    /\ DOMAIN r = {"rev", "quorum", "keys"} /\ r.rev \in Nat \ {0} /\ r.quorum \in Nat \ {0}
    /\ DOMAIN r.keys \subseteq Keys /\ r.keys \in [DOMAIN r.keys -> Entry]
    /\ WellFormed(r)

\* No snapshot is there yet that the root of the genesis could mark.
ASSUME RootAssumption ==
    /\ IsFiniteSet(Keys) /\ IsRoot(FirstRoot)
    /\ \A k \in DOMAIN FirstRoot.keys : FirstRoot.keys[k].compromised = 0
ASSUME PolicyAssumption ==
    /\ Needed \in Nat \ {0} /\ AllowPropose \in BOOLEAN
    /\ Unsigned \in {"warn", "refuse", "permit"}
    /\ NewScopes \subseteq Scopes /\ Forms \subseteq {"sha256", "sha512", "broken"}
    /\ RecordCap \in Nat \ {0} /\ MaxDocs \in Nat \ {0} /\ MaxSigned \in Nat
    /\ Depths \subseteq Nat
ASSUME PriorAssumption ==
    /\ Prior \in Seq(Modules)
    /\ PriorSigned \subseteq [doc : 1 .. Len(Prior) + 1, key : Keys, form : {"sha256", "sha512", "broken"}]

VARIABLES
    docs,       \* <<snapshot document, ...>>
    signed,     \* the signature records that exist anywhere
    held,       \* snapshots whose document this store holds
    whole,      \* of these, the ones whose compositions and provenance it holds too
    index,      \* the records its signature index names and resolves
    pin,        \* the trust pin, or NoPin
    head,       \* this brain's head
    plan,       \* a revision planned and not yet rotated to, or 0
    pulling     \* what a running pull's pin gate let through, or 0
vars == <<docs, signed, held, whole, index, pin, head, plan, pulling>>

NoPin == [root |-> NoRoot, genesis |-> 0]
Store == [held |-> held, whole |-> whole, index |-> index, pin |-> pin]
Everything == [held |-> DOMAIN docs, whole |-> DOMAIN docs, index |-> signed, pin |-> pin]
Empty == [canon |-> {}, prov |-> {}, tomb |-> {}]
Rec(d, k, f) == [doc |-> d, key |-> k, form |-> f]

-----------------------------------------------------------------------------
(* Positions: chain.py. *)
FirstParent(d) == IF docs[d].parents = <<>> THEN 0 ELSE docs[d].parents[1]
Truncated(st, d) == FirstParent(d) # 0 /\ FirstParent(d) \notin st.held
InForce(st, d) ==
    IF FirstParent(d) = 0 THEN docs[d].root
    ELSE IF Truncated(st, d) THEN NoRoot ELSE docs[FirstParent(d)].root
IsRevision(st, d) ==
    FirstParent(d) # 0 /\ ~Truncated(st, d) /\ docs[d].root # docs[FirstParent(d)].root

\* The first parents that resolve, d itself included.
Walk(st, d) ==
    LET W[x \in 1 .. d] ==
            IF FirstParent(x) \in st.held /\ FirstParent(x) # 0
            THEN {x} \cup W[FirstParent(x)] ELSE {x}
    IN  W[d]
Oldest(st, d) == LET walk == Walk(st, d) IN CHOOSE x \in walk : \A y \in walk : x <= y
GenesisOf(st, d) == LET x == Oldest(st, d) IN IF FirstParent(x) = 0 THEN x ELSE 0
ObservedRoots(st, d) == {docs[x].root : x \in Walk(st, d)} \ {NoRoot}

\* Everything named as a parent on any path, as far as the documents resolve.
Reach(st, d) ==
    LET R[x \in 1 .. d] ==
            {x} \cup UNION {IF p \in st.held THEN R[p] ELSE {p} : p \in ToSet(docs[x].parents)}
    IN  R[d]
\* Mutant of DescendsFrom: a position that does not resolve is taken to be elsewhere.
DescendsFromMutant(st, d, target) == IF target \in Reach(st, d) \cap (st.held \cup {d}) THEN "yes" ELSE "no"
DescendsFrom(st, d, target) ==
    LET reach == Reach(st, d) IN
    IF target \in reach THEN "yes"
    ELSE IF reach \ {d} \subseteq st.held THEN "no" ELSE "undecided"

-----------------------------------------------------------------------------
(* What a snapshot's difference asked of its signer: diff.py. *)
ReadableDiff(st, d) == FirstParent(d) = 0 \/ {FirstParent(d), d} \subseteq st.whole
ModulesBefore(d) == IF FirstParent(d) = 0 THEN Empty ELSE docs[FirstParent(d)].modules

\* Mutant of OpenScopes: what cannot be read is not asked for.
OpenScopesMutant(st, d) == {}
\* The scopes that unreadable compositions and records leave open.
OpenScopes(st, d) ==
    {s \in {"ingest", "drop:canonical", "redact"} :
        /\ ~ReadableDiff(st, d)
        /\ IF s = "redact" THEN docs[d].modules.prov # ModulesBefore(d).prov
                           ELSE docs[d].modules.canon # ModulesBefore(d).canon}

RequiredScopes(st, d) ==
    LET old == ModulesBefore(d)
        new == docs[d].modules
        certain ==
            {s \in Scopes :
                \/ s = "govern" /\ docs[d].root # (IF FirstParent(d) = 0 THEN NoRoot
                                                   ELSE docs[FirstParent(d)].root)
                \/ s = "redact" /\ ~(new.tomb \subseteq old.tomb)
                \/ s = "commit" /\ new.prov # old.prov
                \/ /\ ReadableDiff(st, d)
                   /\ \/ s = "ingest" /\ ~(new.canon \subseteq old.canon)
                      \/ s = "drop:canonical" /\ ~(old.canon \subseteq new.canon)
                      \/ s = "redact" /\ \E x \in new.prov \ old.prov : x[2] = "redact"}
    IN  IF Truncated(st, d)
        THEN [scopes |-> {}, possible |-> Scopes \ {"propose"}]
        ELSE [scopes |-> certain, possible |-> certain \cup OpenScopes(st, d)]

-----------------------------------------------------------------------------
(* The verdict on one key's signatures, and the quorum: authenticator.py. *)
Listed(r, k) == r # NoRoot /\ k \in DOMAIN r.keys
IsRetired(r, k) == r.keys[k].retired # 0 /\ r.rev >= r.keys[k].retired
Governors(r) == {k \in DOMAIN r.keys : "govern" \in r.keys[k].scopes /\ ~IsRetired(r, k)}
SinceRefuted(observed, k, since) == \E r \in observed : r.rev >= since /\ k \notin DOMAIN r.keys

\* A compromise is read from the newest root known, and failing that from the position's own.
CompromisePosition(r, k, newest) ==
    IF Listed(newest, k) /\ newest.keys[k].compromised # 0
    THEN newest.keys[k].compromised ELSE r.keys[k].compromised

Judge(st, d, k, newest) ==
    LET r == InForce(st, d)
        mark == CompromisePosition(r, k, newest)
        need == RequiredScopes(st, d)
        granted == r.keys[k].scopes
    IN  CASE ~Listed(r, k) -> "unauthorized"
          [] Listed(r, k) /\ IsRetired(r, k) -> "retired"
          [] Listed(r, k) /\ ~IsRetired(r, k) ->
                CASE mark # 0 /\ DescendsFrom(st, d, mark) = "yes" -> "compromised"
                  [] mark # 0 /\ DescendsFrom(st, d, mark) = "undecided" -> "undecidable"
                  [] mark = 0 \/ DescendsFrom(st, d, mark) = "no" ->
                        IF need.possible \subseteq granted THEN "valid"
                        ELSE IF need.scopes \subseteq granted THEN "insufficient_evidence"
                        ELSE IF "propose" \in granted /\ need.possible \subseteq Proposable
                        THEN "proposal" ELSE "insufficient_scope"

\* The records over d, and the keys a verifying one embeds.
ForSnapshot(st, d) == {r \in st.index : r.doc = d}
Verifying(recs) == {r.key : r \in {x \in recs : x.form # "broken"}}
KeysJudged(st, d, newest, outcome) ==
    {k \in Verifying(ForSnapshot(st, d)) : Judge(st, d, k, newest) = outcome}

\* Mutant of QuorumCount: retirement is judged at the newest root as well.
QuorumCountMutant(st, d, recs, r) ==
    Cardinality({k \in Verifying(recs) :
        /\ Listed(r, k) /\ k \in Governors(r) /\ r.keys[k].compromised = 0
        /\ ~(Listed(docs[head].root, k) /\ IsRetired(docs[head].root, k))})
\* Distinct keys that governed before the change; retirement is judged at the parent's revision,
\* and a key marked there counts only where the chain shows d to come before the mark.
QuorumCount(st, d, recs, r) ==
    Cardinality({k \in Verifying(recs) :
        /\ Listed(r, k) /\ k \in Governors(r)
        /\ \/ r.keys[k].compromised = 0
           \/ DescendsFrom(st, d, r.keys[k].compromised) = "no"})
Approves(st, d, recs) ==
    LET r == InForce(st, d) IN r # NoRoot /\ QuorumCount(st, d, recs, r) >= r.quorum

-----------------------------------------------------------------------------
(* The report: authenticate, _judge_pin, _judge_ancestry, _judge_governance, _judge_policy. *)
Anchored(st, d) ==
    /\ st.pin # NoPin
    /\ st.pin.genesis = 0 \/ GenesisOf(st, d) \in {0, st.pin.genesis}
    /\ \/ InForce(st, d) = st.pin.root
       \/ ~Truncated(st, d) /\ \E x \in Walk(st, d) : docs[x].root = st.pin.root
PinFindings(st, d) ==
    IF st.pin = NoPin \/ Anchored(st, d) THEN {}
    ELSE IF st.pin.genesis # 0 /\ GenesisOf(st, d) \notin {0, st.pin.genesis}
    THEN {"pin_brain_mismatch"} ELSE {"trust_root_mismatch"}

\* Mutant of AncestryFindings: a walk may end anywhere.
AncestryFindingsMutant(st, d) ==
    IF \E x \in Walk(st, d) \ {d} : IsRevision(st, x) /\ ~Approves(st, x, ForSnapshot(st, x))
    THEN {"quorum_failure"} ELSE {}
\* Every revision behind d had its quorum, and a walk that ends short of a genesis is anchored.
AncestryFindings(st, d) ==
    IF Truncated(st, d) THEN {"chain_truncated"} ELSE
    LET behind == Walk(st, d) \ {d} IN
    {f \in {"quorum_failure", "chain_truncated"} :
        \/ /\ f = "quorum_failure"
           /\ \E x \in behind : IsRevision(st, x) /\ ~Approves(st, x, ForSnapshot(st, x))
        \/ /\ f = "chain_truncated"
           /\ \E x \in behind : Truncated(st, x)
           /\ ~Anchored(st, d)}

GovernanceFindings(st, d) ==
    IF ~IsRevision(st, d) THEN {} ELSE
    {f \in {"revision_changed_content", "revision_regressed", "quorum_failure"} :
        \/ f = "revision_changed_content" /\ docs[d].modules # docs[FirstParent(d)].modules
        \/ f = "revision_regressed" /\ docs[d].root # NoRoot /\ InForce(st, d) # NoRoot
           /\ docs[d].root.rev <= InForce(st, d).rev
        \/ f = "quorum_failure" /\ ~Approves(st, d, ForSnapshot(st, d))}

SinceFindings(st, d) ==
    LET r == InForce(st, d)
        observed == ObservedRoots(st, d)
    IN
    IF r # NoRoot /\ \E k \in DOMAIN r.keys : SinceRefuted(observed, k, r.keys[k].since)
    THEN {"since_refuted"} ELSE {}

PolicyFindings(st, d, newest) ==
    LET valid == KeysJudged(st, d, newest, "valid")
        proposals == KeysJudged(st, d, newest, "proposal")
    IN  IF Cardinality(valid) >= Needed THEN {}
        ELSE IF proposals # {} /\ valid = {} /\ ~AllowPropose THEN {"proposed_head"}
        ELSE IF proposals # {} /\ AllowPropose /\ Cardinality(valid \cup proposals) >= Needed THEN {}
        ELSE {"signatures_below_policy"}

\* The findings that block; with no record at all the governance and the policy are not judged.
Findings(st, d, newest) ==
    PinFindings(st, d) \cup SinceFindings(st, d) \cup AncestryFindings(st, d)
        \cup (IF ForSnapshot(st, d) = {} THEN {"unsigned_brain"}
              ELSE GovernanceFindings(st, d) \cup PolicyFindings(st, d, newest))
State(st, d, newest) ==
    IF ForSnapshot(st, d) = {} THEN "unsigned"
    ELSE IF Findings(st, d, newest) = {} THEN "authorized" ELSE "unauthorized"
Authorized(st, d) == State(st, d, docs[head].root) = "authorized"

-----------------------------------------------------------------------------
(* Making snapshots. *)
Edited(m, n, edit, b) ==
    CASE edit = "ingest" -> [m EXCEPT !.canon = @ \cup {n}, !.prov = @ \cup {<<n, "note">>}]
      [] edit = "derive" -> [m EXCEPT !.prov = @ \cup {<<n, "note">>}]
      [] edit = "drop"   -> [m EXCEPT !.canon = @ \ {b}, !.prov = @ \cup {<<n, "drop">>}]
      [] edit = "redact" -> [m EXCEPT !.tomb = @ \cup {b}, !.prov = @ \cup {<<n, "redact">>}]
EditOf(d) ==
    {<<e, 0>> : e \in Edits \cap {"ingest", "derive"}}
        \cup ((Edits \cap {"drop", "redact"}) \X (docs[d].modules.canon \ docs[d].modules.tomb))

\* The revised key lists that callers build from a root: rotate's argument, and revoke's own.
Newcomer(since) == [scopes |-> NewScopes, since |-> since, retired |-> 0, compromised |-> 0]
With(r, ks) == [r EXCEPT !.rev = @ + 1, !.keys = ks]
Revisions(r, d, kinds) ==
    LET admit(k, since) == [x \in DOMAIN r.keys \cup {k} |->
                               IF x = k THEN Newcomer(since) ELSE r.keys[x]]
        on(kind) == kind \in kinds
        made ==
            {With(r, admit(k, r.rev + 1)) : k \in {x \in Keys \ DOMAIN r.keys : on("admit")}}
            \cup {With(r, admit(k, 1)) : k \in {x \in Keys \ DOMAIN r.keys : on("backdate")}}
            \cup {With(r, [r.keys EXCEPT ![k].retired = r.rev + 1]) :
                    k \in {x \in DOMAIN r.keys : on("retire") /\ r.keys[x].retired = 0}}
            \cup {With(r, [r.keys EXCEPT ![k[1]].compromised = k[2]]) :
                    k \in {x \in (DOMAIN r.keys) \X Walk(Store, d) : on("compromise")}}
            \cup {With(r, [x \in DOMAIN r.keys \ {k} |-> r.keys[x]]) :
                    k \in {x \in DOMAIN r.keys : on("remove")}}
    IN  {x \in made : WellFormed(x)}

Doc(parents, root, modules) == [parents |-> parents, root |-> root, modules |-> modules]
Next1 == Len(docs) + 1
Room(n) == Len(docs) + n <= MaxDocs

Init ==
    /\ docs = <<Doc(<<>>, FirstRoot, Empty)>>
              \o [i \in 1 .. Len(Prior) |-> Doc(<<i>>, FirstRoot, Prior[i])]
    /\ signed = PriorSigned /\ index = PriorSigned /\ held = DOMAIN docs /\ whole = DOMAIN docs
    /\ pin = NoPin /\ head = Len(docs) /\ plan = 0 /\ pulling = 0

\* _advance: the document lands and the head names it.
Advance(d) == held' = held \cup {d} /\ whole' = whole \cup {d} /\ head' = d

Commit(edit) ==
    /\ Room(1)
    /\ docs' = Append(docs, Doc(<<head>>, docs[head].root,
                                Edited(docs[head].modules, Next1, edit[1], edit[2])))
    /\ Advance(Next1)
    /\ UNCHANGED <<signed, index, pin, plan>>

\* A reconciliation names both heads, and joins only histories of one authority.
Merge(d) ==
    /\ Room(1) /\ d \in whole /\ d \notin Reach(Store, head) /\ head \notin Reach(Store, d)
    /\ docs[d].root = docs[head].root
    /\ LET a == docs[head].modules  b == docs[d].modules IN
       docs' = Append(docs, Doc(<<head, d>>, docs[head].root,
                   [canon |-> a.canon \cup b.canon, prov |-> a.prov \cup b.prov,
                    tomb |-> a.tomb \cup b.tomb]))
    /\ Advance(Next1)
    /\ UNCHANGED <<signed, index, pin, plan>>

\* What other installations make and may publish: successors of any snapshot there is, by a
\* commit, a revision, or something that is both, signed by whoever signs it.
Elsewhere(p, edit, root, recs) ==
    /\ "elsewhere" \in Features /\ Room(1)
    /\ Cardinality(signed \cup recs) <= MaxSigned /\ signed' = signed \cup recs
    /\ docs' = Append(docs, Doc(<<p>>, root,
                   IF edit = <<>> THEN docs[p].modules
                   ELSE Edited(docs[p].modules, Next1, edit[1], edit[2])))
    /\ UNCHANGED <<held, whole, index, pin, head, plan, pulling>>

-----------------------------------------------------------------------------
(* Signing, and the change of authority. *)
StoreRecord(recs) ==
    /\ Cardinality(signed \cup recs) <= MaxSigned
    /\ \A d \in {r.doc : r \in recs} :
           Cardinality({r \in index \cup recs : r.doc = d}) <= RecordCap
    /\ signed' = signed \cup recs /\ index' = index \cup recs

Sign(k, d, f) ==
    /\ d \in held /\ StoreRecord({Rec(d, k, f)})
    /\ UNCHANGED <<docs, held, whole, pin, head, plan>>

PlanRotate(root) ==
    /\ Room(1) /\ docs[head].root # NoRoot
    /\ docs' = Append(docs, Doc(<<head>>, root, docs[head].modules))
    /\ plan' = Next1
    /\ UNCHANGED <<signed, held, whole, index, pin, head>>

\* The countersigner's checks of a document it was sent.
Countersignable(d) ==
    /\ docs[d].root # NoRoot
    /\ IF FirstParent(d) = 0 THEN d \in Reach(Store, head) ELSE
       /\ FirstParent(d) \in held \cap Reach(Store, head)
       /\ docs[d].modules = docs[FirstParent(d)].modules
       /\ InForce(Store, d) # NoRoot => docs[d].root.rev > InForce(Store, d).rev
    /\ \A k \in DOMAIN docs[d].root.keys :
           ~SinceRefuted(ObservedRoots(Store, d), k, docs[d].root.keys[k].since)
Countersign(k, d) ==
    /\ Countersignable(d) /\ StoreRecord({Rec(d, k, "sha512")})
    /\ UNCHANGED <<docs, held, whole, pin, head, plan>>

\* rotate(plan=): the planned bytes, and the records collected over them.
RotatePlanned ==
    /\ plan # 0 /\ FirstParent(plan) = head
    /\ Approves(Store, plan, ForSnapshot(Store, plan))
    /\ Advance(plan) /\ plan' = 0
    /\ UNCHANGED <<docs, signed, index, pin>>

\* rotate(trust_root, signers): built, signed, counted and advanced to in one call.
Rotate(root, signers) ==
    LET recs == {Rec(Next1, k, "sha512") : k \in signers}
        old == docs[head].root IN
    /\ Room(1) /\ old # NoRoot
    /\ Cardinality({k \in signers \cap Governors(old) :
                      \/ old.keys[k].compromised = 0
                      \/ DescendsFrom(Store, head, old.keys[k].compromised) = "no"}) >= old.quorum
    /\ docs' = Append(docs, Doc(<<head>>, root, docs[head].modules))
    /\ StoreRecord(recs) /\ Advance(Next1)
    /\ UNCHANGED <<pin, plan>>

-----------------------------------------------------------------------------
(* The anchor, the origin and the store. *)

\* pin(): the root given or the head's, and the last entry of ancestry(), which ends with the
\* first parent that does not resolve.
LastAncestor ==
    LET x == Oldest(Store, head) IN IF FirstParent(x) = 0 THEN x ELSE FirstParent(x)
PinChoices == {head} \cup IF "pin" \in Features THEN held ELSE {}
Pin(root) ==
    /\ root # NoRoot /\ pin = NoPin   \* bound: one pin
    /\ pin' = [root |-> root, genesis |-> LastAncestor]
    /\ UNCHANGED <<docs, signed, held, whole, index, head, plan>>

\* What _require_pin_holds refuses.
PinBlocks ==
    {"pin_brain_mismatch", "trust_root_mismatch", "quorum_failure", "revision_changed_content",
     "revision_regressed", "chain_truncated"}
\* Mutant of PinHolds: descending from the pinned root is enough.
PinHoldsMutant(st, d) == st.pin = NoPin \/ Anchored(st, d)
PinHolds(st, d) == st.pin = NoPin \/ Findings(st, d, docs[d].root) \cap PinBlocks = {}
\* Under "warn" this is the first contact: whether a tag once seen signed is signed no longer, which
\* seen_signed remembers, is left out.  The removal invariant is Reconcile's.
PolicyAdmits(st, d) ==
    IF ForSnapshot(st, d) = {}
    THEN Unsigned # "refuse"
    ELSE \/ AllowPropose
         \/ KeysJudged(st, d, docs[d].root, "proposal") = {}
         \/ KeysJudged(st, d, docs[d].root, "valid") # {}

\* What a store that retains n versions of d's line holds: these in full, and the documents of
\* their parents.  A prune leaves that much here, and a publisher's history layer carries it.
Retained(d, n) ==
    LET Kept[k \in 0 .. n] ==
            IF k = 0 THEN {} ELSE {d} \cup ({FirstParent(x) : x \in Kept[k - 1]} \ {0})
    IN  Kept[n]
WithParents(ds) == ds \cup UNION {ToSet(docs[x].parents) : x \in ds}

\* A pull of d: its document, the history its artifact carries, if any, and the records that the
\* listing names for its custody walk land first and stay, whatever is decided.
Fetched(d, n, listed) ==
    LET kept == Retained(d, n)
        st == [Store EXCEPT !.held = @ \cup {d} \cup WithParents(kept), !.whole = @ \cup {d} \cup kept]
        walk == Walk(st, d)
    IN  [st EXCEPT !.index = IF listed THEN @ \cup {r \in signed : r.doc \in walk} ELSE @]
Land(st) == held' = st.held /\ whole' = st.whole /\ index' = st.index

\* _require_pin_holds: the first resolution of the tag gave d, whose module layers are not asked
\* for yet.  What was fetched stays; a pull that is refused is over.
PinGate(d, n, listed) ==
    LET st == [Fetched(d, n, listed) EXCEPT !.whole = whole]
    IN  /\ "elsewhere" \in Features /\ pin # NoPin /\ pulling = 0
        /\ st # Store \/ PinHolds(st, d)
        /\ Land(st) /\ pulling' = IF PinHolds(st, d) THEN d ELSE 0
        /\ UNCHANGED <<docs, signed, pin, head, plan>>

\* The rest of the pull: _retrieve resolves the tag again, to d, whatever the pin gate judged; then
\* the rollback guard and the verification policy of an installation.  The pull may fail instead.
Installable(st, d) == d # head /\ DescendsFrom(st, head, d) # "yes" /\ PolicyAdmits(st, d)
Pull(d, n, listed) ==
    LET st == Fetched(d, n, listed)
    IN  /\ "elsewhere" \in Features /\ (pin = NoPin \/ pulling # 0)
        /\ Land(st) /\ pulling' = 0
        /\ head' \in {head} \cup (IF Installable(st, d) THEN {d} ELSE {})
        /\ UNCHANGED <<docs, signed, pin, plan>>

\* A prune that retains n versions; records over the documents that go, go with them.
Prune(n) ==
    /\ "prune" \in Features /\ n > 0
    /\ held' = held \cap WithParents(Retained(head, n)) /\ held' # held
    /\ whole' = whole \cap Retained(head, n)
    /\ index' = {r \in index : r.doc \in held'}
    /\ UNCHANGED <<docs, signed, pin, head, plan>>

\* The calls of this brain's handle that do not wait for anybody.
Call ==
    \/ \E edit \in EditOf(head) : Commit(edit)
    \/ \E d \in whole : Merge(d)
    \/ \E k \in Keys, d \in held, f \in Forms : Sign(k, d, f)
    \/ Room(1) /\ \E root \in Revisions(docs[head].root, head, OurKinds) : PlanRotate(root)
    \/ \E k \in Keys, d \in DOMAIN docs : Countersign(k, d)
    \/ RotatePlanned
    \/ Room(1) /\ \E root \in Revisions(docs[head].root, head, OurKinds), s \in SUBSET Keys :
           Rotate(root, s)
    \/ \E d \in PinChoices : Pin(docs[d].root)
    \/ \E n \in Depths : Prune(n)

\* A handle runs one call at a time; others publish while a pull of it waits for the registry.
Next ==
    \/ pulling = 0 /\ Call /\ UNCHANGED pulling
    \/ Room(1) /\ \E p \in DOMAIN docs : \E edit \in EditOf(p) \cup {<<>>} :
           \E root \in Revisions(docs[p].root, p, TheirKinds) \cup {docs[p].root} :
               \E recs \in SUBSET [doc : {Next1}, key : Keys, form : Forms] :
                   (edit # <<>> \/ root # docs[p].root) /\ Elsewhere(p, edit, root, recs)
    \/ \E d \in DOMAIN docs : \E n \in Depths, listed \in BOOLEAN : PinGate(d, n, listed)
    \/ \E d \in DOMAIN docs : \E n \in Depths, listed \in BOOLEAN : Pull(d, n, listed)

Spec == Init /\ [][Next]_vars

-----------------------------------------------------------------------------
(* Properties. *)

\* Every variable ranges over what the code can write; what is whole is held, and what the
\* index names exists.
TypeOK ==
    /\ docs \in Seq(ToSet(docs))
    /\ \A d \in DOMAIN docs :
           /\ docs[d].parents \in Seq(1 .. (d - 1))
           /\ IsRoot(docs[d].root) /\ docs[d].modules \in Modules
    /\ signed \subseteq [doc : DOMAIN docs, key : Keys, form : {"sha256", "sha512", "broken"}]
    /\ index \subseteq signed /\ whole \subseteq held /\ held \subseteq DOMAIN docs
    /\ head \in whole /\ plan \in {0} \cup DOMAIN docs /\ pulling \in {0} \cup DOMAIN docs
    /\ pin = NoPin \/ (IsRoot(pin.root) /\ pin.genesis \in DOMAIN docs)

\* A revision is approved when a quorum of the root before it signed it: keys that governed
\* there, still unretired there, and not marked there from something the revision stands on.
ApprovedByQuorum(d) ==
    LET r == docs[FirstParent(d)].root IN
    \E Q \in SUBSET Governors(r) :
        /\ Cardinality(Q) >= r.quorum
        /\ \A k \in Q :
              /\ \E x \in signed : x.doc = d /\ x.key = k /\ x.form # "broken"
              /\ r.keys[k].compromised \notin Reach(Everything, d)

\* The root in force at d comes from the anchor -- the pinned root, or the genesis where nothing
\* is pinned -- through approved revisions alone.
Granted(d) ==
    LET path == Walk(Everything, d) IN
    \E a \in path :
        /\ IF pin = NoPin THEN FirstParent(a) = 0 ELSE docs[a].root = pin.root
        /\ \A x \in path : x > a /\ IsRevision(Everything, x) => ApprovedByQuorum(x)

\* Whatever history a store holds, a snapshot is authorized only on authority that was granted:
\* withholding the documents or the records behind a change of keys never makes it one
\* (_judge_ancestry, _judge_pin, quorum_count).
AuthorityGranted == \A d \in held : Authorized(Store, d) => Granted(d)

\* A key that the newest root marks compromised counts for nothing at the marked snapshot or
\* after it on any path, whether or not the store can still see the mark (_judge).
WithdrawnNeverCounts ==
    \A d \in held, k \in Keys :
        LET r == docs[head].root IN
        Listed(r, k) /\ r.keys[k].compromised \in Reach(Everything, d) =>
            \A outcome \in {"valid", "proposal"} : k \notin KeysJudged(Store, d, r, outcome)

\* A key judged valid holds every scope the whole difference asks for, however little of the
\* difference could be read (required_scopes, gather_evidence).
EvidenceSound ==
    \A d \in held : \A k \in KeysJudged(Store, d, docs[head].root, "valid") :
        RequiredScopes(Everything, d).scopes \subseteq InForce(Everything, d).keys[k].scopes

\* While a pin is held, nothing moves the head from granted authority to authority that was not:
\* neither a rotation of this brain's own nor a pull, when the registry's second answer to it is
\* the snapshot that the pin gate judged, signed (_require_pin_holds, _retrieve, rotate).
PinnedAuthority ==
    [][pin # NoPin /\ pin' = pin /\ Granted(head)
         /\ (pulling # 0 => head' = pulling /\ ForSnapshot(Store, pulling) # {})
       => Granted(head)']_head

\* What docs/guides/authenticity.mdx says of every pull of a pinned consumer.
PinnedHead == [][pin # NoPin /\ pin' = pin /\ Granted(head) => Granted(head)']_head

\* An authorized snapshot whose history is held stays authorized: later commits, admissions,
\* retirements and signatures take nothing back.  Only a mark on a key that signed it does.
AuthorizationKept ==
    [][pin' = pin /\ held \subseteq held' =>
        \A d \in held :
          /\ Authorized(Store, d) /\ Walk(Everything, d) \subseteq held
          /\ \A r \in {InForce(Store, d), docs'[head'].root} :
                \A k \in DOMAIN r.keys : r.keys[k].compromised = 0
          => Authorized(Store, d)']_<<held, whole, index, head>>
=============================================================================
