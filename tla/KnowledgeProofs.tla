-------------------------- MODULE KnowledgeProofs --------------------------
(***************************************************************************)
(* Theorems about Knowledge, for every set of blocks, every graph of       *)
(* citations and references between them, and every policy; from "The      *)
(* fold of the records" on, about the two ways it is read, Ledger and      *)
(* Query, for every set of derived blocks, of producers and of requests;   *)
(* and, from "Powers of two" on, about the commitment to a composition,    *)
(* Merkle, for trees of every size.                                        *)
(***************************************************************************)
EXTENDS Knowledge, Query, FiniteSetTheorems, SequenceTheorems, WellFoundedInduction, TLAPS

-----------------------------------------------------------------------------
(* Lemmas about versions and about the cascade.                            *)

\* A version of these members, with at most these blocks newly tombstoned, is installed.
Installs(m, t) ==
    /\ Members' = m
    /\ tombs' = (tombs \cup t) \cap m
    /\ UNION Retained' \subseteq (UNION Retained) \cup m
    /\ written' \in 0 .. MaxVersions
    /\ versions' \in [Versions -> SUBSET Blocks]

\* What writing a version does to the installed members and the retained roots.
LEMMA NewVersionEffect ==
    ASSUME TypeOK, NEW m \in SUBSET Blocks, NEW t \in SUBSET Blocks, NewVersion(m, t)
    PROVE  Installs(m, t)
<1> USE PolicyAssumption
<1>1. written + 1 \in Versions /\ written' = written + 1 /\ written' # 0
  BY DEF TypeOK, NewVersion, Versions
<1>2. \A v \in Versions : versions'[v] = IF v = written + 1 THEN m ELSE versions[v]
  BY DEF TypeOK, NewVersion
<1>3. ASSUME NEW x \in UNION Retained' PROVE x \in (UNION Retained) \cup m
  <2>1. PICK v \in 1 .. written' : v + RetainedRoots > written' /\ x \in versions'[v]
    BY <1>3 DEF Retained
  <2>2. v \in Versions /\ v \in 1 .. written + 1
    BY <1>1, <2>1 DEF TypeOK, Versions
  <2>3. CASE v = written + 1
    BY <1>2, <2>1, <2>2, <2>3
  <2>4. CASE v # written + 1
    <3>1. v \in 1 .. written /\ v + RetainedRoots > written
      BY <1>1, <2>1, <2>2, <2>4 DEF TypeOK
    <3>2. x \in versions[v]
      BY <1>2, <2>1, <2>2, <2>4
    <3> QED
      BY <3>1, <3>2 DEF Retained
  <2> QED
    BY <2>3, <2>4
<1> QED
  BY <1>1, <1>2, <1>3 DEF NewVersion, Members, TypeOK, Installs

\* The installed version is a retained root, so prune marks its blocks.
LEMMA MembersKept ==
    ASSUME TypeOK
    PROVE  /\ Members \subseteq Blocks
           /\ Members \subseteq UNION Retained
           /\ UNION Retained \subseteq Kept
           /\ UNION Retained \subseteq Blocks
<1> USE PolicyAssumption
<1>1. Members \subseteq Blocks
  BY DEF Members, TypeOK, Versions
<1>2. Members \subseteq UNION Retained
  <2>1. CASE written = 0
    BY <2>1 DEF Members
  <2>2. CASE written # 0
    <3>1. written \in 1 .. written /\ written + RetainedRoots > written
      BY <2>2 DEF TypeOK
    <3>2. versions[written] \in Retained
      BY <3>1 DEF Retained
    <3> QED
      BY <2>2, <3>2 DEF Members
  <2> QED
    BY <2>1, <2>2
<1>3. UNION Retained \subseteq Kept
  BY DEF Kept
<1>4. UNION Retained \subseteq Blocks
  BY DEF Retained, TypeOK, Versions
<1> QED
  BY <1>1, <1>2, <1>3, <1>4

\* What the operations that write a version do with it.
LEMMA VersionEffects ==
    ASSUME TypeOK
    PROVE  /\ \A origins : Drop(origins) => Installs(Members \ Cascade(origins), {})
           /\ \A b \in Blocks : Commit(b) => Installs(Members \cup {b}, {})
           /\ \A b \in Blocks : Redact(b) => Installs(Members, {b})
<1>m. Members \subseteq Blocks
  BY MembersKept
<1>1. ASSUME NEW origins, Drop(origins) PROVE Installs(Members \ Cascade(origins), {})
  <2>1. Members \ Cascade(origins) \in SUBSET Blocks /\ {} \in SUBSET Blocks
    BY <1>m
  <2>2. NewVersion(Members \ Cascade(origins), {})
    BY <1>1 DEF Drop
  <2> QED
    BY <2>1, <2>2, NewVersionEffect
<1>2. ASSUME NEW b \in Blocks, Commit(b) PROVE Installs(Members \cup {b}, {})
  <2>1. Members \cup {b} \in SUBSET Blocks /\ {} \in SUBSET Blocks
    BY <1>m
  <2>2. NewVersion(Members \cup {b}, {})
    BY <1>2 DEF Commit
  <2> QED
    BY <2>1, <2>2, NewVersionEffect
<1>3. ASSUME NEW b \in Blocks, Redact(b) PROVE Installs(Members, {b})
  <2>1. Members \in SUBSET Blocks /\ {b} \in SUBSET Blocks
    BY <1>m
  <2>2. NewVersion(Members, {b})
    BY <1>3 DEF Redact
  <2> QED
    BY <2>1, <2>2, NewVersionEffect
<1> QED
  BY <1>1, <1>2, <1>3

\* Nothing outside a cascade cites or, if it can be read, points at anything in it.
LEMMA CascadeClosed ==
    ASSUME NEW origins
    PROVE  /\ Cascade(origins) \subseteq Members
           /\ \A c \in Cascade(origins) : Citing(c) \cup Pointing(c) \subseteq Cascade(origins)
BY DEF Cascade, Citing, Pointing

\* Whatever a version adds, the store has its envelope and its content by then.
Adds(b, names) ==
    /\ names \in {Members, Members \cup {b}}
    /\ files \subseteq files'
    /\ files' \subseteq files \cup Content[b] \cup {b}
    /\ Content[b] \subseteq files'
    /\ b \in files' \/ b \in Members
    /\ b \in files' \ files => b \notin Members
    /\ marks' = marks /\ pending' = pending /\ pending = {} /\ accepted' = accepted

\* The three operations that incorporate a block in one call do the same to the store.
LEMMA Incorporate ==
    ASSUME TypeOK, NEW b \in Blocks,
           Register(b) \/ (\E s \in Blocks : Replace(b, s)) \/ Ingest(b)
    PROVE  /\ Adds(b, Members')
           /\ TypeOK'
           /\ UNION Retained' \subseteq (UNION Retained) \cup Members'
           /\ tombs' = tombs
           /\ Ingest(b) \/ Kind[b] = "canonical"
           /\ b \in Members'
<1> USE SchemaAssumption, BlocksAssumption
<1>1. Members \subseteq Blocks /\ tombs \subseteq Members /\ Content[b] \subseteq Contents
  BY MembersKept DEF TypeOK
<1>2. Content[b] \cap Blocks = {}
  BY <1>1
<1>3. CASE Register(b) /\ b \in Members
  <2>1. UNCHANGED <<written, versions, tombs, marks, accepted, pending>> /\ files' = files \cup Content[b]
    BY <1>3 DEF Register
  <2>2. Members' = Members /\ Retained' = Retained
    BY <2>1 DEF Members, Retained
  <2> QED
    BY <1>1, <1>2, <1>3, <2>1, <2>2, MembersKept DEF Adds, TypeOK, Digests, Register
<1>4. CASE Ingest(b) \/ (\E s \in Blocks : Replace(b, s)) \/ (Register(b) /\ b \notin Members)
  <2>1. /\ NewVersion(Members \cup {b}, {}) /\ pending = {}
        /\ files' = files \cup Content[b] \cup (IF b \in Members THEN {} ELSE {b})
        /\ UNCHANGED <<marks, accepted, pending>>
    BY <1>4 DEF Ingest, Replace, Register, Validated
  <2>2. /\ Members' = Members \cup {b} /\ tombs' = (tombs \cup {}) \cap (Members \cup {b})
        /\ UNION Retained' \subseteq (UNION Retained) \cup (Members \cup {b})
        /\ written' \in 0 .. MaxVersions /\ versions' \in [Versions -> SUBSET Blocks]
    BY <1>1, <2>1, NewVersionEffect DEF Installs
  <2>3. tombs' = tombs
    BY <1>1, <2>2
  <2>4. TypeOK'
    BY <1>1, <2>1, <2>2, <2>3 DEF TypeOK, Digests
  <2>5. Adds(b, Members')
    BY <1>1, <1>2, <2>1, <2>2 DEF Adds
  <2>6. Ingest(b) \/ Kind[b] = "canonical"
    BY <1>4 DEF Replace, Register
  <2> QED
    BY <2>2, <2>3, <2>4, <2>5, <2>6
<1> QED
  BY <1>3, <1>4

-----------------------------------------------------------------------------
(* Types.                                                                  *)

LEMMA TypeNext == TypeOK /\ [Next]_vars => TypeOK'
<1> SUFFICES ASSUME TypeOK, [Next]_vars PROVE TypeOK'
  OBVIOUS
<1> USE SchemaAssumption, BlocksAssumption
<1>m. Members \subseteq Blocks
  BY MembersKept
<1>1. ASSUME NEW b \in Blocks, Register(b) \/ (\E s \in Blocks : Replace(b, s)) \/ Ingest(b)
      PROVE  TypeOK'
  BY <1>1, Incorporate
<1>2. ASSUME NEW b \in Blocks, Validate(b) PROVE TypeOK'
  BY <1>2 DEF Validate, TypeOK, Members, Digests
<1>3. ASSUME NEW b \in Blocks, Commit(b) PROVE TypeOK'
  <2>1. Members' = Members \cup {b} /\ tombs' = (tombs \cup {}) \cap (Members \cup {b})
        /\ written' \in 0 .. MaxVersions /\ versions' \in [Versions -> SUBSET Blocks]
    BY <1>3, VersionEffects DEF Commit, Installs
  <2> QED
    BY <1>3, <2>1 DEF Commit, TypeOK, Digests
<1>4. ASSUME NEW origins \in SUBSET Blocks, Drop(origins) PROVE TypeOK'
  <2>1. Members' = Members \ Cascade(origins)
        /\ tombs' = (tombs \cup {}) \cap (Members \ Cascade(origins))
        /\ written' \in 0 .. MaxVersions /\ versions' \in [Versions -> SUBSET Blocks]
    BY <1>4, VersionEffects DEF Drop, Installs
  <2> QED
    BY <1>4, <2>1 DEF Drop, TypeOK
<1>5. ASSUME NEW b \in Blocks, Redact(b) PROVE TypeOK'
  <2>1. Members' = Members /\ tombs' = (tombs \cup {b}) \cap Members
        /\ written' \in 0 .. MaxVersions /\ versions' \in [Versions -> SUBSET Blocks]
    BY <1>5, VersionEffects DEF Redact, Installs
  <2>2. Destroyed(b) \subseteq Digests
    BY DEF Destroyed, Digests
  <2> QED
    BY <1>5, <2>1, <2>2 DEF Redact, TypeOK
<1>6. ASSUME NEW d \in Digests, RedactBytes(d) PROVE TypeOK'
  BY <1>6 DEF RedactBytes, TypeOK, Members
<1>7. CASE Crash
  BY <1>7 DEF Crash, TypeOK, Members
<1>8. CASE Prune
  BY <1>8 DEF Prune, TypeOK, Members
<1>9. CASE UNCHANGED vars
  BY <1>9 DEF vars, TypeOK, Members
<1> QED
  BY <1>1, <1>2, <1>3, <1>4, <1>5, <1>6, <1>7, <1>8, <1>9 DEF Next

LEMMA TypeInit == Init => TypeOK
BY PolicyAssumption DEF Init, TypeOK, Members, Versions

\* Every variable keeps its type, and the tombstones of the installed version stay
\* members of it, as the constructor of Module demands.
THEOREM TypeCorrect == Spec => []TypeOK
BY TypeInit, TypeNext, PTL DEF Spec

-----------------------------------------------------------------------------
(* What a step can do to the bytes of a member.                            *)

\* A member that could not be read before a step cannot be read after it: its
\* envelope is stored only when it joins, and prune keeps its tombstone.
LEMMA MembersStayUnreadable ==
    ASSUME TypeOK, [Next]_vars, accepted = {}, NEW x \in Members, Resolvable(x)'
    PROVE  Resolvable(x)
<1> USE SchemaAssumption, BlocksAssumption
<1>m. x \in Blocks /\ x \in Kept
  BY MembersKept
<1>1. ASSUME NEW b \in Blocks, Register(b) \/ (\E s \in Blocks : Replace(b, s)) \/ Ingest(b)
      PROVE  Resolvable(x)
  <2>1. Adds(b, Members')
    BY <1>1, Incorporate
  <2>2. x \notin Content[b]
    BY <1>m
  <2> QED
    BY <2>1, <2>2 DEF Adds, Resolvable
<1>2. ASSUME NEW b \in Blocks, Validate(b) PROVE Resolvable(x)
  <2>1. x \notin Content[b]
    BY <1>m
  <2> QED
    BY <1>2, <2>1 DEF Validate, Resolvable
<1>3. ASSUME NEW b \in Blocks, Commit(b) PROVE Resolvable(x)
  BY <1>3 DEF Commit
<1>4. ASSUME NEW origins \in SUBSET Blocks, Drop(origins) PROVE Resolvable(x)
  BY <1>4 DEF Drop, Resolvable
<1>5. ASSUME NEW b \in Blocks, Redact(b) PROVE Resolvable(x)
  BY <1>5 DEF Redact, Resolvable
<1>6. ASSUME NEW d \in Digests, RedactBytes(d) PROVE Resolvable(x)
  BY <1>6 DEF RedactBytes, Resolvable
<1>7. CASE Crash
  BY <1>7 DEF Crash, Resolvable
<1>8. CASE Prune
  BY <1>8, <1>m DEF Prune, Resolvable
<1>9. CASE UNCHANGED vars
  BY <1>9 DEF vars, Resolvable
<1> QED
  BY <1>1, <1>2, <1>3, <1>4, <1>5, <1>6, <1>7, <1>8, <1>9 DEF Next

-----------------------------------------------------------------------------
(* Citations.                                                              *)

\* The whole composition stays closed: a drop takes a set nothing else rests on.
LEMMA CitationsNext ==
    ASSUME TypeOK, CitationsHeld, accepted = {}, [Next]_vars
    PROVE  CitationsHeld'
<1> USE SchemaAssumption
<1>m. Members \subseteq Blocks
  BY MembersKept
<1>r. \A x \in Members : Resolvable(x)' => Resolvable(x)
  BY MembersStayUnreadable
<1>1. ASSUME NEW b \in Blocks, Register(b) \/ (\E s \in Blocks : Replace(b, s)) \/ Ingest(b)
      PROVE  CitationsHeld'
  <2>1. Members' \in {Members, Members \cup {b}}
    BY <1>1, Incorporate DEF Adds
  <2>2. b \notin Members => Evidence[b] \subseteq Members /\ (Kind[b] = "semantic" => Uses[b] \subseteq Members)
    BY <1>1, Incorporate DEF Ingest, Validated
  <2> QED
    BY <1>r, <2>1, <2>2 DEF CitationsHeld
<1>2. ASSUME NEW origins \in SUBSET Blocks, Drop(origins) PROVE CitationsHeld'
  <2>1. Members' = Members \ Cascade(origins)
    BY <1>2, VersionEffects DEF Drop, Installs
  <2>2. ASSUME NEW x \in Members', NEW e \in Evidence[x] PROVE e \in Members'
    BY <2>1, <2>2, CascadeClosed DEF Citing, CitationsHeld
  <2>3. ASSUME NEW x \in Members', Kind[x] = "semantic", Resolvable(x)', NEW u \in Uses[x]
        PROVE  u \in Members'
    BY <1>r, <2>1, <2>3, CascadeClosed DEF Pointing, CitationsHeld
  <2> QED
    BY <2>2, <2>3 DEF CitationsHeld
<1>3. ASSUME NEW b \in Blocks, Redact(b) PROVE CitationsHeld'
  <2>1. Members' = Members
    BY <1>3, VersionEffects DEF Redact, Installs
  <2> QED
    BY <1>r, <2>1 DEF CitationsHeld
<1>4. ASSUME UNCHANGED <<written, versions>> PROVE CitationsHeld'
  <2>1. Members' = Members
    BY <1>4 DEF Members
  <2> QED
    BY <1>r, <2>1 DEF CitationsHeld
<1> QED
  BY <1>1, <1>2, <1>3, <1>4 DEF Next, Validate, Commit, RedactBytes, Crash, Prune, vars

\* Without deferred commits no report is ever left lying around.
LEMMA NoReports ==
    ASSUME "deferred" \notin Features
    PROVE  Spec => [](accepted = {})
<1>1. Init => accepted = {}
  BY DEF Init
<1>2. accepted = {} /\ [Next]_vars => (accepted = {})'
  BY DEF Next, vars, Register, Replace, Ingest, Validate, Commit, Drop, Redact, RedactBytes, Crash, Prune
<1> QED
  BY <1>1, <1>2, PTL DEF Spec

\* However a brain without deferred commits is built up and cut down, every member
\* rests on evidence that is still there, for any graph of citations and references.
THEOREM CitationsAlwaysHeld ==
    ASSUME "deferred" \notin Features
    PROVE  Spec => []CitationsHeld
<1>1. Init => CitationsHeld
  BY DEF Init, CitationsHeld, Members
<1>2. TypeOK /\ accepted = {} /\ CitationsHeld /\ [Next]_vars => CitationsHeld'
  BY CitationsNext
<1> QED
  BY <1>1, <1>2, NoReports, TypeInit, TypeNext, PTL DEF Spec

-----------------------------------------------------------------------------
(* Nothing a retained root needs is ever merely missing.                   *)

LEMMA IntactNext ==
    ASSUME TypeOK, Intact, accepted = {}, [Next]_vars
    PROVE  Intact'
<1> USE SchemaAssumption, BlocksAssumption
<1>m. /\ Members \subseteq UNION Retained /\ UNION Retained \subseteq Kept
      /\ UNION Retained \subseteq Blocks /\ Members \subseteq Blocks
  BY MembersKept
<1>1. ASSUME NEW b \in Blocks, Register(b) \/ (\E s \in Blocks : Replace(b, s)) \/ Ingest(b)
      PROVE  Intact'
  <2>1. Adds(b, Members') /\ UNION Retained' \subseteq (UNION Retained) \cup {b}
    BY <1>1, <1>m, Incorporate DEF Adds
  <2> SUFFICES ASSUME NEW x \in UNION Retained'
               PROVE  Has(x)' /\ (Resolvable(x)' => \A c \in Content[x] : Has(c)')
    BY DEF Intact
  <2>2. CASE x = b
    BY <1>m, <2>1, <2>2 DEF Adds, Has, Intact
  <2>3. CASE x # b
    <3>1. x \in UNION Retained /\ x \notin Content[b]
      BY <1>m, <2>1, <2>3
    <3>2. Resolvable(x)' => Resolvable(x)
      BY <2>1, <2>3, <3>1 DEF Adds, Resolvable
    <3> QED
      BY <2>1, <3>1, <3>2 DEF Adds, Has, Intact
  <2> QED
    BY <2>2, <2>3
<1>2. ASSUME NEW b \in Blocks, Validate(b) PROVE Intact'
  <2>1. Retained' = Retained /\ files' = files \cup Content[b] /\ marks' = marks
    BY <1>2 DEF Validate, Retained
  <2>2. \A x \in UNION Retained : x \notin Content[b]
    BY <1>m
  <2>3. \A x \in UNION Retained : Resolvable(x)' => Resolvable(x)
    BY <2>1, <2>2 DEF Resolvable
  <2> QED
    BY <2>1, <2>3 DEF Intact, Has
<1>3. ASSUME NEW origins \in SUBSET Blocks, Drop(origins) PROVE Intact'
  <2>1. UNION Retained' \subseteq (UNION Retained) \cup (Members \ Cascade(origins))
    BY <1>3, VersionEffects DEF Drop, Installs
  <2> QED
    BY <1>3, <1>m, <2>1 DEF Drop, Intact, Has, Resolvable
<1>4. ASSUME NEW b \in Blocks, Redact(b) PROVE Intact'
  <2>1. UNION Retained' \subseteq (UNION Retained) \cup Members
    BY <1>4, VersionEffects DEF Redact, Installs
  <2> QED
    BY <1>4, <1>m, <2>1 DEF Redact, Intact, Has, Resolvable
<1>5. ASSUME NEW d \in Digests, RedactBytes(d) PROVE Intact'
  <2>1. Retained' = Retained
    BY <1>5 DEF RedactBytes, Retained
  <2> QED
    BY <1>5, <2>1 DEF RedactBytes, Intact, Has, Resolvable
<1>6. CASE Prune
  <2>1. Retained' = Retained
    BY <1>6 DEF Prune, Retained
  <2>2. \A d \in Kept : Has(d) => Has(d)'
    BY <1>6 DEF Prune, Has
  <2>3. \A x \in UNION Retained : Resolvable(x)' => Resolvable(x)
    BY <1>6, <1>m DEF Prune, Resolvable
  <2>4. \A x \in UNION Retained : Resolvable(x) => Content[x] \subseteq Kept
    BY DEF Kept
  <2> QED
    BY <1>m, <2>1, <2>2, <2>3, <2>4 DEF Intact
<1>7. CASE Crash \/ UNCHANGED vars
  <2>1. UNCHANGED <<written, versions, files, marks>>
    BY <1>7 DEF Crash, vars
  <2> QED
    BY <2>1 DEF Intact, Has, Resolvable, Retained
<1>8. ASSUME NEW b \in Blocks, Commit(b) PROVE Intact'
  BY <1>8 DEF Commit
<1> QED
  BY <1>1, <1>2, <1>3, <1>4, <1>5, <1>6, <1>7, <1>8 DEF Next

\* Every block of every retained version, and every datum a readable one names, is
\* held or tombstoned, through any mix of registrations, drops, redactions that
\* stop half way, and prunes.
THEOREM AlwaysIntact ==
    ASSUME "deferred" \notin Features
    PROVE  Spec => []Intact
<1>1. Init => Intact
  BY DEF Init, Intact, Retained
<1>2. TypeOK /\ accepted = {} /\ Intact /\ [Next]_vars => Intact'
  BY IntactNext
<1> QED
  BY <1>1, <1>2, NoReports, TypeInit, TypeNext, PTL DEF Spec

-----------------------------------------------------------------------------
(* What is forgotten, and what is not.                                     *)

\* An episode never leaves the composition, whatever is dropped and however far
\* the cascade reaches: a plan that would take one is refused as a whole.
THEOREM EpisodesAlwaysKept == Spec => EpisodesKept
<1>1. TypeOK /\ [Next]_vars => {b \in Members : Kind[b] = "episodic"} \subseteq Members'
  <2> SUFFICES ASSUME TypeOK, [Next]_vars, NEW x \in Members, Kind[x] = "episodic"
               PROVE  x \in Members'
    OBVIOUS
  <2>1. ASSUME NEW b \in Blocks, Register(b) \/ (\E s \in Blocks : Replace(b, s)) \/ Ingest(b)
        PROVE  x \in Members'
    BY <2>1, Incorporate DEF Adds
  <2>2. ASSUME NEW b \in Blocks, Commit(b) PROVE x \in Members'
    BY <2>2, VersionEffects DEF Installs
  <2>3. ASSUME NEW origins \in SUBSET Blocks, Drop(origins) PROVE x \in Members'
    <3>1. Members' = Members \ Cascade(origins)
      BY <2>3, VersionEffects DEF Installs
    <3> QED
      BY <2>3, <3>1 DEF Drop, Authorized
  <2>4. ASSUME NEW b \in Blocks, Redact(b) PROVE x \in Members'
    BY <2>4, VersionEffects DEF Installs
  <2>5. ASSUME UNCHANGED <<written, versions>> PROVE x \in Members'
    BY <2>5 DEF Members
  <2> QED
    BY <2>1, <2>2, <2>3, <2>4, <2>5 DEF Next, Validate, RedactBytes, Crash, Prune, vars
<1> QED
  BY <1>1, TypeInit, TypeNext, PTL DEF Spec, EpisodesKept

\* A tombstoned block that can still be read is one the redaction has yet to reach.
Unfinished == \A b \in tombs : Resolvable(b) => b \in pending

LEMMA UnfinishedNext ==
    ASSUME TypeOK, Unfinished, accepted = {}, "crash" \notin Features, [Next]_vars
    PROVE  Unfinished'
<1>m. Members \subseteq Blocks /\ tombs \subseteq Members
  BY MembersKept DEF TypeOK
<1>r. \A x \in Members : Resolvable(x)' => Resolvable(x)
  BY MembersStayUnreadable
<1>1. ASSUME NEW b \in Blocks, Register(b) \/ (\E s \in Blocks : Replace(b, s)) \/ Ingest(b)
      PROVE  Unfinished'
  BY <1>1, <1>m, <1>r, Incorporate DEF Adds, Unfinished
<1>2. ASSUME NEW origins \in SUBSET Blocks, Drop(origins) PROVE Unfinished'
  <2>1. tombs' \subseteq tombs /\ pending' = pending
    BY <1>2, VersionEffects DEF Drop, Installs
  <2> QED
    BY <1>m, <1>r, <2>1 DEF Unfinished
<1>3. ASSUME NEW b \in Blocks, Redact(b) PROVE Unfinished'
  <2>1. tombs' \subseteq tombs \cup {b} /\ pending = {} /\ b \in pending'
    BY <1>3, VersionEffects DEF Redact, Destroyed, Installs
  <2> QED
    BY <1>m, <1>r, <2>1 DEF Unfinished
<1>4. ASSUME NEW d \in Digests, RedactBytes(d) PROVE Unfinished'
  BY <1>4, <1>m, <1>r DEF RedactBytes, Unfinished, Resolvable
<1>5. ASSUME UNCHANGED <<tombs, pending>> PROVE Unfinished'
  BY <1>5, <1>m, <1>r DEF Unfinished
<1> QED
  BY <1>1, <1>2, <1>3, <1>4, <1>5 DEF Next, Validate, Commit, Crash, Prune, vars

\* When no redaction is cut short, a block reported as tombstoned stays destroyed:
\* registering its source again, pruning or dropping around it brings no bytes back.
THEOREM RedactionAlwaysStands ==
    ASSUME "deferred" \notin Features, "crash" \notin Features
    PROVE  Spec => []RedactionStands
<1>1. Init => Unfinished
  BY DEF Init, Unfinished
<1>2. TypeOK /\ accepted = {} /\ Unfinished /\ [Next]_vars => Unfinished'
  BY UnfinishedNext
<1>3. Unfinished => RedactionStands
  BY DEF Unfinished, RedactionStands
<1> QED
  BY <1>1, <1>2, <1>3, NoReports, TypeInit, TypeNext, PTL DEF Spec

\* What is redacted stays unreadable, so the gate, which compares a proposal only
\* with what can be read, never lets two contradicting claims stand side by side.
THEOREM AlwaysConsistent ==
    ASSUME "deferred" \notin Features
    PROVE  Spec => []Consistent
<1>1. Init => Consistent
  BY DEF Init, Consistent, Members
<1>2. ASSUME TypeOK, accepted = {}, Consistent, [Next]_vars
      PROVE  Consistent'
  <2>m. Members \subseteq Blocks
    BY <1>2, MembersKept
  <2>r. \A x \in Members : Resolvable(x)' => Resolvable(x)
    BY <1>2, MembersStayUnreadable
  <2>1. ASSUME Members' \subseteq Members PROVE Consistent'
    BY <1>2, <2>1, <2>r DEF Consistent
  <2>2. ASSUME NEW b \in Blocks, Register(b) \/ (\E s \in Blocks : Replace(b, s)) \/ Ingest(b)
        PROVE  Consistent'
    <3>1. Members' \in {Members, Members \cup {b}} /\ (Ingest(b) \/ Kind[b] = "canonical")
      BY <1>2, <2>2, Incorporate DEF Adds
    <3>2. ASSUME NEW o \in Members, o \in Contradicts[b] \/ b \in Contradicts[o], b \notin Members
          PROVE  ~ Resolvable(o)
      <4>1. o \in Contradicts[b] /\ Kind[b] = "semantic"
        BY <2>m, <3>2, ContradictionAssumption
      <4> QED
        BY <3>1, <3>2, <4>1 DEF Ingest, Validated, Conflicts
    <3>3. b \notin Contradicts[b]
      BY ContradictionAssumption
    <3> QED
      BY <1>2, <2>r, <3>1, <3>2, <3>3 DEF Consistent
  <2>3. ASSUME NEW origins, Drop(origins) PROVE Members' \subseteq Members
    BY <2>3, <1>2, VersionEffects DEF Installs
  <2>4. ASSUME NEW b \in Blocks, Redact(b) PROVE Members' \subseteq Members
    BY <2>4, <1>2, VersionEffects DEF Installs
  <2>5. ASSUME UNCHANGED <<written, versions>> PROVE Members' \subseteq Members
    BY <2>5 DEF Members
  <2> QED
    BY <1>2, <2>1, <2>2, <2>3, <2>4, <2>5
    DEF Next, Validate, Commit, RedactBytes, Crash, Prune, vars
<1> QED
  BY <1>1, <1>2, NoReports, TypeInit, TypeNext, PTL DEF Spec

\* Content waiting to be destroyed is named by no readable member but the redacted one.
Doomed ==
    \A c \in pending \cap Contents : \A m \in Members :
        c \in Content[m] /\ Resolvable(m) => m \in pending

LEMMA DoomedNext == TypeOK /\ Doomed /\ [Next]_vars => Doomed'
<1> SUFFICES ASSUME TypeOK, Doomed, [Next]_vars PROVE Doomed'
  OBVIOUS
<1> USE SchemaAssumption, BlocksAssumption
<1>m. Members \subseteq Blocks
  BY MembersKept
<1>1. ASSUME NEW b \in Blocks, Redact(b) PROVE Doomed'
  <2>1. Members' = Members /\ files' = files /\ marks' = marks /\ pending' = Destroyed(b)
    BY <1>1, VersionEffects DEF Redact, Installs
  <2>2. ASSUME NEW c \in Destroyed(b) \cap Contents, NEW m \in Members, c \in Content[m], Resolvable(m)
        PROVE  m \in Destroyed(b)
    BY <1>m, <2>2 DEF Destroyed, ContentNamedElsewhere
  <2> QED
    BY <2>1, <2>2 DEF Doomed, Resolvable
<1>2. ASSUME NEW d \in Digests, RedactBytes(d) PROVE Doomed'
  <2>1. Members' = Members
    BY <1>2 DEF RedactBytes, Members
  <2> QED
    BY <1>2, <2>1 DEF RedactBytes, Doomed, Resolvable
<1>3. ASSUME pending' = {} PROVE Doomed'
  BY <1>3 DEF Doomed
<1>4. CASE UNCHANGED vars
  BY <1>4 DEF vars, Doomed, Resolvable, Members
<1> QED
  BY <1>1, <1>2, <1>3, <1>4
  DEF Next, Register, Replace, Ingest, Validate, Commit, Drop, Crash, Prune

\* No step, of a redaction that may be cut short or of any other operation, takes a
\* readable datum from a member of the installed version that stays readable.
THEOREM DatumAlwaysKept == Spec => DatumKept
<1>1. Init => Doomed
  BY DEF Init, Doomed
<1>2. TypeOK /\ Doomed /\ [Next]_vars =>
        \A b \in Members \cap Members' :
            Resolvable(b) /\ Resolvable(b)'
                => \A c \in Content[b] : Resolvable(c) => Resolvable(c)'
  <2> SUFFICES ASSUME TypeOK, Doomed, [Next]_vars, NEW b \in Members, Resolvable(b), Resolvable(b)',
                      NEW c \in Content[b], Resolvable(c)
               PROVE  Resolvable(c)'
    OBVIOUS
  <2> USE SchemaAssumption, BlocksAssumption
  <2>m. b \in Blocks /\ b \in UNION Retained /\ c \in Contents
    BY MembersKept
  <2>1. ASSUME NEW d \in Digests, RedactBytes(d) PROVE Resolvable(c)'
    <3>1. d = c => pending \cap Blocks = {} /\ c \in pending \cap Contents
      BY <2>1, <2>m DEF RedactBytes
    <3>2. d # c
      BY <3>1, <2>m DEF Doomed
    <3> QED
      BY <2>1, <3>2 DEF RedactBytes, Resolvable
  <2>2. CASE Prune
    <3>1. c \in Kept
      BY <2>m DEF Kept
    <3> QED
      BY <2>2, <3>1 DEF Prune, Resolvable
  <2>3. ASSUME files \subseteq files', marks' = marks PROVE Resolvable(c)'
    BY <2>3 DEF Resolvable
  <2> QED
    BY <2>1, <2>2, <2>3
    DEF Next, Register, Replace, Ingest, Validate, Commit, Drop, Redact, Crash, vars
<1> QED
  BY <1>1, <1>2, DoomedNext, TypeInit, TypeNext, PTL DEF Spec, DatumKept

-----------------------------------------------------------------------------
(* The fold of the records.                                                *)

\* Lemma: a nonempty set of naturals has a least element.
LEMMA LeastOf ==
    ASSUME NEW T \in SUBSET Nat, T # {}
    PROVE  \E x \in T : \A y \in T : x <= y
<1> DEFINE R == {p \in Nat \X Nat : p[1] < p[2]}
<1>1. IsWellFoundedOn(R, Nat)
  BY NatLessThanWellFounded, Zenon DEF OpToRel
<1> HIDE DEF R
<1>2. PICK x \in T : \A y \in T : ~ (<<y, x>> \in R)
  BY <1>1, WFMin
<1>3. \A y \in T : ~ (y < x)
  BY <1>2 DEF R
<1> QED
  BY <1>3

\* Lemma: a nonempty set of places has a greatest one.
LEMMA LastOf ==
    ASSUME NEW n \in Nat, NEW S \in SUBSET (1 .. n), S # {}
    PROVE  Max(S) \in S /\ \A y \in S : Max(S) >= y
<1> DEFINE T == {m \in Nat : \A y \in S : y <= m}
<1>1. n \in T
  OBVIOUS
<1>2. PICK m \in T : \A k \in T : m <= k
  BY <1>1, LeastOf
<1>3. \A y \in S : y <= m
  BY <1>2
<1>4. m \in S
  <2> SUFFICES ASSUME m \notin S PROVE FALSE
    OBVIOUS
  <2>1. \A y \in S : y <= m - 1 /\ m - 1 \in Nat
    BY <1>2, <1>3
  <2>2. m - 1 \in T
    BY <2>1
  <2> QED
    BY <1>2, <2>2
<1>5. \E x \in S : \A y \in S : x >= y
  BY <1>3, <1>4
<1> QED
  BY <1>5 DEF Max

\* What one record does to the ledger of a history.
Taken(side, l, e) == IF side \in e.held THEN Absorb(l, e) ELSE l

\* The fold over every set of the first n places of s, the last place of a set last.
FoldAt(g, side, s, S) ==
    IF S = {} THEN EmptyLedger ELSE Taken(side, g[S \ {Max(S)}], s[Max(S)])
Folds(g, n, side, s) == g = [S \in SUBSET (1 .. n) |-> FoldAt(g, side, s, S)]

\* Lemma: step by step.
LEMMA FoldsSteps ==
    ASSUME NEW g, NEW n, NEW side, NEW s, Folds(g, n, side, s), NEW S \in SUBSET (1 .. n)
    PROVE  g[S] = FoldAt(g, side, s, S)
BY DEF Folds

\* Lemma: the folds exist.
LEMMA FoldsExist ==
    ASSUME NEW d \in Nat, NEW side, NEW s
    PROVE  \E g : Folds(g, d, side, s)
<1> DEFINE Bad == {m \in Nat : ~ \E g : Folds(g, m, side, s)}
<1> SUFFICES ASSUME Bad # {} PROVE FALSE
  OBVIOUS
<1>1. PICK n \in Bad : \A y \in Bad : n <= y
  <2>1. Bad \in SUBSET Nat
    OBVIOUS
  <2> HIDE DEF Bad
  <2> QED
    BY <2>1, LeastOf
<1>2. n # 0
  <2>1. Folds([S \in SUBSET (1 .. 0) |-> EmptyLedger], 0, side, s)
    <3>1. \A S \in SUBSET (1 .. 0) : S = {}
      OBVIOUS
    <3> QED
      BY <3>1 DEF Folds, FoldAt
  <2> QED
    BY <2>1
<1>3. n - 1 \in Nat /\ n - 1 \notin Bad /\ n \in Nat
  BY <1>1, <1>2
<1>4. PICK g : Folds(g, n - 1, side, s)
  BY <1>3
<1> DEFINE Value(S) == IF n \in S THEN Taken(side, g[S \ {n}], s[n]) ELSE g[S]
<1> HIDE DEF Value
<1> DEFINE h == [S \in SUBSET (1 .. n) |-> Value(S)]
<1>5. h = [S \in SUBSET (1 .. n) |-> h[S]] /\ \A S \in SUBSET (1 .. n) : h[S] = Value(S)
  OBVIOUS
<1> HIDE DEF h
<1>6. ASSUME NEW S \in SUBSET (1 .. n)
      PROVE  h[S] = FoldAt(h, side, s, S)
  <2>1. S \ {n} \in SUBSET (1 .. n - 1) /\ S \ {n} \in SUBSET (1 .. n)
    BY <1>3
  <2>2. h[S \ {n}] = g[S \ {n}]
    BY <2>1, <1>5 DEF Value
  <2>3. CASE n \in S
    <3>1. Max(S) \in S /\ \A y \in S : Max(S) >= y
      BY <1>3, <2>3, LastOf
    <3>2. Max(S) \in 1 .. n /\ Max(S) >= n
      BY <2>3, <3>1
    <3>3. Max(S) = n
      BY <1>3, <3>2
    <3> QED
      BY <3>3, <2>2, <2>3, <1>5 DEF Value, FoldAt
  <2>4. CASE n \notin S
    <3>1. S \in SUBSET (1 .. n - 1) /\ S \ {n} = S
      BY <2>1, <2>4
    <3>2. h[S] = FoldAt(g, side, s, S)
      <4>1. g[S] = FoldAt(g, side, s, S)
        BY <3>1, <1>4 DEF Folds
      <4> QED
        BY <4>1, <2>4, <1>5 DEF Value
    <3>3. CASE S = {}
      BY <3>2, <3>3 DEF FoldAt
    <3>4. CASE S # {}
      <4>1. Max(S) \in S
        BY <1>3, <3>4, LastOf
      <4>2. S \ {Max(S)} \in SUBSET (1 .. n - 1) /\ S \ {Max(S)} \in SUBSET (1 .. n) /\ n \notin S \ {Max(S)}
        BY <3>1, <1>3
      <4>3. h[S \ {Max(S)}] = g[S \ {Max(S)}]
        BY <4>2, <1>5 DEF Value
      <4> QED
        BY <3>2, <3>4, <4>3 DEF FoldAt
    <3> QED
      BY <3>3, <3>4
  <2> QED
    BY <2>3, <2>4
<1>7. Folds(h, n, side, s)
  BY <1>5, <1>6 DEF Folds
<1> QED
  BY <1>1, <1>7

\* The ledgers after the records one by one.
Rounds(f, side, s) ==
    /\ f[0] = EmptyLedger
    /\ \A n \in 1 .. Len(s) : f[n] = Taken(side, f[n - 1], s[n])

\* Lemma: the ledger of a history is the last of them.
LEMMA ReadIs ==
    ASSUME NEW S, order \in Seq(S), NEW side
    PROVE  \E f : Rounds(f, side, order) /\ Read(side) = f[Len(order)]
<1>1. Len(order) \in Nat /\ DOMAIN order = 1 .. Len(order)
  OBVIOUS
<1> DEFINE g == CHOOSE h : Folds(h, Len(order), side, order)
<1>2. Folds(g, Len(order), side, order)
  BY <1>1, FoldsExist
<1>3. Read(side) = g[DOMAIN order]
  BY <1>1 DEF Read, FoldLeft, MapThenFoldSet, Folds, FoldAt, Taken
<1> HIDE DEF g
<1> DEFINE f == [n \in 0 .. Len(order) |-> g[1 .. n]]
<1>4. f[0] = EmptyLedger
  <2>1. 1 .. 0 = {} /\ 1 .. 0 \in SUBSET (1 .. Len(order))
    OBVIOUS
  <2>2. g[1 .. 0] = EmptyLedger
    BY <1>2, <2>1, FoldsSteps DEF FoldAt
  <2> QED
    BY <1>1, <2>2
<1>5. ASSUME NEW n \in 1 .. Len(order)
      PROVE  f[n] = Taken(side, f[n - 1], order[n])
  <2>0. n \in Nat /\ n \in 1 .. n
    BY <1>1
  <2>s. \A i \in 1 .. n : i \in 1 .. Len(order)
    BY <1>1, <2>0
  <2>1. 1 .. n \in SUBSET (1 .. Len(order)) /\ 1 .. n # {} /\ n \in Nat
    BY <2>0, <2>s, Zenon
  <2>2. Max(1 .. n) = n
    <3>1. Max(1 .. n) \in 1 .. n /\ \A y \in 1 .. n : Max(1 .. n) >= y
      BY <2>1, LastOf
    <3> QED
      BY <2>1, <3>1
  <2>3. (1 .. n) \ {n} = 1 .. (n - 1)
    BY <2>1
  <2>4. g[1 .. n] = Taken(side, g[1 .. (n - 1)], order[n])
    <3>1. g[1 .. n] = FoldAt(g, side, order, 1 .. n)
      BY <1>2, <2>1, FoldsSteps
    <3> QED
      BY <2>1, <2>2, <2>3, <3>1 DEF FoldAt
  <2> QED
    BY <2>4, <1>1
<1>6. Rounds(f, side, order) /\ Read(side) = f[Len(order)]
  BY <1>1, <1>3, <1>4, <1>5 DEF Rounds
<1> QED
  BY <1>6

-----------------------------------------------------------------------------
(* What records and ledgers are.                                           *)

Entries ==
    [kind : {"derivation", "validation", "supersession", "demotion", "removal"}, block : Derived \cup {NoOne},
     assisted : Assistants \cup {NoOne}, producer : Producers \cup {NoOne}, of : Derived \cup {NoOne},
     blocks : SUBSET Derived, held : SUBSET Sides]

\* The records that the operations write.
Stated ==
    {e \in Entries :
        /\ e.kind = "removal" => e.assisted = NoOne
        /\ e.kind # "removal" => e.block \in Derived
        /\ e.kind = "supersession" => e.of \in Derived}

Ledgers ==
    [superseded_by : [Derived -> Derived \cup {NoOne}], competing : [Derived -> SUBSET Derived],
     producers : [Derived -> Producers \cup {NoOne}], assistance : [Derived -> Producers \cup {NoOne}],
     demoted : SUBSET Derived, removed : SUBSET Derived]

LedgerTypeOK ==
    /\ order \in Seq(Stated)
    /\ members \in [Sides -> SUBSET Derived]
    /\ base \subseteq Derived

\* Lemma: a ledger has nothing to say at first.
LEMMA EmptyType == EmptyLedger \in Ledgers
BY DEF EmptyLedger, Ledgers

\* Lemma: what a record changes in a ledger, by its kind.
LEMMA AbsorbIs ==
    ASSUME NEW l \in Ledgers, NEW e \in Stated
    PROVE  LET m == Absorb(l, e)
           IN /\ m \in Ledgers
              /\ m.assistance = IF e.assisted = NoOne THEN l.assistance
                                ELSE [l.assistance EXCEPT ![e.block] = e.assisted]
              /\ m.producers = IF e.kind = "derivation" /\ e.producer # NoOne
                               THEN [l.producers EXCEPT ![e.block] = e.producer] ELSE l.producers
              /\ m.demoted = IF e.kind = "demotion" THEN l.demoted \cup {e.block} ELSE l.demoted
              /\ e.kind # "supersession" => m.superseded_by = l.superseded_by /\ m.competing = l.competing
              /\ e.kind = "supersession" =>
                    /\ m.superseded_by = [l.superseded_by EXCEPT ![e.of] = e.block]
                    /\ m.competing =
                         [l.competing EXCEPT ![e.of] =
                             IF l.superseded_by[e.of] \in {NoOne, e.block} THEN @
                             ELSE IF @ = {} THEN {l.superseded_by[e.of], e.block}
                             ELSE @ \cup {e.block}]
<1> DEFINE a == AbsorbAssistance(l, e)
           m == Absorb(l, e)
<1>e. /\ e \in Entries
      /\ e.kind \in {"derivation", "validation", "supersession", "demotion", "removal"}
      /\ e.kind = "removal" => e.assisted = NoOne
      /\ e.kind # "removal" => e.block \in Derived
      /\ e.kind = "supersession" => e.of \in Derived
      /\ e.assisted \in Producers \cup {NoOne} /\ e.producer \in Producers \cup {NoOne}
      /\ e.blocks \subseteq Derived
  BY SubsetsAssumption DEF Stated, Entries
<1>1. /\ a \in Ledgers
      /\ a.assistance = IF e.assisted = NoOne THEN l.assistance
                        ELSE [l.assistance EXCEPT ![e.block] = e.assisted]
      /\ a.producers = l.producers /\ a.demoted = l.demoted
      /\ a.superseded_by = l.superseded_by /\ a.competing = l.competing
  <2>1. CASE e.assisted = NoOne
    BY <2>1 DEF AbsorbAssistance
  <2>2. CASE e.assisted # NoOne
    <3>1. a = [l EXCEPT !.assistance = [l.assistance EXCEPT ![e.block] = e.assisted]]
      BY <2>2 DEF AbsorbAssistance, Ledgers
    <3>2. [l.assistance EXCEPT ![e.block] = e.assisted] \in [Derived -> Producers \cup {NoOne}]
      BY <1>e, <2>2 DEF Ledgers
    <3> QED
      BY <2>2, <3>1, <3>2 DEF Ledgers
  <2> QED
    BY <2>1, <2>2
<1> HIDE DEF a
<1>2. CASE e.kind = "derivation"
  <2>1. m = AbsorbDerivation(a, e)
    BY <1>2 DEF Absorb, a
  <2>2. CASE e.producer = NoOne
    BY <1>1, <1>2, <2>1, <2>2 DEF AbsorbDerivation
  <2>3. CASE e.producer # NoOne
    <3>1. m = [a EXCEPT !.producers = [a.producers EXCEPT ![e.block] = e.producer]]
      BY <2>1, <2>3, <1>1 DEF AbsorbDerivation, Ledgers
    <3>2. [a.producers EXCEPT ![e.block] = e.producer] \in [Derived -> Producers \cup {NoOne}]
      BY <1>e, <1>1, <1>2, <2>3 DEF Ledgers
    <3> HIDE DEF m
    <3>3. /\ m \in Ledgers /\ m.producers = [a.producers EXCEPT ![e.block] = e.producer]
          /\ m.assistance = a.assistance /\ m.demoted = a.demoted
          /\ m.superseded_by = a.superseded_by /\ m.competing = a.competing
      BY <1>1, <3>1, <3>2 DEF Ledgers
    <3> QED
      BY <1>1, <1>2, <2>3, <3>3 DEF m
  <2> QED
    BY <2>2, <2>3
<1>3. CASE e.kind = "supersession"
  <2> DEFINE c == IF l.superseded_by[e.of] \in {NoOne, e.block} THEN l.competing[e.of]
                  ELSE IF l.competing[e.of] = {} THEN {l.superseded_by[e.of], e.block}
                  ELSE l.competing[e.of] \cup {e.block}
  <2>1. m = AbsorbSupersession(a, e)
    BY <1>3 DEF Absorb, a
  <2>2. m = [a EXCEPT !.superseded_by = [l.superseded_by EXCEPT ![e.of] = e.block],
                      !.competing = [l.competing EXCEPT ![e.of] = c]]
    BY <1>1, <1>e, <1>3, <2>1 DEF AbsorbSupersession, Ledgers
  <2>3. [l.superseded_by EXCEPT ![e.of] = e.block] \in [Derived -> Derived \cup {NoOne}]
    BY <1>e, <1>3 DEF Ledgers
  <2>4. c \subseteq Derived
    BY <1>e, <1>3 DEF Ledgers
  <2>5. [l.competing EXCEPT ![e.of] = c] \in [Derived -> SUBSET Derived]
    BY <1>e, <1>3, <2>4 DEF Ledgers
  <2> HIDE DEF m, c
  <2>6. /\ m \in Ledgers /\ m.assistance = a.assistance /\ m.producers = l.producers /\ m.demoted = l.demoted
        /\ m.superseded_by = [l.superseded_by EXCEPT ![e.of] = e.block]
        /\ m.competing = [l.competing EXCEPT ![e.of] = c]
    BY <1>1, <2>2, <2>3, <2>5 DEF Ledgers
  <2> QED
    BY <1>1, <1>3, <2>6 DEF m, c
<1>4. CASE e.kind = "demotion"
  <2>1. m = [a EXCEPT !.demoted = a.demoted \cup {e.block}]
    BY <1>4, <1>1 DEF Absorb, a, Ledgers
  <2> HIDE DEF m
  <2>2. m \in Ledgers /\ m.demoted = a.demoted \cup {e.block} /\ m.assistance = a.assistance
        /\ m.producers = a.producers /\ m.superseded_by = a.superseded_by /\ m.competing = a.competing
    BY <1>1, <1>e, <1>4, <2>1 DEF Ledgers
  <2> QED
    BY <1>1, <1>4, <2>2 DEF m
<1>5. CASE e.kind = "removal"
  <2>1. m = [a EXCEPT !.removed = a.removed \cup e.blocks]
    BY <1>5, <1>1 DEF Absorb, a, Ledgers
  <2> HIDE DEF m
  <2>2. m \in Ledgers /\ m.demoted = a.demoted /\ m.assistance = a.assistance
        /\ m.producers = a.producers /\ m.superseded_by = a.superseded_by /\ m.competing = a.competing
    BY <1>1, <1>e, <2>1 DEF Ledgers
  <2> QED
    BY <1>1, <1>5, <2>2 DEF m
<1>6. CASE e.kind = "validation"
  <2>1. m = a
    BY <1>6 DEF Absorb, a
  <2> QED
    BY <1>1, <1>6, <2>1
<1> QED
  BY <1>e, <1>2, <1>3, <1>4, <1>5, <1>6

\* The blocks that the records E say replaced b.
Successors(E, b) == {e.block : e \in {x \in E : x.kind = "supersession" /\ x.of = b}}

\* What a ledger says of the records E, whatever order they came in.
SaysReplaced(l, E, b) ==
    /\ l.superseded_by[b] = NoOne <=> Successors(E, b) = {}
    /\ l.superseded_by[b] # NoOne => l.superseded_by[b] \in Successors(E, b)
    /\ l.competing[b] = {} => Successors(E, b) \subseteq {l.superseded_by[b]}
    /\ l.competing[b] # {} => l.competing[b] = Successors(E, b)

SaysMade(l, E, b) ==
    /\ l.producers[b] # NoOne => \E f \in E : f.block = b /\ f.producer = l.producers[b]
    /\ l.assistance[b] # NoOne => \E f \in E : f.block = b /\ f.assisted = l.assistance[b]
    /\ \A e \in E : e.block = b /\ e.kind = "derivation" /\ e.producer # NoOne => l.producers[b] # NoOne
    /\ \A e \in E : e.block = b /\ e.assisted # NoOne => l.assistance[b] # NoOne

Says(l, E) ==
    /\ l \in Ledgers
    /\ \A b \in Derived : SaysReplaced(l, E, b) /\ SaysMade(l, E, b)
    /\ l.demoted = {e.block : e \in {x \in E : x.kind = "demotion"}}

\* Lemma: an empty ledger says that nothing was recorded.
LEMMA SaysNothing == Says(EmptyLedger, {})
<1>1. \A b \in Derived : /\ EmptyLedger.superseded_by[b] = NoOne /\ EmptyLedger.competing[b] = {}
                         /\ EmptyLedger.producers[b] = NoOne /\ EmptyLedger.assistance[b] = NoOne
  BY DEF EmptyLedger
<1>2. \A b : Successors({}, b) = {}
  BY DEF Successors
<1>3. EmptyLedger.demoted = {}
  BY DEF EmptyLedger
<1> QED
  BY <1>1, <1>2, <1>3, EmptyType DEF Says, SaysReplaced, SaysMade

\* Lemma: one more record.
LEMMA SaysMore ==
    ASSUME NEW l, NEW E \in SUBSET Stated, Says(l, E), NEW e \in Stated
    PROVE  Says(Absorb(l, e), E \cup {e})
<1> DEFINE m == Absorb(l, e)
           F == E \cup {e}
<1>1. /\ m \in Ledgers /\ l \in Ledgers
      /\ m.assistance = IF e.assisted = NoOne THEN l.assistance
                        ELSE [l.assistance EXCEPT ![e.block] = e.assisted]
      /\ m.producers = IF e.kind = "derivation" /\ e.producer # NoOne
                       THEN [l.producers EXCEPT ![e.block] = e.producer] ELSE l.producers
      /\ m.demoted = IF e.kind = "demotion" THEN l.demoted \cup {e.block} ELSE l.demoted
      /\ e.kind # "supersession" => m.superseded_by = l.superseded_by /\ m.competing = l.competing
  BY AbsorbIs DEF Says
<1>2. e.kind = "supersession" =>
        /\ m.superseded_by = [l.superseded_by EXCEPT ![e.of] = e.block]
        /\ m.competing =
             [l.competing EXCEPT ![e.of] =
                 IF l.superseded_by[e.of] \in {NoOne, e.block} THEN @
                 ELSE IF @ = {} THEN {l.superseded_by[e.of], e.block}
                 ELSE @ \cup {e.block}]
  BY AbsorbIs DEF Says
<1>e. /\ e.kind # "removal" => e.block \in Derived /\ e.block # NoOne
      /\ e.kind = "removal" => e.assisted = NoOne
      /\ e.kind = "supersession" => e.of \in Derived
  BY NoOneAssumption DEF Stated
<1>l. /\ l.superseded_by \in [Derived -> Derived \cup {NoOne}] /\ l.competing \in [Derived -> SUBSET Derived]
      /\ l.producers \in [Derived -> Producers \cup {NoOne}] /\ l.assistance \in [Derived -> Producers \cup {NoOne}]
  BY <1>1 DEF Ledgers
<1> HIDE DEF m
<1>3. ASSUME NEW b \in Derived PROVE SaysReplaced(m, F, b)
  <2>l. SaysReplaced(l, E, b)
    BY DEF Says
  <2>1. CASE e.kind # "supersession" \/ e.of # b
    <3>1. Successors(F, b) = Successors(E, b)
      BY <2>1 DEF Successors
    <3>2. m.superseded_by[b] = l.superseded_by[b] /\ m.competing[b] = l.competing[b]
      BY <2>1, <1>1, <1>2, <1>e, <1>l
    <3> QED
      BY <2>l, <3>1, <3>2 DEF SaysReplaced
  <2>2. CASE e.kind = "supersession" /\ e.of = b
    <3> DEFINE held == l.superseded_by[b]
               c == l.competing[b]
    <3>1. Successors(F, b) = Successors(E, b) \cup {e.block}
      BY <2>2 DEF Successors
    <3>2. /\ m.superseded_by[b] = e.block
          /\ m.competing[b] = IF held \in {NoOne, e.block} THEN c
                              ELSE IF c = {} THEN {held, e.block} ELSE c \cup {e.block}
      BY <2>2, <1>2, <1>e, <1>l
    <3>3. e.block # NoOne
      BY <2>2, <1>e
    <3> HIDE DEF held, c, F
    <3>4. /\ held = NoOne <=> Successors(E, b) = {}
          /\ held # NoOne => held \in Successors(E, b)
          /\ c = {} => Successors(E, b) \subseteq {held}
          /\ c # {} => c = Successors(E, b)
      BY <2>l DEF SaysReplaced, held, c
    <3>5. CASE held = NoOne
      BY <3>1, <3>2, <3>3, <3>4, <3>5 DEF SaysReplaced
    <3>6. CASE held = e.block
      BY <3>1, <3>2, <3>3, <3>4, <3>6 DEF SaysReplaced
    <3>7. CASE held \notin {NoOne, e.block} /\ c = {}
      BY <3>1, <3>2, <3>3, <3>4, <3>7 DEF SaysReplaced
    <3>8. CASE held \notin {NoOne, e.block} /\ c # {}
      BY <3>1, <3>2, <3>3, <3>4, <3>8 DEF SaysReplaced
    <3> QED
      BY <3>5, <3>6, <3>7, <3>8
  <2> QED
    BY <2>1, <2>2
<1>4. ASSUME NEW b \in Derived PROVE SaysMade(m, F, b)
  <2>l. SaysMade(l, E, b)
    BY DEF Says
  <2>1. m.producers[b] = IF e.kind = "derivation" /\ e.producer # NoOne /\ e.block = b
                         THEN e.producer ELSE l.producers[b]
    BY <1>1, <1>l, <1>e
  <2>2. m.assistance[b] = IF e.assisted # NoOne /\ e.block = b THEN e.assisted ELSE l.assistance[b]
    BY <1>1, <1>l, <1>e
  <2> QED
    BY <2>l, <2>1, <2>2 DEF SaysMade
<1>5. m.demoted = {f.block : f \in {x \in F : x.kind = "demotion"}}
  <2>1. l.demoted = {f.block : f \in {x \in E : x.kind = "demotion"}}
    BY DEF Says
  <2> QED
    BY <2>1, <1>1
<1> HIDE DEF F
<1>6. Says(m, F)
  BY <1>1, <1>3, <1>4, <1>5 DEF Says
<1> QED
  BY <1>6 DEF m, F

\* Lemma: the ledger of a history says what the records it holds say.
LEMMA ReadSays ==
    ASSUME LedgerTypeOK, NEW side
    PROVE  Says(Read(side), Held(side)) /\ Held(side) \subseteq Stated
<1>1. order \in Seq(Stated) /\ Len(order) \in Nat /\ DOMAIN order = 1 .. Len(order)
  BY DEF LedgerTypeOK
<1>2. PICK f : Rounds(f, side, order) /\ Read(side) = f[Len(order)]
  BY <1>1, ReadIs
<1> DEFINE Among(n) == {e \in {order[i] : i \in 1 .. n} : side \in e.held}
           Bad == {n \in 0 .. Len(order) : ~ Says(f[n], Among(n))}
<1>3. Bad = {}
  <2> SUFFICES ASSUME Bad # {} PROVE FALSE
    OBVIOUS
  <2>1. PICK n \in Bad : \A y \in Bad : n <= y
    <3>1. Bad \in SUBSET Nat
      BY <1>1
    <3> HIDE DEF Bad
    <3> QED
      BY <3>1, LeastOf
  <2>2. n # 0
    <3>1. Among(0) = {}
      OBVIOUS
    <3>2. f[0] = EmptyLedger
      BY <1>2 DEF Rounds
    <3>3. ~ Says(f[n], Among(n))
      BY <2>1
    <3> HIDE DEF Among
    <3>4. Says(f[0], Among(0))
      BY <3>1, <3>2, SaysNothing
    <3> QED
      BY <3>3, <3>4
  <2>b. n \in 0 .. Len(order)
    OBVIOUS
  <2>3. n \in 1 .. Len(order) /\ n - 1 \in 0 .. Len(order) /\ n - 1 \notin Bad
    <3> HIDE DEF Bad
    <3> QED
      BY <1>1, <2>1, <2>b, <2>2
  <2>4. Says(f[n - 1], Among(n - 1))
    <3> HIDE DEF Among
    <3> QED
      BY <2>3
  <2>5. f[n] = Taken(side, f[n - 1], order[n]) /\ order[n] \in Stated
    BY <1>1, <1>2, <2>3 DEF Rounds
  <2>6. Among(n) = IF side \in order[n].held THEN Among(n - 1) \cup {order[n]} ELSE Among(n - 1)
    <3>1. {order[i] : i \in 1 .. n} = {order[i] : i \in 1 .. (n - 1)} \cup {order[n]}
      <4>1. \A i : i \in 1 .. n <=> i \in 1 .. (n - 1) \/ i = n
        BY <1>1, <2>3
      <4> QED
        BY <4>1
    <3> QED
      BY <3>1
  <2>7. Among(n - 1) \in SUBSET Stated
    BY <1>1, <2>3
  <2> HIDE DEF Among
  <2>8. Says(f[n], Among(n))
    BY <2>4, <2>5, <2>6, <2>7, SaysMore DEF Taken
  <2> QED
    BY <2>1, <2>8
<1>4. Among(Len(order)) = Held(side)
  <2>1. \A e : e \in ToSet(order) <=> \E i \in 1 .. Len(order) : e = order[i]
    BY <1>1 DEF ToSet
  <2>2. \A e : e \in Held(side) <=> e \in ToSet(order) /\ side \in e.held
    BY DEF Held
  <2>3. \A e : e \in Among(Len(order)) <=> (\E i \in 1 .. Len(order) : e = order[i]) /\ side \in e.held
    OBVIOUS
  <2> HIDE DEF Among
  <2>4. \A e : e \in Among(Len(order)) <=> e \in Held(side)
    BY <2>1, <2>2, <2>3
  <2> QED
    BY <2>4, Zenon
<1> HIDE DEF Among
<1>5. Says(f[Len(order)], Among(Len(order)))
  <2>1. Len(order) \in 0 .. Len(order) /\ Len(order) \notin Bad
    <3> HIDE DEF Bad
    <3> QED
      BY <1>1, <1>3
  <2> QED
    BY <2>1
<1>6. Held(side) \subseteq Stated
  BY <1>1 DEF Held, ToSet
<1> QED
  BY <1>2, <1>4, <1>5, <1>6


-----------------------------------------------------------------------------
(* The ledger's invariant.                                                 *)

\* Lemma: the records that the operations write, before they are placed.
LEMMA StatedRecords ==
    ASSUME NEW side \in Sides, NEW b \in Derived
    PROVE  /\ \A p \in Producers : Derivation(side, b, p) \in Stated
           /\ Validation(side, b) \in Stated /\ Demotion(side, b) \in Stated
           /\ \A c \in Derived : Supersession(side, b, c) \in Stated
           /\ \A S \in SUBSET Derived : Removal(side, S) \in Stated
BY DEF Derivation, Validation, Demotion, Supersession, Removal, Record, Stated, Entries

\* Lemma: and as blocks.
LEMMA StatedBlocks ==
    ASSUME NEW e \in Stated, NEW assisted \in Assistants \cup {NoOne}
    PROVE  ProvenanceBlock(e, assisted) \in Stated
BY DEF ProvenanceBlock, Stated, Entries

\* Lemma: a record that is placed leaves a sequence of records.
LEMMA PlacedStated ==
    ASSUME NEW s \in Seq(Stated), NEW e \in Stated, NEW t \in Placed(s, e)
    PROVE  t \in Seq(Stated)
<1>1. PICK i \in 1 .. Len(s) + 1 : t = InsertAt(s, i, e)
  BY DEF Placed
<1> QED
  BY <1>1 DEF InsertAt

\* Lemma: writes.
LEMMA WriteStated ==
    ASSUME order \in Seq(Stated), NEW e \in Stated, NEW f \in Stated, Write(e) \/ WriteBoth(e, f)
    PROVE  order' \in Seq(Stated)
<1>1. CASE Write(e)
  BY <1>1, PlacedStated DEF Write
<1>2. CASE WriteBoth(e, f)
  <2>1. PICK s \in Placed(order, e) : order' \in Placed(s, f)
    BY <1>2 DEF WriteBoth
  <2>2. s \in Seq(Stated)
    BY PlacedStated
  <2> QED
    BY <2>1, <2>2, PlacedStated
<1> QED
  BY <1>1, <1>2

\* Lemma: the type of the ledger's state is inductive.
LEMMA LedgerTypeKept ==
    ASSUME LedgerTypeOK, [LedgerNext]_ledgerVars
    PROVE  LedgerTypeOK'
<1> USE DEF LedgerTypeOK
<1>1. CASE UNCHANGED ledgerVars
  BY <1>1 DEF ledgerVars
<1>2. CASE Merge
  <2>1. ASSUME NEW i \in DOMAIN order
        PROVE  [order[i] EXCEPT !.held = IF "theirs" \in @ THEN Sides ELSE @] \in Stated
    <3>1. order[i] \in Stated
      OBVIOUS
    <3> QED
      BY <3>1 DEF Stated, Entries
  <2>2. DOMAIN order = 1 .. Len(order) /\ Len(order) \in Nat
    OBVIOUS
  <2>3. order' \in Seq(Stated)
    BY <1>2, <2>1, <2>2 DEF Merge
  <2>4. members' \in [Sides -> SUBSET Derived] /\ base' \subseteq Derived
    BY <1>2 DEF Merge, Sides
  <2> QED
    BY <2>3, <2>4
<1>3. ASSUME NEW side \in Sides, NEW p \in Producers, DropByProducer(side, p)
      PROVE  LedgerTypeOK'
  <2> DEFINE present == MadeBy(Read(side), p) \cap members[side]
  <2>1. present \in SUBSET Derived
    OBVIOUS
  <2>2. Write(Removal(side, present))
    BY <1>3 DEF DropByProducer
  <2>3. Removal(side, present) \in Stated
    BY <2>1 DEF Removal, Record, Stated, Entries
  <2>4. order' \in Seq(Stated)
    BY <2>2, <2>3, WriteStated
  <2> QED
    BY <1>3, <2>4 DEF DropByProducer
<1>4. ASSUME NEW side \in Sides, NEW b \in Derived, NEW assisted \in Assistants \cup {NoOne},
             NEW p \in Producers, CommitDerived(side, b, p, assisted)
      PROVE  LedgerTypeOK'
  <2>1. order' \in Seq(Stated)
    BY <1>4, StatedRecords, StatedBlocks, WriteStated DEF CommitDerived
  <2> QED
    BY <1>4, <2>1 DEF CommitDerived
<1>5. ASSUME NEW side \in Sides, NEW b \in Derived, NEW assisted \in Assistants \cup {NoOne},
             NEW c \in Derived, Supersede(side, b, c, assisted)
      PROVE  LedgerTypeOK'
  <2>1. order' \in Seq(Stated)
    BY <1>5, StatedRecords, StatedBlocks, WriteStated DEF Supersede
  <2> QED
    BY <1>5, <2>1 DEF Supersede
<1>6. ASSUME NEW side \in Sides, NEW b \in Derived, NEW assisted \in Assistants \cup {NoOne},
             Demote(side, b, assisted)
      PROVE  LedgerTypeOK'
  <2>1. order' \in Seq(Stated)
    BY <1>6, StatedRecords, StatedBlocks, WriteStated DEF Demote
  <2> QED
    BY <1>6, <2>1 DEF Demote
<1> QED
  BY <1>1, <1>2, <1>3, <1>4, <1>5, <1>6 DEF LedgerNext

\* Theorem: every record of the provenance modules is one that the operations write, of derived
\* blocks that exist, and so the fold that reads them never meets another.
THEOREM LedgerTypeCorrect == LedgerSpec => []LedgerTypeOK
<1>1. LedgerInit => LedgerTypeOK
  BY SubsetsAssumption DEF LedgerInit, LedgerTypeOK
<1>2. LedgerTypeOK /\ [LedgerNext]_ledgerVars => LedgerTypeOK'
  BY LedgerTypeKept
<1> QED
  BY <1>1, <1>2, PTL DEF LedgerSpec

\* Lemma: the successors that a ledger knows are those its records name.
LEMMA SuccessorsSaid ==
    ASSUME LedgerTypeOK, NEW side, NEW b \in Derived
    PROVE  SuccessorsOf(Read(side), b) = Successors(Held(side), b)
<1>1. SaysReplaced(Read(side), Held(side), b)
  BY ReadSays DEF Says
<1> QED
  BY <1>1 DEF SaysReplaced, SuccessorsOf

\* Theorem: Ledger._absorb: the successors of a block are the ones some record names, whichever of
\* them the order of the digests puts first and however many histories have replaced it.
THEOREM SuccessorsAlwaysExact == LedgerSpec => []SuccessorsExact
<1>1. LedgerTypeOK => SuccessorsExact
  <2> SUFFICES ASSUME LedgerTypeOK, NEW side \in Sides, NEW b \in Derived
               PROVE  SuccessorsOf(Read(side), b) =
                        {e.block : e \in {x \in Held(side) : x.kind = "supersession" /\ x.of = b}}
    BY DEF SuccessorsExact
  <2> QED
    BY SuccessorsSaid DEF Successors
<1> QED
  BY <1>1, LedgerTypeCorrect, PTL

\* Theorem: Ledger.made_by: a block that a record says a producer made is found, unless another
\* record about that block names somebody else.
THEOREM MakersAlwaysReached == LedgerSpec => []MadeByReach
<1>1. LedgerTypeOK => MadeByReach
  <2> SUFFICES ASSUME LedgerTypeOK, NEW side \in Sides, NEW e \in Held(side), NEW p \in Producers,
                      e.kind = "derivation", p \in {e.producer, e.assisted},
                      e.block \notin MadeBy(Read(side), p)
               PROVE  \E f \in Held(side) :
                          f.block = e.block /\ {f.producer, f.assisted} \cap Producers \notin {{}, {p}}
    BY DEF MadeByReach
  <2> DEFINE l == Read(side)
             b == e.block
  <2>1. /\ l \in Ledgers /\ e \in Stated /\ Held(side) \subseteq Stated
        /\ \A c \in Derived : SaysMade(l, Held(side), c)
    BY ReadSays DEF Says
  <2> HIDE DEF l
  <2>2. b \in Derived /\ SaysMade(l, Held(side), b)
    BY <2>1 DEF Stated
  <2>3. p # NoOne /\ NoOne \notin Producers
    BY NoOneAssumption
  <2>4. p \notin {l.producers[b], l.assistance[b]}
    BY <2>2 DEF MadeBy, l
  <2>5. l.producers[b] \in Producers \cup {NoOne} /\ l.assistance[b] \in Producers \cup {NoOne}
    BY <2>1, <2>2 DEF Ledgers
  <2>6. CASE p = e.producer
    <3>1. l.producers[b] # NoOne
      BY <2>2, <2>3, <2>6 DEF SaysMade
    <3>2. PICK f \in Held(side) : f.block = b /\ f.producer = l.producers[b]
      BY <2>2, <3>1 DEF SaysMade
    <3>3. f.producer \in Producers /\ f.producer # p
      BY <2>4, <2>5, <3>1, <3>2
    <3> QED
      BY <3>2, <3>3
  <2>7. CASE p = e.assisted
    <3>1. l.assistance[b] # NoOne
      BY <2>2, <2>3, <2>7 DEF SaysMade
    <3>2. PICK f \in Held(side) : f.block = b /\ f.assisted = l.assistance[b]
      BY <2>2, <3>1 DEF SaysMade
    <3>3. f.assisted \in Producers /\ f.assisted # p
      BY <2>4, <2>5, <3>1, <3>2
    <3> QED
      BY <3>2, <3>3
  <2> QED
    BY <2>6, <2>7
<1> QED
  BY <1>1, LedgerTypeCorrect, PTL

-----------------------------------------------------------------------------
(* The scan.                                                               *)

\* A step repeated, round by round.
Repetition(g, X, d, first, step) ==
    g \in [0 .. d -> X] /\ g[0] = first /\ \A n \in 1 .. d : g[n] = step[g[n - 1]]

\* Lemma: a step can be repeated any number of times.
LEMMA Repeated ==
    ASSUME NEW d \in Nat, NEW X, NEW first \in X, NEW step \in [X -> X]
    PROVE  \E g : Repetition(g, X, d, first, step)
<1> USE DEF Repetition
<1> DEFINE Repeats(g, m) == Repetition(g, X, m, first, step)
           Bad == {m \in Nat : ~ \E g : Repeats(g, m)}
<1> SUFFICES ASSUME Bad # {} PROVE FALSE
  <2>1. d \notin Bad
    OBVIOUS
  <2>2. \E g : Repeats(g, d)
    BY <2>1
  <2> QED
    BY <2>2
<1>1. PICK n \in Bad : \A y \in Bad : n <= y
  <2>1. Bad \in SUBSET Nat
    OBVIOUS
  <2> HIDE DEF Bad
  <2> QED
    BY <2>1, LeastOf
<1>2. n # 0
  <2>1. Repeats([m \in 0 .. 0 |-> first], 0)
    OBVIOUS
  <2> HIDE DEF Repeats
  <2> QED
    BY <2>1
<1>3. n - 1 \in Nat /\ n - 1 \notin Bad /\ n \in Nat
  <2> HIDE DEF Repeats
  <2>1. n \in Nat
    OBVIOUS
  <2> HIDE DEF Bad
  <2> QED
    BY <1>1, <1>2, <2>1
<1>4. PICK g : Repeats(g, n - 1)
  <2> HIDE DEF Repeats
  <2> QED
    BY <1>3
<1> DEFINE h == [m \in 0 .. n |-> IF m = n THEN step[g[n - 1]] ELSE g[m]]
<1>5. \A m \in 0 .. n : m = n \/ m \in 0 .. n - 1
  BY <1>3
<1>6. g[n - 1] \in X /\ step[g[n - 1]] \in X
  BY <1>3, <1>4
<1>7. h \in [0 .. n -> X]
  BY <1>4, <1>5, <1>6
<1>8. h[0] = first
  BY <1>2, <1>3, <1>4
<1>9. ASSUME NEW m \in 1 .. n PROVE h[m] = step[h[m - 1]]
  <2>1. m \in 0 .. n /\ m - 1 \in 0 .. n /\ m - 1 # n /\ (m = n \/ m \in 1 .. n - 1)
    BY <1>3
  <2> QED
    BY <1>3, <1>4, <2>1
<1> HIDE DEF h
<1>10. Repeats(h, n)
  BY <1>7, <1>8, <1>9
<1> HIDE DEF Repeats
<1> QED
  BY <1>1, <1>10

\* The members that a query looks at, and those of them it names.
Searched(side, q) == {b \in Derived : b \in Readable(side, q) /\ PassesFilters(b, q)}

\* One round of the expansion, and one step of the distance it is meant to cover.
NextRound(S, before) ==
    LET discovered == {t \in S \ before.reachable : \E b \in before.frontier : t \in Relations[b]}
    IN [reachable |-> before.reachable \cup discovered, frontier |-> discovered]
NextNear(S, near) == near \cup {t \in S : \E b \in near : t \in Relations[b]}

\* The rounds, and the distances, from the blocks a query names.
ExpandRounds(g, S, d, named) ==
    /\ g[0] = [reachable |-> named, frontier |-> named]
    /\ \A n \in 1 .. d : g[n] = NextRound(S, g[n - 1])
NearSteps(g, S, d, named) ==
    /\ g[0] = named
    /\ \A n \in 1 .. d : g[n] = NextNear(S, g[n - 1])

\* Lemma: the rounds exist, and the expansion is the last of them.
LEMMA ExpandIs ==
    ASSUME LedgerTypeOK, NEW side \in Sides, NEW q \in Queries, NEW named \in SUBSET Derived
    PROVE  \E g : ExpandRounds(g, Searched(side, q), q.expand_depth, named)
                  /\ Expand(side, q, named) = g[q.expand_depth].reachable
<1> DEFINE d == q.expand_depth
           S == Searched(side, q)
           X == [reachable : SUBSET Derived, frontier : SUBSET Derived]
           F(r) == [n \in 0 .. d |->
                    IF n = 0 THEN [reachable |-> named, frontier |-> named]
                    ELSE LET before == r[n - 1]
                             discovered == {t \in Readable(side, q) \ before.reachable :
                                                PassesFilters(t, q) /\ \E b \in before.frontier : t \in Relations[b]}
                         IN [reachable |-> before.reachable \cup discovered, frontier |-> discovered]]
           Round == CHOOSE r : r = F(r)
<1>1. d \in Nat /\ S \subseteq Derived /\ Readable(side, q) \subseteq Derived
  BY QueriesAssumption DEF Searched, Readable, ModulesToSearch, LedgerTypeOK
<1>2. Expand(side, q, named) = Round[d].reachable
  BY DEF Expand
<1>3. ASSUME NEW before
      PROVE  LET discovered == {t \in Readable(side, q) \ before.reachable :
                                    PassesFilters(t, q) /\ \E b \in before.frontier : t \in Relations[b]}
             IN [reachable |-> before.reachable \cup discovered, frontier |-> discovered] = NextRound(S, before)
  <2>1. {t \in Readable(side, q) \ before.reachable :
            PassesFilters(t, q) /\ \E b \in before.frontier : t \in Relations[b]}
        = {t \in S \ before.reachable : \E b \in before.frontier : t \in Relations[b]}
    BY <1>1 DEF Searched
  <2> QED
    BY <2>1 DEF NextRound
<1> HIDE DEF S
<1>4. \A r : F(r) = [n \in 0 .. d |-> IF n = 0 THEN [reachable |-> named, frontier |-> named]
                                      ELSE NextRound(S, r[n - 1])]
  BY <1>3
<1> HIDE DEF F
<1> DEFINE step == [r \in X |-> NextRound(S, r)]
<1>5. \A r \in X : NextRound(S, r) \in X
  BY <1>1 DEF NextRound
<1>6. step \in [X -> X] /\ \A r \in X : step[r] = NextRound(S, r)
  BY <1>5
<1>7. [reachable |-> named, frontier |-> named] \in X
  OBVIOUS
<1> HIDE DEF X, step
<1>8. PICK g : Repetition(g, X, d, [reachable |-> named, frontier |-> named], step)
  BY <1>1, <1>6, <1>7, Repeated
<1>9. ASSUME NEW n \in 1 .. d PROVE g[n] = NextRound(S, g[n - 1])
  <2>1. n - 1 \in 0 .. d
    BY <1>1
  <2> QED
    BY <1>6, <1>8, <2>1 DEF Repetition
<1>10. g = F(g)
  <2>1. \A n \in 0 .. d : n = 0 \/ n \in 1 .. d
    BY <1>1
  <2>2. \A n \in 0 .. d : g[n] = IF n = 0 THEN [reachable |-> named, frontier |-> named]
                                 ELSE NextRound(S, g[n - 1])
    BY <1>8, <1>9, <2>1 DEF Repetition
  <2>3. g = [n \in 0 .. d |-> IF n = 0 THEN [reachable |-> named, frontier |-> named]
                              ELSE NextRound(S, g[n - 1])]
    BY <1>8, <2>2 DEF Repetition
  <2> QED
    BY <1>4, <2>3
<1>11. Round = F(Round)
  BY <1>10
<1> HIDE DEF Round
<1>12. Round = [n \in 0 .. d |-> IF n = 0 THEN [reachable |-> named, frontier |-> named]
                                 ELSE NextRound(S, Round[n - 1])]
  BY <1>4, <1>11
<1>13. ExpandRounds(Round, S, d, named)
  <2>1. 0 \in 0 .. d /\ \A n \in 1 .. d : n \in 0 .. d /\ n # 0
    BY <1>1
  <2>2. Round[0] = [reachable |-> named, frontier |-> named]
    BY <1>12, <2>1
  <2>3. \A n \in 1 .. d : Round[n] = NextRound(S, Round[n - 1])
    BY <1>12, <2>1
  <2> QED
    BY <2>2, <2>3 DEF ExpandRounds
<1> QED
  BY <1>2, <1>13 DEF S

\* Lemma: only derived blocks are reached.
LEMMA ExpandIsDerived ==
    ASSUME LedgerTypeOK, NEW side \in Sides, NEW q \in Queries, NEW named \in SUBSET Derived
    PROVE  Expand(side, q, named) \subseteq Derived
<1> DEFINE d == q.expand_depth
           S == Searched(side, q)
<1>1. d \in Nat /\ S \subseteq Derived
  BY QueriesAssumption DEF Searched
<1>2. PICK g : ExpandRounds(g, S, d, named) /\ Expand(side, q, named) = g[d].reachable
  BY ExpandIs
<1>3. \A n \in 0 .. d : g[n].reachable \subseteq Derived
  <2> DEFINE Bad == {n \in 0 .. d : ~ (g[n].reachable \subseteq Derived)}
  <2> HIDE DEF S, d
  <2> SUFFICES ASSUME Bad # {} PROVE FALSE
    OBVIOUS
  <2>1. PICK n \in Bad : \A y \in Bad : n <= y
    <3>1. Bad \in SUBSET Nat
      BY <1>1
    <3> HIDE DEF Bad
    <3> QED
      BY <3>1, LeastOf
  <2>2. n # 0
    BY <1>2 DEF ExpandRounds
  <2>3. n \in 1 .. d /\ n - 1 \in 0 .. d /\ n - 1 \notin Bad
    <3>1. n \in 0 .. d
      OBVIOUS
    <3> HIDE DEF Bad
    <3> QED
      BY <1>1, <2>1, <2>2, <3>1
  <2>4. g[n - 1].reachable \subseteq Derived
    BY <2>3
  <2>5. g[n] = NextRound(S, g[n - 1])
    BY <1>2, <2>3 DEF ExpandRounds
  <2>6. g[n].reachable \subseteq Derived
    <3> DEFINE before == g[n - 1]
    <3> HIDE DEF before
    <3> QED
      BY <1>1, <2>4, <2>5 DEF NextRound, before
  <2> QED
    BY <2>6
<1> QED
  BY <1>1, <1>2, <1>3

\* Lemma: what the rounds reach is what lies within the distance, for a round starts from what the
\* round before discovered and nothing new is next to anything older.
LEMMA RoundsReach ==
    ASSUME NEW d \in Nat, NEW S, NEW named, NEW g, NEW near,
           ExpandRounds(g, S, d, named), NearSteps(near, S, d, named)
    PROVE  g[d].reachable = near[d]
<1> DEFINE Reaches(n) ==
             /\ g[n].reachable = near[n] /\ g[n].frontier \subseteq g[n].reachable
             /\ \A t \in S, b \in g[n].reachable \ g[n].frontier : t \in Relations[b] => t \in g[n].reachable
           Bad == {n \in 0 .. d : ~ Reaches(n)}
<1>1. Bad = {}
  <2> SUFFICES ASSUME Bad # {} PROVE FALSE
    OBVIOUS
  <2>1. PICK n \in Bad : \A y \in Bad : n <= y
    <3>1. Bad \in SUBSET Nat
      OBVIOUS
    <3> HIDE DEF Bad
    <3> QED
      BY <3>1, LeastOf
  <2>2. n # 0
    <3>1. Reaches(0)
      BY DEF ExpandRounds, NearSteps
    <3> HIDE DEF Reaches
    <3> QED
      BY <3>1
  <2>3. n \in 1 .. d /\ Reaches(n - 1)
    <3> HIDE DEF Reaches
    <3>1. n \in 0 .. d
      OBVIOUS
    <3>2. n \in 1 .. d /\ n - 1 \in 0 .. d /\ n - 1 \notin Bad
      <4> HIDE DEF Bad
      <4> QED
        BY <2>1, <2>2, <3>1
    <3> QED
      BY <3>2
  <2> DEFINE before == g[n - 1]
             discovered == {t \in S \ before.reachable : \E b \in before.frontier : t \in Relations[b]}
  <2>4. g[n].reachable = before.reachable \cup discovered /\ g[n].frontier = discovered
    <3>1. g[n] = NextRound(S, before)
      BY <2>3 DEF ExpandRounds
    <3> HIDE DEF before
    <3> QED
      BY <3>1 DEF NextRound
  <2>5. near[n] = near[n - 1] \cup {t \in S : \E b \in near[n - 1] : t \in Relations[b]}
    BY <2>3 DEF NearSteps, NextNear
  <2>6. \A t \in S, b \in before.reachable : t \in Relations[b] => t \in before.reachable \cup discovered
    BY <2>3
  <2>7. g[n].reachable = near[n]
    BY <2>3, <2>4, <2>5, <2>6
  <2>8. Reaches(n)
    BY <2>4, <2>6, <2>7
  <2> HIDE DEF Reaches
  <2> QED
    BY <2>8
<1>2. Reaches(d)
  <2> HIDE DEF Reaches
  <2>1. d \in 0 .. d /\ d \notin Bad
    <3>1. d \in 0 .. d
      OBVIOUS
    <3> HIDE DEF Bad
    <3> QED
      BY <1>1, <3>1
  <2> QED
    BY <2>1
<1> QED
  BY <1>2

\* Lemma: the distances exist, and so what a query asks for is what its rounds reach and no record
\* that the history holds replaced or demoted.
LEMMA WantedIs ==
    ASSUME LedgerTypeOK, NEW side \in Sides, NEW q \in Queries
    PROVE  LET named == {b \in Searched(side, q) : IF q.mode = "exact" THEN b = q.block
                                                   ELSE q.text = {} \/ ContentTerms(q.text) \cap Words[b] # {}}
               near == IF q.mode = "exact" THEN named ELSE Expand(side, q, named)
           IN Wanted(side, q) =
                IF q.include_superseded THEN near
                ELSE {b \in near : Successors(Held(side), b) = {} /\ b \notin Read(side).demoted}
<1> DEFINE d == q.expand_depth
           S == Searched(side, q)
           named == {b \in S : IF q.mode = "exact" THEN b = q.block
                               ELSE q.text = {} \/ ContentTerms(q.text) \cap Words[b] # {}}
           F(r) == [n \in 0 .. d |->
                    IF n = 0 THEN named
                    ELSE r[n - 1] \cup {t \in S : \E b \in r[n - 1] : t \in Relations[b]}]
           Near == CHOOSE r : r = F(r)
           near == IF q.mode = "exact" THEN named ELSE Near[d]
           replaced == {e.of : e \in {x \in Held(side) : x.kind = "supersession"}}
           demoted == {e.block : e \in {x \in Held(side) : x.kind = "demotion"}}
<1>1. Wanted(side, q) = IF q.include_superseded THEN near ELSE near \ (replaced \cup demoted)
  BY DEF Wanted, Searched
<1>2. d \in Nat /\ S \subseteq Derived
  BY QueriesAssumption DEF Searched
<1>3. named \subseteq Derived
  BY <1>2
<1> HIDE DEF S, named
<1>4. \A r : F(r) = [n \in 0 .. d |-> IF n = 0 THEN named ELSE NextNear(S, r[n - 1])]
  BY DEF NextNear
<1> HIDE DEF F
<1> DEFINE step == [r \in SUBSET Derived |-> NextNear(S, r)]
<1>5. step \in [SUBSET Derived -> SUBSET Derived] /\ \A r \in SUBSET Derived : step[r] = NextNear(S, r)
  BY <1>2 DEF NextNear
<1> HIDE DEF step
<1>6. PICK g : Repetition(g, SUBSET Derived, d, named, step)
  BY <1>2, <1>3, <1>5, Repeated
<1>7. ASSUME NEW n \in 1 .. d PROVE g[n] = NextNear(S, g[n - 1])
  <2>1. n - 1 \in 0 .. d
    BY <1>2
  <2> QED
    BY <1>5, <1>6, <2>1 DEF Repetition
<1>8. g = F(g)
  <2>1. \A n \in 0 .. d : n = 0 \/ n \in 1 .. d
    BY <1>2
  <2>2. \A n \in 0 .. d : g[n] = IF n = 0 THEN named ELSE NextNear(S, g[n - 1])
    BY <1>6, <1>7, <2>1 DEF Repetition
  <2>3. g = [n \in 0 .. d |-> IF n = 0 THEN named ELSE NextNear(S, g[n - 1])]
    BY <1>6, <2>2 DEF Repetition
  <2> QED
    BY <1>4, <2>3
<1>9. Near = F(Near)
  BY <1>8
<1> HIDE DEF Near
<1>10. Near = [n \in 0 .. d |-> IF n = 0 THEN named ELSE NextNear(S, Near[n - 1])]
  BY <1>4, <1>9
<1>11. NearSteps(Near, S, d, named)
  <2>1. 0 \in 0 .. d /\ \A n \in 1 .. d : n \in 0 .. d /\ n # 0
    BY <1>2
  <2>2. Near[0] = named
    BY <1>10, <2>1
  <2>3. \A n \in 1 .. d : Near[n] = NextNear(S, Near[n - 1])
    BY <1>10, <2>1
  <2> QED
    BY <2>2, <2>3 DEF NearSteps
<1>12. Expand(side, q, named) = Near[d]
  <2>1. PICK h : ExpandRounds(h, S, d, named) /\ Expand(side, q, named) = h[d].reachable
    BY <1>3, ExpandIs DEF S
  <2> HIDE DEF d
  <2> QED
    BY <1>2, <1>11, <2>1, RoundsReach
<1>13. \A b : b \in replaced <=> Successors(Held(side), b) # {}
  BY DEF Successors
<1>14. demoted = Read(side).demoted
  BY ReadSays DEF Says
<1>15. near \ (replaced \cup demoted) = {b \in near : Successors(Held(side), b) = {} /\ b \notin Read(side).demoted}
  <2> HIDE DEF near, replaced, demoted
  <2> QED
    BY <1>13, <1>14
<1>16. near = IF q.mode = "exact" THEN named ELSE Expand(side, q, named)
  BY <1>12
<1> HIDE DEF near, replaced, demoted
<1> QED
  BY <1>1, <1>15, <1>16 DEF S, named

\* Lemma: a term is covered exactly when it is carried, or when none is asked for.
LEMMA MatchingIs ==
    ASSUME LedgerTypeOK, NEW side \in Sides, NEW q \in Queries
    PROVE  Matching(side, q) = {b \in Searched(side, q) : q.text = {} \/ ContentTerms(q.text) \cap Words[b] # {}}
<1> DEFINE terms == ContentTerms(q.text)
<1>1. IsFiniteSet(q.text) /\ terms \subseteq q.text /\ (terms = {} <=> q.text = {})
  BY QueriesAssumption DEF ContentTerms
<1> HIDE DEF terms
<1>2. ASSUME NEW b PROVE Coverage(terms, b) > 0 <=> q.text = {} \/ terms \cap Words[b] # {}
  <2>1. IsFiniteSet(terms \cap Words[b])
    <3>1. terms \cap Words[b] \in SUBSET q.text
      BY <1>1
    <3> QED
      BY <1>1, <3>1, FS_Subset
  <2>2. Cardinality(terms \cap Words[b]) \in Nat
    BY <2>1, FS_CardinalityType
  <2>3. Cardinality(terms \cap Words[b]) = 0 <=> terms \cap Words[b] = {}
    BY <2>1, FS_EmptySet
  <2> QED
    BY <1>1, <2>2, <2>3 DEF Coverage, SearchableText
<1>3. Readable(side, q) \subseteq Derived
  BY DEF Readable, ModulesToSearch, LedgerTypeOK
<1> QED
  BY <1>2, <1>3 DEF Matching, Searched, terms


\* Lemma: the candidates that the scan does not hold back are what the query asks for.
LEMMA CandidatesWanted ==
    ASSUME LedgerTypeOK, NEW side \in Sides, NEW q \in Queries
    PROVE  LET candidates == IF q.mode = "exact" THEN Exact(side, q) ELSE Expand(side, q, Matching(side, q))
           IN HeldBack(side, q, candidates) = Wanted(side, q) /\ Wanted(side, q) \subseteq Derived
<1> DEFINE S == Searched(side, q)
           named == {b \in S : IF q.mode = "exact" THEN b = q.block
                               ELSE q.text = {} \/ ContentTerms(q.text) \cap Words[b] # {}}
           near == IF q.mode = "exact" THEN named ELSE Expand(side, q, named)
           candidates == IF q.mode = "exact" THEN Exact(side, q) ELSE Expand(side, q, Matching(side, q))
<1>1. Readable(side, q) \subseteq Derived /\ S \subseteq Derived
  BY DEF Searched, Readable, ModulesToSearch, LedgerTypeOK
<1>2. candidates = near /\ near \subseteq Derived
  <2>1. CASE q.mode = "exact"
    BY <1>1, <2>1 DEF Exact, Searched
  <2>2. CASE q.mode # "exact"
    <3>1. named = {b \in S : q.text = {} \/ ContentTerms(q.text) \cap Words[b] # {}}
      BY <2>2
    <3>2. named = Matching(side, q)
      BY <3>1, MatchingIs
    <3>3. Expand(side, q, named) \subseteq Derived
      BY <1>1, ExpandIsDerived
    <3> QED
      BY <2>2, <3>2, <3>3
  <2> QED
    BY <2>1, <2>2
<1>3. Wanted(side, q) = IF q.include_superseded THEN near
                        ELSE {b \in near : Successors(Held(side), b) = {} /\ b \notin Read(side).demoted}
  BY WantedIs
<1>4. \A b \in Derived : Read(side).superseded_by[b] = NoOne <=> Successors(Held(side), b) = {}
  BY ReadSays DEF Says, SaysReplaced
<1> HIDE DEF near, candidates
<1>5. HeldBack(side, q, candidates) = Wanted(side, q)
  BY <1>2, <1>3, <1>4 DEF HeldBack, IsAccessible
<1> QED
  BY <1>2, <1>3, <1>5 DEF candidates

-----------------------------------------------------------------------------
(* The order of the matches.                                               *)

\* Lemma: a score is a natural number.
LEMMA ScoreNat ==
    ASSUME NEW q \in Queries, NEW matched, NEW b
    PROVE  Score(q, matched, b) \in Nat
<1> DEFINE terms == ContentTerms(q.text)
<1>1. terms \cap Words[b] \in SUBSET q.text /\ IsFiniteSet(q.text)
  BY QueriesAssumption DEF ContentTerms
<1>2. Cardinality(terms \cap Words[b]) \in Nat
  BY <1>1, FS_Subset, FS_CardinalityType
<1> QED
  BY <1>2 DEF Score, Coverage, SearchableText

\* Lemma: one of two blocks comes before the other, and the order is transitive.
LEMMA BeforeOrders ==
    ASSUME NEW q \in Queries, NEW matched
    PROVE  /\ \A b \in Derived : ~ Before(q, matched, b, b)
           /\ \A b, c \in Derived : b # c => Before(q, matched, b, c) \/ Before(q, matched, c, b)
           /\ \A b, c, e \in Derived :
                Before(q, matched, b, c) /\ Before(q, matched, c, e) => Before(q, matched, b, e)
<1>1. \A b : Score(q, matched, b) \in Nat
  BY ScoreNat
<1>2. \A b \in Derived : DigestRank[b] \in Nat
  BY RankAssumption
<1>3. \A b, c \in Derived : DigestRank[b] = DigestRank[c] => b = c
  BY RankAssumption
<1> QED
  BY <1>1, <1>2, <1>3 DEF Before

\* Where a candidate comes among the candidates.
Place(q, matched, W) == [b \in W |-> Cardinality({c \in W : Before(q, matched, c, b)})]

\* Lemma: the places of the candidates are the first ones, one for each.
LEMMA Places ==
    ASSUME NEW q \in Queries, NEW matched, NEW W \in SUBSET Derived
    PROVE  LET place == Place(q, matched, W)  n == Cardinality(W)
           IN /\ n \in Nat /\ place \in [W -> 0 .. n - 1]
              /\ \A b, c \in W : Before(q, matched, b, c) => place[b] < place[c]
              /\ \A b, c \in W : place[b] = place[c] => b = c
              /\ \A i \in 0 .. n - 1 : \E b \in W : place[b] = i
<1> DEFINE place == Place(q, matched, W)
           n == Cardinality(W)
           Ahead(b) == {c \in W : Before(q, matched, c, b)}
<1>f. IsFiniteSet(W) /\ n \in Nat
  BY NoOneAssumption, FS_Subset, FS_CardinalityType
<1>1. \A b \in W : place[b] = Cardinality(Ahead(b))
  BY DEF Place
<1>2. ASSUME NEW b \in W PROVE IsFiniteSet(Ahead(b)) /\ Cardinality(Ahead(b)) \in Nat /\ Cardinality(Ahead(b)) < n
  <2>1. Ahead(b) \in SUBSET W /\ Ahead(b) # W
    BY BeforeOrders
  <2> HIDE DEF Ahead
  <2>2. IsFiniteSet(Ahead(b)) /\ Cardinality(Ahead(b)) <= n /\ (n = Cardinality(Ahead(b)) => W = Ahead(b))
    BY <1>f, <2>1, FS_Subset
  <2>3. Cardinality(Ahead(b)) \in Nat
    BY <2>2, FS_CardinalityType
  <2> QED
    BY <1>f, <2>1, <2>2, <2>3
<1>3. ASSUME NEW b \in W, NEW c \in W, Before(q, matched, b, c)
      PROVE  place[b] < place[c]
  <2>1. Ahead(b) \in SUBSET Ahead(c) /\ b \in Ahead(c) /\ b \notin Ahead(b)
    BY <1>3, BeforeOrders
  <2> HIDE DEF Ahead
  <2>2. Cardinality(Ahead(b)) <= Cardinality(Ahead(c)) /\ Cardinality(Ahead(c)) # Cardinality(Ahead(b))
    BY <1>2, <2>1, FS_Subset
  <2>3. place[b] = Cardinality(Ahead(b)) /\ place[c] = Cardinality(Ahead(c))
    BY <1>1
  <2>4. Cardinality(Ahead(b)) \in Nat /\ Cardinality(Ahead(c)) \in Nat
    BY <1>2
  <2> QED
    BY <2>2, <2>3, <2>4
<1> HIDE DEF Ahead
<1>4. place \in [W -> 0 .. n - 1]
  <2>1. \A b \in W : Cardinality(Ahead(b)) \in 0 .. n - 1
    BY <1>2, <1>f
  <2>2. place = [b \in W |-> place[b]]
    BY DEF Place
  <2> QED
    BY <1>1, <2>1, <2>2
<1> HIDE DEF place
<1>5. ASSUME NEW b \in W, NEW c \in W, place[b] = place[c]
      PROVE  b = c
  <2>1. ~ Before(q, matched, b, c) /\ ~ Before(q, matched, c, b)
    <3>1. place[b] \in Int /\ place[c] \in Int
      BY <1>4
    <3> QED
      BY <1>3, <1>5, <3>1
  <2> QED
    BY <2>1, BeforeOrders
<1>6. \A i \in 0 .. n - 1 : \E b \in W : place[b] = i
  <2>1. place \in Injection(W, 0 .. n - 1)
    BY <1>4, <1>5 DEF Injection, IsInjective
  <2>2. IsFiniteSet(0 .. n - 1) /\ Cardinality(0 .. n - 1) = n
    BY <1>f, FS_Interval
  <2>3. place \in Surjection(W, 0 .. n - 1)
    BY <2>1, <2>2, FS_Injection
  <2> QED
    BY <2>3 DEF Surjection
<1> QED
  BY <1>f, <1>3, <1>4, <1>5, <1>6 DEF place

\* Lemma: the candidates in order, each at its place.
LEMMA OrderedIs ==
    ASSUME NEW q \in Queries, NEW matched, NEW W \in SUBSET Derived
    PROVE  LET s == Ordered(q, matched, W)  n == Cardinality(W)
           IN /\ n \in Nat /\ s \in [1 .. n -> W]
              /\ \A b \in W : \E i \in 1 .. n : s[i] = b
              /\ \A i, j \in 1 .. n : s[i] = s[j] => i = j
              /\ \A i, j \in 1 .. n : Before(q, matched, s[i], s[j]) => i < j
<1> DEFINE s == Ordered(q, matched, W)
           n == Cardinality(W)
           place == Place(q, matched, W)
<1>1. /\ n \in Nat /\ place \in [W -> 0 .. n - 1]
      /\ \A b, c \in W : Before(q, matched, b, c) => place[b] < place[c]
      /\ \A b, c \in W : place[b] = place[c] => b = c
      /\ \A i \in 0 .. n - 1 : \E b \in W : place[b] = i
  BY Places
<1>2. s = [i \in 1 .. n |-> CHOOSE b \in W : place[b] = i - 1]
  BY DEF Ordered, Place
<1> HIDE DEF s, n, place
<1>3. ASSUME NEW i \in 1 .. n PROVE s[i] \in W /\ place[s[i]] = i - 1
  <2>1. i - 1 \in 0 .. n - 1
    BY <1>1
  <2>2. \E b \in W : place[b] = i - 1
    BY <1>1, <2>1
  <2>3. s[i] = CHOOSE b \in W : place[b] = i - 1
    BY <1>2
  <2> QED
    BY <2>2, <2>3
<1>4. s \in [1 .. n -> W]
  BY <1>2, <1>3
<1>5. ASSUME NEW b \in W PROVE \E i \in 1 .. n : s[i] = b
  <2>1. place[b] \in 0 .. n - 1
    BY <1>1
  <2>2. place[b] + 1 \in 1 .. n /\ (place[b] + 1) - 1 = place[b]
    BY <1>1, <2>1
  <2>3. s[place[b] + 1] \in W /\ place[s[place[b] + 1]] = place[b]
    BY <1>3, <2>2
  <2> QED
    BY <1>1, <2>2, <2>3
<1>6. \A i, j \in 1 .. n : s[i] = s[j] => i = j
  <2> SUFFICES ASSUME NEW i \in 1 .. n, NEW j \in 1 .. n, s[i] = s[j] PROVE i = j
    OBVIOUS
  <2>1. i - 1 = j - 1
    BY <1>3
  <2> QED
    BY <1>1, <2>1
<1>7. \A i, j \in 1 .. n : Before(q, matched, s[i], s[j]) => i < j
  <2> SUFFICES ASSUME NEW i \in 1 .. n, NEW j \in 1 .. n, Before(q, matched, s[i], s[j]) PROVE i < j
    OBVIOUS
  <2>1. place[s[i]] < place[s[j]]
    BY <1>1, <1>3
  <2>2. i - 1 < j - 1
    BY <1>3, <2>1
  <2> QED
    BY <1>1, <2>2
<1> QED
  BY <1>1, <1>4, <1>5, <1>6, <1>7 DEF s, n

\* Theorem: scan: whatever the records are and in whatever order they are folded, a query returns
\* what it asks for up to its limit, says when the limit left something out, and leaves nothing out
\* for what carries fewer of the terms.
THEOREM ScanAlwaysExact == LedgerSpec => []ScanExact
<1>1. LedgerTypeOK => ScanExact
  <2> SUFFICES ASSUME LedgerTypeOK, NEW q \in Queries
               PROVE  LET bundle == Scan("ours", q)
                          found == ToSet(bundle.matches)
                          wanted == Wanted("ours", q)
                          matched == Matching("ours", q)
                      IN /\ found \subseteq wanted
                         /\ bundle.truncated = (Cardinality(wanted) > q.limit)
                         /\ Cardinality(found) = IF bundle.truncated THEN q.limit ELSE Cardinality(wanted)
                         /\ \A b \in wanted \ found, c \in found : ~ Before(q, matched, b, c)
    BY DEF ScanExact
  <2> DEFINE bundle == Scan("ours", q)
             found == ToSet(bundle.matches)
             W == Wanted("ours", q)
             matched == Matching("ours", q)
             s == Ordered(q, matched, W)
             n == Cardinality(W)
             k == IF n < q.limit THEN n ELSE q.limit
  <2>1. W \in SUBSET Derived
        /\ HeldBack("ours", q, IF q.mode = "exact" THEN Exact("ours", q) ELSE Expand("ours", q, matched)) = W
    BY CandidatesWanted DEF Sides
  <2>2. /\ n \in Nat /\ s \in [1 .. n -> W]
        /\ \A b \in W : \E i \in 1 .. n : s[i] = b
        /\ \A i, j \in 1 .. n : s[i] = s[j] => i = j
        /\ \A i, j \in 1 .. n : Before(q, matched, s[i], s[j]) => i < j
    BY <2>1, OrderedIs
  <2>3. bundle = [matches |-> SubSeq(s, 1, IF Len(s) < q.limit THEN Len(s) ELSE q.limit),
                  truncated |-> Len(s) > q.limit]
    BY <2>1 DEF Scan
  <2>4. q.limit \in Nat
    BY QueriesAssumption
  <2> HIDE DEF bundle, W, matched, s, n
  <2>5. Len(s) = n /\ s \in Seq(W)
    BY <2>2
  <2>6. bundle.truncated = (n > q.limit) /\ bundle.matches = SubSeq(s, 1, k)
    BY <2>3, <2>5
  <2>7. k \in Nat /\ k <= n
    BY <2>2, <2>4
  <2> HIDE DEF k
  <2>8. SubSeq(s, 1, k) = [i \in 1 .. k |-> s[i]]
    BY <2>5, <2>7
  <2>9. found = {s[i] : i \in 1 .. k}
    BY <2>6, <2>8 DEF ToSet
  <2> HIDE DEF found
  <2>10. \A i \in 1 .. k : i \in 1 .. n
    BY <2>2, <2>7
  <2>11. found \subseteq W
    BY <2>2, <2>9, <2>10
  <2>12. Cardinality(found) = k
    <3> DEFINE h == [i \in 1 .. k |-> s[i]]
    <3>1. h \in [1 .. k -> found] /\ \A i \in 1 .. k : h[i] = s[i]
      BY <2>9
    <3>2. \A i, j \in 1 .. k : h[i] = h[j] => i = j
      BY <3>1, <2>2, <2>10
    <3>3. \A b \in found : \E i \in 1 .. k : h[i] = b
      BY <3>1, <2>9
    <3> HIDE DEF h
    <3>4. h \in Bijection(1 .. k, found)
      BY <3>1, <3>2, <3>3 DEF Bijection, Injection, Surjection, IsInjective
    <3> QED
      BY <2>7, <3>4, FS_CountingElements DEF ExistsBijection
  <2>13. ASSUME NEW b \in W \ found, NEW c \in found
         PROVE  ~ Before(q, matched, b, c)
    <3>1. PICK i \in 1 .. n : s[i] = b
      BY <2>2
    <3>2. PICK j \in 1 .. k : s[j] = c
      BY <2>9
    <3>3. i \notin 1 .. k
      BY <2>9, <3>1
    <3>4. ~ (i < j)
      BY <2>2, <2>7, <3>3
    <3> QED
      BY <2>2, <2>10, <3>1, <3>2, <3>4
  <2>14. Cardinality(found) = IF bundle.truncated THEN q.limit ELSE n
    <3>1. CASE n > q.limit
      <4>1. k = q.limit
        BY <2>2, <2>4, <3>1 DEF k
      <4>2. bundle.truncated = TRUE
        BY <2>6, <3>1, Zenon
      <4> QED
        BY <2>12, <4>1, <4>2
    <3>2. CASE ~ (n > q.limit)
      <4>1. k = n
        BY <2>2, <2>4, <3>2 DEF k
      <4>2. bundle.truncated = FALSE
        <5>1. (n > q.limit) = FALSE
          BY <3>2
        <5> QED
          BY <2>6, <5>1
      <4> QED
        BY <2>12, <4>1, <4>2
    <3> QED
      BY <3>1, <3>2
  <2>15. bundle.truncated = (n > q.limit)
    BY <2>6
  <2> HIDE DEF k
  <2> QED
    BY <2>11, <2>13, <2>14, <2>15 DEF found, bundle, W, matched, n
<1> QED
  BY <1>1, LedgerTypeCorrect, PTL
-----------------------------------------------------------------------------
(* Powers of two.                                                          *)

\* What doubling makes of one.
IsPower(p) ==
    p \in Nat /\ \A T \in SUBSET Nat : 1 \in T /\ (\A x \in T : 2 * x \in T) => p \in T

\* Lemma: one is a power of two, and so is twice a power.
LEMMA PowerTwice == IsPower(1) /\ \A p : IsPower(p) => IsPower(2 * p)
<1>1. IsPower(1)
  BY DEF IsPower
<1>2. ASSUME NEW p, IsPower(p) PROVE IsPower(2 * p)
  <2>1. p \in Nat /\ 2 * p \in Nat
    BY <1>2 DEF IsPower
  <2>2. ASSUME NEW T \in SUBSET Nat, 1 \in T, \A x \in T : 2 * x \in T PROVE 2 * p \in T
    BY <1>2, <2>2 DEF IsPower
  <2> QED
    BY <2>1, <2>2 DEF IsPower
<1> QED
  BY <1>1, <1>2

\* Lemma: every other one is twice a power, and what holds of one and is kept by doubling holds.
LEMMA PowerHalf ==
    ASSUME NEW p, IsPower(p)
    PROVE  p \in Nat /\ p >= 1 /\ (p = 1 \/ \E r : IsPower(r) /\ p = 2 * r)
<1> DEFINE T == {x \in Nat : IsPower(x) /\ x >= 1 /\ (x = 1 \/ \E r : IsPower(r) /\ x = 2 * r)}
<1>1. 1 \in T
  BY PowerTwice
<1>2. ASSUME NEW x \in T PROVE 2 * x \in T
  BY PowerTwice
<1>3. T \in SUBSET Nat
  OBVIOUS
<1> HIDE DEF T
<1>4. p \in T
  BY <1>1, <1>2, <1>3 DEF IsPower
<1> QED
  BY <1>4 DEF T

\* Lemma: the next power is twice as large at least, and is divided by every one before it.
LEMMA PowerGap ==
    ASSUME NEW x, NEW y, IsPower(x), IsPower(y)
    PROVE  /\ x < y => 2 * x <= y
           /\ x <= y => \E q : IsPower(q) /\ y = x * q
<1> DEFINE T == {z \in Nat : /\ IsPower(z)
                             /\ \A w : IsPower(w) => /\ w < z => 2 * w <= z
                                                     /\ w <= z => \E q : IsPower(q) /\ z = w * q}
<1>p. \A w : IsPower(w) => w \in Nat /\ w >= 1 /\ (w = 1 \/ \E r : IsPower(r) /\ w = 2 * r)
  BY PowerHalf
<1>1. 1 \in T
  <2>1. ASSUME NEW w, IsPower(w) PROVE ~ (w < 1) /\ (w <= 1 => \E q : IsPower(q) /\ 1 = w * q)
    <3>1. w \in Nat /\ w >= 1
      BY <1>p, <2>1
    <3>2. w <= 1 => w = 1 /\ 1 = w * 1
      BY <3>1
    <3> QED
      BY <3>1, <3>2, PowerTwice
  <2> QED
    BY <2>1, PowerTwice
<1>2. ASSUME NEW z \in T PROVE 2 * z \in T
  <2>z. z \in Nat /\ IsPower(z) /\ z >= 1 /\ IsPower(2 * z) /\ 2 * z \in Nat
    BY <1>p, PowerTwice
  <2>t. \A w : IsPower(w) => (w < z => 2 * w <= z) /\ (w <= z => \E q : IsPower(q) /\ z = w * q)
    OBVIOUS
  <2> HIDE DEF T
  <2>1. ASSUME NEW w, IsPower(w)
        PROVE  /\ w < 2 * z => 2 * w <= 2 * z
               /\ w <= 2 * z => \E q : IsPower(q) /\ 2 * z = w * q
    <3>1. CASE w = 1
      BY <2>z, <3>1
    <3>2. ASSUME NEW r, IsPower(r), w = 2 * r
          PROVE  /\ w < 2 * z => 2 * w <= 2 * z
                 /\ w <= 2 * z => \E q : IsPower(q) /\ 2 * z = w * q
      <4>1. r \in Nat /\ r >= 1 /\ w \in Nat
        BY <1>p, <3>2
      <4>2. w < 2 * z => r < z
        BY <2>z, <3>2, <4>1
      <4>3. r < z => 2 * r <= z
        BY <2>t, <3>2
      <4>4. w < 2 * z => 2 * w <= 2 * z
        BY <2>z, <3>2, <4>1, <4>2, <4>3
      <4>5. ASSUME w <= 2 * z PROVE \E q : IsPower(q) /\ 2 * z = w * q
        <5>1. r <= z
          BY <2>z, <3>2, <4>1, <4>5
        <5>2. PICK q : IsPower(q) /\ z = r * q
          BY <2>t, <3>2, <5>1
        <5>3. q \in Nat
          BY <1>p, <5>2
        <5>4. 2 * (r * q) = (2 * r) * q
          BY <4>1, <5>3
        <5> QED
          BY <3>2, <5>2, <5>4
      <4> QED
        BY <4>4, <4>5
    <3> QED
      BY <1>p, <2>1, <3>1, <3>2
  <2>2. 2 * z \in T
    BY <2>z, <2>1 DEF T
  <2> QED
    BY <2>2
<1>3. T \in SUBSET Nat
  OBVIOUS
<1> HIDE DEF T
<1>4. y \in T
  BY <1>1, <1>2, <1>3 DEF IsPower
<1> QED
  BY <1>4 DEF T

\* Lemma: the powers up to a number reach it.
LEMMA PowersAre ==
    ASSUME NEW n \in Nat
    PROVE  \E g \in [0 .. n -> Nat] :
             /\ PowersOfTwo(n) = {g[k] : k \in 0 .. n}
             /\ g[0] = 1 /\ \A k \in 1 .. n : g[k] = 2 * g[k - 1]
<1> DEFINE F(r) == [k \in 0 .. n |-> IF k = 0 THEN 1 ELSE 2 * r[k - 1]]
           Power == CHOOSE r : r = F(r)
           step == [x \in Nat |-> 2 * x]
<1>1. PowersOfTwo(n) = {Power[k] : k \in 0 .. n}
  BY DEF PowersOfTwo
<1>s. step \in [Nat -> Nat] /\ (\A x \in Nat : step[x] = 2 * x) /\ 1 \in Nat
  OBVIOUS
<1> HIDE DEF step
<1>2. PICK g : Repetition(g, Nat, n, 1, step)
  BY <1>s, Repeated
<1>3. g = F(g)
  <2>1. ASSUME NEW k \in 1 .. n PROVE k - 1 \in 0 .. n /\ g[k - 1] \in Nat /\ g[k] = 2 * g[k - 1]
    <3>1. k - 1 \in 0 .. n
      OBVIOUS
    <3>2. g[k - 1] \in Nat /\ g[k] = step[g[k - 1]]
      BY <1>2, <3>1 DEF Repetition
    <3> QED
      BY <1>s, <3>1, <3>2
  <2>2. \A k \in 0 .. n : k = 0 \/ k \in 1 .. n
    OBVIOUS
  <2>3. g[0] = 1 /\ g \in [0 .. n -> Nat]
    BY <1>2 DEF Repetition
  <2> QED
    BY <2>1, <2>2, <2>3
<1>4. Power = F(Power)
  BY <1>3
<1> HIDE DEF Power
<1>5. Power[0] = 1 /\ \A k \in 1 .. n : k \in 0 .. n /\ Power[k] = 2 * Power[k - 1]
  <2>1. \A k \in 1 .. n : k \in 0 .. n /\ k # 0
    OBVIOUS
  <2> QED
    BY <1>4, <2>1
<1>6. \A k \in 0 .. n : Power[k] \in Nat
  <2> DEFINE Bad == {k \in 0 .. n : Power[k] \notin Nat}
  <2> SUFFICES ASSUME Bad # {} PROVE FALSE
    OBVIOUS
  <2>1. PICK k \in Bad : \A y \in Bad : k <= y
    <3>1. Bad \in SUBSET Nat
      OBVIOUS
    <3> HIDE DEF Bad
    <3> QED
      BY <3>1, LeastOf
  <2>2. k \in 0 .. n /\ k # 0 /\ Power[k] \notin Nat
    BY <1>5
  <2>3. k - 1 \in 0 .. n /\ k - 1 \notin Bad
    <3> HIDE DEF Bad
    <3> QED
      BY <2>1, <2>2
  <2> QED
    BY <1>5, <2>2, <2>3
<1>7. Power \in [0 .. n -> Nat]
  <2>1. Power = [k \in 0 .. n |-> Power[k]]
    BY <1>4
  <2> QED
    BY <1>6, <2>1
<1> QED
  BY <1>1, <1>5, <1>7

\* Lemma: the split of two leaves or more is a power, short of their number and at least half of it.
LEMMA SplitIs ==
    ASSUME NEW n \in Nat, n >= 2
    PROVE  IsPower(Split(n)) /\ Split(n) \in 1 .. n - 1 /\ 2 * Split(n) >= n
<1>1. PICK g \in [0 .. n -> Nat] :
        /\ PowersOfTwo(n) = {g[k] : k \in 0 .. n}
        /\ g[0] = 1 /\ \A k \in 1 .. n : g[k] = 2 * g[k - 1]
  BY PowersAre
<1> DEFINE Good(k) == IsPower(g[k]) /\ g[k] >= k + 1
           Bad == {k \in 0 .. n : ~ Good(k)}
<1>2. Bad = {}
  <2> SUFFICES ASSUME Bad # {} PROVE FALSE
    OBVIOUS
  <2>1. PICK k \in Bad : \A y \in Bad : k <= y
    <3>1. Bad \in SUBSET Nat
      OBVIOUS
    <3> HIDE DEF Bad
    <3> QED
      BY <3>1, LeastOf
  <2>2. k \in 0 .. n /\ k # 0
    BY <1>1, PowerTwice
  <2>3. k \in 1 .. n /\ k - 1 \in 0 .. n /\ k - 1 \notin Bad
    <3> HIDE DEF Bad
    <3> QED
      BY <2>1, <2>2
  <2>4. Good(k - 1) /\ g[k] = 2 * g[k - 1] /\ g[k - 1] \in Nat
    BY <1>1, <2>3
  <2>5. Good(k)
    BY <2>3, <2>4, PowerTwice
  <2> QED
    BY <2>5
<1>3. \A k \in 0 .. n : IsPower(g[k]) /\ g[k] \in Nat /\ g[k] >= k + 1
  BY <1>1, <1>2
<1> HIDE DEF Bad, Good
<1> DEFINE Over == {k \in 0 .. n : g[k] >= n}
<1>4. PICK k \in Over : \A y \in Over : k <= y
  <2>1. n \in Over
    BY <1>3
  <2>2. Over \in SUBSET Nat
    OBVIOUS
  <2> HIDE DEF Over
  <2> QED
    BY <2>1, <2>2, LeastOf
<1>5. k \in 1 .. n /\ g[k] >= n
  BY <1>1
<1>6. k - 1 \in 0 .. n /\ k - 1 \notin Over
  <2> HIDE DEF Over
  <2> QED
    BY <1>4, <1>5
<1>7. g[k - 1] < n /\ 2 * g[k - 1] >= n /\ g[k - 1] \in PowersOfTwo(n)
  <2>1. g[k - 1] \in Nat /\ g[k] = 2 * g[k - 1] /\ g[k - 1] \in PowersOfTwo(n)
    BY <1>1, <1>5, <1>6
  <2>2. ~ (g[k - 1] >= n)
    BY <1>6
  <2> QED
    BY <1>5, <2>1, <2>2
<1>8. Split(n) \in PowersOfTwo(n) /\ Split(n) < n /\ 2 * Split(n) >= n
  BY <1>7 DEF Split
<1>9. IsPower(Split(n)) /\ Split(n) \in Nat /\ Split(n) >= 1
  <2>1. PICK j \in 0 .. n : Split(n) = g[j]
    BY <1>1, <1>8
  <2> QED
    BY <1>3, <2>1
<1> QED
  BY <1>8, <1>9

\* Lemma: a perfect tree is halved.
LEMMA SplitPerfect ==
    ASSUME NEW r, IsPower(r)
    PROVE  Split(2 * r) = r
<1>1. r \in Nat /\ r >= 1
  BY PowerHalf
<1>2. IsPower(Split(2 * r)) /\ Split(2 * r) \in 1 .. 2 * r - 1 /\ 2 * Split(2 * r) >= 2 * r
  BY <1>1, SplitIs
<1> DEFINE p == Split(2 * r)
<1> HIDE DEF p
<1>3. IsPower(p) /\ p \in Nat /\ p < 2 * r /\ p >= r
  BY <1>1, <1>2 DEF p
<1>4. r < p => 2 * r <= p
  BY <1>3, PowerGap
<1> QED
  BY <1>1, <1>3, <1>4 DEF p

-----------------------------------------------------------------------------
(* The tree and its paths.                                                 *)

\* Lemma: a stretch of two leaves or more is split into shorter ones.
LEMMA SplitSpan ==
    ASSUME NEW n \in Nat, NEW a \in 0 .. n, NEW b \in 0 .. n, b > a + 1
    PROVE  LET m == a + Split(b - a)
           IN m \in 0 .. n /\ a < m /\ m < b /\ <<a, m>> \in Spans(n) /\ <<m, b>> \in Spans(n)
<1>1. b - a \in Nat /\ b - a >= 2
  OBVIOUS
<1>2. Split(b - a) \in 1 .. (b - a) - 1
  BY <1>1, SplitIs
<1> DEFINE m == a + Split(b - a)
<1>3. m \in 0 .. n /\ a < m /\ m < b
  BY <1>2
<1> HIDE DEF m
<1>4. <<a, m>> \in Spans(n) /\ <<m, b>> \in Spans(n)
  BY <1>3 DEF Spans
<1> QED
  BY <1>3, <1>4 DEF m

\* The hash of a stretch, from those of shorter ones.
HashStep(r, leaves, span) ==
    IF span[2] <= span[1] + 1 THEN HashLeaf(leaves[span[2]])
    ELSE LET split == span[1] + Split(span[2] - span[1])
         IN HashNode(r[<<span[1], split>>], r[<<split, span[2]>>])

\* The hashes of the stretches of up to d leaves.
HashesUpTo(g, leaves, d) ==
    g = [span \in Spans(Len(leaves)) |->
           IF span[2] > span[1] + d THEN HashLeaf(leaves[span[2]]) ELSE HashStep(g, leaves, span)]

\* Lemma: the hash of a stretch looks at shorter ones only.
LEMMA HashStepAgree ==
    ASSUME NEW leaves, Len(leaves) \in Nat, NEW g, NEW h, NEW span \in Spans(Len(leaves)),
           \A x \in Spans(Len(leaves)) : x[2] - x[1] < span[2] - span[1] => g[x] = h[x]
    PROVE  HashStep(g, leaves, span) = HashStep(h, leaves, span)
<1> DEFINE n == Len(leaves)
<1>1. PICK a \in 0 .. n, b \in 0 .. n : span = <<a, b>>
  BY DEF Spans
<1>2. CASE b <= a + 1
  BY <1>1, <1>2 DEF HashStep
<1>3. CASE b > a + 1
  <2> DEFINE m == a + Split(b - a)
  <2>1. m \in 0 .. n /\ a < m /\ m < b /\ <<a, m>> \in Spans(n) /\ <<m, b>> \in Spans(n)
    BY <1>3, SplitSpan
  <2> HIDE DEF m
  <2>2. g[<<a, m>>] = h[<<a, m>>]
    <3> DEFINE x == <<a, m>>
    <3>1. x \in Spans(n) /\ x[2] - x[1] < span[2] - span[1]
      BY <1>1, <2>1
    <3> HIDE DEF x
    <3>2. g[x] = h[x]
      BY <3>1
    <3> QED
      BY <3>2 DEF x
  <2>3. g[<<m, b>>] = h[<<m, b>>]
    <3> DEFINE x == <<m, b>>
    <3>1. x \in Spans(n) /\ x[2] - x[1] < span[2] - span[1]
      BY <1>1, <2>1
    <3> HIDE DEF x
    <3>2. g[x] = h[x]
      BY <3>1
    <3> QED
      BY <3>2 DEF x
  <2>4. \A r : HashStep(r, leaves, span) = HashNode(r[<<a, m>>], r[<<m, b>>])
    BY <1>1, <1>3 DEF HashStep, m
  <2> QED
    BY <2>2, <2>3, <2>4
<1> QED
  BY <1>2, <1>3

\* Lemma: the hashes exist.
LEMMA HashesExist ==
    ASSUME NEW leaves, Len(leaves) \in Nat, NEW d \in Nat
    PROVE  \E g : HashesUpTo(g, leaves, d)
<1> DEFINE S == Spans(Len(leaves))
           Bad == {m \in Nat : ~ \E g : HashesUpTo(g, leaves, m)}
<1>s. \A x \in S : x[1] \in Nat /\ x[2] \in Nat
  BY DEF Spans
<1> SUFFICES ASSUME Bad # {} PROVE FALSE
  OBVIOUS
<1>1. PICK n \in Bad : \A y \in Bad : n <= y
  <2>1. Bad \in SUBSET Nat
    OBVIOUS
  <2> HIDE DEF Bad
  <2> QED
    BY <2>1, LeastOf
<1>2. n # 0
  <2> DEFINE g == [span \in S |-> HashLeaf(leaves[span[2]])]
  <2>1. \A span \in S : span[2] <= span[1] + 0 => HashStep(g, leaves, span) = HashLeaf(leaves[span[2]])
    BY <1>s DEF HashStep
  <2>2. HashesUpTo(g, leaves, 0)
    <3>1. \A span \in S : g[span] = IF span[2] > span[1] + 0 THEN HashLeaf(leaves[span[2]])
                                    ELSE HashStep(g, leaves, span)
      <4> SUFFICES ASSUME NEW span \in S
                   PROVE  g[span] = IF span[2] > span[1] + 0 THEN HashLeaf(leaves[span[2]])
                                    ELSE HashStep(g, leaves, span)
        OBVIOUS
      <4>1. g[span] = HashLeaf(leaves[span[2]])
        OBVIOUS
      <4> HIDE DEF g
      <4>2. CASE span[2] > span[1] + 0
        BY <4>1, <4>2
      <4>3. CASE ~ (span[2] > span[1] + 0)
        <5>1. span[2] <= span[1] + 0
          BY <1>s, <4>3
        <5> QED
          BY <2>1, <4>1, <4>3, <5>1
      <4> QED
        BY <4>2, <4>3
    <3> HIDE DEF HashStep
    <3>2. g = [span \in S |-> g[span]]
      OBVIOUS
    <3> HIDE DEF g
    <3> QED
      BY <3>1, <3>2 DEF HashesUpTo
  <2> QED
    BY <2>2
<1>3. n - 1 \in Nat /\ n - 1 \notin Bad /\ n \in Nat
  <2>1. n \in Nat
    OBVIOUS
  <2> HIDE DEF Bad
  <2> QED
    BY <1>1, <1>2, <2>1
<1>4. PICK g : HashesUpTo(g, leaves, n - 1)
  BY <1>3
<1>g. \A x \in S : g[x] = IF x[2] > x[1] + (n - 1) THEN HashLeaf(leaves[x[2]]) ELSE HashStep(g, leaves, x)
  BY <1>4 DEF HashesUpTo
<1> DEFINE h == [span \in S |-> IF span[2] = span[1] + n THEN HashStep(g, leaves, span) ELSE g[span]]
<1>5. /\ h = [span \in S |-> h[span]]
      /\ \A x \in S : h[x] = IF x[2] = x[1] + n THEN HashStep(g, leaves, x) ELSE g[x]
  OBVIOUS
<1> HIDE DEF h
<1>6. \A x \in S : x[2] - x[1] < n => g[x] = h[x]
  BY <1>3, <1>5, <1>s
<1>7. ASSUME NEW span \in S
      PROVE  h[span] = IF span[2] > span[1] + n THEN HashLeaf(leaves[span[2]]) ELSE HashStep(h, leaves, span)
  <2>s. span[1] \in Nat /\ span[2] \in Nat /\ n \in Nat
    BY <1>3, <1>s
  <2>g. g[span] = IF span[2] > span[1] + (n - 1) THEN HashLeaf(leaves[span[2]]) ELSE HashStep(g, leaves, span)
    BY <1>g
  <2>h. h[span] = IF span[2] = span[1] + n THEN HashStep(g, leaves, span) ELSE g[span]
    BY <1>5
  <2>1. CASE span[2] > span[1] + n
    <3>1. span[2] # span[1] + n /\ span[2] > span[1] + (n - 1)
      BY <2>s, <2>1
    <3> QED
      BY <2>g, <2>h, <2>1, <3>1
  <2>2. CASE ~ (span[2] > span[1] + n)
    <3>1. \A x \in S : x[2] - x[1] < span[2] - span[1] => g[x] = h[x]
      BY <1>3, <1>6, <1>s, <2>2
    <3>2. HashStep(g, leaves, span) = HashStep(h, leaves, span)
      BY <3>1, HashStepAgree
    <3>3. h[span] = HashStep(g, leaves, span)
      <4>1. span[2] = span[1] + n \/ ~ (span[2] > span[1] + (n - 1))
        BY <2>s, <2>2
      <4> QED
        BY <2>g, <2>h, <4>1
    <3> QED
      BY <2>2, <3>2, <3>3
  <2> QED
    BY <2>1, <2>2
<1>8. HashesUpTo(h, leaves, n)
  BY <1>5, <1>7 DEF HashesUpTo
<1> QED
  BY <1>1, <1>8

\* Lemma: the hash of a tree is that of its leaf, or is made of those of its two parts.
LEMMA HashIs ==
    ASSUME NEW leaves, Len(leaves) \in Nat, NEW a \in 0 .. Len(leaves), NEW b \in 0 .. Len(leaves)
    PROVE  LET hash == SubtreeHash(leaves)
               m == a + Split(b - a)
           IN hash[<<a, b>>] = IF b <= a + 1 THEN HashLeaf(leaves[b])
                               ELSE HashNode(hash[<<a, m>>], hash[<<m, b>>])
<1> DEFINE n == Len(leaves)
           F(r) == [span \in Spans(n) |->
                      IF span[2] <= span[1] + 1 THEN HashLeaf(leaves[span[2]])
                      ELSE LET split == span[1] + Split(span[2] - span[1])
                           IN HashNode(r[<<span[1], split>>], r[<<split, span[2]>>])]
           Hash == CHOOSE r : r = F(r)
<1>1. SubtreeHash(leaves) = Hash
  BY DEF SubtreeHash
<1>2. \A r : F(r) = [span \in Spans(n) |-> HashStep(r, leaves, span)]
  BY DEF HashStep
<1> HIDE DEF F
<1>3. PICK g : HashesUpTo(g, leaves, n)
  BY HashesExist
<1>4. \A x \in Spans(n) : ~ (x[2] > x[1] + n)
  BY DEF Spans
<1>5. g = [span \in Spans(n) |-> HashStep(g, leaves, span)]
  BY <1>3, <1>4 DEF HashesUpTo
<1>6. Hash = F(Hash)
  BY <1>2, <1>5
<1> HIDE DEF Hash
<1>7. Hash = [span \in Spans(n) |-> HashStep(Hash, leaves, span)]
  BY <1>2, <1>6
<1> DEFINE x == <<a, b>>
<1>8. x \in Spans(n) /\ x[1] = a /\ x[2] = b
  BY DEF Spans
<1> HIDE DEF x
<1>9. Hash[x] = HashStep(Hash, leaves, x)
  BY <1>7, <1>8
<1> QED
  BY <1>1, <1>8, <1>9 DEF HashStep, x

\* The path to a leaf of a stretch, from those to leaves of shorter ones.
Branch(r, hash, index, a, b) ==
    LET m == a + Split(b - a)
    IN IF b <= a + 1 THEN <<>>
       ELSE IF a + index < m THEN Append(r[<<index, <<a, m>>>>], hash[<<m, b>>])
       ELSE Append(r[<<a + index - m, <<m, b>>>>], hash[<<a, m>>])
PathStep(r, hash, at) == Branch(r, hash, at[1], at[2][1], at[2][2])

\* The indices of the stretches, and the paths of those of up to d leaves.
Indices(n) == (0 .. n) \X Spans(n)
PathsUpTo(g, hash, n, d) ==
    g = [at \in Indices(n) |-> IF at[2][2] > at[2][1] + d THEN <<>> ELSE PathStep(g, hash, at)]

\* Lemma: a path looks at shorter ones only.
LEMMA PathStepAgree ==
    ASSUME NEW n \in Nat, NEW hash, NEW g, NEW h, NEW at \in Indices(n),
           \A x \in Indices(n) : x[2][2] - x[2][1] < at[2][2] - at[2][1] => g[x] = h[x]
    PROVE  PathStep(g, hash, at) = PathStep(h, hash, at)
<1>1. PICK i \in 0 .. n, a \in 0 .. n, b \in 0 .. n : at = <<i, <<a, b>>>>
  BY DEF Indices, Spans
<1>2. \A r : PathStep(r, hash, at) = Branch(r, hash, i, a, b)
  BY <1>1 DEF PathStep
<1>3. CASE b <= a + 1
  BY <1>2, <1>3 DEF Branch
<1>4. CASE b > a + 1
  <2> DEFINE m == a + Split(b - a)
  <2>1. m \in 0 .. n /\ a < m /\ m < b /\ <<a, m>> \in Spans(n) /\ <<m, b>> \in Spans(n)
    BY <1>4, SplitSpan
  <2>r. \A r : Branch(r, hash, i, a, b) =
                 IF a + i < m THEN Append(r[<<i, <<a, m>>>>], hash[<<m, b>>])
                 ELSE Append(r[<<a + i - m, <<m, b>>>>], hash[<<a, m>>])
    BY <1>4 DEF Branch
  <2> HIDE DEF m
  <2>2. g[<<i, <<a, m>>>>] = h[<<i, <<a, m>>>>]
    <3> DEFINE x == <<i, <<a, m>>>>
    <3>1. x \in Indices(n) /\ x[2][2] - x[2][1] < at[2][2] - at[2][1]
      BY <1>1, <2>1 DEF Indices
    <3> HIDE DEF x
    <3>2. g[x] = h[x]
      BY <3>1
    <3> QED
      BY <3>2 DEF x
  <2>3. ASSUME ~ (a + i < m) PROVE g[<<a + i - m, <<m, b>>>>] = h[<<a + i - m, <<m, b>>>>]
    <3> DEFINE x == <<a + i - m, <<m, b>>>>
    <3>1. a + i - m \in 0 .. n
      BY <2>1, <2>3
    <3>2. x \in Indices(n) /\ x[2][2] - x[2][1] < at[2][2] - at[2][1]
      BY <1>1, <2>1, <3>1 DEF Indices
    <3> HIDE DEF x
    <3>3. g[x] = h[x]
      BY <3>2
    <3> QED
      BY <3>3 DEF x
  <2>4. Branch(g, hash, i, a, b) = Branch(h, hash, i, a, b)
    BY <2>r, <2>2, <2>3
  <2> QED
    BY <1>2, <2>4
<1> QED
  BY <1>1, <1>3, <1>4

\* Lemma: the paths exist.
LEMMA PathsExist ==
    ASSUME NEW n \in Nat, NEW hash, NEW d \in Nat
    PROVE  \E g : PathsUpTo(g, hash, n, d)
<1> DEFINE S == Indices(n)
           Bad == {m \in Nat : ~ \E g : PathsUpTo(g, hash, n, m)}
<1>s. \A x \in S : x[2][1] \in Nat /\ x[2][2] \in Nat
  BY DEF Indices, Spans
<1> HIDE DEF S
<1> SUFFICES ASSUME Bad # {} PROVE FALSE
  OBVIOUS
<1>1. PICK k \in Bad : \A y \in Bad : k <= y
  <2>1. Bad \in SUBSET Nat
    OBVIOUS
  <2> HIDE DEF Bad
  <2> QED
    BY <2>1, LeastOf
<1>2. k # 0
  <2> DEFINE g == [at \in S |-> <<>>]
  <2>1. ASSUME NEW at \in S
        PROVE  g[at] = IF at[2][2] > at[2][1] + 0 THEN <<>> ELSE PathStep(g, hash, at)
    <3>1. g[at] = <<>> /\ at[2][1] \in Nat /\ at[2][2] \in Nat
      BY <1>s
    <3> HIDE DEF g
    <3>2. ~ (at[2][2] > at[2][1] + 0) => at[2][2] <= at[2][1] + 1
      BY <3>1
    <3>3. at[2][2] <= at[2][1] + 1 => PathStep(g, hash, at) = <<>>
      BY DEF PathStep, Branch
    <3> QED
      BY <3>1, <3>2, <3>3
  <2>2. g = [at \in S |-> g[at]]
    OBVIOUS
  <2> HIDE DEF g
  <2>3. PathsUpTo(g, hash, n, 0)
    BY <2>1, <2>2 DEF PathsUpTo, S
  <2> QED
    BY <2>3
<1>3. k - 1 \in Nat /\ k - 1 \notin Bad /\ k \in Nat
  <2>1. k \in Nat
    OBVIOUS
  <2> HIDE DEF Bad
  <2> QED
    BY <1>1, <1>2, <2>1
<1>4. PICK g : PathsUpTo(g, hash, n, k - 1)
  BY <1>3
<1>g. \A x \in S : g[x] = IF x[2][2] > x[2][1] + (k - 1) THEN <<>> ELSE PathStep(g, hash, x)
  BY <1>4 DEF PathsUpTo, S
<1> DEFINE h == [at \in S |-> IF at[2][2] = at[2][1] + k THEN PathStep(g, hash, at) ELSE g[at]]
<1>5. /\ h = [at \in S |-> h[at]]
      /\ \A x \in S : h[x] = IF x[2][2] = x[2][1] + k THEN PathStep(g, hash, x) ELSE g[x]
  OBVIOUS
<1> HIDE DEF h
<1>6. \A x \in S : x[2][2] - x[2][1] < k => g[x] = h[x]
  BY <1>3, <1>5, <1>s
<1>7. ASSUME NEW at \in S
      PROVE  h[at] = IF at[2][2] > at[2][1] + k THEN <<>> ELSE PathStep(h, hash, at)
  <2>s. at[2][1] \in Nat /\ at[2][2] \in Nat /\ k \in Nat
    BY <1>3, <1>s
  <2>g. g[at] = IF at[2][2] > at[2][1] + (k - 1) THEN <<>> ELSE PathStep(g, hash, at)
    BY <1>g
  <2>h. h[at] = IF at[2][2] = at[2][1] + k THEN PathStep(g, hash, at) ELSE g[at]
    BY <1>5
  <2>1. CASE at[2][2] > at[2][1] + k
    <3>1. at[2][2] # at[2][1] + k /\ at[2][2] > at[2][1] + (k - 1)
      BY <2>s, <2>1
    <3> QED
      BY <2>g, <2>h, <2>1, <3>1
  <2>2. CASE ~ (at[2][2] > at[2][1] + k)
    <3>1. \A x \in S : x[2][2] - x[2][1] < at[2][2] - at[2][1] => g[x] = h[x]
      BY <1>3, <1>6, <1>s, <2>2
    <3>2. PathStep(g, hash, at) = PathStep(h, hash, at)
      BY <3>1, PathStepAgree DEF S
    <3>3. h[at] = PathStep(g, hash, at)
      <4>1. at[2][2] = at[2][1] + k \/ ~ (at[2][2] > at[2][1] + (k - 1))
        BY <2>s, <2>2
      <4> QED
        BY <2>g, <2>h, <4>1
    <3> QED
      BY <2>2, <3>2, <3>3
  <2> QED
    BY <2>1, <2>2
<1>8. PathsUpTo(h, hash, n, k)
  BY <1>5, <1>7 DEF PathsUpTo, S
<1> QED
  BY <1>1, <1>8

\* The paths to the leaves of every stretch.
Collects(path, leaves) ==
    \A i, a, b \in 0 .. Len(leaves) :
        path[<<i, <<a, b>>>>] = Branch(path, SubtreeHash(leaves), i, a, b)

\* Lemma: the audit path of an index is the one of the whole tree.
LEMMA AuditPathIs ==
    ASSUME NEW leaves, Len(leaves) \in Nat
    PROVE  \E path : /\ Collects(path, leaves)
                     /\ \A i : AuditPath(leaves, i) = path[<<i, <<0, Len(leaves)>>>>]
<1> DEFINE n == Len(leaves)
           hash == SubtreeHash(leaves)
           F(r) == [at \in (0 .. n) \X Spans(n) |->
                      LET index == at[1]  start == at[2][1]  end == at[2][2]
                          split == start + Split(end - start)
                      IN IF end <= start + 1 THEN <<>>
                         ELSE IF start + index < split
                         THEN Append(r[<<index, <<start, split>>>>], hash[<<split, end>>])
                         ELSE Append(r[<<start + index - split, <<split, end>>>>], hash[<<start, split>>])]
           Path == CHOOSE r : r = F(r)
<1>1. \A i : AuditPath(leaves, i) = Path[<<i, <<0, n>>>>]
  BY DEF AuditPath
<1>2. \A r : F(r) = [at \in Indices(n) |-> PathStep(r, hash, at)]
  BY DEF PathStep, Branch, Indices
<1> HIDE DEF F, hash
<1>3. PICK g : PathsUpTo(g, hash, n, n)
  BY PathsExist
<1>4. \A x \in Indices(n) : ~ (x[2][2] > x[2][1] + n)
  BY DEF Indices, Spans
<1>5. g = [at \in Indices(n) |-> PathStep(g, hash, at)]
  BY <1>3, <1>4 DEF PathsUpTo
<1>6. Path = F(Path)
  BY <1>2, <1>5
<1> HIDE DEF Path
<1>7. Path = [at \in Indices(n) |-> PathStep(Path, hash, at)]
  BY <1>2, <1>6
<1>8. ASSUME NEW i \in 0 .. n, NEW a \in 0 .. n, NEW b \in 0 .. n
      PROVE  Path[<<i, <<a, b>>>>] = Branch(Path, hash, i, a, b)
  <2> DEFINE x == <<i, <<a, b>>>>
  <2>1. x \in Indices(n) /\ x[1] = i /\ x[2][1] = a /\ x[2][2] = b
    BY DEF Indices, Spans
  <2> HIDE DEF x
  <2>2. Path[x] = PathStep(Path, hash, x)
    BY <1>7, <2>1
  <2>3. PathStep(Path, hash, x) = Branch(Path, hash, i, a, b)
    BY <2>1 DEF PathStep
  <2> QED
    BY <2>2, <2>3 DEF x
<1> QED
  BY <1>1, <1>8 DEF Collects, hash

-----------------------------------------------------------------------------
(* The levels without a sibling.                                           *)

SkipStep(r, place) ==
    IF place[1] % 2 = 0 /\ place[1] # 0 THEN r[<<place[1] \div 2, place[2] \div 2>>]
    ELSE [position |-> place[1], last |-> place[2]]
Grid(a, b) == (0 .. a) \X (0 .. b)
SkipsUpTo(g, a, b, d) ==
    g = [place \in Grid(a, b) |-> IF place[1] > d THEN [position |-> place[1], last |-> place[2]]
                                  ELSE SkipStep(g, place)]

\* Lemma: a level looks at a lower position only.
LEMMA SkipStepAgree ==
    ASSUME NEW a \in Nat, NEW b \in Nat, NEW g, NEW h, NEW place \in Grid(a, b),
           \A x \in Grid(a, b) : x[1] < place[1] => g[x] = h[x]
    PROVE  SkipStep(g, place) = SkipStep(h, place)
<1>1. PICK p \in 0 .. a, l \in 0 .. b : place = <<p, l>>
  BY DEF Grid
<1>2. CASE p % 2 = 0 /\ p # 0
  <2> DEFINE x == <<p \div 2, l \div 2>>
  <2>1. x \in Grid(a, b) /\ x[1] < place[1]
    BY <1>1, <1>2 DEF Grid
  <2>2. \A r : SkipStep(r, place) = r[x]
    BY <1>1, <1>2 DEF SkipStep
  <2> HIDE DEF x
  <2>3. g[x] = h[x]
    BY <2>1
  <2> QED
    BY <2>2, <2>3
<1>3. CASE ~ (p % 2 = 0 /\ p # 0)
  BY <1>1, <1>3 DEF SkipStep
<1> QED
  BY <1>2, <1>3

\* Lemma: the levels exist.
LEMMA SkipsExist ==
    ASSUME NEW a \in Nat, NEW b \in Nat, NEW d \in Nat
    PROVE  \E g : SkipsUpTo(g, a, b, d)
<1> DEFINE S == Grid(a, b)
           End(x) == [position |-> x[1], last |-> x[2]]
           Bad == {m \in Nat : ~ \E g : SkipsUpTo(g, a, b, m)}
<1>s. \A x \in S : x[1] \in Nat /\ x[2] \in Nat
  BY DEF Grid
<1> HIDE DEF S, End
<1> SUFFICES ASSUME Bad # {} PROVE FALSE
  OBVIOUS
<1>1. PICK k \in Bad : \A y \in Bad : k <= y
  <2>1. Bad \in SUBSET Nat
    OBVIOUS
  <2> HIDE DEF Bad
  <2> QED
    BY <2>1, LeastOf
<1>2. k # 0
  <2> DEFINE g == [x \in S |-> End(x)]
  <2>1. ASSUME NEW x \in S
        PROVE  g[x] = IF x[1] > 0 THEN End(x) ELSE SkipStep(g, x)
    <3>1. g[x] = End(x) /\ x[1] \in Nat
      BY <1>s
    <3> HIDE DEF g
    <3>2. ~ (x[1] > 0) => x[1] = 0
      BY <3>1
    <3>3. x[1] = 0 => SkipStep(g, x) = End(x)
      BY DEF SkipStep, End
    <3> QED
      BY <3>1, <3>2, <3>3
  <2>2. g = [x \in S |-> g[x]]
    OBVIOUS
  <2> HIDE DEF g
  <2>3. SkipsUpTo(g, a, b, 0)
    BY <2>1, <2>2 DEF SkipsUpTo, S, End
  <2> QED
    BY <2>3
<1>3. k - 1 \in Nat /\ k - 1 \notin Bad /\ k \in Nat
  <2>1. k \in Nat
    OBVIOUS
  <2> HIDE DEF Bad
  <2> QED
    BY <1>1, <1>2, <2>1
<1>4. PICK g : SkipsUpTo(g, a, b, k - 1)
  BY <1>3
<1>g. \A x \in S : g[x] = IF x[1] > k - 1 THEN End(x) ELSE SkipStep(g, x)
  BY <1>4 DEF SkipsUpTo, S, End
<1> DEFINE h == [x \in S |-> IF x[1] = k THEN SkipStep(g, x) ELSE g[x]]
<1>5. /\ h = [x \in S |-> h[x]]
      /\ \A x \in S : h[x] = IF x[1] = k THEN SkipStep(g, x) ELSE g[x]
  OBVIOUS
<1> HIDE DEF h
<1>6. \A x \in S : x[1] < k => g[x] = h[x]
  BY <1>3, <1>5, <1>s
<1>7. ASSUME NEW x \in S
      PROVE  h[x] = IF x[1] > k THEN End(x) ELSE SkipStep(h, x)
  <2>s. x[1] \in Nat /\ k \in Nat
    BY <1>3, <1>s
  <2>g. g[x] = IF x[1] > k - 1 THEN End(x) ELSE SkipStep(g, x)
    BY <1>g
  <2>h. h[x] = IF x[1] = k THEN SkipStep(g, x) ELSE g[x]
    BY <1>5
  <2>1. CASE x[1] > k
    <3>1. x[1] # k /\ x[1] > k - 1
      BY <2>s, <2>1
    <3> QED
      BY <2>g, <2>h, <2>1, <3>1
  <2>2. CASE ~ (x[1] > k)
    <3>1. \A y \in S : y[1] < x[1] => g[y] = h[y]
      BY <1>3, <1>6, <1>s, <2>2
    <3>2. SkipStep(g, x) = SkipStep(h, x)
      BY <3>1, SkipStepAgree DEF S
    <3>3. x[1] = k \/ ~ (x[1] > k - 1)
      BY <2>s, <2>2
    <3> QED
      BY <2>g, <2>h, <2>2, <3>2, <3>3
  <2> QED
    BY <2>1, <2>2
<1>8. SkipsUpTo(h, a, b, k)
  BY <1>5, <1>7 DEF SkipsUpTo, S, End
<1> QED
  BY <1>1, <1>8

Skips(g, at) ==
    /\ SkipLevels(at) = g[<<at.position, at.last>>]
    /\ \A p \in 0 .. at.position, l \in 0 .. at.last :
         g[<<p, l>>] = IF p % 2 = 0 /\ p # 0 THEN g[<<p \div 2, l \div 2>>]
                       ELSE [position |-> p, last |-> l]

\* Lemma: the levels that a position skips.
LEMMA SkipIs ==
    ASSUME NEW at, at.position \in Nat, at.last \in Nat
    PROVE  \E g : Skips(g, at)
<1> DEFINE a == at.position
           b == at.last
           F(r) == [place \in (0 .. at.position) \X (0 .. at.last) |->
                      IF place[1] % 2 = 0 /\ place[1] # 0 THEN r[<<place[1] \div 2, place[2] \div 2>>]
                      ELSE [position |-> place[1], last |-> place[2]]]
           Skip == CHOOSE r : r = F(r)
<1>1. SkipLevels(at) = Skip[<<a, b>>]
  BY DEF SkipLevels
<1>2. \A r : F(r) = [x \in Grid(a, b) |-> SkipStep(r, x)]
  BY DEF SkipStep, Grid
<1> HIDE DEF F
<1>3. PICK g : SkipsUpTo(g, a, b, a)
  BY SkipsExist
<1>4. \A x \in Grid(a, b) : ~ (x[1] > a)
  BY DEF Grid
<1>5. g = [x \in Grid(a, b) |-> SkipStep(g, x)]
  BY <1>3, <1>4 DEF SkipsUpTo
<1>6. Skip = F(Skip)
  BY <1>2, <1>5
<1> HIDE DEF Skip
<1>7. Skip = [x \in Grid(a, b) |-> SkipStep(Skip, x)]
  BY <1>2, <1>6
<1>8. ASSUME NEW p \in 0 .. a, NEW l \in 0 .. b
      PROVE  Skip[<<p, l>>] = IF p % 2 = 0 /\ p # 0 THEN Skip[<<p \div 2, l \div 2>>]
                              ELSE [position |-> p, last |-> l]
  <2> DEFINE x == <<p, l>>
  <2>1. x \in Grid(a, b) /\ x[1] = p /\ x[2] = l
    BY DEF Grid
  <2> HIDE DEF x
  <2>2. Skip[x] = SkipStep(Skip, x)
    BY <1>7, <2>1
  <2> QED
    BY <2>1, <2>2 DEF SkipStep, x
<1> QED
  BY <1>1, <1>8 DEF Skips

\* Lemma: a right node has its sibling at once, and one at the edge where its position is odd.
LEMMA SkipLaws ==
    ASSUME NEW at, at.position \in Nat, at.last \in Nat
    PROVE  /\ at.position % 2 = 1 => SkipLevels(at) = [position |-> at.position, last |-> at.last]
           /\ \A c \in Nat : \A q : c % 2 = 1 /\ IsPower(q) /\ at.position = c * q /\ at.last = c * q
                => SkipLevels(at) = [position |-> c, last |-> c]
<1>0. PICK g : Skips(g, at)
  BY SkipIs
<1>1. /\ SkipLevels(at) = g[<<at.position, at.last>>]
      /\ \A p \in 0 .. at.position, l \in 0 .. at.last :
           g[<<p, l>>] = IF p % 2 = 0 /\ p # 0 THEN g[<<p \div 2, l \div 2>>]
                         ELSE [position |-> p, last |-> l]
  BY <1>0 DEF Skips
<1>2. ASSUME at.position % 2 = 1 PROVE SkipLevels(at) = [position |-> at.position, last |-> at.last]
  <2>1. at.position \in 0 .. at.position /\ at.last \in 0 .. at.last /\ at.position % 2 # 0
    BY <1>2
  <2> QED
    BY <1>1, <2>1
<1>3. ASSUME NEW c \in Nat, NEW q, c % 2 = 1, IsPower(q), at.position = c * q, at.last = c * q
      PROVE  SkipLevels(at) = [position |-> c, last |-> c]
  <2> DEFINE T == {x \in Nat : x >= 1 /\ (c * x <= c * q => g[<<c * x, c * x>>] = [position |-> c, last |-> c])}
  <2>1. 1 \in T
    <3>1. c * 1 = c
      OBVIOUS
    <3>2. ASSUME c <= c * q PROVE g[<<c, c>>] = [position |-> c, last |-> c]
      <4>1. c \in 0 .. at.position /\ c \in 0 .. at.last /\ c % 2 # 0
        BY <1>3, <3>2
      <4> QED
        BY <1>1, <4>1
    <3> QED
      BY <3>1, <3>2
  <2>2. ASSUME NEW x \in T PROVE 2 * x \in T
    <3>1. x \in Nat /\ x >= 1 /\ (c * x <= c * q => g[<<c * x, c * x>>] = [position |-> c, last |-> c])
      OBVIOUS
    <3>2. c >= 1 /\ c * x \in Nat /\ c * x >= 1 /\ c * q \in Nat
      <4>1. c >= 1
        BY <1>3
      <4>2. q \in Nat
        BY <1>3, PowerHalf
      <4> QED
        BY <3>1, <4>1, <4>2
    <3>3. c * (2 * x) = 2 * (c * x)
      BY <3>1
    <3> DEFINE y == c * x
               z == c * q
    <3>4. ASSUME 2 * y <= z PROVE g[<<2 * y, 2 * y>>] = [position |-> c, last |-> c]
      <4>1. y \in Nat /\ y >= 1 /\ z \in Nat /\ at.position = z /\ at.last = z
        BY <1>3, <3>2
      <4> HIDE DEF y, z
      <4>2. 2 * y \in 0 .. at.position /\ 2 * y \in 0 .. at.last /\ (2 * y) % 2 = 0 /\ 2 * y # 0
            /\ (2 * y) \div 2 = y /\ y <= z
        <5>1. y \in Nat /\ y >= 1 /\ 2 * y <= z
          BY <3>4, <4>1
        <5>2. (2 * y) % 2 = 0 /\ (2 * y) \div 2 = y
          BY <5>1
        <5>3. 2 * y \in 0 .. z /\ 2 * y # 0 /\ y <= z
          BY <4>1, <5>1
        <5> QED
          BY <4>1, <5>2, <5>3
      <4>3. g[<<2 * y, 2 * y>>] = g[<<y, y>>]
        <5> DEFINE t == 2 * y
        <5>1. t \in 0 .. at.position /\ t \in 0 .. at.last /\ t % 2 = 0 /\ t # 0 /\ t \div 2 = y
          BY <4>2
        <5> HIDE DEF t
        <5>2. g[<<t, t>>] = g[<<y, y>>]
          BY <1>1, <5>1
        <5> QED
          BY <5>2 DEF t
      <4> QED
        BY <3>1, <4>2, <4>3 DEF y, z
    <3> QED
      BY <3>1, <3>3, <3>4
  <2>3. T \in SUBSET Nat
    OBVIOUS
  <2> HIDE DEF T
  <2>4. q \in T
    BY <1>3, <2>1, <2>2, <2>3 DEF IsPower
  <2>5. c * q <= c * q
    BY <1>3, PowerHalf
  <2>6. g[<<c * q, c * q>>] = [position |-> c, last |-> c]
    BY <2>4, <2>5 DEF T
  <2> QED
    BY <1>1, <1>3, <2>6
<1> QED
  BY <1>2, <1>3

-----------------------------------------------------------------------------
(* The verification.                                                       *)

\* What one sibling makes of a left node, of a right one and of one at the edge.
RiseLaw(x, y, z, sibling) ==
    LET at == [position |-> x, last |-> y, running |-> z, ok |-> TRUE]
    IN /\ x % 2 = 0 /\ x # y =>
            Rise(at, sibling) = [position |-> x \div 2, last |-> y \div 2,
                          running |-> HashNode(z, sibling), ok |-> TRUE]
       /\ x % 2 = 1 =>
            Rise(at, sibling) = [position |-> x \div 2, last |-> y \div 2,
                          running |-> HashNode(sibling, z), ok |-> TRUE]
       /\ \A c \in Nat : \A q : c % 2 = 1 /\ IsPower(q) /\ x = c * q /\ y = c * q =>
            Rise(at, sibling) = [position |-> c \div 2, last |-> c \div 2,
                          running |-> HashNode(sibling, z), ok |-> TRUE]

\* Lemma: one sibling makes that.
LEMMA RiseLaws ==
    ASSUME NEW x, NEW y, NEW z, NEW sibling, x \in Nat, y \in Nat, y # 0
    PROVE  RiseLaw(x, y, z, sibling)
<1> DEFINE at == [position |-> x, last |-> y, running |-> z, ok |-> TRUE]
<1>1. at.position = x /\ at.last = y /\ at.running = z /\ at.ok = TRUE
  OBVIOUS
<1> HIDE DEF at
<1>2. ASSUME x % 2 = 0, x # y
      PROVE  Rise(at, sibling) = [position |-> x \div 2, last |-> y \div 2,
                                  running |-> HashNode(z, sibling), ok |-> TRUE]
  <2>1. ~ (at.position % 2 = 1 \/ at.position = at.last)
    BY <1>1, <1>2
  <2> QED
    BY <1>1, <2>1 DEF Rise
<1>3. ASSUME x % 2 = 1
      PROVE  Rise(at, sibling) = [position |-> x \div 2, last |-> y \div 2,
                                  running |-> HashNode(sibling, z), ok |-> TRUE]
  <2>1. SkipLevels(at) = [position |-> x, last |-> y]
    BY <1>1, <1>3, SkipLaws
  <2>2. at.position % 2 = 1
    BY <1>1, <1>3
  <2>3. Rise(at, sibling) = [position |-> SkipLevels(at).position \div 2, last |-> SkipLevels(at).last \div 2,
                             running |-> HashNode(sibling, at.running), ok |-> at.ok /\ at.last # 0]
    BY <2>2 DEF Rise
  <2> DEFINE level == SkipLevels(at)
             ok == at.ok /\ at.last # 0
  <2>4. ok = TRUE
    BY <1>1
  <2> HIDE DEF level, ok
  <2>5. Rise(at, sibling) = [position |-> level.position \div 2, last |-> level.last \div 2,
                             running |-> HashNode(sibling, at.running), ok |-> ok]
    BY <2>3 DEF level, ok
  <2>6. level.position = x /\ level.last = y
    BY <2>1 DEF level
  <2> QED
    BY <1>1, <2>4, <2>5, <2>6
<1>4. ASSUME NEW c \in Nat, NEW q, c % 2 = 1, IsPower(q), x = c * q, y = c * q
      PROVE  Rise(at, sibling) = [position |-> c \div 2, last |-> c \div 2,
                                  running |-> HashNode(sibling, z), ok |-> TRUE]
  <2>1. SkipLevels(at) = [position |-> c, last |-> c]
    BY <1>1, <1>4, SkipLaws
  <2>2. at.position = at.last
    BY <1>1, <1>4
  <2>3. Rise(at, sibling) = [position |-> SkipLevels(at).position \div 2, last |-> SkipLevels(at).last \div 2,
                             running |-> HashNode(sibling, at.running), ok |-> at.ok /\ at.last # 0]
    BY <2>2 DEF Rise
  <2> DEFINE level == SkipLevels(at)
             ok == at.ok /\ at.last # 0
  <2>4. ok = TRUE
    BY <1>1
  <2> HIDE DEF level, ok
  <2>5. Rise(at, sibling) = [position |-> level.position \div 2, last |-> level.last \div 2,
                             running |-> HashNode(sibling, at.running), ok |-> ok]
    BY <2>3 DEF level, ok
  <2>6. level.position = c /\ level.last = c
    BY <2>1 DEF level
  <2> QED
    BY <1>1, <2>4, <2>5, <2>6
<1> QED
  BY <1>2, <1>3, <1>4 DEF RiseLaw, at

\* A climb along a path, and where it starts.
Climbs(u, path) == \A n \in 1 .. Len(path) : u[n] = Rise(u[n - 1], path[n])
Foot(position, last, block) ==
    [position |-> position, last |-> last, running |-> HashLeaf(block), ok |-> TRUE]

ClimbsUpTo(u, first, path, d) ==
    u = [n \in 0 .. d |-> IF n = 0 THEN first ELSE Rise(u[n - 1], path[n])]

\* Lemma: climbs exist.
LEMMA ClimbsExist ==
    ASSUME NEW first, NEW path, NEW d \in Nat
    PROVE  \E u : ClimbsUpTo(u, first, path, d)
<1> USE DEF ClimbsUpTo
<1> DEFINE Up(u, k) == ClimbsUpTo(u, first, path, k)
           Bad == {k \in Nat : ~ \E u : Up(u, k)}
<1> SUFFICES ASSUME Bad # {} PROVE FALSE
  OBVIOUS
<1>1. PICK k \in Bad : \A y \in Bad : k <= y
  <2>1. Bad \in SUBSET Nat
    OBVIOUS
  <2> HIDE DEF Bad
  <2> QED
    BY <2>1, LeastOf
<1>2. k # 0
  <2>1. Up([n \in 0 .. 0 |-> first], 0)
    OBVIOUS
  <2> HIDE DEF Up
  <2> QED
    BY <2>1
<1>3. k - 1 \in Nat /\ k - 1 \notin Bad /\ k \in Nat
  <2> HIDE DEF Up
  <2>1. k \in Nat
    OBVIOUS
  <2> HIDE DEF Bad
  <2> QED
    BY <1>1, <1>2, <2>1
<1>4. PICK u : Up(u, k - 1)
  <2> HIDE DEF Up
  <2> QED
    BY <1>3
<1>u. \A n \in 0 .. k - 1 : u[n] = IF n = 0 THEN first ELSE Rise(u[n - 1], path[n])
  BY <1>4
<1> DEFINE v == [n \in 0 .. k |-> IF n = k THEN Rise(u[k - 1], path[k]) ELSE u[n]]
<1>5. v = [n \in 0 .. k |-> v[n]] /\ \A n \in 0 .. k : v[n] = IF n = k THEN Rise(u[k - 1], path[k]) ELSE u[n]
  OBVIOUS
<1> HIDE DEF v
<1>6. ASSUME NEW n \in 0 .. k PROVE v[n] = IF n = 0 THEN first ELSE Rise(v[n - 1], path[n])
  <2>1. CASE n = 0
    <3>1. 0 \in 0 .. k - 1 /\ n # k
      BY <1>2, <1>3, <2>1
    <3> QED
      BY <1>5, <1>u, <2>1, <3>1
  <2>2. CASE n # 0
    <3>1. n - 1 \in 0 .. k /\ n - 1 # k /\ (n = k \/ n \in 0 .. k - 1)
      BY <1>3, <2>2
    <3>2. v[n - 1] = u[n - 1]
      BY <1>5, <3>1
    <3>3. CASE n = k
      BY <1>5, <2>2, <3>2, <3>3
    <3>4. CASE n # k
      BY <1>5, <1>u, <2>2, <3>1, <3>2, <3>4
    <3> QED
      BY <3>3, <3>4
  <2> QED
    BY <2>1, <2>2
<1>7. Up(v, k)
  BY <1>5, <1>6
<1> HIDE DEF Up
<1> QED
  BY <1>1, <1>7

\* The climb of a verification, and what it decides.
Decides(u, block, index, size, path) ==
    /\ u[0] = Foot(index, size - 1, block) /\ Climbs(u, path)
    /\ \A root : Verify(block, index, size, path, root) =
         (index < size /\ u[Len(path)].ok /\ u[Len(path)].last = 0 /\ u[Len(path)].running = root)

\* Lemma: a verification climbs.
LEMMA VerifyIs ==
    ASSUME NEW block, NEW index, NEW size, NEW path, Len(path) \in Nat
    PROVE  \E u : Decides(u, block, index, size, path)
<1> DEFINE F(r) == [n \in 0 .. Len(path) |->
                      IF n = 0
                      THEN [position |-> index, last |-> size - 1, running |-> HashLeaf(block), ok |-> TRUE]
                      ELSE Rise(r[n - 1], path[n])]
           Up == CHOOSE r : r = F(r)
<1>1. \A root : Verify(block, index, size, path, root) =
         (index < size /\ Up[Len(path)].ok /\ Up[Len(path)].last = 0 /\ Up[Len(path)].running = root)
  BY DEF Verify
<1>2. \A r : F(r) = [n \in 0 .. Len(path) |-> IF n = 0 THEN Foot(index, size - 1, block)
                                              ELSE Rise(r[n - 1], path[n])]
  BY DEF Foot
<1> HIDE DEF F
<1>3. \E g : g = F(g)
  <2> DEFINE first == Foot(index, size - 1, block)
  <2> HIDE DEF first
  <2>1. PICK g : ClimbsUpTo(g, first, path, Len(path))
    BY ClimbsExist
  <2>2. g = F(g)
    BY <1>2, <2>1 DEF first, ClimbsUpTo
  <2> QED
    BY <2>2
<1>4. Up = F(Up)
  BY <1>3
<1> HIDE DEF Up
<1>5. Up = [n \in 0 .. Len(path) |-> IF n = 0 THEN Foot(index, size - 1, block) ELSE Rise(Up[n - 1], path[n])]
  BY <1>2, <1>4
<1>6. Up[0] = Foot(index, size - 1, block)
  BY <1>5
<1>7. Climbs(Up, path)
  <2>1. \A n \in 1 .. Len(path) : n \in 0 .. Len(path) /\ n # 0
    OBVIOUS
  <2> QED
    BY <1>5, <2>1 DEF Climbs
<1> QED
  BY <1>1, <1>6, <1>7 DEF Decides

Hashes(leaves) == {SubtreeHash(leaves)[x] : x \in Spans(Len(leaves))}

\* Lemma: a path is a sequence of hashes of the tree.
LEMMA PathTyped ==
    ASSUME NEW leaves, Len(leaves) \in Nat, NEW path, Collects(path, leaves),
           NEW i \in 0 .. Len(leaves), NEW a \in 0 .. Len(leaves), NEW b \in 0 .. Len(leaves)
    PROVE  path[<<i, <<a, b>>>>] \in Seq(Hashes(leaves))
<1> DEFINE n == Len(leaves)
           V == Hashes(leaves)
           hash == SubtreeHash(leaves)
           Typed(d) == \A j, s, e \in 0 .. n : e = s + d => path[<<j, <<s, e>>>>] \in Seq(V)
           Bad == {d \in Nat : ~ Typed(d)}
<1>h. \A x \in Spans(n) : hash[x] \in V
  BY DEF Hashes
<1>0. \A j, s, e \in 0 .. n : e <= s + 1 => path[<<j, <<s, e>>>>] = <<>>
  BY DEF Collects, Branch
<1>c. \A j, s, e \in 0 .. n : path[<<j, <<s, e>>>>] = Branch(path, hash, j, s, e)
  BY DEF Collects
<1> HIDE DEF V, hash
<1>1. Bad = {}
  <2> SUFFICES ASSUME Bad # {} PROVE FALSE
    OBVIOUS
  <2>1. PICK d \in Bad : \A y \in Bad : d <= y
    <3>1. Bad \in SUBSET Nat
      OBVIOUS
    <3> HIDE DEF Bad
    <3> QED
      BY <3>1, LeastOf
  <2>2. \A k \in Nat : k < d => Typed(k)
    <3>1. \A k \in Nat : k \notin Bad => Typed(k)
      OBVIOUS
    <3>2. d \in Nat
      OBVIOUS
    <3> HIDE DEF Bad, Typed
    <3> QED
      BY <2>1, <3>1, <3>2
  <2>3. PICK j \in 0 .. n, s \in 0 .. n, e \in 0 .. n : e = s + d /\ path[<<j, <<s, e>>>>] \notin Seq(V)
    <3>1. ~ Typed(d)
      OBVIOUS
    <3> QED
      BY <3>1
  <2>4. e > s + 1
    <3>1. path[<<j, <<s, e>>>>] # <<>>
      <4>1. <<>> \in Seq(V)
        OBVIOUS
      <4> QED
        BY <2>3, <4>1
    <3>2. ~ (e <= s + 1)
      BY <1>0, <3>1
    <3>3. s \in Nat /\ e \in Nat
      OBVIOUS
    <3> QED
      BY <3>2, <3>3
  <2> DEFINE m == s + Split(e - s)
  <2>5. m \in 0 .. n /\ s < m /\ m < e /\ <<s, m>> \in Spans(n) /\ <<m, e>> \in Spans(n)
    BY <2>4, SplitSpan
  <2>b. path[<<j, <<s, e>>>>] = IF s + j < m THEN Append(path[<<j, <<s, m>>>>], hash[<<m, e>>])
                                ELSE Append(path[<<s + j - m, <<m, e>>>>], hash[<<s, m>>])
    <3>1. path[<<j, <<s, e>>>>] = Branch(path, hash, j, s, e)
      BY <1>c
    <3>2. ~ (e <= s + 1)
      BY <2>4
    <3> QED
      BY <3>1, <3>2 DEF Branch
  <2> HIDE DEF m
  <2>6. CASE s + j < m
    <3>1. m - s \in Nat /\ m - s < d /\ m = s + (m - s)
      BY <2>3, <2>5
    <3>2. path[<<j, <<s, m>>>>] \in Seq(V)
      BY <2>2, <2>5, <3>1
    <3>3. hash[<<m, e>>] \in V
      BY <1>h, <2>5
    <3>4. Append(path[<<j, <<s, m>>>>], hash[<<m, e>>]) \in Seq(V)
      BY <3>2, <3>3
    <3> QED
      BY <2>3, <2>6, <2>b, <3>4
  <2>7. CASE ~ (s + j < m)
    <3>1. e - m \in Nat /\ e - m < d /\ e = m + (e - m) /\ s + j - m \in 0 .. n
      BY <2>3, <2>5, <2>7
    <3>2. path[<<s + j - m, <<m, e>>>>] \in Seq(V)
      BY <2>2, <2>5, <3>1
    <3>3. hash[<<s, m>>] \in V
      BY <1>h, <2>5
    <3>4. Append(path[<<s + j - m, <<m, e>>>>], hash[<<s, m>>]) \in Seq(V)
      BY <3>2, <3>3
    <3> QED
      BY <2>3, <2>7, <2>b, <3>4
  <2> QED
    BY <2>6, <2>7
<1>2. CASE b <= a + 1
  <2>1. path[<<i, <<a, b>>>>] = <<>>
    BY <1>0, <1>2
  <2> QED
    BY <2>1 DEF V
<1>3. CASE b > a + 1
  <2>1. b - a \in Nat /\ b = a + (b - a)
    BY <1>3
  <2>2. Typed(b - a)
    <3>1. b - a \notin Bad
      BY <1>1
    <3> HIDE DEF Typed
    <3> QED
      BY <2>1, <3>1
  <2> QED
    BY <2>1, <2>2 DEF V
<1> QED
  BY <1>2, <1>3

\* Lemma: to climb a path with one more sibling is to climb it and rise once more.
LEMMA ClimbsAppend ==
    ASSUME NEW V, NEW w \in Seq(V), NEW x \in V, NEW u, Climbs(u, Append(w, x))
    PROVE  /\ Climbs(u, w) /\ Len(w) \in Nat /\ Len(Append(w, x)) = Len(w) + 1
           /\ u[Len(w) + 1] = Rise(u[Len(w)], x)
<1> DEFINE z == Append(w, x)
<1>1. Len(w) \in Nat /\ Len(z) = Len(w) + 1 /\ z[Len(w) + 1] = x /\ \A n \in 1 .. Len(w) : z[n] = w[n]
  OBVIOUS
<1>2. \A n \in 1 .. Len(z) : u[n] = Rise(u[n - 1], z[n])
  BY DEF Climbs
<1> HIDE DEF z
<1>3. Climbs(u, w)
  <2>1. \A n \in 1 .. Len(w) : n \in 1 .. Len(z)
    BY <1>1
  <2> QED
    BY <1>1, <1>2, <2>1 DEF Climbs
<1>4. u[Len(w) + 1] = Rise(u[Len(w)], x)
  <2>1. Len(w) + 1 \in 1 .. Len(z) /\ (Len(w) + 1) - 1 = Len(w)
    BY <1>1
  <2> QED
    BY <1>1, <1>2, <2>1
<1> QED
  BY <1>1, <1>3, <1>4 DEF z

\* The last step of a climb to a stretch s .. e split at m, from its left part and from its right one.
LeftTurn(leaves, path, u, i, s, m, e) ==
    LET hash == SubtreeHash(leaves)
        w == path[<<i, <<s, m>>>>]
    IN /\ Climbs(u, w) /\ Len(w) \in Nat /\ Len(path[<<i, <<s, e>>>>]) = Len(w) + 1
       /\ u[Len(w) + 1] = Rise(u[Len(w)], hash[<<m, e>>])
       /\ hash[<<s, e>>] = HashNode(hash[<<s, m>>], hash[<<m, e>>])
RightTurn(leaves, path, u, i, s, m, e) ==
    LET hash == SubtreeHash(leaves)
        w == path[<<s + i - m, <<m, e>>>>]
    IN /\ Climbs(u, w) /\ Len(w) \in Nat /\ Len(path[<<i, <<s, e>>>>]) = Len(w) + 1
       /\ u[Len(w) + 1] = Rise(u[Len(w)], hash[<<s, m>>])
       /\ hash[<<s, e>>] = HashNode(hash[<<s, m>>], hash[<<m, e>>])

\* Lemma: a climb to a split comes from the left,
LEMMA FromLeft ==
    ASSUME NEW leaves, Len(leaves) \in Nat, NEW path, Collects(path, leaves),
           NEW i \in 0 .. Len(leaves), NEW s \in 0 .. Len(leaves), NEW e \in 0 .. Len(leaves), e > s + 1,
           NEW m, m = s + Split(e - s), s + i < m, NEW u, Climbs(u, path[<<i, <<s, e>>>>])
    PROVE  LeftTurn(leaves, path, u, i, s, m, e)
<1> DEFINE n == Len(leaves)
           V == Hashes(leaves)
           hash == SubtreeHash(leaves)
           w == path[<<i, <<s, m>>>>]
<1>1. m \in 0 .. n /\ s < m /\ m < e /\ <<s, m>> \in Spans(n) /\ <<m, e>> \in Spans(n) /\ ~ (e <= s + 1)
  <2> DEFINE k == s + Split(e - s)
  <2>1. k \in 0 .. n /\ s < k /\ k < e /\ <<s, k>> \in Spans(n) /\ <<k, e>> \in Spans(n)
    BY SplitSpan
  <2>2. m = k
    OBVIOUS
  <2>3. ~ (e <= s + 1)
    OBVIOUS
  <2> HIDE DEF k
  <2> QED
    BY <2>1, <2>2, <2>3
<1>2. hash[<<m, e>>] \in V
  BY <1>1 DEF Hashes
<1>3. w \in Seq(V)
  BY <1>1, PathTyped
<1>4. path[<<i, <<s, e>>>>] = Branch(path, hash, i, s, e)
  BY DEF Collects
<1>5. hash[<<s, e>>] = HashNode(hash[<<s, m>>], hash[<<m, e>>])
  BY <1>1, HashIs
<1> HIDE DEF hash, V
<1>6. path[<<i, <<s, e>>>>] = Append(w, hash[<<m, e>>])
  BY <1>1, <1>4 DEF Branch
<1> HIDE DEF w
<1>7. /\ Climbs(u, w) /\ Len(w) \in Nat /\ Len(path[<<i, <<s, e>>>>]) = Len(w) + 1
      /\ u[Len(w) + 1] = Rise(u[Len(w)], hash[<<m, e>>])
  BY <1>2, <1>3, <1>6, ClimbsAppend
<1> QED
  BY <1>5, <1>7 DEF hash, w, LeftTurn

\* Lemma: or from the right.
LEMMA FromRight ==
    ASSUME NEW leaves, Len(leaves) \in Nat, NEW path, Collects(path, leaves),
           NEW i \in 0 .. Len(leaves), NEW s \in 0 .. Len(leaves), NEW e \in 0 .. Len(leaves), e > s + 1,
           NEW m, m = s + Split(e - s), ~ (s + i < m), NEW u, Climbs(u, path[<<i, <<s, e>>>>])
    PROVE  RightTurn(leaves, path, u, i, s, m, e)
<1> DEFINE n == Len(leaves)
           V == Hashes(leaves)
           hash == SubtreeHash(leaves)
           w == path[<<s + i - m, <<m, e>>>>]
<1>1. m \in 0 .. n /\ s < m /\ m < e /\ <<s, m>> \in Spans(n) /\ <<m, e>> \in Spans(n) /\ ~ (e <= s + 1)
      /\ s + i - m \in 0 .. n
  <2> DEFINE k == s + Split(e - s)
  <2>1. k \in 0 .. n /\ s < k /\ k < e /\ <<s, k>> \in Spans(n) /\ <<k, e>> \in Spans(n)
    BY SplitSpan
  <2>2. m = k
    OBVIOUS
  <2>3. ~ (e <= s + 1)
    OBVIOUS
  <2> HIDE DEF k
  <2>4. m \in 0 .. n /\ s < m /\ m < e
    BY <2>1, <2>2
  <2>5. s + i - m \in 0 .. n
    BY <2>4
  <2> QED
    BY <2>1, <2>2, <2>3, <2>5
<1>2. hash[<<s, m>>] \in V
  BY <1>1 DEF Hashes
<1>3. w \in Seq(V)
  BY <1>1, PathTyped
<1>4. path[<<i, <<s, e>>>>] = Branch(path, hash, i, s, e)
  BY DEF Collects
<1>5. hash[<<s, e>>] = HashNode(hash[<<s, m>>], hash[<<m, e>>])
  BY <1>1, HashIs
<1> HIDE DEF hash, V
<1>6. path[<<i, <<s, e>>>>] = Append(w, hash[<<s, m>>])
  BY <1>1, <1>4 DEF Branch
<1> HIDE DEF w
<1>7. /\ Climbs(u, w) /\ Len(w) \in Nat /\ Len(path[<<i, <<s, e>>>>]) = Len(w) + 1
      /\ u[Len(w) + 1] = Rise(u[Len(w)], hash[<<s, m>>])
  BY <1>2, <1>3, <1>6, ClimbsAppend
<1> QED
  BY <1>5, <1>7 DEF hash, w, RightTurn

\* Lemma: the arithmetic of one level.
LEMMA Levels ==
    ASSUME NEW a \in Nat, NEW p \in Nat, p >= 1
    PROVE  /\ a * (2 * p) = (2 * a) * p /\ a * (2 * p) + p = (2 * a + 1) * p
           /\ (a + 1) * (2 * p) = (2 * a + 2) * p
           /\ (2 * a + 1) * p >= (2 * a) * p /\ (2 * a + 2) * p = (2 * a + 1) * p + p
           /\ \A l \in Nat : (l \div p) \div 2 = l \div (2 * p)
           /\ \A l, c \in Nat : l >= c * p => l \div p >= c
           /\ \A l, c \in Nat : l >= c * p /\ l < c * p + p => l \div p = c
OBVIOUS

\* What a climb through a perfect part of p leaves, away from the edge, arrives at.
Inside(leaves, path, p) ==
    \A i, s, a, l \in Nat : \A u :
        LET w == path[<<i, <<s, s + p>>>>] IN
        /\ i < p /\ s + p <= Len(leaves) /\ l >= (a + 1) * p
        /\ u[0] = Foot(a * p + i, l, leaves[s + i + 1]) /\ Climbs(u, w)
        => u[Len(w)] = [position |-> a, last |-> l \div p,
                        running |-> SubtreeHash(leaves)[<<s, s + p>>], ok |-> TRUE]

\* Lemma: a leaf alone has no siblings.
LEMMA LeafAlone ==
    ASSUME NEW leaves, Len(leaves) \in Nat, NEW path, Collects(path, leaves),
           NEW s \in Nat, s + 1 <= Len(leaves)
    PROVE  path[<<0, <<s, s + 1>>>>] = <<>> /\ SubtreeHash(leaves)[<<s, s + 1>>] = HashLeaf(leaves[s + 1])
<1> DEFINE n == Len(leaves)
           e == s + 1
           hash == SubtreeHash(leaves)
<1>1. 0 \in 0 .. n /\ s \in 0 .. n /\ e \in 0 .. n /\ e <= s + 1
  OBVIOUS
<1> HIDE DEF e
<1>2. hash[<<s, e>>] = HashLeaf(leaves[e])
  BY <1>1, HashIs
<1>3. path[<<0, <<s, e>>>>] = Branch(path, hash, 0, s, e)
  BY <1>1 DEF Collects
<1>4. path[<<0, <<s, e>>>>] = <<>>
  BY <1>1, <1>3 DEF Branch
<1> QED
  BY <1>2, <1>4 DEF e

\* Lemma: a part of one leaf.
LEMMA InsideOne ==
    ASSUME NEW leaves, Len(leaves) \in Nat, NEW path, Collects(path, leaves)
    PROVE  Inside(leaves, path, 1)
<1> DEFINE hash == SubtreeHash(leaves)
<1>0. SUFFICES ASSUME NEW i \in Nat, NEW s \in Nat, NEW a \in Nat, NEW l \in Nat, NEW u,
                      i < 1, s + 1 <= Len(leaves),
                      u[0] = Foot(a * 1 + i, l, leaves[s + i + 1])
               PROVE  u[Len(path[<<i, <<s, s + 1>>>>])] = [position |-> a, last |-> l \div 1,
                        running |-> hash[<<s, s + 1>>], ok |-> TRUE]
  BY DEF Inside
<1>1. i = 0 /\ s + i + 1 = s + 1 /\ a * 1 + i = a /\ l \div 1 = l
  BY <1>0
<1>2. path[<<i, <<s, s + 1>>>>] = <<>> /\ hash[<<s, s + 1>>] = HashLeaf(leaves[s + 1])
  BY <1>0, <1>1, LeafAlone
<1>3. u[0] = [position |-> a, last |-> l, running |-> HashLeaf(leaves[s + 1]), ok |-> TRUE]
  BY <1>0, <1>1 DEF Foot
<1> QED
  BY <1>1, <1>2, <1>3

\* Lemma: two perfect parts.
LEMMA InsideTwice ==
    ASSUME NEW leaves, Len(leaves) \in Nat, NEW path, Collects(path, leaves),
           NEW x, IsPower(x), Inside(leaves, path, x)
    PROVE  Inside(leaves, path, 2 * x)
<1> DEFINE n == Len(leaves)
           hash == SubtreeHash(leaves)
<1>x. x \in Nat /\ x >= 1 /\ Split(2 * x) = x
  BY PowerHalf, SplitPerfect
<1>0. SUFFICES ASSUME NEW i \in Nat, NEW s \in Nat, NEW a \in Nat, NEW l \in Nat, NEW u,
                      i < 2 * x, s + 2 * x <= n, l >= (a + 1) * (2 * x),
                      u[0] = Foot(a * (2 * x) + i, l, leaves[s + i + 1]),
                      Climbs(u, path[<<i, <<s, s + 2 * x>>>>])
               PROVE  u[Len(path[<<i, <<s, s + 2 * x>>>>])] =
                        [position |-> a, last |-> l \div (2 * x),
                         running |-> hash[<<s, s + 2 * x>>], ok |-> TRUE]
  BY DEF Inside
<1> DEFINE m == s + x
           e == s + 2 * x
           b == 2 * a
           c == 2 * a + 1
           y == l \div x
<1>1. /\ s \in 0 .. n /\ m \in 0 .. n /\ e \in 0 .. n /\ i \in 0 .. n /\ e > s + 1
      /\ e - s = 2 * x /\ e = m + x /\ s < m /\ m \in Nat
  BY <1>0, <1>x
<1>2. m = s + Split(e - s)
  BY <1>x, <1>1
<1>3. /\ a * (2 * x) = b * x /\ a * (2 * x) + x = c * x
      /\ (a + 1) * (2 * x) = (c + 1) * x
      /\ (c + 1) * x = c * x + x /\ c * x = b * x + x
      /\ y \div 2 = l \div (2 * x) /\ y >= c + 1 /\ y \in Nat /\ b \in Nat /\ c \in Nat
      /\ b * x \in Nat /\ c * x \in Nat
  <2>1. /\ a * (2 * x) = b * x /\ a * (2 * x) + x = c * x
        /\ (a + 1) * (2 * x) = (c + 1) * x /\ (c + 1) * x = c * x + x /\ c * x = b * x + x
        /\ b \in Nat /\ c \in Nat /\ c + 1 \in Nat /\ b * x \in Nat /\ c * x \in Nat
    BY <1>x, Levels
  <2>2. l >= (c + 1) * x
    BY <1>0, <2>1
  <2>3. y \div 2 = l \div (2 * x) /\ y \in Nat
    BY <1>x, Levels
  <2>4. y >= c + 1
    <3> HIDE DEF c
    <3> QED
      BY <1>x, <2>1, <2>2, Levels
  <2> QED
    BY <2>1, <2>3, <2>4
<1>4. (2 * a) % 2 = 0 /\ (2 * a + 1) % 2 = 1 /\ b \div 2 = a /\ c \div 2 = a /\ b # y /\ y # 0 /\ b % 2 = 0 /\ c % 2 = 1
  BY <1>3
<1>u. /\ i < 2 * x /\ u[0] = Foot(a * (2 * x) + i, l, leaves[s + i + 1])
      /\ Climbs(u, path[<<i, <<s, e>>>>]) /\ l >= (c + 1) * x /\ l >= c * x /\ m + x <= n /\ s + x <= n
  BY <1>0, <1>1, <1>3, <1>x
<1>e. e = m + x /\ e = s + 2 * x /\ m = s + x
  BY <1>1
<1>y. y = l \div x /\ y \div 2 = l \div (2 * x)
  BY <1>3
<1> HIDE DEF m, e, b, c, y
<1>5. CASE s + i < m
  <2> DEFINE w == path[<<i, <<s, m>>>>]
  <2>1. /\ Climbs(u, w) /\ Len(w) \in Nat /\ Len(path[<<i, <<s, e>>>>]) = Len(w) + 1
        /\ u[Len(w) + 1] = Rise(u[Len(w)], hash[<<m, e>>])
        /\ hash[<<s, e>>] = HashNode(hash[<<s, m>>], hash[<<m, e>>])
    <3>1. s \in 0 .. n /\ e \in 0 .. n /\ i \in 0 .. n /\ e > s + 1
      BY <1>1
    <3>2. Climbs(u, path[<<i, <<s, e>>>>])
      BY <1>u
    <3>3. LeftTurn(leaves, path, u, i, s, m, e)
      BY <1>2, <1>5, <3>1, <3>2, FromLeft
    <3> QED
      BY <3>3 DEF LeftTurn
  <2>2. i < x /\ u[0] = Foot(b * x + i, l, leaves[s + i + 1]) /\ l >= (b + 1) * x
    <3>1. (b + 1) * x = c * x
      BY DEF b, c
    <3>2. i < x
      BY <1>5, <1>e, <1>x
    <3>3. u[0] = Foot(b * x + i, l, leaves[s + i + 1])
      BY <1>3, <1>u
    <3>4. l >= (b + 1) * x
      BY <1>u, <3>1
    <3> QED
      BY <3>2, <3>3, <3>4
  <2>3. u[Len(w)] = [position |-> b, last |-> y, running |-> hash[<<s, m>>], ok |-> TRUE]
    <3>1. b \in Nat /\ s + x <= Len(leaves) /\ m = s + x
      BY <1>3, <1>u, <1>e
    <3>2. Climbs(u, path[<<i, <<s, s + x>>>>])
      BY <2>1, <3>1
    <3>3. u[Len(path[<<i, <<s, s + x>>>>])] =
            [position |-> b, last |-> l \div x, running |-> SubtreeHash(leaves)[<<s, s + x>>], ok |-> TRUE]
      BY <2>2, <3>1, <3>2 DEF Inside
    <3> QED
      BY <1>y, <3>1, <3>3
  <2>4. u[Len(w) + 1] = [position |-> a, last |-> y \div 2,
                         running |-> HashNode(hash[<<s, m>>], hash[<<m, e>>]), ok |-> TRUE]
    <3> DEFINE z == hash[<<s, m>>]
               sibling == hash[<<m, e>>]
    <3>1. u[Len(w) + 1] = Rise(u[Len(w)], sibling) /\ u[Len(w)] = [position |-> b, last |-> y, running |-> z, ok |-> TRUE]
      BY <2>1, <2>3
    <3> HIDE DEF z, sibling, hash, w
    <3>2. Rise([position |-> b, last |-> y, running |-> z, ok |-> TRUE], sibling) =
            [position |-> b \div 2, last |-> y \div 2, running |-> HashNode(z, sibling), ok |-> TRUE]
      <4>1. RiseLaw(b, y, z, sibling)
        BY <1>3, <1>4, RiseLaws
      <4> QED
        BY <1>4, <4>1 DEF RiseLaw
    <3> QED
      BY <1>4, <3>1, <3>2 DEF z, sibling
  <2> QED
    BY <1>y, <1>e, <2>1, <2>4
<1>6. CASE ~ (s + i < m)
  <2> DEFINE j == s + i - m
             w == path[<<j, <<m, e>>>>]
  <2>1. /\ Climbs(u, w) /\ Len(w) \in Nat /\ Len(path[<<i, <<s, e>>>>]) = Len(w) + 1
        /\ u[Len(w) + 1] = Rise(u[Len(w)], hash[<<s, m>>])
        /\ hash[<<s, e>>] = HashNode(hash[<<s, m>>], hash[<<m, e>>])
    <3>1. s \in 0 .. n /\ e \in 0 .. n /\ i \in 0 .. n /\ e > s + 1
      BY <1>1
    <3>2. Climbs(u, path[<<i, <<s, e>>>>])
      BY <1>u
    <3>3. RightTurn(leaves, path, u, i, s, m, e)
      BY <1>2, <1>6, <3>1, <3>2, FromRight
    <3> QED
      BY <3>3 DEF RightTurn
  <2>2. j \in Nat /\ j < x /\ i = j + x /\ m + j + 1 = s + i + 1
    <3>1. i < 2 * x /\ s \in Nat /\ i \in Nat /\ x \in Nat /\ m = s + x /\ ~ (s + i < m)
      BY <1>6, <1>e, <1>u, <1>x
    <3> HIDE DEF hash, w
    <3> QED
      BY <3>1
  <2>3. u[0] = Foot(c * x + j, l, leaves[m + j + 1])
    <3>1. a * (2 * x) + i = c * x + j
      BY <1>3, <1>x, <2>2
    <3> QED
      BY <1>u, <2>2, <3>1
  <2> HIDE DEF j
  <2>4. u[Len(w)] = [position |-> c, last |-> y, running |-> hash[<<m, e>>], ok |-> TRUE]
    <3>1. /\ j \in Nat /\ m \in Nat /\ c \in Nat /\ l \in Nat /\ j < x /\ m + x <= n /\ l >= (c + 1) * x
          /\ u[0] = Foot(c * x + j, l, leaves[m + j + 1]) /\ e = m + x
      BY <1>1, <1>3, <1>u, <1>e, <2>2, <2>3
    <3>2. Climbs(u, path[<<j, <<m, m + x>>>>])
      BY <2>1, <3>1
    <3>3. u[Len(path[<<j, <<m, m + x>>>>])] =
            [position |-> c, last |-> l \div x, running |-> SubtreeHash(leaves)[<<m, m + x>>], ok |-> TRUE]
      BY <3>1, <3>2 DEF Inside
    <3> QED
      BY <1>y, <3>1, <3>3
  <2>5. u[Len(w) + 1] = [position |-> a, last |-> y \div 2,
                         running |-> HashNode(hash[<<s, m>>], hash[<<m, e>>]), ok |-> TRUE]
    <3> DEFINE z == hash[<<m, e>>]
               sibling == hash[<<s, m>>]
    <3>1. u[Len(w) + 1] = Rise(u[Len(w)], sibling) /\ u[Len(w)] = [position |-> c, last |-> y, running |-> z, ok |-> TRUE]
      BY <2>1, <2>4
    <3> HIDE DEF z, sibling, hash, w
    <3>2. Rise([position |-> c, last |-> y, running |-> z, ok |-> TRUE], sibling) =
            [position |-> c \div 2, last |-> y \div 2, running |-> HashNode(sibling, z), ok |-> TRUE]
      <4>1. RiseLaw(c, y, z, sibling)
        BY <1>3, <1>4, RiseLaws
      <4> QED
        BY <1>4, <4>1 DEF RiseLaw
    <3> QED
      BY <1>4, <3>1, <3>2 DEF z, sibling
  <2> QED
    BY <1>y, <1>e, <2>1, <2>5
<1> QED
  BY <1>5, <1>6

\* Lemma: away from the edge every other node is a left one.
LEMMA InsideAll ==
    ASSUME NEW leaves, Len(leaves) \in Nat, NEW path, Collects(path, leaves), NEW p, IsPower(p)
    PROVE  Inside(leaves, path, p)
<1> DEFINE T == {x \in Nat : IsPower(x) /\ Inside(leaves, path, x)}
<1>1. 1 \in T
  BY InsideOne, PowerTwice
<1>2. ASSUME NEW x \in T PROVE 2 * x \in T
  BY InsideTwice, PowerTwice
<1>3. T \in SUBSET Nat
  OBVIOUS
<1> HIDE DEF T
<1>4. p \in T
  BY <1>1, <1>2, <1>3 DEF IsPower
<1> QED
  BY <1>4 DEF T

\* The leaves of the perfect tree that one of n leaves fits in.
Width(n) == IF n = 1 THEN 1 ELSE 2 * Split(n)

\* Lemma: a perfect tree that has room for n leaves is made of perfect ones of their width.
LEMMA WidthIs ==
    ASSUME NEW n \in Nat, n >= 1, NEW p, IsPower(p), n <= p
    PROVE  Width(n) \in Nat /\ Width(n) >= 1 /\ \E q : IsPower(q) /\ p = Width(n) * q
<1>1. IsPower(Width(n)) /\ Width(n) <= p
  <2>1. CASE n = 1
    BY <2>1, PowerTwice DEF Width
  <2>2. CASE n # 1
    <3>1. IsPower(Split(n)) /\ Split(n) \in 1 .. n - 1
      BY <2>2, SplitIs
    <3>2. 2 * Split(n) <= p
      BY <3>1, PowerHalf, PowerGap
    <3> QED
      BY <2>2, <3>1, <3>2, PowerTwice DEF Width
  <2> QED
    BY <2>1, <2>2
<1> HIDE DEF Width
<1>2. Width(n) \in Nat /\ Width(n) >= 1
  BY <1>1, PowerHalf
<1> QED
  BY <1>1, <1>2, PowerGap

\* What a climb through the n leaves at the right edge arrives at.
Edge(leaves, path, n) ==
    \A i, s, a \in Nat : \A u :
        LET w == path[<<i, <<s, s + n>>>>] IN
        /\ i < n /\ s + n <= Len(leaves)
        /\ u[0] = Foot(a * Width(n) + i, a * Width(n) + n - 1, leaves[s + i + 1]) /\ Climbs(u, w)
        => u[Len(w)] = [position |-> a, last |-> a,
                        running |-> SubtreeHash(leaves)[<<s, s + n>>], ok |-> TRUE]

\* Lemma: a last leaf.
LEMMA EdgeOne ==
    ASSUME NEW leaves, Len(leaves) \in Nat, NEW path, Collects(path, leaves)
    PROVE  Edge(leaves, path, 1)
<1> DEFINE hash == SubtreeHash(leaves)
<1>0. SUFFICES ASSUME NEW i \in Nat, NEW s \in Nat, NEW a \in Nat, NEW u,
                      i < 1, s + 1 <= Len(leaves),
                      u[0] = Foot(a * 1 + i, a * 1 + 1 - 1, leaves[s + i + 1]),
                      Climbs(u, path[<<i, <<s, s + 1>>>>])
               PROVE  u[Len(path[<<i, <<s, s + 1>>>>])] = [position |-> a, last |-> a,
                        running |-> hash[<<s, s + 1>>], ok |-> TRUE]
  <2>1. Width(1) = 1
    BY DEF Width
  <2> QED
    BY <2>1 DEF Edge
<1>1. i = 0 /\ s + i + 1 = s + 1 /\ a * 1 + i = a /\ a * 1 + 1 - 1 = a
  BY <1>0
<1>2. path[<<i, <<s, s + 1>>>>] = <<>> /\ hash[<<s, s + 1>>] = HashLeaf(leaves[s + 1])
  BY <1>0, <1>1, LeafAlone
<1>3. u[0] = [position |-> a, last |-> a, running |-> HashLeaf(leaves[s + 1]), ok |-> TRUE]
  BY <1>0, <1>1 DEF Foot
<1> QED
  BY <1>2, <1>3

\* Lemma: a right edge of two leaves or more.
LEMMA EdgeMore ==
    ASSUME NEW leaves, Len(leaves) \in Nat, NEW path, Collects(path, leaves),
           NEW d \in Nat, d >= 2, \A k \in 1 .. d - 1 : Edge(leaves, path, k)
    PROVE  Edge(leaves, path, d)
<1> DEFINE n == Len(leaves)
           hash == SubtreeHash(leaves)
           x == Split(d)
           r == d - x
           wide == Width(r)
<1>x. x \in Nat /\ x >= 1 /\ x < d /\ d <= 2 * x /\ IsPower(x) /\ Width(d) = 2 * x
  <2>1. Width(d) = 2 * x
    BY DEF Width
  <2>2. IsPower(x) /\ x \in 1 .. d - 1 /\ 2 * x >= d
    BY SplitIs
  <2> HIDE DEF x
  <2> QED
    BY <2>1, <2>2
<1>0. SUFFICES ASSUME NEW i \in Nat, NEW s \in Nat, NEW a \in Nat, NEW u,
                      i < d, s + d <= n,
                      u[0] = Foot(a * (2 * x) + i, a * (2 * x) + d - 1, leaves[s + i + 1]),
                      Climbs(u, path[<<i, <<s, s + d>>>>])
               PROVE  u[Len(path[<<i, <<s, s + d>>>>])] =
                        [position |-> a, last |-> a, running |-> hash[<<s, s + d>>], ok |-> TRUE]
  <2> HIDE DEF hash, x
  <2> QED
    BY <1>x DEF Edge, hash
<1> DEFINE m == s + x
           e == s + d
           l == a * (2 * x) + d - 1
           b == 2 * a
           c == 2 * a + 1
<1>2. m = s + Split(e - s)
  <2>1. e - s = d
    OBVIOUS
  <2> QED
    BY <2>1
<1>r. r \in Nat /\ r >= 1 /\ r <= x /\ r \in 1 .. d - 1 /\ d = x + r
  <2> HIDE DEF x
  <2> QED
    BY <1>x
<1> HIDE DEF x
<1>1. /\ s \in 0 .. n /\ m \in 0 .. n /\ e \in 0 .. n /\ i \in 0 .. n /\ e > s + 1 /\ m \in Nat
      /\ e = s + d /\ m = s + x /\ e = m + r /\ m + r <= n /\ s + x <= n
  BY <1>0, <1>x, <1>r
<1>3. /\ a * (2 * x) = b * x /\ a * (2 * x) + x = c * x /\ c * x = b * x + x /\ (c + 1) * x = c * x + x
      /\ b \in Nat /\ c \in Nat /\ c # 0 /\ b * x \in Nat /\ c * x \in Nat
      /\ b % 2 = 0 /\ c % 2 = 1 /\ b \div 2 = a /\ c \div 2 = a /\ b # c /\ c = b + 1
  BY <1>x, Levels
<1>4. l \in Nat /\ l >= c * x /\ l < c * x + x /\ l = c * x + r - 1
  BY <1>3, <1>x, <1>r
<1>5. l \div x = c
  BY <1>3, <1>4, <1>x, Levels
<1>u. u[0] = Foot(a * (2 * x) + i, l, leaves[s + i + 1]) /\ Climbs(u, path[<<i, <<s, e>>>>])
  BY <1>0
<1> HIDE DEF m, e, l, b, c, r, wide, hash
<1>6. CASE s + i < m
  <2> DEFINE w == path[<<i, <<s, m>>>>]
  <2>1. LeftTurn(leaves, path, u, i, s, m, e)
    BY <1>1, <1>2, <1>6, <1>u, FromLeft
  <2>2. /\ Climbs(u, w) /\ Len(w) \in Nat /\ Len(path[<<i, <<s, e>>>>]) = Len(w) + 1
        /\ u[Len(w) + 1] = Rise(u[Len(w)], hash[<<m, e>>])
        /\ hash[<<s, e>>] = HashNode(hash[<<s, m>>], hash[<<m, e>>])
    BY <2>1 DEF LeftTurn, hash
  <2>3. i < x /\ (b + 1) * x = c * x /\ l >= (b + 1) * x /\ a * (2 * x) + i = b * x + i
    BY <1>1, <1>3, <1>4, <1>6, <1>x
  <2>4. Inside(leaves, path, x)
    BY <1>x, InsideAll
  <2>5. u[Len(path[<<i, <<s, s + x>>>>])] =
          [position |-> b, last |-> l \div x, running |-> hash[<<s, s + x>>], ok |-> TRUE]
    <3>1. u[0] = Foot(b * x + i, l, leaves[s + i + 1])
      BY <1>u, <2>3
    <3>2. Climbs(u, path[<<i, <<s, s + x>>>>])
      BY <1>1, <2>2
    <3> QED
      <4>1. b \in Nat /\ l \in Nat /\ i < x /\ s + x <= Len(leaves) /\ l >= (b + 1) * x
        BY <1>1, <1>3, <1>4, <2>3
      <4>2. u[Len(path[<<i, <<s, s + x>>>>])] =
              [position |-> b, last |-> l \div x, running |-> SubtreeHash(leaves)[<<s, s + x>>], ok |-> TRUE]
        BY <2>4, <3>1, <3>2, <4>1 DEF Inside
      <4> QED
        BY <4>2 DEF hash
  <2>6. u[Len(w)] = [position |-> b, last |-> c, running |-> hash[<<s, m>>], ok |-> TRUE]
    BY <1>1, <1>5, <2>5
  <2>7. u[Len(w) + 1] = [position |-> a, last |-> a, running |-> HashNode(hash[<<s, m>>], hash[<<m, e>>]), ok |-> TRUE]
    <3> DEFINE z == hash[<<s, m>>]
               sibling == hash[<<m, e>>]
    <3>1. u[Len(w) + 1] = Rise(u[Len(w)], sibling) /\ u[Len(w)] = [position |-> b, last |-> c, running |-> z, ok |-> TRUE]
      BY <2>2, <2>6
    <3> HIDE DEF z, sibling, w
    <3>2. RiseLaw(b, c, z, sibling)
      BY <1>3, RiseLaws
    <3>3. Rise([position |-> b, last |-> c, running |-> z, ok |-> TRUE], sibling) =
            [position |-> b \div 2, last |-> c \div 2, running |-> HashNode(z, sibling), ok |-> TRUE]
      BY <1>3, <3>2 DEF RiseLaw
    <3> QED
      BY <1>3, <3>1, <3>3 DEF z, sibling
  <2> QED
    BY <1>1, <2>2, <2>7
<1>7. CASE ~ (s + i < m)
  <2> DEFINE j == s + i - m
             w == path[<<j, <<m, e>>>>]
  <2>1. RightTurn(leaves, path, u, i, s, m, e)
    BY <1>1, <1>2, <1>7, <1>u, FromRight
  <2>2. /\ Climbs(u, w) /\ Len(w) \in Nat /\ Len(path[<<i, <<s, e>>>>]) = Len(w) + 1
        /\ u[Len(w) + 1] = Rise(u[Len(w)], hash[<<s, m>>])
        /\ hash[<<s, e>>] = HashNode(hash[<<s, m>>], hash[<<m, e>>])
    BY <2>1 DEF RightTurn, hash
  <2>3. j \in Nat /\ j < r /\ i = j + x /\ m + j + 1 = s + i + 1
    BY <1>0, <1>1, <1>7, <1>x, <1>r
  <2> HIDE DEF j
  <2>4. PICK q : IsPower(q) /\ x = wide * q
    BY <1>r, <1>x, WidthIs DEF wide
  <2>w. wide \in Nat /\ q \in Nat /\ q >= 1
    BY <1>r, <1>x, <2>4, WidthIs, PowerHalf DEF wide
  <2> DEFINE k == c * q
  <2>5. k \in Nat /\ k # 0 /\ c * x = k * wide
    <3>1. c * (wide * q) = (c * q) * wide /\ c * q \in Nat /\ c * q # 0
      BY <1>3, <2>w
    <3> QED
      BY <2>4, <3>1
  <2>6. u[Len(path[<<j, <<m, m + r>>>>])] =
          [position |-> k, last |-> k, running |-> hash[<<m, m + r>>], ok |-> TRUE]
    <3>1. u[0] = Foot(k * wide + j, k * wide + r - 1, leaves[m + j + 1])
      <4>1. a * (2 * x) + i = k * wide + j
        BY <1>3, <1>x, <2>3, <2>5
      <4>2. l = k * wide + r - 1
        BY <1>4, <2>5
      <4> HIDE DEF k
      <4> QED
        BY <1>u, <2>3, <4>1, <4>2
    <3>2. Climbs(u, path[<<j, <<m, m + r>>>>])
      BY <1>1, <2>2
    <3>3. Edge(leaves, path, r)
      BY <1>r
    <3> HIDE DEF k
    <3> QED
      <4>1. k \in Nat /\ m \in Nat /\ j \in Nat /\ j < r /\ m + r <= Len(leaves)
        BY <1>1, <2>3, <2>5
      <4>2. u[0] = Foot(k * Width(r) + j, k * Width(r) + r - 1, leaves[m + j + 1])
        BY <3>1 DEF wide
      <4>3. u[Len(path[<<j, <<m, m + r>>>>])] =
              [position |-> k, last |-> k, running |-> SubtreeHash(leaves)[<<m, m + r>>], ok |-> TRUE]
        BY <3>2, <3>3, <4>1, <4>2 DEF Edge
      <4> QED
        BY <4>3 DEF hash
  <2>7. u[Len(w)] = [position |-> k, last |-> k, running |-> hash[<<m, e>>], ok |-> TRUE]
    BY <1>1, <2>6
  <2>8. u[Len(w) + 1] = [position |-> a, last |-> a, running |-> HashNode(hash[<<s, m>>], hash[<<m, e>>]), ok |-> TRUE]
    <3> DEFINE z == hash[<<m, e>>]
               sibling == hash[<<s, m>>]
    <3>1. u[Len(w) + 1] = Rise(u[Len(w)], sibling) /\ u[Len(w)] = [position |-> k, last |-> k, running |-> z, ok |-> TRUE]
      BY <2>2, <2>7
    <3>k. k = c * q
      OBVIOUS
    <3> HIDE DEF z, sibling, w, k
    <3>2. RiseLaw(k, k, z, sibling)
      BY <2>5, RiseLaws
    <3>3. Rise([position |-> k, last |-> k, running |-> z, ok |-> TRUE], sibling) =
            [position |-> c \div 2, last |-> c \div 2, running |-> HashNode(sibling, z), ok |-> TRUE]
      BY <1>3, <2>4, <3>k, <3>2 DEF RiseLaw
    <3> QED
      BY <1>3, <3>1, <3>3 DEF z, sibling
  <2> QED
    BY <1>1, <2>2, <2>8
<1> QED
  BY <1>6, <1>7

\* Lemma: at the right edge every node is a left one, a right one or the last.
LEMMA EdgeAll ==
    ASSUME NEW leaves, Len(leaves) \in Nat, NEW path, Collects(path, leaves), NEW n \in Nat, n >= 1
    PROVE  Edge(leaves, path, n)
<1> DEFINE Bad == {d \in Nat : d >= 1 /\ ~ Edge(leaves, path, d)}
<1> SUFFICES ASSUME Bad # {} PROVE FALSE
  OBVIOUS
<1>1. PICK d \in Bad : \A y \in Bad : d <= y
  <2>1. Bad \in SUBSET Nat
    OBVIOUS
  <2> HIDE DEF Bad
  <2> QED
    BY <2>1, LeastOf
<1>2. d \in Nat /\ d >= 1 /\ ~ Edge(leaves, path, d)
  OBVIOUS
<1>3. \A k \in 1 .. d - 1 : Edge(leaves, path, k)
  <2>1. \A k \in 1 .. d - 1 : k \in Nat /\ k >= 1 /\ k < d
    BY <1>2
  <2>2. \A k \in Nat : k >= 1 /\ k \notin Bad => Edge(leaves, path, k)
    OBVIOUS
  <2> HIDE DEF Bad
  <2> QED
    BY <1>1, <1>2, <2>1, <2>2
<1> HIDE DEF Bad
<1>4. d # 1
  BY <1>2, EdgeOne
<1> QED
  BY <1>2, <1>3, <1>4, EdgeMore

-----------------------------------------------------------------------------
(* A proof verifies for its own leaf and path only.                        *)

\* Nodes at the same place.
Level(x, y) == x.position = y.position /\ x.last = y.last /\ x.ok = y.ok

\* Lemma: one sibling takes nodes of the same place to the same place, and what is hashed there is
\* the same only when the nodes and the siblings were; the root has none.
LEMMA RiseTogether ==
    ASSUME NEW x, NEW y, NEW b, NEW c, Level(x, y)
    PROVE  /\ Level(Rise(x, b), Rise(y, c))
           /\ Rise(x, b).running = Rise(y, c).running => x.running = y.running /\ b = c
           /\ Rise(x, b).ok => x.ok /\ x.last # 0
<1>1. SkipLevels(x) = SkipLevels(y)
  BY DEF SkipLevels, Level
<1> DEFINE right == x.position % 2 = 1 \/ x.position = x.last
           level == SkipLevels(x)
<1>2. CASE right
  <2>1. Rise(x, b) = [position |-> level.position \div 2, last |-> level.last \div 2,
                      running |-> HashNode(b, x.running), ok |-> x.ok /\ x.last # 0]
    BY <1>2 DEF Rise
  <2>2. Rise(y, c) = [position |-> level.position \div 2, last |-> level.last \div 2,
                      running |-> HashNode(c, y.running), ok |-> x.ok /\ x.last # 0]
    BY <1>1, <1>2 DEF Rise, Level
  <2> DEFINE ok == x.ok /\ x.last # 0
  <2> HIDE DEF level
  <2>3. HashNode(b, x.running) = HashNode(c, y.running) => x.running = y.running /\ b = c
    BY DEF HashNode
  <2>4. Rise(x, b).running = HashNode(b, x.running) /\ Rise(y, c).running = HashNode(c, y.running)
    BY <2>1, <2>2
  <2>5. Rise(x, b).ok = ok /\ Rise(y, c).ok = ok
    <3> HIDE DEF ok
    <3> QED
      BY <2>1, <2>2 DEF ok
  <2>6. /\ Rise(x, b).position = Rise(y, c).position
        /\ Rise(x, b).last = Rise(y, c).last
    BY <2>1, <2>2
  <2> QED
    BY <2>3, <2>4, <2>5, <2>6 DEF Level
<1>3. CASE ~ right
  <2>1. Rise(x, b) = [position |-> x.position \div 2, last |-> x.last \div 2,
                      running |-> HashNode(x.running, b), ok |-> x.ok /\ x.last # 0]
    BY <1>3 DEF Rise
  <2>2. Rise(y, c) = [position |-> x.position \div 2, last |-> x.last \div 2,
                      running |-> HashNode(y.running, c), ok |-> x.ok /\ x.last # 0]
    BY <1>3 DEF Rise, Level
  <2> DEFINE ok == x.ok /\ x.last # 0
  <2>3. HashNode(x.running, b) = HashNode(y.running, c) => x.running = y.running /\ b = c
    BY DEF HashNode
  <2>4. Rise(x, b).running = HashNode(x.running, b) /\ Rise(y, c).running = HashNode(y.running, c)
    BY <2>1, <2>2
  <2>5. Rise(x, b).ok = ok /\ Rise(y, c).ok = ok
    <3> HIDE DEF ok
    <3> QED
      BY <2>1, <2>2 DEF ok
  <2>6. /\ Rise(x, b).position = Rise(y, c).position
        /\ Rise(x, b).last = Rise(y, c).last
    BY <2>1, <2>2
  <2> QED
    BY <2>3, <2>4, <2>5, <2>6 DEF Level
<1> QED
  BY <1>2, <1>3

\* Lemma: a climb that goes well is below the root until its end.
LEMMA WellDown ==
    ASSUME NEW u, NEW path, Len(path) \in Nat, Climbs(u, path), u[Len(path)].ok
    PROVE  \A k \in 0 .. Len(path) : u[k].ok /\ (k < Len(path) => u[k].last # 0)
<1> DEFINE n == Len(path)
           Well(k) == u[k].ok /\ (k < n => u[k].last # 0)
           Bad == {d \in 0 .. n : ~ Well(n - d)}
<1>1. Bad = {}
  <2> SUFFICES ASSUME Bad # {} PROVE FALSE
    OBVIOUS
  <2>1. PICK d \in Bad : \A y \in Bad : d <= y
    <3>1. Bad \in SUBSET Nat
      OBVIOUS
    <3> HIDE DEF Bad
    <3> QED
      BY <3>1, LeastOf
  <2>2. d \in 0 .. n /\ ~ Well(n - d)
    OBVIOUS
  <2>3. d # 0
    <3>1. n - 0 = n
      OBVIOUS
    <3> QED
      BY <2>2, <3>1
  <2>4. Well(n - (d - 1))
    <3>1. d - 1 \in 0 .. n /\ ~ (d <= d - 1)
      BY <2>2, <2>3
    <3>2. d - 1 \notin Bad
      <4> HIDE DEF Bad
      <4> QED
        BY <2>1, <3>1
    <3> HIDE DEF Well
    <3> QED
      BY <3>1, <3>2
  <2> DEFINE k == n - d
  <2>5. k + 1 \in 1 .. n /\ (k + 1) - 1 = k /\ n - (d - 1) = k + 1
    BY <2>2, <2>3
  <2> HIDE DEF k
  <2>6. u[k + 1] = Rise(u[k], path[k + 1])
    BY <2>5 DEF Climbs
  <2>7. u[k + 1].ok
    BY <2>4, <2>5
  <2>8. Level(u[k], u[k])
    BY DEF Level
  <2>9. u[k].ok /\ u[k].last # 0
    BY <2>6, <2>7, <2>8, RiseTogether
  <2> QED
    BY <2>2, <2>9 DEF k
<1>2. ASSUME NEW k \in 0 .. n PROVE Well(k)
  <2>1. n - k \in 0 .. n /\ n - (n - k) = k
    OBVIOUS
  <2>2. n - k \notin Bad
    BY <1>1
  <2> HIDE DEF Well
  <2> QED
    BY <2>1, <2>2
<1> QED
  BY <1>2

\* Lemma: two climbs from one place that arrive at one root are the same.
LEMMA OneClimb ==
    ASSUME NEW u, NEW v, NEW p, NEW q, Len(p) \in Nat, Len(q) \in Nat, Climbs(u, p), Climbs(v, q),
           Level(u[0], v[0]), u[Len(p)].ok, u[Len(p)].last = 0, v[Len(q)].ok, v[Len(q)].last = 0,
           u[Len(p)].running = v[Len(q)].running
    PROVE  Len(p) = Len(q) /\ u[0].running = v[0].running /\ \A k \in 1 .. Len(p) : p[k] = q[k]
<1> DEFINE Bad == {k \in Nat : k <= Len(p) /\ k <= Len(q) /\ ~ Level(u[k], v[k])}
<1>1. Bad = {}
  <2> SUFFICES ASSUME Bad # {} PROVE FALSE
    OBVIOUS
  <2>1. PICK d \in Bad : \A y \in Bad : d <= y
    <3>1. Bad \in SUBSET Nat
      OBVIOUS
    <3> HIDE DEF Bad
    <3> QED
      BY <3>1, LeastOf
  <2>2. d \in Nat /\ d <= Len(p) /\ d <= Len(q) /\ ~ Level(u[d], v[d])
    OBVIOUS
  <2>3. d # 0
    BY <2>2
  <2>4. d - 1 \in Nat /\ d - 1 <= Len(p) /\ d - 1 <= Len(q) /\ ~ (d <= d - 1) /\ d \in 1 .. Len(p) /\ d \in 1 .. Len(q)
    BY <2>2, <2>3
  <2>5. Level(u[d - 1], v[d - 1])
    <3>1. d - 1 \notin Bad
      <4> HIDE DEF Bad
      <4> QED
        BY <2>1, <2>4
    <3> QED
      BY <2>4, <3>1
  <2>6. u[d] = Rise(u[d - 1], p[d]) /\ v[d] = Rise(v[d - 1], q[d])
    BY <2>4 DEF Climbs
  <2> QED
    BY <2>2, <2>5, <2>6, RiseTogether
<1>2. \A k \in Nat : k <= Len(p) /\ k <= Len(q) => Level(u[k], v[k])
  BY <1>1
<1> HIDE DEF Bad
<1>3. Len(p) = Len(q)
  <2>1. ASSUME Len(p) < Len(q) PROVE FALSE
    <3>1. Level(u[Len(p)], v[Len(p)])
      BY <1>2, <2>1
    <3>2. Len(p) \in 0 .. Len(q)
      BY <2>1
    <3>3. v[Len(p)].last # 0
      BY <2>1, <3>2, WellDown
    <3> QED
      BY <3>1, <3>3 DEF Level
  <2>2. ASSUME Len(q) < Len(p) PROVE FALSE
    <3>1. Level(u[Len(q)], v[Len(q)])
      BY <1>2, <2>2
    <3>2. Len(q) \in 0 .. Len(p)
      BY <2>2
    <3>3. u[Len(q)].last # 0
      BY <2>2, <3>2, WellDown
    <3> QED
      BY <3>1, <3>3 DEF Level
  <2> QED
    BY <2>1, <2>2
<1> DEFINE n == Len(p)
           Apart == {d \in 0 .. n : u[n - d].running # v[n - d].running}
<1>4. Apart = {}
  <2> SUFFICES ASSUME Apart # {} PROVE FALSE
    OBVIOUS
  <2>1. PICK d \in Apart : \A y \in Apart : d <= y
    <3>1. Apart \in SUBSET Nat
      OBVIOUS
    <3> HIDE DEF Apart
    <3> QED
      BY <3>1, LeastOf
  <2>2. d \in 0 .. n /\ u[n - d].running # v[n - d].running
    OBVIOUS
  <2>3. d # 0
    <3>1. n - 0 = n
      OBVIOUS
    <3> QED
      BY <1>3, <2>2, <3>1
  <2>4. u[n - (d - 1)].running = v[n - (d - 1)].running
    <3>1. d - 1 \in 0 .. n /\ ~ (d <= d - 1)
      BY <2>2, <2>3
    <3>2. d - 1 \notin Apart
      <4> HIDE DEF Apart
      <4> QED
        BY <2>1, <3>1
    <3> QED
      BY <3>1, <3>2
  <2> DEFINE k == n - d
  <2>5. k + 1 \in 1 .. n /\ (k + 1) - 1 = k /\ n - (d - 1) = k + 1 /\ k \in Nat /\ k <= n
    BY <2>2, <2>3
  <2> HIDE DEF k
  <2>6. u[k + 1] = Rise(u[k], p[k + 1]) /\ v[k + 1] = Rise(v[k], q[k + 1])
    BY <1>3, <2>5 DEF Climbs
  <2>7. Level(u[k], v[k])
    BY <1>2, <1>3, <2>5
  <2>8. Rise(u[k], p[k + 1]).running = Rise(v[k], q[k + 1]).running
    BY <2>4, <2>5, <2>6
  <2>9. u[k].running = v[k].running
    BY <2>7, <2>8, RiseTogether
  <2> QED
    BY <2>2, <2>9 DEF k
<1>5. \A k \in 0 .. n : u[k].running = v[k].running
  <2> SUFFICES ASSUME NEW k \in 0 .. n PROVE u[k].running = v[k].running
    OBVIOUS
  <2>1. n - k \in 0 .. n /\ n - (n - k) = k
    OBVIOUS
  <2>2. n - k \notin Apart
    BY <1>4
  <2> QED
    BY <2>1, <2>2
<1> HIDE DEF Apart
<1>6. ASSUME NEW k \in 1 .. n PROVE p[k] = q[k]
  <2>1. k - 1 \in Nat /\ k - 1 <= n /\ k \in 0 .. n
    OBVIOUS
  <2>2. u[k] = Rise(u[k - 1], p[k]) /\ v[k] = Rise(v[k - 1], q[k])
    BY <1>3 DEF Climbs
  <2>3. Level(u[k - 1], v[k - 1])
    BY <1>2, <1>3, <2>1
  <2>4. Rise(u[k - 1], p[k]).running = Rise(v[k - 1], q[k]).running
    BY <1>5, <2>1, <2>2
  <2> QED
    BY <2>3, <2>4, RiseTogether
<1>7. u[0].running = v[0].running
  <2>1. 0 \in 0 .. n
    OBVIOUS
  <2> QED
    BY <1>5, <2>1
<1> QED
  BY <1>3, <1>6, <1>7

\* Lemma: the path of an index climbs from its leaf to the root.
LEMMA AuditClimbs ==
    ASSUME NEW leaves, Len(leaves) \in Nat, NEW index \in 0 .. Len(leaves) - 1, NEW u,
           u[0] = Foot(index, Len(leaves) - 1, leaves[index + 1]), Climbs(u, AuditPath(leaves, index))
    PROVE  u[Len(AuditPath(leaves, index))] =
             [position |-> 0, last |-> 0, running |-> Root(leaves), ok |-> TRUE]
<1> DEFINE n == Len(leaves)
<1>0. PICK path : /\ Collects(path, leaves)
                  /\ \A i : AuditPath(leaves, i) = path[<<i, <<0, n>>>>]
  BY AuditPathIs
<1>1. n \in Nat /\ n >= 1 /\ index \in Nat /\ index < n /\ 0 + n = n /\ 0 + index + 1 = index + 1
  OBVIOUS
<1>2. Edge(leaves, path, n)
  BY <1>0, <1>1, EdgeAll
<1>3. Width(n) \in Nat
  <2>1. ~ (n = 1) => Split(n) \in Nat
    BY <1>1, SplitIs
  <2> QED
    BY <2>1 DEF Width
<1>4. 0 * Width(n) + index = index /\ 0 * Width(n) + n - 1 = n - 1
  BY <1>1, <1>3
<1>5. Root(leaves) = SubtreeHash(leaves)[<<0, n>>]
  <2>1. leaves # <<>>
    BY <1>1
  <2> QED
    BY <2>1 DEF Root
<1>6. u[0] = Foot(0 * Width(n) + index, 0 * Width(n) + n - 1, leaves[0 + index + 1])
      /\ Climbs(u, path[<<index, <<0, 0 + n>>>>])
  BY <1>0, <1>1, <1>4
<1>7. u[Len(path[<<index, <<0, 0 + n>>>>])] =
        [position |-> 0, last |-> 0, running |-> SubtreeHash(leaves)[<<0, 0 + n>>], ok |-> TRUE]
  BY <1>1, <1>2, <1>6 DEF Edge
<1> QED
  BY <1>0, <1>1, <1>5, <1>7

\* Lemma: an audit path is a sequence of hashes of the tree.
LEMMA AuditTyped ==
    ASSUME NEW leaves, Len(leaves) \in Nat, NEW index \in 0 .. Len(leaves) - 1
    PROVE  AuditPath(leaves, index) \in Seq(Hashes(leaves))
<1>1. PICK path : /\ Collects(path, leaves)
                  /\ \A i : AuditPath(leaves, i) = path[<<i, <<0, Len(leaves)>>>>]
  BY AuditPathIs
<1>2. index \in 0 .. Len(leaves) /\ 0 \in 0 .. Len(leaves) /\ Len(leaves) \in 0 .. Len(leaves)
  OBVIOUS
<1> QED
  BY <1>1, <1>2, PathTyped

\* Of all proofs that could be shown for a tree, whatever the block, the index and the path, those
\* verify that name the leaf at the index and have the path inclusion_proof gives it.
\* (merkle/proof.py: InclusionProof.verify; merkle/tree.py: inclusion_proof)
THEOREM VerifyExact ==
    ASSUME NEW leaves, Len(leaves) \in Nat, NEW V, NEW path \in Seq(V), NEW index \in Nat, NEW block
    PROVE  Verify(block, index, Len(leaves), path, Root(leaves)) <=>
             /\ index < Len(leaves)
             /\ block = leaves[index + 1] /\ path = AuditPath(leaves, index)
<1> DEFINE n == Len(leaves)
           audit == AuditPath(leaves, index)
           root == Root(leaves)
<1>1. Len(path) \in Nat
  OBVIOUS
<1>d. PICK v : Decides(v, block, index, n, path)
  BY <1>1, VerifyIs
<1>2. /\ v[0] = Foot(index, n - 1, block) /\ Climbs(v, path)
      /\ \A r : Verify(block, index, n, path, r) =
           (index < n /\ v[Len(path)].ok /\ v[Len(path)].last = 0 /\ v[Len(path)].running = r)
  BY <1>d DEF Decides
<1>3. ASSUME index < n, block = leaves[index + 1], path = audit
      PROVE  Verify(block, index, n, path, root)
  <2>1. index \in 0 .. n - 1
    BY <1>3
  <2>2. v[Len(audit)] = [position |-> 0, last |-> 0, running |-> root, ok |-> TRUE]
    BY <1>2, <1>3, <2>1, AuditClimbs
  <2>3. v[Len(path)].ok /\ v[Len(path)].last = 0 /\ v[Len(path)].running = root
    BY <1>3, <2>2
  <2> QED
    BY <1>2, <1>3, <2>3
<1>4. ASSUME Verify(block, index, n, path, root)
      PROVE  index < n /\ block = leaves[index + 1] /\ path = audit
  <2>1. index < n /\ v[Len(path)].ok /\ v[Len(path)].last = 0 /\ v[Len(path)].running = root
    BY <1>2, <1>4
  <2>2. index \in 0 .. n - 1
    BY <2>1
  <2>3. audit \in Seq(Hashes(leaves))
    BY <2>2, AuditTyped
  <2>4. Len(audit) \in Nat
    BY <2>3
  <2>d. PICK u : Decides(u, leaves[index + 1], index, n, audit)
    BY <2>4, VerifyIs
  <2>5. u[0] = Foot(index, n - 1, leaves[index + 1]) /\ Climbs(u, audit)
    BY <2>d DEF Decides
  <2>6. u[Len(audit)] = [position |-> 0, last |-> 0, running |-> root, ok |-> TRUE]
    BY <2>2, <2>5, AuditClimbs
  <2>7. Level(v[0], u[0])
    BY <1>2, <2>5 DEF Level, Foot
  <2>8. u[Len(audit)].ok /\ u[Len(audit)].last = 0 /\ u[Len(audit)].running = root
    BY <2>6
  <2> HIDE DEF audit, root
  <2>9. Len(path) = Len(audit) /\ v[0].running = u[0].running /\ \A k \in 1 .. Len(path) : path[k] = audit[k]
    BY <1>1, <1>2, <2>1, <2>4, <2>5, <2>7, <2>8, OneClimb
  <2>10. block = leaves[index + 1]
    <3>1. HashLeaf(block) = HashLeaf(leaves[index + 1])
      BY <1>2, <2>5, <2>9 DEF Foot
    <3> QED
      BY <3>1 DEF HashLeaf
  <2>11. path = audit
    BY <2>3, <2>9
  <2> QED
    BY <2>1, <2>10, <2>11
<1> QED
  BY <1>3, <1>4

\* Lemma: the proofs of every tree are exact.
LEMMA ExactProofs ==
    ASSUME NEW leaves, Len(leaves) \in Nat, NEW blocks
    PROVE  ProofsExact(leaves, blocks)
<1> DEFINE size == Len(leaves)
           root == Root(leaves)
           audit == [i \in 0 .. size - 1 |-> AuditPath(leaves, i)]
           own == {audit[i] : i \in 0 .. size - 1}
           paths == own \cup {Tail(path) : path \in own \ {<<>>}} \cup {Append(path, root) : path \in own}
           V == Hashes(leaves) \cup {root}
<1>1. own \subseteq Seq(V)
  <2>1. Hashes(leaves) \subseteq V
    OBVIOUS
  <2>2. \A i \in 0 .. size - 1 : audit[i] = AuditPath(leaves, i) /\ audit[i] \in Seq(Hashes(leaves))
    BY AuditTyped
  <2> HIDE DEF audit, V
  <2>3. \A p \in Seq(Hashes(leaves)) : p \in Seq(V)
    BY <2>1
  <2> QED
    BY <2>2, <2>3
<1>2. root \in V /\ \A i \in 0 .. size - 1 : audit[i] = AuditPath(leaves, i)
  OBVIOUS
<1> HIDE DEF V, own, root, audit
<1>3. paths \subseteq Seq(V)
  <2>1. \A p \in own : p \in Seq(V)
    BY <1>1
  <2>2. \A p \in Seq(V) : p # <<>> => Tail(p) \in Seq(V)
    OBVIOUS
  <2>3. \A p \in Seq(V) : Append(p, root) \in Seq(V)
    BY <1>2
  <2> QED
    BY <2>1, <2>2, <2>3
<1> HIDE DEF paths
<1>4. ASSUME NEW block \in blocks, NEW index \in 0 .. size, NEW path \in paths
      PROVE  Verify(block, index, size, path, root) <=>
               index < size /\ block = leaves[index + 1] /\ path = audit[index]
  <2>1. path \in Seq(V) /\ index \in Nat
    BY <1>3
  <2>2. Verify(block, index, size, path, root) <=>
          index < size /\ block = leaves[index + 1] /\ path = AuditPath(leaves, index)
    BY <2>1, VerifyExact DEF root
  <2>3. index < size => audit[index] = AuditPath(leaves, index)
    BY <1>2, <2>1
  <2> QED
    BY <2>2, <2>3
<1> QED
  BY <1>4 DEF ProofsExact, paths, own, audit, root

\* Lemma: the leaves of a history are a sequence.
LEMMA LeavesCount ==
    ASSUME LedgerTypeOK, NEW side
    PROVE  Len(Leaves(side)) \in Nat
<1> DEFINE held == {i \in DOMAIN order : side \in order[i].held}
           place(k) == CHOOSE i \in held : Cardinality({j \in held : j < i}) = k - 1
<1>1. IsFiniteSet(held)
  <2>1. Len(order) \in Nat /\ DOMAIN order = 1 .. Len(order)
    BY DEF LedgerTypeOK
  <2>2. IsFiniteSet(1 .. Len(order))
    BY <2>1, FS_Interval
  <2>3. held \subseteq 1 .. Len(order)
    BY <2>1
  <2> HIDE DEF held
  <2> QED
    BY <2>2, <2>3, FS_Subset
<1>2. Cardinality(held) \in Nat
  <2> HIDE DEF held
  <2> QED
    BY <1>1, FS_CardinalityType
<1>3. Leaves(side) = [k \in 1 .. Cardinality(held) |-> place(k)]
  BY DEF Leaves
<1> DEFINE n == Cardinality(held)
           W == {place(k) : k \in 1 .. n}
<1> HIDE DEF n, held, place
<1>4. [k \in 1 .. n |-> place(k)] \in [1 .. n -> W]
  OBVIOUS
<1> HIDE DEF W
<1>5. Leaves(side) \in Seq(W)
  BY <1>2, <1>3, <1>4, SeqDef DEF n
<1> QED
  BY <1>5

\* The proof of an index is of the record there: at its place in the order of the digests, whatever
\* the records are, however many, and for a tree of any size.
\* (merkle/proof.py: InclusionProof.verify; merkle/tree.py: inclusion_proof)
THEOREM ProofsAlwaysBind == LedgerSpec => []ProofsBind
<1>1. LedgerTypeOK => ProofsBind
  <2> SUFFICES ASSUME LedgerTypeOK PROVE ProofsBind
    OBVIOUS
  <2> DEFINE leaves == Leaves("ours")
             root == Root(leaves)
  <2>1. Len(leaves) \in Nat
    BY LeavesCount
  <2> HIDE DEF leaves
  <2>2. ASSUME NEW i \in 1 .. Len(leaves), NEW e \in DOMAIN order
        PROVE  Verify(e, i - 1, Len(leaves), AuditPath(leaves, i - 1), root) <=> e = leaves[i]
    <3> DEFINE index == i - 1
    <3>1. index \in Nat /\ index < Len(leaves) /\ index + 1 = i /\ index \in 0 .. Len(leaves) - 1
      BY <2>1
    <3> HIDE DEF index
    <3>2. AuditPath(leaves, index) \in Seq(Hashes(leaves))
      BY <2>1, <3>1, AuditTyped
    <3>3. Verify(e, index, Len(leaves), AuditPath(leaves, index), root) <=>
            /\ index < Len(leaves)
            /\ e = leaves[index + 1] /\ AuditPath(leaves, index) = AuditPath(leaves, index)
      BY <2>1, <3>1, <3>2, VerifyExact
    <3> QED
      BY <3>1, <3>3 DEF index
  <2>3. ASSUME NEW n \in 0 .. MaxLeaves PROVE ProofsExact([i \in 1 .. n |-> i], 1 .. n)
    <3> DEFINE s == [i \in 1 .. n |-> i]
    <3>1. s \in Seq(Nat)
      <4>1. n \in Nat /\ s \in [1 .. n -> Nat]
        BY BoundAssumption
      <4> HIDE DEF s
      <4> QED
        BY <4>1, SeqDef
    <3> HIDE DEF s
    <3>2. Len(s) \in Nat
      BY <3>1
    <3>3. ProofsExact(s, 1 .. n)
      BY <3>2, ExactProofs
    <3> QED
      BY <3>3 DEF s
  <2> QED
    BY <2>2, <2>3 DEF ProofsBind, leaves
<1> QED
  BY <1>1, LedgerTypeCorrect, PTL
=============================================================================
