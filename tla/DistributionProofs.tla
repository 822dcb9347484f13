------------------------- MODULE DistributionProofs -------------------------
(***************************************************************************)
(* Proofs about Distribution, for any clients, modules, limits and         *)
(* registry.  What is said of documents, manifests and pushes takes the    *)
(* documents D (and the writes W and blobs B) as arguments, so that it can *)
(* be carried from a state to the next one.                                *)
(***************************************************************************)
EXTENDS Distribution, TLAPS

-----------------------------------------------------------------------------
(* Histories.                                                              *)

DocSet == [parents : SUBSET Versions, refs : UNION {[ks -> Versions] : ks \in SUBSET Kinds}]
DocsOK(D) == D \in Seq(DocSet) /\ \A i \in DOMAIN D : D[i].parents \subseteq DOMAIN D
ClosedIn(D, S) == \A i \in S : D[i].parents \subseteq S
Extended(D, E) == DOMAIN D \subseteq DOMAIN E /\ \A i \in DOMAIN D : E[i] = D[i]

Cl(D, i, open) ==
    {x \in DOMAIN D :
        \A C \in SUBSET DOMAIN D :
            (i \in C /\ \A j \in C \cap open : D[j].parents \subseteq C) => x \in C}
Anc(D, i) == Cl(D, i, DOMAIN D)

\* Lemma: the histories of the model are those of its documents.
LEMMA ClosureIs ==
    /\ \A i, open : Closure(i, open) = Cl(docs, i, open)
    /\ \A i : Ancestry(i) = Anc(docs, i)
    /\ \A c : ReachableHistory(c) = Cl(docs, head[c], known[c])
BY DEF Closure, Cl, Ancestry, Anc, ReachableHistory

\* Lemma: a snapshot is in its own history.
LEMMA ClSelf ==
    ASSUME NEW D, NEW open, NEW i \in DOMAIN D
    PROVE  i \in Cl(D, i, open)
BY DEF Cl

\* Lemma: a history has the parents of what can be opened in it.
LEMMA ClStep ==
    ASSUME NEW D, DocsOK(D), NEW open, NEW i, NEW j \in Cl(D, i, open) \cap open
    PROVE  D[j].parents \subseteq Cl(D, i, open)
<1>1. j \in DOMAIN D /\ D[j].parents \subseteq DOMAIN D
  BY DEF Cl, DocsOK
<1>2. ASSUME NEW C \in SUBSET DOMAIN D, i \in C, \A k \in C \cap open : D[k].parents \subseteq C
      PROVE  D[j].parents \subseteq C
  BY <1>2 DEF Cl
<1> QED
  BY <1>1, <1>2 DEF Cl

\* Lemma: a history is in every set that is closed as it is.
LEMMA ClLeast ==
    ASSUME NEW D, NEW open, NEW C \in SUBSET DOMAIN D, NEW i \in C,
           \A j \in C \cap open : D[j].parents \subseteq C
    PROVE  Cl(D, i, open) \subseteq C
BY DEF Cl

\* Lemma: who has the parents of all it has can tell the whole of its history.
LEMMA ClKnown ==
    ASSUME NEW D, DocsOK(D), NEW S \in SUBSET DOMAIN D, ClosedIn(D, S), NEW i \in S
    PROVE  /\ Cl(D, i, S) = Anc(D, i) /\ Anc(D, i) \subseteq S
           /\ ClosedIn(D, Anc(D, i)) /\ i \in Anc(D, i)
<1>1. Cl(D, i, S) \subseteq S
  BY ClLeast DEF ClosedIn
<1>2. \A j \in Cl(D, i, S) : D[j].parents \subseteq Cl(D, i, S)
  BY <1>1, ClStep
<1>3. i \in DOMAIN D /\ Cl(D, i, S) \in SUBSET DOMAIN D
  BY <1>1
<1>4. i \in Cl(D, i, S)
  BY <1>3, ClSelf
<1>5. Anc(D, i) \subseteq Cl(D, i, S)
  BY <1>2, <1>3, <1>4, ClLeast DEF Anc
<1>6. i \in Anc(D, i) /\ Anc(D, i) \in SUBSET DOMAIN D
  BY <1>3, <1>5, ClSelf DEF Anc
<1>7. \A j \in Anc(D, i) : D[j].parents \subseteq Anc(D, i)
  <2> SUFFICES ASSUME NEW j \in Anc(D, i) PROVE D[j].parents \subseteq Anc(D, i)
    OBVIOUS
  <2>1. j \in Cl(D, i, DOMAIN D) \cap DOMAIN D
    BY <1>6 DEF Anc
  <2> QED
    BY <2>1, ClStep DEF Anc
<1>8. Cl(D, i, S) \subseteq Anc(D, i)
  BY <1>6, <1>7, ClLeast
<1> QED
  BY <1>1, <1>5, <1>6, <1>7, <1>8 DEF ClosedIn

\* Lemma: every snapshot's whole history is closed, and holds it.
LEMMA AncClosed ==
    ASSUME NEW D, DocsOK(D), NEW i \in DOMAIN D
    PROVE  i \in Anc(D, i) /\ Anc(D, i) \in SUBSET DOMAIN D /\ ClosedIn(D, Anc(D, i))
<1>1. ClosedIn(D, DOMAIN D)
  BY DEF ClosedIn, DocsOK
<1> QED
  BY <1>1, ClKnown

\* Lemma: the history of what is in a history is in it.
LEMMA AncTrans ==
    ASSUME NEW D, DocsOK(D), NEW i \in DOMAIN D, NEW j \in Anc(D, i)
    PROVE  Anc(D, j) \subseteq Anc(D, i)
<1>1. Anc(D, i) \in SUBSET DOMAIN D /\ ClosedIn(D, Anc(D, i))
  BY AncClosed
<1> QED
  BY <1>1, ClLeast DEF Anc, ClosedIn

\* Lemma: new documents do not change the history of the others.
LEMMA AncStable ==
    ASSUME NEW D, NEW E, DocsOK(D), DocsOK(E), Extended(D, E), NEW i \in DOMAIN D
    PROVE  Anc(E, i) = Anc(D, i)
<1>1. i \in DOMAIN E
  BY DEF Extended
<1>2. Anc(D, i) \in SUBSET DOMAIN D /\ ClosedIn(D, Anc(D, i)) /\ i \in Anc(D, i)
  BY AncClosed
<1>3. Anc(E, i) \in SUBSET DOMAIN E /\ ClosedIn(E, Anc(E, i)) /\ i \in Anc(E, i)
  BY <1>1, AncClosed
<1>4. Anc(E, i) \subseteq Anc(D, i)
  <2>1. Anc(D, i) \in SUBSET DOMAIN E
    BY <1>2 DEF Extended
  <2>2. \A j \in Anc(D, i) \cap DOMAIN E : E[j].parents \subseteq Anc(D, i)
    BY <1>2 DEF Extended, ClosedIn
  <2> QED
    BY <1>2, <2>1, <2>2, ClLeast DEF Anc
<1>5. Anc(D, i) \subseteq Anc(E, i)
  <2>1. \A j \in Anc(E, i) \cap DOMAIN D : D[j].parents \subseteq Anc(E, i) \cap DOMAIN D
    BY <1>3 DEF Extended, ClosedIn, DocsOK
  <2>2. i \in Anc(E, i) \cap DOMAIN D /\ Anc(E, i) \cap DOMAIN D \in SUBSET DOMAIN D
    BY <1>3
  <2> DEFINE C == Anc(E, i) \cap DOMAIN D
  <2>3. C \in SUBSET DOMAIN D /\ i \in C /\ \A j \in C \cap DOMAIN D : D[j].parents \subseteq C
    BY <2>1, <2>2
  <2> HIDE DEF C
  <2>4. Cl(D, i, DOMAIN D) \subseteq C
    BY <2>3, ClLeast
  <2> QED
    BY <2>4 DEF Anc, C
<1> QED
  BY <1>4, <1>5

\* Lemma: one more element at the end of a sequence.
LEMMA Appended ==
    ASSUME NEW S, NEW s \in Seq(S), NEW x \in S
    PROVE  /\ Append(s, x) \in Seq(S) /\ DOMAIN Append(s, x) = 1 .. Len(s) + 1
           /\ \A n \in DOMAIN s : Append(s, x)[n] = s[n]
           /\ Append(s, x)[Len(s) + 1] = x
OBVIOUS

\* Lemma: a document whose parents are there can be added.
LEMMA AppendOK ==
    ASSUME NEW D, DocsOK(D), NEW d \in DocSet, d.parents \subseteq DOMAIN D
    PROVE  /\ DocsOK(Append(D, d)) /\ Extended(D, Append(D, d))
           /\ Len(D) + 1 \in DOMAIN Append(D, d) /\ Append(D, d)[Len(D) + 1] = d
           /\ Len(Append(D, d)) = Len(D) + 1
<1>1. D \in Seq(DocSet) /\ Len(D) \in Nat /\ DOMAIN D = 1 .. Len(D)
  BY DEF DocsOK
<1>2. /\ Append(D, d) \in Seq(DocSet) /\ Len(Append(D, d)) = Len(D) + 1
      /\ DOMAIN Append(D, d) = 1 .. Len(D) + 1
      /\ \A i \in DOMAIN D : Append(D, d)[i] = D[i]
      /\ Append(D, d)[Len(D) + 1] = d
  BY <1>1
<1>3. DOMAIN D \subseteq DOMAIN Append(D, d)
  BY <1>1, <1>2
<1>4. \A i \in DOMAIN Append(D, d) : i \in DOMAIN D \/ i = Len(D) + 1
  BY <1>1, <1>2
<1>5. \A i \in DOMAIN Append(D, d) : Append(D, d)[i].parents \subseteq DOMAIN D
  BY <1>2, <1>4 DEF DocsOK
<1> QED
  BY <1>1, <1>2, <1>3, <1>5 DEF DocsOK, Extended

-----------------------------------------------------------------------------
(* What a manifest of the tag, a client and a push under way keep to.      *)

Blob == [type : {"module", "snapshot", "history", "projection"}, of : Nat, kinds : SUBSET Kinds, ids : SUBSET Nat]
Manifest == [config : Blob, layers : SUBSET Blob]

\* A version that exists, with a history that has it and everything it stands on; a manifest
\* that is no projection has every module of its version.
ManOK(D, m) ==
    /\ m \in Manifest /\ m.config.type \in {"snapshot", "projection"}
    /\ Served(m) \in History(m)
    /\ History(m) \subseteq DOMAIN D /\ ClosedIn(D, History(m))
    /\ Carried(m) \subseteq DOMAIN D[Served(m)].refs
    /\ m.config.type = "snapshot" => Carried(m) = DOMAIN D[Served(m)].refs

\* A client has the parents of every document it has.
ClientOK(D, h, k, o, v) ==
    /\ h \in 0 .. Len(D) /\ k \subseteq DOMAIN D /\ ClosedIn(D, k) /\ (h # 0 => h \in k)
    /\ o.type \in {"snapshot", "projection"} /\ o.of \in 0 .. Len(D)
    /\ o.type = "snapshot" /\ o.of # 0 => h # 0 /\ o.of \in Anc(D, h)
    /\ v.how \in {"diverged", "lost"} => v.head \in DOMAIN D /\ v.observed \notin Anc(D, v.head)

\* What the reads that let a push through still say of the writes they saw.
NamedOK(D, W, h, n) ==
    n \in 0 .. Len(W) /\ (n # 0 => DOMAIN D[Served(W[n])].refs \subseteq DOMAIN D[h].refs)
ContainedOK(D, W, h, n) == n \in 0 .. Len(W) /\ (n # 0 => Served(W[n]) \in Anc(D, h))

Narrowing == [at : {"narrowing"}, kinds : SUBSET Kinds]
FastForward == [at : {"fast_forward"}, kinds : SUBSET Kinds, named : Nat]
Uploading == [at : {"upload", "put"}, manifest : Manifest, forced : BOOLEAN, named : Nat, contained : Nat]
Confirming == [at : {"confirm"}, manifest : Manifest, mine : Nat, tries : Nat]

NarrowingOK(D, h, j) == j \in Narrowing /\ j.kinds \subseteq DOMAIN D[h].refs
FastForwardOK(D, W, h, j) ==
    j \in FastForward /\ j.kinds \subseteq DOMAIN D[h].refs /\ NamedOK(D, W, h, j.named)
UploadingOK(D, W, B, h, j) ==
    /\ j \in Uploading /\ ManOK(D, j.manifest) /\ Served(j.manifest) = h
    /\ j.at = "put" => Blobs(j.manifest) \subseteq B
    /\ ~ j.forced => NamedOK(D, W, h, j.named) /\ ContainedOK(D, W, h, j.contained)
ConfirmingOK(D, B, h, j) ==
    j \in Confirming /\ ManOK(D, j.manifest) /\ Served(j.manifest) = h /\ Blobs(j.manifest) \subseteq B

JobOK(D, W, B, h, j) ==
    j # Idle =>
        /\ h # 0
        /\ \/ NarrowingOK(D, h, j) \/ FastForwardOK(D, W, h, j)
           \/ UploadingOK(D, W, B, h, j) \/ ConfirmingOK(D, B, h, j)

WritesOK(D, W, B) ==
    W \in Seq(Manifest) /\ \A n \in DOMAIN W : ManOK(D, W[n]) /\ Blobs(W[n]) \subseteq B

Fields == /\ head \in [Clients -> Nat] /\ known \in [Clients -> SUBSET Nat]
          /\ origin = [c \in Clients |-> origin[c]] /\ verdict = [c \in Clients |-> verdict[c]]
          /\ job = [c \in Clients |-> job[c]]

\* The inductive invariant.
Inv ==
    /\ DocsOK(docs) /\ WritesOK(docs, writes, blobs) /\ Fields
    /\ \A c \in Clients : /\ ClientOK(docs, head[c], known[c], origin[c], verdict[c])
                          /\ JobOK(docs, writes, blobs, head[c], job[c])

-----------------------------------------------------------------------------
(* The invariant grows with the documents, the writes and the blobs.       *)

\* Lemma: what a manifest keeps to does not depend on newer documents.
LEMMA ManGrows ==
    ASSUME NEW D, NEW E, Extended(D, E), NEW m, ManOK(D, m)
    PROVE  ManOK(E, m)
<1>1. Served(m) \in DOMAIN D /\ History(m) \subseteq DOMAIN E /\ E[Served(m)] = D[Served(m)]
  BY DEF ManOK, Extended
<1>2. ClosedIn(E, History(m))
  BY DEF ManOK, Extended, ClosedIn
<1> QED
  BY <1>1, <1>2 DEF ManOK

\* Lemma: nor does what a client keeps to.
LEMMA ClientGrows ==
    ASSUME NEW D, NEW E, DocsOK(D), DocsOK(E), Extended(D, E), NEW h, NEW k, NEW o, NEW v,
           ClientOK(D, h, k, o, v)
    PROVE  ClientOK(E, h, k, o, v)
<1>1. /\ Len(D) \in Nat /\ Len(E) \in Nat /\ DOMAIN D = 1 .. Len(D) /\ DOMAIN E = 1 .. Len(E)
  BY DEF DocsOK
<1>2. 0 .. Len(D) \subseteq 0 .. Len(E)
  <2>1. CASE Len(D) = 0
    BY <1>1, <2>1
  <2>2. CASE Len(D) # 0
    <3>1. Len(D) \in DOMAIN E
      BY <1>1, <2>2 DEF Extended
    <3> QED
      BY <1>1, <3>1
  <2> QED
    BY <2>1, <2>2
<1>3. h # 0 => h \in DOMAIN D /\ Anc(E, h) = Anc(D, h)
  BY <1>1, AncStable DEF ClientOK
<1>4. v.how \in {"diverged", "lost"} => Anc(E, v.head) = Anc(D, v.head) /\ v.head \in DOMAIN E
  BY AncStable DEF ClientOK, Extended
<1>5. k \subseteq DOMAIN E /\ ClosedIn(E, k)
  BY DEF ClientOK, Extended, ClosedIn
<1> QED
  BY <1>2, <1>3, <1>4, <1>5 DEF ClientOK

\* Lemma: what a push relies on stays true as others write.
LEMMA JobGrows ==
    ASSUME NEW D, NEW E, DocsOK(D), DocsOK(E), Extended(D, E), NEW W, NEW V, NEW B, NEW C,
           WritesOK(D, W, B), V \in Seq(Manifest), Extended(W, V), B \subseteq C,
           NEW h \in 0 .. Len(D), NEW j, JobOK(D, W, B, h, j)
    PROVE  JobOK(E, V, C, h, j)
<1> SUFFICES ASSUME j # Idle PROVE JobOK(E, V, C, h, j)
  BY DEF JobOK
<1>1. h \in DOMAIN D /\ E[h] = D[h] /\ Anc(E, h) = Anc(D, h)
  <2>1. h \in DOMAIN D
    BY DEF JobOK, DocsOK
  <2> QED
    BY <2>1, AncStable DEF Extended
<1>2. /\ Len(W) \in Nat /\ DOMAIN W = 1 .. Len(W) /\ Len(V) \in Nat /\ DOMAIN V = 1 .. Len(V)
  BY DEF WritesOK
<1>3. 0 .. Len(W) \subseteq 0 .. Len(V)
  <2>1. CASE Len(W) = 0
    BY <1>2, <2>1
  <2>2. CASE Len(W) # 0
    <3>1. Len(W) \in DOMAIN V
      BY <1>2, <2>2 DEF Extended
    <3> QED
      BY <1>2, <3>1
  <2> QED
    BY <2>1, <2>2
<1>4. \A n \in 0 .. Len(W) : n # 0 => V[n] = W[n] /\ Served(W[n]) \in DOMAIN D /\ E[Served(W[n])] = D[Served(W[n])]
  BY <1>2 DEF Extended, WritesOK, ManOK
<1>5. \A n : NamedOK(D, W, h, n) => NamedOK(E, V, h, n)
  BY <1>1, <1>3, <1>4 DEF NamedOK
<1>6. \A n : ContainedOK(D, W, h, n) => ContainedOK(E, V, h, n)
  BY <1>1, <1>3, <1>4 DEF ContainedOK
<1>7. CASE NarrowingOK(D, h, j)
  BY <1>1, <1>7 DEF NarrowingOK, JobOK
<1>8. CASE FastForwardOK(D, W, h, j)
  BY <1>1, <1>5, <1>8 DEF FastForwardOK, JobOK
<1>9. CASE UploadingOK(D, W, B, h, j)
  <2>1. ManOK(E, j.manifest)
    BY <1>9, ManGrows DEF UploadingOK
  <2>2. UploadingOK(E, V, C, h, j)
    BY <1>5, <1>6, <1>9, <2>1 DEF UploadingOK
  <2> QED
    BY <2>2 DEF JobOK
<1>10. CASE ConfirmingOK(D, B, h, j)
  <2>1. ManOK(E, j.manifest)
    BY <1>10, ManGrows DEF ConfirmingOK
  <2>2. ConfirmingOK(E, C, h, j)
    BY <1>10, <2>1 DEF ConfirmingOK
  <2> QED
    BY <2>2 DEF JobOK
<1> QED
  BY <1>7, <1>8, <1>9, <1>10 DEF JobOK

\* Lemma: what the tag served keeps to what it kept to.
LEMMA WritesGrow ==
    ASSUME NEW D, NEW E, Extended(D, E), NEW W, NEW B, NEW C, WritesOK(D, W, B), B \subseteq C
    PROVE  WritesOK(E, W, C)
BY ManGrows DEF WritesOK

\* Lemma: documents and writes extend themselves.
LEMMA ExtendedSame == \A D : Extended(D, D)
BY DEF Extended

\* What a step of client c leaves to the others.
Alone(c) ==
    /\ head' = [head EXCEPT ![c] = head'[c]] /\ known' = [known EXCEPT ![c] = known'[c]]
    /\ origin' = [origin EXCEPT ![c] = origin'[c]] /\ verdict' = [verdict EXCEPT ![c] = verdict'[c]]
    /\ job' = [job EXCEPT ![c] = job'[c]]

\* Lemma: a step is judged by what it does to the client that takes it.
LEMMA OneClient ==
    ASSUME Inv, NEW c \in Clients, Alone(c), DocsOK(docs'), Extended(docs, docs'),
           WritesOK(docs', writes', blobs'), Extended(writes, writes'), blobs \subseteq blobs',
           ClientOK(docs', head'[c], known'[c], origin'[c], verdict'[c]),
           JobOK(docs', writes', blobs', head'[c], job'[c])
    PROVE  Inv'
<1>1. \A i \in Clients : /\ ClientOK(docs, head[i], known[i], origin[i], verdict[i])
                         /\ JobOK(docs, writes, blobs, head[i], job[i])
  BY DEF Inv
<1>2. ASSUME NEW i \in Clients
      PROVE  /\ ClientOK(docs', head'[i], known'[i], origin'[i], verdict'[i])
             /\ JobOK(docs', writes', blobs', head'[i], job'[i])
  <2>1. CASE i = c
    BY <2>1
  <2>2. CASE i # c
    <3>1. /\ head'[i] = head[i] /\ known'[i] = known[i] /\ origin'[i] = origin[i]
          /\ verdict'[i] = verdict[i] /\ job'[i] = job[i]
      BY <2>2 DEF Alone, Inv, Fields
    <3>2. ClientOK(docs', head[i], known[i], origin[i], verdict[i])
      BY <1>1, ClientGrows DEF Inv
    <3>3. head[i] \in 0 .. Len(docs)
      BY <1>1 DEF ClientOK
    <3>4. writes' \in Seq(Manifest)
      BY DEF WritesOK
    <3>5. JobOK(docs', writes', blobs', head[i], job[i])
      BY <1>1, <3>3, <3>4, JobGrows DEF Inv
    <3> QED
      BY <3>1, <3>2, <3>5
  <2> QED
    BY <2>1, <2>2
<1>3. head'[c] \in Nat /\ known'[c] \in SUBSET Nat
  <2>1. Len(docs') \in Nat /\ DOMAIN docs' = 1 .. Len(docs')
    BY DEF DocsOK
  <2> QED
    BY <2>1 DEF ClientOK
<1>4. Fields'
  <2>1. head' \in [Clients -> Nat]
    BY <1>3 DEF Alone, Inv, Fields
  <2>2. known' \in [Clients -> SUBSET Nat]
    BY <1>3 DEF Alone, Inv, Fields
  <2>3. /\ origin' = [i \in Clients |-> origin'[i]] /\ verdict' = [i \in Clients |-> verdict'[i]]
        /\ job' = [i \in Clients |-> job'[i]]
    BY DEF Alone, Inv, Fields
  <2> QED
    BY <2>1, <2>2, <2>3 DEF Fields
<1> QED
  BY <1>2, <1>4 DEF Inv

-----------------------------------------------------------------------------
(* The steps.                                                              *)

\* Lemma: a client with a version can tell its whole history and has all of it.
LEMMA CanTell ==
    ASSUME Inv, NEW c \in Clients, head[c] # 0
    PROVE  /\ head[c] \in DOMAIN docs
           /\ ReachableHistory(c) = Anc(docs, head[c]) /\ Anc(docs, head[c]) \subseteq known[c]
           /\ ClosedIn(docs, Anc(docs, head[c])) /\ head[c] \in Anc(docs, head[c])
<1>1. /\ DocsOK(docs) /\ known[c] \in SUBSET DOMAIN docs /\ ClosedIn(docs, known[c]) /\ head[c] \in known[c]
  BY DEF Inv, ClientOK
<1> QED
  BY <1>1, ClKnown, ClosureIs

\* Lemma: what the client installs from, or looks at, is a write that was made.
LEMMA SeenOK ==
    ASSUME Inv, NEW late \in Nat, NEW n \in Seen(late)
    PROVE  /\ n \in 0 .. Len(writes)
           /\ n # 0 => n \in DOMAIN writes /\ ManOK(docs, writes[n])
<1>1. Len(writes) \in Nat /\ DOMAIN writes = 1 .. Len(writes)
  BY DEF Inv, WritesOK
<1>2. n \in 0 .. Len(writes)
  BY <1>1 DEF Seen
<1> QED
  BY <1>1, <1>2 DEF Inv, WritesOK

\* Lemma: what a version's document names.
LEMMA RefsOK ==
    ASSUME NEW D, DocsOK(D), NEW i \in DOMAIN D
    PROVE  /\ DOMAIN D[i].refs \subseteq Kinds /\ D[i].refs \in [DOMAIN D[i].refs -> Versions]
           /\ D[i].parents \subseteq Versions
<1>1. D[i] \in DocSet
  BY DEF DocsOK
<1>2. PICK ks \in SUBSET Kinds : D[i].refs \in [ks -> Versions]
  BY <1>1 DEF DocSet
<1> QED
  BY <1>1, <1>2 DEF DocSet

\* Lemma: pack makes a manifest that keeps to what manifests keep to.
LEMMA PackOK ==
    ASSUME Inv, NEW c \in Clients, head[c] # 0, NEW kinds \in SUBSET Kinds, kinds \subseteq Named(head[c])
    PROVE  ManOK(docs, Pack(c, kinds)) /\ Served(Pack(c, kinds)) = head[c]
<1> DEFINE m == Pack(c, kinds)
           h == head[c]
           past == ReachableHistory(c) \cap known[c]
<1>1. /\ h \in DOMAIN docs /\ past = Anc(docs, h) /\ ClosedIn(docs, past) /\ h \in past
  BY CanTell
<1>2. past \subseteq DOMAIN docs /\ past \subseteq Nat /\ h \in Nat
  <2>1. known[c] \subseteq DOMAIN docs /\ DOMAIN docs \subseteq Nat
    BY DEF Inv, ClientOK, DocsOK
  <2> QED
    BY <1>1, <2>1
<1>3. docs[h].refs \in [Named(h) -> Versions] /\ Named(h) \subseteq Kinds
  BY <1>1, RefsOK DEF Inv, Named
<1>4. m.layers = Layers(h, kinds) \cup {HistoryOf(past)}
  BY DEF Pack, PackHistory
<1>5. \A k \in kinds : /\ Layer(k, docs[h].refs[k]) \in Blob /\ Layer(k, docs[h].refs[k]).ids = {}
                       /\ Layer(k, docs[h].refs[k]).kinds = {k}
  <2> SUFFICES ASSUME NEW k \in kinds
               PROVE  /\ Layer(k, docs[h].refs[k]) \in Blob /\ Layer(k, docs[h].refs[k]).ids = {}
                      /\ Layer(k, docs[h].refs[k]).kinds = {k}
    OBVIOUS
  <2>1. docs[h].refs[k] \in Nat /\ k \in Kinds
    BY <1>3 DEF Versions
  <2> HIDE DEF h
  <2> QED
    BY <2>1 DEF Layer, Blob
<1>6. /\ \A b \in Layers(h, kinds) : b \in Blob /\ b.ids = {} /\ \E k \in kinds : b.kinds = {k}
      /\ \A k \in kinds : \E b \in Layers(h, kinds) : b.kinds = {k}
  <2>1. \A k \in kinds : Layer(k, docs[h].refs[k]) \in Layers(h, kinds)
    BY DEF Layers
  <2>2. \A b \in Layers(h, kinds) : \E k \in kinds : b = Layer(k, docs[h].refs[k])
    BY DEF Layers
  <2>3. ASSUME NEW b \in Layers(h, kinds)
        PROVE  b \in Blob /\ b.ids = {} /\ \E k \in kinds : b.kinds = {k}
    <3>1. PICK k \in kinds : b = Layer(k, docs[h].refs[k])
      BY <2>2
    <3> QED
      BY <1>5, <3>1
  <2>4. ASSUME NEW k \in kinds
        PROVE  \E b \in Layers(h, kinds) : b.kinds = {k}
    <3>1. Layer(k, docs[h].refs[k]).kinds = {k}
      BY <1>5
    <3> QED
      BY <2>1, <3>1
  <2> QED
    BY <2>3, <2>4
<1>7. /\ HistoryOf(past) \in Blob /\ HistoryOf(past).ids = past /\ HistoryOf(past).kinds = {}
  <2> HIDE DEF past
  <2> QED
    BY <1>2 DEF HistoryOf, Blob
<1>8. Carried(m) = kinds /\ History(m) = past
  <2> HIDE DEF m, past, h
  <2>1. \A k : k \in Carried(m) <=> k \in kinds
    BY <1>4, <1>6, <1>7 DEF Carried
  <2>2. \A i : i \in History(m) <=> i \in past
    BY <1>4, <1>6, <1>7 DEF History
  <2> QED
    BY <2>1, <2>2
<1>10. /\ m.config \in Blob /\ m.config.type \in {"snapshot", "projection"} /\ m.config.of = h
       /\ m.config.type = "snapshot" => kinds = Named(h)
  <2>1. CASE kinds = Named(h)
    BY <2>1, <1>2 DEF Pack, Document, Blob
  <2>2. CASE kinds # Named(h)
    BY <2>2, <1>2 DEF Pack, Projection, Blob
  <2> QED
    BY <2>1, <2>2
<1>11. m \in Manifest
  <2>1. m.layers \subseteq Blob
    BY <1>4, <1>6, <1>7
  <2>2. m = [config |-> m.config, layers |-> m.layers]
    BY DEF Pack
  <2> QED
    BY <2>1, <2>2, <1>10 DEF Manifest
<1> QED
  BY <1>1, <1>2, <1>8, <1>10, <1>11 DEF ManOK, Served, Named

\* Lemma: a step that makes no document and writes nothing.
LEMMA Quietly ==
    ASSUME Inv, NEW c \in Clients, Alone(c), docs' = docs, writes' = writes, blobs' = blobs,
           ClientOK(docs, head'[c], known'[c], origin'[c], verdict'[c]),
           JobOK(docs, writes, blobs, head'[c], job'[c])
    PROVE  Inv'
<1>1. DocsOK(docs') /\ WritesOK(docs', writes', blobs')
  BY DEF Inv
<1> QED
  BY <1>1, ExtendedSame, OneClient

\* Lemma: every client starts, and stays, with fields that are functions of the clients.
LEMMA FieldsOK == Inv => Fields
BY DEF Inv

\* Lemma: a commit.
LEMMA CommitOK ==
    ASSUME Inv, NEW c \in Clients, NEW k \in Edited, Commit(c, k)
    PROVE  Inv'
<1> DEFINE h == head[c]
           new == Len(docs) + 1
           d == [parents |-> {h}, refs |-> [docs[h].refs EXCEPT ![k] = new]]
<1>1. h # 0 /\ h \in DOMAIN docs /\ job[c] = Idle /\ CanAdd
  BY CanTell DEF Commit, Ready
<1>2. /\ DocsOK(docs) /\ Len(docs) \in Nat /\ DOMAIN docs = 1 .. Len(docs) /\ new \in Versions
      /\ DOMAIN docs \subseteq Versions
  BY <1>1, BoundsAssumption DEF Inv, DocsOK, CanAdd, Versions
<1>3. d \in DocSet /\ d.parents \subseteq DOMAIN docs
  <2>1. /\ docs[h].refs \in [Named(h) -> Versions] /\ Named(h) \in SUBSET Kinds
    BY <1>1, <1>2, RefsOK DEF Named
  <2>2. [docs[h].refs EXCEPT ![k] = new] \in [Named(h) -> Versions]
    BY <1>2, <2>1
  <2>3. d.refs \in UNION {[ks -> Versions] : ks \in SUBSET Kinds}
    BY <2>1, <2>2
  <2> QED
    BY <1>1, <1>2, <2>3 DEF DocSet
<1>4. docs' = Append(docs, d)
  BY DEF Commit
<1>5. /\ DocsOK(docs') /\ Extended(docs, docs') /\ new \in DOMAIN docs' /\ docs'[new] = d
      /\ Len(docs') = new
  BY <1>2, <1>3, <1>4, AppendOK
<1>6. /\ head'[c] = new /\ known'[c] = known[c] \cup {new} /\ origin' = origin /\ verdict'[c] = Quiet
      /\ job' = job /\ writes' = writes /\ blobs' = blobs
  BY FieldsOK DEF Commit, Fields, Calm, registry
<1>7. Alone(c)
  <2>1. /\ head' = [head EXCEPT ![c] = new] /\ known' = [known EXCEPT ![c] = known[c] \cup {new}]
        /\ verdict' = [verdict EXCEPT ![c] = Quiet]
    BY DEF Commit, Calm
  <2> HIDE DEF new
  <2> QED
    BY FieldsOK, <1>6, <2>1 DEF Alone, Fields
<1>8. ClientOK(docs', h, known[c], origin[c], verdict[c])
  BY <1>2, <1>5, ClientGrows DEF Inv
<1>9. h \in Anc(docs', new) /\ Anc(docs', h) \subseteq Anc(docs', new)
  <2>1. new \in Anc(docs', new) /\ ClosedIn(docs', Anc(docs', new))
    BY <1>5, AncClosed
  <2>2. h \in Anc(docs', new)
    BY <1>5, <2>1 DEF ClosedIn
  <2> QED
    BY <1>5, <2>2, AncTrans
<1>10. ClientOK(docs', head'[c], known'[c], origin'[c], verdict'[c])
  <2>1. known'[c] \subseteq DOMAIN docs' /\ ClosedIn(docs', known'[c])
    BY <1>1, <1>5, <1>6, <1>8 DEF ClientOK, ClosedIn
  <2>2. new \in 0 .. Len(docs')
    BY <1>2, <1>5
  <2> QED
    BY <1>2, <1>6, <1>8, <1>9, <2>1, <2>2 DEF ClientOK, Quiet
<1>11. JobOK(docs', writes', blobs', head'[c], job'[c])
  BY <1>1, <1>6 DEF JobOK
<1>12. WritesOK(docs', writes', blobs')
  BY <1>5, <1>6, WritesGrow DEF Inv
<1> QED
  BY <1>5, <1>6, <1>7, <1>10, <1>11, <1>12, ExtendedSame, OneClient

\* Lemma: a step of a push that changes its job and perhaps the verdict, and nothing else of it.
LEMMA JobStep ==
    ASSUME Inv, NEW c \in Clients, docs' = docs, writes' = writes, blobs' = blobs, UNCHANGED <<head, known, origin>>,
           NEW j, job' = [job EXCEPT ![c] = j], JobOK(docs, writes, blobs, head[c], j),
           \/ verdict' = verdict
           \/ verdict' = [verdict EXCEPT ![c] = Quiet]
           \/ \E how \in {"diverged", "lost"}, observed \in Nat :
                  /\ head[c] # 0 /\ observed \notin Anc(docs, head[c])
                  /\ verdict' = [verdict EXCEPT ![c] = [how |-> how, head |-> head[c], observed |-> observed]]
    PROVE  Inv'
<1>1. Fields
  BY FieldsOK
<1>2. Alone(c)
  BY <1>1 DEF Alone, Fields
<1>3. job'[c] = j
  BY <1>1 DEF Fields
<1>4. ClientOK(docs, head[c], known[c], origin[c], verdict[c])
  BY DEF Inv
<1>5. verdict'[c].how \in {"diverged", "lost"} =>
          verdict'[c].head \in DOMAIN docs /\ verdict'[c].observed \notin Anc(docs, verdict'[c].head)
  <2>1. CASE verdict' = verdict
    BY <1>4, <2>1 DEF ClientOK
  <2>2. CASE verdict' = [verdict EXCEPT ![c] = Quiet]
    <3>1. verdict'[c] = Quiet
      BY <1>1, <2>2 DEF Fields
    <3> QED
      BY <3>1 DEF Quiet
  <2>3. ASSUME NEW how \in {"diverged", "lost"}, NEW observed \in Nat, head[c] # 0,
               observed \notin Anc(docs, head[c]),
               verdict' = [verdict EXCEPT ![c] = [how |-> how, head |-> head[c], observed |-> observed]]
        PROVE  verdict'[c].head \in DOMAIN docs /\ verdict'[c].observed \notin Anc(docs, verdict'[c].head)
    <3>1. verdict'[c] = [how |-> how, head |-> head[c], observed |-> observed]
      BY <1>1, <2>3 DEF Fields
    <3> QED
      BY <2>3, <3>1, CanTell
  <2> QED
    BY <2>1, <2>2, <2>3
<1>6. ClientOK(docs, head'[c], known'[c], origin'[c], verdict'[c])
  BY <1>4, <1>5 DEF ClientOK
<1> QED
  BY <1>2, <1>3, <1>6, Quietly

\* Lemma: a push that stops is idle.
LEMMA IdleOK == \A D, W, B, h : JobOK(D, W, B, h, Idle)
BY DEF JobOK

\* Lemma: a push that goes ahead.
LEMMA PackedOK ==
    ASSUME Inv, NEW c \in Clients, head[c] # 0, NEW kinds \in SUBSET Kinds, kinds \subseteq Named(head[c]),
           NEW forced \in BOOLEAN, NEW named \in Nat, NEW contained \in Nat,
           ~ forced => /\ NamedOK(docs, writes, head[c], named)
                       /\ ContainedOK(docs, writes, head[c], contained)
    PROVE  JobOK(docs, writes, blobs, head[c], Packed(c, kinds, forced, named, contained))
<1>1. CASE Layers(head[c], kinds) \subseteq held[c]
  <2> DEFINE m == Pack(c, kinds)
             j == [at |-> "upload", manifest |-> m, forced |-> forced, named |-> named, contained |-> contained]
  <2>1. ManOK(docs, m) /\ Served(m) = head[c]
    BY PackOK
  <2>2. m \in Manifest
    BY <2>1 DEF ManOK
  <2> HIDE DEF m
  <2>3. j \in Uploading /\ j.at = "upload" /\ j.manifest = m /\ j.forced = forced /\ j.named = named
        /\ j.contained = contained
    BY <2>2 DEF Uploading
  <2> HIDE DEF j
  <2>4. UploadingOK(docs, writes, blobs, head[c], j)
    BY <2>1, <2>3 DEF UploadingOK
  <2>5. Packed(c, kinds, forced, named, contained) = j
    BY <1>1 DEF Packed, j, m
  <2> QED
    BY <2>4, <2>5 DEF JobOK
<1>2. CASE ~ (Layers(head[c], kinds) \subseteq held[c])
  BY <1>2, IdleOK DEF Packed
<1> QED
  BY <1>1, <1>2

\* Lemma: push is called.
LEMMA PushOK ==
    ASSUME Inv, NEW c \in Clients, NEW kinds, NEW force \in BOOLEAN, Push(c, kinds, force)
    PROVE  Inv'
<1>1. head[c] # 0 /\ kinds \in Publishable(head[c])
  BY DEF Push
<1>2. head[c] \in DOMAIN docs
  BY <1>1, CanTell
<1>3. kinds \in SUBSET Kinds /\ kinds \subseteq Named(head[c])
  <2>1. Named(head[c]) \subseteq Kinds
    BY <1>2, RefsOK DEF Named, Inv
  <2> QED
    BY <1>1, <2>1 DEF Publishable
<1>4. CASE force
  <2>1. JobOK(docs, writes, blobs, head[c], Packed(c, kinds, TRUE, 0, 0))
    BY <1>1, <1>3, PackedOK
  <2>2. job' = [job EXCEPT ![c] = Packed(c, kinds, TRUE, 0, 0)]
    BY <1>4 DEF Push
  <2> QED
    BY <2>1, <2>2, JobStep DEF Push, Calm, local, registry
<1>5. CASE ~ force
  <2> DEFINE j == [at |-> "narrowing", kinds |-> kinds]
  <2>1. NarrowingOK(docs, head[c], j)
    BY <1>3 DEF NarrowingOK, Narrowing, Named
  <2>2. JobOK(docs, writes, blobs, head[c], j)
    BY <1>1, <2>1 DEF JobOK
  <2>3. job' = [job EXCEPT ![c] = j]
    BY <1>5 DEF Push
  <2> HIDE DEF j
  <2> QED
    BY <2>2, <2>3, JobStep DEF Push, Calm, local, registry
<1> QED
  BY <1>4, <1>5

\* Lemma: the job of a push that is at a step, and what it keeps to there.
LEMMA JobAt ==
    ASSUME Inv, NEW c \in Clients
    PROVE  /\ job[c].at = "narrowing" => head[c] # 0 /\ NarrowingOK(docs, head[c], job[c])
           /\ job[c].at = "fast_forward" => head[c] # 0 /\ FastForwardOK(docs, writes, head[c], job[c])
           /\ job[c].at \in {"upload", "put"} => head[c] # 0 /\ UploadingOK(docs, writes, blobs, head[c], job[c])
           /\ job[c].at = "confirm" => head[c] # 0 /\ ConfirmingOK(docs, blobs, head[c], job[c])
<1>1. JobOK(docs, writes, blobs, head[c], job[c])
  BY DEF Inv
<1>2. Idle.at = "idle"
  BY DEF Idle
<1>3. NarrowingOK(docs, head[c], job[c]) => job[c].at = "narrowing"
  BY DEF NarrowingOK, Narrowing
<1>4. FastForwardOK(docs, writes, head[c], job[c]) => job[c].at = "fast_forward"
  BY DEF FastForwardOK, FastForward
<1>5. UploadingOK(docs, writes, blobs, head[c], job[c]) => job[c].at \in {"upload", "put"}
  BY DEF UploadingOK, Uploading
<1>6. ConfirmingOK(docs, blobs, head[c], job[c]) => job[c].at = "confirm"
  BY DEF ConfirmingOK, Confirming
<1> QED
  BY <1>1, <1>2, <1>3, <1>4, <1>5, <1>6 DEF JobOK

\* Lemma: the check that a push narrows nothing.
LEMMA NarrowingStep ==
    ASSUME Inv, NEW c \in Clients, RequireNotNarrowing(c)
    PROVE  Inv'
<1>1. head[c] # 0 /\ NarrowingOK(docs, head[c], job[c])
  BY JobAt DEF RequireNotNarrowing
<1>2. PICK n \in Seen(Stale) :
        /\ known' = [known EXCEPT ![c] = @ \cup
                            IF n # 0 /\ writes[n].config.type = "projection" THEN Documents(writes[n]) ELSE {}]
        /\ IF n = 0 \/ RemoteModules(writes[n]) \subseteq Named(head[c])
           THEN /\ job' = [job EXCEPT ![c] = [at |-> "fast_forward", kinds |-> @.kinds, named |-> n]]
                /\ UNCHANGED verdict
           ELSE Stop(c)
  BY DEF RequireNotNarrowing
<1>3. n \in 0 .. Len(writes) /\ (n # 0 => n \in DOMAIN writes /\ ManOK(docs, writes[n]))
  BY SeenOK, BoundsAssumption
<1>4. /\ Fields /\ docs' = docs /\ writes' = writes /\ blobs' = blobs /\ head' = head /\ origin' = origin
      /\ verdict' = verdict
  BY <1>2, FieldsOK DEF RequireNotNarrowing, registry, Stop
<1>5. PICK more \in SUBSET Nat :
        /\ known' = [known EXCEPT ![c] = known[c] \cup more]
        /\ more \subseteq DOMAIN docs /\ ClosedIn(docs, more)
  <2>1. CASE n # 0 /\ writes[n].config.type = "projection"
    <3>1. Documents(writes[n]) = History(writes[n])
      BY <2>1 DEF Documents
    <3>2. DOMAIN docs \subseteq Nat
      BY DEF Inv, DocsOK
    <3> QED
      BY <1>2, <1>3, <2>1, <3>1, <3>2 DEF ManOK
  <2>2. CASE ~ (n # 0 /\ writes[n].config.type = "projection")
    <3>1. known' = [known EXCEPT ![c] = known[c] \cup {}]
      BY <1>2, <2>2
    <3>2. {} \in SUBSET Nat /\ {} \subseteq DOMAIN docs /\ ClosedIn(docs, {})
      BY DEF ClosedIn
    <3> QED
      BY <3>1, <3>2
  <2> QED
    BY <2>1, <2>2
<1>6. PICK j : job' = [job EXCEPT ![c] = j] /\ JobOK(docs, writes, blobs, head[c], j)
  <2>1. CASE n = 0 \/ RemoteModules(writes[n]) \subseteq Named(head[c])
    <3> DEFINE j == [at |-> "fast_forward", kinds |-> job[c].kinds, named |-> n]
    <3>1. n \in Nat
      BY <1>3 DEF Inv, WritesOK
    <3>2. NamedOK(docs, writes, head[c], n)
      BY <1>3, <2>1 DEF NamedOK, RemoteModules, Named, ManOK, Served
    <3>3. FastForwardOK(docs, writes, head[c], j)
      BY <1>1, <3>1, <3>2 DEF FastForwardOK, FastForward, NarrowingOK, Narrowing
    <3>4. JobOK(docs, writes, blobs, head[c], j)
      BY <1>1, <3>3 DEF JobOK
    <3>5. job' = [job EXCEPT ![c] = j]
      BY <1>2, <2>1
    <3> QED
      BY <3>4, <3>5
  <2>2. CASE ~ (n = 0 \/ RemoteModules(writes[n]) \subseteq Named(head[c]))
    BY <1>2, <2>2, IdleOK DEF Stop
  <2> QED
    BY <2>1, <2>2
<1>7. Alone(c) /\ job'[c] = j /\ known'[c] = known[c] \cup more
  BY <1>4, <1>5, <1>6 DEF Alone, Fields
<1>8. ClientOK(docs, head'[c], known'[c], origin'[c], verdict'[c])
  <2>1. ClientOK(docs, head[c], known[c], origin[c], verdict[c])
    BY DEF Inv
  <2>2. ClosedIn(docs, known[c] \cup more)
    BY <1>5, <2>1 DEF ClientOK, ClosedIn
  <2> QED
    BY <1>4, <1>5, <1>7, <2>1, <2>2 DEF ClientOK
<1> QED
  BY <1>4, <1>6, <1>7, <1>8, Quietly

\* Lemma: the check that a push replaces nothing it does not contain.
LEMMA FastForwardStep ==
    ASSUME Inv, NEW c \in Clients, RequireFastForward(c)
    PROVE  Inv'
<1>1. head[c] # 0 /\ FastForwardOK(docs, writes, head[c], job[c])
  BY JobAt DEF RequireFastForward
<1>2. PICK n \in Seen(Stale) :
        IF n = 0 \/ Served(writes[n]) \in ReachableHistory(c)
        THEN /\ job' = [job EXCEPT ![c] = Packed(c, @.kinds, FALSE, @.named, n)]
             /\ UNCHANGED verdict
        ELSE Alarm(c, "diverged", Served(writes[n]))
  BY DEF RequireFastForward
<1>3. n \in 0 .. Len(writes) /\ n \in Nat /\ (n # 0 => n \in DOMAIN writes /\ ManOK(docs, writes[n]))
  BY SeenOK, BoundsAssumption DEF Inv, WritesOK
<1>4. ReachableHistory(c) = Anc(docs, head[c])
  BY <1>1, CanTell
<1>5. docs' = docs /\ writes' = writes /\ blobs' = blobs /\ UNCHANGED <<head, known, origin>>
  BY DEF RequireFastForward, local, registry
<1>6. CASE n = 0 \/ Served(writes[n]) \in ReachableHistory(c)
  <2>1. /\ job[c].kinds \in SUBSET Kinds /\ job[c].kinds \subseteq Named(head[c]) /\ job[c].named \in Nat
        /\ NamedOK(docs, writes, head[c], job[c].named)
    BY <1>1 DEF FastForwardOK, FastForward, Named
  <2>2. ContainedOK(docs, writes, head[c], n)
    BY <1>3, <1>4, <1>6 DEF ContainedOK
  <2>3. JobOK(docs, writes, blobs, head[c], Packed(c, job[c].kinds, FALSE, job[c].named, n))
    BY <1>1, <1>3, <2>1, <2>2, PackedOK
  <2>4. job' = [job EXCEPT ![c] = Packed(c, job[c].kinds, FALSE, job[c].named, n)] /\ verdict' = verdict
    BY <1>2, <1>6
  <2> QED
    BY <1>5, <2>3, <2>4, JobStep
<1>7. CASE ~ (n = 0 \/ Served(writes[n]) \in ReachableHistory(c))
  <2>1. Served(writes[n]) \in Nat
    BY <1>3, <1>7 DEF ManOK, Manifest, Blob, Served
  <2>2. /\ job' = [job EXCEPT ![c] = Idle]
        /\ verdict' = [verdict EXCEPT ![c] = [how |-> "diverged", head |-> head[c], observed |-> Served(writes[n])]]
    BY <1>2, <1>7 DEF Alarm
  <2> QED
    BY <1>1, <1>4, <1>5, <1>7, <2>1, <2>2, IdleOK, JobStep
<1> QED
  BY <1>6, <1>7

\* Lemma: a failed read of a guard ends the push.
LEMMA GuardFailsOK ==
    ASSUME Inv, NEW c \in Clients, GuardFails(c)
    PROVE  Inv'
<1>1. /\ docs' = docs /\ writes' = writes /\ blobs' = blobs /\ UNCHANGED <<head, known, origin>>
      /\ job' = [job EXCEPT ![c] = Idle] /\ verdict' = verdict
  BY DEF GuardFails, Unreadable, Stop, local, registry
<1> QED
  BY <1>1, IdleOK, JobStep

\* Lemma: more blobs, or one more write of the tag that has its blobs there.
LEMMA Stored ==
    ASSUME Inv, NEW c \in Clients, docs' = docs, blobs \subseteq blobs', UNCHANGED <<head, known, origin, verdict>>,
           \/ writes' = writes
           \/ \E m \in Manifest : ManOK(docs, m) /\ Blobs(m) \subseteq blobs' /\ writes' = Append(writes, m),
           NEW j, job' = [job EXCEPT ![c] = j], JobOK(docs, writes', blobs', head[c], j)
    PROVE  Inv' /\ Extended(writes, writes')
<1>1. Fields /\ WritesOK(docs, writes, blobs') /\ DocsOK(docs')
  BY FieldsOK, ExtendedSame, WritesGrow DEF Inv
<1>2. Alone(c) /\ job'[c] = j
  BY <1>1 DEF Alone, Fields
<1>3. WritesOK(docs', writes', blobs') /\ Extended(writes, writes')
  <2>1. CASE writes' = writes
    BY <1>1, <2>1, ExtendedSame
  <2>2. ASSUME NEW m \in Manifest, ManOK(docs, m), Blobs(m) \subseteq blobs', writes' = Append(writes, m)
        PROVE  WritesOK(docs', writes', blobs') /\ Extended(writes, writes')
    <3>1. writes \in Seq(Manifest) /\ Len(writes) \in Nat /\ DOMAIN writes = 1 .. Len(writes)
      BY <1>1 DEF WritesOK
    <3> DEFINE V == Append(writes, m)
    <3>2. /\ V \in Seq(Manifest) /\ DOMAIN V = 1 .. Len(writes) + 1
          /\ \A n \in DOMAIN writes : V[n] = writes[n]
          /\ V[Len(writes) + 1] = m
      BY <3>1, Appended
    <3> HIDE DEF V
    <3>3. \A n \in DOMAIN V : n \in DOMAIN writes \/ n = Len(writes) + 1
      BY <3>1, <3>2
    <3>4. DOMAIN writes \subseteq DOMAIN V
      BY <3>1, <3>2
    <3>5. WritesOK(docs, V, blobs') /\ Extended(writes, V)
      BY <1>1, <2>2, <3>2, <3>3, <3>4 DEF WritesOK, Extended
    <3> QED
      BY <2>2, <3>5 DEF V
  <2> QED
    BY <2>1, <2>2
<1>4. ClientOK(docs', head'[c], known'[c], origin'[c], verdict'[c])
  BY DEF Inv
<1> QED
  BY <1>1, <1>2, <1>3, <1>4, ExtendedSame, OneClient

\* Lemma: the blobs of a push are uploaded.
LEMMA UploadOK ==
    ASSUME Inv, NEW c \in Clients, UploadBlobs(c)
    PROVE  Inv'
<1> DEFINE j == [job[c] EXCEPT !.at = "put"]
<1>1. head[c] # 0 /\ UploadingOK(docs, writes, blobs, head[c], job[c]) /\ Fields
  BY JobAt, FieldsOK DEF UploadBlobs
<1>2. job' = [job EXCEPT ![c] = j]
  BY <1>1 DEF UploadBlobs, Fields
<1>3. /\ j \in Uploading /\ j.at = "put" /\ j.manifest = job[c].manifest /\ j.forced = job[c].forced
      /\ j.named = job[c].named /\ j.contained = job[c].contained
  BY <1>1 DEF UploadingOK, Uploading
<1> HIDE DEF j
<1>4. blobs' = blobs \cup Blobs(job[c].manifest) /\ docs' = docs /\ writes' = writes
      /\ UNCHANGED <<head, known, origin, verdict>>
  BY DEF UploadBlobs, local
<1>5. UploadingOK(docs, writes', blobs', head[c], j)
  BY <1>1, <1>3, <1>4 DEF UploadingOK
<1>6. JobOK(docs, writes', blobs', head[c], j)
  BY <1>1, <1>5 DEF JobOK
<1> QED
  BY <1>2, <1>4, <1>6, Stored

\* Lemma: the tag moves.
LEMMA PutOK ==
    ASSUME Inv, NEW c \in Clients, PutManifest(c)
    PROVE  Inv'
<1> DEFINE m == job[c].manifest
           j == [at |-> "confirm", manifest |-> m, mine |-> Len(writes) + 1, tries |-> 0]
<1>1. head[c] # 0 /\ UploadingOK(docs, writes, blobs, head[c], job[c]) /\ job[c].at = "put"
  BY JobAt DEF PutManifest, Uploaded
<1>2. m \in Manifest /\ ManOK(docs, m) /\ Served(m) = head[c] /\ Blobs(m) \subseteq blobs
  BY <1>1 DEF UploadingOK, ManOK
<1>3. /\ docs' = docs /\ blobs' = blobs /\ UNCHANGED <<head, known, origin, verdict>>
      /\ writes' = Append(writes, m) /\ job' = [job EXCEPT ![c] = j]
  BY DEF PutManifest, local
<1>4. Len(writes) + 1 \in Nat
  BY DEF Inv, WritesOK
<1> HIDE DEF m
<1>5. ConfirmingOK(docs, blobs', head[c], j)
  BY <1>2, <1>3, <1>4 DEF ConfirmingOK, Confirming
<1>6. JobOK(docs, writes', blobs', head[c], j)
  BY <1>1, <1>5 DEF JobOK
<1> HIDE DEF j
<1> QED
  BY <1>2, <1>3, <1>6, Stored

\* Lemma: a push that fails.
LEMMA PushFailsOK ==
    ASSUME Inv, NEW c \in Clients, PushFails(c)
    PROVE  Inv'
<1>1. /\ docs' = docs /\ writes' = writes /\ blobs \subseteq blobs' /\ UNCHANGED <<head, known, origin, verdict>>
      /\ job' = [job EXCEPT ![c] = Idle]
  BY DEF PushFails, Stop, local
<1> QED
  BY <1>1, IdleOK, Stored

\* Lemma: the look at the tag after the write.
LEMMA ConfirmOK ==
    ASSUME Inv, NEW c \in Clients, ConfirmPublish(c)
    PROVE  Inv'
<1>1. head[c] # 0 /\ ConfirmingOK(docs, blobs, head[c], job[c])
  BY JobAt DEF ConfirmPublish
<1>2. /\ docs' = docs /\ writes' = writes /\ blobs' = blobs /\ head' = head /\ known' = known
  BY DEF ConfirmPublish, registry
<1>3. ASSUME Published(c) PROVE Inv'
  <2> DEFINE o == job[c].manifest.config
  <2>1. /\ job' = [job EXCEPT ![c] = Idle] /\ verdict' = verdict /\ origin' = [origin EXCEPT ![c] = o]
    BY <1>3 DEF Published, Stop
  <2>2. o.type \in {"snapshot", "projection"} /\ o.of = head[c]
    BY <1>1 DEF ConfirmingOK, ManOK, Served
  <2> HIDE DEF o
  <2>3. Fields
    BY FieldsOK
  <2>4. Alone(c) /\ job'[c] = Idle /\ origin'[c] = o
    BY <1>2, <2>1, <2>3 DEF Alone, Fields
  <2>5. head[c] \in Anc(docs, head[c])
    BY <1>1, CanTell
  <2>6. ClientOK(docs, head'[c], known'[c], origin'[c], verdict'[c])
    BY <1>1, <1>2, <2>1, <2>2, <2>4, <2>5 DEF ClientOK, Inv
  <2> QED
    BY <1>2, <2>4, <2>6, IdleOK, Quietly
<1>4. PICK n \in Seen(Lag) :
        LET observed == Served(writes[n])
        IN \/ n # 0 /\ observed = head[c] /\ Published(c)
           \/ n # 0 /\ Replaced(c, observed) /\ Alarm(c, "lost", observed) /\ UNCHANGED origin
           \/ IF Again(c).tries < Attempts
              THEN job' = [job EXCEPT ![c] = Again(c)] /\ UNCHANGED <<origin, verdict>>
              ELSE Published(c)
  BY DEF ConfirmPublish
<1>5. n # 0 => ManOK(docs, writes[n])
  BY SeenOK, BoundsAssumption
<1>6. CASE n # 0 /\ Replaced(c, Served(writes[n])) /\ Alarm(c, "lost", Served(writes[n])) /\ origin' = origin
  <2>1. Served(writes[n]) \in Nat
    BY <1>5, <1>6 DEF ManOK, Manifest, Blob, Served
  <2>2. Served(writes[n]) \notin Anc(docs, head[c])
    BY <1>1, <1>6, CanTell DEF Replaced
  <2>3. /\ job' = [job EXCEPT ![c] = Idle]
        /\ verdict' = [verdict EXCEPT ![c] = [how |-> "lost", head |-> head[c], observed |-> Served(writes[n])]]
    BY <1>6 DEF Alarm
  <2> QED
    BY <1>1, <1>2, <1>6, <2>1, <2>2, <2>3, IdleOK, JobStep
<1>7. CASE job' = [job EXCEPT ![c] = Again(c)] /\ UNCHANGED <<origin, verdict>>
  <2>1. Again(c) \in Confirming /\ Again(c).manifest = job[c].manifest
    BY <1>1 DEF ConfirmingOK, Confirming, Again
  <2>2. JobOK(docs, writes, blobs, head[c], Again(c))
    BY <1>1, <2>1 DEF ConfirmingOK, JobOK
  <2> QED
    BY <1>2, <1>7, <2>2, JobStep
<1> QED
  BY <1>3, <1>4, <1>6, <1>7

\* The version new is one of S, or a document that stands on some of S and that makes D into E.
Stands(D, S, E, new) ==
    \/ E = D /\ new \in S
    \/ new = Len(D) + 1 /\ \E d \in DocSet : d.parents \subseteq S /\ E = Append(D, d)

\* Lemma: documents to which one is added that stands on some of them, if any is.
LEMMA Succeeding ==
    ASSUME NEW D, DocsOK(D), NEW S \in SUBSET DOMAIN D, ClosedIn(D, S), NEW E, NEW new, Stands(D, S, E, new)
    PROVE  /\ DocsOK(E) /\ Extended(D, E) /\ Len(D) <= Len(E) /\ new \in DOMAIN E
           /\ E[new].parents \subseteq S \cup {new} /\ new # 0
<1>1. Len(D) \in Nat /\ DOMAIN D = 1 .. Len(D)
  BY DEF DocsOK
<1>2. CASE E = D /\ new \in S
  <2>1. D[new].parents \subseteq S /\ new \in DOMAIN D
    BY <1>2 DEF ClosedIn
  <2> QED
    BY <1>1, <1>2, <2>1, ExtendedSame
<1>3. CASE new = Len(D) + 1 /\ \E d \in DocSet : d.parents \subseteq S /\ E = Append(D, d)
  <2>1. PICK d \in DocSet : d.parents \subseteq S /\ E = Append(D, d)
    BY <1>3
  <2>2. d.parents \subseteq DOMAIN D
    BY <2>1
  <2>3. /\ DocsOK(Append(D, d)) /\ Extended(D, Append(D, d))
        /\ Len(D) + 1 \in DOMAIN Append(D, d) /\ Append(D, d)[Len(D) + 1] = d
        /\ Len(Append(D, d)) = Len(D) + 1
    BY <2>2, AppendOK
  <2>4. DocsOK(E) /\ Extended(D, E) /\ new \in DOMAIN E /\ E[new] = d /\ Len(E) = Len(D) + 1
    BY <1>3, <2>1, <2>3
  <2>5. Len(D) <= Len(D) + 1 /\ Len(D) + 1 # 0
    BY <1>1
  <2> QED
    BY <1>3, <2>1, <2>4, <2>5
<1> QED
  BY <1>2, <1>3 DEF Stands

\* Lemma: a client that makes a version which stands on what it knows then, and takes its head there.
LEMMA Moves ==
    ASSUME Inv, NEW c \in Clients, Ready(c), UNCHANGED <<writes, blobs, job>>,
           NEW more \in SUBSET DOMAIN docs, ClosedIn(docs, more), NEW new, NEW o,
           Stands(docs, known[c] \cup more, docs', new),
           head' = [head EXCEPT ![c] = new],
           known' = [known EXCEPT ![c] = known[c] \cup more \cup {new}],
           origin' = [origin EXCEPT ![c] = o],
           o.type \in {"snapshot", "projection"}, o.of \in 0 .. Len(docs),
           o.type = "snapshot" /\ o.of # 0 => o.of \in Anc(docs', new),
           Calm(c)
    PROVE  Inv'
<1>1. /\ Fields /\ DocsOK(docs) /\ Len(docs) \in Nat /\ DOMAIN docs = 1 .. Len(docs)
      /\ ClientOK(docs, head[c], known[c], origin[c], verdict[c])
  BY DEF Inv, DocsOK
<1>2. known[c] \cup more \subseteq DOMAIN docs /\ ClosedIn(docs, known[c] \cup more)
  BY <1>1 DEF ClientOK, ClosedIn
<1>3. /\ DocsOK(docs') /\ Extended(docs, docs') /\ Len(docs) <= Len(docs') /\ new \in DOMAIN docs'
      /\ docs'[new].parents \subseteq known[c] \cup more \cup {new} /\ new # 0
  BY <1>1, <1>2, Succeeding
<1>4. /\ head'[c] = new /\ known'[c] = known[c] \cup more \cup {new} /\ origin'[c] = o
      /\ verdict'[c] = Quiet /\ verdict' = [verdict EXCEPT ![c] = Quiet] /\ job'[c] = Idle
  BY <1>1 DEF Fields, Calm, Ready
<1>5. Alone(c)
  BY <1>1, <1>4 DEF Alone, Fields
<1>6. known'[c] \subseteq DOMAIN docs' /\ ClosedIn(docs', known'[c])
  BY <1>2, <1>3, <1>4 DEF Extended, ClosedIn
<1>7. Len(docs') \in Nat /\ DOMAIN docs' = 1 .. Len(docs')
  BY <1>3 DEF DocsOK
<1>8. ClientOK(docs', head'[c], known'[c], origin'[c], verdict'[c])
  <2>1. \A i, j \in Nat : i <= j => 0 .. i \subseteq 0 .. j
    OBVIOUS
  <2>2. new \in 0 .. Len(docs') /\ o.of \in 0 .. Len(docs')
    <3>1. new \in 1 .. Len(docs')
      BY <1>3, <1>7
    <3> QED
      BY <1>1, <1>3, <1>7, <2>1, <3>1
  <2> QED
    BY <1>3, <1>4, <1>6, <2>2 DEF ClientOK, Quiet
<1>9. WritesOK(docs', writes', blobs') /\ JobOK(docs', writes', blobs', head'[c], job'[c])
  BY <1>3, <1>4, WritesGrow, IdleOK DEF Inv
<1> QED
  BY <1>3, <1>5, <1>8, <1>9, ExtendedSame, OneClient

\* Lemma: fetch and merge.
LEMMA MergeOK ==
    ASSUME Inv, NEW c \in Clients, FetchAndMerge(c)
    PROVE  Inv'
<1> DEFINE ours == head[c]
           new == Len(docs) + 1
<1>1. PICK n \in Seen(Stale) \ {0} :
        LET m == writes[n]
            theirs == Served(m)
            here == held[c] \cup Layers(theirs, Carried(m))
            Open(i) == {k \in Named(i) : Layers(i, {k}) \subseteq here}
            Differ == {k \in Open(ours) \cap Open(theirs) : docs[ours].refs[k] # docs[theirs].refs[k]}
            refs == [k \in Named(ours) \cup Named(theirs) |->
                        IF k \in Differ THEN new
                        ELSE IF k \in Open(ours) \/ k \notin Named(theirs) THEN docs[ours].refs[k]
                        ELSE docs[theirs].refs[k]]
        IN /\ Retrievable(m, {}) /\ theirs \notin ReachableHistory(c)
           /\ docs' = Append(docs, [parents |-> {ours, theirs}, refs |-> refs])
           /\ head' = [head EXCEPT ![c] = new]
           /\ known' = [known EXCEPT ![c] = Learn(c, m) \cup {new}]
  BY DEF FetchAndMerge
<1> DEFINE m == writes[n]
           theirs == Served(m)
           here == held[c] \cup Layers(theirs, Carried(m))
           Open(i) == {k \in Named(i) : Layers(i, {k}) \subseteq here}
           Differ == {k \in Open(ours) \cap Open(theirs) : docs[ours].refs[k] # docs[theirs].refs[k]}
           refs == [k \in Named(ours) \cup Named(theirs) |->
                        IF k \in Differ THEN new
                        ELSE IF k \in Open(ours) \/ k \notin Named(theirs) THEN docs[ours].refs[k]
                        ELSE docs[theirs].refs[k]]
           d == [parents |-> {ours, theirs}, refs |-> refs]
<1>2. /\ docs' = Append(docs, d) /\ head' = [head EXCEPT ![c] = new]
      /\ known' = [known EXCEPT ![c] = Learn(c, m) \cup {new}]
  BY <1>1
<1>3. /\ Ready(c) /\ CanAdd /\ ours # 0 /\ UNCHANGED <<writes, blobs, job>> /\ Calm(c) /\ origin' = origin
  BY DEF FetchAndMerge, registry
<1>4. ManOK(docs, m)
  BY SeenOK, BoundsAssumption
<1>5. /\ DocsOK(docs) /\ Fields /\ ClientOK(docs, ours, known[c], origin[c], verdict[c])
      /\ Len(docs) \in Nat /\ DOMAIN docs = 1 .. Len(docs)
  BY DEF Inv, DocsOK
<1>6. /\ ours \in DOMAIN docs /\ theirs \in DOMAIN docs /\ new \in Versions /\ DOMAIN docs \subseteq Versions
      /\ ours \in known[c] /\ theirs \in History(m)
  <2>1. ours \in DOMAIN docs /\ ours \in known[c]
    BY <1>3, <1>5, CanTell DEF ClientOK
  <2>2. new \in Versions /\ DOMAIN docs \subseteq Versions
    BY <1>3, <1>5, BoundsAssumption DEF CanAdd, Versions
  <2>3. theirs \in History(m) /\ theirs \in DOMAIN docs
    BY <1>4 DEF ManOK
  <2> QED
    BY <2>1, <2>2, <2>3
<1>7. Learn(c, m) = known[c] \cup History(m)
  BY <1>4 DEF Learn, Documents, ManOK, Served
<1>8. d \in DocSet
  <2>1. /\ docs[ours].refs \in [Named(ours) -> Versions] /\ Named(ours) \subseteq Kinds
        /\ docs[theirs].refs \in [Named(theirs) -> Versions] /\ Named(theirs) \subseteq Kinds
    BY <1>5, <1>6, RefsOK DEF Named
  <2>2. ASSUME NEW k \in Named(ours) \cup Named(theirs) PROVE refs[k] \in Versions
    <3>1. Open(ours) \subseteq Named(ours)
      OBVIOUS
    <3> HIDE DEF Open, Differ, new, ours, theirs
    <3> QED
      BY <1>6, <2>1, <3>1
  <2>3. refs \in [Named(ours) \cup Named(theirs) -> Versions]
    <3> HIDE DEF Differ, Open, new, ours, theirs
    <3> QED
      BY <2>2
  <2>4. Named(ours) \cup Named(theirs) \in SUBSET Kinds
    BY <2>1
  <2> HIDE DEF refs, ours, theirs
  <2>5. refs \in UNION {[ks -> Versions] : ks \in SUBSET Kinds}
    BY <2>3, <2>4
  <2> QED
    BY <1>6, <2>5 DEF DocSet
<1>9. d.parents \subseteq known[c] \cup History(m)
  BY <1>6
<1>10. origin' = [origin EXCEPT ![c] = origin[c]]
  BY <1>3, <1>5 DEF Fields
<1>11. History(m) \in SUBSET DOMAIN docs /\ ClosedIn(docs, History(m))
  BY <1>4 DEF ManOK
<1>12. origin[c].type = "snapshot" /\ origin[c].of # 0 => origin[c].of \in Anc(docs', new)
  <2>1. d.parents \subseteq DOMAIN docs
    BY <1>6
  <2> HIDE DEF d
  <2>2. /\ DocsOK(docs') /\ Extended(docs, docs') /\ new \in DOMAIN docs' /\ docs'[new] = d
    BY <1>2, <1>5, <1>8, <2>1, AppendOK
  <2>3. new \in Anc(docs', new) /\ ClosedIn(docs', Anc(docs', new))
    BY <2>2, AncClosed
  <2>4. ours \in Anc(docs', new)
    BY <2>2, <2>3 DEF ClosedIn, d
  <2>5. Anc(docs', ours) \subseteq Anc(docs', new) /\ Anc(docs', ours) = Anc(docs, ours)
    BY <1>5, <1>6, <2>2, <2>4, AncTrans, AncStable
  <2> QED
    BY <1>5, <2>5 DEF ClientOK
<1>13. origin[c].type \in {"snapshot", "projection"} /\ origin[c].of \in 0 .. Len(docs)
  BY <1>5 DEF ClientOK
<1>14. Stands(docs, known[c] \cup History(m), docs', new)
  <2> HIDE DEF d, m
  <2> QED
    BY <1>2, <1>8, <1>9 DEF Stands
<1>15. head' = [head EXCEPT ![c] = new] /\ known' = [known EXCEPT ![c] = known[c] \cup History(m) \cup {new}]
  BY <1>2, <1>7
<1> HIDE DEF d, new, m
<1> QED
  BY <1>3, <1>7, <1>10, <1>11, <1>12, <1>13, <1>14, <1>15, Moves

\* Lemma: pull.
LEMMA PullOK ==
    ASSUME Inv, NEW c \in Clients, NEW kinds \in SUBSET Kinds, NEW override \in BOOLEAN, Pull(c, kinds, override)
    PROVE  Inv'
<1>1. PICK n \in Seen(Stale) \ {0} :
        /\ Retrievable(writes[n], kinds)
        /\ IF RollsBack(c, writes[n]) /\ ~ override
           THEN /\ known' = [known EXCEPT ![c] = Learn(c, writes[n])]
                /\ Alarm(c, "rollback", Served(writes[n]))
                /\ UNCHANGED <<docs, head, origin>>
           ELSE /\ InstallHead(c, writes[n], kinds) /\ Calm(c)
                /\ UNCHANGED job
  BY DEF Pull
<1> DEFINE m == writes[n]
           source == Served(m)
           past == History(m)
<1>2. ManOK(docs, m)
  BY SeenOK, BoundsAssumption
<1>3. Ready(c) /\ UNCHANGED <<writes, blobs>> /\ Fields
  BY FieldsOK DEF Pull, registry
<1>4. /\ DocsOK(docs) /\ Len(docs) \in Nat /\ DOMAIN docs = 1 .. Len(docs)
      /\ ClientOK(docs, head[c], known[c], origin[c], verdict[c])
  BY DEF Inv, DocsOK
<1>5. /\ source \in past /\ past \in SUBSET DOMAIN docs /\ ClosedIn(docs, past) /\ source \in DOMAIN docs
      /\ Learn(c, m) = known[c] \cup past
  BY <1>2 DEF ManOK, Learn, Documents, Served
<1>6. CASE RollsBack(c, m) /\ ~ override
  <2>1. /\ known' = [known EXCEPT ![c] = known[c] \cup past] /\ docs' = docs /\ head' = head /\ origin' = origin
        /\ job' = [job EXCEPT ![c] = Idle]
        /\ verdict' = [verdict EXCEPT ![c] = [how |-> "rollback", head |-> head[c], observed |-> source]]
    BY <1>1, <1>5, <1>6 DEF Alarm
  <2> HIDE DEF source, past, m
  <2>2. /\ Alone(c) /\ job'[c] = Idle /\ known'[c] = known[c] \cup past /\ verdict'[c].how = "rollback"
    BY <1>3, <2>1 DEF Alone, Fields
  <2>3. ClosedIn(docs, known[c] \cup past)
    BY <1>4, <1>5 DEF ClientOK, ClosedIn
  <2>4. ClientOK(docs, head'[c], known'[c], origin'[c], verdict'[c])
    BY <1>4, <1>5, <2>1, <2>2, <2>3 DEF ClientOK
  <2>5. JobOK(docs, writes, blobs, head'[c], job'[c])
    BY <2>2, IdleOK
  <2>6. docs' = docs /\ writes' = writes /\ blobs' = blobs
    BY <1>3, <2>1
  <2> QED
    BY <2>2, <2>4, <2>5, <2>6, Quietly
<1>7. CASE ~ (RollsBack(c, m) /\ ~ override)
  <2> DEFINE d == [parents |-> Succeeds(source), refs |-> [k \in Wanted(m, kinds) |-> docs[source].refs[k]]]
             new == IF Whole(m, kinds) THEN source ELSE Len(docs) + 1
  <2>1. InstallHead(c, m, kinds) /\ Calm(c) /\ job' = job
    BY <1>1, <1>7
  <2>2. /\ Whole(m, kinds) \/ CanAdd
        /\ docs' = IF Whole(m, kinds) THEN docs ELSE Append(docs, d)
        /\ head' = [head EXCEPT ![c] = new]
        /\ known' = [known EXCEPT ![c] = Learn(c, m) \cup {new}]
        /\ origin' = [origin EXCEPT ![c] = Document(source)]
    BY <2>1 DEF InstallHead
  <2>3. ~ Whole(m, kinds) => d \in DocSet /\ d.parents = {source}
    <3>0. SUFFICES ASSUME ~ Whole(m, kinds) PROVE d \in DocSet /\ d.parents = {source}
      OBVIOUS
    <3>1. Wanted(m, kinds) \subseteq Carried(m) /\ Carried(m) \subseteq Named(source)
      BY <1>1, <1>2 DEF Wanted, Retrievable, ManOK, Named
    <3>2. docs[source].refs \in [Named(source) -> Versions] /\ Named(source) \subseteq Kinds
      BY <1>4, <1>5, RefsOK DEF Named
    <3>3. [k \in Wanted(m, kinds) |-> docs[source].refs[k]] \in [Wanted(m, kinds) -> Versions]
      BY <3>1, <3>2
    <3>4. Wanted(m, kinds) \in SUBSET Kinds
      BY <3>1, <3>2
    <3>5. d.refs \in UNION {[ks -> Versions] : ks \in SUBSET Kinds}
      BY <3>3, <3>4
    <3>6. {source} \in SUBSET Versions
      <4>1. \A i \in DOMAIN docs : i \in Versions
        BY <1>4, <2>2, <3>0, BoundsAssumption DEF CanAdd, Versions
      <4> QED
        BY <1>5, <4>1
    <3> QED
      BY <3>5, <3>6 DEF DocSet, Succeeds
  <2> HIDE DEF d, source, past, m
  <2>4. Stands(docs, known[c] \cup past, docs', new)
    <3>1. CASE Whole(m, kinds)
      BY <1>5, <2>2, <3>1 DEF Stands
    <3>2. CASE ~ Whole(m, kinds)
      BY <1>5, <2>2, <2>3, <3>2 DEF Stands
    <3> QED
      BY <3>1, <3>2
  <2>5. source \in Anc(docs', new)
    <3>1. CASE Whole(m, kinds)
      BY <1>4, <1>5, <2>2, <3>1, AncClosed
    <3>2. CASE ~ Whole(m, kinds)
      <4>1. d.parents \subseteq DOMAIN docs
        BY <1>5, <2>3, <3>2
      <4>2. /\ DocsOK(docs') /\ new \in DOMAIN docs' /\ docs'[new] = d
        BY <1>4, <2>2, <2>3, <3>2, <4>1, AppendOK
      <4>3. new \in Anc(docs', new) /\ ClosedIn(docs', Anc(docs', new))
        BY <4>2, AncClosed
      <4> QED
        BY <2>3, <3>2, <4>2, <4>3 DEF ClosedIn
    <3> QED
      BY <3>1, <3>2
  <2>6. Document(source).type = "snapshot" /\ Document(source).of = source
    BY DEF Document
  <2>7. source \in 0 .. Len(docs)
    BY <1>4, <1>5
  <2>8. known' = [known EXCEPT ![c] = known[c] \cup past \cup {new}]
    BY <1>5, <2>2
  <2> HIDE DEF new
  <2> QED
    BY <1>3, <1>5, <2>1, <2>2, <2>4, <2>5, <2>6, <2>7, <2>8, Moves
<1> QED
  BY <1>6, <1>7

\* Lemma: the invariant holds at first.
LEMMA InitInv == Init => Inv
<1> SUFFICES ASSUME Init PROVE Inv
  OBVIOUS
<1> DEFINE d == [parents |-> {}, refs |-> [k \in Kinds |-> 1]]
<1>1. d \in DocSet /\ d.parents = {}
  <2>1. [k \in Kinds |-> 1] \in [Kinds -> Versions]
    BY BoundsAssumption DEF Versions
  <2>2. [k \in Kinds |-> 1] \in UNION {[ks -> Versions] : ks \in SUBSET Kinds}
    BY <2>1
  <2> QED
    BY <2>2 DEF DocSet
<1>2. docs = <<d>>
  BY DEF Init
<1> HIDE DEF d
<1>3. docs \in Seq(DocSet) /\ DOMAIN docs = {1} /\ docs[1] = d /\ Len(docs) = 1
  BY <1>1, <1>2
<1>4. DocsOK(docs)
  BY <1>1, <1>3 DEF DocsOK
<1>5. WritesOK(docs, writes, blobs)
  BY DEF Init, WritesOK
<1>6. Fields
  BY DEF Init, Fields
<1>7. ASSUME NEW c \in Clients
      PROVE  /\ ClientOK(docs, head[c], known[c], origin[c], verdict[c])
             /\ JobOK(docs, writes, blobs, head[c], job[c])
  <2>1. job[c] = Idle /\ verdict[c] = Quiet /\ origin[c] = Document(0)
    BY DEF Init
  <2>2. \/ head[c] = 1 /\ known[c] = {1}
        \/ head[c] = 0 /\ known[c] = {}
    BY DEF Init
  <2>3. ClosedIn(docs, known[c]) /\ known[c] \subseteq DOMAIN docs /\ head[c] \in 0 .. Len(docs)
    BY <1>1, <1>3, <2>2 DEF ClosedIn
  <2> QED
    BY <1>3, <2>1, <2>2, <2>3, IdleOK DEF ClientOK, Quiet, Document
<1> QED
  BY <1>4, <1>5, <1>6, <1>7 DEF Inv

\* Lemma: every step keeps the invariant.
LEMMA NextInv == Inv /\ [Next]_vars => Inv'
<1> SUFFICES ASSUME Inv, [Next]_vars PROVE Inv'
  OBVIOUS
<1>1. CASE UNCHANGED vars
  BY <1>1 DEF vars, local, registry, Inv, Fields
<1>2. ASSUME NEW c \in Clients, Fails(c) PROVE Inv'
  BY <1>2, GuardFailsOK, PushFailsOK DEF Fails
<1>3. ASSUME NEW c \in Clients, Acts(c) PROVE Inv'
  <2>1. ASSUME NEW k \in Edited, Commit(c, k) PROVE Inv'
    BY <2>1, CommitOK
  <2>2. ASSUME NEW kinds, NEW force \in Forces, Push(c, kinds, force) PROVE Inv'
    <3>1. force \in BOOLEAN
      BY DEF Forces
    <3> QED
      BY <2>2, <3>1, PushOK
  <2>3. ASSUME FetchAndMerge(c) PROVE Inv'
    BY <2>3, MergeOK
  <2>4. ASSUME NEW kinds \in Subsets \cup {{}}, NEW override \in Forces, Pull(c, kinds, override) PROVE Inv'
    <3>1. override \in BOOLEAN /\ kinds \in SUBSET Kinds
      BY KindsAssumption DEF Forces
    <3> QED
      BY <2>4, <3>1, PullOK
  <2>5. ASSUME Continue(c) PROVE Inv'
    BY <2>5, NarrowingStep, FastForwardStep, UploadOK, PutOK, ConfirmOK DEF Continue
  <2> QED
    BY <1>3, <2>1, <2>2, <2>3, <2>4, <2>5 DEF Acts
<1> QED
  BY <1>1, <1>2, <1>3 DEF Next

\* The invariant holds throughout.
THEOREM Invariant == Spec => []Inv
<1>1. Init => Inv
  BY InitInv
<1>2. Inv /\ [Next]_vars => Inv'
  BY NextInv
<1> QED
  BY <1>1, <1>2, PTL DEF Spec

-----------------------------------------------------------------------------
(* What follows from it.                                                   *)

\* Every variable has its type.
THEOREM TypeCorrect == Spec => []TypeOK
<1>1. Inv => TypeOK
  <2> SUFFICES ASSUME Inv PROVE TypeOK
    OBVIOUS
  <2>1. docs \in Seq(DocSet)
    BY DEF Inv, DocsOK
  <2>2. \A c \in Clients : /\ head[c] \in 0 .. Len(docs) /\ known[c] \in SUBSET DOMAIN docs
                           /\ origin[c].type \in {"snapshot", "projection"} /\ origin[c].of \in 0 .. Len(docs)
                           /\ head[c] # 0 => head[c] \in known[c]
    BY DEF Inv, ClientOK
  <2>3. head \in [Clients -> 0 .. Len(docs)] /\ known \in [Clients -> SUBSET DOMAIN docs]
    BY <2>2 DEF Inv, Fields
  <2>4. \A n \in DOMAIN writes : Served(writes[n]) \in DOMAIN docs
    BY DEF Inv, WritesOK, ManOK
  <2> QED
    BY <2>1, <2>2, <2>3, <2>4 DEF TypeOK, DocSet
<1> QED
  BY <1>1, Invariant, PTL

\* oras_client.push: whatever the tag names or named is complete, and carries the documents of
\* the history it claims.
THEOREM TagIsComplete == Spec => []TagComplete
<1>1. Inv => TagComplete
  BY DEF Inv, WritesOK, ManOK, TagComplete
<1> QED
  BY <1>1, Invariant, PTL

\* _require_fast_forward, _confirm_publish: an alarm is raised only on a version the client's
\* history does not contain.
THEOREM AlarmsAreReal == Spec => []AlarmsReal
<1>1. Inv => AlarmsReal
  BY ClosureIs DEF Inv, ClientOK, AlarmsReal
<1> QED
  BY <1>1, Invariant, PTL

\* pull, push: what the origin names is in the history the client can tell.
THEOREM OriginIsContained == Spec => []OriginContained
<1>1. Inv => OriginContained
  <2> SUFFICES ASSUME Inv, NEW c \in Clients, origin[c].type = "snapshot", origin[c].of # 0
               PROVE  origin[c].of \in ReachableHistory(c)
    BY DEF OriginContained
  <2>1. head[c] # 0 /\ origin[c].of \in Anc(docs, head[c])
    BY DEF Inv, ClientOK
  <2> QED
    BY <2>1, CanTell
<1> QED
  BY <1>1, Invariant, PTL

\* push: without force, only what was put on the tag after the reads that let the push through is
\* replaced unseen.
THEOREM OnlyUnseenReplaced == Spec => ReplacesOnlyUnseen
<1> DEFINE Unseen(c) ==
        Puts(c) /\ ~ job[c].forced =>
            /\ job[c].contained < Len(writes) \/ Served(Last) \in Ancestry(head[c])
            /\ job[c].named < Len(writes) \/ Named(Served(Last)) \subseteq Named(head[c])
<1>1. Inv /\ [Next]_vars => [\A c \in Clients : Unseen(c)]_vars
  <2> SUFFICES ASSUME Inv, Next, NEW c \in Clients, Puts(c), ~ job[c].forced
               PROVE  Unseen(c)
    OBVIOUS
  <2>1. PICK d \in Clients : Fails(d) \/ Acts(d)
    BY DEF Next
  <2>2. PutManifest(d)
    BY <2>1 DEF Puts, Fails, Acts, GuardFails, PushFails, Commit, Push, FetchAndMerge, Pull, Continue, registry,
                RequireNotNarrowing, RequireFastForward, UploadBlobs, ConfirmPublish
  <2>3. d = c
    BY <2>2 DEF Puts, PutManifest, Inv, Fields
  <2>4. job[c].at = "put" /\ UploadingOK(docs, writes, blobs, head[c], job[c])
    BY <2>2, <2>3, JobAt DEF PutManifest, Uploaded
  <2>5. /\ NamedOK(docs, writes, head[c], job[c].named) /\ ContainedOK(docs, writes, head[c], job[c].contained)
    BY <2>4 DEF UploadingOK
  <2>6. Len(writes) \in Nat /\ Len(writes) # 0
    BY DEF Inv, WritesOK, Puts
  <2>7. job[c].contained < Len(writes) \/ Served(Last) \in Ancestry(head[c])
    BY <2>5, <2>6, ClosureIs DEF ContainedOK, Last
  <2>8. job[c].named < Len(writes) \/ Named(Served(Last)) \subseteq Named(head[c])
    BY <2>5, <2>6 DEF NamedOK, Last, Named
  <2> QED
    BY <2>7, <2>8
<1> QED
  BY <1>1, Invariant, PTL DEF Spec, ReplacesOnlyUnseen
=============================================================================
