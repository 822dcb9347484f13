------------------------- MODULE AuthenticityProofs -------------------------
(***************************************************************************)
(* Proofs about Authenticity: what a store with part of the history may    *)
(* conclude, for any keys, roots, policies and histories.                  *)
(***************************************************************************)
EXTENDS Authenticity, FiniteSetTheorems, SequenceTheorems, WellFoundedInduction, TLAPS

-----------------------------------------------------------------------------
(* Lines of snapshots.  D is the documents, H what of them resolves.       *)

Par(D, x) == ToSet(D[x].parents)
First(D, x) == IF D[x].parents = <<>> THEN 0 ELSE D[x].parents[1]
WalkIn(D, H, d) ==
    LET W[x \in 1 .. d] ==
            IF First(D, x) \in H /\ First(D, x) # 0
            THEN {x} \cup W[First(D, x)] ELSE {x}
    IN  W[d]
ReachIn(D, H, d) ==
    LET R[x \in 1 .. d] ==
            {x} \cup UNION {IF p \in H THEN R[p] ELSE {p} : p \in Par(D, x)}
    IN  R[d]

\* A parent is made before its child.
Lines(D) ==
    /\ \E n \in Nat : DOMAIN D = 1 .. n
    /\ \A x \in DOMAIN D : D[x].parents \in Seq(1 .. (x - 1))

\* Lemma: a nonempty set of naturals has a least element.
LEMMA LeastOf ==
    ASSUME NEW T \in SUBSET Nat, T # {}
    PROVE  \E x \in T : \A y \in T : x <= y
<1> DEFINE R == {p \in Nat \X Nat : p[1] < p[2]}
<1>1. IsWellFoundedOn(R, Nat)
  BY NatLessThanWellFounded, Zenon DEF OpToRel
<1> HIDE DEF R
<1>2. PICK x \in T : \A y \in T : ~ (<<y, x>> \in R)
  BY <1>1, WFMin
<1>3. \A y \in T : ~ (y < x)
  BY <1>2 DEF R
<1> QED
  BY <1>3

\* Lemma: the parents of a snapshot, and the first of them.
LEMMA Parents ==
    ASSUME NEW D, Lines(D), NEW x \in DOMAIN D
    PROVE  /\ x \in Nat \ {0} /\ 1 .. x \subseteq DOMAIN D
           /\ Par(D, x) \subseteq 1 .. (x - 1)
           /\ First(D, x) \in 0 .. (x - 1)
           /\ First(D, x) # 0 => First(D, x) \in Par(D, x)
<1>1. PICK n \in Nat : DOMAIN D = 1 .. n
  BY DEF Lines
<1>2. x \in Nat \ {0} /\ 1 .. x \subseteq DOMAIN D
  BY <1>1
<1> DEFINE s == D[x].parents
<1>3. s \in Seq(1 .. (x - 1))
  BY DEF Lines
<1>4. Par(D, x) = {s[i] : i \in DOMAIN s}
  BY DEF Par, ToSet
<1>5. First(D, x) = IF s = <<>> THEN 0 ELSE s[1]
  BY DEF First
<1> HIDE DEF s
<1>6. \A i \in DOMAIN s : s[i] \in 1 .. (x - 1)
  BY <1>3
<1>7. s # <<>> => 1 \in DOMAIN s
  BY <1>3
<1>8. Par(D, x) \subseteq 1 .. (x - 1)
  BY <1>4, <1>6
<1>9. s # <<>> => s[1] \in Par(D, x)
  BY <1>4, <1>7
<1> QED
  BY <1>2, <1>5, <1>8, <1>9

-----------------------------------------------------------------------------
(* The walk along first parents.                                           *)

\* The walk from x, where g has the walks from what is before it; and the walks of the first n.
WalkFrom(g, x, D, H) ==
    IF First(D, x) \in H /\ First(D, x) # 0 THEN {x} \cup g[First(D, x)] ELSE {x}
Walks(g, n, D, H) == g = [x \in 1 .. n |-> WalkFrom(g, x, D, H)]

\* Lemma: step by step.
LEMMA WalksSteps ==
    ASSUME NEW g, NEW n, NEW D, NEW H, Walks(g, n, D, H), NEW x \in 1 .. n
    PROVE  g[x] = WalkFrom(g, x, D, H)
BY DEF Walks

\* Lemma: the walks exist.
LEMMA WalksExist ==
    ASSUME NEW D, NEW H, Lines(D), NEW d \in DOMAIN D
    PROVE  \E g : Walks(g, d, D, H)
<1>d. d \in Nat /\ d > 0 /\ \A x \in 1 .. d : First(D, x) \in 0 .. (x - 1)
  BY Parents
<1> DEFINE Bad == {m \in 0 .. d : ~ \E g : Walks(g, m, D, H)}
<1> SUFFICES ASSUME Bad # {} PROVE FALSE
  BY <1>d
<1>1. PICK n \in Bad : \A y \in Bad : n <= y
  <2>1. Bad \in SUBSET Nat
    OBVIOUS
  <2> HIDE DEF Bad
  <2> QED
    BY <2>1, LeastOf
<1>2. n # 0
  <2>1. Walks([x \in 1 .. 0 |-> {}], 0, D, H)
    BY DEF Walks
  <2> QED
    BY <2>1
<1>3. n - 1 \in 0 .. d /\ n - 1 \notin Bad /\ n \in 1 .. d
  BY <1>1, <1>2, <1>d
<1>4. PICK g : Walks(g, n - 1, D, H)
  BY <1>3
<1> DEFINE top == WalkFrom(g, n, D, H)
           h == [x \in 1 .. n |-> IF x = n THEN top ELSE g[x]]
<1> HIDE DEF top
<1>5. h = [x \in 1 .. n |-> h[x]] /\ h[n] = top /\ \A x \in 1 .. (n - 1) : h[x] = g[x]
  BY <1>3
<1> HIDE DEF h
<1>6. ASSUME NEW x \in 1 .. n
      PROVE  h[x] = WalkFrom(h, x, D, H)
  <2>1. First(D, x) # 0 => First(D, x) \in 1 .. (n - 1)
    BY <1>3, <1>d
  <2>2. CASE x = n
    BY <2>1, <2>2, <1>5 DEF top, WalkFrom
  <2>3. CASE x # n
    <3>1. x \in 1 .. (n - 1)
      BY <2>3, <1>3
    <3>2. g[x] = WalkFrom(g, x, D, H)
      BY <3>1, <1>4, WalksSteps
    <3> QED
      BY <3>1, <3>2, <2>1, <1>5, <1>d DEF WalkFrom
  <2> QED
    BY <2>2, <2>3
<1>7. Walks(h, n, D, H)
  BY <1>5, <1>6 DEF Walks
<1> QED
  BY <1>7

\* Lemma: and there is one of them only.
LEMMA WalksAgree ==
    ASSUME NEW D, NEW H, Lines(D), NEW n \in DOMAIN D, NEW m \in 1 .. n,
           NEW g, Walks(g, n, D, H), NEW h, Walks(h, m, D, H)
    PROVE  g[m] = h[m]
<1>d. n \in Nat /\ \A x \in 1 .. n : First(D, x) \in 0 .. (x - 1)
  BY Parents
<1> DEFINE Bad == {x \in 1 .. m : g[x] # h[x]}
<1> SUFFICES ASSUME Bad # {} PROVE FALSE
  BY <1>d
<1>1. PICK x \in Bad : \A y \in Bad : x <= y
  <2>1. Bad \in SUBSET Nat
    BY <1>d
  <2> HIDE DEF Bad
  <2> QED
    BY <2>1, LeastOf
<1>2. First(D, x) # 0 => First(D, x) \in 1 .. m /\ First(D, x) \notin Bad
  BY <1>1, <1>d
<1>3. First(D, x) # 0 => g[First(D, x)] = h[First(D, x)]
  BY <1>2
<1>4. x \in 1 .. m /\ x \in 1 .. n /\ g[x] # h[x]
  BY <1>1, <1>d
<1>5. g[x] = WalkFrom(g, x, D, H)
  BY <1>4, WalksSteps
<1>6. h[x] = WalkFrom(h, x, D, H)
  BY <1>4, WalksSteps
<1> QED
  BY <1>3, <1>4, <1>5, <1>6 DEF WalkFrom

\* Lemma: what a walk is.
LEMMA WalkStep ==
    ASSUME NEW D, NEW H, Lines(D), NEW d \in DOMAIN D
    PROVE  WalkIn(D, H, d) = IF First(D, d) \in H /\ First(D, d) # 0
                             THEN {d} \cup WalkIn(D, H, First(D, d)) ELSE {d}
<1> DEFINE W(e) == CHOOSE r : Walks(r, e, D, H)
<1>1. ASSUME NEW e \in DOMAIN D
      PROVE  WalkIn(D, H, e) = W(e)[e] /\ Walks(W(e), e, D, H)
  <2>1. WalkIn(D, H, e) = W(e)[e]
    BY DEF WalkIn, Walks, WalkFrom
  <2>2. \E g : Walks(g, e, D, H)
    BY WalksExist
  <2>3. Walks(W(e), e, D, H)
    BY <2>2, Zenon
  <2> QED
    BY <2>1, <2>3
<1> HIDE DEF W
<1>2. d \in Nat \ {0} /\ 1 .. d \subseteq DOMAIN D /\ First(D, d) \in 0 .. (d - 1)
  BY Parents
<1>w. W(d)[d] = WalkFrom(W(d), d, D, H)
  <2>1. d \in 1 .. d /\ Walks(W(d), d, D, H)
    BY <1>1, <1>2
  <2> QED
    BY <2>1, WalksSteps
<1>3. CASE First(D, d) \in H /\ First(D, d) # 0
  <2> DEFINE f == First(D, d)
  <2>1. f \in DOMAIN D /\ f \in 1 .. d
    BY <1>2, <1>3
  <2>2. WalkIn(D, H, d) = {d} \cup W(d)[f]
    BY <1>1, <1>w, <1>3 DEF WalkFrom
  <2>3. W(d)[f] = W(f)[f]
    BY <2>1, <1>1, WalksAgree
  <2> QED
    BY <2>1, <2>2, <2>3, <1>1, <1>3
<1>4. CASE ~(First(D, d) \in H /\ First(D, d) # 0)
  BY <1>1, <1>w, <1>4 DEF WalkFrom
<1> QED
  BY <1>3, <1>4

\* The line of first parents W that a walk from d in H gives.
Line(W, D, H, d) ==
    /\ d \in W /\ W \subseteq 1 .. d
    /\ \A y \in W :
          /\ y # d => y \in H
          /\ First(D, y) \in H /\ First(D, y) # 0 => First(D, y) \in W
          /\ \A a \in W : a < y => First(D, y) \in W /\ a <= First(D, y)

\* Lemma: a walk is a line.
LEMMA WalkFacts ==
    ASSUME NEW D, NEW H, Lines(D), NEW d \in DOMAIN D
    PROVE  Line(WalkIn(D, H, d), D, H, d)
<1> DEFINE Bad == {e \in DOMAIN D : ~ Line(WalkIn(D, H, e), D, H, e)}
<1> SUFFICES ASSUME Bad # {} PROVE FALSE
  OBVIOUS
<1>1. PICK x \in Bad : \A y \in Bad : x <= y
  <2>1. Bad \in SUBSET Nat
    BY DEF Lines
  <2> HIDE DEF Bad
  <2> QED
    BY <2>1, LeastOf
<1>2. /\ x \in Nat \ {0} /\ 1 .. x \subseteq DOMAIN D
      /\ First(D, x) \in 0 .. (x - 1) /\ x \in DOMAIN D
  BY Parents
<1>3. \A e \in Bad : ~ Line(WalkIn(D, H, e), D, H, e)
  OBVIOUS
<1>4. ASSUME First(D, x) \in H, First(D, x) # 0
      PROVE  FALSE
  <2> DEFINE f == First(D, x)
             V == WalkIn(D, H, f)
  <2>1. f \in DOMAIN D /\ f \in Nat /\ f < x /\ f \notin Bad
    BY <1>1, <1>2, <1>4
  <2>2. Line(V, D, H, f)
    BY <2>1
  <2>3. WalkIn(D, H, x) = {x} \cup V
    BY <1>2, <1>4, WalkStep
  <2> HIDE DEF V
  <2>4. Line({x} \cup V, D, H, x)
    BY <2>1, <2>2, <1>2, <1>4 DEF Line
  <2> QED
    BY <2>3, <2>4, <1>3
<1>5. ASSUME ~(First(D, x) \in H /\ First(D, x) # 0)
      PROVE  FALSE
  <2>1. WalkIn(D, H, x) = {x}
    BY <1>2, <1>5, WalkStep
  <2>2. Line({x}, D, H, x)
    BY <1>2, <1>5 DEF Line
  <2> QED
    BY <2>1, <2>2, <1>3
<1> QED
  BY <1>4, <1>5

\* Lemma: a walk stays in whatever its steps do not leave.
LEMMA WalkWithin ==
    ASSUME NEW D, NEW H, Lines(D), NEW d \in DOMAIN D, NEW C, d \in C,
           \A y \in C \cap DOMAIN D : First(D, y) \in H /\ First(D, y) # 0 => First(D, y) \in C
    PROVE  WalkIn(D, H, d) \subseteq C
<1> DEFINE Bad == {e \in DOMAIN D \cap C : ~ (WalkIn(D, H, e) \subseteq C)}
<1> SUFFICES ASSUME Bad # {} PROVE FALSE
  OBVIOUS
<1>1. PICK x \in Bad : \A y \in Bad : x <= y
  <2>1. Bad \in SUBSET Nat
    BY DEF Lines
  <2> HIDE DEF Bad
  <2> QED
    BY <2>1, LeastOf
<1>2. /\ x \in Nat \ {0} /\ 1 .. x \subseteq DOMAIN D /\ x \in C
      /\ First(D, x) \in 0 .. (x - 1) /\ x \in DOMAIN D
  BY Parents
<1>3. ASSUME First(D, x) \in H, First(D, x) # 0
      PROVE  FALSE
  <2>1. First(D, x) \in DOMAIN D \cap C /\ First(D, x) < x
    BY <1>2, <1>3
  <2>2. First(D, x) \notin Bad
    BY <2>1, <1>1, <1>2
  <2>3. WalkIn(D, H, First(D, x)) \subseteq C
    BY <2>1, <2>2
  <2>4. WalkIn(D, H, x) = {x} \cup WalkIn(D, H, First(D, x))
    BY <1>2, <1>3, WalkStep
  <2> QED
    BY <2>3, <2>4, <1>2
<1>4. ASSUME ~(First(D, x) \in H /\ First(D, x) # 0)
      PROVE  FALSE
  <2>1. WalkIn(D, H, x) = {x}
    BY <1>2, <1>4, WalkStep
  <2> QED
    BY <2>1, <1>2
<1> QED
  BY <1>3, <1>4

\* Lemma: with less of the history a walk is shorter, and it is the newest part of the longer one.
LEMMA WalkShorter ==
    ASSUME NEW D, NEW H, NEW G, Lines(D), NEW d \in DOMAIN D, H \subseteq G
    PROVE  /\ WalkIn(D, H, d) \subseteq WalkIn(D, G, d)
           /\ \A y \in WalkIn(D, G, d), a \in WalkIn(D, H, d) : a <= y => y \in WalkIn(D, H, d)
<1> DEFINE V == WalkIn(D, H, d)
           W == WalkIn(D, G, d)
           C == {y \in 1 .. d : y \in V \/ \A a \in V : y < a}
<1>1. Line(V, D, H, d) /\ Line(W, D, G, d)
  BY WalkFacts
<1>2. V \subseteq W
  <2>1. \A y \in W : First(D, y) \in H /\ First(D, y) # 0 => First(D, y) \in W
    BY <1>1 DEF Line
  <2>2. d \in W
    BY <1>1 DEF Line
  <2> HIDE DEF W
  <2> QED
    BY <2>1, <2>2, WalkWithin
<1>3. W \subseteq C
  <2> HIDE DEF V
  <2>1. d \in C
    BY <1>1 DEF Line
  <2>2. ASSUME NEW y \in C \cap DOMAIN D, First(D, y) \in G, First(D, y) # 0
        PROVE  First(D, y) \in C
    <3>1. d \in Nat /\ y \in 1 .. d /\ First(D, y) \in 1 .. (y - 1)
      BY <2>2, Parents
    <3>2. V \subseteq 1 .. d
      BY <1>1 DEF Line
    <3>3. CASE y \in V
      <4>1. \A a \in V : a < y => First(D, y) \in V
        BY <3>3, <1>1 DEF Line
      <4>2. ASSUME First(D, y) \notin V, NEW a \in V
            PROVE  First(D, y) < a
        <5>1. ~(a < y)
          BY <4>1, <4>2
        <5> QED
          BY <5>1, <3>1, <3>2
      <4> QED
        BY <4>2, <3>1
    <3>4. CASE \A a \in V : y < a
      BY <3>1, <3>2, <3>4
    <3> QED
      BY <3>3, <3>4
  <2> HIDE DEF C
  <2> QED
    BY <2>1, <2>2, WalkWithin
<1>4. V \subseteq Nat /\ W \subseteq Nat
  BY <1>1 DEF Line
<1> HIDE DEF V, W
<1> QED
  BY <1>2, <1>3, <1>4 DEF V, W

-----------------------------------------------------------------------------
(* Everything named on any path.                                           *)

ReachFrom(g, x, D, H) == {x} \cup UNION {IF p \in H THEN g[p] ELSE {p} : p \in Par(D, x)}
Reaches(g, n, D, H) == g = [x \in 1 .. n |-> ReachFrom(g, x, D, H)]

\* Lemma: step by step.
LEMMA ReachesSteps ==
    ASSUME NEW g, NEW n, NEW D, NEW H, Reaches(g, n, D, H), NEW x \in 1 .. n
    PROVE  g[x] = ReachFrom(g, x, D, H)
BY DEF Reaches

\* Lemma: what is reached depends on what the parents reach.
LEMMA ReachAlike ==
    ASSUME NEW g, NEW h, NEW x, NEW D, NEW H, \A p \in Par(D, x) : g[p] = h[p]
    PROVE  ReachFrom(g, x, D, H) = ReachFrom(h, x, D, H)
<1>1. \A p \in Par(D, x) : (IF p \in H THEN g[p] ELSE {p}) = (IF p \in H THEN h[p] ELSE {p})
  OBVIOUS
<1>2. {IF p \in H THEN g[p] ELSE {p} : p \in Par(D, x)} = {IF p \in H THEN h[p] ELSE {p} : p \in Par(D, x)}
  BY <1>1
<1> QED
  BY <1>2 DEF ReachFrom

\* Lemma: what each of the first snapshots reaches exists.
LEMMA ReachesExist ==
    ASSUME NEW D, NEW H, Lines(D), NEW d \in DOMAIN D
    PROVE  \E g : Reaches(g, d, D, H)
<1>d. d \in Nat /\ d > 0 /\ \A x \in 1 .. d : Par(D, x) \subseteq 1 .. (x - 1)
  BY Parents
<1> DEFINE Bad == {m \in 0 .. d : ~ \E g : Reaches(g, m, D, H)}
<1> SUFFICES ASSUME Bad # {} PROVE FALSE
  BY <1>d
<1>1. PICK n \in Bad : \A y \in Bad : n <= y
  <2>1. Bad \in SUBSET Nat
    OBVIOUS
  <2> HIDE DEF Bad
  <2> QED
    BY <2>1, LeastOf
<1>2. n # 0
  <2>1. Reaches([x \in 1 .. 0 |-> {}], 0, D, H)
    BY DEF Reaches
  <2> QED
    BY <2>1
<1>3. n - 1 \in 0 .. d /\ n - 1 \notin Bad /\ n \in 1 .. d
  BY <1>1, <1>2, <1>d
<1>4. PICK g : Reaches(g, n - 1, D, H)
  BY <1>3
<1> DEFINE top == ReachFrom(g, n, D, H)
           h == [x \in 1 .. n |-> IF x = n THEN top ELSE g[x]]
<1> HIDE DEF top
<1>5. h = [x \in 1 .. n |-> h[x]] /\ h[n] = top /\ \A x \in 1 .. (n - 1) : h[x] = g[x]
  BY <1>3
<1> HIDE DEF h
<1>6. ASSUME NEW x \in 1 .. n
      PROVE  h[x] = ReachFrom(h, x, D, H)
  <2>0. Par(D, x) \subseteq 1 .. (n - 1)
    BY <1>3, <1>d
  <2>1. \A p \in Par(D, x) : g[p] = h[p]
    BY <2>0, <1>5
  <2>2. ReachFrom(g, x, D, H) = ReachFrom(h, x, D, H)
    BY <2>1, ReachAlike
  <2>3. CASE x = n
    BY <2>2, <2>3, <1>5 DEF top
  <2>4. CASE x # n
    <3>1. x \in 1 .. (n - 1)
      BY <2>4, <1>3
    <3>2. g[x] = ReachFrom(g, x, D, H)
      BY <3>1, <1>4, ReachesSteps
    <3> QED
      BY <3>1, <3>2, <2>2, <1>5
  <2> QED
    BY <2>3, <2>4
<1>7. Reaches(h, n, D, H)
  BY <1>5, <1>6 DEF Reaches
<1> QED
  BY <1>7

\* Lemma: in one way only.
LEMMA ReachesAgree ==
    ASSUME NEW D, NEW H, Lines(D), NEW n \in DOMAIN D, NEW m \in 1 .. n,
           NEW g, Reaches(g, n, D, H), NEW h, Reaches(h, m, D, H)
    PROVE  g[m] = h[m]
<1>d. n \in Nat /\ \A x \in 1 .. n : Par(D, x) \subseteq 1 .. (x - 1)
  BY Parents
<1> DEFINE Bad == {x \in 1 .. m : g[x] # h[x]}
<1> SUFFICES ASSUME Bad # {} PROVE FALSE
  BY <1>d
<1>1. PICK x \in Bad : \A y \in Bad : x <= y
  <2>1. Bad \in SUBSET Nat
    BY <1>d
  <2> HIDE DEF Bad
  <2> QED
    BY <2>1, LeastOf
<1>2. x \in 1 .. m /\ x \in 1 .. n /\ g[x] # h[x]
  BY <1>1, <1>d
<1>3. \A p \in Par(D, x) : p \in 1 .. m /\ p \notin Bad
  BY <1>1, <1>2, <1>d
<1>4. \A p \in Par(D, x) : g[p] = h[p]
  BY <1>3
<1>5. g[x] = ReachFrom(g, x, D, H)
  BY <1>2, ReachesSteps
<1>6. h[x] = ReachFrom(h, x, D, H)
  BY <1>2, ReachesSteps
<1> QED
  BY <1>2, <1>4, <1>5, <1>6, ReachAlike

\* Lemma: what is reached.
LEMMA ReachStep ==
    ASSUME NEW D, NEW H, Lines(D), NEW d \in DOMAIN D
    PROVE  ReachIn(D, H, d) =
             {d} \cup UNION {IF p \in H THEN ReachIn(D, H, p) ELSE {p} : p \in Par(D, d)}
<1> DEFINE R(e) == CHOOSE r : Reaches(r, e, D, H)
<1>1. ASSUME NEW e \in DOMAIN D
      PROVE  ReachIn(D, H, e) = R(e)[e] /\ Reaches(R(e), e, D, H)
  <2>1. ReachIn(D, H, e) = R(e)[e]
    BY DEF ReachIn, Reaches, ReachFrom
  <2>2. \E g : Reaches(g, e, D, H)
    BY ReachesExist
  <2>3. Reaches(R(e), e, D, H)
    BY <2>2, Zenon
  <2> QED
    BY <2>1, <2>3
<1> HIDE DEF R
<1>2. d \in Nat \ {0} /\ 1 .. d \subseteq DOMAIN D /\ Par(D, d) \subseteq 1 .. (d - 1)
  BY Parents
<1>3. R(d)[d] = ReachFrom(R(d), d, D, H)
  <2>1. d \in 1 .. d /\ Reaches(R(d), d, D, H)
    BY <1>1, <1>2
  <2> QED
    BY <2>1, ReachesSteps
<1>4. ASSUME NEW p \in Par(D, d)
      PROVE  R(d)[p] = ReachIn(D, H, p)
  <2>1. p \in 1 .. d /\ p \in DOMAIN D
    BY <1>2
  <2>2. R(d)[p] = R(p)[p]
    BY <2>1, <1>1, ReachesAgree
  <2> QED
    BY <2>1, <2>2, <1>1
<1>5. {IF p \in H THEN R(d)[p] ELSE {p} : p \in Par(D, d)}
        = {IF p \in H THEN ReachIn(D, H, p) ELSE {p} : p \in Par(D, d)}
  BY <1>4
<1> QED
  BY <1>1, <1>3, <1>5 DEF ReachFrom

\* What a search from d in H has found: d, and the parents of all it could open.
Found(R, D, H, d) ==
    /\ d \in R /\ R \subseteq 1 .. d
    /\ \A y \in R : y \in H \cup {d} => Par(D, y) \subseteq R

\* Lemma: what is reached has been found.
LEMMA ReachFacts ==
    ASSUME NEW D, NEW H, Lines(D), NEW d \in DOMAIN D
    PROVE  Found(ReachIn(D, H, d), D, H, d)
<1> DEFINE Bad == {e \in DOMAIN D : ~ Found(ReachIn(D, H, e), D, H, e)}
<1> SUFFICES ASSUME Bad # {} PROVE FALSE
  OBVIOUS
<1>1. PICK x \in Bad : \A y \in Bad : x <= y
  <2>1. Bad \in SUBSET Nat
    BY DEF Lines
  <2> HIDE DEF Bad
  <2> QED
    BY <2>1, LeastOf
<1>2. /\ x \in Nat \ {0} /\ 1 .. x \subseteq DOMAIN D
      /\ Par(D, x) \subseteq 1 .. (x - 1) /\ x \in DOMAIN D
  BY Parents
<1>3. \A e \in Bad : ~ Found(ReachIn(D, H, e), D, H, e)
  OBVIOUS
<1>4. ASSUME NEW p \in Par(D, x)
      PROVE  p \in Nat /\ p < x /\ Found(ReachIn(D, H, p), D, H, p)
  <2>1. p \in DOMAIN D /\ p \in Nat /\ p < x
    BY <1>2
  <2>2. p \notin Bad
    BY <2>1, <1>1, <1>2
  <2> QED
    BY <2>1, <2>2
<1> DEFINE of(p) == IF p \in H THEN ReachIn(D, H, p) ELSE {p}
           R == ReachIn(D, H, x)
<1>5. R = {x} \cup UNION {of(p) : p \in Par(D, x)}
  BY <1>2, ReachStep
<1>6. \A p \in Par(D, x) : p \in of(p) /\ of(p) \subseteq 1 .. p
  BY <1>4 DEF Found
<1>7. \A p \in Par(D, x) : \A y \in of(p) : y \in H => Par(D, y) \subseteq of(p)
  BY <1>4 DEF Found
<1>8. \A y : y \in R <=> y = x \/ \E p \in Par(D, x) : y \in of(p)
  BY <1>5
<1> HIDE DEF of, R
<1>9. Par(D, x) \subseteq R
  BY <1>6, <1>8
<1>10. R \subseteq 1 .. x /\ x \in R /\ \A p \in Par(D, x) : x \notin of(p)
  <2>1. ASSUME NEW p \in Par(D, x), NEW y \in of(p)
        PROVE  y \in 1 .. x /\ y # x
    <3>1. p \in Nat /\ p < x /\ y \in 1 .. p
      BY <1>4, <1>6
    <3> QED
      BY <3>1, <1>2
  <2> QED
    BY <2>1, <1>2, <1>8
<1>11. ASSUME NEW y \in R, y \in H \cup {x}
       PROVE  Par(D, y) \subseteq R
  <2>1. CASE y = x
    BY <2>1, <1>9
  <2>2. CASE y # x
    <3>1. PICK p \in Par(D, x) : y \in of(p)
      BY <2>2, <1>8
    <3>2. Par(D, y) \subseteq of(p)
      BY <3>1, <2>2, <1>7, <1>11
    <3> QED
      BY <3>1, <3>2, <1>8
  <2> QED
    BY <2>1, <2>2
<1>12. Found(R, D, H, x)
  BY <1>10, <1>11 DEF Found
<1> QED
  BY <1>12, <1>3 DEF R

\* Lemma: a search stays in whatever has the parents of all it has.
LEMMA ReachWithin ==
    ASSUME NEW D, NEW H, Lines(D), NEW d \in DOMAIN D, NEW C, d \in C,
           \A y \in C \cap DOMAIN D : Par(D, y) \subseteq C
    PROVE  ReachIn(D, H, d) \subseteq C
<1> DEFINE Bad == {e \in DOMAIN D \cap C : ~ (ReachIn(D, H, e) \subseteq C)}
<1> SUFFICES ASSUME Bad # {} PROVE FALSE
  OBVIOUS
<1>1. PICK x \in Bad : \A y \in Bad : x <= y
  <2>1. Bad \in SUBSET Nat
    BY DEF Lines
  <2> HIDE DEF Bad
  <2> QED
    BY <2>1, LeastOf
<1>2. /\ x \in Nat \ {0} /\ 1 .. x \subseteq DOMAIN D /\ x \in C
      /\ Par(D, x) \subseteq 1 .. (x - 1) /\ x \in DOMAIN D /\ Par(D, x) \subseteq C
  BY Parents
<1>3. ASSUME NEW p \in Par(D, x)
      PROVE  p \in C /\ ReachIn(D, H, p) \subseteq C
  <2>1. p \in DOMAIN D \cap C /\ p \in Nat /\ p < x
    BY <1>2
  <2>2. p \notin Bad
    BY <2>1, <1>1, <1>2
  <2> QED
    BY <2>1, <2>2
<1>4. ReachIn(D, H, x) = {x} \cup UNION {IF p \in H THEN ReachIn(D, H, p) ELSE {p} : p \in Par(D, x)}
  BY <1>2, ReachStep
<1>5. ReachIn(D, H, x) \subseteq C
  BY <1>2, <1>3, <1>4
<1> QED
  BY <1>5

\* Lemma: what a search that met no gap did not find is not there, whoever searches.
LEMMA AbsentEverywhere ==
    ASSUME NEW D, NEW H, NEW G, Lines(D), NEW d \in DOMAIN D, ReachIn(D, H, d) \ {d} \subseteq H
    PROVE  ReachIn(D, G, d) \subseteq ReachIn(D, H, d)
<1> DEFINE R == ReachIn(D, H, d)
<1>1. Found(R, D, H, d)
  BY ReachFacts
<1>2. d \in R /\ \A y \in R : Par(D, y) \subseteq R
  BY <1>1 DEF Found
<1> HIDE DEF R
<1>3. ReachIn(D, G, d) \subseteq R
  BY <1>2, ReachWithin
<1> QED
  BY <1>3 DEF R

-----------------------------------------------------------------------------
(* Documents are only added.                                               *)

Extends(D, E) == Lines(D) /\ Lines(E) /\ DOMAIN D \subseteq DOMAIN E /\ \A x \in DOMAIN D : E[x] = D[x]

\* Lemma: a later document changes nothing behind an earlier one.
LEMMA SameBehind ==
    ASSUME NEW D, NEW E, Extends(D, E), NEW x \in DOMAIN D
    PROVE  First(E, x) = First(D, x) /\ Par(E, x) = Par(D, x) /\ x \in DOMAIN E
BY DEF Extends, First, Par

\* Lemma: nor the walk from it.
LEMMA WalkKept ==
    ASSUME NEW D, NEW E, Extends(D, E), NEW H, NEW d \in DOMAIN D
    PROVE  WalkIn(E, H, d) = WalkIn(D, H, d)
<1>0. Lines(D) /\ Lines(E)
  BY DEF Extends
<1> DEFINE Bad == {e \in DOMAIN D : WalkIn(E, H, e) # WalkIn(D, H, e)}
<1> SUFFICES ASSUME Bad # {} PROVE FALSE
  OBVIOUS
<1>1. PICK x \in Bad : \A y \in Bad : x <= y
  <2>1. Bad \in SUBSET Nat
    BY <1>0 DEF Lines
  <2> HIDE DEF Bad
  <2> QED
    BY <2>1, LeastOf
<1>2. /\ x \in Nat \ {0} /\ 1 .. x \subseteq DOMAIN D
      /\ First(D, x) \in 0 .. (x - 1) /\ x \in DOMAIN D
  BY <1>0, Parents
<1>3. First(E, x) = First(D, x) /\ x \in DOMAIN E
  BY <1>2, SameBehind
<1>4. First(D, x) # 0 => First(D, x) \in DOMAIN D /\ First(D, x) \notin Bad
  BY <1>1, <1>2
<1>5. First(D, x) # 0 => WalkIn(E, H, First(D, x)) = WalkIn(D, H, First(D, x))
  BY <1>4
<1>6. WalkIn(D, H, x) = IF First(D, x) \in H /\ First(D, x) # 0
                        THEN {x} \cup WalkIn(D, H, First(D, x)) ELSE {x}
  BY <1>0, <1>2, WalkStep
<1>7. WalkIn(E, H, x) = IF First(E, x) \in H /\ First(E, x) # 0
                        THEN {x} \cup WalkIn(E, H, First(E, x)) ELSE {x}
  BY <1>0, <1>3, WalkStep
<1>8. WalkIn(E, H, x) = WalkIn(D, H, x)
  BY <1>3, <1>5, <1>6, <1>7
<1> QED
  BY <1>8

\* Lemma: nor what it reaches.
LEMMA ReachKept ==
    ASSUME NEW D, NEW E, Extends(D, E), NEW H, NEW d \in DOMAIN D
    PROVE  ReachIn(E, H, d) = ReachIn(D, H, d)
<1>0. Lines(D) /\ Lines(E)
  BY DEF Extends
<1> DEFINE Bad == {e \in DOMAIN D : ReachIn(E, H, e) # ReachIn(D, H, e)}
<1> SUFFICES ASSUME Bad # {} PROVE FALSE
  OBVIOUS
<1>1. PICK x \in Bad : \A y \in Bad : x <= y
  <2>1. Bad \in SUBSET Nat
    BY <1>0 DEF Lines
  <2> HIDE DEF Bad
  <2> QED
    BY <2>1, LeastOf
<1>2. /\ x \in Nat \ {0} /\ 1 .. x \subseteq DOMAIN D
      /\ Par(D, x) \subseteq 1 .. (x - 1) /\ x \in DOMAIN D
  BY <1>0, Parents
<1>3. Par(E, x) = Par(D, x) /\ x \in DOMAIN E
  BY <1>2, SameBehind
<1>4. \A p \in Par(D, x) : p \in DOMAIN D /\ p \notin Bad
  BY <1>1, <1>2
<1>5. \A p \in Par(D, x) : ReachIn(E, H, p) = ReachIn(D, H, p)
  BY <1>4
<1>6. ReachIn(D, H, x) = {x} \cup UNION {IF p \in H THEN ReachIn(D, H, p) ELSE {p} : p \in Par(D, x)}
  BY <1>0, <1>2, ReachStep
<1>7. ReachIn(E, H, x) = {x} \cup UNION {IF p \in H THEN ReachIn(E, H, p) ELSE {p} : p \in Par(D, x)}
  <2>1. ReachIn(E, H, x) = {x} \cup UNION {IF p \in H THEN ReachIn(E, H, p) ELSE {p} : p \in Par(E, x)}
    BY <1>0, <1>3, ReachStep
  <2> QED
    BY <2>1, <1>3
<1>8. {IF p \in H THEN ReachIn(E, H, p) ELSE {p} : p \in Par(D, x)}
        = {IF p \in H THEN ReachIn(D, H, p) ELSE {p} : p \in Par(D, x)}
  BY <1>5
<1>9. ReachIn(E, H, x) = ReachIn(D, H, x)
  BY <1>6, <1>7, <1>8
<1> QED
  BY <1>9

-----------------------------------------------------------------------------
(* What a store retains of a line.                                         *)

RetainedIn(D, d, n) ==
    LET Kept[k \in 0 .. n] ==
            IF k = 0 THEN {} ELSE {d} \cup ({First(D, x) : x \in Kept[k - 1]} \ {0})
    IN  Kept[n]

KeptFrom(g, k, D, d) == IF k = 0 THEN {} ELSE {d} \cup ({First(D, x) : x \in g[k - 1]} \ {0})
Keeps(g, n, D, d) == g = [k \in 0 .. n |-> KeptFrom(g, k, D, d)]

\* Lemma: the first n of a line exist.
LEMMA KeepsExist ==
    ASSUME NEW D, NEW d, NEW n \in Nat
    PROVE  \E g : Keeps(g, n, D, d)
<1> DEFINE Bad == {m \in Nat : ~ \E g : Keeps(g, m, D, d)}
<1> SUFFICES ASSUME Bad # {} PROVE FALSE
  OBVIOUS
<1>1. PICK m \in Bad : \A y \in Bad : m <= y
  <2>1. Bad \in SUBSET Nat
    OBVIOUS
  <2> HIDE DEF Bad
  <2> QED
    BY <2>1, LeastOf
<1>2. m # 0
  <2>1. Keeps([k \in 0 .. 0 |-> {}], 0, D, d)
    BY DEF Keeps, KeptFrom
  <2> QED
    BY <2>1
<1>3. m \in Nat /\ m - 1 \in Nat /\ m - 1 \notin Bad
  BY <1>1, <1>2
<1>4. PICK g : Keeps(g, m - 1, D, d)
  BY <1>3
<1> DEFINE top == KeptFrom(g, m, D, d)
           h == [k \in 0 .. m |-> IF k = m THEN top ELSE g[k]]
<1> HIDE DEF top
<1>5. h = [k \in 0 .. m |-> h[k]] /\ h[m] = top /\ \A k \in 0 .. (m - 1) : h[k] = g[k]
  BY <1>3
<1> HIDE DEF h
<1>6. ASSUME NEW k \in 0 .. m
      PROVE  h[k] = KeptFrom(h, k, D, d)
  <2>1. k # 0 => k - 1 \in 0 .. (m - 1)
    BY <1>3
  <2>2. KeptFrom(h, k, D, d) = KeptFrom(g, k, D, d)
    BY <2>1, <1>5 DEF KeptFrom
  <2>3. CASE k = m
    BY <2>2, <2>3, <1>5 DEF top
  <2>4. CASE k # m
    <3>1. k \in 0 .. (m - 1)
      BY <2>4, <1>3
    <3>2. g[k] = KeptFrom(g, k, D, d)
      BY <3>1, <1>4 DEF Keeps
    <3> QED
      BY <3>1, <3>2, <2>2, <1>5
  <2> QED
    BY <2>3, <2>4
<1>7. Keeps(h, m, D, d)
  BY <1>5, <1>6 DEF Keeps
<1> QED
  BY <1>3, <1>7

\* Lemma: what is retained of d's line is not after d, and it is d at least.
LEMMA RetainedFacts ==
    ASSUME NEW D, Lines(D), NEW d \in DOMAIN D, NEW n \in Nat
    PROVE  RetainedIn(D, d, n) \subseteq 1 .. d /\ (n > 0 => d \in RetainedIn(D, d, n))
<1> DEFINE g == CHOOSE r : Keeps(r, n, D, d)
<1>1. RetainedIn(D, d, n) = g[n]
  BY DEF RetainedIn, Keeps, KeptFrom
<1>2. Keeps(g, n, D, d)
  BY KeepsExist, Zenon
<1> HIDE DEF g
<1>3. \A k \in 0 .. n : g[k] = KeptFrom(g, k, D, d)
  BY <1>2 DEF Keeps
<1>4. d \in Nat \ {0} /\ 1 .. d \subseteq DOMAIN D
  BY Parents
<1>5. ASSUME NEW x \in 1 .. d, First(D, x) # 0
      PROVE  First(D, x) \in 1 .. d
  <2>1. x \in DOMAIN D
    BY <1>4
  <2>2. First(D, x) \in 0 .. (x - 1)
    BY <2>1, Parents
  <2> QED
    BY <2>2, <1>4, <1>5
<1> DEFINE Bad == {k \in 0 .. n : ~ (g[k] \subseteq 1 .. d)}
<1>6. Bad = {}
  <2> SUFFICES ASSUME Bad # {} PROVE FALSE
    OBVIOUS
  <2>1. PICK m \in Bad : \A y \in Bad : m <= y
    <3>1. Bad \in SUBSET Nat
      OBVIOUS
    <3> HIDE DEF Bad
    <3> QED
      BY <3>1, LeastOf
  <2>2. g[m] = KeptFrom(g, m, D, d) /\ m \in 0 .. n
    BY <1>3
  <2>3. m # 0
    BY <2>2 DEF KeptFrom
  <2>4. m - 1 \in 0 .. n /\ m - 1 \notin Bad
    BY <2>1, <2>3
  <2>5. g[m - 1] \subseteq 1 .. d
    BY <2>4
  <2>6. g[m] \subseteq 1 .. d
    BY <2>2, <2>3, <2>5, <1>4, <1>5 DEF KeptFrom
  <2> QED
    BY <2>6
<1>7. n \in 0 .. n /\ g[n] \subseteq 1 .. d
  BY <1>6
<1>8. n > 0 => d \in g[n]
  <2>1. g[n] = KeptFrom(g, n, D, d)
    BY <1>3, <1>7
  <2> QED
    BY <2>1 DEF KeptFrom
<1> QED
  BY <1>1, <1>7, <1>8

-----------------------------------------------------------------------------
(* Documents.                                                              *)

\* No mark of the root r names the snapshot n or a later one.
MarksBelow(r, n) == \A k \in DOMAIN r.keys : r.keys[k].compromised < n

DocOK(e, n) ==
    /\ e.parents \in Seq(1 .. (n - 1)) /\ e.modules \in Modules
    /\ IsRoot(e.root) /\ MarksBelow(e.root, n)

DocsOK(D) == D \in Seq(ToSet(D)) /\ \A x \in DOMAIN D : DocOK(D[x], x)

\* Lemma: documents that meet the type are lines.
LEMMA DocsLines ==
    ASSUME NEW D, DocsOK(D)
    PROVE  Lines(D) /\ Len(D) \in Nat /\ DOMAIN D = 1 .. Len(D)
<1>1. Len(D) \in Nat /\ DOMAIN D = 1 .. Len(D)
  <2> DEFINE S == ToSet(D)
  <2>1. D \in Seq(S)
    BY DEF DocsOK
  <2> HIDE DEF S
  <2> QED
    BY <2>1
<1> QED
  BY <1>1 DEF Lines, DocsOK, DocOK

\* Lemma: a document more.
LEMMA AddDoc ==
    ASSUME NEW D, DocsOK(D), NEW e, DocOK(e, Len(D) + 1)
    PROVE  LET E == Append(D, e)
           IN /\ DocsOK(E) /\ Extends(D, E)
              /\ DOMAIN E = DOMAIN D \cup {Len(D) + 1} /\ Len(D) + 1 \notin DOMAIN D
              /\ E[Len(D) + 1] = e /\ Len(E) = Len(D) + 1
<1> DEFINE E == Append(D, e)
           S == ToSet(D) \cup {e}
           n == Len(D) + 1
<1>1. Lines(D) /\ Len(D) \in Nat /\ DOMAIN D = 1 .. Len(D)
  BY DocsLines
<1>2. D \in Seq(S)
  <2>1. \A i \in 1 .. Len(D) : D[i] \in S
    BY <1>1 DEF ToSet
  <2>2. D \in Seq(ToSet(D))
    BY DEF DocsOK
  <2> DEFINE T == ToSet(D)
  <2>3. T \subseteq S
    OBVIOUS
  <2> HIDE DEF T, S
  <2> QED
    BY <2>2, <2>3 DEF T
<1>3. e \in S
  OBVIOUS
<1> HIDE DEF S
<1>4. /\ E \in Seq(S) /\ Len(E) = n /\ E[n] = e
      /\ \A i \in 1 .. Len(D) : E[i] = D[i]
  BY <1>2, <1>3
<1>5. DOMAIN E = 1 .. n /\ DOMAIN E = DOMAIN D \cup {n} /\ n \notin DOMAIN D
  BY <1>1, <1>4
<1> HIDE DEF E
<1>6. E \in Seq(ToSet(E))
  <2>1. \A i \in 1 .. Len(E) : E[i] \in ToSet(E)
    BY <1>4, <1>5 DEF ToSet
  <2> DEFINE T == ToSet(E)
  <2> HIDE DEF T
  <2>2. E = [i \in 1 .. Len(E) |-> E[i]] /\ Len(E) \in Nat
    BY <1>4, <1>1
  <2>3. E \in [1 .. Len(E) -> T]
    BY <2>1, <2>2 DEF T
  <2>4. E \in Seq(T)
    BY <2>2, <2>3, SeqDef
  <2> QED
    BY <2>4 DEF T
<1>7. \A x \in DOMAIN E : DocOK(E[x], x)
  BY <1>1, <1>4, <1>5 DEF DocsOK
<1>8. DocsOK(E)
  BY <1>6, <1>7 DEF DocsOK
<1>9. Extends(D, E)
  <2>1. Lines(E)
    BY <1>8, DocsLines
  <2> QED
    BY <2>1, <1>1, <1>4, <1>5 DEF Extends
<1> QED
  BY <1>4, <1>5, <1>8, <1>9 DEF E

-----------------------------------------------------------------------------
(* The type.                                                               *)

Records == [doc : Nat, key : Keys, form : {"sha256", "sha512", "broken"}]

\* What a store holds exists.
StoreOK(st, D, made) == st.held \subseteq DOMAIN D /\ st.whole \subseteq st.held /\ st.index \subseteq made

Inv ==
    /\ DocsOK(docs) /\ StoreOK(Store, docs, signed)
    /\ signed \subseteq [doc : DOMAIN docs, key : Keys, form : {"sha256", "sha512", "broken"}]
    /\ head \in whole /\ plan \in {0} \cup DOMAIN docs
    /\ pin = NoPin \/ (IsRoot(pin.root) /\ pin.genesis \in DOMAIN docs)
PullingOK == pulling \in {0} \cup DOMAIN docs

\* Lemma: the operators of the specification read the documents there are.
LEMMA InDocs ==
    /\ \A d : FirstParent(d) = First(docs, d)
    /\ \A st, d : Walk(st, d) = WalkIn(docs, st.held, d)
    /\ \A st, d : Reach(st, d) = ReachIn(docs, st.held, d)
    /\ \A d, n : Retained(d, n) = RetainedIn(docs, d, n)
<1>1. \A d : FirstParent(d) = First(docs, d)
  BY DEF FirstParent, First
<1>2. \A st, d : Walk(st, d) = WalkIn(docs, st.held, d)
  BY DEF Walk, WalkIn, FirstParent, First
<1>3. \A st, d : Reach(st, d) = ReachIn(docs, st.held, d)
  BY DEF Reach, ReachIn, Par
<1>4. \A d, n : Retained(d, n) = RetainedIn(docs, d, n)
  BY DEF Retained, RetainedIn, FirstParent, First
<1> QED
  BY <1>1, <1>2, <1>3, <1>4

\* Lemma: the invariant gives the type.
LEMMA InvType == Inv /\ PullingOK => TypeOK
BY DEF Inv, PullingOK, TypeOK, DocsOK, DocOK, StoreOK, Store

\* Lemma: a revised root is one, and marks what is there.
LEMMA RevisionsOK ==
    ASSUME NEW d \in DOMAIN docs, DocsOK(docs), NEW kinds, NEW r \in Revisions(docs[d].root, d, kinds)
    PROVE  IsRoot(r) /\ MarksBelow(r, d + 1)
<1> DEFINE q == docs[d].root
<1>1. IsRoot(q) /\ MarksBelow(q, d) /\ d \in Nat
  BY DocsLines DEF DocsOK, DocOK
<1>2. Walk(Store, d) \subseteq 1 .. d
  BY DocsLines, InDocs, WalkFacts DEF Line
<1>n. NewScopes \subseteq Scopes
  BY PolicyAssumption
<1> HIDE DEF q
<1>3. q.rev \in Nat \ {0} /\ q.quorum \in Nat \ {0} /\ DOMAIN q = {"rev", "quorum", "keys"}
  BY <1>1 DEF IsRoot
<1>4. /\ DOMAIN q.keys \subseteq Keys /\ q.keys \in [DOMAIN q.keys -> Entry]
      /\ \A k \in DOMAIN q.keys : q.keys[k] \in Entry /\ q.keys[k].compromised < d
  BY <1>1 DEF IsRoot, MarksBelow
<1>5. ASSUME NEW ks, WellFormed(With(q, ks)), DOMAIN ks \subseteq Keys, ks \in [DOMAIN ks -> Entry],
             \A k \in DOMAIN ks : ks[k].compromised < d + 1
      PROVE  IsRoot(With(q, ks)) /\ MarksBelow(With(q, ks), d + 1)
  <2> DEFINE w == With(q, ks)
  <2>1. /\ w.rev \in Nat \ {0} /\ w.quorum \in Nat \ {0} /\ DOMAIN w = {"rev", "quorum", "keys"}
        /\ w.keys = ks
    BY <1>3 DEF With
  <2> HIDE DEF w
  <2> QED
    BY <2>1, <1>5 DEF IsRoot, MarksBelow, w
<1> DEFINE admit(k, since) == [x \in DOMAIN q.keys \cup {k} |-> IF x = k THEN Newcomer(since) ELSE q.keys[x]]
<1>6. WellFormed(r)
  BY DEF Revisions
<1>7. \/ \E k \in Keys \ DOMAIN q.keys : r = With(q, admit(k, q.rev + 1)) \/ r = With(q, admit(k, 1))
      \/ \E k \in DOMAIN q.keys :
            \/ r = With(q, [q.keys EXCEPT ![k].retired = q.rev + 1])
            \/ \E c \in Walk(Store, d) : r = With(q, [q.keys EXCEPT ![k].compromised = c])
            \/ r = With(q, [x \in DOMAIN q.keys \ {k} |-> q.keys[x]])
  BY DEF Revisions, q
<1>8. ASSUME NEW k \in Keys \ DOMAIN q.keys, NEW since \in Nat, r = With(q, admit(k, since))
      PROVE  IsRoot(r) /\ MarksBelow(r, d + 1)
  <2> DEFINE ks == admit(k, since)
  <2>1. Newcomer(since) \in Entry /\ Newcomer(since).compromised = 0
    BY <1>n DEF Newcomer, Entry
  <2>2. /\ DOMAIN ks \subseteq Keys /\ ks \in [DOMAIN ks -> Entry]
        /\ \A x \in DOMAIN ks : ks[x].compromised < d + 1
    <3>1. DOMAIN ks = DOMAIN q.keys \cup {k} /\ ks[k] = Newcomer(since)
          /\ \A x \in DOMAIN q.keys : ks[x] = q.keys[x]
      BY <1>8
    <3>2. ks \in [DOMAIN ks -> Entry]
      BY <1>4, <2>1
    <3> HIDE DEF ks
    <3>3. ASSUME NEW x \in DOMAIN q.keys PROVE q.keys[x].compromised < d + 1
      BY <1>1, <1>4 DEF Entry
    <3> QED
      BY <3>1, <3>2, <3>3, <2>1, <1>1, <1>4
  <2> HIDE DEF ks
  <2> QED
    BY <2>2, <1>5, <1>6, <1>8 DEF ks
<1>9. ASSUME NEW k \in DOMAIN q.keys, r = With(q, [q.keys EXCEPT ![k].retired = q.rev + 1])
      PROVE  IsRoot(r) /\ MarksBelow(r, d + 1)
  <2> DEFINE ks == [q.keys EXCEPT ![k].retired = q.rev + 1]
             e == [q.keys[k] EXCEPT !.retired = q.rev + 1]
  <2>1. e \in Entry /\ e.compromised = q.keys[k].compromised
    BY <1>3, <1>4 DEF Entry
  <2>2. DOMAIN ks = DOMAIN q.keys /\ \A x \in DOMAIN q.keys : ks[x] = IF x = k THEN e ELSE q.keys[x]
    OBVIOUS
  <2>3. ks = [x \in DOMAIN q.keys |-> ks[x]]
    OBVIOUS
  <2> HIDE DEF ks, e
  <2>4. ks \in [DOMAIN ks -> Entry]
    BY <2>1, <2>2, <2>3, <1>4
  <2>5. \A x \in DOMAIN ks : ks[x].compromised < d + 1
    BY <2>1, <2>2, <1>1, <1>4 DEF Entry
  <2> QED
    BY <2>2, <2>4, <2>5, <1>4, <1>5, <1>6, <1>9 DEF ks
<1>10. ASSUME NEW k \in DOMAIN q.keys, NEW c \in Walk(Store, d),
              r = With(q, [q.keys EXCEPT ![k].compromised = c])
       PROVE  IsRoot(r) /\ MarksBelow(r, d + 1)
  <2> DEFINE ks == [q.keys EXCEPT ![k].compromised = c]
             e == [q.keys[k] EXCEPT !.compromised = c]
  <2>0. c \in 1 .. d
    BY <1>2
  <2>1. e \in Entry /\ e.compromised = c
    BY <2>0, <1>3, <1>4 DEF Entry
  <2>2. DOMAIN ks = DOMAIN q.keys /\ \A x \in DOMAIN q.keys : ks[x] = IF x = k THEN e ELSE q.keys[x]
    OBVIOUS
  <2>3. ks = [x \in DOMAIN q.keys |-> ks[x]]
    OBVIOUS
  <2> HIDE DEF ks, e
  <2>4. ks \in [DOMAIN ks -> Entry]
    BY <2>1, <2>2, <2>3, <1>4
  <2>5. \A x \in DOMAIN ks : ks[x].compromised < d + 1
    BY <2>0, <2>1, <2>2, <1>1, <1>4 DEF Entry
  <2> QED
    BY <2>2, <2>4, <2>5, <1>4, <1>5, <1>6, <1>10 DEF ks
<1>11. ASSUME NEW k \in DOMAIN q.keys, r = With(q, [x \in DOMAIN q.keys \ {k} |-> q.keys[x]])
       PROVE  IsRoot(r) /\ MarksBelow(r, d + 1)
  <2> DEFINE ks == [x \in DOMAIN q.keys \ {k} |-> q.keys[x]]
  <2>1. /\ DOMAIN ks = DOMAIN q.keys \ {k} /\ ks \in [DOMAIN ks -> Entry]
        /\ \A x \in DOMAIN ks : ks[x] = q.keys[x]
    BY <1>4
  <2> HIDE DEF ks
  <2>2. \A x \in DOMAIN ks : ks[x].compromised < d + 1
    BY <2>1, <1>1, <1>4 DEF Entry
  <2> QED
    BY <2>1, <2>2, <1>4, <1>5, <1>6, <1>11 DEF ks
<1>12. q.rev + 1 \in Nat /\ 1 \in Nat
  BY <1>3
<1> HIDE DEF admit
<1> QED
  BY <1>7, <1>8, <1>9, <1>10, <1>11, <1>12

\* Lemma: an edited module is one.
LEMMA EditedOK ==
    ASSUME NEW d, docs[d].modules \in Modules, NEW n \in Nat, NEW edit \in EditOf(d)
    PROVE  Edited(docs[d].modules, n, edit[1], edit[2]) \in Modules
<1> DEFINE m == docs[d].modules
<1>1. /\ edit[1] \in {"ingest", "derive", "drop", "redact"}
      /\ edit[1] \in {"drop", "redact"} => edit[2] \in m.canon
  BY DEF EditOf
<1>2. m \in Modules
  OBVIOUS
<1> SUFFICES Edited(m, n, edit[1], edit[2]) \in Modules
  OBVIOUS
<1> HIDE DEF m
<1> DEFINE K == {"note", "drop", "redact"}
<1>3. /\ m = [canon |-> m.canon, prov |-> m.prov, tomb |-> m.tomb]
      /\ m.canon \subseteq Nat /\ m.prov \subseteq Nat \X K /\ m.tomb \subseteq Nat
  BY <1>2 DEF Modules
<1>p. \A w \in K : m.prov \cup {<<n, w>>} \subseteq Nat \X K
  BY <1>3
<1>e. ASSUME NEW c \in SUBSET Nat, NEW w \in K, NEW t \in SUBSET Nat,
             Edited(m, n, edit[1], edit[2]) = [canon |-> c, prov |-> m.prov \cup {<<n, w>>}, tomb |-> t]
      PROVE  Edited(m, n, edit[1], edit[2]) \in Modules
  <2> DEFINE p == m.prov \cup {<<n, w>>}
  <2>1. p \in SUBSET (Nat \X K)
    BY <1>p
  <2> HIDE DEF p
  <2> QED
    BY <2>1, <1>e DEF Modules, p
<1>4. CASE edit[1] = "ingest"
  <2>1. Edited(m, n, edit[1], edit[2])
          = [canon |-> m.canon \cup {n}, prov |-> m.prov \cup {<<n, "note">>}, tomb |-> m.tomb]
    BY <1>3, <1>4 DEF Edited
  <2>2. m.canon \cup {n} \in SUBSET Nat /\ "note" \in K /\ m.tomb \in SUBSET Nat
    BY <1>3
  <2> HIDE DEF K
  <2> QED
    BY <2>1, <2>2, <1>e, Zenon
<1>5. CASE edit[1] = "derive"
  <2>1. Edited(m, n, edit[1], edit[2])
          = [canon |-> m.canon, prov |-> m.prov \cup {<<n, "note">>}, tomb |-> m.tomb]
    BY <1>3, <1>5 DEF Edited
  <2>2. m.canon \in SUBSET Nat /\ "note" \in K /\ m.tomb \in SUBSET Nat
    BY <1>3
  <2> HIDE DEF K
  <2> QED
    BY <2>1, <2>2, <1>e, Zenon
<1>6. CASE edit[1] = "drop"
  <2>1. Edited(m, n, edit[1], edit[2])
          = [canon |-> m.canon \ {edit[2]}, prov |-> m.prov \cup {<<n, "drop">>}, tomb |-> m.tomb]
    BY <1>3, <1>6 DEF Edited
  <2>2. m.canon \ {edit[2]} \in SUBSET Nat /\ "drop" \in K /\ m.tomb \in SUBSET Nat
    BY <1>3
  <2> HIDE DEF K
  <2> QED
    BY <2>1, <2>2, <1>e, Zenon
<1>7. CASE edit[1] = "redact"
  <2>1. Edited(m, n, edit[1], edit[2])
          = [canon |-> m.canon, prov |-> m.prov \cup {<<n, "redact">>}, tomb |-> m.tomb \cup {edit[2]}]
    BY <1>3, <1>7 DEF Edited
  <2>2. m.canon \in SUBSET Nat /\ "redact" \in K /\ m.tomb \cup {edit[2]} \in SUBSET Nat
    BY <1>1, <1>3, <1>7
  <2> HIDE DEF K
  <2> QED
    BY <2>1, <2>2, <1>e, Zenon
<1> QED
  BY <1>1, <1>4, <1>5, <1>6, <1>7

\* Lemma: where everything is.
LEMMA InvFacts ==
    ASSUME Inv
    PROVE  /\ DocsOK(docs) /\ Lines(docs) /\ Len(docs) \in Nat /\ DOMAIN docs = 1 .. Len(docs)
           /\ held \subseteq DOMAIN docs /\ whole \subseteq held /\ index \subseteq signed
           /\ head \in whole /\ head \in DOMAIN docs
           /\ \A r \in signed : r.doc \in DOMAIN docs /\ r.key \in Keys
<1>1. DocsOK(docs) /\ Lines(docs) /\ Len(docs) \in Nat /\ DOMAIN docs = 1 .. Len(docs)
  BY DocsLines DEF Inv
<1>2. held \subseteq DOMAIN docs /\ whole \subseteq held /\ index \subseteq signed /\ head \in whole
  BY DEF Inv, StoreOK, Store
<1>3. \A r \in signed : r.doc \in DOMAIN docs /\ r.key \in Keys
  BY DEF Inv
<1> QED
  BY <1>1, <1>2, <1>3

\* Lemma: a document that is made by one of the calls.
LEMMA DocMade ==
    ASSUME Inv, NEW p \in DOMAIN docs, NEW parents \in Seq(DOMAIN docs), NEW kinds,
           NEW root, root = docs[p].root \/ root \in Revisions(docs[p].root, p, kinds),
           NEW modules \in Modules, docs' = Append(docs, Doc(parents, root, modules))
    PROVE  /\ DocsOK(docs') /\ Extends(docs, docs')
           /\ DOMAIN docs' = DOMAIN docs \cup {Next1} /\ Next1 \notin DOMAIN docs
           /\ docs'[Next1] = Doc(parents, root, modules)
<1>1. DocsOK(docs) /\ Len(docs) \in Nat /\ DOMAIN docs = 1 .. Len(docs) /\ p \in Nat
  BY InvFacts
<1>2. IsRoot(root) /\ MarksBelow(root, Next1)
  <2>1. CASE root = docs[p].root
    <3>1. IsRoot(root) /\ MarksBelow(root, p)
      BY <2>1, <1>1 DEF DocsOK, DocOK
    <3>2. \A k \in DOMAIN root.keys : root.keys[k].compromised \in Nat
      BY <3>1 DEF IsRoot, Entry
    <3> QED
      BY <3>1, <3>2, <1>1 DEF MarksBelow, Next1
  <2>2. CASE root \in Revisions(docs[p].root, p, kinds)
    <3>1. IsRoot(root) /\ MarksBelow(root, p + 1)
      BY <2>2, <1>1, RevisionsOK
    <3>2. \A k \in DOMAIN root.keys : root.keys[k].compromised \in Nat
      BY <3>1 DEF IsRoot, Entry
    <3> QED
      BY <3>1, <3>2, <1>1 DEF MarksBelow, Next1
  <2> QED
    BY <2>1, <2>2
<1>3. DocOK(Doc(parents, root, modules), Next1)
  BY <1>1, <1>2 DEF DocOK, Doc, Next1
<1> DEFINE e == Doc(parents, root, modules)
<1> HIDE DEF e
<1>4. DocOK(e, Len(docs) + 1) /\ docs' = Append(docs, e)
  BY <1>3 DEF Next1, e
<1> QED
  BY <1>1, <1>4, AddDoc DEF Next1, e

\* Lemma: to begin with.
LEMMA InvInit == Init => Inv
<1> SUFFICES ASSUME Init PROVE Inv
  OBVIOUS
<1>p. Prior \in Seq(Modules) /\ Len(Prior) \in Nat /\ \A i \in 1 .. Len(Prior) : Prior[i] \in Modules
  BY PriorAssumption
<1> DEFINE n == Len(Prior)
           first == Doc(<<>>, FirstRoot, Empty)
           rest == [i \in 1 .. n |-> Doc(<<i>>, FirstRoot, Prior[i])]
           S == {first} \cup {Doc(<<i>>, FirstRoot, Prior[i]) : i \in 1 .. n}
<1>1. docs = <<first>> \o rest
  BY DEF Init
<1>2. <<first>> \in Seq(S) /\ rest \in Seq(S) /\ Len(rest) = n
  <2>1. \A i \in 1 .. n : Doc(<<i>>, FirstRoot, Prior[i]) \in S
    OBVIOUS
  <2>2. first \in S
    OBVIOUS
  <2> HIDE DEF first, S
  <2>3. rest \in [1 .. n -> S] /\ n \in Nat
    BY <2>1, <1>p
  <2> QED
    BY <2>2, <2>3
<1>3. \A i \in 1 .. n : rest[i] = Doc(<<i>>, FirstRoot, Prior[i])
  OBVIOUS
<1> HIDE DEF rest, first, S
<1>4. /\ docs \in Seq(S) /\ Len(docs) = n + 1 /\ docs[1] = first
      /\ \A x \in 2 .. n + 1 : docs[x] = rest[x - 1]
  BY <1>1, <1>2, <1>p
<1>5. DOMAIN docs = 1 .. n + 1
  BY <1>4, <1>p
<1>r. IsRoot(FirstRoot) /\ \A k \in DOMAIN FirstRoot.keys : FirstRoot.keys[k].compromised = 0
  BY RootAssumption
<1>6. ASSUME NEW x \in DOMAIN docs
      PROVE  DocOK(docs[x], x)
  <2>0. x \in 1 .. n + 1 /\ MarksBelow(FirstRoot, x)
    BY <1>5, <1>r, <1>p DEF MarksBelow
  <2>1. CASE x = 1
    <3>1. Empty \in Modules /\ <<>> \in Seq(1 .. (x - 1))
      BY DEF Empty, Modules
    <3> QED
      BY <3>1, <2>0, <2>1, <1>4, <1>r DEF first, Doc, DocOK
  <2>2. CASE x # 1
    <3>1. x - 1 \in 1 .. n /\ x \in 2 .. n + 1
      BY <2>0, <2>2, <1>p
    <3>2. docs[x] = Doc(<<x - 1>>, FirstRoot, Prior[x - 1])
      BY <3>1, <1>3, <1>4
    <3>3. <<x - 1>> \in Seq(1 .. (x - 1)) /\ Prior[x - 1] \in Modules
      BY <3>1, <1>p
    <3> QED
      BY <3>2, <3>3, <2>0, <1>r DEF Doc, DocOK
  <2> QED
    BY <2>1, <2>2
<1>7. docs \in Seq(ToSet(docs))
  <2>1. \A i \in 1 .. n + 1 : docs[i] \in ToSet(docs)
    BY <1>5 DEF ToSet
  <2> DEFINE T == ToSet(docs)
  <2> HIDE DEF T
  <2>2. docs = [i \in 1 .. n + 1 |-> docs[i]] /\ n + 1 \in Nat
    BY <1>4, <1>p
  <2>3. docs \in [1 .. n + 1 -> T]
    BY <2>1, <2>2 DEF T
  <2>4. docs \in Seq(T)
    BY <2>2, <2>3, SeqDef
  <2> QED
    BY <2>4 DEF T
<1>8. DocsOK(docs)
  BY <1>6, <1>7 DEF DocsOK
<1>9. signed \subseteq [doc : DOMAIN docs, key : Keys, form : {"sha256", "sha512", "broken"}]
  BY <1>5, PriorAssumption DEF Init
<1>10. head \in whole /\ held = DOMAIN docs /\ whole = DOMAIN docs /\ index = signed /\ plan = 0 /\ pin = NoPin
  BY <1>4, <1>5, <1>p DEF Init
<1> QED
  BY <1>8, <1>9, <1>10 DEF Inv, StoreOK, Store

\* Lemma: what a store retains, and the documents of the parents, exist.
LEMMA RetainsDocs ==
    ASSUME Inv, NEW d \in DOMAIN docs, NEW n \in Nat
    PROVE  /\ Retained(d, n) \subseteq DOMAIN docs /\ (n > 0 => d \in Retained(d, n))
           /\ WithParents(Retained(d, n)) \subseteq DOMAIN docs
           /\ Retained(d, n) \subseteq WithParents(Retained(d, n))
<1>1. Lines(docs) /\ d \in Nat /\ 1 .. d \subseteq DOMAIN docs
  BY InvFacts, Parents
<1>2. Retained(d, n) \subseteq 1 .. d /\ (n > 0 => d \in Retained(d, n))
  BY <1>1, InDocs, RetainedFacts
<1> DEFINE R == Retained(d, n)
<1> HIDE DEF R
<1>3. \A x \in R : x \in DOMAIN docs
  BY <1>1, <1>2 DEF R
<1>4. ASSUME NEW x \in R PROVE ToSet(docs[x].parents) \subseteq DOMAIN docs
  <2>1. Par(docs, x) \subseteq 1 .. (x - 1) /\ 1 .. x \subseteq DOMAIN docs /\ x \in Nat
    BY <1>1, <1>3, Parents
  <2> QED
    BY <2>1 DEF Par
<1>5. WithParents(R) \subseteq DOMAIN docs /\ R \subseteq WithParents(R)
  BY <1>3, <1>4 DEF WithParents
<1> QED
  BY <1>2, <1>3, <1>5 DEF R

\* Lemma: what a pull lands exists.
LEMMA FetchedOK ==
    ASSUME Inv, NEW d \in DOMAIN docs, NEW n \in Nat, NEW listed
    PROVE  LET st == Fetched(d, n, listed)
           IN /\ StoreOK(st, docs, signed) /\ st.pin = pin
              /\ held \subseteq st.held /\ whole \subseteq st.whole /\ index \subseteq st.index
              /\ d \in st.whole
<1> DEFINE kept == Retained(d, n)
           s == [Store EXCEPT !.held = @ \cup {d} \cup WithParents(kept), !.whole = @ \cup {d} \cup kept]
           w == Walk(s, d)
           st == [s EXCEPT !.index = IF listed THEN @ \cup {r \in signed : r.doc \in w} ELSE @]
<1>1. Fetched(d, n, listed) = st
  BY DEF Fetched
<1>2. /\ kept \subseteq DOMAIN docs /\ WithParents(kept) \subseteq DOMAIN docs
      /\ kept \subseteq WithParents(kept)
  BY RetainsDocs
<1> HIDE DEF kept, w
<1>3. /\ s.held = held \cup {d} \cup WithParents(kept) /\ s.whole = whole \cup {d} \cup kept
      /\ s.index = index /\ s.pin = pin /\ DOMAIN s = {"held", "whole", "index", "pin"}
  BY DEF Store
<1> HIDE DEF s
<1>4. /\ st.held = s.held /\ st.whole = s.whole /\ st.pin = s.pin
      /\ st.index = IF listed THEN s.index \cup {r \in signed : r.doc \in w} ELSE s.index
  BY <1>3
<1> HIDE DEF st
<1>5. held \subseteq DOMAIN docs /\ whole \subseteq held /\ index \subseteq signed
  BY InvFacts
<1>6. StoreOK(st, docs, signed)
  BY <1>2, <1>3, <1>4, <1>5 DEF StoreOK
<1>7. index \subseteq st.index
  BY <1>3, <1>4
<1> QED
  BY <1>1, <1>3, <1>4, <1>6, <1>7

\* Lemma: the parts of what lands before the module layers.
LEMMA FetchedParts ==
    ASSUME NEW d, NEW n, NEW listed
    PROVE  LET st == Fetched(d, n, listed)
               gate == [st EXCEPT !.whole = whole]
           IN /\ gate.held = st.held /\ gate.index = st.index /\ gate.pin = st.pin
              /\ gate.whole = whole
<1> DEFINE st == Fetched(d, n, listed)
<1>1. DOMAIN st = {"held", "whole", "index", "pin"}
  BY DEF Fetched, Store
<1> HIDE DEF st
<1> QED
  BY <1>1 DEF st

\* Lemma: the oldest snapshot of a walk.
LEMMA OldestOf ==
    ASSUME Inv, NEW st, NEW d \in DOMAIN docs
    PROVE  /\ Oldest(st, d) \in Walk(st, d) /\ \A y \in Walk(st, d) : Oldest(st, d) <= y
           /\ Walk(st, d) \subseteq DOMAIN docs
<1> DEFINE W == Walk(st, d)
<1>1. Line(W, docs, st.held, d) /\ d \in Nat /\ 1 .. d \subseteq DOMAIN docs
  BY InvFacts, InDocs, WalkFacts, Parents
<1>2. W \in SUBSET Nat /\ W # {} /\ W \subseteq DOMAIN docs
  BY <1>1 DEF Line
<1>3. Oldest(st, d) = CHOOSE x \in W : \A y \in W : x <= y
  BY DEF Oldest
<1> HIDE DEF W
<1>4. \E x \in W : \A y \in W : x <= y
  BY <1>2, LeastOf
<1>5. Oldest(st, d) \in W /\ \A y \in W : Oldest(st, d) <= y
  BY <1>3, <1>4
<1> QED
  BY <1>2, <1>5 DEF W

\* Lemma: every step keeps the invariant, adds documents and signatures, and takes none back.
LEMMA InvNext ==
    ASSUME Inv, [Next]_vars
    PROVE  Inv' /\ Extends(docs, docs') /\ signed \subseteq signed'
<1>0. /\ DocsOK(docs) /\ Lines(docs) /\ Len(docs) \in Nat /\ DOMAIN docs = 1 .. Len(docs)
      /\ held \subseteq DOMAIN docs /\ whole \subseteq held /\ index \subseteq signed
      /\ head \in whole /\ head \in DOMAIN docs
  BY InvFacts
<1>f. DEFINE Forms3 == {"sha256", "sha512", "broken"}
<1>g. Forms \subseteq Forms3
  BY PolicyAssumption
<1>s. ASSUME docs' = docs
      PROVE  Extends(docs, docs') /\ DocsOK(docs')
  BY <1>s, <1>0 DEF Extends
<1>m. \A x \in DOMAIN docs : docs[x].modules \in Modules
  BY <1>0 DEF DocsOK, DocOK
<1>n. Next1 \in Nat
  BY <1>0 DEF Next1
<1>1. ASSUME NEW edit \in EditOf(head), Commit(edit)
      PROVE  Inv' /\ Extends(docs, docs') /\ signed \subseteq signed'
  <2> DEFINE ms == Edited(docs[head].modules, Next1, edit[1], edit[2])
  <2>1. ms \in Modules /\ <<head>> \in Seq(DOMAIN docs)
    BY <1>0, <1>m, <1>n, EditedOK
  <2>2. docs' = Append(docs, Doc(<<head>>, docs[head].root, ms))
    BY <1>1 DEF Commit
  <2> HIDE DEF ms
  <2>3. DocsOK(docs') /\ Extends(docs, docs') /\ DOMAIN docs' = DOMAIN docs \cup {Next1}
    BY <2>1, <2>2, <1>0, DocMade
  <2>4. /\ UNCHANGED <<signed, index, pin, plan>>
        /\ held' = held \cup {Next1} /\ whole' = whole \cup {Next1} /\ head' = Next1
    BY <1>1 DEF Commit, Advance
  <2> QED
    BY <2>3, <2>4 DEF Inv, StoreOK, Store
<1>2. ASSUME NEW d \in whole, Merge(d)
      PROVE  Inv' /\ Extends(docs, docs') /\ signed \subseteq signed'
  <2> DEFINE a == docs[head].modules
             b == docs[d].modules
             ms == [canon |-> a.canon \cup b.canon, prov |-> a.prov \cup b.prov, tomb |-> a.tomb \cup b.tomb]
  <2>1. a \in Modules /\ b \in Modules
    BY <1>0, <1>m
  <2>2. docs' = Append(docs, Doc(<<head, d>>, docs[head].root, ms))
    BY <1>2 DEF Merge
  <2> HIDE DEF a, b
  <2>3. ms \in Modules
    BY <2>1 DEF Modules
  <2> HIDE DEF ms
  <2>4. <<head, d>> \in Seq(DOMAIN docs)
    BY <1>0
  <2>5. DocsOK(docs') /\ Extends(docs, docs') /\ DOMAIN docs' = DOMAIN docs \cup {Next1}
    BY <2>2, <2>3, <2>4, <1>0, DocMade
  <2>6. /\ UNCHANGED <<signed, index, pin, plan>>
        /\ held' = held \cup {Next1} /\ whole' = whole \cup {Next1} /\ head' = Next1
    BY <1>2 DEF Merge, Advance
  <2> QED
    BY <2>5, <2>6 DEF Inv, StoreOK, Store
<1>3. ASSUME NEW p \in DOMAIN docs, NEW edit \in EditOf(p) \cup {<<>>},
             NEW root \in Revisions(docs[p].root, p, TheirKinds) \cup {docs[p].root},
             NEW recs \in SUBSET [doc : {Next1}, key : Keys, form : Forms], Elsewhere(p, edit, root, recs)
      PROVE  Inv' /\ Extends(docs, docs') /\ signed \subseteq signed'
  <2> DEFINE ms == IF edit = <<>> THEN docs[p].modules
                   ELSE Edited(docs[p].modules, Next1, edit[1], edit[2])
  <2>1. ms \in Modules /\ <<p>> \in Seq(DOMAIN docs)
    <3>1. CASE edit = <<>>
      BY <3>1, <1>m
    <3>2. CASE edit # <<>>
      <4>1. edit \in EditOf(p)
        BY <3>2
      <4>2. Edited(docs[p].modules, Next1, edit[1], edit[2]) \in Modules
        BY <4>1, <1>m, <1>n, EditedOK
      <4> QED
        BY <4>2, <3>2
    <3> QED
      BY <3>1, <3>2
  <2>2. docs' = Append(docs, Doc(<<p>>, root, ms))
    BY <1>3 DEF Elsewhere
  <2> HIDE DEF ms
  <2>3. DocsOK(docs') /\ Extends(docs, docs') /\ DOMAIN docs' = DOMAIN docs \cup {Next1}
    BY <2>1, <2>2, DocMade
  <2>4. UNCHANGED <<held, whole, index, pin, head, plan>> /\ signed' = signed \cup recs
    BY <1>3 DEF Elsewhere
  <2>5. signed' \subseteq [doc : DOMAIN docs', key : Keys, form : Forms3]
    BY <2>3, <2>4, <1>g DEF Inv
  <2> QED
    BY <2>3, <2>4, <2>5 DEF Inv, StoreOK, Store
<1>4. ASSUME NEW recs, StoreRecord(recs), recs \subseteq [doc : DOMAIN docs, key : Keys, form : Forms3],
             UNCHANGED <<docs, held, whole, pin, head, plan>>
      PROVE  Inv' /\ Extends(docs, docs') /\ signed \subseteq signed'
  <2>1. signed' = signed \cup recs /\ index' = index \cup recs
    BY <1>4 DEF StoreRecord
  <2>2. DocsOK(docs') /\ Extends(docs, docs') /\ docs' = docs
    BY <1>4, <1>s
  <2>3. signed' \subseteq [doc : DOMAIN docs', key : Keys, form : Forms3]
    BY <2>1, <2>2, <1>4 DEF Inv
  <2> QED
    BY <2>1, <2>2, <2>3, <1>4 DEF Inv, StoreOK, Store
<1>5. ASSUME NEW k \in Keys, NEW d \in held, NEW f \in Forms, Sign(k, d, f)
      PROVE  Inv' /\ Extends(docs, docs') /\ signed \subseteq signed'
  <2>1. {Rec(d, k, f)} \subseteq [doc : DOMAIN docs, key : Keys, form : Forms3]
    BY <1>0, <1>g DEF Rec
  <2> QED
    BY <2>1, <1>4, <1>5 DEF Sign
<1>6. ASSUME NEW k \in Keys, NEW d \in DOMAIN docs, Countersign(k, d)
      PROVE  Inv' /\ Extends(docs, docs') /\ signed \subseteq signed'
  <2>1. {Rec(d, k, "sha512")} \subseteq [doc : DOMAIN docs, key : Keys, form : Forms3]
    BY DEF Rec
  <2> QED
    BY <2>1, <1>4, <1>6 DEF Countersign
<1>7. ASSUME NEW root \in Revisions(docs[head].root, head, OurKinds), PlanRotate(root)
      PROVE  Inv' /\ Extends(docs, docs') /\ signed \subseteq signed'
  <2>1. docs[head].modules \in Modules /\ <<head>> \in Seq(DOMAIN docs)
    BY <1>0, <1>m
  <2>2. docs' = Append(docs, Doc(<<head>>, root, docs[head].modules))
    BY <1>7 DEF PlanRotate
  <2>3. DocsOK(docs') /\ Extends(docs, docs') /\ DOMAIN docs' = DOMAIN docs \cup {Next1}
    BY <2>1, <2>2, <1>0, DocMade
  <2>4. UNCHANGED <<signed, held, whole, index, pin, head>> /\ plan' = Next1
    BY <1>7 DEF PlanRotate
  <2> QED
    BY <2>3, <2>4 DEF Inv, StoreOK, Store
<1>8. CASE RotatePlanned
  <2>1. /\ UNCHANGED <<docs, signed, index, pin>> /\ plan # 0 /\ plan' = 0
        /\ held' = held \cup {plan} /\ whole' = whole \cup {plan} /\ head' = plan
    BY <1>8 DEF RotatePlanned, Advance
  <2>2. DocsOK(docs') /\ Extends(docs, docs')
    BY <2>1, <1>s
  <2> QED
    BY <2>1, <2>2 DEF Inv, StoreOK, Store
<1>9. ASSUME NEW root \in Revisions(docs[head].root, head, OurKinds), NEW s \in SUBSET Keys, Rotate(root, s)
      PROVE  Inv' /\ Extends(docs, docs') /\ signed \subseteq signed'
  <2>1. docs[head].modules \in Modules /\ <<head>> \in Seq(DOMAIN docs)
    BY <1>0, <1>m
  <2>2. docs' = Append(docs, Doc(<<head>>, root, docs[head].modules))
    BY <1>9 DEF Rotate
  <2>3. DocsOK(docs') /\ Extends(docs, docs') /\ DOMAIN docs' = DOMAIN docs \cup {Next1}
    BY <2>1, <2>2, <1>0, DocMade
  <2> DEFINE recs == {Rec(Next1, k, "sha512") : k \in s}
  <2>4. /\ signed' = signed \cup recs /\ index' = index \cup recs /\ UNCHANGED <<pin, plan>>
        /\ held' = held \cup {Next1} /\ whole' = whole \cup {Next1} /\ head' = Next1
    BY <1>9 DEF Rotate, Advance, StoreRecord
  <2>5. recs \subseteq [doc : DOMAIN docs', key : Keys, form : Forms3]
    BY <2>3 DEF Rec
  <2> HIDE DEF recs
  <2>6. signed' \subseteq [doc : DOMAIN docs', key : Keys, form : Forms3]
    BY <2>3, <2>4, <2>5 DEF Inv
  <2> QED
    BY <2>3, <2>4, <2>6 DEF Inv, StoreOK, Store
<1>10. ASSUME NEW d \in PinChoices, Pin(docs[d].root)
       PROVE  Inv' /\ Extends(docs, docs') /\ signed \subseteq signed'
  <2>1. d \in DOMAIN docs
    BY <1>0 DEF PinChoices
  <2>2. /\ UNCHANGED <<docs, signed, held, whole, index, head, plan>>
        /\ pin' = [root |-> docs[d].root, genesis |-> LastAncestor]
    BY <1>10 DEF Pin
  <2>3. IsRoot(docs[d].root)
    BY <2>1, <1>0 DEF DocsOK, DocOK
  <2>4. LastAncestor \in DOMAIN docs
    <3> DEFINE x == Oldest(Store, head)
    <3>1. x \in DOMAIN docs
      BY <1>0, OldestOf
    <3>2. First(docs, x) \in 0 .. (x - 1) /\ 1 .. x \subseteq DOMAIN docs /\ x \in Nat
      BY <3>1, <1>0, Parents
    <3>3. LastAncestor = IF First(docs, x) = 0 THEN x ELSE First(docs, x)
      BY InDocs DEF LastAncestor
    <3> HIDE DEF x
    <3> QED
      BY <3>1, <3>2, <3>3
  <2>5. IsRoot(pin'.root) /\ pin'.genesis \in DOMAIN docs
    BY <2>2, <2>3, <2>4
  <2>6. DocsOK(docs') /\ Extends(docs, docs')
    BY <2>2, <1>s
  <2> QED
    BY <2>2, <2>5, <2>6 DEF Inv, StoreOK, Store
<1>11. ASSUME NEW d \in DOMAIN docs, NEW n \in Depths, NEW listed \in BOOLEAN, Pull(d, n, listed)
       PROVE  Inv' /\ Extends(docs, docs') /\ signed \subseteq signed'
  <2> DEFINE st == Fetched(d, n, listed)
  <2>1. n \in Nat
    BY PolicyAssumption
  <2>2. /\ StoreOK(st, docs, signed) /\ whole \subseteq st.whole /\ d \in st.whole
    BY <2>1, FetchedOK
  <2>3. /\ held' = st.held /\ index' = st.index /\ whole' = st.whole
        /\ head' \in {d, head} /\ UNCHANGED <<docs, signed, pin, plan>>
    BY <1>11 DEF Pull, Land
  <2> HIDE DEF st
  <2>4. DocsOK(docs') /\ Extends(docs, docs')
    BY <2>3, <1>s
  <2> QED
    BY <2>2, <2>3, <2>4, <1>0 DEF Inv, StoreOK, Store
<1>12. ASSUME NEW n \in Depths, Prune(n)
       PROVE  Inv' /\ Extends(docs, docs') /\ signed \subseteq signed'
  <2>1. n \in Nat /\ n > 0
    BY <1>12, PolicyAssumption DEF Prune
  <2>2. head \in Retained(head, n) /\ Retained(head, n) \subseteq WithParents(Retained(head, n))
    BY <2>1, <1>0, RetainsDocs
  <2>3. /\ held' = held \cap WithParents(Retained(head, n)) /\ whole' = whole \cap Retained(head, n)
        /\ index' = {r \in index : r.doc \in held'} /\ UNCHANGED <<docs, signed, pin, head, plan>>
    BY <1>12 DEF Prune
  <2>4. DocsOK(docs') /\ Extends(docs, docs')
    BY <2>3, <1>s
  <2>5. held' \subseteq held /\ whole' \subseteq held' /\ index' \subseteq index /\ head \in whole'
    BY <2>2, <2>3, <1>0
  <2> QED
    BY <2>3, <2>4, <2>5 DEF Inv, StoreOK, Store
<1>13. CASE UNCHANGED vars
  <2>1. DocsOK(docs') /\ Extends(docs, docs')
    BY <1>13, <1>s DEF vars
  <2> QED
    BY <2>1, <1>13 DEF vars, Inv, StoreOK, Store
<1>14. ASSUME NEW d \in DOMAIN docs, NEW n \in Depths, NEW listed \in BOOLEAN, PinGate(d, n, listed)
       PROVE  Inv' /\ Extends(docs, docs') /\ signed \subseteq signed'
  <2> DEFINE st == Fetched(d, n, listed)
  <2>1. n \in Nat
    BY PolicyAssumption
  <2>2. StoreOK(st, docs, signed) /\ held \subseteq st.held
    BY <2>1, FetchedOK
  <2>3. held' = st.held /\ index' = st.index /\ whole' = whole
    BY <1>14, FetchedParts DEF PinGate, Land
  <2>4. UNCHANGED <<docs, signed, pin, head, plan>>
    BY <1>14 DEF PinGate
  <2> HIDE DEF st
  <2>5. DocsOK(docs') /\ Extends(docs, docs')
    BY <2>4, <1>s
  <2> QED
    BY <2>2, <2>3, <2>4, <2>5, <1>0 DEF Inv, StoreOK, Store
<1>15. CASE Call
  BY <1>15, <1>1, <1>2, <1>5, <1>6, <1>7, <1>8, <1>9, <1>10, <1>12 DEF Call
<1> QED
  BY <1>3, <1>11, <1>13, <1>14, <1>15 DEF Next

\* Lemma: a pull waits for something that exists.
LEMMA PullingNext ==
    ASSUME Inv, PullingOK, [Next]_vars
    PROVE  PullingOK'
<1>1. DOMAIN docs \subseteq DOMAIN docs'
  BY InvNext DEF Extends
<1>2. pulling' \in {0, pulling} \cup DOMAIN docs
  BY DEF Next, Elsewhere, PinGate, Pull, vars
<1> QED
  BY <1>1, <1>2 DEF PullingOK

\* Theorem: every variable keeps its type: documents refer to earlier ones, every root is well
\* formed, and this store holds and indexes nothing that was not made, through every commit,
\* merge, rotation, pull and prune.
THEOREM TypeCorrect == Spec => []TypeOK
<1>1. Inv /\ PullingOK /\ [Next]_vars => Inv' /\ PullingOK'
  BY InvNext, PullingNext
<1>2. Init => PullingOK
  BY DEF Init, PullingOK
<1> QED
  BY <1>1, <1>2, InvInit, InvType, PTL DEF Spec

\* Lemma: the invariant.
LEMMA Invariant == Spec => []Inv
<1>1. Inv /\ [Next]_vars => Inv'
  BY InvNext
<1> QED
  BY <1>1, InvInit, PTL DEF Spec

-----------------------------------------------------------------------------
(* What a store may conclude about a mark.                                 *)

\* Lemma: a mark that a store shows not to be behind d is not behind it at all.
LEMMA NoMark ==
    ASSUME Inv, NEW st, NEW d \in DOMAIN docs, NEW t, DescendsFrom(st, d, t) = "no"
    PROVE  t \notin Reach(Everything, d)
<1>1. Lines(docs) /\ Reach(st, d) = ReachIn(docs, st.held, d)
      /\ Reach(Everything, d) = ReachIn(docs, DOMAIN docs, d)
  BY InvFacts, InDocs DEF Everything
<1> DEFINE R == Reach(st, d)
<1>2. DescendsFrom(st, d, t) = IF t \in R THEN "yes" ELSE IF R \ {d} \subseteq st.held THEN "no" ELSE "undecided"
  BY DEF DescendsFrom
<1> HIDE DEF R
<1>3. t \notin R /\ R \ {d} \subseteq st.held
  BY <1>2
<1>4. ReachIn(docs, DOMAIN docs, d) \subseteq R
  BY <1>1, <1>3, AbsentEverywhere DEF R
<1> QED
  BY <1>1, <1>3, <1>4

\* Lemma: nothing is reached under the number of no snapshot.
LEMMA ReachesDocs ==
    ASSUME Inv, NEW d \in DOMAIN docs
    PROVE  Reach(Everything, d) \subseteq 1 .. d /\ d \in Reach(Everything, d)
BY InvFacts, InDocs, ReachFacts DEF Found

\* Lemma: a verdict of valid or proposal is of a key that is listed and not withdrawn.
LEMMA Judged ==
    ASSUME NEW st, NEW d, NEW k, NEW newest, Judge(st, d, k, newest) \in {"valid", "proposal"}
    PROVE  LET r == InForce(st, d)
               mark == CompromisePosition(r, k, newest)
               need == RequiredScopes(st, d)
           IN /\ Listed(r, k) /\ ~IsRetired(r, k)
              /\ mark = 0 \/ DescendsFrom(st, d, mark) = "no"
              /\ Judge(st, d, k, newest) = "valid" => need.possible \subseteq r.keys[k].scopes
<1> DEFINE r == InForce(st, d)
           mark == CompromisePosition(r, k, newest)
           need == RequiredScopes(st, d)
           far == DescendsFrom(st, d, mark)
           granted == r.keys[k].scopes
           inner == CASE mark # 0 /\ far = "yes" -> "compromised"
                  [] mark # 0 /\ far = "undecided" -> "undecidable"
                  [] mark = 0 \/ far = "no" ->
                        IF need.possible \subseteq granted THEN "valid"
                        ELSE IF need.scopes \subseteq granted THEN "insufficient_evidence"
                        ELSE IF "propose" \in granted /\ need.possible \subseteq Proposable
                        THEN "proposal" ELSE "insufficient_scope"
<1>1. Judge(st, d, k, newest) =
        CASE ~Listed(r, k) -> "unauthorized"
          [] Listed(r, k) /\ IsRetired(r, k) -> "retired"
          [] Listed(r, k) /\ ~IsRetired(r, k) -> inner
  BY DEF Judge
<1>2. far \in {"yes", "no", "undecided"}
  BY DEF DescendsFrom
<1> HIDE DEF r, mark, need, far, granted
<1>3. Listed(r, k) \in BOOLEAN /\ IsRetired(r, k) \in BOOLEAN
  BY DEF Listed, IsRetired
<1>4. Listed(r, k) /\ ~IsRetired(r, k) /\ inner \in {"valid", "proposal"} /\ Judge(st, d, k, newest) = inner
  BY <1>1, <1>3
<1>5. mark = 0 \/ far = "no"
  BY <1>2, <1>4
<1>6. inner = "valid" => need.possible \subseteq granted
  BY <1>2, <1>4, <1>5
<1> HIDE DEF inner
<1> QED
  BY <1>4, <1>5, <1>6 DEF r, mark, need, far, granted

\* Theorem: a key that the newest root marks compromised counts for nothing at the marked snapshot
\* or after it on any path, for any keys, histories and policies, and however much of the history
\* behind the signed snapshot this store has pruned or never fetched.
THEOREM WithdrawnAlwaysOut == Spec => []WithdrawnNeverCounts
<1>1. Inv => WithdrawnNeverCounts
  <2> SUFFICES ASSUME Inv, NEW d \in held, NEW k \in Keys, Listed(docs[head].root, k),
                      docs[head].root.keys[k].compromised \in Reach(Everything, d),
                      NEW outcome \in {"valid", "proposal"},
                      k \in KeysJudged(Store, d, docs[head].root, outcome)
               PROVE  FALSE
    BY DEF WithdrawnNeverCounts
  <2> DEFINE newest == docs[head].root
             c == newest.keys[k].compromised
  <2>1. d \in DOMAIN docs
    BY InvFacts
  <2>2. Judge(Store, d, k, newest) \in {"valid", "proposal"}
    BY DEF KeysJudged
  <2>3. c # 0
    BY <2>1, ReachesDocs
  <2>4. CompromisePosition(InForce(Store, d), k, newest) = c
    BY <2>3 DEF CompromisePosition
  <2>5. DescendsFrom(Store, d, c) = "no"
    BY <2>2, <2>3, <2>4, Judged
  <2>6. c \notin Reach(Everything, d)
    BY <2>1, <2>5, NoMark
  <2> QED
    BY <2>6
<1> QED
  BY <1>1, Invariant, PTL

-----------------------------------------------------------------------------
(* What a store may conclude from a difference it can read in part.        *)

\* Lemma: whatever the whole difference asks for is among what a store that has the parent holds
\* possible; and reading more asks for no less and leaves no more open.
LEMMA PossibleScopes ==
    ASSUME NEW st, NEW su, NEW d, ~Truncated(st, d), ~Truncated(su, d),
           ReadableDiff(st, d) => ReadableDiff(su, d)
    PROVE  /\ RequiredScopes(st, d).scopes \subseteq RequiredScopes(su, d).scopes
           /\ RequiredScopes(su, d).possible \subseteq RequiredScopes(st, d).possible
           /\ RequiredScopes(su, d).scopes \subseteq RequiredScopes(su, d).possible
<1> DEFINE old == ModulesBefore(d)
           new == docs[d].modules
           turn == docs[d].root # (IF FirstParent(d) = 0 THEN NoRoot ELSE docs[FirstParent(d)].root)
           Asks(readable, s) ==
               \/ s = "govern" /\ turn
               \/ s = "redact" /\ ~(new.tomb \subseteq old.tomb)
               \/ s = "commit" /\ new.prov # old.prov
               \/ /\ readable
                  /\ \/ s = "ingest" /\ ~(new.canon \subseteq old.canon)
                     \/ s = "drop:canonical" /\ ~(old.canon \subseteq new.canon)
                     \/ s = "redact" /\ \E x \in new.prov \ old.prov : x[2] = "redact"
           Leaves(readable, s) ==
               /\ s \in {"ingest", "drop:canonical", "redact"} /\ ~readable
               /\ IF s = "redact" THEN new.prov # old.prov ELSE new.canon # old.canon
           Certain(t) == {s \in Scopes : Asks(ReadableDiff(t, d), s)}
           Open(t) == {s \in Scopes : Leaves(ReadableDiff(t, d), s)}
<1>1. ASSUME NEW t, ~Truncated(t, d)
      PROVE  RequiredScopes(t, d).scopes = Certain(t) /\ RequiredScopes(t, d).possible = Certain(t) \cup Open(t)
  <2>1. RequiredScopes(t, d).scopes = Certain(t)
    BY <1>1 DEF RequiredScopes
  <2>2. OpenScopes(t, d) = Open(t)
    BY DEF OpenScopes, Scopes
  <2>3. RequiredScopes(t, d).possible = Certain(t) \cup OpenScopes(t, d)
    BY <1>1 DEF RequiredScopes
  <2> QED
    BY <2>1, <2>2, <2>3
<1>2. \A s \in Scopes : Asks(ReadableDiff(st, d), s) => Asks(ReadableDiff(su, d), s)
  OBVIOUS
<1>3. \A s \in Scopes : Asks(ReadableDiff(su, d), s) => Asks(ReadableDiff(st, d), s) \/ Leaves(ReadableDiff(st, d), s)
  OBVIOUS
<1>4. \A s \in Scopes : Leaves(ReadableDiff(su, d), s) => Leaves(ReadableDiff(st, d), s)
  OBVIOUS
<1> HIDE DEF Asks, Leaves
<1> QED
  BY <1>1, <1>2, <1>3, <1>4

\* Theorem: a key judged valid holds every scope that the whole difference asks for, in any store,
\* whatever compositions and records of the two versions it lacks.
THEOREM EvidenceAlwaysSound == Spec => []EvidenceSound
<1>1. Inv => EvidenceSound
  <2> SUFFICES ASSUME Inv, NEW d \in held, NEW k \in KeysJudged(Store, d, docs[head].root, "valid")
               PROVE  RequiredScopes(Everything, d).scopes \subseteq InForce(Everything, d).keys[k].scopes
    BY DEF EvidenceSound
  <2>1. Judge(Store, d, k, docs[head].root) = "valid"
    BY DEF KeysJudged
  <2>2. /\ Listed(InForce(Store, d), k)
        /\ RequiredScopes(Store, d).possible \subseteq InForce(Store, d).keys[k].scopes
    BY <2>1, Judged
  <2>3. ~Truncated(Store, d)
    BY <2>2 DEF Listed, InForce, Truncated
  <2>4. d \in DOMAIN docs /\ FirstParent(d) \in {0} \cup DOMAIN docs
    <3>1. d \in DOMAIN docs /\ Lines(docs)
      BY InvFacts
    <3>2. First(docs, d) \in 0 .. (d - 1) /\ 1 .. d \subseteq DOMAIN docs /\ d \in Nat
      BY <3>1, Parents
    <3> QED
      BY <3>1, <3>2, InDocs
  <2>5. ~Truncated(Everything, d) /\ ReadableDiff(Everything, d)
    BY <2>4 DEF Truncated, Everything, ReadableDiff
  <2>6. InForce(Everything, d) = InForce(Store, d)
    BY <2>3, <2>5 DEF InForce
  <2>7. RequiredScopes(Everything, d).scopes \subseteq RequiredScopes(Store, d).possible
    BY <2>3, <2>5, PossibleScopes
  <2> QED
    BY <2>2, <2>6, <2>7
<1> QED
  BY <1>1, Invariant, PTL

-----------------------------------------------------------------------------
(* Where authority comes from.                                             *)

\* Lemma: a quorum that a store counts is one.
LEMMA Approval ==
    ASSUME Inv, NEW st, st.index \subseteq signed, NEW x \in DOMAIN docs,
           FirstParent(x) # 0, FirstParent(x) \in st.held, Approves(st, x, ForSnapshot(st, x))
    PROVE  ApprovedByQuorum(x)
<1> DEFINE r == docs[FirstParent(x)].root
           Q == {k \in Verifying(ForSnapshot(st, x)) :
                   /\ Listed(r, k) /\ k \in Governors(r)
                   /\ \/ r.keys[k].compromised = 0
                      \/ DescendsFrom(st, x, r.keys[k].compromised) = "no"}
<1>1. InForce(st, x) = r
  BY DEF InForce, Truncated
<1>2. Cardinality(Q) >= r.quorum
  BY <1>1 DEF Approves, QuorumCount
<1>3. Q \in SUBSET Governors(r)
  OBVIOUS
<1>4. ASSUME NEW k \in Q
      PROVE  /\ \E y \in signed : y.doc = x /\ y.key = k /\ y.form # "broken"
             /\ r.keys[k].compromised \notin Reach(Everything, x)
  <2>1. \E y \in signed : y.doc = x /\ y.key = k /\ y.form # "broken"
    BY DEF Verifying, ForSnapshot
  <2>2. CASE r.keys[k].compromised = 0
    BY <2>1, <2>2, ReachesDocs
  <2>3. CASE DescendsFrom(st, x, r.keys[k].compromised) = "no"
    BY <2>1, <2>3, NoMark
  <2> QED
    BY <2>2, <2>3
<1> HIDE DEF Q
<1> QED
  BY <1>2, <1>3, <1>4 DEF ApprovedByQuorum

\* Lemma: a snapshot that passes the pin, the ancestry and the governance holds granted authority,
\* whatever the store lacks.
LEMMA GrantedBy ==
    ASSUME Inv, NEW st, StoreOK(st, docs, signed), st.pin = pin, NEW d \in DOMAIN docs,
           PinFindings(st, d) = {}, AncestryFindings(st, d) = {}, GovernanceFindings(st, d) = {}
    PROVE  Granted(d)
<1> DEFINE V == Walk(st, d)
           W == Walk(Everything, d)
<1>h. st.held \subseteq DOMAIN docs /\ st.index \subseteq signed
  BY DEF StoreOK
<1>l. Lines(docs) /\ d \in Nat /\ 1 .. d \subseteq DOMAIN docs
  BY InvFacts, Parents
<1>v. V = WalkIn(docs, st.held, d) /\ W = WalkIn(docs, DOMAIN docs, d)
  BY InDocs DEF Everything
<1>w. /\ V \subseteq W
      /\ \A y \in W, a \in V : a <= y => y \in V
  BY <1>h, <1>l, <1>v, WalkShorter
<1>1. Line(V, docs, st.held, d) /\ Line(W, docs, DOMAIN docs, d)
  BY <1>l, <1>v, WalkFacts
<1>2. V \subseteq DOMAIN docs /\ W \subseteq DOMAIN docs /\ W \subseteq Nat
  BY <1>1, <1>l DEF Line
<1>3. ~Truncated(st, d)
  BY DEF AncestryFindings
<1>4. ASSUME NEW x \in V, IsRevision(Everything, x), FirstParent(x) \in st.held
      PROVE  ApprovedByQuorum(x)
  <2>1. IsRevision(st, x) /\ FirstParent(x) # 0
    BY <1>4 DEF IsRevision, Truncated
  <2>2. Approves(st, x, ForSnapshot(st, x))
    <3>1. CASE x = d
      <4>1. "quorum_failure" \notin GovernanceFindings(st, d)
        OBVIOUS
      <4> QED
        BY <4>1, <2>1, <3>1 DEF GovernanceFindings
    <3>2. CASE x # d
      <4>1. "quorum_failure" \notin AncestryFindings(st, d)
        OBVIOUS
      <4> QED
        BY <4>1, <1>3, <1>4, <2>1, <3>2 DEF AncestryFindings
    <3> QED
      BY <3>1, <3>2
  <2> QED
    BY <2>1, <2>2, <1>h, <1>2, <1>4, Approval
\* From an anchor that the store sees, every revision on the way was counted.
<1>5. ASSUME NEW a \in V, NEW x \in W, x > a, IsRevision(Everything, x)
      PROVE  ApprovedByQuorum(x)
  <2>1. x \in V
    BY <1>5, <1>2, <1>w
  <2>2. First(docs, x) \in V /\ a <= First(docs, x)
    BY <2>1, <1>1, <1>5 DEF Line
  <2>3. First(docs, x) # d
    <3>1. x \in 1 .. d /\ x \in DOMAIN docs
      BY <2>1, <1>1, <1>2 DEF Line
    <3>2. First(docs, x) \in 0 .. (x - 1)
      BY <3>1, <1>l, Parents
    <3> QED
      BY <3>1, <3>2, <1>l
  <2>4. FirstParent(x) \in st.held
    BY <2>2, <2>3, <1>1, InDocs DEF Line
  <2> QED
    BY <2>1, <2>4, <1>4, <1>5
<1>6. ASSUME NEW a \in V, IF pin = NoPin THEN FirstParent(a) = 0 ELSE docs[a].root = pin.root
      PROVE  Granted(d)
  BY <1>5, <1>6, <1>w DEF Granted
<1>7. CASE pin = NoPin
  <2>1. ~Anchored(st, d)
    BY <1>7 DEF Anchored
  <2>2. \A x \in V \ {d} : ~Truncated(st, x)
    <3>1. "chain_truncated" \notin AncestryFindings(st, d)
      OBVIOUS
    <3> QED
      BY <3>1, <2>1, <1>3 DEF AncestryFindings
  <2>3. \A x \in V : FirstParent(x) # 0 => FirstParent(x) \in V
    BY <2>2, <1>1, <1>3, InDocs DEF Truncated, Line
  <2> DEFINE a == Oldest(st, d)
  <2>4. a \in V /\ \A y \in V : a <= y
    BY OldestOf
  <2>5. First(docs, a) \in 0 .. (a - 1) /\ a \in Nat
    BY <2>4, <1>2, <1>l, Parents
  <2> HIDE DEF a
  <2>6. FirstParent(a) = 0
    BY <2>3, <2>4, <2>5, InDocs
  <2> QED
    BY <2>4, <2>6, <1>6, <1>7
<1>8. CASE pin # NoPin
  <2>1. Anchored(st, d)
    BY <1>8 DEF PinFindings
  <2>2. InForce(st, d) = pin.root \/ \E x \in V : docs[x].root = pin.root
    BY <2>1 DEF Anchored
  <2>3. CASE \E x \in V : docs[x].root = pin.root
    BY <2>3, <1>6, <1>8
  <2>4. CASE InForce(st, d) = pin.root
    <3>1. CASE FirstParent(d) = 0
      <4>1. docs[d].root = pin.root /\ d \in V
        BY <2>4, <3>1, <1>1 DEF InForce, Line
      <4> QED
        BY <4>1, <1>6, <1>8
    <3>2. CASE FirstParent(d) # 0
      <4>1. FirstParent(d) \in st.held /\ docs[FirstParent(d)].root = pin.root
        BY <2>4, <3>2, <1>3 DEF InForce, Truncated
      <4>2. FirstParent(d) \in V
        BY <4>1, <3>2, <1>1, InDocs DEF Line
      <4> QED
        BY <4>1, <4>2, <1>6, <1>8
    <3> QED
      BY <3>1, <3>2
  <2> QED
    BY <2>2, <2>3, <2>4
<1> QED
  BY <1>7, <1>8

\* Theorem: a snapshot is authorized only on authority that came from the anchor through approved
\* revisions, in any store: whatever documents and records behind a change of keys are withheld
\* from it or were pruned, and whoever made and signed them.
THEOREM AuthorityAlwaysGranted == Spec => []AuthorityGranted
<1>1. Inv => AuthorityGranted
  <2> SUFFICES ASSUME Inv, NEW d \in held, Authorized(Store, d)
               PROVE  Granted(d)
    BY DEF AuthorityGranted
  <2>1. ForSnapshot(Store, d) # {} /\ Findings(Store, d, docs[head].root) = {}
    BY DEF Authorized, State
  <2>2. PinFindings(Store, d) = {} /\ AncestryFindings(Store, d) = {} /\ GovernanceFindings(Store, d) = {}
    BY <2>1 DEF Findings
  <2>3. StoreOK(Store, docs, signed) /\ Store.pin = pin /\ d \in DOMAIN docs
    BY InvFacts DEF Inv, Store
  <2> QED
    BY <2>2, <2>3, GrantedBy
<1> QED
  BY <1>1, Invariant, PTL

-----------------------------------------------------------------------------
(* Authority along the steps of the specification.                         *)

RevisionIn(D, x) == First(D, x) # 0 /\ D[x].root # D[First(D, x)].root
ApprovedIn(D, made, x) ==
    LET r == D[First(D, x)].root IN
    \E Q \in SUBSET Governors(r) :
        /\ Cardinality(Q) >= r.quorum
        /\ \A k \in Q :
              /\ \E y \in made : y.doc = x /\ y.key = k /\ y.form # "broken"
              /\ r.keys[k].compromised \notin ReachIn(D, DOMAIN D, x)
AnchorIn(D, p, a) == IF p = NoPin THEN First(D, a) = 0 ELSE D[a].root = p.root
GrantedIn(D, made, p, d) ==
    \E a \in WalkIn(D, DOMAIN D, d) :
        /\ AnchorIn(D, p, a)
        /\ \A x \in WalkIn(D, DOMAIN D, d) : x > a /\ RevisionIn(D, x) => ApprovedIn(D, made, x)

\* Lemma: the properties read the documents, the signatures and the pin there are.
LEMMA GrantedIs ==
    ASSUME Inv, NEW d \in DOMAIN docs
    PROVE  /\ Granted(d) <=> GrantedIn(docs, signed, pin, d)
           /\ ApprovedByQuorum(d) <=> ApprovedIn(docs, signed, d)
<1>1. Lines(docs) /\ d \in Nat /\ 1 .. d \subseteq DOMAIN docs
  BY InvFacts, Parents
<1>2. \A x : ApprovedByQuorum(x) <=> ApprovedIn(docs, signed, x)
  BY InDocs DEF ApprovedByQuorum, ApprovedIn, Everything
<1>3. Walk(Everything, d) = WalkIn(docs, DOMAIN docs, d)
  BY InDocs DEF Everything
<1>4. \A x \in WalkIn(docs, DOMAIN docs, d) : x \in DOMAIN docs
  BY <1>1, WalkFacts DEF Line
<1>5. \A x \in DOMAIN docs : First(docs, x) \in {0} \cup DOMAIN docs
  <2> SUFFICES ASSUME NEW x \in DOMAIN docs PROVE First(docs, x) \in {0} \cup DOMAIN docs
    OBVIOUS
  <2>1. First(docs, x) \in 0 .. (x - 1) /\ 1 .. x \subseteq DOMAIN docs /\ x \in Nat
    BY <1>1, Parents
  <2> QED
    BY <2>1
<1>6. \A x \in DOMAIN docs : IsRevision(Everything, x) <=> RevisionIn(docs, x)
  BY <1>5, InDocs DEF IsRevision, Truncated, Everything, RevisionIn
<1>7. Granted(d) <=> GrantedIn(docs, signed, pin, d)
  BY <1>2, <1>3, <1>4, <1>6, InDocs DEF Granted, GrantedIn, AnchorIn
<1> QED
  BY <1>2, <1>7

\* Lemma: and after a step, those there are then.
LEMMA GrantedNext ==
    ASSUME Inv, Inv'
    PROVE  Granted(head)' <=> GrantedIn(docs', signed', pin', head')
<1> DEFINE D == docs'
           d == head'
<1>0. DocsOK(D) /\ d \in DOMAIN D
  BY DEF Inv, StoreOK, Store
<1>1. Lines(D) /\ d \in Nat /\ 1 .. d \subseteq DOMAIN D
  BY <1>0, DocsLines, Parents
<1>2. \A x : Reach(Everything, x)' = ReachIn(D, DOMAIN D, x) /\ FirstParent(x)' = First(D, x)
  BY DEF Reach, ReachIn, Par, Everything, FirstParent, First
<1>3. Walk(Everything, head)' = WalkIn(D, DOMAIN D, d)
  BY DEF Walk, WalkIn, FirstParent, First, Everything
<1>4. \A x \in WalkIn(D, DOMAIN D, d) : x \in DOMAIN D
  BY <1>0, <1>1, WalkFacts DEF Line
<1>5. \A x \in DOMAIN D : First(D, x) \in {0} \cup DOMAIN D
  <2> SUFFICES ASSUME NEW x \in DOMAIN D PROVE First(D, x) \in {0} \cup DOMAIN D
    OBVIOUS
  <2>1. First(D, x) \in 0 .. (x - 1) /\ 1 .. x \subseteq DOMAIN D /\ x \in Nat
    BY <1>1, Parents
  <2> QED
    BY <2>1
<1>6. \A x \in DOMAIN D : IsRevision(Everything, x)' <=> RevisionIn(D, x)
  BY <1>2, <1>5 DEF IsRevision, Truncated, Everything, RevisionIn
<1>7. \A x : ApprovedByQuorum(x)' <=> ApprovedIn(D, signed', x)
  BY <1>2 DEF ApprovedByQuorum, ApprovedIn
<1> QED
  BY <1>2, <1>3, <1>4, <1>6, <1>7 DEF Granted, GrantedIn, AnchorIn

\* Lemma: a walk that stops nowhere does not grow with the documents.
LEMMA WholeWalk ==
    ASSUME NEW D, NEW E, Extends(D, E), NEW d \in DOMAIN D
    PROVE  /\ WalkIn(E, DOMAIN E, d) = WalkIn(D, DOMAIN D, d)
           /\ ReachIn(E, DOMAIN E, d) \subseteq ReachIn(D, DOMAIN D, d)
           /\ WalkIn(D, DOMAIN D, d) \subseteq DOMAIN D
<1>1. Lines(D) /\ Lines(E) /\ DOMAIN D \subseteq DOMAIN E /\ d \in Nat /\ 1 .. d \subseteq DOMAIN D
  BY Parents DEF Extends
<1>2. WalkIn(E, DOMAIN E, d) = WalkIn(D, DOMAIN E, d) /\ ReachIn(E, DOMAIN E, d) = ReachIn(D, DOMAIN E, d)
  BY WalkKept, ReachKept
<1>3. WalkIn(D, DOMAIN D, d) \subseteq WalkIn(D, DOMAIN E, d)
  BY <1>1, WalkShorter
<1> DEFINE W == WalkIn(D, DOMAIN D, d)
<1>4. Line(W, D, DOMAIN D, d)
  BY <1>1, WalkFacts
<1>5. W \subseteq DOMAIN D
  BY <1>1, <1>4 DEF Line
<1> HIDE DEF W
<1>6. ASSUME NEW y \in W, First(D, y) # 0
      PROVE  First(D, y) \in W
  <2>1. y \in DOMAIN D
    BY <1>5
  <2>2. First(D, y) \in 0 .. (y - 1) /\ 1 .. y \subseteq DOMAIN D /\ y \in Nat
    BY <2>1, <1>1, Parents
  <2>3. First(D, y) \in DOMAIN D
    BY <2>2, <1>6
  <2> QED
    BY <2>3, <1>4, <1>6 DEF Line
<1>7. d \in W
  BY <1>4 DEF Line
<1>8. WalkIn(D, DOMAIN E, d) \subseteq W
  BY <1>1, <1>6, <1>7, WalkWithin
<1>9. ReachIn(D, DOMAIN D, d) \ {d} \subseteq DOMAIN D
  BY <1>1, ReachFacts DEF Found
<1>10. ReachIn(D, DOMAIN E, d) \subseteq ReachIn(D, DOMAIN D, d)
  BY <1>1, <1>9, AbsentEverywhere
<1> QED
  BY <1>2, <1>3, <1>5, <1>8, <1>10 DEF W

\* Lemma: an approval stands, and so does authority.
LEMMA GrantedKept ==
    ASSUME NEW D, NEW E, Extends(D, E), NEW made, NEW more, made \subseteq more, NEW p, NEW d \in DOMAIN D
    PROVE  /\ RevisionIn(E, d) <=> RevisionIn(D, d)
           /\ ApprovedIn(D, made, d) /\ RevisionIn(D, d) => ApprovedIn(E, more, d)
           /\ GrantedIn(D, made, p, d) => GrantedIn(E, more, p, d)
<1>1. ASSUME NEW x \in DOMAIN D
      PROVE  /\ First(E, x) = First(D, x) /\ E[x] = D[x]
             /\ First(D, x) # 0 => First(D, x) \in DOMAIN D /\ E[First(D, x)] = D[First(D, x)]
  <2>1. First(D, x) \in 0 .. (x - 1) /\ 1 .. x \subseteq DOMAIN D /\ x \in Nat
    BY Parents DEF Extends
  <2>2. First(D, x) # 0 => First(D, x) \in DOMAIN D
    BY <2>1
  <2> QED
    BY <2>2, SameBehind DEF Extends
<1>2. \A x \in DOMAIN D : RevisionIn(E, x) <=> RevisionIn(D, x)
  BY <1>1 DEF RevisionIn
<1>3. ASSUME NEW x \in DOMAIN D, RevisionIn(D, x), ApprovedIn(D, made, x)
      PROVE  ApprovedIn(E, more, x)
  <2>1. D[First(D, x)].root = E[First(E, x)].root
    BY <1>1, <1>3 DEF RevisionIn
  <2>2. ReachIn(E, DOMAIN E, x) \subseteq ReachIn(D, DOMAIN D, x)
    BY WholeWalk
  <2> DEFINE r == D[First(D, x)].root
  <2>3. PICK Q \in SUBSET Governors(r) :
          /\ Cardinality(Q) >= r.quorum
          /\ \A k \in Q :
                /\ \E y \in made : y.doc = x /\ y.key = k /\ y.form # "broken"
                /\ r.keys[k].compromised \notin ReachIn(D, DOMAIN D, x)
    BY <1>3 DEF ApprovedIn
  <2> HIDE DEF r
  <2>4. \A k \in Q :
          /\ \E y \in more : y.doc = x /\ y.key = k /\ y.form # "broken"
          /\ r.keys[k].compromised \notin ReachIn(E, DOMAIN E, x)
    BY <2>2, <2>3
  <2>5. r = E[First(E, x)].root
    BY <2>1 DEF r
  <2> QED
    BY <2>3, <2>4, <2>5 DEF ApprovedIn
<1> DEFINE W == WalkIn(D, DOMAIN D, d)
<1>4. W = WalkIn(E, DOMAIN E, d) /\ W \subseteq DOMAIN D
  BY WholeWalk
<1>5. ASSUME GrantedIn(D, made, p, d)
      PROVE  GrantedIn(E, more, p, d)
  <2>1. PICK a \in W : /\ AnchorIn(D, p, a)
                       /\ \A x \in W : x > a /\ RevisionIn(D, x) => ApprovedIn(D, made, x)
    BY <1>5 DEF GrantedIn
  <2> HIDE DEF W
  <2>2. AnchorIn(E, p, a)
    BY <2>1, <1>1, <1>4 DEF AnchorIn
  <2>3. \A x \in W : x > a /\ RevisionIn(E, x) => ApprovedIn(E, more, x)
    BY <2>1, <1>2, <1>3, <1>4
  <2> QED
    BY <2>1, <2>2, <2>3, <1>4 DEF GrantedIn
<1> QED
  BY <1>2, <1>3, <1>5

\* Lemma: a child that changes no keys, or whose change is approved, has its parent's authority.
LEMMA GrantedChild ==
    ASSUME NEW D, Lines(D), NEW made, NEW p, NEW n \in DOMAIN D, First(D, n) # 0,
           GrantedIn(D, made, p, First(D, n)), RevisionIn(D, n) => ApprovedIn(D, made, n)
    PROVE  GrantedIn(D, made, p, n)
<1> DEFINE f == First(D, n)
           V == WalkIn(D, DOMAIN D, f)
<1>1. f \in 0 .. (n - 1) /\ 1 .. n \subseteq DOMAIN D /\ n \in Nat
  BY Parents
<1>2. f \in DOMAIN D
  BY <1>1
<1>3. WalkIn(D, DOMAIN D, n) = {n} \cup V
  BY <1>2, WalkStep
<1>4. PICK a \in V : /\ AnchorIn(D, p, a)
                     /\ \A x \in V : x > a /\ RevisionIn(D, x) => ApprovedIn(D, made, x)
  BY DEF GrantedIn
<1> HIDE DEF V
<1>5. \A x \in {n} \cup V : x > a /\ RevisionIn(D, x) => ApprovedIn(D, made, x)
  BY <1>4
<1> QED
  BY <1>3, <1>4, <1>5 DEF GrantedIn

\* What the pin gate lets through, if it found a record over it, holds granted authority.
GateOK ==
    pulling # 0 =>
        /\ pulling \in DOMAIN docs /\ pin # NoPin
        /\ ForSnapshot(Store, pulling) = {} \/ GrantedIn(docs, signed, pin, pulling)

\* Lemma: and still does when others have published more.
LEMMA GateNext ==
    ASSUME Inv, GateOK, [Next]_vars
    PROVE  GateOK'
<1>i. Inv' /\ Extends(docs, docs') /\ signed \subseteq signed'
  BY InvNext
<1>1. CASE pulling' = 0
  BY <1>1 DEF GateOK
<1>2. ASSUME pulling # 0, pulling' = pulling, pin' = pin, index' = index
      PROVE  GateOK'
  <2>1. pulling \in DOMAIN docs /\ pulling \in DOMAIN docs' /\ pin' # NoPin
    BY <1>2, <1>i DEF GateOK, Extends
  <2>2. ForSnapshot(Store, pulling)' = ForSnapshot(Store, pulling)
    BY <1>2 DEF ForSnapshot, Store
  <2>3. GrantedIn(docs, signed, pin, pulling) => GrantedIn(docs', signed', pin', pulling')
    BY <2>1, <1>2, <1>i, GrantedKept
  <2> QED
    BY <2>1, <2>2, <2>3, <1>2 DEF GateOK
<1>3. ASSUME NEW d \in DOMAIN docs, NEW n \in Depths, NEW listed \in BOOLEAN, PinGate(d, n, listed),
             pulling' # 0
      PROVE  GateOK'
  <2> DEFINE ft == Fetched(d, n, listed)
             st == [ft EXCEPT !.whole = whole]
  <2>1. /\ pin # NoPin /\ PinHolds(st, d) /\ pulling' = d /\ Land(st)
        /\ UNCHANGED <<docs, signed, pin, head, plan>>
    BY <1>3 DEF PinGate
  <2>2. n \in Nat
    BY PolicyAssumption
  <2>3. StoreOK(ft, docs, signed) /\ ft.pin = pin /\ held \subseteq ft.held
    BY <2>2, FetchedOK
  <2>4. st.held = ft.held /\ st.index = ft.index /\ st.pin = ft.pin /\ st.whole = whole
    BY FetchedParts
  <2> HIDE DEF ft, st
  <2>5. StoreOK(st, docs, signed) /\ st.pin = pin
    BY <2>3, <2>4, InvFacts DEF StoreOK
  <2>6. ForSnapshot(Store, pulling)' = ForSnapshot(st, d)
    BY <2>1 DEF ForSnapshot, Store, Land
  <2>7. ASSUME ForSnapshot(st, d) # {}
        PROVE  GrantedIn(docs, signed, pin, d)
    <3>1. Findings(st, d, docs[d].root) \cap PinBlocks = {}
      BY <2>1, <2>5 DEF PinHolds
    <3>2. /\ PinFindings(st, d) \subseteq Findings(st, d, docs[d].root)
          /\ AncestryFindings(st, d) \subseteq Findings(st, d, docs[d].root)
          /\ GovernanceFindings(st, d) \subseteq Findings(st, d, docs[d].root)
      BY <2>7 DEF Findings
    <3>3. PinFindings(st, d) \subseteq PinBlocks
      BY DEF PinFindings, PinBlocks
    <3>4. AncestryFindings(st, d) \subseteq PinBlocks
      BY DEF AncestryFindings, PinBlocks
    <3>5. GovernanceFindings(st, d) \subseteq PinBlocks
      BY DEF GovernanceFindings, PinBlocks
    <3>6. PinFindings(st, d) = {} /\ AncestryFindings(st, d) = {} /\ GovernanceFindings(st, d) = {}
      BY <3>1, <3>2, <3>3, <3>4, <3>5
    <3>7. Granted(d)
      BY <2>5, <3>6, GrantedBy
    <3> QED
      BY <3>7, GrantedIs
  <2> QED
    BY <2>1, <2>6, <2>7 DEF GateOK
<1>4. ASSUME pulling' # 0
      PROVE  \/ pulling # 0 /\ pulling' = pulling /\ pin' = pin /\ index' = index
             \/ \E d \in DOMAIN docs : \E n \in Depths, listed \in BOOLEAN : PinGate(d, n, listed)
  BY <1>4 DEF Next, Elsewhere, Pull, vars
<1> QED
  BY <1>1, <1>2, <1>3, <1>4

\* Theorem: while a pin is held, nothing moves the head from granted authority to authority that
\* was not: no commit, merge or rotation of this brain's own, and no pull that installs what its
\* pin gate judged with a record over it, whatever a publisher serves, however much of its history
\* it withholds and whatever others publish in between, for any keys and any policy.
THEOREM AuthorityStaysPinned == Spec => PinnedAuthority
<1>1. ASSUME Inv, GateOK, Next, pin # NoPin, pin' = pin, Granted(head), head' # head,
             pulling # 0 => head' = pulling /\ ForSnapshot(Store, pulling) # {}
      PROVE  Granted(head)'
  <2>i. Inv' /\ Extends(docs, docs') /\ signed \subseteq signed'
    BY <1>1, InvNext
  <2>0. /\ DocsOK(docs) /\ Lines(docs) /\ Len(docs) \in Nat /\ DOMAIN docs = 1 .. Len(docs)
        /\ head \in DOMAIN docs /\ head \in held /\ index \subseteq signed
    BY <1>1, InvFacts
  <2>l. Lines(docs')
    BY <2>i DEF Extends
  <2> SUFFICES GrantedIn(docs', signed', pin', head')
    BY <1>1, <2>i, GrantedNext
  <2>g. GrantedIn(docs, signed, pin, head)
    BY <1>1, <2>0, GrantedIs
  <2>h. GrantedIn(docs', signed', pin', head)
    BY <1>1, <2>0, <2>g, <2>i, GrantedKept
  <2>c. ASSUME NEW parents, NEW root, NEW modules, docs' = Append(docs, Doc(parents, root, modules)),
               parents \in Seq(DOMAIN docs), parents # <<>>, parents[1] = head, head' = Next1,
               root # docs[head].root => ApprovedIn(docs', signed', Next1)
        PROVE  GrantedIn(docs', signed', pin', head')
    <3> DEFINE e == Doc(parents, root, modules)
    <3>1. e.parents = parents /\ e.root = root
      BY DEF Doc
    <3> HIDE DEF e
    <3>2. docs'[Next1] = e /\ Next1 \in DOMAIN docs'
      <4> DEFINE S == ToSet(docs) \cup {e}
      <4>1. docs' = Append(docs, e)
        BY <2>c DEF e
      <4>2. DocsOK(docs')
        BY <2>i DEF Inv
      <4>3. Len(docs') \in Nat /\ DOMAIN docs' = 1 .. Len(docs')
        BY <4>2, DocsLines
      <4>4. docs \in Seq(ToSet(docs))
        BY <2>0 DEF DocsOK
      <4> DEFINE T == ToSet(docs)
      <4> HIDE DEF T
      <4>5. Len(Append(docs, e)) = Len(docs) + 1 /\ Append(docs, e)[Len(docs) + 1] = e
        BY <4>4 DEF T
      <4> QED
        BY <4>1, <4>3, <4>5, <2>0 DEF Next1
    <3>3. First(docs', Next1) = head
      BY <3>1, <3>2, <2>c DEF First
    <3>4. docs'[head] = docs[head] /\ head # 0
      BY <2>0, <2>i DEF Extends
    <3>5. RevisionIn(docs', Next1) => ApprovedIn(docs', signed', Next1)
      BY <3>1, <3>2, <3>3, <3>4, <2>c DEF RevisionIn
    <3> QED
      BY <3>2, <3>3, <3>4, <3>5, <2>c, <2>h, <2>l, GrantedChild
  <2>1. ASSUME NEW edit \in EditOf(head), Commit(edit)
        PROVE  GrantedIn(docs', signed', pin', head')
    <3>1. <<head>> \in Seq(DOMAIN docs) /\ <<head>> # <<>> /\ <<head>>[1] = head
      BY <2>0
    <3> QED
      BY <3>1, <2>1, <2>c DEF Commit, Advance
  <2>2. ASSUME NEW d \in whole, Merge(d)
        PROVE  GrantedIn(docs', signed', pin', head')
    <3>1. d \in DOMAIN docs
      BY <1>1, InvFacts
    <3>2. <<head, d>> \in Seq(DOMAIN docs) /\ <<head, d>> # <<>> /\ <<head, d>>[1] = head
      BY <3>1, <2>0
    <3>3. head' = Next1 /\ \E ms : docs' = Append(docs, Doc(<<head, d>>, docs[head].root, ms))
      BY <2>2 DEF Merge, Advance
    <3> QED
      BY <3>2, <3>3, <2>c
  <2>3. CASE RotatePlanned
    <3>1. /\ FirstParent(plan) = head /\ plan # 0 /\ docs' = docs /\ signed' = signed /\ head' = plan
          /\ Approves(Store, plan, ForSnapshot(Store, plan))
      BY <2>3 DEF RotatePlanned, Advance
    <3>2. plan \in DOMAIN docs /\ head # 0
      BY <3>1, <1>1, <2>0 DEF Inv
    <3>3. Store.index \subseteq signed /\ Store.held = held
      BY <2>0 DEF Store
    <3>4. ApprovedByQuorum(plan)
      BY <3>1, <3>2, <3>3, <1>1, <2>0, Approval
    <3>5. ApprovedIn(docs, signed, plan)
      BY <3>2, <3>4, <1>1, GrantedIs
    <3>6. First(docs, plan) = head
      BY <3>1, InDocs
    <3> QED
      BY <3>1, <3>2, <3>5, <3>6, <2>0, <2>g, <1>1, GrantedChild
  <2>4. ASSUME NEW root \in Revisions(docs[head].root, head, OurKinds), NEW s \in SUBSET Keys, Rotate(root, s)
        PROVE  GrantedIn(docs', signed', pin', head')
    <3> DEFINE old == docs[head].root
               Q == {k \in s \cap Governors(old) :
                       \/ old.keys[k].compromised = 0
                       \/ DescendsFrom(Store, head, old.keys[k].compromised) = "no"}
               recs == {Rec(Next1, k, "sha512") : k \in s}
               ms == docs[head].modules
    <3>1. /\ docs' = Append(docs, Doc(<<head>>, root, ms)) /\ head' = Next1
          /\ signed' = signed \cup recs /\ Cardinality(Q) >= old.quorum
      BY <2>4 DEF Rotate, Advance, StoreRecord
    <3>2. ms \in Modules /\ <<head>> \in Seq(DOMAIN docs) /\ <<head>> # <<>> /\ <<head>>[1] = head
      BY <2>0 DEF DocsOK, DocOK
    <3> HIDE DEF ms
    <3>3. /\ DOMAIN docs' = DOMAIN docs \cup {Next1} /\ Next1 \notin DOMAIN docs
          /\ docs'[Next1] = Doc(<<head>>, root, ms)
      BY <3>1, <3>2, <1>1, <2>0, DocMade
    <3>4. First(docs', Next1) = head /\ Par(docs', Next1) = {head}
      <4> DEFINE e == Doc(<<head>>, root, ms)
      <4>1. e.parents = <<head>>
        BY DEF Doc
      <4>2. ToSet(<<head>>) = {head}
        BY DEF ToSet
      <4> HIDE DEF e
      <4> QED
        BY <4>1, <4>2, <3>2, <3>3 DEF First, Par, e
    <3>5. docs'[head] = docs[head]
      BY <2>0, <2>i DEF Extends
    <3>6. ReachIn(docs', DOMAIN docs', Next1) \subseteq {Next1} \cup ReachIn(docs, DOMAIN docs, head)
      <4>1. ReachIn(docs', DOMAIN docs', Next1) =
              {Next1} \cup UNION {IF p \in DOMAIN docs' THEN ReachIn(docs', DOMAIN docs', p) ELSE {p}
                                    : p \in Par(docs', Next1)}
        BY <3>3, <2>l, ReachStep
      <4>s. head \in DOMAIN docs' /\ Par(docs', Next1) = {head}
        BY <3>3, <3>4, <2>0
      <4>u. UNION {IF p \in DOMAIN docs' THEN ReachIn(docs', DOMAIN docs', p) ELSE {p} : p \in {head}} =
              ReachIn(docs', DOMAIN docs', head)
        BY <4>s
      <4>2. ReachIn(docs', DOMAIN docs', Next1) = {Next1} \cup ReachIn(docs', DOMAIN docs', head)
        BY <4>1, <4>s, <4>u
      <4>3. ReachIn(docs', DOMAIN docs', head) \subseteq ReachIn(docs, DOMAIN docs, head)
        BY <2>0, <2>i, WholeWalk
      <4> QED
        BY <4>2, <4>3
    <3>7. ASSUME NEW k \in Q
          PROVE  /\ \E y \in signed' : y.doc = Next1 /\ y.key = k /\ y.form # "broken"
                 /\ old.keys[k].compromised \notin ReachIn(docs', DOMAIN docs', Next1)
      <4>1. Rec(Next1, k, "sha512") \in signed'
        BY <3>1
      <4>2. \E y \in signed' : y.doc = Next1 /\ y.key = k /\ y.form # "broken"
        BY <4>1 DEF Rec
      <4>3. k \in DOMAIN old.keys /\ IsRoot(old) /\ MarksBelow(old, head)
        BY <2>0 DEF Governors, DocsOK, DocOK
      <4>4. old.keys[k].compromised \in Nat /\ old.keys[k].compromised < head
        BY <4>3 DEF IsRoot, MarksBelow, Entry
      <4>5. old.keys[k].compromised # Next1
        BY <4>4, <2>0 DEF Next1
      <4>6. ReachIn(docs, DOMAIN docs, head) = Reach(Everything, head)
        BY InDocs DEF Everything
      <4>7. old.keys[k].compromised \notin Reach(Everything, head)
        <5>1. CASE old.keys[k].compromised = 0
          BY <5>1, <1>1, <2>0, ReachesDocs
        <5>2. CASE DescendsFrom(Store, head, old.keys[k].compromised) = "no"
          BY <5>2, <1>1, <2>0, NoMark
        <5> QED
          BY <5>1, <5>2
      <4> QED
        BY <4>2, <4>5, <4>6, <4>7, <3>6
    <3>8. Q \in SUBSET Governors(old)
      OBVIOUS
    <3> HIDE DEF Q, recs
    <3>9. ApprovedIn(docs', signed', Next1)
      <4>1. docs'[First(docs', Next1)].root = old /\ Cardinality(Q) >= old.quorum
        BY <3>1, <3>4, <3>5
      <4> HIDE DEF old
      <4>2. \A k \in Q :
              /\ \E y \in signed' : y.doc = Next1 /\ y.key = k /\ y.form # "broken"
              /\ old.keys[k].compromised \notin ReachIn(docs', DOMAIN docs', Next1)
        BY <3>7
      <4> QED
        BY <4>1, <4>2, <3>8 DEF ApprovedIn
    <3> QED
      BY <3>1, <3>2, <3>9, <2>c
  <2>5. ASSUME NEW d \in DOMAIN docs, NEW n \in Depths, NEW listed \in BOOLEAN, Pull(d, n, listed)
        PROVE  GrantedIn(docs', signed', pin', head')
    <3>1. pulling # 0 /\ docs' = docs /\ signed' = signed
      BY <2>5, <1>1 DEF Pull
    <3>2. head' = pulling /\ ForSnapshot(Store, pulling) # {}
      BY <3>1, <1>1
    <3>3. GrantedIn(docs, signed, pin, pulling)
      BY <3>1, <3>2, <1>1 DEF GateOK
    <3> QED
      BY <3>1, <3>2, <3>3, <1>1
  <2>6. ASSUME head' = head PROVE FALSE
    BY <2>6, <1>1
  <2>7. CASE \/ \E p \in DOMAIN docs : \E edit \in EditOf(p) \cup {<<>>} :
                   \E root \in Revisions(docs[p].root, p, TheirKinds) \cup {docs[p].root} :
                       \E recs \in SUBSET [doc : {Next1}, key : Keys, form : Forms] :
                           Elsewhere(p, edit, root, recs)
             \/ \E k \in Keys, d \in held, f \in Forms : Sign(k, d, f)
             \/ \E root \in Revisions(docs[head].root, head, OurKinds) : PlanRotate(root)
             \/ \E k \in Keys, d \in DOMAIN docs : Countersign(k, d)
             \/ \E d \in PinChoices : Pin(docs[d].root)
             \/ \E n \in Depths : Prune(n)
             \/ \E d \in DOMAIN docs : \E n \in Depths, listed \in BOOLEAN : PinGate(d, n, listed)
    <3>1. head' = head
      BY <2>7 DEF Elsewhere, Sign, PlanRotate, Countersign, Pin, Prune, PinGate
    <3> QED
      BY <3>1, <2>6
  <2> QED
    BY <1>1, <2>1, <2>2, <2>3, <2>4, <2>5, <2>7 DEF Next, Call
<1>2. Inv /\ GateOK /\ [Next]_vars =>
        [pin # NoPin /\ pin' = pin /\ Granted(head)
           /\ (pulling # 0 => head' = pulling /\ ForSnapshot(Store, pulling) # {})
         => Granted(head)']_head
  BY <1>1 DEF vars
<1>3. Inv /\ GateOK /\ [Next]_vars => GateOK'
  BY GateNext
<1>4. Init => GateOK
  BY DEF Init, GateOK
<1> QED
  BY <1>2, <1>3, <1>4, Invariant, PTL DEF Spec, PinnedAuthority

-----------------------------------------------------------------------------
(* What a store that gains history and signatures still concludes.         *)

Gains(st, su) ==
    /\ st.pin = su.pin /\ su.index \subseteq Records
    /\ st.held \subseteq su.held /\ st.whole \subseteq su.whole /\ st.index \subseteq su.index

\* Lemma: where a store holds the whole line of d, having more changes no position on it.
LEMMA SameLine ==
    ASSUME Inv, NEW st, NEW su, Gains(st, su), NEW d \in DOMAIN docs, Walk(Everything, d) \subseteq st.held
    PROVE  /\ Walk(st, d) = Walk(Everything, d) /\ Walk(su, d) = Walk(Everything, d)
           /\ d \in Walk(Everything, d) /\ Walk(Everything, d) \subseteq DOMAIN docs
           /\ \A x \in Walk(Everything, d) :
                /\ ~Truncated(st, x) /\ ~Truncated(su, x)
                /\ InForce(su, x) = InForce(st, x) /\ (IsRevision(su, x) <=> IsRevision(st, x))
<1> DEFINE W == Walk(Everything, d)
<1>l. Lines(docs) /\ d \in Nat /\ 1 .. d \subseteq DOMAIN docs
  BY InvFacts, Parents
<1>g. st.held \subseteq su.held
  BY DEF Gains
<1>1. W = WalkIn(docs, DOMAIN docs, d)
  BY InDocs DEF Everything
<1>2. Line(W, docs, DOMAIN docs, d)
  BY <1>1, <1>l, WalkFacts
<1>3. d \in W /\ W \subseteq DOMAIN docs
  BY <1>2, <1>l DEF Line
<1>4. ASSUME NEW x \in W, First(docs, x) # 0
      PROVE  First(docs, x) \in W
  <2>1. x \in DOMAIN docs
    BY <1>3
  <2>2. First(docs, x) \in 0 .. (x - 1) /\ 1 .. x \subseteq DOMAIN docs /\ x \in Nat
    BY <2>1, <1>l, Parents
  <2>3. First(docs, x) \in DOMAIN docs
    BY <2>2, <1>4
  <2> QED
    BY <2>3, <1>2, <1>4 DEF Line
<1>w. W \subseteq st.held
  OBVIOUS
<1> HIDE DEF W
<1>5. ASSUME NEW H, W \subseteq H
      PROVE  WalkIn(docs, H, d) = W
  <2> DEFINE V == WalkIn(docs, H, d)
  <2>1. V \subseteq W
    BY <1>3, <1>4, <1>l, WalkWithin
  <2>2. Line(V, docs, H, d)
    BY <1>l, WalkFacts
  <2>3. d \in V
    BY <2>2 DEF Line
  <2>4. \A y \in V : First(docs, y) # 0 => First(docs, y) \in V
    BY <2>1, <2>2, <1>4, <1>5 DEF Line
  <2> HIDE DEF V
  <2>5. W \subseteq V
    BY <2>3, <2>4, <1>1, <1>l, WalkWithin
  <2> QED
    BY <2>1, <2>5 DEF V
<1>6. Walk(st, d) = W /\ Walk(su, d) = W
  BY <1>5, <1>g, <1>w, InDocs
<1>7. \A x \in W : FirstParent(x) # 0 => FirstParent(x) \in st.held /\ FirstParent(x) \in su.held
  BY <1>4, <1>g, <1>w, InDocs
<1>8. \A x \in W : ~Truncated(st, x) /\ ~Truncated(su, x)
  BY <1>7 DEF Truncated
<1>9. \A x \in W : InForce(su, x) = InForce(st, x) /\ (IsRevision(su, x) <=> IsRevision(st, x))
  BY <1>8 DEF InForce, IsRevision
<1> QED
  BY <1>3, <1>6, <1>8, <1>9 DEF W

\* Lemma: a mark that is shown not to be behind x stays so.
LEMMA NoStaysNo ==
    ASSUME Inv, NEW st, NEW su, Gains(st, su), NEW x \in DOMAIN docs, NEW t, DescendsFrom(st, x, t) = "no"
    PROVE  DescendsFrom(su, x, t) = "no"
<1> DEFINE R == Reach(st, x)
           Q == Reach(su, x)
<1>1. Lines(docs) /\ R = ReachIn(docs, st.held, x) /\ Q = ReachIn(docs, su.held, x)
  BY InvFacts, InDocs
<1>2. DescendsFrom(st, x, t) = IF t \in R THEN "yes" ELSE IF R \ {x} \subseteq st.held THEN "no" ELSE "undecided"
  BY DEF DescendsFrom
<1>3. DescendsFrom(su, x, t) = IF t \in Q THEN "yes" ELSE IF Q \ {x} \subseteq su.held THEN "no" ELSE "undecided"
  BY DEF DescendsFrom
<1> HIDE DEF R, Q
<1>4. t \notin R /\ R \ {x} \subseteq st.held
  BY <1>2
<1>5. Q \subseteq R
  BY <1>1, <1>4, AbsentEverywhere
<1>6. st.held \subseteq su.held
  BY DEF Gains
<1> QED
  BY <1>3, <1>4, <1>5, <1>6

\* Lemma: keys that sign are keys.
LEMMA KeysFinite ==
    ASSUME NEW st, st.index \subseteq Records, NEW x, NEW K, K \subseteq Verifying(ForSnapshot(st, x))
    PROVE  IsFiniteSet(K) /\ Cardinality(K) \in Nat
<1>1. K \subseteq Keys
  BY DEF Verifying, ForSnapshot, Records
<1>2. IsFiniteSet(K)
  BY <1>1, RootAssumption, FS_Subset
<1> QED
  BY <1>2, FS_CardinalityType

\* Lemma: more signatures sign no less.
LEMMA VerifyingGrows ==
    ASSUME NEW st, NEW su, st.index \subseteq su.index, NEW x
    PROVE  /\ Verifying(ForSnapshot(st, x)) \subseteq Verifying(ForSnapshot(su, x))
           /\ ForSnapshot(st, x) \subseteq ForSnapshot(su, x)
<1>1. ForSnapshot(st, x) \subseteq ForSnapshot(su, x)
  BY DEF ForSnapshot
<1> QED
  BY <1>1 DEF Verifying

\* Lemma: a quorum that was counted still counts.
LEMMA ApprovesStill ==
    ASSUME Inv, NEW st, NEW su, Gains(st, su), NEW x \in DOMAIN docs, InForce(su, x) = InForce(st, x),
           InForce(st, x) # NoRoot => InForce(st, x).quorum \in Nat,
           Approves(st, x, ForSnapshot(st, x))
    PROVE  Approves(su, x, ForSnapshot(su, x))
<1> DEFINE r == InForce(st, x)
           Counted(t) == {k \in Verifying(ForSnapshot(t, x)) :
                            /\ Listed(r, k) /\ k \in Governors(r)
                            /\ \/ r.keys[k].compromised = 0
                               \/ DescendsFrom(t, x, r.keys[k].compromised) = "no"}
<1>1. r # NoRoot /\ Cardinality(Counted(st)) >= r.quorum
  BY DEF Approves, QuorumCount
<1>2. Verifying(ForSnapshot(st, x)) \subseteq Verifying(ForSnapshot(su, x))
  BY VerifyingGrows DEF Gains
<1>3. \A t : DescendsFrom(st, x, t) = "no" => DescendsFrom(su, x, t) = "no"
  BY NoStaysNo
<1>4. Counted(st) \subseteq Counted(su)
  BY <1>2, <1>3
<1>5. Counted(su) \subseteq Verifying(ForSnapshot(su, x)) /\ su.index \subseteq Records
  BY DEF Gains
<1>6. Approves(su, x, ForSnapshot(su, x)) <=> r # NoRoot /\ Cardinality(Counted(su)) >= r.quorum
  BY DEF Approves, QuorumCount
<1> HIDE DEF Counted
<1>7. IsFiniteSet(Counted(su)) /\ Cardinality(Counted(su)) \in Nat
  BY <1>5, KeysFinite
<1>8. Cardinality(Counted(st)) \in Nat /\ Cardinality(Counted(st)) <= Cardinality(Counted(su))
  BY <1>4, <1>7, FS_Subset, FS_CardinalityType
<1> QED
  BY <1>1, <1>6, <1>7, <1>8

VerdictOn(need, granted) ==
    IF need.possible \subseteq granted THEN "valid"
    ELSE IF need.scopes \subseteq granted THEN "insufficient_evidence"
    ELSE IF "propose" \in granted /\ need.possible \subseteq Proposable
    THEN "proposal" ELSE "insufficient_scope"

\* Lemma: the verdict on a key that is listed and not withdrawn is about its scopes alone.
LEMMA JudgedAs ==
    ASSUME NEW st, NEW d, NEW k, NEW newest,
           Listed(InForce(st, d), k), ~IsRetired(InForce(st, d), k),
           LET mark == CompromisePosition(InForce(st, d), k, newest)
           IN  mark = 0 \/ DescendsFrom(st, d, mark) = "no"
    PROVE  Judge(st, d, k, newest) = VerdictOn(RequiredScopes(st, d), InForce(st, d).keys[k].scopes)
<1> DEFINE r == InForce(st, d)
           mark == CompromisePosition(r, k, newest)
           far == DescendsFrom(st, d, mark)
           need == RequiredScopes(st, d)
           granted == r.keys[k].scopes
<1>1. Judge(st, d, k, newest) =
        CASE ~Listed(r, k) -> "unauthorized"
          [] Listed(r, k) /\ IsRetired(r, k) -> "retired"
          [] Listed(r, k) /\ ~IsRetired(r, k) ->
                CASE mark # 0 /\ far = "yes" -> "compromised"
                  [] mark # 0 /\ far = "undecided" -> "undecidable"
                  [] mark = 0 \/ far = "no" -> VerdictOn(need, granted)
  BY DEF Judge, VerdictOn
<1>2. Listed(r, k) /\ ~IsRetired(r, k) /\ (mark = 0 \/ far = "no")
  OBVIOUS
<1> HIDE DEF r, mark, far, need, granted
<1>3. Judge(st, d, k, newest) = VerdictOn(need, granted)
  BY <1>1, <1>2
<1> QED
  BY <1>3 DEF need, granted, r

\* Lemma: a key that counted counts still, where nothing marks it.
LEMMA JudgedStill ==
    ASSUME Inv, NEW st, NEW su, Gains(st, su), NEW d, ~Truncated(st, d), ~Truncated(su, d),
           InForce(su, d) = InForce(st, d), NEW k, NEW newest, NEW later,
           Listed(InForce(st, d), k) => InForce(st, d).keys[k].compromised = 0,
           Listed(later, k) => later.keys[k].compromised = 0,
           Judge(st, d, k, newest) \in {"valid", "proposal"}
    PROVE  Judge(su, d, k, later) = Judge(st, d, k, newest)
<1> DEFINE r == InForce(st, d)
           need == RequiredScopes(st, d)
           more == RequiredScopes(su, d)
           granted == r.keys[k].scopes
<1>1. Listed(r, k) /\ ~IsRetired(r, k)
  BY Judged
<1>2. Judge(st, d, k, newest) = VerdictOn(need, granted)
  BY <1>1, Judged, JudgedAs
<1>3. CompromisePosition(InForce(su, d), k, later) = 0
  BY <1>1 DEF CompromisePosition
<1>4. Judge(su, d, k, later) = VerdictOn(more, granted)
  BY <1>1, <1>3, JudgedAs
<1>5. ReadableDiff(st, d) => ReadableDiff(su, d)
  BY DEF ReadableDiff, Gains
<1>6. /\ need.scopes \subseteq more.scopes /\ more.possible \subseteq need.possible
      /\ more.scopes \subseteq more.possible
  BY <1>5, PossibleScopes
<1>7. VerdictOn(need, granted) \in {"valid", "proposal"}
  BY <1>2
<1> HIDE DEF need, more, granted
<1>8. VerdictOn(more, granted) = VerdictOn(need, granted)
  BY <1>6, <1>7 DEF VerdictOn
<1> QED
  BY <1>2, <1>4, <1>8

\* Lemma: authorization stands with more history and more signatures, where no mark says otherwise.
LEMMA StaysAuthorized ==
    ASSUME Inv, NEW st, NEW su, Gains(st, su), NEW d \in DOMAIN docs, Walk(Everything, d) \subseteq st.held,
           NEW newest, NEW later, State(st, d, newest) = "authorized",
           \A k : Listed(InForce(st, d), k) => InForce(st, d).keys[k].compromised = 0,
           \A k : Listed(later, k) => later.keys[k].compromised = 0
    PROVE  State(su, d, later) = "authorized"
<1> DEFINE W == Walk(Everything, d)
<1>1. ForSnapshot(st, d) # {} /\ Findings(st, d, newest) = {}
  BY DEF State
<1>2. /\ PinFindings(st, d) = {} /\ SinceFindings(st, d) = {} /\ AncestryFindings(st, d) = {}
      /\ GovernanceFindings(st, d) = {} /\ PolicyFindings(st, d, newest) = {}
  BY <1>1 DEF Findings
<1>3. /\ Walk(st, d) = W /\ Walk(su, d) = W /\ d \in W /\ W \subseteq DOMAIN docs
      /\ \A x \in W : /\ ~Truncated(st, x) /\ ~Truncated(su, x)
                      /\ InForce(su, x) = InForce(st, x) /\ (IsRevision(su, x) <=> IsRevision(st, x))
  BY SameLine
<1> HIDE DEF W
<1>4. ForSnapshot(st, d) \subseteq ForSnapshot(su, d) /\ ForSnapshot(su, d) # {}
  BY <1>1, VerifyingGrows DEF Gains
<1>5. PinFindings(su, d) = {}
  <2>1. GenesisOf(su, d) = GenesisOf(st, d)
    BY <1>3 DEF GenesisOf, Oldest
  <2>2. Anchored(su, d) <=> Anchored(st, d)
    BY <2>1, <1>3 DEF Anchored, Gains
  <2> QED
    BY <2>1, <2>2, <1>2 DEF PinFindings, Gains
<1>6. SinceFindings(su, d) = {}
  <2>1. ObservedRoots(su, d) = ObservedRoots(st, d)
    BY <1>3 DEF ObservedRoots
  <2>2. SinceFindings(su, d) = SinceFindings(st, d)
    BY <2>1, <1>3 DEF SinceFindings
  <2> QED
    BY <2>2, <1>2
<1>7. ASSUME NEW x \in W, Approves(st, x, ForSnapshot(st, x))
      PROVE  Approves(su, x, ForSnapshot(su, x))
  <2>1. x \in DOMAIN docs /\ FirstParent(x) \in {0} \cup DOMAIN docs
    <3>1. x \in DOMAIN docs /\ Lines(docs)
      BY <1>3, InvFacts
    <3>2. First(docs, x) \in 0 .. (x - 1) /\ 1 .. x \subseteq DOMAIN docs /\ x \in Nat
      BY <3>1, Parents
    <3> QED
      BY <3>1, <3>2, InDocs
  <2>2. \A y \in DOMAIN docs : docs[y].root.quorum \in Nat
    BY InvFacts DEF DocsOK, DocOK, IsRoot
  <2>3. InForce(st, x).quorum \in Nat
    BY <2>1, <2>2, <1>3 DEF InForce
  <2> QED
    BY <2>1, <2>3, <1>3, <1>7, ApprovesStill
<1>8. AncestryFindings(su, d) = {}
  <2>1. ASSUME NEW x \in W \ {d}, IsRevision(su, x)
        PROVE  Approves(su, x, ForSnapshot(su, x))
    <3>1. "quorum_failure" \notin AncestryFindings(st, d)
      BY <1>2
    <3>2. Approves(st, x, ForSnapshot(st, x))
      BY <3>1, <2>1, <1>3 DEF AncestryFindings
    <3> QED
      BY <3>2, <1>7
  <2> QED
    BY <2>1, <1>3 DEF AncestryFindings
<1>9. GovernanceFindings(su, d) = {}
  <2>1. CASE ~IsRevision(su, d)
    BY <2>1 DEF GovernanceFindings
  <2>2. CASE IsRevision(su, d)
    <3>1. IsRevision(st, d) /\ InForce(su, d) = InForce(st, d)
      BY <2>2, <1>3
    <3>2. Approves(st, d, ForSnapshot(st, d))
      <4>1. "quorum_failure" \notin GovernanceFindings(st, d)
        BY <1>2
      <4> QED
        BY <4>1, <3>1 DEF GovernanceFindings
    <3>3. Approves(su, d, ForSnapshot(su, d))
      BY <3>2, <1>3, <1>7
    <3>4. GovernanceFindings(su, d) \subseteq GovernanceFindings(st, d)
      BY <2>2, <3>1, <3>3 DEF GovernanceFindings
    <3> QED
      BY <3>4, <1>2
  <2> QED
    BY <2>1, <2>2
<1>10. PolicyFindings(su, d, later) = {}
  <2> DEFINE valid == KeysJudged(st, d, newest, "valid")
             props == KeysJudged(st, d, newest, "proposal")
             valid2 == KeysJudged(su, d, later, "valid")
             props2 == KeysJudged(su, d, later, "proposal")
  <2>1. Verifying(ForSnapshot(st, d)) \subseteq Verifying(ForSnapshot(su, d))
    BY VerifyingGrows DEF Gains
  <2>2. ASSUME NEW k, Judge(st, d, k, newest) \in {"valid", "proposal"}
        PROVE  Judge(su, d, k, later) = Judge(st, d, k, newest)
    BY <2>2, <1>3, JudgedStill
  <2>3. valid \subseteq valid2 /\ props \subseteq props2
    BY <2>1, <2>2 DEF KeysJudged
  <2>4. valid2 \cup props2 \subseteq Verifying(ForSnapshot(su, d)) /\ valid2 \subseteq valid2 \cup props2
    BY DEF KeysJudged
  <2>5. IF Cardinality(valid) >= Needed THEN TRUE
        ELSE props # {} /\ AllowPropose /\ Cardinality(valid \cup props) >= Needed
    BY <1>2 DEF PolicyFindings
  <2>6. PolicyFindings(su, d, later) =
          IF Cardinality(valid2) >= Needed THEN {}
          ELSE IF props2 # {} /\ valid2 = {} /\ ~AllowPropose THEN {"proposed_head"}
          ELSE IF props2 # {} /\ AllowPropose /\ Cardinality(valid2 \cup props2) >= Needed THEN {}
          ELSE {"signatures_below_policy"}
    BY DEF PolicyFindings
  <2> HIDE DEF valid, props, valid2, props2
  <2>7. su.index \subseteq Records /\ Needed \in Nat
    BY PolicyAssumption DEF Gains
  <2>8. IsFiniteSet(valid2) /\ IsFiniteSet(valid2 \cup props2)
        /\ Cardinality(valid2) \in Nat /\ Cardinality(valid2 \cup props2) \in Nat
    <3>1. IsFiniteSet(valid2 \cup props2) /\ Cardinality(valid2 \cup props2) \in Nat
      BY <2>4, <2>7, KeysFinite
    <3>2. IsFiniteSet(valid2)
      BY <3>1, <2>4, FS_Subset
    <3> QED
      BY <3>1, <3>2, FS_CardinalityType
  <2>9. Cardinality(valid) \in Nat /\ Cardinality(valid) <= Cardinality(valid2)
    BY <2>3, <2>8, FS_Subset, FS_CardinalityType
  <2>10. valid \cup props \subseteq valid2 \cup props2
    BY <2>3
  <2>11. Cardinality(valid \cup props) \in Nat /\ Cardinality(valid \cup props) <= Cardinality(valid2 \cup props2)
    BY <2>8, <2>10, FS_Subset, FS_CardinalityType
  <2>12. CASE Cardinality(valid) >= Needed
    BY <2>6, <2>7, <2>8, <2>9, <2>12
  <2>13. CASE props # {} /\ AllowPropose /\ Cardinality(valid \cup props) >= Needed
    <3>1. Cardinality(valid2 \cup props2) >= Needed
      BY <2>7, <2>8, <2>11, <2>13
    <3> QED
      BY <3>1, <2>3, <2>6, <2>13
  <2> QED
    BY <2>5, <2>12, <2>13
<1>11. Findings(su, d, later) = {}
  BY <1>4, <1>5, <1>6, <1>8, <1>9, <1>10 DEF Findings
<1> QED
  BY <1>4, <1>11 DEF State

-----------------------------------------------------------------------------
(* The same report, read among the documents there are after a step.       *)

\* Lemma: positions.
LEMMA LaterPositions ==
    ASSUME Extends(docs, docs'), NEW su, su = Store', NEW x \in DOMAIN docs
    PROVE  /\ FirstParent(x)' = FirstParent(x) /\ docs'[x] = docs[x]
           /\ FirstParent(x) # 0 => FirstParent(x) \in DOMAIN docs /\ docs'[FirstParent(x)] = docs[FirstParent(x)]
           /\ Walk(Store, x)' = Walk(su, x) /\ Walk(su, x) \subseteq DOMAIN docs
           /\ Reach(Store, x)' = Reach(su, x)
           /\ (Truncated(Store, x)' <=> Truncated(su, x)) /\ InForce(Store, x)' = InForce(su, x)
           /\ (IsRevision(Store, x)' <=> IsRevision(su, x))
           /\ \A t : DescendsFrom(Store, x, t)' = DescendsFrom(su, x, t)
<1>1. Lines(docs) /\ docs'[x] = docs[x] /\ First(docs', x) = First(docs, x)
  BY SameBehind DEF Extends
<1>2. First(docs, x) \in 0 .. (x - 1) /\ 1 .. x \subseteq DOMAIN docs /\ x \in Nat
  BY <1>1, Parents
<1>3. First(docs, x) # 0 => First(docs, x) \in DOMAIN docs
  BY <1>2
<1>4. FirstParent(x)' = FirstParent(x)
  BY <1>1 DEF FirstParent
<1>5. FirstParent(x) # 0 => FirstParent(x) \in DOMAIN docs /\ docs'[FirstParent(x)] = docs[FirstParent(x)]
  BY <1>3, InDocs DEF Extends
<1>6. su.held = held' /\ su.whole = whole' /\ su.index = index' /\ su.pin = pin'
  BY DEF Store
<1>7. Walk(Store, x)' = WalkIn(docs', held', x)
  BY DEF Walk, WalkIn, FirstParent, First, Store
<1>8. Reach(Store, x)' = ReachIn(docs', held', x)
  BY DEF Reach, ReachIn, Par, Store
<1>9. Walk(Store, x)' = Walk(su, x) /\ Reach(Store, x)' = Reach(su, x)
  BY <1>6, <1>7, <1>8, InDocs, WalkKept, ReachKept
<1>10. Walk(su, x) \subseteq DOMAIN docs
  BY <1>1, <1>2, InDocs, WalkFacts DEF Line
<1>11. Truncated(Store, x)' <=> Truncated(su, x)
  BY <1>4, <1>6 DEF Truncated, Store
<1>12. InForce(Store, x)' = InForce(su, x)
  BY <1>1, <1>4, <1>5, <1>11 DEF InForce
<1>13. IsRevision(Store, x)' <=> IsRevision(su, x)
  BY <1>1, <1>4, <1>5, <1>11 DEF IsRevision
<1>14. ASSUME NEW t PROVE DescendsFrom(Store, x, t)' = DescendsFrom(su, x, t)
  BY <1>6, <1>9 DEF DescendsFrom, Store
<1> QED
  BY <1>1, <1>4, <1>5, <1>9, <1>10, <1>11, <1>12, <1>13, <1>14

\* Lemma: verdicts and quorums.
LEMMA LaterVerdicts ==
    ASSUME Extends(docs, docs'), NEW su, su = Store', NEW x \in DOMAIN docs
    PROVE  /\ ForSnapshot(Store, x)' = ForSnapshot(su, x)
           /\ (Approves(Store, x, ForSnapshot(Store, x))' <=> Approves(su, x, ForSnapshot(su, x)))
           /\ \A newest, outcome :
                KeysJudged(Store, x, newest, outcome)' = KeysJudged(su, x, newest, outcome)
<1>1. /\ FirstParent(x)' = FirstParent(x) /\ docs'[x] = docs[x]
      /\ FirstParent(x) # 0 => FirstParent(x) \in DOMAIN docs /\ docs'[FirstParent(x)] = docs[FirstParent(x)]
      /\ (Truncated(Store, x)' <=> Truncated(su, x)) /\ InForce(Store, x)' = InForce(su, x)
      /\ \A t : DescendsFrom(Store, x, t)' = DescendsFrom(su, x, t)
  BY LaterPositions
<1>2. su.held = held' /\ su.whole = whole' /\ su.index = index' /\ su.pin = pin'
  BY DEF Store
<1>3. ForSnapshot(Store, x)' = ForSnapshot(su, x)
  BY <1>2 DEF ForSnapshot, Store
<1>4. ReadableDiff(Store, x)' <=> ReadableDiff(su, x)
  BY <1>1, <1>2 DEF ReadableDiff, Store
<1>5. ModulesBefore(x)' = ModulesBefore(x)
  BY <1>1 DEF ModulesBefore
<1>6. OpenScopes(Store, x)' = OpenScopes(su, x)
  BY <1>1, <1>4, <1>5 DEF OpenScopes
<1>7. RequiredScopes(Store, x)' = RequiredScopes(su, x)
  <2> DEFINE turn == docs[x].root # (IF FirstParent(x) = 0 THEN NoRoot ELSE docs[FirstParent(x)].root)
             turn2 == docs'[x].root # (IF FirstParent(x)' = 0 THEN NoRoot ELSE docs'[FirstParent(x)'].root)
  <2>1. turn <=> turn2
    BY <1>1
  <2>2. docs'[x].modules = docs[x].modules
    BY <1>1
  <2> QED
    BY <2>1, <2>2, <1>1, <1>4, <1>5, <1>6 DEF RequiredScopes
<1>8. ASSUME NEW k, NEW newest PROVE Judge(Store, x, k, newest)' = Judge(su, x, k, newest)
  BY <1>1, <1>7 DEF Judge
<1>9. ASSUME NEW newest, NEW outcome
      PROVE  KeysJudged(Store, x, newest, outcome)' = KeysJudged(su, x, newest, outcome)
  BY <1>3, <1>8 DEF KeysJudged
<1>10. ASSUME NEW recs, NEW r PROVE QuorumCount(Store, x, recs, r)' = QuorumCount(su, x, recs, r)
  BY <1>1 DEF QuorumCount
<1>11. Approves(Store, x, ForSnapshot(Store, x))' <=> Approves(su, x, ForSnapshot(su, x))
  BY <1>1, <1>3, <1>10 DEF Approves
<1> QED
  BY <1>3, <1>9, <1>11

\* Lemma: and the report.
LEMMA LaterState ==
    ASSUME Extends(docs, docs'), NEW su, su = Store', NEW d \in DOMAIN docs, NEW newest
    PROVE  State(Store, d, newest)' = State(su, d, newest)
<1> DEFINE Same(x) ==
        /\ FirstParent(x)' = FirstParent(x) /\ docs'[x] = docs[x]
        /\ (Truncated(Store, x)' <=> Truncated(su, x)) /\ InForce(Store, x)' = InForce(su, x)
        /\ (IsRevision(Store, x)' <=> IsRevision(su, x))
        /\ (Approves(Store, x, ForSnapshot(Store, x))' <=> Approves(su, x, ForSnapshot(su, x)))
<1>1. \A x \in DOMAIN docs : Same(x)
  BY LaterPositions, LaterVerdicts
<1>2. Walk(Store, d)' = Walk(su, d) /\ Walk(su, d) \subseteq DOMAIN docs
  BY LaterPositions
<1>3. FirstParent(d) # 0 => docs'[FirstParent(d)] = docs[FirstParent(d)]
  BY LaterPositions
<1>4. su.held = held' /\ su.whole = whole' /\ su.index = index' /\ su.pin = pin'
  BY DEF Store
<1>5. GenesisOf(Store, d)' = GenesisOf(su, d)
  <2>1. Oldest(Store, d)' = Oldest(su, d)
    BY <1>2 DEF Oldest
  <2>2. Oldest(su, d) \in DOMAIN docs
    <3>1. Lines(docs) /\ d \in Walk(su, d)
      BY InDocs, WalkFacts DEF Extends, Line
    <3>2. Walk(su, d) \in SUBSET Nat /\ Walk(su, d) # {}
      BY <3>1, <1>2 DEF Lines
    <3>3. \E x \in Walk(su, d) : \A y \in Walk(su, d) : x <= y
      BY <3>2, LeastOf
    <3> QED
      BY <3>3, <1>2 DEF Oldest
  <2> QED
    BY <2>1, <2>2, <1>1 DEF GenesisOf
<1>6. Anchored(Store, d)' <=> Anchored(su, d)
  BY <1>1, <1>2, <1>4, <1>5 DEF Anchored, Store
<1>7. PinFindings(Store, d)' = PinFindings(su, d)
  BY <1>4, <1>5, <1>6 DEF PinFindings, Store
<1>8. SinceFindings(Store, d)' = SinceFindings(su, d)
  <2>1. ObservedRoots(Store, d)' = ObservedRoots(su, d)
    BY <1>1, <1>2 DEF ObservedRoots
  <2> QED
    BY <2>1, <1>1 DEF SinceFindings
<1>9. AncestryFindings(Store, d)' = AncestryFindings(su, d)
  BY <1>1, <1>2, <1>6 DEF AncestryFindings
<1>10. GovernanceFindings(Store, d)' = GovernanceFindings(su, d)
  BY <1>1, <1>3 DEF GovernanceFindings, IsRevision
<1>11. PolicyFindings(Store, d, newest)' = PolicyFindings(su, d, newest)
  BY LaterVerdicts DEF PolicyFindings
<1>12. ForSnapshot(Store, d)' = ForSnapshot(su, d)
  BY LaterVerdicts
<1>13. Findings(Store, d, newest)' = Findings(su, d, newest)
  BY <1>7, <1>8, <1>9, <1>10, <1>11, <1>12 DEF Findings
<1> QED
  BY <1>12, <1>13 DEF State

\* Lemma: a step that drops no document drops no composition and no record.
LEMMA NothingLost ==
    ASSUME Inv, [Next]_vars, held \subseteq held'
    PROVE  whole \subseteq whole' /\ index \subseteq index'
<1>1. ASSUME NEW edit, Commit(edit) PROVE whole \subseteq whole' /\ index \subseteq index'
  BY <1>1 DEF Commit, Advance
<1>2. ASSUME NEW d, Merge(d) PROVE whole \subseteq whole' /\ index \subseteq index'
  BY <1>2 DEF Merge, Advance
<1>3. ASSUME NEW p, NEW edit, NEW root, NEW recs, Elsewhere(p, edit, root, recs)
      PROVE  whole \subseteq whole' /\ index \subseteq index'
  BY <1>3 DEF Elsewhere
<1>4. ASSUME NEW k, NEW d, NEW f, Sign(k, d, f) PROVE whole \subseteq whole' /\ index \subseteq index'
  BY <1>4 DEF Sign, StoreRecord
<1>5. ASSUME NEW root, PlanRotate(root) PROVE whole \subseteq whole' /\ index \subseteq index'
  BY <1>5 DEF PlanRotate
<1>6. ASSUME NEW k, NEW d, Countersign(k, d) PROVE whole \subseteq whole' /\ index \subseteq index'
  BY <1>6 DEF Countersign, StoreRecord
<1>7. CASE RotatePlanned
  BY <1>7 DEF RotatePlanned, Advance
<1>8. ASSUME NEW root, NEW s, Rotate(root, s) PROVE whole \subseteq whole' /\ index \subseteq index'
  BY <1>8 DEF Rotate, Advance, StoreRecord
<1>9. ASSUME NEW root, Pin(root) PROVE whole \subseteq whole' /\ index \subseteq index'
  BY <1>9 DEF Pin
<1>10. ASSUME NEW d, NEW n, NEW listed, Pull(d, n, listed) PROVE whole \subseteq whole' /\ index \subseteq index'
  <2> DEFINE st == Fetched(d, n, listed)
  <2>1. whole' = st.whole /\ index' = st.index
    BY <1>10 DEF Pull, Land
  <2>2. whole \subseteq st.whole /\ index \subseteq st.index
    BY DEF Fetched, Store
  <2> QED
    BY <2>1, <2>2
<1>11. ASSUME NEW n, Prune(n) PROVE FALSE
  BY <1>11 DEF Prune
<1>12. CASE UNCHANGED vars
  BY <1>12 DEF vars
<1>13. ASSUME NEW d, NEW n, NEW listed, PinGate(d, n, listed) PROVE whole \subseteq whole' /\ index \subseteq index'
  <2>1. whole' = whole /\ index' = Fetched(d, n, listed).index
    BY <1>13, FetchedParts DEF PinGate, Land
  <2>2. index \subseteq Fetched(d, n, listed).index
    BY DEF Fetched, Store
  <2> QED
    BY <2>1, <2>2
<1>14. CASE Call
  BY <1>14, <1>1, <1>2, <1>4, <1>5, <1>6, <1>7, <1>8, <1>9, <1>11 DEF Call
<1> QED
  BY <1>3, <1>10, <1>12, <1>13, <1>14 DEF Next

\* Theorem: an authorized snapshot whose history is held stays authorized through every commit,
\* merge, admission, retirement, signature and pull, as long as the pin stands, nothing is pruned
\* and neither the root in force there nor the newest one marks a key.
THEOREM AuthorizationStays == Spec => AuthorizationKept
<1>1. ASSUME Inv, [Next]_vars, pin' = pin, held \subseteq held', NEW d \in held,
             Authorized(Store, d), Walk(Everything, d) \subseteq held,
             \A r \in {InForce(Store, d), docs'[head'].root} :
                 \A k \in DOMAIN r.keys : r.keys[k].compromised = 0
      PROVE  Authorized(Store, d)'
  <2> DEFINE st == Store
             su == Store'
             newest == docs[head].root
             later == docs'[head'].root
  <2>1. Inv' /\ Extends(docs, docs')
    BY <1>1, InvNext
  <2>2. d \in DOMAIN docs
    BY <1>1, InvFacts
  <2>3. Gains(st, su)
    <3>1. whole \subseteq whole' /\ index \subseteq index'
      BY <1>1, NothingLost
    <3>2. index' \subseteq Records
      <4>1. index' \subseteq signed' /\ DocsOK(docs')
        BY <2>1 DEF Inv, StoreOK, Store
      <4>2. DOMAIN docs' \subseteq Nat
        BY <4>1, DocsLines
      <4> QED
        BY <2>1, <4>1, <4>2 DEF Inv, Records
    <3> QED
      BY <1>1, <3>1, <3>2 DEF Gains, Store
  <2>4. /\ \A k : Listed(InForce(st, d), k) => InForce(st, d).keys[k].compromised = 0
        /\ \A k : Listed(later, k) => later.keys[k].compromised = 0
    BY <1>1 DEF Listed
  <2>5. State(st, d, newest) = "authorized" /\ Walk(Everything, d) \subseteq st.held
    BY <1>1 DEF Authorized, Store
  <2>6. Authorized(Store, d)' <=> State(su, d, later) = "authorized"
    <3>1. PICK u, l : u = Store' /\ l = docs'[head'].root
      OBVIOUS
    <3>2. State(Store, d, l)' = State(u, d, l)
      BY <2>1, <2>2, <3>1, LaterState
    <3>3. Authorized(Store, d)' <=> State(Store, d, l)' = "authorized"
      BY <3>1 DEF Authorized
    <3> QED
      BY <3>1, <3>2, <3>3
  <2> HIDE DEF st, su, newest
  <2>7. State(su, d, later) = "authorized"
    BY <1>1, <2>2, <2>3, <2>4, <2>5, StaysAuthorized
  <2> QED
    BY <2>6, <2>7
<1>2. Inv /\ [Next]_vars =>
        [pin' = pin /\ held \subseteq held' =>
           \A d \in held :
             /\ Authorized(Store, d) /\ Walk(Everything, d) \subseteq held
             /\ \A r \in {InForce(Store, d), docs'[head'].root} :
                   \A k \in DOMAIN r.keys : r.keys[k].compromised = 0
             => Authorized(Store, d)']_<<held, whole, index, head>>
  BY <1>1
<1> QED
  BY <1>2, Invariant, PTL DEF Spec, AuthorizationKept

=============================================================================
