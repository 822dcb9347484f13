--------------------------- MODULE CatalogProofs ---------------------------
(***************************************************************************)
(* Proofs about Catalog: that the catalog rebuilt from a brain's blocks    *)
(* makes sense, for any classes, schemes, sources and requests.            *)
(***************************************************************************)
EXTENDS Catalog, FiniteSetTheorems, SequenceTheorems, WellFoundedInduction, TLAPS

-----------------------------------------------------------------------------
(* Blocks.                                                                 *)

\* Lemma: what the four kinds of block state.
LEMMA Made ==
    /\ \A s, e : Kind(Scheme(s, e)) = "scheme" /\ Scheme(s, e)[2] = s /\ Scheme(s, e)[3] = e
    /\ \A c : Kind(Class(c)) = "class" /\ Class(c)[2] = c
    /\ \A p, c : Kind(Hierarchy(p, c)) = "hierarchy" /\ Hierarchy(p, c)[2] = p /\ Hierarchy(p, c)[3] = c
    /\ \A s, c : Kind(Placement(s, c)) = "placement" /\ Placement(s, c)[2] = s /\ Placement(s, c)[3] = c
BY DEF Kind, Scheme, Class, Hierarchy, Placement

\* Lemma: and that there are no other blocks.
LEMMA Shapes ==
    ASSUME NEW d \in Blocks
    PROVE  /\ Kind(d) \in {"scheme", "class", "hierarchy", "placement"}
           /\ Kind(d) = "scheme" => d[2] \in Schemes /\ d[3] \in BOOLEAN /\ d = Scheme(d[2], d[3])
           /\ Kind(d) = "class" => d[2] \in Classes /\ d = Class(d[2])
           /\ Kind(d) = "hierarchy" => d[2] \in Classes /\ d[3] \in Classes /\ d = Hierarchy(d[2], d[3])
           /\ Kind(d) = "placement" => d[2] \in Sources /\ d[3] \in Classes /\ d = Placement(d[2], d[3])
<1>1. CASE d \in {Scheme(s, e) : s \in Schemes, e \in BOOLEAN}
  <2>1. PICK s \in Schemes, e \in BOOLEAN : d = Scheme(s, e)
    BY <1>1
  <2> QED
    BY <2>1, Made
<1>2. CASE d \in {Class(c) : c \in Classes}
  <2>1. PICK c \in Classes : d = Class(c)
    BY <1>2
  <2> QED
    BY <2>1, Made
<1>3. CASE d \in {Hierarchy(p, c) : p, c \in Classes}
  <2>1. PICK p \in Classes, c \in Classes : d = Hierarchy(p, c)
    BY <1>3
  <2> QED
    BY <2>1, Made
<1>4. CASE d \in {Placement(s, c) : s \in Sources, c \in Classes}
  <2>1. PICK s \in Sources, c \in Classes : d = Placement(s, c)
    BY <1>4
  <2> QED
    BY <2>1, Made
<1> QED
  BY <1>1, <1>2, <1>3, <1>4 DEF Blocks

\* Lemma: what a block names.
LEMMA Named ==
    /\ \A s, e : Ends(Scheme(s, e)) = {}
    /\ \A c : Ends(Class(c)) = {}
    /\ \A p, c : Ends(Hierarchy(p, c)) = {p, c}
    /\ \A s, c : Ends(Placement(s, c)) = {c}
    /\ \A d : Ends(d) # {} => Kind(d) \in {"hierarchy", "placement"}
BY Made DEF Ends

\* Lemma: blocks that are the same state the same.
LEMMA Same ==
    /\ \A s, e, t, f : Scheme(s, e) = Scheme(t, f) => s = t /\ e = f
    /\ \A c, k : Class(c) = Class(k) => c = k
    /\ \A p, c, q, k : Hierarchy(p, c) = Hierarchy(q, k) => p = q /\ c = k
    /\ \A s, c, t, k : Placement(s, c) = Placement(t, k) => s = t /\ c = k
BY DEF Scheme, Class, Hierarchy, Placement

-----------------------------------------------------------------------------
(* Catalogs that make sense.                                               *)

\* A set of classes that no edge leaves.
Closed(S, C) == \A x \in C, y \in Classes : Hierarchy(x, y) \in S => y \in C

\* No class is below itself: below the end of an edge there is a set without its start.
Acyclic(S) ==
    \A x, y \in Classes : Hierarchy(x, y) \in S =>
        \E C \in SUBSET Classes : y \in C /\ x \notin C /\ Closed(S, C)

Exclusive(S) ==
    \A s \in Sources, c, r \in Classes :
        /\ Placement(s, c) \in S /\ Placement(s, r) \in S /\ SchemeOf[c] = SchemeOf[r]
        /\ Scheme(SchemeOf[c], TRUE) \in S
        => c = r

\* Edges have their ends, classes their scheme, and a scheme is exclusive or not.
Framed(S) ==
    /\ S \subseteq Blocks
    /\ \A d \in S : \A c \in Ends(d) : Class(c) \in S
    /\ \A c \in Classes : Class(c) \in S => \E e \in BOOLEAN : Scheme(SchemeOf[c], e) \in S
    /\ \A s : ~ (Scheme(s, TRUE) \in S /\ Scheme(s, FALSE) \in S)

\* The catalog seen of the blocks S where H is hidden.
Load(S, H) == {d \in S \ H : \A c \in Ends(d) : Class(c) \in S \ H}

\* Blocks that are in order, where no scheme is hidden.
Stands(S, H) == Framed(S) /\ (\A d \in H : Kind(d) # "scheme") /\ Exclusive(Load(S, H))

\* Lemma: part of what is exclusive is.
LEMMA ExclusivePart ==
    ASSUME NEW S, NEW T, T \subseteq S, Exclusive(S)
    PROVE  Exclusive(T)
BY DEF Exclusive

\* Lemma: an edge that closes no cycle.
LEMMA AddEdge ==
    ASSUME NEW S, Acyclic(S), NEW p \in Classes, NEW n \in Classes,
           NEW D \in SUBSET Classes, n \in D, p \notin D, Closed(S, D)
    PROVE  Acyclic(S \cup {Hierarchy(p, n)})
<1> DEFINE T == S \cup {Hierarchy(p, n)}
<1> SUFFICES ASSUME NEW x \in Classes, NEW y \in Classes, Hierarchy(x, y) \in T
             PROVE  \E C \in SUBSET Classes : y \in C /\ x \notin C /\ Closed(T, C)
  BY DEF Acyclic
<1>1. ASSUME NEW C \in SUBSET Classes, Closed(S, C), p \in C => n \in C
      PROVE  Closed(T, C)
  BY <1>1, Same DEF Closed
<1>2. CASE Hierarchy(x, y) \notin S
  <2>1. x = p /\ y = n
    BY <1>2, Same
  <2> QED
    BY <2>1, <1>1
<1>3. CASE Hierarchy(x, y) \in S
  <2>1. PICK C \in SUBSET Classes : y \in C /\ x \notin C /\ Closed(S, C)
    BY <1>3 DEF Acyclic
  <2>2. CASE p \notin C
    BY <2>1, <2>2, <1>1
  <2>3. CASE x \in D
    <3>1. y \in D
      BY <2>3, <1>3 DEF Closed
    <3>2. Closed(S, C \cap D)
      BY <2>1 DEF Closed
    <3>3. Closed(T, C \cap D)
      BY <3>2, <1>1
    <3> QED
      BY <2>1, <3>1, <3>3
  <2>4. CASE p \in C /\ x \notin D
    <3>1. Closed(S, C \cup D)
      BY <2>1 DEF Closed
    <3>2. Closed(T, C \cup D)
      BY <3>1, <1>1
    <3> QED
      BY <2>1, <2>4, <3>2
  <2> QED
    BY <2>2, <2>3, <2>4
<1> QED
  BY <1>2, <1>3

\* Lemma: in a catalog without cycles every class has a depth.
LEMMA DepthsExist ==
    ASSUME NEW S, Acyclic(S)
    PROVE  \E depth \in [Classes -> 1 .. Cardinality(Classes)] :
             \A c, n \in Classes : Hierarchy(c, n) \in S => depth[c] < depth[n]
<1> DEFINE Above(c) == {a \in Classes : \A C \in SUBSET Classes : a \in C /\ Closed(S, C) => c \in C}
           depth == [c \in Classes |-> Cardinality(Above(c))]
<1>1. ASSUME NEW c \in Classes
      PROVE  /\ c \in Above(c) /\ Above(c) \subseteq Classes
             /\ IsFiniteSet(Above(c)) /\ Cardinality(Above(c)) \in 1 .. Cardinality(Classes)
  <2>1. c \in Above(c) /\ Above(c) \in SUBSET Classes
    OBVIOUS
  <2> HIDE DEF Above
  <2>2. IsFiniteSet(Above(c)) /\ Cardinality(Above(c)) <= Cardinality(Classes)
    BY <2>1, ClassesAssumption, FS_Subset
  <2>3. Cardinality(Above(c)) \in Nat /\ Cardinality(Classes) \in Nat
    BY <2>2, ClassesAssumption, FS_CardinalityType
  <2>4. Cardinality(Above(c)) # 0
    BY <2>1, <2>2, FS_EmptySet
  <2> QED
    BY <2>1, <2>2, <2>3, <2>4
<1>2. ASSUME NEW c \in Classes, NEW n \in Classes, Hierarchy(c, n) \in S
      PROVE  Cardinality(Above(c)) < Cardinality(Above(n))
  <2>1. \A C : c \in C /\ Closed(S, C) => n \in C
    BY <1>2 DEF Closed
  <2>2. Above(c) \subseteq Above(n)
    BY <2>1
  <2>3. PICK C \in SUBSET Classes : n \in C /\ c \notin C /\ Closed(S, C)
    BY <1>2 DEF Acyclic
  <2>4. n \notin Above(c)
    BY <2>3
  <2> HIDE DEF Above
  <2>5. /\ n \in Above(n) /\ IsFiniteSet(Above(n))
        /\ Cardinality(Above(n)) \in Nat /\ Cardinality(Above(c)) \in Nat
    BY <1>1
  <2>6. Cardinality(Above(c)) <= Cardinality(Above(n)) /\ Cardinality(Above(n)) # Cardinality(Above(c))
    BY <2>2, <2>4, <2>5, FS_Subset
  <2> QED
    BY <2>5, <2>6
<1> HIDE DEF Above
<1>3. depth \in [Classes -> 1 .. Cardinality(Classes)]
  BY <1>1
<1>4. \A c, n \in Classes : Hierarchy(c, n) \in S => depth[c] < depth[n]
  BY <1>2
<1> QED
  BY <1>3, <1>4

-----------------------------------------------------------------------------
(* Iteration.                                                              *)

\* Lemma: a nonempty set of naturals has a least element.
LEMMA LeastOf ==
    ASSUME NEW T \in SUBSET Nat, T # {}
    PROVE  \E x \in T : \A y \in T : x <= y
<1> DEFINE R == {p \in Nat \X Nat : p[1] < p[2]}
<1>1. IsWellFoundedOn(R, Nat)
  BY NatLessThanWellFounded, Zenon DEF OpToRel
<1> HIDE DEF R
<1>2. PICK x \in T : \A y \in T : ~ (<<y, x>> \in R)
  BY <1>1, WFMin
<1>3. \A y \in T : ~ (y < x)
  BY <1>2 DEF R
<1> QED
  BY <1>3

\* What taking the steps s from a gives, up to the m-th.
Iterate(g, m, T, a, s) ==
    g \in [0 .. m -> T] /\ g[0] = a /\ \A n \in 1 .. m : g[n] = s[n][g[n - 1]]

\* Lemma: any steps can be taken.
LEMMA IterateExists ==
    ASSUME NEW N \in Nat, NEW T, NEW a \in T, NEW s \in [1 .. N -> [T -> T]]
    PROVE  \E g : Iterate(g, N, T, a, s)
<1> DEFINE Bad == {m \in 0 .. N : ~ \E g : Iterate(g, m, T, a, s)}
<1> SUFFICES ASSUME Bad # {} PROVE FALSE
  BY N \in 0 .. N
<1>1. PICK x \in Bad : \A y \in Bad : x <= y
  <2>1. Bad \in SUBSET Nat
    OBVIOUS
  <2> HIDE DEF Bad
  <2> QED
    BY <2>1, LeastOf
<1>2. x # 0
  <2>1. Iterate([n \in 0 .. 0 |-> a], 0, T, a, s)
    BY DEF Iterate
  <2> QED
    BY <2>1
<1>3. x - 1 \in 0 .. N /\ x - 1 \notin Bad /\ x \in 1 .. N
  BY <1>1, <1>2
<1>4. PICK g : Iterate(g, x - 1, T, a, s)
  BY <1>3
<1> DEFINE h == [n \in 0 .. x |-> IF n = x THEN s[x][g[x - 1]] ELSE g[n]]
<1>5. g \in [0 .. x - 1 -> T] /\ s[x] \in [T -> T]
  BY <1>3, <1>4 DEF Iterate
<1>6. s[x][g[x - 1]] \in T /\ h \in [0 .. x -> T]
  BY <1>3, <1>5
<1>7. Iterate(h, x, T, a, s)
  BY <1>3, <1>4, <1>5, <1>6 DEF Iterate
<1> QED
  BY <1>7

-----------------------------------------------------------------------------
(* Descendants.                                                            *)

Further(S, near) == near \cup UNION {Children(S, d) : d \in near}

\* The rounds of a descent from c.
Descent(f, S, c) ==
    /\ Descendants(S, c) = f[Cardinality(Classes)]
    /\ f[0] = {c}
    /\ \A n \in 1 .. Cardinality(Classes) : f[n] = Further(S, f[n - 1])

\* Lemma: there are such.
LEMMA DescentRounds ==
    ASSUME NEW S, S \subseteq Blocks, NEW c \in Classes, Cardinality(Classes) \in Nat
    PROVE  \E f : Descent(f, S, c)
<1> DEFINE N == Cardinality(Classes)
           T == SUBSET Classes
           s == [n \in 1 .. N |-> [near \in T |-> Further(S, near)]]
           Down[n \in 0 .. Cardinality(Classes)] ==
            IF n = 0 THEN {c}
            ELSE LET near == Down[n - 1] IN near \cup UNION {Children(S, d) : d \in near}
<1>1. Descendants(S, c) = Down[N]
  BY DEF Descendants
<1>2. PICK g : Iterate(g, N, T, {c}, s)
  <2>1. \A near \in T : Further(S, near) \in T
    <3>1. Known(S) \subseteq Classes
      BY Shapes DEF Known, OfKind
    <3> QED
      BY <3>1 DEF Further, Children
  <2>2. {c} \in T /\ s \in [1 .. N -> [T -> T]]
    BY <2>1
  <2> HIDE DEF N, T, s
  <2> QED
    BY <2>2, IterateExists DEF N
<1>3. /\ g \in [0 .. N -> T] /\ g[0] = {c}
      /\ \A n \in 1 .. N : g[n] = Further(S, g[n - 1])
  <2>1. \A n \in 1 .. N : n - 1 \in 0 .. N
    OBVIOUS
  <2>2. \A n \in 1 .. N : s[n][g[n - 1]] = Further(S, g[n - 1])
    BY <1>2, <2>1 DEF Iterate
  <2> QED
    BY <1>2, <2>2 DEF Iterate
<1> DEFINE F(r) == [n \in 0 .. Cardinality(Classes) |->
            IF n = 0 THEN {c}
            ELSE LET near == r[n - 1] IN near \cup UNION {Children(S, d) : d \in near}]
<1>4. Down = F(Down)
  <2>1. g = F(g)
    BY <1>3 DEF Further
  <2>2. Down = CHOOSE r : r = F(r)
    OBVIOUS
  <2> HIDE DEF Down, F
  <2> QED
    BY <2>1, <2>2
<1>5. Down[0] = {c} /\ \A n \in 1 .. N : Down[n] = Further(S, Down[n - 1])
  <2> HIDE DEF Down
  <2>1. F(Down)[0] = {c}
    OBVIOUS
  <2>2. \A n \in 1 .. N : F(Down)[n] = Further(S, Down[n - 1])
    BY DEF Further
  <2> HIDE DEF F
  <2> QED
    BY <1>4, <2>1, <2>2
<1> HIDE DEF Down
<1>6. Descent(Down, S, c)
  BY <1>1, <1>5 DEF Descent
<1> QED
  BY <1>6

\* Lemma: what is narrower than a class is all there.
LEMMA DescendantsClosed ==
    ASSUME NEW S, S \subseteq Blocks, NEW c \in Classes
    PROVE  /\ c \in Descendants(S, c) /\ Descendants(S, c) \in SUBSET Classes
           /\ \A d \in Descendants(S, c) : Children(S, d) \subseteq Descendants(S, c)
<1> DEFINE N == Cardinality(Classes)
           Full(D) == \A d \in D : Children(S, d) \subseteq D
<1>1. IsFiniteSet(Classes) /\ N \in Nat
  BY ClassesAssumption, FS_CardinalityType
<1>r. PICK f : Descent(f, S, c)
  BY <1>1, DescentRounds
<1>2. /\ Descendants(S, c) = f[N] /\ f[0] = {c}
      /\ \A n \in 1 .. N : f[n] = Further(S, f[n - 1])
  BY <1>r DEF Descent
<1>3. \A d : Children(S, d) \subseteq Classes
  BY Shapes DEF Children, Known, OfKind
<1> DEFINE P(n) == /\ c \in f[n] /\ f[n] \in SUBSET Classes
                   /\ Full(f[n]) \/ Cardinality(f[n]) > n
<1>4. P(0)
  <2>1. Cardinality({c}) = 1
    BY FS_Singleton
  <2> QED
    BY <1>2, <2>1
<1>5. ASSUME NEW n \in 1 .. N, P(n - 1)
      PROVE  P(n)
  <2> DEFINE D == f[n - 1]
             E == f[n]
  <2>1. E = D \cup UNION {Children(S, d) : d \in D}
    BY <1>2, <1>5 DEF Further
  <2>2. c \in D /\ D \in SUBSET Classes /\ (Full(D) \/ Cardinality(D) > n - 1)
    BY <1>5
  <2> HIDE DEF D, E
  <2>3. c \in E /\ D \subseteq E /\ E \in SUBSET Classes
    BY <2>1, <2>2, <1>3
  <2>4. CASE Full(D)
    <3>1. E = D
      BY <2>1, <2>4
    <3> QED
      BY <3>1, <2>3, <2>4 DEF E
  <2>5. CASE ~ Full(D)
    <3>1. E # D
      BY <2>1, <2>5
    <3>2. IsFiniteSet(E) /\ Cardinality(E) \in Nat
      BY <2>3, <1>1, FS_Subset, FS_CardinalityType
    <3>3. Cardinality(D) \in Nat /\ Cardinality(D) <= Cardinality(E) /\ Cardinality(E) # Cardinality(D)
      BY <2>3, <3>1, <3>2, FS_Subset, FS_CardinalityType
    <3>4. Cardinality(E) > n
      BY <2>2, <2>5, <3>2, <3>3
    <3> QED
      BY <3>4, <2>3 DEF E
  <2> QED
    BY <2>4, <2>5
<1>6. P(N)
  <2> DEFINE Bad == {n \in 0 .. N : ~ P(n)}
  <2> SUFFICES ASSUME Bad # {} PROVE FALSE
    BY <1>1
  <2>1. PICK x \in Bad : \A y \in Bad : x <= y
    <3>1. Bad \in SUBSET Nat
      OBVIOUS
    <3> HIDE DEF Bad
    <3> QED
      BY <3>1, LeastOf
  <2> HIDE DEF P
  <2>2. x # 0
    BY <1>4
  <2>3. x \in 1 .. N /\ x - 1 \in 0 .. N /\ x - 1 \notin Bad
    BY <2>1, <2>2, <1>1
  <2> QED
    BY <2>3, <1>5
<1>7. IsFiniteSet(f[N]) /\ Cardinality(f[N]) <= N /\ Cardinality(f[N]) \in Nat
  BY <1>1, <1>6, FS_Subset, FS_CardinalityType
<1>8. Full(f[N])
  BY <1>1, <1>6, <1>7
<1> QED
  BY <1>2, <1>6, <1>8

-----------------------------------------------------------------------------
(* What a verdict lets in.                                                 *)

\* Lemma: only edges make cycles.
LEMMA AcyclicStill ==
    ASSUME NEW S, Acyclic(S), NEW R, \A d \in R : Kind(d) # "hierarchy"
    PROVE  Acyclic(S \cup R)
<1>1. \A x, y : Hierarchy(x, y) \in S \cup R => Hierarchy(x, y) \in S
  BY Made
<1>2. \A C : Closed(S, C) => Closed(S \cup R, C)
  BY <1>1 DEF Closed
<1> QED
  BY <1>1, <1>2 DEF Acyclic

\* Lemma: the classes there are.
LEMMA KnownAre ==
    ASSUME NEW S, S \subseteq Blocks, NEW y
    PROVE  y \in Known(S) <=> Class(y) \in S
BY Made, Shapes DEF Known, OfKind

\* Lemma: a scheme of which nothing was known.
LEMMA AddScheme ==
    ASSUME NEW G, Framed(G), Exclusive(G), NEW d \in Blocks, Kind(d) = "scheme",
           \A e \in BOOLEAN : Scheme(d[2], e) \notin G
    PROVE  Framed(G \cup {d}) /\ Exclusive(G \cup {d})
<1> DEFINE T == G \cup {d}
<1>1. d = Scheme(d[2], d[3]) /\ d[3] \in BOOLEAN /\ Ends(d) = {}
  BY Shapes, Named
<1>2. Framed(T)
  <2>1. T \subseteq Blocks /\ \A x \in T : \A c \in Ends(x) : Class(c) \in T
    BY <1>1 DEF Framed
  <2>2. \A c \in Classes : Class(c) \in T => \E e \in BOOLEAN : Scheme(SchemeOf[c], e) \in T
    BY Made DEF Framed
  <2>3. ASSUME NEW s, Scheme(s, TRUE) \in T, Scheme(s, FALSE) \in T
        PROVE  FALSE
    <3>1. CASE s = d[2]
      <4>1. Scheme(s, TRUE) = d /\ Scheme(s, FALSE) = d
        BY <3>1, <2>3
      <4>2. Scheme(s, TRUE)[3] = TRUE /\ Scheme(s, FALSE)[3] = FALSE
        BY Made, Zenon
      <4> QED
        BY <4>1, <4>2
    <3>2. CASE s # d[2]
      <4>s. Scheme(s, TRUE)[2] = s /\ Scheme(s, FALSE)[2] = s
        BY Made, Zenon
      <4>d. Scheme(s, TRUE) # d /\ Scheme(s, FALSE) # d
        BY <3>2, <4>s, Zenon
      <4>1. Scheme(s, TRUE) \in G /\ Scheme(s, FALSE) \in G
        BY <2>3, <4>d
      <4> QED
        BY <4>1, Zenon DEF Framed
    <3> QED
      BY <3>1, <3>2
  <2> QED
    BY <2>1, <2>2, <2>3 DEF Framed
<1>3. Exclusive(T)
  <2> SUFFICES ASSUME NEW s \in Sources, NEW c \in Classes, NEW r \in Classes,
                      Placement(s, c) \in T, Placement(s, r) \in T, SchemeOf[c] = SchemeOf[r],
                      Scheme(SchemeOf[c], TRUE) \in T
               PROVE  c = r
    BY DEF Exclusive
  <2>1. Placement(s, c) \in G /\ Placement(s, r) \in G
    BY Made
  <2>2. Class(c) \in G
    BY <2>1, Named DEF Framed
  <2>3. \E e \in BOOLEAN : Scheme(SchemeOf[c], e) \in G
    BY <2>2 DEF Framed
  <2>4. SchemeOf[c] # d[2]
    BY <2>3
  <2>5. Scheme(SchemeOf[c], TRUE) \in G
    <3>1. Scheme(SchemeOf[c], TRUE)[2] = SchemeOf[c]
      BY Made
    <3> QED
      BY <2>4, <3>1
  <2> QED
    BY <2>1, <2>5 DEF Exclusive
<1> QED
  BY <1>2, <1>3

\* Lemma: a class of a scheme that is there.
LEMMA AddClass ==
    ASSUME NEW G, Framed(G), Exclusive(G), NEW d \in Blocks, Kind(d) = "class",
           \E e \in BOOLEAN : Scheme(SchemeOf[d[2]], e) \in G
    PROVE  Framed(G \cup {d}) /\ Exclusive(G \cup {d})
<1> DEFINE T == G \cup {d}
<1>1. d = Class(d[2]) /\ Ends(d) = {}
  BY Shapes, Named
<1>2. Framed(T)
  <2>1. T \subseteq Blocks /\ \A x \in T : \A c \in Ends(x) : Class(c) \in T
    BY <1>1 DEF Framed
  <2>2. \A c \in Classes : Class(c) \in T => \E e \in BOOLEAN : Scheme(SchemeOf[c], e) \in T
    BY <1>1, Same DEF Framed
  <2>3. \A s, e : Scheme(s, e) \in T => Scheme(s, e) \in G
    BY Made
  <2> QED
    BY <2>1, <2>2, <2>3 DEF Framed
<1>3. \A s, c : (Placement(s, c) \in T => Placement(s, c) \in G) /\ (Scheme(s, c) \in T => Scheme(s, c) \in G)
  BY Made
<1>4. Exclusive(T)
  BY <1>3 DEF Exclusive
<1> QED
  BY <1>2, <1>4

\* Lemma: an edge between two classes that are there.
LEMMA AddHierarchy ==
    ASSUME NEW G, Framed(G), Exclusive(G), NEW d \in Blocks, Kind(d) = "hierarchy",
           Class(d[2]) \in G, Class(d[3]) \in G
    PROVE  Framed(G \cup {d}) /\ Exclusive(G \cup {d})
<1> DEFINE T == G \cup {d}
<1>1. d = Hierarchy(d[2], d[3]) /\ Ends(d) = {d[2], d[3]} /\ d[2] \in Classes /\ d[3] \in Classes
  BY Shapes, Named
<1>3. \A s, c : /\ Placement(s, c) \in T => Placement(s, c) \in G
                /\ Scheme(s, c) \in T => Scheme(s, c) \in G
                /\ Class(c) \in T => Class(c) \in G
  BY Made
<1>2. Framed(T)
  <2>1. T \subseteq Blocks /\ \A x \in T : \A c \in Ends(x) : Class(c) \in T
    BY <1>1 DEF Framed
  <2> QED
    BY <2>1, <1>3 DEF Framed
<1>4. Exclusive(T)
  BY <1>3 DEF Exclusive
<1> QED
  BY <1>2, <1>4

\* Placements that an exclusive scheme has room for, beside each other too.
Fits(G, R) ==
    \A p \in R :
        /\ Class(p[3]) \in G
        /\ Scheme(SchemeOf[p[3]], TRUE) \in G =>
             \A c \in Classes : SchemeOf[c] = SchemeOf[p[3]] /\ Placement(p[2], c) \in G \cup R => c = p[3]

\* Lemma: placements that fit.
LEMMA AddPlacements ==
    ASSUME NEW G, Framed(G), Exclusive(G), NEW R, R \subseteq OfKind(Blocks, "placement"), Fits(G, R)
    PROVE  Framed(G \cup R) /\ Exclusive(G \cup R)
<1> DEFINE T == G \cup R
<1>1. \A p \in R : /\ p \in Blocks /\ Kind(p) = "placement" /\ p = Placement(p[2], p[3])
                   /\ p[2] \in Sources /\ p[3] \in Classes /\ Ends(p) = {p[3]}
  BY Shapes, Named DEF OfKind
<1>2. \A s, c : /\ Scheme(s, c) \in T => Scheme(s, c) \in G
                /\ Class(c) \in T => Class(c) \in G
  BY <1>1, Made
<1>3. Framed(T)
  <2>g. G \subseteq Blocks /\ \A x \in G : \A c \in Ends(x) : Class(c) \in G
    BY DEF Framed
  <2>r. \A x \in R : Ends(x) = {x[3]} /\ Class(x[3]) \in G
    BY <1>1 DEF Fits
  <2>1. T \subseteq Blocks /\ \A x \in T : \A c \in Ends(x) : Class(c) \in T
    BY <1>1, <2>g, <2>r
  <2> QED
    BY <2>1, <1>2 DEF Framed
<1>4. Exclusive(T)
  <2> SUFFICES ASSUME NEW s \in Sources, NEW c \in Classes, NEW r \in Classes,
                      Placement(s, c) \in T, Placement(s, r) \in T, SchemeOf[c] = SchemeOf[r],
                      Scheme(SchemeOf[c], TRUE) \in T
               PROVE  c = r
    BY DEF Exclusive
  <2>1. Scheme(SchemeOf[c], TRUE) \in G
    BY <1>2
  <2>2. CASE Placement(s, c) \in G /\ Placement(s, r) \in G
    BY <2>1, <2>2 DEF Exclusive
  <2>3. CASE Placement(s, c) \in R
    <3> DEFINE p == Placement(s, c)
    <3>1. p \in R /\ p[2] = s /\ p[3] = c
      BY <2>3, Made
    <3> HIDE DEF p
    <3>2. Scheme(SchemeOf[p[3]], TRUE) \in G /\ SchemeOf[r] = SchemeOf[p[3]] /\ Placement(p[2], r) \in G \cup R
      BY <3>1, <2>1
    <3>3. r = p[3]
      BY <3>1, <3>2 DEF Fits
    <3> QED
      BY <3>1, <3>3
  <2>4. CASE Placement(s, r) \in R
    <3> DEFINE p == Placement(s, r)
    <3>1. p \in R /\ p[2] = s /\ p[3] = r
      BY <2>4, Made
    <3> HIDE DEF p
    <3>2. Scheme(SchemeOf[p[3]], TRUE) \in G /\ SchemeOf[c] = SchemeOf[p[3]] /\ Placement(p[2], c) \in G \cup R
      BY <3>1, <2>1
    <3>3. c = p[3]
      BY <3>1, <3>2 DEF Fits
    <3> QED
      BY <3>1, <3>3
  <2> QED
    BY <2>2, <2>3, <2>4
<1> QED
  BY <1>1, <1>3, <1>4

\* Lemma: what a verdict asks.
LEMMA Verdicts ==
    ASSUME NEW seen, seen \subseteq Blocks, NEW held, NEW d \in Blocks, Verdict(seen, held, d) = "validated"
    PROVE  /\ Kind(d) = "scheme" => \A e \in BOOLEAN : Scheme(d[2], e) \notin seen
           /\ Kind(d) = "class" => \E e \in BOOLEAN : Scheme(SchemeOf[d[2]], e) \in seen
           /\ Kind(d) = "hierarchy" => /\ Class(d[2]) \in seen /\ Class(d[3]) \in seen
                                       /\ d[2] \notin Descendants(seen, d[3])
           /\ Kind(d) = "placement" => /\ Class(d[3]) \in seen /\ d[2] \in held
                                       /\ Scheme(SchemeOf[d[3]], TRUE) \in seen => Rivals(seen, d[2], d[3]) = {}
<1>1. CASE Kind(d) = "scheme"
  <2>1. SchemeVerdict(seen, d) = "validated"
    BY <1>1 DEF Verdict
  <2>2. OfKind(seen, "scheme") \cap {Scheme(d[2], e) : e \in BOOLEAN} = {}
    BY <2>1 DEF SchemeVerdict
  <2>3. \A e \in BOOLEAN : Scheme(d[2], e) \notin seen
    BY <2>2, Made DEF OfKind
  <2> QED
    BY <1>1, <2>3
<1>2. CASE Kind(d) = "class"
  <2>1. ClassVerdict(seen, d) = "validated"
    BY <1>2 DEF Verdict
  <2>2. {Scheme(SchemeOf[d[2]], e) : e \in BOOLEAN} \cap seen # {}
    BY <2>1 DEF ClassVerdict
  <2> QED
    BY <1>2, <2>2
<1>3. CASE Kind(d) = "hierarchy"
  <2>1. HierarchyVerdict(seen, d) = "validated"
    BY <1>3 DEF Verdict
  <2>2. {d[2], d[3]} \subseteq Known(seen) /\ d[2] \notin Descendants(seen, d[3])
    BY <2>1 DEF HierarchyVerdict
  <2> QED
    BY <1>3, <2>2, KnownAre
<1>4. CASE Kind(d) = "placement"
  <2>1. PlacementVerdict(seen, held, d) = "validated"
    BY <1>4 DEF Verdict
  <2>2. /\ d[2] \in held /\ d[3] \in Known(seen)
        /\ Scheme(SchemeOf[d[3]], TRUE) \in seen => Rivals(seen, d[2], d[3]) = {}
    BY <2>1 DEF PlacementVerdict
  <2> QED
    BY <1>4, <2>2, KnownAre
<1> QED
  BY <1>1, <1>2, <1>3, <1>4, Shapes

\* Lemma: whom an empty list of rivals leaves out.
LEMMA NoRivals ==
    ASSUME NEW seen, seen \subseteq Blocks, NEW s, NEW c, Rivals(seen, s, c) = {},
           NEW G, Framed(G), G \subseteq seen
    PROVE  \A r \in Classes : SchemeOf[r] = SchemeOf[c] /\ Placement(s, r) \in G => r = c
<1> SUFFICES ASSUME NEW r \in Classes, SchemeOf[r] = SchemeOf[c], Placement(s, r) \in G
             PROVE  r = c
  OBVIOUS
<1>1. Class(r) \in G
  BY Named DEF Framed
<1>2. r \in ClassesOf(seen, s)
  BY <1>1, KnownAre DEF ClassesOf
<1> QED
  BY <1>2 DEF Rivals

\* Lemma: a block that is validated among more than is there, but not among more of what it stands
\* on, keeps a catalog in order.
LEMMA AddBlock ==
    ASSUME NEW G, Framed(G), Exclusive(G), NEW seen, G \subseteq seen, seen \subseteq Blocks,
           NEW held, NEW d \in Blocks, Verdict(seen, held, d) = "validated",
           Kind(d) # "scheme" => \A x \in seen : Kind(x) = "scheme" => x \in G,
           Kind(d) \in {"hierarchy", "placement"} => \A x \in seen : Kind(x) = "class" => x \in G
    PROVE  Framed(G \cup {d}) /\ Exclusive(G \cup {d})
<1>1. CASE Kind(d) = "scheme"
  <2>1. \A e \in BOOLEAN : Scheme(d[2], e) \notin seen
    BY <1>1, Verdicts
  <2>2. \A e \in BOOLEAN : Scheme(d[2], e) \notin G
    BY <2>1
  <2> QED
    BY <1>1, <2>2, AddScheme
<1>2. CASE Kind(d) = "class"
  <2>1. PICK e \in BOOLEAN : Scheme(SchemeOf[d[2]], e) \in seen
    BY <1>2, Verdicts
  <2>2. Scheme(SchemeOf[d[2]], e) \in G
    BY <1>2, <2>1, Made
  <2> QED
    BY <1>2, <2>2, AddClass
<1>3. CASE Kind(d) = "hierarchy"
  <2>1. Class(d[2]) \in seen /\ Class(d[3]) \in seen
    BY <1>3, Verdicts
  <2>2. Class(d[2]) \in G /\ Class(d[3]) \in G
    BY <1>3, <2>1, Made
  <2> QED
    BY <1>3, <2>2, AddHierarchy
<1>4. CASE Kind(d) = "placement"
  <2>1. /\ Class(d[3]) \in seen
        /\ Scheme(SchemeOf[d[3]], TRUE) \in seen => Rivals(seen, d[2], d[3]) = {}
    BY <1>4, Verdicts
  <2>2. Class(d[3]) \in G /\ d = Placement(d[2], d[3])
    BY <1>4, <2>1, Made, Shapes
  <2>3. ASSUME Scheme(SchemeOf[d[3]], TRUE) \in G, NEW c \in Classes, SchemeOf[c] = SchemeOf[d[3]],
               Placement(d[2], c) \in G \cup {d}
        PROVE  c = d[3]
    <3>1. CASE Placement(d[2], c) \in G
      <4>1. Rivals(seen, d[2], d[3]) = {}
        BY <2>1, <2>3
      <4>2. \A r \in Classes : SchemeOf[r] = SchemeOf[d[3]] /\ Placement(d[2], r) \in G => r = d[3]
        BY <4>1, NoRivals
      <4> QED
        BY <3>1, <4>2, <2>3
    <3>2. CASE Placement(d[2], c) = d
      BY <3>2, <2>2, Same
    <3> QED
      BY <3>1, <3>2, <2>3
  <2>4. Fits(G, {d}) /\ {d} \subseteq OfKind(Blocks, "placement")
    BY <1>4, <2>2, <2>3 DEF Fits, OfKind
  <2> QED
    BY <2>4, AddPlacements
<1> QED
  BY <1>1, <1>2, <1>3, <1>4, Shapes

-----------------------------------------------------------------------------
(* Catalogs as they are seen.                                              *)

\* Lemma: with less hidden and more there, no less is seen.
LEMMA LoadLess ==
    ASSUME NEW S, NEW H, NEW T, NEW K, S \subseteq T, K \subseteq H
    PROVE  Load(S, H) \subseteq Load(T, K) /\ Load(S, H) \subseteq S
BY DEF Load

\* Lemma: what is seen has its ends, its classes and its schemes.
LEMMA LoadFramed ==
    ASSUME NEW S, NEW H, Framed(S), \A d \in H : Kind(d) # "scheme"
    PROVE  /\ Framed(Load(S, H))
           /\ \A d \in S : Kind(d) = "scheme" => d \in Load(S, H)
           /\ \A d \in S \ H : Kind(d) = "class" => d \in Load(S, H)
<1>1. \A d \in S : Kind(d) = "scheme" => d \in Load(S, H)
  BY Named DEF Load
<1>2. \A d \in S \ H : Kind(d) = "class" => d \in Load(S, H)
  BY Named DEF Load
<1>3. Load(S, H) \subseteq S /\ \A d \in Load(S, H) : d \notin H /\ \A c \in Ends(d) : Class(c) \in S \ H
  BY DEF Load
<1>4. \A d \in Load(S, H) : \A c \in Ends(d) : Class(c) \in Load(S, H)
  BY <1>2, <1>3, Made
<1>5. ASSUME NEW c \in Classes, Class(c) \in Load(S, H)
      PROVE  \E e \in BOOLEAN : Scheme(SchemeOf[c], e) \in Load(S, H)
  <2>1. PICK e \in BOOLEAN : Scheme(SchemeOf[c], e) \in S
    BY <1>3, <1>5 DEF Framed
  <2> QED
    BY <2>1, <1>1, Made
<1>6. Framed(Load(S, H))
  BY <1>3, <1>4, <1>5 DEF Framed
<1> QED
  BY <1>1, <1>2, <1>6

\* Lemma: whatever is in order and has all that is seen can be added.
LEMMA Grows ==
    ASSUME NEW S, NEW H, Stands(S, H), NEW T, Framed(T), Exclusive(T), Load(S, H) \subseteq T
    PROVE  Stands(S \cup T, H)
<1>1. Framed(S) /\ (\A d \in H : Kind(d) # "scheme") /\ \A d \in S : Kind(d) = "scheme" => d \in T
  BY LoadFramed DEF Stands
<1>2. Framed(S \cup T)
  <2>1. \A d \in S \cup T : d \in Blocks /\ \A c \in Ends(d) : Class(c) \in S \cup T
    BY <1>1 DEF Framed
  <2>2. \A c \in Classes : Class(c) \in S \cup T => \E e \in BOOLEAN : Scheme(SchemeOf[c], e) \in S \cup T
    BY <1>1 DEF Framed
  <2>3. \A s, e : Scheme(s, e) \in S \cup T => Scheme(s, e) \in T
    BY <1>1, Made
  <2> QED
    BY <2>1, <2>2, <2>3 DEF Framed
<1>3. Load(S \cup T, H) \subseteq T
  <2> SUFFICES ASSUME NEW d \in Load(S \cup T, H), d \in S PROVE d \in T
    BY DEF Load
  <2>1. d \notin H /\ \A c \in Ends(d) : Class(c) \notin H
    BY DEF Load
  <2>2. \A c \in Ends(d) : Class(c) \in S
    BY <1>1 DEF Framed
  <2> QED
    BY <2>1, <2>2 DEF Load
<1> QED
  BY <1>1, <1>2, <1>3, ExclusivePart DEF Stands

\* Lemma: and something can be taken away or hidden that takes its edges along.
LEMMA Shrinks ==
    ASSUME NEW S, NEW H, Stands(S, H), NEW T, T \subseteq S, NEW K, H \subseteq K,
           \A d \in K : Kind(d) # "scheme",
           \A d \in S : Kind(d) = "scheme" => d \in T,
           \A d \in T : \A c \in Ends(d) : Class(c) \in T
    PROVE  Stands(T, K)
<1>1. Framed(T)
  <2>1. ASSUME NEW c \in Classes, Class(c) \in T
        PROVE  \E e \in BOOLEAN : Scheme(SchemeOf[c], e) \in T
    <3>1. PICK e \in BOOLEAN : Scheme(SchemeOf[c], e) \in S
      BY <2>1 DEF Stands, Framed
    <3> QED
      BY <3>1, Made
  <2> QED
    BY <2>1 DEF Stands, Framed
<1>2. Load(T, K) \subseteq Load(S, H)
  BY LoadLess
<1> QED
  BY <1>1, <1>2, ExclusivePart DEF Stands

\* Lemma: the catalog rebuilt.
LEMMA Loaded ==
    /\ \A b, ignore : LoadCatalogState(b, ignore) = Load(b.semantic \ ignore, b.hidden)
    /\ \A b : Accessible(b) = Load(b.semantic, b.hidden)
<1>1. ASSUME NEW b, NEW ignore
      PROVE  LoadCatalogState(b, ignore) = Load(b.semantic \ ignore, b.hidden)
  BY DEF LoadCatalogState, Load
<1>2. ASSUME NEW b
      PROVE  Accessible(b) = Load(b.semantic, b.hidden)
  <2>1. b.semantic \ {} = b.semantic
    OBVIOUS
  <2> QED
    BY <1>1, <2>1 DEF Accessible
<1> QED
  BY <1>1, <1>2

-----------------------------------------------------------------------------
(* classify.                                                               *)

\* One declaration of a request, given the outcome of those before it.
Judge(b, d, before) ==
    LET verdict == Verdict(before.seen, b.canonical, d)
        add == IF verdict = "validated" THEN {d} ELSE {}
    IN [seen |-> before.seen \cup add,
        accepted |-> before.accepted \cup add,
        duplicate |-> before.duplicate \cup IF verdict = "duplicate" THEN {d} ELSE {},
        raised |-> before.raised \/ Raises(before.seen, b.canonical, d)]

Unjudged(b) == [seen |-> Accessible(b), accepted |-> {}, duplicate |-> {}, raised |-> FALSE]

Outcomes == [seen : SUBSET Blocks, accepted : SUBSET Blocks, duplicate : SUBSET Blocks, raised : BOOLEAN]

\* The rounds of a request.
Rounds(f, b, request) ==
    /\ Judged(b, request) = f[Len(request)]
    /\ f[0] = Unjudged(b)
    /\ \A n \in 1 .. Len(request) : f[n] = Judge(b, request[n], f[n - 1])

\* Lemma: there are such.
LEMMA RoundsExist ==
    ASSUME NEW b, b.semantic \subseteq Blocks, NEW request \in Seq(Blocks)
    PROVE  \E f : Rounds(f, b, request)
<1> DEFINE N == Len(request)
           T == Outcomes
           s == [n \in 1 .. N |-> [before \in T |-> Judge(b, request[n], before)]]
           After[n \in 0 .. Len(request)] ==
            IF n = 0 THEN [seen |-> Accessible(b), accepted |-> {}, duplicate |-> {}, raised |-> FALSE]
            ELSE LET before == After[n - 1]
                     d == request[n]
                     verdict == Verdict(before.seen, b.canonical, d)
                     add == IF verdict = "validated" THEN {d} ELSE {}
                 IN [seen |-> before.seen \cup add,
                     accepted |-> before.accepted \cup add,
                     duplicate |-> before.duplicate \cup IF verdict = "duplicate" THEN {d} ELSE {},
                     raised |-> before.raised \/ Raises(before.seen, b.canonical, d)]
<1>1. Judged(b, request) = After[N]
  BY DEF Judged
<1>n. N \in Nat
  OBVIOUS
<1>2. PICK g : Iterate(g, N, T, Unjudged(b), s)
  <2>1. ASSUME NEW n \in 1 .. N, NEW before \in T
        PROVE  Judge(b, request[n], before) \in T
    <3> DEFINE verdict == Verdict(before.seen, b.canonical, request[n])
               raises == Raises(before.seen, b.canonical, request[n])
    <3>1. request[n] \in Blocks
      OBVIOUS
    <3>2. raises \in BOOLEAN
      BY Zenon DEF Raises
    <3>3. Judge(b, request[n], before) =
            [seen |-> before.seen \cup IF verdict = "validated" THEN {request[n]} ELSE {},
             accepted |-> before.accepted \cup IF verdict = "validated" THEN {request[n]} ELSE {},
             duplicate |-> before.duplicate \cup IF verdict = "duplicate" THEN {request[n]} ELSE {},
             raised |-> before.raised \/ raises]
      BY DEF Judge
    <3> HIDE DEF verdict, raises
    <3>4. (before.raised \/ raises) \in BOOLEAN
      BY <3>2
    <3> QED
      BY <3>1, <3>3, <3>4 DEF Outcomes
  <2>2. Unjudged(b) \in T
    BY Loaded DEF Unjudged, Outcomes, Load
  <2> HIDE DEF N, T
  <2>3. s \in [1 .. N -> [T -> T]]
    BY <2>1
  <2> HIDE DEF s
  <2> QED
    BY <1>n, <2>2, <2>3, IterateExists
<1>3. /\ g \in [0 .. N -> T] /\ g[0] = Unjudged(b)
      /\ \A n \in 1 .. N : g[n] = Judge(b, request[n], g[n - 1])
  <2> HIDE DEF T, N
  <2>1. \A n \in 1 .. N : n - 1 \in 0 .. N
    BY <1>n
  <2>2. \A n \in 1 .. N : s[n][g[n - 1]] = Judge(b, request[n], g[n - 1])
    BY <1>2, <2>1 DEF Iterate
  <2> QED
    BY <1>2, <2>2 DEF Iterate
<1> DEFINE F(r) == [n \in 0 .. Len(request) |->
            IF n = 0 THEN [seen |-> Accessible(b), accepted |-> {}, duplicate |-> {}, raised |-> FALSE]
            ELSE LET before == r[n - 1]
                     d == request[n]
                     verdict == Verdict(before.seen, b.canonical, d)
                     add == IF verdict = "validated" THEN {d} ELSE {}
                 IN [seen |-> before.seen \cup add,
                     accepted |-> before.accepted \cup add,
                     duplicate |-> before.duplicate \cup IF verdict = "duplicate" THEN {d} ELSE {},
                     raised |-> before.raised \/ Raises(before.seen, b.canonical, d)]]
<1>f. ASSUME NEW r
      PROVE  F(r) = [n \in 0 .. N |-> IF n = 0 THEN Unjudged(b) ELSE Judge(b, request[n], r[n - 1])]
  BY DEF Unjudged, Judge
<1>4. After = F(After)
  <2>1. g = F(g)
    <3> HIDE DEF F, N, T
    <3>1. g = [n \in 0 .. N |-> IF n = 0 THEN Unjudged(b) ELSE Judge(b, request[n], g[n - 1])]
      BY <1>3, <1>n
    <3> QED
      BY <3>1, <1>f
  <2>2. After = CHOOSE r : r = F(r)
    OBVIOUS
  <2> HIDE DEF After, F
  <2> QED
    BY <2>1, <2>2
<1> HIDE DEF After, F, N
<1>5. After = [n \in 0 .. N |-> IF n = 0 THEN Unjudged(b) ELSE Judge(b, request[n], After[n - 1])]
  BY <1>4, <1>f
<1>6. After[0] = Unjudged(b) /\ \A n \in 1 .. N : After[n] = Judge(b, request[n], After[n - 1])
  BY <1>5, <1>n
<1>7. Rounds(After, b, request)
  BY <1>1, <1>6 DEF Rounds, N
<1> QED
  BY <1>7

\* Lemma: induction up to a bound, for a set of numbers.
LEMMA Upto ==
    ASSUME NEW N \in Nat, NEW G, 0 \in G, \A n \in 1 .. N : n - 1 \in G => n \in G
    PROVE  \A n \in 0 .. N : n \in G
<1> DEFINE Bad == (0 .. N) \ G
<1> SUFFICES ASSUME Bad # {} PROVE FALSE
  OBVIOUS
<1>1. Bad \in SUBSET Nat
  OBVIOUS
<1>2. PICK x \in Bad : \A y \in Bad : x <= y
  <2> HIDE DEF Bad
  <2> QED
    BY <1>1, LeastOf
<1>3. x \in 1 .. N /\ x - 1 \in 0 .. N /\ x - 1 \notin Bad
  BY <1>2
<1> QED
  BY <1>3

\* Lemma: what the declarations of a request that are accepted or already there say.
LEMMA JudgedHeld ==
    ASSUME NEW b, b.semantic \subseteq Blocks, NEW request \in Seq(Blocks)
    PROVE  LET r == Judged(b, request) IN
           /\ r.accepted \subseteq Blocks /\ r.duplicate \subseteq Blocks
           /\ \A d \in r.accepted \cup r.duplicate : Kind(d) = "placement" => d[2] \in b.canonical
<1> DEFINE N == Len(request)
<1>1. N \in Nat
  OBVIOUS
<1>2. PICK f : Rounds(f, b, request)
  BY RoundsExist
<1> DEFINE Fine(d) == d \in Blocks /\ (Kind(d) = "placement" => d[2] \in b.canonical)
           G == {n \in 0 .. N : \A d \in f[n].accepted \cup f[n].duplicate : Fine(d)}
<1>3. 0 \in G
  <2>1. f[0] = Unjudged(b)
    BY <1>2 DEF Rounds
  <2> QED
    BY <2>1, <1>1 DEF Unjudged
<1>4. ASSUME NEW n \in 1 .. N, n - 1 \in G
      PROVE  n \in G
  <2> DEFINE before == f[n - 1]
             d == request[n]
             verdict == Verdict(before.seen, b.canonical, d)
  <2>1. f[n] = Judge(b, d, before) /\ d \in Blocks
    BY <1>2 DEF Rounds
  <2>2. /\ f[n].accepted \subseteq before.accepted \cup IF verdict = "validated" THEN {d} ELSE {}
        /\ f[n].duplicate \subseteq before.duplicate \cup IF verdict = "duplicate" THEN {d} ELSE {}
    BY <2>1 DEF Judge
  <2>3. verdict \in {"validated", "duplicate"} => Fine(d)
    <3> SUFFICES ASSUME verdict \in {"validated", "duplicate"}, Kind(d) = "placement"
                 PROVE  d[2] \in b.canonical
      BY <2>1
    <3>1. PlacementVerdict(before.seen, b.canonical, d) # "rejected"
      BY DEF Verdict
    <3> HIDE DEF verdict, before, d
    <3> QED
      BY <3>1 DEF PlacementVerdict
  <2> HIDE DEF verdict, before, d
  <2>4. \A x \in before.accepted \cup before.duplicate : Fine(x)
    BY <1>4 DEF before
  <2>5. \A x \in f[n].accepted \cup f[n].duplicate : Fine(x)
    <3> HIDE DEF Fine
    <3> QED
      BY <2>2, <2>3, <2>4
  <2> QED
    BY <2>5, <1>1
<1>5. N \in G
  <2> HIDE DEF G, N
  <2>1. \A n \in 0 .. N : n \in G
    BY <1>1, <1>3, <1>4, Upto
  <2> QED
    BY <2>1, <1>1
<1>6. Judged(b, request) = f[N]
  BY <1>2 DEF Rounds
<1> QED
  BY <1>5, <1>6

\* Lemma: a catalog in order stays so with what a request is granted.
LEMMA JudgedStands ==
    ASSUME NEW b, Stands(b.semantic, b.hidden), NEW request \in Seq(Blocks)
    PROVE  LET r == Judged(b, request) IN
           Framed(r.seen) /\ Exclusive(r.seen) /\ r.seen = Load(b.semantic, b.hidden) \cup r.accepted
<1> DEFINE N == Len(request)
           L == Load(b.semantic, b.hidden)
<1>1. N \in Nat /\ b.semantic \subseteq Blocks
  BY DEF Stands, Framed
<1>2. PICK f : Rounds(f, b, request)
  BY <1>1, RoundsExist
<1> DEFINE Fine(r) == Framed(r.seen) /\ Exclusive(r.seen) /\ r.seen = L \cup r.accepted
           G == {n \in 0 .. N : Fine(f[n])}
<1>3. 0 \in G
  <2>1. f[0] = Unjudged(b)
    BY <1>2 DEF Rounds
  <2>2. f[0].seen = L /\ f[0].accepted = {}
    BY <2>1, Loaded DEF Unjudged
  <2>3. Framed(L) /\ Exclusive(L)
    BY LoadFramed DEF Stands
  <2> HIDE DEF L
  <2> QED
    BY <2>2, <2>3, <1>1
<1>4. ASSUME NEW n \in 1 .. N, n - 1 \in G
      PROVE  n \in G
  <2> DEFINE before == f[n - 1]
             d == request[n]
             verdict == Verdict(before.seen, b.canonical, d)
  <2>1. f[n] = Judge(b, d, before) /\ d \in Blocks
    BY <1>2 DEF Rounds
  <2>2. /\ f[n].seen = before.seen \cup IF verdict = "validated" THEN {d} ELSE {}
        /\ f[n].accepted = before.accepted \cup IF verdict = "validated" THEN {d} ELSE {}
    BY <2>1 DEF Judge
  <2>3. Framed(before.seen) /\ Exclusive(before.seen) /\ before.seen = L \cup before.accepted
    BY <1>4
  <2>4. verdict = "validated" => Framed(before.seen \cup {d}) /\ Exclusive(before.seen \cup {d})
    <3> SUFFICES ASSUME verdict = "validated"
                 PROVE  Framed(before.seen \cup {d}) /\ Exclusive(before.seen \cup {d})
      OBVIOUS
    <3> DEFINE S == before.seen
    <3>1. Framed(S) /\ Exclusive(S) /\ Verdict(S, b.canonical, d) = "validated"
      BY <2>3
    <3>2. S \subseteq Blocks
      BY <3>1 DEF Framed
    <3> HIDE DEF S, d
    <3> QED
      BY <3>1, <3>2, <2>1, AddBlock DEF S
  <2> HIDE DEF verdict, before, d, L
  <2>5. Fine(f[n])
    <3>1. CASE verdict = "validated"
      <4>1. f[n].seen = before.seen \cup {d} /\ f[n].accepted = before.accepted \cup {d}
        BY <3>1, <2>2
      <4>2. Framed(f[n].seen) /\ Exclusive(f[n].seen)
        BY <4>1, <2>4, <3>1
      <4> QED
        BY <4>1, <4>2, <2>3
    <3>2. CASE verdict # "validated"
      <4>1. f[n].seen = before.seen /\ f[n].accepted = before.accepted
        BY <3>2, <2>2
      <4> QED
        BY <4>1, <2>3
    <3> QED
      BY <3>1, <3>2
  <2>6. n \in 0 .. N
    BY <1>1
  <2> HIDE DEF Fine
  <2> QED
    BY <2>5, <2>6
<1>5. N \in G
  <2> HIDE DEF G, N
  <2>1. \A n \in 0 .. N : n \in G
    BY <1>1, <1>3, <1>4, Upto
  <2> QED
    BY <2>1, <1>1
<1>6. Judged(b, request) = f[N]
  BY <1>2 DEF Rounds
<1> QED
  BY <1>5, <1>6

-----------------------------------------------------------------------------
(* The gate of a reconciliation.                                           *)

\* One incoming block, given what the gate has left of the version.
Sift(before, d) ==
    IF Verdict(LoadCatalogState(before, {d}), before.canonical, d) = "validated"
    THEN before ELSE [before EXCEPT !.semantic = @ \ {d}]

\* The rounds of the gate.
Sifting(f, joined, order) ==
    /\ Admit(joined, order) = f[Len(order)]
    /\ f[0] = joined
    /\ \A n \in 1 .. Len(order) : f[n] = Sift(f[n - 1], order[n])

\* Lemma: there are such.
LEMMA SiftingExists ==
    ASSUME NEW joined \in Versions, NEW order \in Seq(Blocks)
    PROVE  \E f : Sifting(f, joined, order)
<1> DEFINE N == Len(order)
           T == Versions
           s == [n \in 1 .. N |-> [before \in T |-> Sift(before, order[n])]]
           After[n \in 0 .. Len(order)] ==
            IF n = 0 THEN joined
            ELSE LET before == After[n - 1]
                     d == order[n]
                 IN IF Verdict(LoadCatalogState(before, {d}), before.canonical, d) = "validated"
                    THEN before ELSE [before EXCEPT !.semantic = @ \ {d}]
<1>1. Admit(joined, order) = After[N]
  BY DEF Admit
<1>n. N \in Nat
  OBVIOUS
<1>2. PICK g : Iterate(g, N, T, joined, s)
  <2>1. ASSUME NEW n \in 1 .. N, NEW before \in T
        PROVE  Sift(before, order[n]) \in T
    BY DEF Sift, Versions
  <2> HIDE DEF N, T
  <2>3. s \in [1 .. N -> [T -> T]]
    BY <2>1
  <2>4. joined \in T
    BY DEF T
  <2> HIDE DEF s
  <2> QED
    BY <1>n, <2>3, <2>4, IterateExists
<1>3. /\ g \in [0 .. N -> T] /\ g[0] = joined
      /\ \A n \in 1 .. N : g[n] = Sift(g[n - 1], order[n])
  <2> HIDE DEF T, N
  <2>1. \A n \in 1 .. N : n - 1 \in 0 .. N
    BY <1>n
  <2>2. \A n \in 1 .. N : s[n][g[n - 1]] = Sift(g[n - 1], order[n])
    BY <1>2, <2>1 DEF Iterate
  <2> QED
    BY <1>2, <2>2 DEF Iterate
<1> DEFINE F(r) == [n \in 0 .. Len(order) |->
            IF n = 0 THEN joined
            ELSE LET before == r[n - 1]
                     d == order[n]
                 IN IF Verdict(LoadCatalogState(before, {d}), before.canonical, d) = "validated"
                    THEN before ELSE [before EXCEPT !.semantic = @ \ {d}]]
<1>f. ASSUME NEW r
      PROVE  F(r) = [n \in 0 .. N |-> IF n = 0 THEN joined ELSE Sift(r[n - 1], order[n])]
  BY DEF Sift
<1>4. After = F(After)
  <2>1. g = F(g)
    <3> HIDE DEF F, N, T
    <3>1. g = [n \in 0 .. N |-> IF n = 0 THEN joined ELSE Sift(g[n - 1], order[n])]
      BY <1>3, <1>n
    <3> QED
      BY <3>1, <1>f
  <2>2. After = CHOOSE r : r = F(r)
    OBVIOUS
  <2> HIDE DEF After, F
  <2> QED
    BY <2>1, <2>2
<1> HIDE DEF After, F, N
<1>5. After = [n \in 0 .. N |-> IF n = 0 THEN joined ELSE Sift(After[n - 1], order[n])]
  BY <1>4, <1>f
<1>6. After[0] = joined /\ \A n \in 1 .. N : After[n] = Sift(After[n - 1], order[n])
  BY <1>5, <1>n
<1>7. Sifting(After, joined, order)
  BY <1>1, <1>6 DEF Sifting, N
<1> QED
  BY <1>7

\* A version that differs in that it has fewer blocks.
Fewer(a, joined) ==
    /\ a \in Versions /\ a.semantic \subseteq joined.semantic
    /\ a.canonical = joined.canonical /\ a.hidden = joined.hidden
    /\ a.derived = joined.derived /\ a.validated = joined.validated

\* Lemma: all the gate does is to leave blocks out.
LEMMA SiftingFewer ==
    ASSUME NEW joined \in Versions, NEW order \in Seq(Blocks), NEW f, Sifting(f, joined, order)
    PROVE  \A n \in 0 .. Len(order) : Fewer(f[n], joined)
<1> DEFINE N == Len(order)
           G == {n \in 0 .. N : Fewer(f[n], joined)}
<1>1. N \in Nat
  OBVIOUS
<1>2. 0 \in G
  BY <1>1 DEF Sifting, Fewer
<1>3. ASSUME NEW n \in 1 .. N, n - 1 \in G
      PROVE  n \in G
  <2>1. f[n] = Sift(f[n - 1], order[n]) /\ Fewer(f[n - 1], joined)
    BY <1>3 DEF Sifting
  <2>2. Fewer(f[n], joined)
    <3> DEFINE v == f[n - 1]
    <3>1. v \in Versions /\ f[n] = Sift(v, order[n]) /\ Fewer(v, joined)
      BY <2>1 DEF Fewer
    <3> HIDE DEF v
    <3> QED
      BY <3>1 DEF Sift, Fewer, Versions
  <2> QED
    BY <2>2, <1>1
<1> HIDE DEF G, N
<1>4. \A n \in 0 .. N : n \in G
  BY <1>1, <1>2, <1>3, Upto
<1> QED
  BY <1>4 DEF G, N

\* Lemma: the same of its outcome.
LEMMA AdmitFewer ==
    ASSUME NEW joined \in Versions, NEW order \in Seq(Blocks)
    PROVE  Fewer(Admit(joined, order), joined)
<1>1. PICK f : Sifting(f, joined, order)
  BY SiftingExists
<1>2. Len(order) \in 0 .. Len(order)
  OBVIOUS
<1> QED
  BY <1>1, <1>2, SiftingFewer DEF Sifting

\* An order in which the gate takes blocks.
Sorted(order) ==
    /\ \A i, j \in 1 .. Len(order) : i # j => order[i] # order[j]
    /\ \A i, j \in 1 .. Len(order) : i < j => Priority(order[i]) <= Priority(order[j])

\* What is settled of the blocks M once the first n of an order have been judged.
Settled(M, order, n, cascaded) == (M \ {order[i] : i \in n + 1 .. Len(order)}) \ cascaded

\* Lemma: schemes come before classes, classes before what names them.
LEMMA Priorities ==
    ASSUME NEW d \in Blocks
    PROVE  /\ Priority(d) \in 0 .. 3
           /\ Kind(d) = "scheme" <=> Priority(d) = 0
           /\ Kind(d) = "class" <=> Priority(d) = 1
           /\ Kind(d) \in {"hierarchy", "placement"} <=> Priority(d) >= 2
BY Shapes DEF Priority

\* Lemma: one block more, which stands on nothing that is still to be judged.
LEMMA SettledStep ==
    ASSUME NEW M, M \subseteq Blocks, NEW order \in Seq(Blocks), Sorted(order),
           NEW cascaded, \A d \in cascaded : Kind(d) \notin {"scheme", "class"},
           NEW n \in 1 .. Len(order), order[n] \in M
    PROVE  LET K == Settled(M, order, n - 1, cascaded)
               d == order[n]
           IN /\ d \in Blocks /\ Settled(M, order, n, cascaded) = K \cup ({d} \ cascaded) /\ K \subseteq M \ {d}
              /\ \A x \in M \ {d} :
                    Kind(x) \in {"scheme", "class"} /\ Priority(x) < Priority(d) => x \in K
<1> DEFINE K == Settled(M, order, n - 1, cascaded)
           d == order[n]
<1>1. d \in Blocks /\ Settled(M, order, n, cascaded) = K \cup ({d} \ cascaded) /\ K \subseteq M \ {d}
  <2>1. d \in Blocks /\ n - 1 + 1 = n
    OBVIOUS
  <2>2. \A i \in 1 .. Len(order) : i \in n .. Len(order) <=> i = n \/ i \in n + 1 .. Len(order)
    OBVIOUS
  <2>3. {order[i] : i \in n .. Len(order)} = {d} \cup {order[i] : i \in n + 1 .. Len(order)}
    OBVIOUS
  <2>4. d \notin {order[i] : i \in n + 1 .. Len(order)}
    BY DEF Sorted
  <2>5. K = (M \ {order[i] : i \in n .. Len(order)}) \ cascaded
    BY <2>1 DEF Settled
  <2> HIDE DEF d, K
  <2> DEFINE R == {order[i] : i \in n + 1 .. Len(order)}
  <2>6. Settled(M, order, n, cascaded) = (M \ R) \ cascaded
    BY DEF Settled
  <2>7. d \notin R /\ K = (M \ ({d} \cup R)) \ cascaded /\ d \in M
    BY <2>3, <2>4, <2>5 DEF d
  <2> HIDE DEF R
  <2> QED
    BY <2>1, <2>6, <2>7
<1>2. ASSUME NEW x \in M \ {d}, Kind(x) \in {"scheme", "class"}, Priority(x) < Priority(d)
      PROVE  x \in K
  <2>1. ASSUME NEW i \in n .. Len(order), x = order[i]
        PROVE  FALSE
    <3>1. i # n /\ i \in 1 .. Len(order) /\ n < i
      BY <2>1, <1>2
    <3>2. Priority(d) <= Priority(x)
      BY <2>1, <3>1 DEF Sorted
    <3>3. Priority(d) \in 0 .. 3 /\ Priority(x) \in 0 .. 3
      BY <1>1, <2>1, Priorities
    <3> QED
      BY <3>2, <3>3, <1>2
  <2>2. n - 1 + 1 = n
    OBVIOUS
  <2> QED
    BY <1>2, <2>1, <2>2 DEF Settled
<1> QED
  BY <1>1, <1>2

\* Lemma: with it a catalog in order stays so.
LEMMA SettleOne ==
    ASSUME NEW M, M \subseteq Blocks, NEW H, NEW order \in Seq(Blocks), Sorted(order),
           NEW cascaded, \A d \in cascaded : Kind(d) \notin {"scheme", "class"},
           NEW n \in 1 .. Len(order), NEW held,
           Stands(Settled(M, order, n - 1, cascaded), H),
           Verdict(Load(M \ {order[n]}, H), held, order[n]) = "validated",
           order[n] \in M
    PROVE  Stands(Settled(M, order, n, cascaded), H)
<1> DEFINE K == Settled(M, order, n - 1, cascaded)
           d == order[n]
           seen == Load(M \ {d}, H)
           G == Load(K, H)
<1>1. d \in Blocks /\ Settled(M, order, n, cascaded) = K \cup ({d} \ cascaded) /\ K \subseteq M \ {d}
  BY SettledStep
<1>2. \A x \in M \ {d} : Kind(x) \in {"scheme", "class"} /\ Priority(x) < Priority(d) => x \in K
  BY SettledStep
<1>3. /\ Framed(K) /\ (\A x \in H : Kind(x) # "scheme") /\ Exclusive(G) /\ Framed(G)
      /\ \A x \in K : Kind(x) = "scheme" => x \in G
      /\ \A x \in K \ H : Kind(x) = "class" => x \in G
  BY LoadFramed DEF Stands
<1>4. CASE d \in cascaded
  BY <1>1, <1>4
<1>5. CASE d \notin cascaded
  <2>1. G \subseteq seen /\ seen \subseteq Blocks
    BY <1>1, LoadLess DEF Load
  <2>2. \A x \in seen : x \in M \ {d} /\ x \notin H /\ \A c \in Ends(x) : Class(c) \in (M \ {d}) \ H
    BY DEF Load
  <2> HIDE DEF seen, G, K, d
  <2>4. ASSUME Kind(d) # "scheme", NEW x \in seen, Kind(x) = "scheme"
        PROVE  x \in G
    <3>1. Priority(x) < Priority(d)
      BY <2>4, <2>1, <1>1, Priorities
    <3> QED
      BY <3>1, <2>4, <2>2, <1>2, <1>3
  <2>5. ASSUME Kind(d) \in {"hierarchy", "placement"}, NEW x \in seen, Kind(x) = "class"
        PROVE  x \in G
    <3>1. Priority(x) < Priority(d)
      <4>1. Priority(x) = 1 /\ Priority(d) >= 2 /\ Priority(d) \in 0 .. 3
        BY <2>5, <2>1, <1>1, Priorities
      <4> QED
        BY <4>1
    <3> QED
      BY <3>1, <2>5, <2>2, <1>2, <1>3
  <2>6. Verdict(seen, held, d) = "validated"
    BY DEF seen, d
  <2>7. Framed(G \cup {d}) /\ Exclusive(G \cup {d})
    BY <1>1, <1>3, <2>1, <2>4, <2>5, <2>6, AddBlock
  <2>8. Stands(K, H) /\ Load(K, H) \subseteq G \cup {d}
    BY DEF K, G
  <2>9. Stands(K \cup (G \cup {d}), H)
    BY <2>7, <2>8, Grows
  <2>10. K \cup (G \cup {d}) = K \cup ({d} \ cascaded)
    BY <1>5, LoadLess DEF G
  <2> QED
    BY <2>9, <2>10, <1>1
<1> QED
  BY <1>4, <1>5

\* Lemma: what holds of the blocks settled, and of those with one more that is validated, holds of
\* the outcome.
LEMMA AdmitKeeps ==
    ASSUME NEW joined \in Versions, NEW order \in Seq(Blocks), Sorted(order),
           \A i \in 1 .. Len(order) : order[i] \in joined.semantic,
           NEW cascaded, NEW Q, Settled(joined.semantic, order, 0, cascaded) \in Q,
           \A M \in SUBSET Blocks, n \in 1 .. Len(order) :
              /\ Settled(M, order, n - 1, cascaded) \in Q /\ order[n] \in M
              /\ Verdict(Load(M \ {order[n]}, joined.hidden), joined.canonical, order[n]) = "validated"
              => Settled(M, order, n, cascaded) \in Q
    PROVE  Admit(joined, order).semantic \ cascaded \in Q
<1> DEFINE N == Len(order)
           H == joined.hidden
<1>1. N \in Nat
  OBVIOUS
<1>2. PICK f : Sifting(f, joined, order)
  BY SiftingExists
<1> DEFINE G == {n \in 0 .. N : /\ Settled(f[n].semantic, order, n, cascaded) \in Q
                                /\ \A i \in n + 1 .. N : order[i] \in f[n].semantic}
<1>3. 0 \in G
  <2>1. f[0] = joined
    BY <1>2 DEF Sifting
  <2> QED
    BY <1>1, <2>1
<1>4. ASSUME NEW n \in 1 .. N, n - 1 \in G
      PROVE  n \in G
  <2> DEFINE v == f[n - 1]
             d == order[n]
             M == v.semantic
  <2>1. f[n] = Sift(v, d) /\ d \in Blocks
    BY <1>2 DEF Sifting
  <2>2. Fewer(v, joined)
    <3>1. n - 1 \in 0 .. Len(order)
      BY <1>1
    <3> QED
      BY <3>1, <1>2, SiftingFewer
  <2>3. v \in Versions /\ v.hidden = H /\ v.canonical = joined.canonical /\ M \subseteq Blocks
    BY <2>2 DEF Fewer, Versions
  <2>4. Settled(M, order, n - 1, cascaded) \in Q /\ \A i \in n .. N : order[i] \in M
    <3>1. n - 1 + 1 = n
      BY <1>1
    <3> QED
      BY <3>1, <1>4
  <2>5. d \in M /\ n \in 0 .. N /\ \A i \in n + 1 .. N : order[i] \in M /\ order[i] # d
    <3>1. n \in n .. N /\ \A i \in n + 1 .. N : i \in n .. N /\ i \in 1 .. N /\ i # n
      BY <1>1
    <3> QED
      BY <3>1, <2>4 DEF Sorted
  <2>6. CASE Verdict(LoadCatalogState(v, {d}), v.canonical, d) = "validated"
    <3>1. f[n] = v
      BY <2>1, <2>6 DEF Sift
    <3>2. Verdict(Load(M \ {d}, H), joined.canonical, d) = "validated"
      BY <2>6, <2>3, Loaded
    <3> HIDE DEF v
    <3>3. Settled(M, order, n, cascaded) \in Q
      BY <3>2, <2>3, <2>4, <2>5
    <3> QED
      BY <3>1, <3>3, <2>5
  <2>7. CASE Verdict(LoadCatalogState(v, {d}), v.canonical, d) # "validated"
    <3>1. f[n] = [v EXCEPT !.semantic = @ \ {d}]
      BY <2>1, <2>7 DEF Sift
    <3> HIDE DEF v, d
    <3>2. f[n].semantic = M \ {d}
      BY <3>1, <2>3 DEF Versions
    <3> HIDE DEF M
    <3>3. {order[i] : i \in n - 1 + 1 .. N} = {d} \cup {order[i] : i \in n + 1 .. N}
      <4>1. n - 1 + 1 = n /\ \A i : i \in n .. N <=> i = n \/ i \in n + 1 .. N
        BY <1>1
      <4> HIDE DEF N
      <4> QED
        BY <4>1 DEF d
    <3>4. Settled(M \ {d}, order, n, cascaded) = Settled(M, order, n - 1, cascaded)
      BY <3>3 DEF Settled
    <3> QED
      BY <3>2, <3>4, <2>4, <2>5
  <2> QED
    BY <2>6, <2>7
<1>5. N \in G
  <2> HIDE DEF G, N
  <2>1. \A n \in 0 .. N : n \in G
    BY <1>1, <1>3, <1>4, Upto
  <2> QED
    BY <2>1, <1>1
<1>6. Admit(joined, order) = f[N]
  BY <1>2 DEF Sifting
<1>7. Settled(f[N].semantic, order, N, cascaded) = f[N].semantic \ cascaded
  <2>1. N + 1 .. Len(order) = {}
    BY <1>1
  <2> HIDE DEF N
  <2> QED
    BY <2>1 DEF Settled
<1> QED
  BY <1>5, <1>6, <1>7

\* Lemma: classes and sources that are finitely many make finitely many blocks.
LEMMA BlocksFinite == IsFiniteSet(Blocks)
<1>1. IsFiniteSet(BOOLEAN)
  <2>1. BOOLEAN = {TRUE} \cup {FALSE}
    OBVIOUS
  <2>2. IsFiniteSet({TRUE}) /\ IsFiniteSet({FALSE})
    BY FS_Singleton, Zenon
  <2>3. IsFiniteSet({TRUE} \cup {FALSE})
    BY <2>2, FS_Union, Zenon
  <2> QED
    BY <2>1, <2>3, Zenon
<1>2. IsFiniteSet(Schemes)
  <2> DEFINE f == [c \in Classes |-> SchemeOf[c]]
  <2>1. f \in Surjection(Classes, Schemes)
    BY DEF Surjection, Schemes
  <2> QED
    BY <2>1, ClassesAssumption, FS_Surjection
<1>3. IsFiniteSet({Scheme(s, e) : s \in Schemes, e \in BOOLEAN})
  <2> DEFINE f == [x \in Schemes \X BOOLEAN |-> Scheme(x[1], x[2])]
             T == {Scheme(s, e) : s \in Schemes, e \in BOOLEAN}
  <2>1. IsFiniteSet(Schemes \X BOOLEAN)
    BY <1>1, <1>2, FS_Product
  <2>2. f \in [Schemes \X BOOLEAN -> T]
    OBVIOUS
  <2>3. ASSUME NEW t \in T
        PROVE  \E x \in Schemes \X BOOLEAN : f[x] = t
    <3>1. PICK s \in Schemes, e \in BOOLEAN : t = Scheme(s, e)
      BY <2>3
    <3>2. <<s, e>> \in Schemes \X BOOLEAN /\ <<s, e>>[1] = s /\ <<s, e>>[2] = e
      OBVIOUS
    <3>3. f[<<s, e>>] = Scheme(s, e)
      BY <3>2
    <3> QED
      BY <3>1, <3>2, <3>3
  <2>4. f \in Surjection(Schemes \X BOOLEAN, T)
    BY <2>2, <2>3 DEF Surjection
  <2> QED
    BY <2>1, <2>4, FS_Surjection
<1>4. IsFiniteSet({Class(c) : c \in Classes})
  <2> DEFINE f == [c \in Classes |-> Class(c)]
             T == {Class(c) : c \in Classes}
  <2>1. f \in Surjection(Classes, T)
    BY DEF Surjection
  <2> QED
    BY <2>1, ClassesAssumption, FS_Surjection
<1>5. IsFiniteSet({Hierarchy(p, c) : p, c \in Classes})
  <2> DEFINE f == [x \in Classes \X Classes |-> Hierarchy(x[1], x[2])]
             T == {Hierarchy(p, c) : p, c \in Classes}
  <2>1. IsFiniteSet(Classes \X Classes)
    BY ClassesAssumption, FS_Product
  <2>2. f \in [Classes \X Classes -> T]
    OBVIOUS
  <2>3. ASSUME NEW t \in T
        PROVE  \E x \in Classes \X Classes : f[x] = t
    <3>1. PICK p \in Classes, c \in Classes : t = Hierarchy(p, c)
      BY <2>3
    <3>2. <<p, c>> \in Classes \X Classes /\ f[<<p, c>>] = Hierarchy(p, c)
      OBVIOUS
    <3> QED
      BY <3>1, <3>2
  <2>4. f \in Surjection(Classes \X Classes, T)
    BY <2>2, <2>3 DEF Surjection
  <2> QED
    BY <2>1, <2>4, FS_Surjection
<1>6. IsFiniteSet({Placement(s, c) : s \in Sources, c \in Classes})
  <2> DEFINE f == [x \in Sources \X Classes |-> Placement(x[1], x[2])]
             T == {Placement(s, c) : s \in Sources, c \in Classes}
  <2>1. IsFiniteSet(Sources \X Classes)
    BY ClassesAssumption, FS_Product
  <2>2. f \in [Sources \X Classes -> T]
    OBVIOUS
  <2>3. ASSUME NEW t \in T
        PROVE  \E x \in Sources \X Classes : f[x] = t
    <3>1. PICK s \in Sources, c \in Classes : t = Placement(s, c)
      BY <2>3
    <3>2. <<s, c>> \in Sources \X Classes /\ f[<<s, c>>] = Placement(s, c)
      OBVIOUS
    <3> QED
      BY <3>1, <3>2
  <2>4. f \in Surjection(Sources \X Classes, T)
    BY <2>2, <2>3 DEF Surjection
  <2> QED
    BY <2>1, <2>4, FS_Surjection
<1>7. ASSUME NEW S, NEW T, IsFiniteSet(S), IsFiniteSet(T)
      PROVE  IsFiniteSet(S \cup T)
  BY <1>7, FS_Union
<1> DEFINE A == {Scheme(s, e) : s \in Schemes, e \in BOOLEAN}
           B == {Class(c) : c \in Classes}
           C == {Hierarchy(p, c) : p, c \in Classes}
           D == {Placement(s, c) : s \in Sources, c \in Classes}
<1>8. Blocks = ((A \cup B) \cup C) \cup D
  BY DEF Blocks
<1>9. IsFiniteSet(A) /\ IsFiniteSet(B) /\ IsFiniteSet(C) /\ IsFiniteSet(D)
  BY <1>3, <1>4, <1>5, <1>6
<1> HIDE DEF A, B, C, D
<1> QED
  BY <1>7, <1>8, <1>9

\* Lemma: the gate judges each incoming block once, in the order of what it stands on.
LEMMA OrdersSorted ==
    ASSUME NEW incoming \in SUBSET Blocks, NEW order \in GateOrders(incoming)
    PROVE  /\ order \in Seq(Blocks) /\ Sorted(order)
           /\ {order[i] : i \in 1 .. Len(order)} = incoming
<1> DEFINE k == Cardinality(incoming)
<1>1. IsFiniteSet(incoming) /\ k \in Nat
  BY BlocksFinite, FS_Subset, FS_CardinalityType
<1>2. /\ order \in [1 .. k -> incoming] /\ \A i, j \in 1 .. k : i # j => order[i] # order[j]
      /\ \A i, j \in DOMAIN order : i < j => Priority(order[i]) <= Priority(order[j])
  BY DEF GateOrders, SetToSeqs
<1> HIDE DEF k
<1>3. order \in Seq(incoming) /\ Len(order) = k /\ DOMAIN order = 1 .. k
  BY <1>1, <1>2
<1>4. order \in Injection(1 .. k, incoming)
  BY <1>2 DEF Injection, IsInjective
<1>5. IsFiniteSet(1 .. k) /\ Cardinality(1 .. k) = k
  BY <1>1, FS_Interval
<1>6. order \in Surjection(1 .. k, incoming)
  BY <1>1, <1>4, <1>5, FS_Injection DEF k
<1>7. {order[i] : i \in 1 .. k} = incoming
  BY <1>2, <1>6 DEF Surjection
<1> QED
  BY <1>2, <1>3, <1>7 DEF Sorted

-----------------------------------------------------------------------------
(* Versions.                                                               *)

\* Lemma: what recording blocks writes.
LEMMA RecordedIs ==
    ASSUME NEW b \in Versions, NEW new \in SUBSET Blocks
    PROVE  LET r == Recorded(b, new) IN
           /\ r \in Versions /\ r.canonical = b.canonical /\ r.hidden = b.hidden
           /\ r.semantic = b.semantic \cup new /\ r.validated = b.validated \cup new
           /\ r.derived = b.derived \cup OfKind(new, "placement")
BY DEF Recorded, Versions, OfKind

\* Lemma: what leaving blocks and sources out writes.
LEMMA WithoutIs ==
    ASSUME NEW b \in Versions, NEW out, NEW sources
    PROVE  LET r == Without(b, out, sources) IN
           /\ r \in Versions /\ r.canonical = b.canonical \ sources /\ r.hidden = b.hidden
           /\ r.semantic = b.semantic \ (out \cup Cascade(b, out, sources))
           /\ r.validated = b.validated /\ r.derived = b.derived
<1> DEFINE gone == out \cup Cascade(b, out, sources)
<1>1. Without(b, out, sources) = [b EXCEPT !.semantic = @ \ gone, !.canonical = @ \ sources]
  BY DEF Without
<1> HIDE DEF gone
<1>2. LET r == Without(b, out, sources) IN
           /\ r \in Versions /\ r.canonical = b.canonical \ sources /\ r.hidden = b.hidden
           /\ r.semantic = b.semantic \ gone
           /\ r.validated = b.validated /\ r.derived = b.derived
  BY <1>1 DEF Versions
<1> QED
  BY <1>2 DEF gone

\* What joining theirs into ours writes, for some order of the gate.
Incoming(O, J) == J.semantic \ O.semantic
Cascaded(B, J) == Cascade(J, B.semantic \ J.semantic, B.canonical \ J.canonical)

MergedAs(m, O, J, B) ==
    \E order \in GateOrders(Incoming(O, J)) : m = [Admit(J, order) EXCEPT !.semantic = @ \ Cascaded(B, J)]

\* Equation 1, of constants.
Join(O, T, B) ==
    [canonical |-> (O.canonical \cup T.canonical) \ (B.canonical \ (O.canonical \cap T.canonical)),
     semantic |-> (O.semantic \cup T.semantic) \ (B.semantic \ (O.semantic \cap T.semantic)),
     hidden |-> O.hidden \cup T.hidden,
     derived |-> O.derived \cup T.derived,
     validated |-> O.validated \cup T.validated]

\* Lemma: a version.
LEMMA JoinIs ==
    ASSUME NEW O \in Versions, NEW T \in Versions, NEW B \in Versions
    PROVE  LET J == Join(O, T, B) IN
           /\ J \in Versions
           /\ J.canonical = (O.canonical \cup T.canonical) \ (B.canonical \ (O.canonical \cap T.canonical))
           /\ J.semantic = (O.semantic \cup T.semantic) \ (B.semantic \ (O.semantic \cap T.semantic))
           /\ J.hidden = O.hidden \cup T.hidden
           /\ J.derived = O.derived \cup T.derived
BY DEF Join, Versions

\* Lemma: what a reconciliation leaves.
LEMMA MergedIs ==
    ASSUME NEW O \in Versions, NEW J \in Versions, NEW B, NEW order \in GateOrders(Incoming(O, J))
    PROVE  LET a == Admit(J, order)
               m == [a EXCEPT !.semantic = @ \ Cascaded(B, J)]
           IN /\ Fewer(a, J) /\ Fewer(m, J) /\ m.semantic = a.semantic \ Cascaded(B, J)
<1> DEFINE a == Admit(J, order)
           C == Cascaded(B, J)
           m == [a EXCEPT !.semantic = @ \ C]
<1>1. Incoming(O, J) \in SUBSET Blocks
  BY DEF Incoming, Versions
<1>2. order \in Seq(Blocks)
  BY <1>1, OrdersSorted
<1>3. Fewer(a, J)
  BY <1>2, AdmitFewer
<1> HIDE DEF a, C
<1>4. Fewer(m, J) /\ m.semantic = a.semantic \ C
  BY <1>3 DEF Fewer, Versions
<1> QED
  BY <1>3, <1>4 DEF a, C

\* Lemma: whatever the order.
LEMMA MergedFewer ==
    ASSUME NEW O \in Versions, NEW J \in Versions, NEW B, NEW m, MergedAs(m, O, J, B)
    PROVE  Fewer(m, J)
<1>1. PICK order \in GateOrders(Incoming(O, J)) : m = [Admit(J, order) EXCEPT !.semantic = @ \ Cascaded(B, J)]
  BY DEF MergedAs
<1> QED
  BY <1>1, MergedIs

\* Lemma: the step of Merge in these terms.
LEMMA MergeIs ==
    ASSUME TypeOK, Merge
    PROVE  LET O == brain["ours"]
               T == brain["theirs"]
               J == Join(O, T, base)
           IN /\ \E m : MergedAs(m, O, J, base) /\ brain' = [brain EXCEPT !["ours"] = m]
              /\ base' = T /\ report' = report
<1> DEFINE O == brain["ours"]
           T == brain["theirs"]
           J == Join(O, T, base)
<1>1. Joined(O, T) = J
  BY DEF Joined, Join
<1>2. PICK order \in GateOrders(Incoming(O, J)) :
        Becomes("ours", [Admit(J, order) EXCEPT !.semantic = @ \ Cascaded(base, J)])
  BY <1>1 DEF Merge, Incoming, Cascaded
<1>3. MergedAs([Admit(J, order) EXCEPT !.semantic = @ \ Cascaded(base, J)], O, J, base)
  BY DEF MergedAs
<1>4. base' = T /\ report' = report
  BY DEF Merge
<1> QED
  BY <1>2, <1>3, <1>4 DEF Becomes

\* Lemma: what a request that is granted writes.
LEMMA ClassifyIs ==
    ASSUME TypeOK, NEW side \in Sides, NEW request \in Requests, Classify(side, request)
    PROVE  LET b == brain[side]
               r == Judged(b, request)
           IN \E new \in SUBSET Blocks :
                /\ new \subseteq r.accepted \cup r.duplicate /\ r.accepted \subseteq new
                /\ new \subseteq r.accepted \cup b.semantic
                /\ brain' = [brain EXCEPT ![side] = Recorded(b, new)]
                /\ base' = base /\ report' = report
<1> DEFINE b == brain[side]
           r == Judged(b, request)
           new == r.accepted \cup CatalogRepairs(b, r.duplicate)
<1>1. b \in Versions /\ b.semantic \subseteq Blocks /\ request \in Seq(Blocks)
  BY InputsAssumption DEF TypeOK, Versions
<1>2. r.accepted \subseteq Blocks /\ r.duplicate \subseteq Blocks
  BY <1>1, JudgedHeld
<1>3. brain' = [brain EXCEPT ![side] = Recorded(b, new)] /\ base' = base /\ report' = report
  BY DEF Classify, Becomes
<1> HIDE DEF r, b
<1>4. /\ new \in SUBSET Blocks /\ new \subseteq r.accepted \cup r.duplicate /\ r.accepted \subseteq new
      /\ new \subseteq r.accepted \cup b.semantic
  BY <1>2 DEF CatalogRepairs
<1> HIDE DEF new
<1>5. /\ new \in SUBSET Blocks /\ new \subseteq r.accepted \cup r.duplicate /\ r.accepted \subseteq new
      /\ new \subseteq r.accepted \cup b.semantic
      /\ brain' = [brain EXCEPT ![side] = Recorded(b, new)]
      /\ base' = base /\ report' = report
  BY <1>3, <1>4
<1> QED
  BY <1>5 DEF r, b

-----------------------------------------------------------------------------
(* Types.                                                                  *)

\* Lemma: initial states are well typed.
LEMMA InitType ==
    ASSUME Init
    PROVE  TypeOK
<1>1. Genesis \in Versions
  BY StartAssumption DEF Genesis, Versions, OfKind
<1> QED
  BY <1>1, InputsAssumption DEF Init, TypeOK

\* Lemma: one brain moves to a version.
LEMMA BrainType ==
    ASSUME TypeOK, NEW side \in Sides, NEW b \in Versions, brain' = [brain EXCEPT ![side] = b]
    PROVE  brain' \in [Sides -> Versions]
BY DEF TypeOK

\* Lemma: a step of an operation moves nothing else.
LEMMA OperationType ==
    ASSUME TypeOK, NEW side \in Sides, Operation(side) \/ Commit(side)
    PROVE  /\ brain' \in [Sides -> Versions] /\ base' \in Versions
           /\ report' \in [Sides -> SUBSET OfKind(Blocks, "placement")]
<1> DEFINE b == brain[side]
<1>1. b \in Versions /\ base \in Versions /\ report \in [Sides -> SUBSET OfKind(Blocks, "placement")]
  BY DEF TypeOK
<1>2. ASSUME NEW request \in Requests, Classify(side, request)
      PROVE  brain' \in [Sides -> Versions] /\ base' = base /\ report' = report
  <2>1. PICK new \in SUBSET Blocks :
          brain' = [brain EXCEPT ![side] = Recorded(b, new)] /\ base' = base /\ report' = report
    BY <1>2, ClassifyIs
  <2> HIDE DEF b
  <2>2. Recorded(b, new) \in Versions
    BY <1>1, RecordedIs
  <2> QED
    BY <2>1, <2>2, BrainType
<1>3. ASSUME NEW candidates \in Proposals, Validate(side, candidates)
      PROVE  /\ brain' = brain /\ base' = base
             /\ report' \in [Sides -> SUBSET OfKind(Blocks, "placement")]
  <2>1. candidates \subseteq OfKind(Blocks, "placement")
    BY InputsAssumption
  <2> QED
    BY <1>1, <1>3, <2>1 DEF Validate
<1>4. ASSUME Commit(side)
      PROVE  /\ brain' \in [Sides -> Versions] /\ base' = base
             /\ report' \in [Sides -> SUBSET OfKind(Blocks, "placement")]
  <2>1. report[side] \in SUBSET Blocks
    BY <1>1 DEF OfKind
  <2>2. /\ brain' = [brain EXCEPT ![side] = Recorded(b, report[side])] /\ base' = base
        /\ report' = [report EXCEPT ![side] = {}]
    BY <1>4 DEF Commit, Becomes
  <2> HIDE DEF b
  <2>3. Recorded(b, report[side]) \in Versions
    BY <1>1, <2>1, RecordedIs
  <2> QED
    BY <1>1, <2>2, <2>3, BrainType
<1>5. ASSUME NEW d \in b.semantic, Demote(side, d)
      PROVE  brain' \in [Sides -> Versions] /\ base' = base /\ report' = report
  <2>1. [b EXCEPT !.hidden = @ \cup {d}] \in Versions
    BY <1>1 DEF Versions
  <2> QED
    BY <1>5, <2>1, BrainType DEF Demote, Becomes
<1>6. ASSUME NEW d \in b.semantic, Drop(side, d)
      PROVE  brain' \in [Sides -> Versions] /\ base' = base /\ report' = report
  <2>1. Without(b, {d}, {}) \in Versions
    BY <1>1, WithoutIs
  <2> QED
    BY <1>6, <2>1, BrainType DEF Drop, Becomes
<1>7. ASSUME NEW s \in Sources, DropSource(side, s)
      PROVE  brain' \in [Sides -> Versions] /\ base' = base /\ report' = report
  <2>1. Without(b, {}, {s}) \in Versions
    BY <1>1, WithoutIs
  <2> QED
    BY <1>7, <2>1, BrainType DEF DropSource, Becomes
<1>8. ASSUME NEW s \in Sources, Register(side, s)
      PROVE  brain' \in [Sides -> Versions] /\ base' = base /\ report' = report
  <2>1. [b EXCEPT !.canonical = @ \cup {s}] \in Versions
    BY <1>1 DEF Versions
  <2> QED
    BY <1>8, <2>1, BrainType DEF Register, Becomes
<1>9. ASSUME Merge
      PROVE  brain' \in [Sides -> Versions] /\ base' \in Versions /\ report' = report
  <2> DEFINE O == brain["ours"]
             T == brain["theirs"]
             J == Join(O, T, base)
  <2>1. O \in Versions /\ T \in Versions
    BY DEF TypeOK, Sides
  <2>2. PICK m : MergedAs(m, O, J, base) /\ brain' = [brain EXCEPT !["ours"] = m] /\ base' = T /\ report' = report
    BY <1>9, MergeIs
  <2>3. J \in Versions
    BY <1>1, <2>1, JoinIs
  <2> HIDE DEF O, T, J
  <2>4. m \in Versions
    BY <2>1, <2>2, <2>3, MergedFewer DEF Fewer
  <2> QED
    BY <2>1, <2>2, <2>4, BrainType DEF Sides
<1>10. ASSUME FastForward
       PROVE  brain' \in [Sides -> Versions] /\ base' \in Versions /\ report' = report
  <2>1. brain["theirs"] \in Versions /\ "ours" \in Sides
    BY DEF TypeOK, Sides
  <2> QED
    BY <1>10, <2>1, BrainType DEF FastForward, Becomes
<1> QED
  <2>1. CASE Commit(side)
    BY <2>1, <1>1, <1>4
  <2>2. CASE Operation(side)
    BY <2>2, <1>1, <1>2, <1>3, <1>5, <1>6, <1>7, <1>8, <1>9, <1>10 DEF Operation, TypeOK
  <2> QED
    BY <2>1, <2>2

\* Lemma: steps keep the types.
LEMMA NextType ==
    ASSUME TypeOK, [Next]_vars
    PROVE  TypeOK'
<1>1. CASE UNCHANGED vars
  BY <1>1 DEF vars, TypeOK
<1>2. CASE Next
  <2>1. ops' \in 0 .. MaxOps
    BY <1>2, InputsAssumption DEF Next, TypeOK
  <2>2. PICK side \in Sides : Operation(side) \/ Commit(side)
    BY <1>2 DEF Next
  <2> QED
    BY <2>1, <2>2, OperationType DEF TypeOK
<1> QED
  BY <1>1, <1>2

\* Every variable ranges over what the code can write, whatever the inputs.
THEOREM TypeCorrect == Spec => []TypeOK
<1>1. Init => TypeOK
  BY InitType
<1>2. TypeOK /\ [Next]_vars => TypeOK'
  BY NextType
<1> QED
  BY <1>1, <1>2, PTL DEF Spec

-----------------------------------------------------------------------------
(* Browsing lists what is held.                                            *)

\* A placement that is recorded as derived from its source, and is there, has its source.
Grounded(b) == \A p \in b.semantic \cap b.derived : Kind(p) = "placement" => p[2] \in b.canonical

\* One that is not recorded was there before.
Inherited(b, B) == \A p \in b.semantic \ b.derived : Kind(p) = "placement" => p \in B.semantic

BrowseInv ==
    /\ TypeOK /\ Inherited(brain["ours"], base)
    /\ \A side \in Sides : /\ Grounded(brain[side])
                           /\ \A p \in report[side] : p[2] \in brain[side].canonical

\* Lemma: the gate admits no placement of a source that is not held.
LEMMA AdmitHeld ==
    ASSUME NEW J \in Versions, NEW order \in Seq(Blocks), NEW p \in Admit(J, order).semantic,
           Kind(p) = "placement", p \in {order[i] : i \in 1 .. Len(order)}
    PROVE  p[2] \in J.canonical
<1> DEFINE N == Len(order)
<1>1. N \in Nat
  OBVIOUS
<1>2. PICK f : Sifting(f, J, order)
  BY SiftingExists
<1> DEFINE G == {n \in 0 .. N : \A i \in 1 .. n :
                    order[i] \in f[n].semantic /\ Kind(order[i]) = "placement" => order[i][2] \in J.canonical}
<1>3. 0 \in G
  BY <1>1
<1>4. ASSUME NEW n \in 1 .. N, n - 1 \in G
      PROVE  n \in G
  <2> SUFFICES ASSUME NEW i \in 1 .. n, order[i] \in f[n].semantic, Kind(order[i]) = "placement"
               PROVE  order[i][2] \in J.canonical
    BY <1>1
  <2> DEFINE v == f[n - 1]
  <2>1. f[n] = Sift(v, order[n]) /\ order[n] \in Blocks
    BY <1>2 DEF Sifting
  <2>2. v \in Versions /\ v.canonical = J.canonical /\ v.semantic \subseteq Blocks
    <3>1. n - 1 \in 0 .. N
      BY <1>1
    <3> QED
      BY <3>1, <1>2, SiftingFewer DEF Fewer, Versions
  <2>3. \A j \in 1 .. n - 1 :
            order[j] \in v.semantic /\ Kind(order[j]) = "placement" => order[j][2] \in J.canonical
    BY <1>4
  <2> HIDE DEF v
  <2>4. f[n].semantic \subseteq v.semantic
    BY <2>1, <2>2 DEF Sift, Versions
  <2>5. CASE i # n
    <3>1. i \in 1 .. n - 1
      BY <2>5, <1>1
    <3> QED
      BY <3>1, <2>3, <2>4
  <2>6. CASE i = n
    <3> DEFINE d == order[n]
    <3>1. d \in Blocks /\ f[n] = Sift(v, d) /\ d \in f[n].semantic /\ Kind(d) = "placement"
      BY <2>1, <2>6
    <3> HIDE DEF d
    <3>2. Verdict(LoadCatalogState(v, {d}), v.canonical, d) = "validated"
      BY <3>1, <2>2 DEF Sift, Versions
    <3>3. LoadCatalogState(v, {d}) \subseteq Blocks
      BY <2>2, Loaded DEF Load
    <3>4. d[2] \in v.canonical
      BY <3>1, <3>2, <3>3, Verdicts
    <3> QED
      BY <3>4, <2>2, <2>6 DEF d
  <2> QED
    BY <2>5, <2>6
<1>5. N \in G
  <2> HIDE DEF G, N
  <2>1. \A n \in 0 .. N : n \in G
    BY <1>1, <1>3, <1>4, Upto
  <2> QED
    BY <2>1, <1>1
<1>6. Admit(J, order) = f[N]
  BY <1>2 DEF Sifting
<1>7. PICK i \in 1 .. N : p = order[i]
  OBVIOUS
<1> QED
  BY <1>5, <1>6, <1>7

\* Lemma: a reconciliation keeps what it says of both histories.
LEMMA MergedGrounded ==
    ASSUME NEW O \in Versions, NEW T \in Versions, NEW B \in Versions,
           Grounded(O), Grounded(T), Inherited(O, B), NEW m, MergedAs(m, O, Join(O, T, B), B)
    PROVE  Grounded(m) /\ Inherited(m, T) /\ m.canonical = Join(O, T, B).canonical
<1> DEFINE J == Join(O, T, B)
           C == Cascaded(B, J)
<1>1. /\ J \in Versions
      /\ J.canonical = (O.canonical \cup T.canonical) \ (B.canonical \ (O.canonical \cap T.canonical))
      /\ J.semantic = (O.semantic \cup T.semantic) \ (B.semantic \ (O.semantic \cap T.semantic))
      /\ J.derived = O.derived \cup T.derived
  BY JoinIs
<1>2. PICK order \in GateOrders(Incoming(O, J)) : m = [Admit(J, order) EXCEPT !.semantic = @ \ C]
  BY DEF MergedAs
<1> HIDE DEF J
<1> DEFINE a == Admit(J, order)
<1>3. Fewer(a, J) /\ Fewer(m, J) /\ m.semantic = a.semantic \ C
  BY <1>1, <1>2, MergedIs
<1>4. order \in Seq(Blocks) /\ {order[i] : i \in 1 .. Len(order)} = J.semantic \ O.semantic
  <2>1. Incoming(O, J) \in SUBSET Blocks
    BY <1>1 DEF Incoming, Versions
  <2> QED
    BY <2>1, OrdersSorted DEF Incoming
<1>5. /\ m.semantic \subseteq J.semantic /\ m.semantic \subseteq a.semantic /\ m.semantic \cap C = {}
      /\ m.canonical = J.canonical /\ m.derived = J.derived
  BY <1>3 DEF Fewer
<1>6. ASSUME NEW p \in m.semantic \cap m.derived, Kind(p) = "placement"
      PROVE  p[2] \in m.canonical
  <2>1. CASE p \notin O.semantic
    <3>1. p \in a.semantic /\ p \in {order[i] : i \in 1 .. Len(order)}
      BY <2>1, <1>4, <1>5, <1>6
    <3> HIDE DEF a
    <3>2. p[2] \in J.canonical
      BY <3>1, <1>1, <1>4, <1>6, AdmitHeld DEF a
    <3> QED
      BY <3>2, <1>5
  <2>2. CASE p \in O.semantic
    <3> SUFFICES ASSUME p[2] \notin J.canonical PROVE FALSE
      BY <1>5
    <3>1. p[2] \notin B.canonical
      <4> SUFFICES ASSUME p[2] \in B.canonical PROVE FALSE
        OBVIOUS
      <4>1. p[2] \in B.canonical \ J.canonical /\ p \in J.semantic /\ p \in J.derived
        BY <1>5, <1>6
      <4>2. p \in B.semantic \ J.semantic \/ p \in C
        BY <4>1, <1>6 DEF Cascaded, Cascade
      <4> QED
        BY <4>1, <4>2, <1>5, <1>6
    <3>2. p[2] \notin O.canonical /\ p[2] \notin T.canonical
      BY <3>1, <1>1
    <3>3. p \notin O.derived
      BY <3>2, <2>2, <1>6 DEF Grounded
    <3>4. p \in B.semantic
      BY <3>3, <2>2, <1>6 DEF Inherited
    <3>5. p \in T.derived
      BY <3>3, <1>1, <1>5, <1>6
    <3>6. p \notin T.semantic
      BY <3>2, <3>5, <1>6 DEF Grounded
    <3> QED
      BY <3>4, <3>6, <1>1, <1>5, <1>6
  <2> QED
    BY <2>1, <2>2
<1>7. ASSUME NEW p \in m.semantic \ m.derived, Kind(p) = "placement"
      PROVE  p \in T.semantic
  <2> SUFFICES ASSUME p \notin T.semantic PROVE FALSE
    OBVIOUS
  <2>1. p \in O.semantic \ O.derived
    BY <1>1, <1>5, <1>7
  <2>2. p \in B.semantic
    BY <2>1, <1>7 DEF Inherited
  <2> QED
    BY <2>2, <1>1, <1>5, <1>7
<1> QED
  BY <1>5, <1>6, <1>7 DEF Grounded, Inherited, J

\* Lemma: what a report says of the brain it is about.
LEMMA ValidateIs ==
    ASSUME TypeOK, NEW side \in Sides, NEW candidates \in Proposals, Validate(side, candidates)
    PROVE  LET b == brain[side]
               R == report'[side]
           IN /\ brain' = brain /\ base' = base /\ \A other \in Sides \ {side} : report'[other] = report[other]
              /\ R \subseteq candidates /\ R \subseteq OfKind(Blocks, "placement")
              /\ \A p \in R :
                    /\ p \in Blocks /\ Kind(p) = "placement" /\ p \notin b.semantic
                    /\ Verdict(Load(b.semantic, b.hidden), b.canonical, p) = "validated"
<1> DEFINE b == brain[side]
           R == report'[side]
<1>1. /\ brain' = brain /\ base' = base /\ candidates \subseteq OfKind(Blocks, "placement")
      /\ report' = [report EXCEPT ![side] = {p \in candidates :
            /\ p \notin b.semantic
            /\ PlacementVerdict(LoadCatalogState(b, {p}), b.canonical, p) = "validated"}]
  BY InputsAssumption DEF Validate
<1>2. /\ R = {p \in candidates :
            /\ p \notin b.semantic
            /\ PlacementVerdict(LoadCatalogState(b, {p}), b.canonical, p) = "validated"}
      /\ \A other \in Sides \ {side} : report'[other] = report[other]
  BY <1>1 DEF TypeOK
<1>3. ASSUME NEW p \in R
      PROVE  /\ p \in Blocks /\ Kind(p) = "placement" /\ p \notin b.semantic
             /\ Verdict(Load(b.semantic, b.hidden), b.canonical, p) = "validated"
  <2>1. p \in Blocks /\ Kind(p) = "placement" /\ p \notin b.semantic
    BY <1>1, <1>2, <1>3 DEF OfKind
  <2>2. PlacementVerdict(LoadCatalogState(b, {p}), b.canonical, p) = "validated"
    BY <1>2, <1>3
  <2>3. b.semantic \ {p} = b.semantic
    BY <2>1
  <2>4. LoadCatalogState(b, {p}) = Load(b.semantic, b.hidden)
    BY <2>3, Loaded
  <2>5. Verdict(Load(b.semantic, b.hidden), b.canonical, p) = "validated"
    BY <2>1, <2>2, <2>4 DEF Verdict
  <2> QED
    BY <2>1, <2>5
<1> QED
  BY <1>1, <1>2, <1>3

\* Lemma: initially browsing is as recorded.
LEMMA InitBrowse ==
    ASSUME Init
    PROVE  BrowseInv
<1>1. TypeOK
  BY InitType
<1>2. Grounded(Genesis)
  BY StartAssumption, Shapes DEF Grounded, Genesis
<1>3. Inherited(Genesis, Genesis)
  BY DEF Inherited
<1> QED
  BY <1>1, <1>2, <1>3 DEF Init, BrowseInv, Sides

\* Lemma: what one brain does to itself.
LEMMA BrowseOne ==
    ASSUME BrowseInv, NEW side \in Sides, NEW b, Grounded(b),
           side = "ours" => Inherited(b, base),
           brain' = [brain EXCEPT ![side] = b], base' = base,
           \A other \in Sides \ {side} : report'[other] = report[other],
           \A p \in report'[side] : p[2] \in b.canonical
    PROVE  /\ Inherited(brain'["ours"], base')
           /\ \A other \in Sides : /\ Grounded(brain'[other])
                                   /\ \A p \in report'[other] : p[2] \in brain'[other].canonical
<1>1. brain'[side] = b /\ \A other \in Sides \ {side} : brain'[other] = brain[other]
  BY DEF BrowseInv, TypeOK
<1>2. Inherited(brain'["ours"], base')
  BY <1>1 DEF BrowseInv, Sides
<1>3. ASSUME NEW other \in Sides
      PROVE  /\ Grounded(brain'[other])
             /\ \A p \in report'[other] : p[2] \in brain'[other].canonical
  BY <1>1, <1>3 DEF BrowseInv
<1> QED
  BY <1>2, <1>3

\* Lemma: recording placements of sources that are held.
LEMMA BrowseRecorded ==
    ASSUME NEW b \in Versions, Grounded(b), NEW new \in SUBSET Blocks,
           \A p \in new : Kind(p) = "placement" => p[2] \in b.canonical
    PROVE  LET r == Recorded(b, new) IN
           Grounded(r) /\ \A B : Inherited(b, B) => Inherited(r, B)
<1> DEFINE r == Recorded(b, new)
<1>1. /\ r.canonical = b.canonical /\ r.semantic = b.semantic \cup new
      /\ r.derived = b.derived \cup OfKind(new, "placement")
  BY RecordedIs
<1> HIDE DEF r
<1>2. Grounded(r)
  BY <1>1 DEF Grounded, OfKind
<1>3. \A B : Inherited(b, B) => Inherited(r, B)
  BY <1>1 DEF Inherited, OfKind
<1> QED
  BY <1>2, <1>3 DEF r

\* Lemma: leaving blocks out, and with a source what is recorded as derived from it.
LEMMA BrowseWithout ==
    ASSUME NEW b \in Versions, Grounded(b), NEW out, NEW sources
    PROVE  LET r == Without(b, out, sources) IN
           Grounded(r) /\ \A B : Inherited(b, B) => Inherited(r, B)
<1> DEFINE r == Without(b, out, sources)
<1>1. /\ r.canonical = b.canonical \ sources /\ r.derived = b.derived
      /\ r.semantic = b.semantic \ (out \cup Cascade(b, out, sources))
  BY WithoutIs
<1> HIDE DEF r
<1>2. Grounded(r)
  <2> SUFFICES ASSUME NEW p \in r.semantic \cap r.derived, Kind(p) = "placement"
               PROVE  p[2] \in r.canonical
    BY DEF Grounded
  <2>1. p \in b.semantic \ out /\ p \in b.derived /\ p \notin Cascade(b, out, sources)
    BY <1>1
  <2>2. p[2] \notin sources
    BY <2>1 DEF Cascade
  <2> QED
    BY <2>1, <2>2, <1>1 DEF Grounded
<1>3. \A B : Inherited(b, B) => Inherited(r, B)
  BY <1>1 DEF Inherited
<1> QED
  BY <1>2, <1>3 DEF r

\* Lemma: a step keeps browsing as recorded, where a report is committed before anything else happens.
LEMMA NextBrowse ==
    ASSUME Waits = {}, BrowseInv, TypeOK', NEW side \in Sides, (Free(side) /\ Operation(side)) \/ Commit(side)
    PROVE  BrowseInv'
<1> DEFINE b == brain[side]
           Kept == /\ Inherited(brain'["ours"], base')
                   /\ \A other \in Sides : /\ Grounded(brain'[other])
                                           /\ \A p \in report'[other] : p[2] \in brain'[other].canonical
<1>1. /\ b \in Versions /\ Grounded(b) /\ TypeOK /\ (side = "ours" => Inherited(b, base))
      /\ report \in [Sides -> SUBSET OfKind(Blocks, "placement")]
      /\ \A p \in report[side] : p[2] \in b.canonical
  BY DEF BrowseInv, TypeOK
<1>2. CASE Commit(side)
  <2>1. /\ brain' = [brain EXCEPT ![side] = Recorded(b, report[side])] /\ base' = base
        /\ report' = [report EXCEPT ![side] = {}]
    BY <1>2 DEF Commit, Becomes
  <2>2. report'[side] = {} /\ \A other \in Sides \ {side} : report'[other] = report[other]
    BY <1>1, <2>1
  <2>3. report[side] \in SUBSET Blocks
    BY <1>1 DEF OfKind
  <2> HIDE DEF b
  <2> DEFINE r == Recorded(b, report[side])
  <2>4. Grounded(r) /\ (side = "ours" => Inherited(r, base))
    BY <1>1, <2>3, BrowseRecorded
  <2> HIDE DEF r
  <2>5. Kept
    BY <2>1, <2>2, <2>4, BrowseOne DEF r
  <2> QED
    BY <2>5 DEF BrowseInv
<1>3. CASE report[side] = {} /\ Operation(side)
  <2>0. report' = report => /\ \A other \in Sides \ {side} : report'[other] = report[other]
                            /\ report'[side] = {}
    BY <1>3
  <2>1. ASSUME NEW request \in Requests, Classify(side, request)
        PROVE  Kept
    <3> DEFINE q == Judged(b, request)
    <3>1. PICK new \in SUBSET Blocks :
            /\ new \subseteq q.accepted \cup q.duplicate
            /\ brain' = [brain EXCEPT ![side] = Recorded(b, new)] /\ base' = base /\ report' = report
      BY <1>1, <2>1, ClassifyIs
    <3>2. \A p \in q.accepted \cup q.duplicate : Kind(p) = "placement" => p[2] \in b.canonical
      <4>1. b.semantic \subseteq Blocks /\ request \in Seq(Blocks)
        BY <1>1, InputsAssumption DEF Versions
      <4> HIDE DEF b
      <4> QED
        BY <4>1, JudgedHeld
    <3> HIDE DEF b, q
    <3> DEFINE r == Recorded(b, new)
    <3>3. Grounded(r) /\ (side = "ours" => Inherited(r, base))
      BY <1>1, <3>1, <3>2, BrowseRecorded
    <3> HIDE DEF r
    <3> QED
      BY <3>1, <2>0, <3>3, BrowseOne DEF r
  <2>2. ASSUME NEW candidates \in Proposals, Validate(side, candidates)
        PROVE  Kept
    <3>1. /\ brain' = brain /\ base' = base /\ \A other \in Sides \ {side} : report'[other] = report[other]
          /\ \A p \in report'[side] :
                    /\ p \in Blocks /\ Kind(p) = "placement"
                    /\ Verdict(Load(b.semantic, b.hidden), b.canonical, p) = "validated"
      BY <1>1, <2>2, ValidateIs
    <3>2. Load(b.semantic, b.hidden) \subseteq Blocks
      BY <1>1 DEF Load, Versions
    <3>3. \A p \in report'[side] : p[2] \in b.canonical
      BY <3>1, <3>2, Verdicts
    <3>4. brain' = [brain EXCEPT ![side] = b]
      BY <3>1, <1>1 DEF TypeOK
    <3> HIDE DEF b
    <3> QED
      BY <1>1, <3>1, <3>3, <3>4, BrowseOne
  <2>3. ASSUME NEW d \in b.semantic, Demote(side, d)
        PROVE  Kept
    <3> DEFINE r == [b EXCEPT !.hidden = @ \cup {d}]
    <3>1. brain' = [brain EXCEPT ![side] = r] /\ base' = base /\ report' = report
      BY <2>3 DEF Demote, Becomes
    <3>2. r.semantic = b.semantic /\ r.derived = b.derived /\ r.canonical = b.canonical
      BY <1>1 DEF Versions
    <3> HIDE DEF r, b
    <3>3. Grounded(r) /\ (side = "ours" => Inherited(r, base))
      BY <1>1, <3>2 DEF Grounded, Inherited
    <3> QED
      BY <3>1, <2>0, <3>3, BrowseOne
  <2>4. ASSUME NEW d \in b.semantic, Drop(side, d)
        PROVE  Kept
    <3> DEFINE r == Without(b, {d}, {})
    <3>1. brain' = [brain EXCEPT ![side] = r] /\ base' = base /\ report' = report
      BY <2>4 DEF Drop, Becomes
    <3>2. Grounded(r) /\ (side = "ours" => Inherited(r, base))
      BY <1>1, BrowseWithout
    <3> HIDE DEF r, b
    <3> QED
      BY <3>1, <2>0, <3>2, BrowseOne
  <2>5. ASSUME NEW s \in Sources, DropSource(side, s)
        PROVE  Kept
    <3> DEFINE r == Without(b, {}, {s})
    <3>1. brain' = [brain EXCEPT ![side] = r] /\ base' = base /\ report' = report
      BY <2>5 DEF DropSource, Becomes
    <3>2. Grounded(r) /\ (side = "ours" => Inherited(r, base))
      BY <1>1, BrowseWithout
    <3> HIDE DEF r, b
    <3> QED
      BY <3>1, <2>0, <3>2, BrowseOne
  <2>6. ASSUME NEW s \in Sources, Register(side, s)
        PROVE  Kept
    <3> DEFINE r == [b EXCEPT !.canonical = @ \cup {s}]
    <3>1. brain' = [brain EXCEPT ![side] = r] /\ base' = base /\ report' = report
      BY <2>6 DEF Register, Becomes
    <3>2. r.semantic = b.semantic /\ r.derived = b.derived /\ b.canonical \subseteq r.canonical
      BY <1>1 DEF Versions
    <3> HIDE DEF r, b
    <3>3. Grounded(r) /\ (side = "ours" => Inherited(r, base))
      BY <1>1, <3>2 DEF Grounded, Inherited
    <3> QED
      BY <3>1, <2>0, <3>3, BrowseOne
  <2>7. ASSUME side = "ours", Merge \/ FastForward
        PROVE  Kept
    <3> DEFINE T == brain["theirs"]
    <3>1. /\ T \in Versions /\ Grounded(T) /\ \A p \in report["theirs"] : p[2] \in T.canonical
      BY <1>1 DEF BrowseInv, TypeOK, Sides
    <3>2. PICK m : /\ Grounded(m) /\ Inherited(m, T)
                   /\ brain' = [brain EXCEPT !["ours"] = m] /\ base' = T /\ report' = report
      <4>1. CASE Merge
        <5>1. PICK m : MergedAs(m, b, Join(b, T, base), base) /\ brain' = [brain EXCEPT !["ours"] = m]
                       /\ base' = T /\ report' = report
          BY <1>1, <2>7, <4>1, MergeIs
        <5>2. base \in Versions /\ Inherited(b, base)
          BY <1>1, <2>7 DEF TypeOK
        <5> HIDE DEF b, T
        <5>3. Grounded(m) /\ Inherited(m, T)
          BY <1>1, <3>1, <5>1, <5>2, MergedGrounded
        <5> QED
          BY <5>1, <5>3
      <4>2. CASE FastForward
        <5>1. brain' = [brain EXCEPT !["ours"] = T] /\ base' = T /\ report' = report
          BY <4>2 DEF FastForward, Becomes
        <5>2. Inherited(T, T)
          BY DEF Inherited
        <5> QED
          BY <3>1, <5>1, <5>2
      <4> QED
        BY <2>7, <4>1, <4>2
    <3>3. brain'["ours"] = m /\ brain'["theirs"] = T /\ report'["ours"] = {} /\ report'["theirs"] = report["theirs"]
      BY <3>2, <1>1, <2>0, <2>7 DEF TypeOK, Sides
    <3> HIDE DEF T
    <3> QED
      BY <3>1, <3>2, <3>3 DEF Sides
  <2>8. Kept
    <3> HIDE DEF Kept
    <3> QED
      BY <1>3, <2>1, <2>2, <2>3, <2>4, <2>5, <2>6, <2>7 DEF Operation
  <2> QED
    BY <2>8 DEF BrowseInv
<1> QED
  BY <1>2, <1>3 DEF Free

\* Browsing lists no source that is not held, through drops, registrations and reconciliations,
\* unless its placement was never recorded; where a report is committed before the brain does
\* anything else, as ingest does.
THEOREM BrowseAlwaysHeld ==
    ASSUME Waits = {}
    PROVE  Spec => []BrowseHeld
<1>1. Init => BrowseInv
  BY InitBrowse
<1>2. BrowseInv /\ [Next]_vars => BrowseInv'
  <2> SUFFICES ASSUME BrowseInv, [Next]_vars
               PROVE  BrowseInv'
    OBVIOUS
  <2>1. TypeOK'
    BY NextType DEF BrowseInv
  <2>2. CASE UNCHANGED vars
    BY <2>2, <2>1 DEF vars, BrowseInv
  <2>3. CASE Next
    <3>1. PICK side \in Sides : (Free(side) /\ Operation(side)) \/ Commit(side)
      BY <2>3 DEF Next
    <3> QED
      BY <3>1, <2>1, NextBrowse
  <2> QED
    BY <2>2, <2>3
<1>3. BrowseInv => BrowseHeld
  <2> SUFFICES ASSUME BrowseInv, NEW side \in Sides, NEW s \in Sources \ brain[side].canonical,
                      NEW c \in Known(Accessible(brain[side])), s \in SourcesFor(Accessible(brain[side]), c)
               PROVE  \E n \in Classes : Placement(s, n) \in brain[side].semantic \ brain[side].derived
    BY DEF BrowseHeld
  <2> DEFINE b == brain[side]
             seen == Accessible(b)
  <2>1. b \in Versions /\ Grounded(b)
    BY DEF BrowseInv, TypeOK
  <2>2. seen \subseteq b.semantic /\ seen \subseteq Blocks
    BY <2>1, Loaded DEF Load, Versions
  <2> HIDE DEF seen
  <2>3. PICK n \in Known(seen) : Placement(s, n) \in seen
    BY DEF SourcesFor, ClassesOf, seen
  <2>4. n \in Classes
    BY <2>2, <2>3, Shapes DEF Known, OfKind
  <2>5. Kind(Placement(s, n)) = "placement" /\ Placement(s, n)[2] = s
    BY Made
  <2>6. Placement(s, n) \notin b.derived
    BY <2>1, <2>2, <2>3, <2>5 DEF Grounded
  <2> QED
    BY <2>2, <2>3, <2>4, <2>6
<1> QED
  BY <1>1, <1>2, <1>3, PTL DEF Spec

-----------------------------------------------------------------------------
(* The catalog makes sense.                                                *)

\* What a caller has to see to: a scheme stays as it was declared, and what a report is asked about
\* places no source twice in a scheme.
SchemesStay == "scheme" \notin Demotable \cup Droppable
Apart ==
    \A candidates \in Proposals : \A p, q \in candidates :
        p[2] = q[2] /\ SchemeOf[p[3]] = SchemeOf[q[3]] => p = q

\* A version in order, and a report that it has room for.
InOrder(b) == Stands(b.semantic, b.hidden)
Pending(b, R) == Fits(Load(b.semantic, b.hidden), R)

SoundInv ==
    /\ TypeOK
    /\ \A side \in Sides : InOrder(brain[side]) /\ Pending(brain[side], report[side])
    /\ \A d \in base.semantic : Kind(d) = "scheme" => d \in brain["theirs"].semantic

\* Lemma: with nothing pending, any catalog will do.
LEMMA PendingNone == \A b : Pending(b, {})
BY DEF Pending, Fits

\* Lemma: recording what is in order.
LEMMA RecordedStands ==
    ASSUME NEW b \in Versions, InOrder(b), NEW new \in SUBSET Blocks, NEW R,
           Framed(Load(b.semantic, b.hidden) \cup R), Exclusive(Load(b.semantic, b.hidden) \cup R),
           R \subseteq new, new \subseteq R \cup b.semantic
    PROVE  InOrder(Recorded(b, new))
<1> DEFINE L == Load(b.semantic, b.hidden)
           r == Recorded(b, new)
<1>1. r.semantic = b.semantic \cup new /\ r.hidden = b.hidden
  BY RecordedIs
<1>2. L \subseteq b.semantic
  BY DEF Load
<1>3. b.semantic \cup (L \cup R) = b.semantic \cup new
  BY <1>2
<1>4. L \subseteq L \cup R
  OBVIOUS
<1> HIDE DEF r
<1>5. Stands(b.semantic \cup (L \cup R), b.hidden)
  BY <1>4, Grows DEF InOrder
<1> QED
  BY <1>1, <1>3, <1>5 DEF InOrder, r

\* Lemma: leaving out what is no scheme.
LEMMA WithoutStands ==
    ASSUME NEW b \in Versions, InOrder(b), NEW out, \A d \in out : Kind(d) # "scheme", NEW sources
    PROVE  InOrder(Without(b, out, sources))
<1> DEFINE C == Cascade(b, out, sources)
           T == b.semantic \ (out \cup C)
           r == Without(b, out, sources)
<1>1. r.semantic = T /\ r.hidden = b.hidden
  BY WithoutIs
<1> HIDE DEF r
<1>2. \A d \in C : Kind(d) \in {"hierarchy", "placement"}
  BY DEF Cascade
<1>3. \A d \in b.semantic : Kind(d) = "scheme" => d \in T
  BY <1>2
<1>4. ASSUME NEW d \in T, NEW c \in Ends(d)
      PROVE  Class(c) \in T
  <2>1. Class(c) \in b.semantic
    BY <1>4 DEF InOrder, Stands, Framed
  <2>2. Class(c) \notin C
    BY <1>2, Made
  <2>3. Class(c) \notin out
    <3> SUFFICES ASSUME Class(c) \in out PROVE d \in C
      BY <1>4
    <3>1. d \in b.semantic \ out
      BY <1>4
    <3>2. \/ Kind(d) = "hierarchy" /\ c \in {d[2], d[3]}
          \/ Kind(d) = "placement" /\ c = d[3]
      BY <1>4 DEF Ends
    <3> QED
      BY <3>1, <3>2 DEF Cascade
  <2> QED
    BY <2>1, <2>2, <2>3
<1>5. T \subseteq b.semantic /\ \A d \in b.hidden : Kind(d) # "scheme"
  BY DEF InOrder, Stands
<1> HIDE DEF T
<1>6. Stands(T, b.hidden)
  BY <1>3, <1>4, <1>5, Shrinks DEF InOrder
<1> QED
  BY <1>1, <1>6 DEF InOrder, r

\* Lemma: a reconciliation of histories that are in order is.
LEMMA MergedStands ==
    ASSUME NEW O \in Versions, NEW T \in Versions, NEW B \in Versions, InOrder(O), InOrder(T),
           \A d \in B.semantic : Kind(d) = "scheme" => d \in T.semantic,
           NEW m, MergedAs(m, O, Join(O, T, B), B)
    PROVE  InOrder(m)
<1> DEFINE J == Join(O, T, B)
           C == Cascaded(B, J)
<1>1. /\ J \in Versions
      /\ J.semantic = (O.semantic \cup T.semantic) \ (B.semantic \ (O.semantic \cap T.semantic))
      /\ J.hidden = O.hidden \cup T.hidden
  BY JoinIs
<1>2. PICK order \in GateOrders(Incoming(O, J)) : m = [Admit(J, order) EXCEPT !.semantic = @ \ C]
  BY DEF MergedAs
<1> HIDE DEF J
<1> DEFINE a == Admit(J, order)
<1>3. Fewer(a, J) /\ Fewer(m, J) /\ m.semantic = a.semantic \ C
  BY <1>1, <1>2, MergedIs
<1>4. order \in Seq(Blocks) /\ Sorted(order) /\ {order[i] : i \in 1 .. Len(order)} = J.semantic \ O.semantic
  <2>1. Incoming(O, J) \in SUBSET Blocks
    BY <1>1 DEF Incoming, Versions
  <2> QED
    BY <2>1, OrdersSorted DEF Incoming
<1>5. \A d \in C : Kind(d) \in {"hierarchy", "placement"}
  BY DEF Cascaded, Cascade
<1> DEFINE K == (J.semantic \cap O.semantic) \ C
<1>6. Settled(J.semantic, order, 0, C) = K
  <2>1. {order[i] : i \in 0 + 1 .. Len(order)} = J.semantic \ O.semantic
    BY <1>4
  <2> HIDE DEF C
  <2> QED
    BY <2>1 DEF Settled
<1>7. Stands(K, J.hidden)
  <2>1. \A d \in J.hidden : Kind(d) # "scheme"
    BY <1>1 DEF InOrder, Stands
  <2>2. ASSUME NEW d \in O.semantic, Kind(d) = "scheme"
        PROVE  d \in K
    BY <1>1, <1>5, <2>2
  <2>3. ASSUME NEW d \in K, NEW c \in Ends(d)
        PROVE  Class(c) \in K
    <3>1. Class(c) \in O.semantic
      BY <2>3 DEF InOrder, Stands, Framed
    <3>2. Class(c) \notin C
      BY <1>5, Made
    <3>3. Class(c) \in J.semantic
      <4> SUFFICES ASSUME Class(c) \notin J.semantic PROVE d \in C
        BY <2>3
      <4>1. Class(c) \in B.semantic \ J.semantic
        BY <3>1, <1>1
      <4>2. d \in J.semantic \ (B.semantic \ J.semantic)
        BY <2>3
      <4>3. \/ Kind(d) = "hierarchy" /\ c \in {d[2], d[3]}
            \/ Kind(d) = "placement" /\ c = d[3]
        BY <2>3 DEF Ends
      <4> QED
        BY <4>1, <4>2, <4>3 DEF Cascaded, Cascade
    <3> QED
      BY <3>1, <3>2, <3>3
  <2>4. K \subseteq O.semantic /\ O.hidden \subseteq J.hidden
    BY <1>1
  <2> HIDE DEF K
  <2>5. Stands(O.semantic, O.hidden)
    BY DEF InOrder
  <2> QED
    BY <2>1, <2>2, <2>3, <2>4, <2>5, Shrinks
<1>8. \A i \in 1 .. Len(order) : order[i] \in J.semantic
  BY <1>4
<1> HIDE DEF K, C
<1>9. Stands(a.semantic \ C, J.hidden)
  <2> DEFINE Q == {X \in SUBSET Blocks : Stands(X, J.hidden)}
  <2>1. Settled(J.semantic, order, 0, C) \in Q
    BY <1>6, <1>7 DEF Stands, Framed
  <2>2. \A d \in C : Kind(d) \notin {"scheme", "class"}
    BY <1>5
  <2>3. ASSUME NEW M \in SUBSET Blocks, NEW n \in 1 .. Len(order),
               Settled(M, order, n - 1, C) \in Q, order[n] \in M,
               Verdict(Load(M \ {order[n]}, J.hidden), J.canonical, order[n]) = "validated"
        PROVE  Settled(M, order, n, C) \in Q
    <3>1. Stands(Settled(M, order, n, C), J.hidden)
      BY <1>4, <2>2, <2>3, SettleOne
    <3> QED
      BY <3>1 DEF Stands, Framed
  <2> HIDE DEF Q
  <2>4. a.semantic \ C \in Q
    BY <1>1, <1>4, <1>8, <2>1, <2>3, AdmitKeeps
  <2> QED
    BY <2>4 DEF Q
<1> QED
  BY <1>3, <1>9 DEF InOrder, Fewer

\* Lemma: what one brain does to itself.
LEMMA SoundOne ==
    ASSUME SoundInv, NEW side \in Sides, NEW b, InOrder(b),
           \A d \in brain[side].semantic : Kind(d) = "scheme" => d \in b.semantic,
           brain' = [brain EXCEPT ![side] = b], base' = base,
           \A other \in Sides \ {side} : report'[other] = report[other],
           Pending(b, report'[side])
    PROVE  /\ \A other \in Sides : InOrder(brain'[other]) /\ Pending(brain'[other], report'[other])
           /\ \A d \in base'.semantic : Kind(d) = "scheme" => d \in brain'["theirs"].semantic
<1>1. brain'[side] = b /\ \A other \in Sides \ {side} : brain'[other] = brain[other]
  BY DEF SoundInv, TypeOK
<1>2. ASSUME NEW d \in base'.semantic, Kind(d) = "scheme"
      PROVE  d \in brain'["theirs"].semantic
  <2>1. d \in brain["theirs"].semantic
    BY <1>2 DEF SoundInv
  <2> QED
    BY <1>1, <1>2, <2>1 DEF Sides
<1>3. ASSUME NEW other \in Sides
      PROVE  InOrder(brain'[other]) /\ Pending(brain'[other], report'[other])
  <2>1. CASE other = side
    BY <2>1, <1>1
  <2>2. CASE other # side
    BY <2>2, <1>1, <1>3 DEF SoundInv
  <2> QED
    BY <2>1, <2>2
<1> QED
  BY <1>2, <1>3

\* Lemma: what a report admits can be committed, all of it, to the brain it was judged against.
LEMMA ValidateFits ==
    ASSUME NEW b \in Versions, InOrder(b), NEW R, R \subseteq OfKind(Blocks, "placement"),
           \A p \in R : Verdict(Load(b.semantic, b.hidden), b.canonical, p) = "validated",
           \A p, q \in R : p[2] = q[2] /\ SchemeOf[p[3]] = SchemeOf[q[3]] => p = q
    PROVE  Pending(b, R)
<1> DEFINE L == Load(b.semantic, b.hidden)
<1>1. Framed(L) /\ L \subseteq Blocks
  BY LoadFramed DEF InOrder, Stands, Framed
<1>2. ASSUME NEW p \in R
      PROVE  /\ Class(p[3]) \in L
             /\ Scheme(SchemeOf[p[3]], TRUE) \in L =>
                 \A c \in Classes : SchemeOf[c] = SchemeOf[p[3]] /\ Placement(p[2], c) \in L \cup R => c = p[3]
  <2>1. p \in Blocks /\ Kind(p) = "placement" /\ Verdict(L, b.canonical, p) = "validated"
    BY DEF OfKind
  <2> HIDE DEF L
  <2>2. Class(p[3]) \in L /\ (Scheme(SchemeOf[p[3]], TRUE) \in L => Rivals(L, p[2], p[3]) = {})
    BY <1>1, <2>1, Verdicts
  <2>3. ASSUME Scheme(SchemeOf[p[3]], TRUE) \in L, NEW c \in Classes, SchemeOf[c] = SchemeOf[p[3]],
               Placement(p[2], c) \in L \cup R
        PROVE  c = p[3]
    <3>1. CASE Placement(p[2], c) \in L
      <4>1. \A r \in Classes : SchemeOf[r] = SchemeOf[p[3]] /\ Placement(p[2], r) \in L => r = p[3]
        BY <1>1, <2>2, <2>3, NoRivals
      <4> QED
        BY <3>1, <4>1, <2>3
    <3>2. CASE Placement(p[2], c) \in R
      <4> DEFINE q == Placement(p[2], c)
      <4>1. q \in R /\ q[2] = p[2] /\ q[3] = c
        BY <3>2, Made
      <4> HIDE DEF q
      <4>2. p = q
        BY <4>1, <2>3
      <4> QED
        BY <4>1, <4>2
    <3> QED
      BY <3>1, <3>2, <2>3
  <2> QED
    BY <2>2, <2>3
<1> HIDE DEF L
<1>3. Fits(L, R)
  BY <1>2 DEF Fits
<1> QED
  BY <1>3 DEF Pending, L

\* Lemma: a step keeps the catalog in order.
LEMMA NextSound ==
    ASSUME Waits = {}, SchemesStay, Apart, SoundInv, TypeOK', NEW side \in Sides,
           (Free(side) /\ Operation(side)) \/ Commit(side)
    PROVE  SoundInv'
<1> DEFINE b == brain[side]
           L == Load(b.semantic, b.hidden)
           Kept == /\ \A other \in Sides : InOrder(brain'[other]) /\ Pending(brain'[other], report'[other])
                   /\ \A d \in base'.semantic : Kind(d) = "scheme" => d \in brain'["theirs"].semantic
<1>1. /\ b \in Versions /\ InOrder(b) /\ TypeOK /\ Pending(b, report[side])
      /\ report \in [Sides -> SUBSET OfKind(Blocks, "placement")]
  BY DEF SoundInv, TypeOK
<1>l. Framed(L) /\ Exclusive(L)
  BY <1>1, LoadFramed DEF InOrder, Stands
<1>2. CASE Commit(side)
  <2>1. /\ brain' = [brain EXCEPT ![side] = Recorded(b, report[side])] /\ base' = base
        /\ report' = [report EXCEPT ![side] = {}]
    BY <1>2 DEF Commit, Becomes
  <2>2. report'[side] = {} /\ \A other \in Sides \ {side} : report'[other] = report[other]
    BY <1>1, <2>1
  <2>3. report[side] \in SUBSET Blocks /\ report[side] \subseteq OfKind(Blocks, "placement")
    BY <1>1 DEF OfKind
  <2> DEFINE R == report[side]
             r == Recorded(b, R)
  <2>4. Framed(L \cup R) /\ Exclusive(L \cup R)
    BY <1>1, <1>l, <2>3, AddPlacements DEF Pending
  <2> HIDE DEF b
  <2>5. InOrder(r)
    BY <1>1, <2>3, <2>4, RecordedStands
  <2>6. \A d \in b.semantic : d \in r.semantic
    BY <1>1, <2>3, RecordedIs
  <2>7. Pending(r, report'[side])
    BY <2>2, PendingNone
  <2> HIDE DEF r
  <2>8. Kept
    BY <2>1, <2>2, <2>5, <2>6, <2>7, SoundOne DEF r, b
  <2> QED
    BY <2>8 DEF SoundInv
<1>3. CASE report[side] = {} /\ Operation(side)
  <2>0. report' = report => /\ \A other \in Sides \ {side} : report'[other] = report[other]
                            /\ \A r : Pending(r, report'[side])
    BY <1>3, PendingNone
  <2>1. ASSUME NEW request \in Requests, Classify(side, request)
        PROVE  Kept
    <3> DEFINE q == Judged(b, request)
    <3>1. PICK new \in SUBSET Blocks :
            /\ q.accepted \subseteq new /\ new \subseteq q.accepted \cup b.semantic
            /\ brain' = [brain EXCEPT ![side] = Recorded(b, new)] /\ base' = base /\ report' = report
      BY <1>1, <2>1, ClassifyIs
    <3>2. Framed(q.seen) /\ Exclusive(q.seen) /\ q.seen = L \cup q.accepted
      <4>1. request \in Seq(Blocks) /\ Stands(b.semantic, b.hidden)
        BY <1>1, InputsAssumption DEF InOrder
      <4> HIDE DEF b
      <4> QED
        BY <4>1, JudgedStands
    <3> HIDE DEF b, q
    <3> DEFINE r == Recorded(b, new)
    <3>3. InOrder(r)
      BY <1>1, <3>1, <3>2, RecordedStands
    <3>4. \A d \in b.semantic : d \in r.semantic
      BY <1>1, RecordedIs
    <3> HIDE DEF r
    <3> QED
      BY <3>1, <2>0, <3>3, <3>4, SoundOne DEF r, b
  <2>2. ASSUME NEW candidates \in Proposals, Validate(side, candidates)
        PROVE  Kept
    <3> DEFINE R == report'[side]
    <3>1. /\ brain' = brain /\ base' = base /\ \A other \in Sides \ {side} : report'[other] = report[other]
          /\ R \subseteq candidates /\ R \subseteq OfKind(Blocks, "placement")
          /\ \A p \in R : Verdict(L, b.canonical, p) = "validated"
      BY <1>1, <2>2, ValidateIs
    <3>2. \A p, q \in R : p[2] = q[2] /\ SchemeOf[p[3]] = SchemeOf[q[3]] => p = q
      BY <3>1 DEF Apart
    <3>3. \E X : X = R
      OBVIOUS
    <3>4. PICK X : X = R
      BY <3>3
    <3>5. /\ X \subseteq OfKind(Blocks, "placement") /\ \A p \in X : Verdict(L, b.canonical, p) = "validated"
          /\ \A p, q \in X : p[2] = q[2] /\ SchemeOf[p[3]] = SchemeOf[q[3]] => p = q
      BY <3>1, <3>2, <3>4
    <3> HIDE DEF R
    <3>6. Pending(b, X)
      BY <1>1, <3>5, ValidateFits
    <3>7. Pending(b, report'[side])
      BY <3>6, <3>4 DEF R
    <3>8. brain' = [brain EXCEPT ![side] = b]
      BY <3>1, <1>1 DEF TypeOK
    <3> QED
      BY <1>1, <3>1, <3>7, <3>8, SoundOne
  <2>3. ASSUME NEW d \in b.semantic, Demote(side, d)
        PROVE  Kept
    <3> DEFINE r == [b EXCEPT !.hidden = @ \cup {d}]
    <3>1. brain' = [brain EXCEPT ![side] = r] /\ base' = base /\ report' = report /\ Kind(d) # "scheme"
      BY <2>3 DEF Demote, Becomes, SchemesStay
    <3>2. r.semantic = b.semantic /\ r.hidden = b.hidden \cup {d}
      BY <1>1 DEF Versions
    <3> HIDE DEF r, b
    <3>3. InOrder(r)
      <4> DEFINE K == b.hidden \cup {d}
                 S == b.semantic
      <4>1. /\ Stands(S, b.hidden) /\ S \subseteq S /\ b.hidden \subseteq K
            /\ (\A x \in K : Kind(x) # "scheme") /\ \A x \in S : Kind(x) = "scheme" => x \in S
        BY <1>1, <3>1 DEF InOrder, Stands
      <4>2. \A x \in S : \A c \in Ends(x) : Class(c) \in S
        BY <1>1 DEF InOrder, Stands, Framed
      <4> HIDE DEF K, S
      <4>3. Stands(S, K)
        BY <4>1, <4>2, Shrinks
      <4> QED
        BY <4>3, <3>2 DEF InOrder, K, S
    <3> QED
      BY <3>1, <3>2, <2>0, <3>3, SoundOne DEF b
  <2>4. ASSUME NEW out, \A d \in out : Kind(d) # "scheme", NEW sources,
               brain' = [brain EXCEPT ![side] = Without(b, out, sources)], base' = base, report' = report
        PROVE  Kept
    <3> DEFINE r == Without(b, out, sources)
    <3> HIDE DEF b
    <3>1. InOrder(r)
      BY <1>1, <2>4, WithoutStands
    <3>2. r.semantic = b.semantic \ (out \cup Cascade(b, out, sources))
      BY <1>1, WithoutIs
    <3>3. \A d \in b.semantic : Kind(d) = "scheme" => d \in r.semantic
      BY <2>4, <3>2 DEF Cascade
    <3> HIDE DEF r
    <3> QED
      BY <2>4, <2>0, <3>1, <3>3, SoundOne DEF r, b
  <2>5. ASSUME NEW d \in b.semantic, Drop(side, d)
        PROVE  Kept
    <3>1. /\ brain' = [brain EXCEPT ![side] = Without(b, {d}, {})] /\ base' = base /\ report' = report
          /\ \A x \in {d} : Kind(x) # "scheme"
      BY <2>5 DEF Drop, Becomes, SchemesStay
    <3> HIDE DEF b, Kept
    <3> QED
      BY <3>1, <2>4
  <2>6. ASSUME NEW s \in Sources, DropSource(side, s)
        PROVE  Kept
    <3>1. /\ brain' = [brain EXCEPT ![side] = Without(b, {}, {s})] /\ base' = base /\ report' = report
          /\ \A x \in {} : Kind(x) # "scheme"
      BY <2>6 DEF DropSource, Becomes
    <3> HIDE DEF b, Kept
    <3> QED
      BY <3>1, <2>4
  <2>7. ASSUME NEW s \in Sources, Register(side, s)
        PROVE  Kept
    <3> DEFINE r == [b EXCEPT !.canonical = @ \cup {s}]
    <3>1. brain' = [brain EXCEPT ![side] = r] /\ base' = base /\ report' = report
      BY <2>7 DEF Register, Becomes
    <3>2. r.semantic = b.semantic /\ r.hidden = b.hidden
      BY <1>1 DEF Versions
    <3> HIDE DEF r, b
    <3>3. InOrder(r)
      BY <1>1, <3>2 DEF InOrder
    <3> QED
      BY <3>1, <3>2, <2>0, <3>3, SoundOne DEF b
  <2>8. ASSUME side = "ours", Merge \/ FastForward
        PROVE  Kept
    <3> DEFINE T == brain["theirs"]
    <3>1. T \in Versions /\ InOrder(T) /\ Pending(T, report["theirs"])
      BY <1>1 DEF SoundInv, TypeOK, Sides
    <3>2. PICK m : /\ InOrder(m)
                   /\ brain' = [brain EXCEPT !["ours"] = m] /\ base' = T /\ report' = report
      <4>1. CASE Merge
        <5>1. PICK m : MergedAs(m, b, Join(b, T, base), base) /\ brain' = [brain EXCEPT !["ours"] = m]
                       /\ base' = T /\ report' = report
          BY <1>1, <2>8, <4>1, MergeIs
        <5>2. base \in Versions /\ \A d \in base.semantic : Kind(d) = "scheme" => d \in T.semantic
          BY <1>1 DEF TypeOK, SoundInv
        <5> HIDE DEF b, T
        <5>3. InOrder(m)
          BY <1>1, <3>1, <5>1, <5>2, MergedStands
        <5> QED
          BY <5>1, <5>3
      <4>2. CASE FastForward
        <5>1. brain' = [brain EXCEPT !["ours"] = T] /\ base' = T /\ report' = report
          BY <4>2 DEF FastForward, Becomes
        <5> QED
          BY <3>1, <5>1
      <4> QED
        BY <2>8, <4>1, <4>2
    <3>3. /\ brain'["ours"] = m /\ brain'["theirs"] = T
          /\ report'["theirs"] = report["theirs"] /\ Pending(m, report'["ours"])
      BY <3>2, <1>1, <2>0, <2>8 DEF TypeOK, Sides
    <3> HIDE DEF T
    <3> QED
      BY <3>1, <3>2, <3>3 DEF Sides
  <2>9. Kept
    <3> HIDE DEF Kept
    <3> QED
      BY <1>3, <2>1, <2>2, <2>3, <2>5, <2>6, <2>7, <2>8 DEF Operation
  <2> QED
    BY <2>9 DEF SoundInv
<1> QED
  BY <1>2, <1>3 DEF Free

\* In an exclusive scheme no source is filed twice, whatever is declared, demoted, dropped,
\* registered again and joined from another history; where that was so to start with, a report is
\* committed before the brain does anything else and its placements were apart, and schemes stay.
THEOREM ExclusiveAlwaysKept ==
    ASSUME Framed(Start), Exclusive(Start), Waits = {}, SchemesStay, Apart
    PROVE  Spec => []ExclusiveKept
<1>1. Init => SoundInv
  <2> SUFFICES ASSUME Init
               PROVE  SoundInv
    OBVIOUS
  <2>1. TypeOK
    BY InitType
  <2>2. Load(Start, {}) \subseteq Start
    BY DEF Load
  <2>3. InOrder(Genesis)
    BY <2>2, ExclusivePart DEF InOrder, Stands, Genesis
  <2> QED
    BY <2>1, <2>3, PendingNone DEF Init, SoundInv, Sides
<1>2. SoundInv /\ [Next]_vars => SoundInv'
  <2> SUFFICES ASSUME SoundInv, [Next]_vars
               PROVE  SoundInv'
    OBVIOUS
  <2>1. TypeOK'
    BY NextType DEF SoundInv
  <2>2. CASE UNCHANGED vars
    BY <2>2, <2>1 DEF vars, SoundInv
  <2>3. CASE Next
    <3>1. PICK side \in Sides : (Free(side) /\ Operation(side)) \/ Commit(side)
      BY <2>3 DEF Next
    <3> QED
      BY <3>1, <2>1, NextSound
  <2> QED
    BY <2>2, <2>3
<1>3. SoundInv => ExclusiveKept
  <2> SUFFICES ASSUME SoundInv, NEW side \in Sides
               PROVE  LET seen == Accessible(brain[side]) IN
                      \A s \in Sources : \A c \in ClassesOf(seen, s) :
                            Scheme(SchemeOf[c], TRUE) \in seen => Rivals(seen, s, c) = {}
    BY DEF ExclusiveKept
  <2> DEFINE b == brain[side]
             seen == Accessible(b)
  <2>1. seen = Load(b.semantic, b.hidden) /\ InOrder(b)
    BY Loaded DEF SoundInv
  <2> HIDE DEF seen, b
  <2>2. Exclusive(seen) /\ seen \subseteq Blocks
    BY <2>1 DEF InOrder, Stands, Framed, Load
  <2>3. Known(seen) \subseteq Classes
    BY <2>2, Shapes DEF Known, OfKind
  <2>4. ASSUME NEW s \in Sources, NEW c \in ClassesOf(seen, s), Scheme(SchemeOf[c], TRUE) \in seen
        PROVE  Rivals(seen, s, c) = {}
    BY <2>4, <2>2, <2>3 DEF Rivals, ClassesOf, Exclusive
  <2> QED
    BY <2>4 DEF seen, b
<1> QED
  BY <1>1, <1>2, <1>3, PTL DEF Spec

-----------------------------------------------------------------------------
(* The hierarchy is one, whatever callers do.                              *)

\* Edges have their ends.
Rooted(S) == S \subseteq Blocks /\ \A d \in S : Kind(d) = "hierarchy" => \A c \in Ends(d) : Class(c) \in S

\* Edges that close no cycle as they are seen.
Bound(S, H) == Rooted(S) /\ Acyclic(Load(S, H))

\* Lemma: it is the edges that count.
LEMMA AcyclicPart ==
    ASSUME NEW S, Acyclic(S), NEW T, \A d \in T : Kind(d) = "hierarchy" => d \in S
    PROVE  Acyclic(T)
<1>1. \A x, y : Hierarchy(x, y) \in T => Hierarchy(x, y) \in S
  BY Made
<1>2. \A C : Closed(S, C) => Closed(T, C)
  BY <1>1 DEF Closed
<1> QED
  BY <1>1, <1>2 DEF Acyclic

\* Lemma: what is seen has its ends.
LEMMA LoadRooted ==
    ASSUME NEW S, S \subseteq Blocks, NEW H
    PROVE  Load(S, H) \subseteq Blocks /\ \A d \in Load(S, H) : \A c \in Ends(d) : Class(c) \in Load(S, H)
<1>1. \A c : Class(c) \in S \ H => Class(c) \in Load(S, H)
  BY Named DEF Load
<1> QED
  BY <1>1 DEF Load

\* Lemma: an edge that is validated closes no cycle, nor does it among fewer edges.
LEMMA ValidatedAcyclic ==
    ASSUME NEW G, Acyclic(G), NEW seen, G \subseteq seen, seen \subseteq Blocks,
           \A x \in seen : Kind(x) = "hierarchy" => \A c \in Ends(x) : Class(c) \in seen,
           NEW held, NEW d \in Blocks, Verdict(seen, held, d) = "validated"
    PROVE  Acyclic(G \cup {d})
<1>1. CASE Kind(d) # "hierarchy"
  BY <1>1, AcyclicStill
<1>2. CASE Kind(d) = "hierarchy"
  <2>1. d[2] \in Classes /\ d[3] \in Classes /\ d = Hierarchy(d[2], d[3])
    BY <1>2, Shapes
  <2>2. d[2] \notin Descendants(seen, d[3])
    BY <1>2, Verdicts
  <2> DEFINE D == Descendants(seen, d[3])
  <2>3. d[3] \in D /\ D \in SUBSET Classes /\ \A x \in D : Children(seen, x) \subseteq D
    BY <2>1, DescendantsClosed
  <2> HIDE DEF D
  <2>4. Closed(G, D)
    <3> SUFFICES ASSUME NEW x \in D, NEW y \in Classes, Hierarchy(x, y) \in G
                 PROVE  y \in D
      BY DEF Closed
    <3>1. Hierarchy(x, y) \in seen /\ Class(y) \in seen
      BY Named, Made
    <3>2. y \in Children(seen, x)
      BY <3>1, KnownAre DEF Children
    <3> QED
      BY <3>2, <2>3
  <2> QED
    BY <2>1, <2>2, <2>3, <2>4, AddEdge DEF D
<1> QED
  BY <1>1, <1>2

\* Lemma: edges with their ends can be added that close no cycle among those seen.
LEMMA BoundGrows ==
    ASSUME NEW S, NEW H, Bound(S, H), NEW R, R \subseteq Blocks, Acyclic(Load(S, H) \cup R),
           \A d \in R : Kind(d) = "hierarchy" => \A c \in Ends(d) : Class(c) \in S \cup R
    PROVE  Bound(S \cup R, H)
<1>1. Rooted(S \cup R)
  BY DEF Bound, Rooted
<1>2. ASSUME NEW d \in Load(S \cup R, H), Kind(d) = "hierarchy"
      PROVE  d \in Load(S, H) \cup R
  BY <1>2 DEF Load, Bound, Rooted
<1> QED
  BY <1>1, <1>2, AcyclicPart DEF Bound

\* Lemma: blocks can be left out that take their edges along, and any be hidden.
LEMMA BoundShrinks ==
    ASSUME NEW S, NEW H, Bound(S, H), NEW T, T \subseteq S, NEW K, H \subseteq K,
           \A d \in T : Kind(d) = "hierarchy" => \A c \in Ends(d) : Class(c) \in T
    PROVE  Bound(T, K)
<1>1. Rooted(T)
  BY DEF Bound, Rooted
<1>2. Load(T, K) \subseteq Load(S, H)
  BY LoadLess
<1> QED
  BY <1>1, <1>2, AcyclicPart DEF Bound

\* Lemma: with what a request is granted, the catalog seen is a hierarchy.
LEMMA JudgedAcyclic ==
    ASSUME NEW b, Bound(b.semantic, b.hidden), NEW request \in Seq(Blocks)
    PROVE  LET r == Judged(b, request) IN
           /\ Acyclic(r.seen) /\ r.seen = Load(b.semantic, b.hidden) \cup r.accepted
           /\ \A d \in r.seen : Kind(d) = "hierarchy" => \A c \in Ends(d) : Class(c) \in r.seen
<1> DEFINE N == Len(request)
           L == Load(b.semantic, b.hidden)
<1>1. N \in Nat /\ b.semantic \subseteq Blocks
  BY DEF Bound, Rooted
<1>2. PICK f : Rounds(f, b, request)
  BY <1>1, RoundsExist
<1> DEFINE Fine(r) == /\ Rooted(r.seen) /\ Acyclic(r.seen) /\ r.seen = L \cup r.accepted
           G == {n \in 0 .. N : Fine(f[n])}
<1>3. 0 \in G
  <2>1. f[0] = Unjudged(b)
    BY <1>2 DEF Rounds
  <2>2. f[0].seen = L /\ f[0].accepted = {}
    BY <2>1, Loaded DEF Unjudged
  <2>3. Rooted(L) /\ Acyclic(L)
    BY <1>1, LoadRooted DEF Bound, Rooted
  <2> HIDE DEF L
  <2> QED
    BY <2>2, <2>3, <1>1
<1>4. ASSUME NEW n \in 1 .. N, n - 1 \in G
      PROVE  n \in G
  <2> DEFINE S == f[n - 1].seen
             d == request[n]
             verdict == Verdict(S, b.canonical, d)
  <2>1. f[n] = Judge(b, d, f[n - 1]) /\ d \in Blocks
    BY <1>2 DEF Rounds
  <2>2. /\ f[n].seen = S \cup IF verdict = "validated" THEN {d} ELSE {}
        /\ f[n].accepted = f[n - 1].accepted \cup IF verdict = "validated" THEN {d} ELSE {}
    BY <2>1 DEF Judge
  <2>3. Rooted(S) /\ Acyclic(S) /\ S = L \cup f[n - 1].accepted
    BY <1>4
  <2> HIDE DEF L, S, d
  <2>4. verdict = "validated" => Rooted(S \cup {d}) /\ Acyclic(S \cup {d})
    <3> SUFFICES ASSUME verdict = "validated"
                 PROVE  Rooted(S \cup {d}) /\ Acyclic(S \cup {d})
      OBVIOUS
    <3>1. S \subseteq Blocks /\ S \subseteq S
      BY <2>3 DEF Rooted
    <3>2. Acyclic(S \cup {d})
      BY <2>1, <2>3, <3>1, ValidatedAcyclic DEF Rooted
    <3>3. Kind(d) = "hierarchy" => Class(d[2]) \in S /\ Class(d[3]) \in S /\ Ends(d) = {d[2], d[3]}
      BY <2>1, <3>1, Verdicts DEF Ends
    <3> QED
      BY <2>1, <2>3, <3>2, <3>3 DEF Rooted
  <2> HIDE DEF verdict
  <2>5. Fine(f[n])
    <3>1. CASE verdict = "validated"
      <4>1. f[n].seen = S \cup {d} /\ f[n].accepted = f[n - 1].accepted \cup {d}
        BY <3>1, <2>2
      <4>2. Rooted(f[n].seen) /\ Acyclic(f[n].seen)
        BY <4>1, <2>4, <3>1
      <4> QED
        BY <4>1, <4>2, <2>3
    <3>2. CASE verdict # "validated"
      <4>1. f[n].seen = S /\ f[n].accepted = f[n - 1].accepted
        BY <3>2, <2>2
      <4> QED
        BY <4>1, <2>3
    <3> QED
      BY <3>1, <3>2
  <2>6. n \in 0 .. N
    BY <1>1
  <2> HIDE DEF Fine
  <2> QED
    BY <2>5, <2>6
<1>5. N \in G
  <2> HIDE DEF G, N
  <2>1. \A n \in 0 .. N : n \in G
    BY <1>1, <1>3, <1>4, Upto
  <2> QED
    BY <2>1, <1>1
<1>6. Judged(b, request) = f[N]
  BY <1>2 DEF Rounds
<1>7. Fine(f[N])
  BY <1>5
<1> QED
  BY <1>6, <1>7 DEF Rooted

\* The same of a version.
Rising(b) == Bound(b.semantic, b.hidden)

AcyclicInv == TypeOK /\ \A side \in Sides : Rising(brain[side])

\* Lemma: recording edges with their ends that close no cycle.
LEMMA RecordedRises ==
    ASSUME NEW b \in Versions, Rising(b), NEW new \in SUBSET Blocks, NEW R,
           Acyclic(Load(b.semantic, b.hidden) \cup R), R \subseteq new, new \subseteq R \cup b.semantic,
           \A d \in R : Kind(d) = "hierarchy" => \A c \in Ends(d) : Class(c) \in b.semantic \cup R
    PROVE  Rising(Recorded(b, new))
<1> DEFINE r == Recorded(b, new)
<1>1. r.semantic = b.semantic \cup new /\ r.hidden = b.hidden
  BY RecordedIs
<1> HIDE DEF r
<1>2. b.semantic \cup R = b.semantic \cup new /\ R \subseteq Blocks
  OBVIOUS
<1>3. Bound(b.semantic \cup R, b.hidden)
  BY <1>2, BoundGrows DEF Rising
<1> QED
  BY <1>1, <1>2, <1>3 DEF Rising, r

\* Lemma: leaving out blocks, and the edges of the classes among them.
LEMMA WithoutRises ==
    ASSUME NEW b \in Versions, Rising(b), NEW out, NEW sources
    PROVE  Rising(Without(b, out, sources))
<1> DEFINE C == Cascade(b, out, sources)
           T == b.semantic \ (out \cup C)
           r == Without(b, out, sources)
<1>1. r.semantic = T /\ r.hidden = b.hidden
  BY WithoutIs
<1> HIDE DEF r
<1>2. ASSUME NEW d \in T, Kind(d) = "hierarchy", NEW c \in Ends(d)
      PROVE  Class(c) \in T
  <2>1. Class(c) \in b.semantic /\ c \in {d[2], d[3]}
    BY <1>2 DEF Rising, Bound, Rooted, Ends
  <2>2. Class(c) \notin C
    BY Made DEF Cascade
  <2>3. Class(c) \notin out
    BY <1>2, <2>1 DEF Cascade
  <2> QED
    BY <2>1, <2>2, <2>3
<1>3. T \subseteq b.semantic /\ b.hidden \subseteq b.hidden
  OBVIOUS
<1> HIDE DEF T
<1>4. Bound(T, b.hidden)
  BY <1>2, <1>3, BoundShrinks DEF Rising
<1> QED
  BY <1>1, <1>4 DEF Rising, r

\* Lemma: one block that the gate admits.
LEMMA SettleRises ==
    ASSUME NEW M, M \subseteq Blocks, NEW H, NEW order \in Seq(Blocks), Sorted(order),
           NEW cascaded, \A d \in cascaded : Kind(d) \notin {"scheme", "class"},
           NEW n \in 1 .. Len(order), NEW held,
           Bound(Settled(M, order, n - 1, cascaded), H),
           Verdict(Load(M \ {order[n]}, H), held, order[n]) = "validated",
           order[n] \in M
    PROVE  Bound(Settled(M, order, n, cascaded), H)
<1> DEFINE K == Settled(M, order, n - 1, cascaded)
           d == order[n]
           seen == Load(M \ {d}, H)
<1>1. d \in Blocks /\ Settled(M, order, n, cascaded) = K \cup ({d} \ cascaded) /\ K \subseteq M \ {d}
  BY SettledStep
<1>2. \A x \in M \ {d} : Kind(x) \in {"scheme", "class"} /\ Priority(x) < Priority(d) => x \in K
  BY SettledStep
<1>3. /\ seen \subseteq Blocks /\ \A x \in seen : \A c \in Ends(x) : Class(c) \in seen
      /\ seen \subseteq M \ {d}
  <2>1. seen \subseteq M \ {d}
    BY DEF Load
  <2> QED
    BY <2>1, LoadRooted
<1>4. Bound(K, H) /\ Load(K, H) \subseteq seen
  BY <1>1, LoadLess
<1>5. Verdict(seen, held, d) = "validated"
  OBVIOUS
<1> HIDE DEF K, d, seen
<1>6. CASE d \in cascaded
  <2>1. K \cup ({d} \ cascaded) = K
    BY <1>6
  <2> QED
    BY <1>1, <1>4, <2>1
<1>7. CASE d \notin cascaded
  <2>1. Acyclic(Load(K, H) \cup {d})
    BY <1>1, <1>3, <1>4, <1>5, ValidatedAcyclic DEF Bound
  <2>2. ASSUME Kind(d) = "hierarchy", NEW c \in Ends(d)
        PROVE  Class(c) \in K
    <3>1. Class(c) \in seen
      <4>1. Class(d[2]) \in seen /\ Class(d[3]) \in seen
        BY <1>1, <1>3, <1>5, <2>2, Verdicts
      <4>2. c \in {d[2], d[3]}
        BY <2>2 DEF Ends
      <4> QED
        BY <4>1, <4>2
    <3>2. Kind(Class(c)) = "class" /\ Class(c) \in Blocks
      BY <3>1, <1>3, Made
    <3>3. Priority(Class(c)) = 1 /\ Priority(d) >= 2 /\ Priority(d) \in 0 .. 3
      BY <3>2, <1>1, <2>2, Priorities
    <3>4. Priority(Class(c)) < Priority(d)
      BY <3>3
    <3> QED
      BY <3>1, <3>2, <3>4, <1>2, <1>3
  <2>3. Bound(K \cup {d}, H)
    <3>1. {d} \subseteq Blocks /\ \A x \in {d} : Kind(x) = "hierarchy" => \A c \in Ends(x) : Class(c) \in K \cup {d}
      BY <1>1, <2>2
    <3> QED
      BY <1>4, <2>1, <3>1, BoundGrows
  <2>4. K \cup ({d} \ cascaded) = K \cup {d}
    BY <1>7
  <2> QED
    BY <1>1, <2>3, <2>4
<1> QED
  BY <1>6, <1>7

\* Lemma: a reconciliation of hierarchies gives one, in whatever order their edges are judged.
LEMMA MergedRises ==
    ASSUME NEW O \in Versions, NEW T \in Versions, NEW B \in Versions, Rising(O),
           NEW m, MergedAs(m, O, Join(O, T, B), B)
    PROVE  Rising(m)
<1> DEFINE J == Join(O, T, B)
           C == Cascaded(B, J)
<1>1. /\ J \in Versions
      /\ J.semantic = (O.semantic \cup T.semantic) \ (B.semantic \ (O.semantic \cap T.semantic))
      /\ J.hidden = O.hidden \cup T.hidden
  BY JoinIs
<1>2. PICK order \in GateOrders(Incoming(O, J)) : m = [Admit(J, order) EXCEPT !.semantic = @ \ C]
  BY DEF MergedAs
<1> HIDE DEF J
<1> DEFINE a == Admit(J, order)
<1>3. Fewer(a, J) /\ Fewer(m, J) /\ m.semantic = a.semantic \ C
  BY <1>1, <1>2, MergedIs
<1>4. order \in Seq(Blocks) /\ Sorted(order) /\ {order[i] : i \in 1 .. Len(order)} = J.semantic \ O.semantic
  <2>1. Incoming(O, J) \in SUBSET Blocks
    BY <1>1 DEF Incoming, Versions
  <2> QED
    BY <2>1, OrdersSorted DEF Incoming
<1>5. \A d \in C : Kind(d) \notin {"scheme", "class"}
  BY DEF Cascaded, Cascade
<1> DEFINE K == (J.semantic \cap O.semantic) \ C
<1>6. Settled(J.semantic, order, 0, C) = K
  <2>1. {order[i] : i \in 0 + 1 .. Len(order)} = J.semantic \ O.semantic
    BY <1>4
  <2> HIDE DEF C
  <2> QED
    BY <2>1 DEF Settled
<1>7. Bound(K, J.hidden)
  <2>1. ASSUME NEW d \in K, Kind(d) = "hierarchy", NEW c \in Ends(d)
        PROVE  Class(c) \in K
    <3>1. Class(c) \in O.semantic /\ c \in {d[2], d[3]}
      BY <2>1 DEF Rising, Bound, Rooted, Ends
    <3>2. Class(c) \notin C
      BY <1>5, Made
    <3>3. Class(c) \in J.semantic
      <4> SUFFICES ASSUME Class(c) \notin J.semantic PROVE d \in C
        BY <2>1
      <4>1. Class(c) \in B.semantic \ J.semantic
        BY <3>1, <1>1
      <4>2. d \in J.semantic \ (B.semantic \ J.semantic)
        BY <2>1
      <4> QED
        BY <4>1, <4>2, <3>1, <2>1 DEF Cascaded, Cascade
    <3> QED
      BY <3>1, <3>2, <3>3
  <2>2. K \subseteq O.semantic /\ O.hidden \subseteq J.hidden
    BY <1>1
  <2> HIDE DEF K
  <2> QED
    BY <2>1, <2>2, BoundShrinks DEF Rising
<1>8. \A i \in 1 .. Len(order) : order[i] \in J.semantic
  BY <1>4
<1> HIDE DEF K, C
<1>9. Bound(a.semantic \ C, J.hidden)
  <2> DEFINE Q == {X \in SUBSET Blocks : Bound(X, J.hidden)}
  <2>1. Settled(J.semantic, order, 0, C) \in Q
    BY <1>6, <1>7 DEF Bound, Rooted
  <2>3. ASSUME NEW M \in SUBSET Blocks, NEW n \in 1 .. Len(order),
               Settled(M, order, n - 1, C) \in Q, order[n] \in M,
               Verdict(Load(M \ {order[n]}, J.hidden), J.canonical, order[n]) = "validated"
        PROVE  Settled(M, order, n, C) \in Q
    <3>1. Bound(Settled(M, order, n, C), J.hidden)
      BY <1>4, <1>5, <2>3, SettleRises
    <3> QED
      BY <3>1 DEF Bound, Rooted
  <2> HIDE DEF Q
  <2>4. a.semantic \ C \in Q
    BY <1>1, <1>4, <1>8, <2>1, <2>3, AdmitKeeps
  <2> QED
    BY <2>4 DEF Q
<1> QED
  BY <1>3, <1>9 DEF Rising, Fewer

\* Lemma: a step keeps hierarchies.
LEMMA NextAcyclic ==
    ASSUME AcyclicInv, TypeOK', NEW side \in Sides, Operation(side) \/ Commit(side)
    PROVE  AcyclicInv'
<1> DEFINE b == brain[side]
           L == Load(b.semantic, b.hidden)
           Kept == \A other \in Sides : Rising(brain'[other])
<1>1. /\ b \in Versions /\ Rising(b) /\ TypeOK
      /\ brain \in [Sides -> Versions] /\ report \in [Sides -> SUBSET OfKind(Blocks, "placement")]
  BY DEF AcyclicInv, TypeOK
<1>2. ASSUME NEW r, Rising(r), brain' = [brain EXCEPT ![side] = r]
      PROVE  Kept
  BY <1>1, <1>2 DEF AcyclicInv
<1>3. CASE Commit(side)
  <2> DEFINE R == report[side]
  <2>1. brain' = [brain EXCEPT ![side] = Recorded(b, R)]
    BY <1>3 DEF Commit, Becomes
  <2>2. R \in SUBSET Blocks /\ \A d \in R : Kind(d) = "placement"
    BY <1>1 DEF OfKind
  <2>3. Acyclic(L \cup R)
    BY <1>1, <2>2, AcyclicStill DEF Rising, Bound
  <2> HIDE DEF b, R
  <2>4. Rising(Recorded(b, R))
    BY <1>1, <2>2, <2>3, RecordedRises
  <2> QED
    BY <1>2, <2>1, <2>4 DEF AcyclicInv, b
<1>4. CASE Operation(side)
  <2>1. ASSUME NEW request \in Requests, Classify(side, request)
        PROVE  Kept
    <3> DEFINE q == Judged(b, request)
    <3>1. PICK new \in SUBSET Blocks :
            /\ q.accepted \subseteq new /\ new \subseteq q.accepted \cup b.semantic
            /\ brain' = [brain EXCEPT ![side] = Recorded(b, new)]
      BY <1>1, <2>1, ClassifyIs
    <3>2. /\ Acyclic(q.seen) /\ q.seen = L \cup q.accepted
          /\ \A d \in q.seen : Kind(d) = "hierarchy" => \A c \in Ends(d) : Class(c) \in q.seen
      <4>1. request \in Seq(Blocks) /\ Bound(b.semantic, b.hidden)
        BY <1>1, InputsAssumption DEF Rising
      <4> HIDE DEF b
      <4> QED
        BY <4>1, JudgedAcyclic
    <3> HIDE DEF b, q
    <3>3. \A d \in q.accepted : Kind(d) = "hierarchy" => \A c \in Ends(d) : Class(c) \in b.semantic \cup q.accepted
      BY <3>2 DEF Load
    <3>4. Rising(Recorded(b, new))
      BY <1>1, <3>1, <3>2, <3>3, RecordedRises
    <3> QED
      BY <1>2, <3>1, <3>4 DEF b
  <2>2. ASSUME NEW candidates \in Proposals, Validate(side, candidates)
        PROVE  Kept
    BY <2>2 DEF Validate, AcyclicInv
  <2>3. ASSUME NEW d \in b.semantic, Demote(side, d)
        PROVE  Kept
    <3> DEFINE r == [b EXCEPT !.hidden = @ \cup {d}]
               K == b.hidden \cup {d}
               S == b.semantic
    <3>1. brain' = [brain EXCEPT ![side] = r]
      BY <2>3 DEF Demote, Becomes
    <3>2. r.semantic = S /\ r.hidden = K
      BY <1>1 DEF Versions
    <3>3. /\ Bound(S, b.hidden) /\ S \subseteq S /\ b.hidden \subseteq K
          /\ \A x \in S : Kind(x) = "hierarchy" => \A c \in Ends(x) : Class(c) \in S
      BY <1>1 DEF Rising, Bound, Rooted
    <3> HIDE DEF r, K, S
    <3>4. Bound(S, K)
      BY <3>3, BoundShrinks
    <3> QED
      BY <1>2, <3>1, <3>2, <3>4 DEF Rising
  <2>4. ASSUME NEW d \in b.semantic, Drop(side, d)
        PROVE  Kept
    <3>1. brain' = [brain EXCEPT ![side] = Without(b, {d}, {})]
      BY <2>4 DEF Drop, Becomes
    <3> HIDE DEF b
    <3>2. Rising(Without(b, {d}, {}))
      BY <1>1, WithoutRises
    <3> QED
      BY <1>2, <3>1, <3>2 DEF b
  <2>5. ASSUME NEW s \in Sources, DropSource(side, s)
        PROVE  Kept
    <3>1. brain' = [brain EXCEPT ![side] = Without(b, {}, {s})]
      BY <2>5 DEF DropSource, Becomes
    <3> HIDE DEF b
    <3>2. Rising(Without(b, {}, {s}))
      BY <1>1, WithoutRises
    <3> QED
      BY <1>2, <3>1, <3>2 DEF b
  <2>6. ASSUME NEW s \in Sources, Register(side, s)
        PROVE  Kept
    <3> DEFINE r == [b EXCEPT !.canonical = @ \cup {s}]
    <3>1. brain' = [brain EXCEPT ![side] = r]
      BY <2>6 DEF Register, Becomes
    <3>2. r.semantic = b.semantic /\ r.hidden = b.hidden
      BY <1>1 DEF Versions
    <3> HIDE DEF r, b
    <3>3. Rising(r)
      BY <1>1, <3>2 DEF Rising
    <3> QED
      BY <1>2, <3>1, <3>3 DEF b
  <2>7. ASSUME side = "ours", Merge \/ FastForward
        PROVE  Kept
    <3> DEFINE T == brain["theirs"]
    <3>1. T \in Versions /\ Rising(T) /\ base \in Versions
      BY <1>1 DEF AcyclicInv, TypeOK, Sides
    <3>2. \E r : Rising(r) /\ brain' = [brain EXCEPT !["ours"] = r]
      <4>1. CASE Merge
        <5>1. PICK m : MergedAs(m, b, Join(b, T, base), base) /\ brain' = [brain EXCEPT !["ours"] = m]
          BY <1>1, <2>7, <4>1, MergeIs
        <5> HIDE DEF b, T
        <5>2. Rising(m)
          BY <1>1, <3>1, <5>1, MergedRises
        <5> QED
          BY <5>1, <5>2
      <4>2. CASE FastForward
        BY <4>2, <3>1 DEF FastForward, Becomes
      <4> QED
        BY <2>7, <4>1, <4>2
    <3>3. PICK r : Rising(r) /\ brain' = [brain EXCEPT !["ours"] = r]
      BY <3>2
    <3> QED
      BY <3>3, <2>7, <1>2
  <2>8. Kept
    <3> HIDE DEF Kept
    <3> QED
      BY <1>4, <2>1, <2>2, <2>3, <2>4, <2>5, <2>6, <2>7 DEF Operation
  <2> QED
    BY <2>8 DEF AcyclicInv
<1> QED
  BY <1>3, <1>4

\* No class ever ends up below itself: not by what is declared while ends come and go, nor by a
\* report committed late, nor where edges of two histories close a cycle only together.
THEOREM HierarchyAlwaysAcyclic ==
    ASSUME Rooted(Start), Acyclic(Start)
    PROVE  Spec => []HierarchyAcyclic
<1>1. Init => AcyclicInv
  <2> SUFFICES ASSUME Init
               PROVE  AcyclicInv
    OBVIOUS
  <2>1. TypeOK
    BY InitType
  <2>2. Load(Start, {}) \subseteq Start
    BY DEF Load
  <2>3. Acyclic(Load(Start, {}))
    BY <2>2, AcyclicPart
  <2>4. Rising(Genesis)
    BY <2>3 DEF Rising, Bound, Genesis
  <2> QED
    BY <2>1, <2>4 DEF Init, AcyclicInv
<1>2. AcyclicInv /\ [Next]_vars => AcyclicInv'
  <2> SUFFICES ASSUME AcyclicInv, [Next]_vars
               PROVE  AcyclicInv'
    OBVIOUS
  <2>1. TypeOK'
    BY NextType DEF AcyclicInv
  <2>2. CASE UNCHANGED vars
    BY <2>2, <2>1 DEF vars, AcyclicInv
  <2>3. CASE Next
    <3>1. PICK side \in Sides : Operation(side) \/ Commit(side)
      BY <2>3 DEF Next
    <3> QED
      BY <3>1, <2>1, NextAcyclic
  <2> QED
    BY <2>2, <2>3
<1>3. AcyclicInv => HierarchyAcyclic
  <2> SUFFICES ASSUME AcyclicInv, NEW side \in Sides
               PROVE  LET seen == Accessible(brain[side]) IN
                      \E depth \in [Classes -> 1 .. Cardinality(Classes)] :
                            \A c \in Known(seen) : \A n \in Children(seen, c) : depth[c] < depth[n]
    BY DEF HierarchyAcyclic
  <2> DEFINE b == brain[side]
             seen == Accessible(b)
  <2>1. seen = Load(b.semantic, b.hidden) /\ Rising(b)
    BY Loaded DEF AcyclicInv
  <2> HIDE DEF seen, b
  <2>2. Acyclic(seen) /\ seen \subseteq Blocks
    BY <2>1 DEF Rising, Bound, Rooted, Load
  <2>3. Known(seen) \subseteq Classes
    BY <2>2, Shapes DEF Known, OfKind
  <2>4. PICK depth \in [Classes -> 1 .. Cardinality(Classes)] :
            \A c, n \in Classes : Hierarchy(c, n) \in seen => depth[c] < depth[n]
    BY <2>2, DepthsExist
  <2> QED
    BY <2>4, <2>3 DEF Children, seen, b
<1> QED
  BY <1>1, <1>2, <1>3, PTL DEF Spec

\* The catalog that is rebuilt is a hierarchy and files no source twice in an exclusive scheme.
THEOREM CatalogAlwaysSound ==
    ASSUME Framed(Start), Acyclic(Start), Exclusive(Start), Waits = {}, SchemesStay, Apart
    PROVE  Spec => []CatalogSound
<1>1. Rooted(Start)
  BY DEF Framed, Rooted
<1>2. Spec => []HierarchyAcyclic
  BY <1>1, HierarchyAlwaysAcyclic
<1>3. Spec => []ExclusiveKept
  BY ExclusiveAlwaysKept
<1> QED
  BY <1>2, <1>3, PTL DEF CatalogSound

=============================================================================
