------------------------------- MODULE Merkle -------------------------------
(***************************************************************************)
(* The commitment to a module's composition (merkle/tree.py, proof.py):    *)
(* the tree of RFC 9162 over the leaves in the order of their digests.     *)
(* Hashes are symbolic: two are equal only when what was hashed is.        *)
(***************************************************************************)
EXTENDS Naturals, Sequences

HashLeaf(x) == <<"leaf", x>>
HashNode(l, r) == <<"node", l, r>>
HashEmpty == <<"empty">>

\* The powers of two up to a number, and more.
PowersOfTwo(n) ==
    LET Power[k \in 0 .. n] == IF k = 0 THEN 1 ELSE 2 * Power[k - 1] IN {Power[k] : k \in 0 .. n}

\* _largest_power_of_two_below, for n > 1.
Split(n) == CHOOSE p \in PowersOfTwo(n) : p < n /\ 2 * p >= n

\* The stretches <<start, end>> of a number of leaves.
Spans(n) == (0 .. n) \X (0 .. n)

\* _subtree_hash(start, end) of the leaves.
SubtreeHash(leaves) ==
    LET Hash[span \in Spans(Len(leaves))] ==
            IF span[2] <= span[1] + 1 THEN HashLeaf(leaves[span[2]])
            ELSE LET split == span[1] + Split(span[2] - span[1])
                 IN HashNode(Hash[<<span[1], split>>], Hash[<<split, span[2]>>])
    IN Hash

Root(leaves) == IF leaves = <<>> THEN HashEmpty ELSE SubtreeHash(leaves)[<<0, Len(leaves)>>]

\* inclusion_proof, _collect_path: the siblings from the leaf up; indices count from 0.
AuditPath(leaves, i) ==
    LET hash == SubtreeHash(leaves)
        Path[at \in (0 .. Len(leaves)) \X Spans(Len(leaves))] ==
            LET index == at[1]  start == at[2][1]  end == at[2][2]
                split == start + Split(end - start)
            IN IF end <= start + 1 THEN <<>>
               ELSE IF start + index < split
               THEN Append(Path[<<index, <<start, split>>>>], hash[<<split, end>>])
               ELSE Append(Path[<<start + index - split, <<split, end>>>>], hash[<<start, split>>])
    IN Path[<<i, <<0, Len(leaves)>>>>]

\* Mutant of SkipLevels: a node at the right edge rises one level like any other.
SkipLevelsMutant(at) == at

\* A node at the right edge has no sibling at the levels its position is a left one at.
SkipLevels(at) ==
    LET Skip[place \in (0 .. at.position) \X (0 .. at.last)] ==
            IF place[1] % 2 = 0 /\ place[1] # 0 THEN Skip[<<place[1] \div 2, place[2] \div 2>>]
            ELSE [position |-> place[1], last |-> place[2]]
    IN Skip[<<at.position, at.last>>]

\* One sibling: where the node is, and what is hashed.
Rise(at, sibling) ==
    LET right == at.position % 2 = 1 \/ at.position = at.last
        level == IF right THEN SkipLevels(at) ELSE at
    IN [position |-> level.position \div 2,
        last |-> level.last \div 2,
        running |-> IF right THEN HashNode(sibling, at.running) ELSE HashNode(at.running, sibling),
        ok |-> at.ok /\ at.last # 0]

\* InclusionProof.verify
Verify(block, index, size, path, root) ==
    LET Up[n \in 0 .. Len(path)] ==
            IF n = 0
            THEN [position |-> index, last |-> size - 1, running |-> HashLeaf(block), ok |-> TRUE]
            ELSE Rise(Up[n - 1], path[n])
        end == Up[Len(path)]
    IN index < size /\ end.ok /\ end.last = 0 /\ end.running = root

-----------------------------------------------------------------------------

\* Of the proofs with a tree's size, those verify that are of the leaf at their index and have its
\* path: not those of another block, with the path of another index, or with a longer or shorter one.
ProofsExact(leaves, blocks) ==
    LET size == Len(leaves)
        root == Root(leaves)
        audit == [i \in 0 .. size - 1 |-> AuditPath(leaves, i)]
        own == {audit[i] : i \in 0 .. size - 1}
        paths == own \cup {Tail(path) : path \in own \ {<<>>}} \cup {Append(path, root) : path \in own}
    IN \A block \in blocks, index \in 0 .. size, path \in paths :
        Verify(block, index, size, path, root) <=>
            index < size /\ block = leaves[index + 1] /\ path = audit[index]
=============================================================================
