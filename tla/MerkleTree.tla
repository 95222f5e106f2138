----------------------------- MODULE MerkleTree -----------------------------
(***************************************************************************)
(* shared/crypto/merkle.py: the layers of a MerkleTree, the inclusion      *)
(* proof get_proof takes from them, and verify_proof's climb.  An action   *)
(* is one iteration of a loop.                                             *)
(*                                                                         *)
(* SHA-256 is free of collisions here: a hash is the term hashed, tagged   *)
(* with its prefix.  _hash_node sorts its arguments, so a node is a set.   *)
(* Sequences count from 1, the indices of the code from 0.                 *)
(***************************************************************************)
EXTENDS Integers, Sequences

CONSTANTS
    Data,      \* leaf values
    MaxLeaves  \* bound: leaves of a tree

ASSUME LeavesAssumption == MaxLeaves \in Nat \ {0}

VARIABLES
    leaves,   \* the argument of MerkleTree
    layers,   \* _layers
    index,    \* the argument of get_proof, -1 before the call
    proof,    \* the list get_proof builds
    trail,    \* the values of its idx, the current one last
    claim,    \* the leaf given to verify_proof: <<>> before the call, or <<x>>
    current,  \* verify_proof's current, a hash
    checked   \* siblings verify_proof has consumed

treeVars == <<leaves, layers>>
proofVars == <<index, proof, trail>>
verifyVars == <<claim, current, checked>>
vars == <<leaves, layers, index, proof, trail, claim, current, checked>>

HashLeaf(x) == <<"leaf", x>>

Ordered(left, right) == <<"node", <<left, right>>>>

HashNode(left, right) == <<"node", {left, right}>>

Last(s) == s[Len(s)]

Promoted(layer) ==
    [j \in 1..((Len(layer) + 1) \div 2) |->
        IF 2 * j <= Len(layer)
        THEN HashNode(layer[2 * j - 1], layer[2 * j])
        ELSE layer[2 * j - 1]]

DropsOdd(layer) ==
    [j \in 1..(Len(layer) \div 2) |-> HashNode(layer[2 * j - 1], layer[2 * j])]

\* One pass of _build: neighbours are paired, an odd last one with itself.
NextLayer(layer) ==
    [j \in 1..((Len(layer) + 1) \div 2) |->
        HashNode(layer[2 * j - 1],
                 IF 2 * j <= Len(layer) THEN layer[2 * j] ELSE layer[2 * j - 1])]

Init ==
    /\ \E n \in 1..MaxLeaves : leaves \in [1..n -> Data]
    /\ layers = <<[i \in 1..Len(leaves) |-> HashLeaf(leaves[i])]>>
    /\ index = -1
    /\ proof = <<>>
    /\ trail = <<>>
    /\ claim = <<>>
    /\ current = <<>>
    /\ checked = 0

Built == Len(Last(layers)) = 1

Build ==
    /\ ~Built
    /\ layers' = Append(layers, NextLayer(Last(layers)))
    /\ UNCHANGED <<leaves, proofVars, verifyVars>>

Root == Last(layers)[1]

\* IndexError otherwise.
GetProof(i) ==
    /\ Built
    /\ index = -1
    /\ i \in 0..(Len(leaves) - 1)
    /\ index' = i
    /\ trail' = <<i>>
    /\ UNCHANGED <<treeVars, proof, verifyVars>>

SiblingIndex(idx) == IF idx % 2 = 0 THEN idx + 1 ELSE idx - 1

Sibling(layer, idx) ==
    IF SiblingIndex(idx) < Len(layer) THEN layer[SiblingIndex(idx) + 1] ELSE layer[idx + 1]

ProofDone == index >= 0 /\ Len(proof) = Len(layers) - 1

Unmoved(idx) == idx

Parent(idx) == idx \div 2

\* The loop runs over every layer but the root's.
ProofStep ==
    /\ index >= 0
    /\ ~ProofDone
    /\ proof' = Append(proof, Sibling(layers[Len(trail)], Last(trail)))
    /\ trail' = Append(trail, Parent(Last(trail)))
    /\ UNCHANGED <<treeVars, index, verifyVars>>

VerifyProof(x) ==
    /\ ProofDone
    /\ claim = <<>>
    /\ claim' = <<x>>
    /\ current' = HashLeaf(x)
    /\ UNCHANGED <<treeVars, proofVars, checked>>

VerifyStep ==
    /\ claim # <<>>
    /\ checked < Len(proof)
    /\ current' = HashNode(current, proof[checked + 1])
    /\ checked' = checked + 1
    /\ UNCHANGED <<treeVars, proofVars, claim>>

Next ==
    \/ Build
    \/ \E i \in 0..MaxLeaves : GetProof(i)
    \/ ProofStep
    \/ \E x \in Data : VerifyProof(x)
    \/ VerifyStep

Spec == Init /\ [][Next]_vars

-----------------------------------------------------------------------------
\* The type invariant; the indices get_proof reads are inside their layers.
TypeOK ==
    /\ leaves \in Seq(Data)
    /\ Len(leaves) \in 1..MaxLeaves
    /\ index \in -1..(Len(leaves) - 1)
    /\ Len(layers) >= 1
    /\ Len(trail) = (IF index = -1 THEN 0 ELSE Len(proof) + 1)
    /\ Len(trail) <= Len(layers)
    /\ \A k \in 1..Len(trail) : trail[k] \in 0..(Len(layers[k]) - 1)
    /\ checked \in 0..Len(proof)

Accepted == current = Root

\* verify_proof accepts the proof of a position exactly for the leaf that is
\* there: every inclusion proof verifies, odd layers included, though siblings
\* carry no side, and no other leaf passes with it (get_proof, verify_proof).
VerifiesExactly ==
    claim # <<>> /\ checked = Len(proof) => (Accepted <=> claim = <<leaves[index + 1]>>)

\* MerkleTree(list).root
RootOf(list) ==
    LET layer[k \in 0..MaxLeaves] ==
          IF k = 0 THEN [i \in DOMAIN list |-> HashLeaf(list[i])]
          ELSE IF Len(layer[k - 1]) = 1 THEN layer[k - 1] ELSE NextLayer(layer[k - 1])
    IN  layer[MaxLeaves][1]

LeafLists == UNION {[1..n -> Data] : n \in 1..MaxLeaves}

Values(list) == {list[i] : i \in DOMAIN list}

RootTable == {[root |-> RootOf(list), values |-> Values(list)] : list \in LeafLists}

\* A root commits to the set of its leaves.  It commits to no more: the pair
\* (a, b) and the pair (b, a) have one root, and so have (a, b, c) and
\* (a, b, c, c), because pairs are sorted and an odd last node is doubled
\* (_hash_node, _build).
RootFixesLeaves ==
    Built /\ index = -1 =>
        \A entry \in RootTable : entry.root = Root => entry.values = Values(leaves)
=============================================================================
