-------------------------- MODULE MerkleTree_proofs --------------------------
(***************************************************************************)
(* Every inclusion proof verifies, and only for the leaf it was made for,  *)
(* whatever the leaves and their number.                                   *)
(*                                                                         *)
(* The invariant says where the climb stands: its hash is the one on the   *)
(* proof's path exactly when the claimed leaf is the leaf at the bottom of *)
(* that path.                                                              *)
(***************************************************************************)
EXTENDS MerkleTree, SumTheorems

IsSeq(s) == \E S : s \in Seq(S)

LEMMA SeqFacts ==
    ASSUME NEW s, IsSeq(s)
    PROVE  Len(s) \in Nat /\ DOMAIN s = 1..Len(s)
BY DEF IsSeq

LEMMA EmptyFacts == IsSeq(<<>>) /\ Len(<<>>) = 0
BY DEF IsSeq

LEMMA AppendFacts ==
    ASSUME NEW s, NEW x, IsSeq(s)
    PROVE  /\ IsSeq(Append(s, x))
           /\ Len(Append(s, x)) = Len(s) + 1
           /\ \A i \in 1..Len(s) : Append(s, x)[i] = s[i]
           /\ Append(s, x)[Len(s) + 1] = x
<1>1. PICK S : s \in Seq(S)
  BY DEF IsSeq
<1>2. s \in Seq(S \cup {x}) /\ x \in S \cup {x}
  BY <1>1
<1>3. Append(s, x) \in Seq(S \cup {x})
  BY <1>2
<1> HIDE DEF IsSeq
<1>4. IsSeq(Append(s, x))
  BY <1>3 DEF IsSeq
<1> QED
  BY <1>2, <1>4

LEMMA SingletonFacts ==
    ASSUME NEW x
    PROVE  IsSeq(<<x>>) /\ Len(<<x>>) = 1 /\ <<x>>[1] = x
<1>1. <<x>> \in Seq({x})
  OBVIOUS
<1> QED BY <1>1 DEF IsSeq

LEMMA NextLayerFacts ==
    ASSUME NEW layer, IsSeq(layer), Len(layer) >= 1
    PROVE  /\ IsSeq(NextLayer(layer))
           /\ Len(NextLayer(layer)) = (Len(layer) + 1) \div 2
           /\ Len(NextLayer(layer)) >= 1
<1> DEFINE n == (Len(layer) + 1) \div 2
<1>1. n \in Nat /\ n >= 1
  BY SeqFacts
<1> DEFINE next == NextLayer(layer)
<1>2. DOMAIN next = 1..n
  BY DEF NextLayer
<1> HIDE DEF next, n
<1>3. next = [j \in 1..n |-> next[j]]
  BY <1>2 DEF next, n, NextLayer
<1>4. next \in Seq({next[j] : j \in 1..n})
  BY <1>1, <1>3
<1>5. IsSeq(next)
  BY <1>4 DEF IsSeq
<1>6. Len(next) = n
  BY <1>1, <1>2, <1>4
<1> QED BY <1>1, <1>5, <1>6 DEF next, n

\* The parent of a position holds the hash of the node there and its sibling.
LEMMA ParentHash ==
    ASSUME NEW layer, IsSeq(layer), NEW idx \in 0..(Len(layer) - 1)
    PROVE  /\ Parent(idx) \in 0..(Len(NextLayer(layer)) - 1)
           /\ NextLayer(layer)[Parent(idx) + 1] = HashNode(layer[idx + 1], Sibling(layer, idx))
<1>1. Len(layer) \in Nat /\ Len(layer) >= 1 /\ idx \in Nat
  BY SeqFacts
<1>2. Len(NextLayer(layer)) = (Len(layer) + 1) \div 2
  BY <1>1, NextLayerFacts
<1> DEFINE j == Parent(idx) + 1
<1>3. j \in 1..((Len(layer) + 1) \div 2) /\ Parent(idx) \in Nat
  BY <1>1 DEF Parent
<1>4. NextLayer(layer)[j] =
        HashNode(layer[2 * j - 1],
                 IF 2 * j <= Len(layer) THEN layer[2 * j] ELSE layer[2 * j - 1])
  BY <1>3 DEF NextLayer
<1>5. CASE idx % 2 = 0
  <2>1. 2 * j - 1 = idx + 1 /\ 2 * j = idx + 2
    BY <1>1, <1>5 DEF Parent
  <2>2. SiblingIndex(idx) = idx + 1
    BY <1>5 DEF SiblingIndex
  <2>3. Sibling(layer, idx) = IF idx + 2 <= Len(layer) THEN layer[idx + 2] ELSE layer[idx + 1]
    BY <2>2, <1>1 DEF Sibling
  <2> QED BY <2>1, <2>3, <1>4, <1>3, <1>2, <1>1
<1>6. CASE idx % 2 # 0
  <2>1. 2 * j - 1 = idx /\ 2 * j = idx + 1 /\ idx + 1 <= Len(layer)
    BY <1>1, <1>6 DEF Parent
  <2>2. SiblingIndex(idx) = idx - 1 /\ idx - 1 < Len(layer)
    BY <1>1, <1>6 DEF SiblingIndex
  <2>3. Sibling(layer, idx) = layer[idx]
    BY <2>2, <1>1 DEF Sibling
  <2>4. NextLayer(layer)[j] = HashNode(layer[idx], layer[idx + 1])
    BY <2>1, <1>4
  <2>5. HashNode(layer[idx], layer[idx + 1]) = HashNode(layer[idx + 1], layer[idx])
    BY DEF HashNode
  <2> QED BY <2>3, <2>4, <2>5, <1>3, <1>2, <1>1
<1> QED BY <1>5, <1>6

\* With the same sibling, only the same node gives the same parent.
LEMMA SameParent ==
    ASSUME NEW a, NEW b, NEW sibling
    PROVE  HashNode(a, sibling) = HashNode(b, sibling) <=> a = b
<1>1. ASSUME {a, sibling} = {b, sibling} PROVE a = b
  BY <1>1
<1> QED BY <1>1 DEF HashNode

-----------------------------------------------------------------------------
LeafHashes == [i \in 1..Len(leaves) |-> HashLeaf(leaves[i])]

LeavesInv == leaves \in Seq(Data) /\ Len(leaves) \in 1..MaxLeaves

LayersInv ==
    /\ IsSeq(layers)
    /\ Len(layers) >= 1
    /\ layers[1] = LeafHashes
    /\ \A k \in 1..Len(layers) : IsSeq(layers[k]) /\ Len(layers[k]) >= 1
    /\ \A k \in 1..(Len(layers) - 1) : layers[k + 1] = NextLayer(layers[k])

\* Where get_proof stands: trail is the path up from index, proof its siblings.
ProofInv ==
    \/ index = -1 /\ proof = <<>> /\ trail = <<>> /\ claim = <<>>
    \/ /\ index \in 0..(Len(leaves) - 1)
       /\ Built
       /\ IsSeq(proof) /\ IsSeq(trail)
       /\ Len(trail) = Len(proof) + 1
       /\ Len(trail) <= Len(layers)
       /\ trail[1] = index
       /\ \A k \in 1..Len(trail) : trail[k] \in 0..(Len(layers[k]) - 1)
       /\ \A k \in 1..Len(proof) :
            /\ proof[k] = Sibling(layers[k], trail[k])
            /\ trail[k + 1] = Parent(trail[k])

\* The node of the path that the climb has reached.
OnPath == layers[checked + 1][trail[checked + 1] + 1]

VerifyInv ==
    \/ claim = <<>> /\ checked = 0
    \/ /\ \E x \in Data : claim = <<x>>
       /\ ProofDone
       /\ checked \in 0..Len(proof)
       /\ current = OnPath <=> claim = <<leaves[index + 1]>>

IInv == LeavesInv /\ LayersInv /\ ProofInv /\ VerifyInv

-----------------------------------------------------------------------------
LEMMA LeafHashesFacts ==
    ASSUME LeavesInv
    PROVE  IsSeq(LeafHashes) /\ Len(LeafHashes) = Len(leaves) /\ Len(leaves) \in Nat \ {0}
<1>1. Len(leaves) \in Nat \ {0}
  BY LeavesAssumption DEF LeavesInv
<1>2. LeafHashes \in Seq({HashLeaf(leaves[i]) : i \in 1..Len(leaves)})
  BY <1>1 DEF LeafHashes
<1>3. Len(LeafHashes) = Len(leaves)
  BY <1>1, <1>2 DEF LeafHashes
<1> QED BY <1>1, <1>2, <1>3 DEF IsSeq

LEMMA InitInv == Init => IInv
<1> SUFFICES ASSUME Init PROVE IInv
  OBVIOUS
<1>1. LeavesInv
  BY LeavesAssumption DEF Init, LeavesInv
<1>2. layers = <<LeafHashes>>
  BY DEF Init, LeafHashes
<1>3. IsSeq(layers) /\ Len(layers) = 1 /\ layers[1] = LeafHashes
  BY <1>2, SingletonFacts
<1>4. LayersInv
  BY <1>1, <1>3, LeafHashesFacts DEF LayersInv
<1>5. ProofInv /\ VerifyInv
  BY DEF Init, ProofInv, VerifyInv
<1> QED BY <1>1, <1>4, <1>5 DEF IInv

LEMMA BuildInv == ASSUME IInv, Build PROVE IInv'
<1> USE DEF IInv
<1>1. LeavesInv'
  BY DEF LeavesInv, Build
<1>2. index = -1 /\ proof = <<>> /\ trail = <<>> /\ claim = <<>>
  BY DEF Build, ProofInv
<1>3. ProofInv'
  BY <1>2 DEF ProofInv, Build, proofVars, verifyVars
<1>4. VerifyInv'
  BY <1>2 DEF VerifyInv, Build, verifyVars
<1> DEFINE m == Len(layers)
<1>5. m \in Nat /\ m >= 1 /\ IsSeq(layers)
  BY SeqFacts DEF LayersInv
<1>6. /\ layers' = Append(layers, NextLayer(layers[m]))
      /\ leaves' = leaves
  BY DEF Build, Last
<1>7. /\ IsSeq(layers')
      /\ Len(layers') = m + 1
      /\ \A i \in 1..m : layers'[i] = layers[i]
      /\ layers'[m + 1] = NextLayer(layers[m])
  BY <1>5, <1>6, AppendFacts
<1>8. IsSeq(layers[m]) /\ Len(layers[m]) >= 1
  BY <1>5 DEF LayersInv
<1>9. IsSeq(layers'[m + 1]) /\ Len(layers'[m + 1]) >= 1
  BY <1>7, <1>8, NextLayerFacts
<1>10. \A k \in 1..Len(layers') : IsSeq(layers'[k]) /\ Len(layers'[k]) >= 1
  <2> SUFFICES ASSUME NEW k \in 1..(m + 1)
               PROVE  IsSeq(layers'[k]) /\ Len(layers'[k]) >= 1
    BY <1>7
  <2>1. CASE k \in 1..m
    BY <2>1, <1>7 DEF LayersInv
  <2>2. CASE k = m + 1
    BY <2>2, <1>9
  <2> QED BY <2>1, <2>2, <1>5
<1>11. \A k \in 1..(Len(layers') - 1) : layers'[k + 1] = NextLayer(layers'[k])
  <2> SUFFICES ASSUME NEW k \in 1..m
               PROVE  layers'[k + 1] = NextLayer(layers'[k])
    BY <1>5, <1>7
  <2>1. layers'[k] = layers[k]
    BY <1>7
  <2>2. CASE k = m
    BY <2>1, <2>2, <1>7
  <2>3. CASE k \in 1..(m - 1)
    <3>1. k + 1 \in 1..m
      BY <2>3, <1>5
    <3>2. layers'[k + 1] = layers[k + 1]
      BY <3>1, <1>7
    <3> QED BY <2>1, <2>3, <3>2 DEF LayersInv
  <2> QED BY <2>2, <2>3, <1>5
<1>12. layers'[1] = LeafHashes'
  <2>1. LeafHashes' = LeafHashes
    BY <1>6 DEF LeafHashes
  <2> QED BY <2>1, <1>5, <1>7 DEF LayersInv
<1>13. LayersInv'
  BY <1>5, <1>7, <1>10, <1>11, <1>12 DEF LayersInv
<1> QED BY <1>1, <1>3, <1>4, <1>13

LEMMA GetProofInv == ASSUME IInv, NEW i \in 0..MaxLeaves, GetProof(i) PROVE IInv'
<1> USE DEF IInv
<1>1. LeavesInv' /\ LayersInv' /\ Built'
  BY DEF LeavesInv, LayersInv, LeafHashes, GetProof, treeVars, Built, Last
<1>2. proof = <<>> /\ claim = <<>> /\ checked = 0
  BY DEF GetProof, ProofInv, VerifyInv
<1>3. VerifyInv'
  BY <1>2 DEF VerifyInv, GetProof, verifyVars
<1>4. IsSeq(trail') /\ Len(trail') = 1 /\ trail'[1] = i
  BY SingletonFacts DEF GetProof
<1>5. IsSeq(proof') /\ Len(proof') = 0
  BY <1>2, EmptyFacts DEF GetProof
<1>6. i \in 0..(Len(layers[1]) - 1) /\ Len(layers) >= 1 /\ Len(layers) \in Nat
  BY LeafHashesFacts, SeqFacts DEF GetProof, LayersInv
<1>7. /\ \A k \in 1..Len(trail') : trail'[k] \in 0..(Len(layers[k]) - 1)
      /\ \A k \in 1..Len(proof') : FALSE
  BY <1>4, <1>5, <1>6
<1>8. index' \in 0..(Len(leaves) - 1) /\ trail'[1] = index' /\ UNCHANGED <<leaves, layers>>
  BY <1>4 DEF GetProof, treeVars
<1>9. ProofInv'
  BY <1>1, <1>4, <1>5, <1>6, <1>7, <1>8 DEF ProofInv
<1> QED BY <1>1, <1>3, <1>9

LEMMA ProofStepInv == ASSUME IInv, ProofStep PROVE IInv'
<1> USE DEF IInv
<1> DEFINE m == Len(trail)
<1>1. UNCHANGED <<leaves, layers, index, claim, current, checked>>
  BY DEF ProofStep, treeVars, verifyVars
<1>2. LeavesInv' /\ LayersInv' /\ (Built <=> Built')
  BY <1>1 DEF LeavesInv, LayersInv, LeafHashes, Built, Last
<1>3. claim = <<>> /\ checked = 0
  <2>1. ~ProofDone
    BY DEF ProofStep
  <2> QED BY <2>1 DEF VerifyInv
<1>4. VerifyInv'
  BY <1>1, <1>3 DEF VerifyInv
<1>5. /\ index \in 0..(Len(leaves) - 1)
      /\ Built
      /\ IsSeq(proof) /\ IsSeq(trail)
      /\ m = Len(proof) + 1
      /\ m <= Len(layers)
      /\ trail[1] = index
      /\ \A k \in 1..m : trail[k] \in 0..(Len(layers[k]) - 1)
      /\ \A k \in 1..Len(proof) :
           /\ proof[k] = Sibling(layers[k], trail[k])
           /\ trail[k + 1] = Parent(trail[k])
  BY DEF ProofStep, ProofInv
<1>6. m \in Nat /\ m >= 1 /\ Len(proof) \in Nat /\ Len(layers) \in Nat
  BY <1>5, SeqFacts DEF LayersInv
<1>7. m < Len(layers)
  <2>1. Len(proof) # Len(layers) - 1
    BY DEF ProofStep, ProofDone
  <2> QED BY <2>1, <1>5, <1>6
<1>8. /\ proof' = Append(proof, Sibling(layers[m], trail[m]))
      /\ trail' = Append(trail, Parent(trail[m]))
  BY DEF ProofStep, Last
<1>9. /\ IsSeq(proof') /\ Len(proof') = m
      /\ \A k \in 1..Len(proof) : proof'[k] = proof[k]
      /\ proof'[m] = Sibling(layers[m], trail[m])
  BY <1>5, <1>6, <1>8, AppendFacts
<1>10. /\ IsSeq(trail') /\ Len(trail') = m + 1
       /\ \A k \in 1..m : trail'[k] = trail[k]
       /\ trail'[m + 1] = Parent(trail[m])
  BY <1>5, <1>8, AppendFacts
<1>11. Parent(trail[m]) \in 0..(Len(layers[m + 1]) - 1)
  <2>1. IsSeq(layers[m]) /\ layers[m + 1] = NextLayer(layers[m])
    BY <1>6, <1>7 DEF LayersInv
  <2>2. trail[m] \in 0..(Len(layers[m]) - 1)
    BY <1>5, <1>6
  <2> QED BY <2>1, <2>2, ParentHash
<1>12. \A k \in 1..(m + 1) : trail'[k] \in 0..(Len(layers[k]) - 1)
  <2> SUFFICES ASSUME NEW k \in 1..(m + 1) PROVE trail'[k] \in 0..(Len(layers[k]) - 1)
    OBVIOUS
  <2>1. CASE k \in 1..m
    BY <2>1, <1>5, <1>10
  <2>2. CASE k = m + 1
    BY <2>2, <1>10, <1>11
  <2> QED BY <2>1, <2>2, <1>6
<1>13. \A k \in 1..m : /\ proof'[k] = Sibling(layers[k], trail'[k])
                       /\ trail'[k + 1] = Parent(trail'[k])
  <2> SUFFICES ASSUME NEW k \in 1..m
               PROVE  /\ proof'[k] = Sibling(layers[k], trail'[k])
                      /\ trail'[k + 1] = Parent(trail'[k])
    OBVIOUS
  <2>1. trail'[k] = trail[k]
    BY <1>10
  <2>2. CASE k = m
    BY <2>1, <2>2, <1>9, <1>10
  <2>3. CASE k \in 1..Len(proof)
    <3>1. k + 1 \in 1..m
      BY <2>3, <1>5, <1>6
    <3>2. trail'[k + 1] = trail[k + 1]
      BY <3>1, <1>10
    <3> QED BY <2>1, <2>3, <3>2, <1>5, <1>9
  <2> QED BY <2>2, <2>3, <1>5, <1>6
<1>14. trail'[1] = index'
  BY <1>1, <1>5, <1>6, <1>10
<1>15. ProofInv'
  BY <1>1, <1>2, <1>5, <1>6, <1>7, <1>9, <1>10, <1>12, <1>13, <1>14 DEF ProofInv
<1> QED BY <1>2, <1>4, <1>15

LEMMA VerifyProofInv == ASSUME IInv, NEW x \in Data, VerifyProof(x) PROVE IInv'
<1> USE DEF IInv
<1>1. UNCHANGED <<leaves, layers, index, proof, trail, checked>> /\ claim' = <<x>>
  BY DEF VerifyProof, treeVars, proofVars
<1>2. LeavesInv' /\ LayersInv' /\ ProofDone'
  BY <1>1 DEF LeavesInv, LayersInv, LeafHashes, VerifyProof, ProofDone
<1>3. /\ index \in 0..(Len(leaves) - 1) /\ IsSeq(proof) /\ trail[1] = index
  BY DEF VerifyProof, ProofDone, ProofInv
<1>4. ProofInv'
  BY <1>1, <1>3 DEF ProofInv, Built, Last
<1>5. checked = 0
  BY DEF VerifyProof, VerifyInv
<1>6. Len(leaves) \in Nat
  BY LeafHashesFacts
<1>7. layers[1][index + 1] = HashLeaf(leaves[index + 1])
  BY <1>3, <1>6 DEF LayersInv, LeafHashes
<1>8. OnPath' = HashLeaf(leaves[index + 1])
  BY <1>1, <1>3, <1>5, <1>7 DEF OnPath
<1>9. (HashLeaf(x) = HashLeaf(leaves[index + 1])) <=> (<<x>> = <<leaves[index + 1]>>)
  BY DEF HashLeaf
<1>10. (current' = OnPath') <=> (claim' = <<leaves'[index' + 1]>>)
  BY <1>1, <1>8, <1>9 DEF VerifyProof
<1>11. checked' \in 0..Len(proof')
  BY <1>1, <1>3, <1>5, SeqFacts
<1>12. VerifyInv'
  BY <1>1, <1>2, <1>10, <1>11 DEF VerifyInv
<1> QED BY <1>2, <1>4, <1>12

LEMMA VerifyStepInv == ASSUME IInv, VerifyStep PROVE IInv'
<1> USE DEF IInv
<1> DEFINE p == checked + 1
<1>1. UNCHANGED <<leaves, layers, index, proof, trail, claim>>
  BY DEF VerifyStep, treeVars, proofVars
<1>2. /\ \E x \in Data : claim = <<x>>
      /\ ProofDone
      /\ checked \in 0..Len(proof)
      /\ current = OnPath <=> claim = <<leaves[index + 1]>>
  BY DEF VerifyStep, VerifyInv
<1>3. LeavesInv' /\ LayersInv' /\ ProofDone'
  BY <1>1, <1>2 DEF LeavesInv, LayersInv, LeafHashes, ProofDone
<1>4. ProofInv'
  BY <1>1 DEF ProofInv, Built, Last
<1>5. /\ IsSeq(proof) /\ IsSeq(trail)
      /\ Len(trail) = Len(proof) + 1
      /\ \A k \in 1..Len(trail) : trail[k] \in 0..(Len(layers[k]) - 1)
      /\ \A k \in 1..Len(proof) :
           /\ proof[k] = Sibling(layers[k], trail[k])
           /\ trail[k + 1] = Parent(trail[k])
  BY <1>2 DEF ProofInv, ProofDone
<1>6. Len(proof) \in Nat /\ Len(proof) = Len(layers) - 1 /\ Len(layers) \in Nat
  BY <1>2, <1>5, SeqFacts DEF ProofDone, LayersInv
<1>7. p \in 1..Len(proof) /\ checked' = p /\ p \in 1..Len(trail) /\ p \in 1..(Len(layers) - 1)
  BY <1>2, <1>5, <1>6 DEF VerifyStep
<1>8. /\ IsSeq(layers[p])
      /\ layers[p + 1] = NextLayer(layers[p])
      /\ trail[p] \in 0..(Len(layers[p]) - 1)
      /\ proof[p] = Sibling(layers[p], trail[p])
      /\ trail[p + 1] = Parent(trail[p])
  BY <1>5, <1>6, <1>7 DEF LayersInv
<1>9. layers[p + 1][trail[p + 1] + 1] = HashNode(layers[p][trail[p] + 1], proof[p])
  BY <1>8, ParentHash
<1>10. OnPath' = HashNode(OnPath, proof[p]) /\ current' = HashNode(current, proof[p])
  BY <1>1, <1>7, <1>9 DEF OnPath, VerifyStep
<1>11. (current' = OnPath') <=> (current = OnPath)
  BY <1>10, SameParent
<1>12. checked' \in 0..Len(proof')
  BY <1>1, <1>6, <1>7
<1>13. VerifyInv'
  BY <1>1, <1>2, <1>3, <1>11, <1>12 DEF VerifyInv
<1> QED BY <1>3, <1>4, <1>13

LEMMA StutterInv == ASSUME IInv, UNCHANGED vars PROVE IInv'
BY DEF IInv, LeavesInv, LayersInv, ProofInv, VerifyInv, LeafHashes, Built, Last,
       OnPath, ProofDone, vars

LEMMA NextInv == IInv /\ [Next]_vars => IInv'
<1> SUFFICES ASSUME IInv, [Next]_vars PROVE IInv'
  OBVIOUS
<1>1. CASE Build
  BY <1>1, BuildInv
<1>2. CASE \E i \in 0..MaxLeaves : GetProof(i)
  BY <1>2, GetProofInv
<1>3. CASE ProofStep
  BY <1>3, ProofStepInv
<1>4. CASE \E x \in Data : VerifyProof(x)
  BY <1>4, VerifyProofInv
<1>5. CASE VerifyStep
  BY <1>5, VerifyStepInv
<1>6. CASE UNCHANGED vars
  BY <1>6, StutterInv
<1> QED BY <1>1, <1>2, <1>3, <1>4, <1>5, <1>6 DEF Next

LEMMA Invariance == Spec => []IInv
BY InitInv, NextInv, PTL DEF Spec

\* The indices of get_proof stay inside their layers, for any number of leaves.
THEOREM TypeCorrect == Spec => []TypeOK
<1>1. IInv => TypeOK
  <2> SUFFICES ASSUME IInv PROVE TypeOK
    OBVIOUS
  <2>1. /\ leaves \in Seq(Data) /\ Len(leaves) \in 1..MaxLeaves
        /\ Len(layers) >= 1 /\ Len(layers) \in Nat
    BY SeqFacts DEF IInv, LeavesInv, LayersInv
  <2>2. CASE index = -1
    <3>1. proof = <<>> /\ trail = <<>> /\ checked = 0
      BY <2>2 DEF IInv, ProofInv, VerifyInv
    <3> QED BY <2>1, <2>2, <3>1, EmptyFacts, LeafHashesFacts DEF TypeOK, IInv
  <2>3. CASE index # -1
    <3>1. /\ index \in 0..(Len(leaves) - 1)
          /\ IsSeq(proof) /\ Len(trail) = Len(proof) + 1
          /\ Len(trail) <= Len(layers)
          /\ \A k \in 1..Len(trail) : trail[k] \in 0..(Len(layers[k]) - 1)
      BY <2>3 DEF IInv, ProofInv
    <3>2. Len(proof) \in Nat /\ Len(leaves) \in Nat
      BY <3>1, SeqFacts, LeafHashesFacts DEF IInv
    <3>3. checked \in 0..Len(proof)
      BY <3>2 DEF IInv, VerifyInv
    <3> QED BY <2>1, <2>3, <3>1, <3>2, <3>3 DEF TypeOK
  <2> QED BY <2>2, <2>3
<1> QED BY <1>1, Invariance, PTL

\* verify_proof accepts get_proof's list for a position exactly for the leaf at
\* that position, for every tree.
THEOREM InclusionProofsExact == Spec => []VerifiesExactly
<1>1. IInv => VerifiesExactly
  <2> SUFFICES ASSUME IInv, claim # <<>>, checked = Len(proof)
               PROVE  Accepted <=> claim = <<leaves[index + 1]>>
    BY DEF VerifiesExactly
  <2>1. /\ ProofDone
        /\ current = OnPath <=> claim = <<leaves[index + 1]>>
    BY DEF IInv, VerifyInv
  <2>2. /\ Built
        /\ Len(trail) = Len(proof) + 1
        /\ IsSeq(proof)
        /\ \A k \in 1..Len(trail) : trail[k] \in 0..(Len(layers[k]) - 1)
    BY <2>1 DEF IInv, ProofInv, ProofDone
  <2>3. Len(proof) \in Nat /\ Len(layers) \in Nat /\ Len(proof) + 1 = Len(layers)
    BY <2>1, <2>2, SeqFacts DEF IInv, LayersInv, ProofDone
  <2>4. trail[Len(layers)] \in 0..(Len(layers[Len(layers)]) - 1)
    BY <2>2, <2>3
  <2>5. trail[Len(layers)] = 0
    BY <2>2, <2>4 DEF Built, Last
  <2>6. OnPath = Root
    BY <2>3, <2>5 DEF OnPath, Root, Last
  <2> QED BY <2>1, <2>6 DEF Accepted
<1> QED BY <1>1, Invariance, PTL

-----------------------------------------------------------------------------
(***************************************************************************)
(* What a root commits to.  The hashes of a layer are those paired in the  *)
(* next one, so two trees with one root have the same hashes on every      *)
(* layer, counted from the root; and leaves cannot be taken for nodes.     *)
(***************************************************************************)
Hashes(layer) == {layer[i] : i \in 1..Len(layer)}

LeavesOf(list) == [i \in DOMAIN list |-> HashLeaf(list[i])]

\* The layers t[0], ..., t[d] of the tree over a list.
IsTower(t, d, list) ==
    /\ d \in Nat
    /\ t[0] = LeavesOf(list)
    /\ \A k \in 0..d : IsSeq(t[k]) /\ Len(t[k]) >= 1
    /\ \A k \in 0..(d - 1) : t[k + 1] = NextLayer(t[k])
    /\ Len(t[d]) = 1

\* A layer is all its parents have under them, and parents are nodes.
LEMMA LayerBelow ==
    ASSUME NEW layer, IsSeq(layer), Len(layer) >= 1
    PROVE  /\ Hashes(layer) = UNION {h[2] : h \in Hashes(NextLayer(layer))}
           /\ \A h \in Hashes(NextLayer(layer)) : h[1] = "node"
<1> DEFINE n == Len(layer)
           up == NextLayer(layer)
           m == (n + 1) \div 2
<1>1. n \in Nat /\ Len(up) = m /\ m \in Nat
  BY SeqFacts, NextLayerFacts
<1>2. \A j \in 1..m :
        up[j] = HashNode(layer[2 * j - 1], IF 2 * j <= n THEN layer[2 * j] ELSE layer[2 * j - 1])
  BY DEF NextLayer
<1> HIDE DEF n, up, m
<1>3. ASSUME NEW j \in 1..m
      PROVE  up[j][1] = "node" /\ up[j][2] \subseteq Hashes(layer)
  <2>1. 2 * j - 1 \in 1..n /\ (2 * j <= n => 2 * j \in 1..n)
    BY <1>1 DEF m
  <2>2. up[j][1] = "node"
    BY <1>2 DEF HashNode
  <2>3. up[j][2] = {layer[2 * j - 1], IF 2 * j <= n THEN layer[2 * j] ELSE layer[2 * j - 1]}
    BY <1>2 DEF HashNode
  <2> QED BY <2>1, <2>2, <2>3 DEF Hashes, n
<1>4. ASSUME NEW i \in 1..n PROVE \E j \in 1..m : layer[i] \in up[j][2]
  <2>1. i - 1 \in 0..(Len(layer) - 1) /\ (i - 1) + 1 = i
    BY <1>1 DEF n
  <2>2. /\ Parent(i - 1) \in 0..(Len(up) - 1)
        /\ up[Parent(i - 1) + 1] = HashNode(layer[i], Sibling(layer, i - 1))
    BY <2>1, ParentHash DEF up
  <2>3. Parent(i - 1) + 1 \in 1..m
    BY <1>1, <2>2
  <2>4. layer[i] \in up[Parent(i - 1) + 1][2]
    BY <2>2 DEF HashNode
  <2> QED BY <2>3, <2>4
<1>5. Hashes(layer) = {layer[i] : i \in 1..n} /\ Hashes(up) = {up[j] : j \in 1..m}
  BY <1>1 DEF Hashes, n
<1>6. UNION {h[2] : h \in Hashes(up)} \subseteq Hashes(layer)
  BY <1>3, <1>5
<1>7. Hashes(layer) \subseteq UNION {h[2] : h \in Hashes(up)}
  BY <1>4, <1>5
<1>8. \A h \in Hashes(up) : h[1] = "node"
  BY <1>3, <1>5
<1> QED BY <1>6, <1>7, <1>8 DEF up

\* Two trees with one root, the first no higher than the second.
LEMMA LowerSameRoot ==
    ASSUME NEW t, NEW c, NEW a, IsTower(t, c, a), DOMAIN a = 1..Len(a), Len(a) \in Nat,
           NEW u, NEW d, NEW b, IsTower(u, d, b), DOMAIN b = 1..Len(b), Len(b) \in Nat,
           c <= d, t[c][1] = u[d][1]
    PROVE  Values(a) = Values(b)
<1>0. c \in Nat /\ d \in Nat
  BY DEF IsTower
<1> DEFINE P == {j \in Nat : j <= c => Hashes(t[c - j]) = Hashes(u[d - j])}
<1>1. 0 \in P
  <2>1. Hashes(t[c]) = {t[c][1]} /\ Hashes(u[d]) = {u[d][1]}
    BY DEF IsTower, Hashes
  <2>2. c - 0 = c /\ d - 0 = d
    BY <1>0
  <2> QED BY <2>1, <2>2
<1>2. ASSUME NEW j \in P PROVE j + 1 \in P
  <2>0. j \in Nat
    OBVIOUS
  <2> SUFFICES ASSUME j + 1 <= c
               PROVE  Hashes(t[c - (j + 1)]) = Hashes(u[d - (j + 1)])
    BY <2>0
  <2>1. Hashes(t[c - j]) = Hashes(u[d - j])
    BY <1>0, <2>0
  <2>2. PICK k, l : k = c - (j + 1) /\ l = d - (j + 1)
    OBVIOUS
  <2>3. k \in 0..(c - 1) /\ l \in 0..(d - 1) /\ c - j = k + 1 /\ d - j = l + 1
    BY <1>0, <2>0, <2>2
  <2>4. t[c - j] = NextLayer(t[k]) /\ u[d - j] = NextLayer(u[l])
    BY <2>3 DEF IsTower
  <2>5. /\ IsSeq(t[k]) /\ Len(t[k]) >= 1
        /\ IsSeq(u[l]) /\ Len(u[l]) >= 1
    BY <1>0, <2>3 DEF IsTower
  <2>6. /\ Hashes(t[k]) = UNION {h[2] : h \in Hashes(NextLayer(t[k]))}
        /\ Hashes(u[l]) = UNION {h[2] : h \in Hashes(NextLayer(u[l]))}
    BY <2>5, LayerBelow
  <2> QED BY <2>1, <2>2, <2>4, <2>6
<1>3. P \in SUBSET Nat
  OBVIOUS
<1> HIDE DEF P
<1>4. c \in P
  BY <1>0, <1>1, <1>2, <1>3, NumberInduction
<1>5. Hashes(t[0]) = Hashes(u[d - c])
  BY <1>0, <1>4 DEF P
<1>6. t[0][1] \in Hashes(t[0]) /\ t[0][1][1] = "leaf"
  <2>1. Len(t[0]) >= 1 /\ IsSeq(t[0]) /\ t[0] = LeavesOf(a)
    BY <1>0 DEF IsTower
  <2>2. 1 \in 1..Len(t[0]) /\ 1 \in DOMAIN t[0]
    BY <2>1, SeqFacts
  <2>3. t[0][1] = HashLeaf(a[1])
    BY <2>1, <2>2 DEF LeavesOf
  <2> QED BY <2>2, <2>3 DEF Hashes, HashLeaf
<1>7. d = c
  <2> SUFFICES ASSUME d # c PROVE FALSE
    OBVIOUS
  <2>1. PICK l : l = d - c - 1
    OBVIOUS
  <2>2. l \in 0..(d - 1) /\ d - c = l + 1
    BY <1>0, <2>1
  <2>3. u[d - c] = NextLayer(u[l]) /\ IsSeq(u[l]) /\ Len(u[l]) >= 1
    BY <1>0, <2>2 DEF IsTower
  <2>4. \A h \in Hashes(u[d - c]) : h[1] = "node"
    BY <2>3, LayerBelow
  <2> QED BY <1>5, <1>6, <2>4
<1>8. Hashes(LeavesOf(a)) = Hashes(LeavesOf(b))
  BY <1>0, <1>5, <1>7 DEF IsTower
<1>9. ASSUME NEW e \in {a, b}
      PROVE  Hashes(LeavesOf(e)) = {HashLeaf(x) : x \in Values(e)}
  <2>1. /\ DOMAIN e = 1..Len(e) /\ Len(e) \in Nat
        /\ IsSeq(LeavesOf(e))
    BY <1>0 DEF IsTower
  <2>2. DOMAIN LeavesOf(e) = DOMAIN e /\ DOMAIN LeavesOf(e) = 1..Len(LeavesOf(e))
    BY <2>1, SeqFacts DEF LeavesOf
  <2>3. \A i \in DOMAIN e : LeavesOf(e)[i] = HashLeaf(e[i])
    BY DEF LeavesOf
  <2> QED BY <2>2, <2>3 DEF Hashes, Values
<1>10. \A x, y : HashLeaf(x) = HashLeaf(y) => x = y
  BY DEF HashLeaf
<1>11. {HashLeaf(x) : x \in Values(a)} = {HashLeaf(x) : x \in Values(b)}
  BY <1>8, <1>9
<1>12. ASSUME NEW x PROVE x \in Values(a) <=> x \in Values(b)
  <2>1. \A e : x \in Values(e) <=> HashLeaf(x) \in {HashLeaf(y) : y \in Values(e)}
    BY <1>10
  <2> QED BY <1>11, <2>1
<1> QED BY <1>12

LEMMA SameRoot ==
    ASSUME NEW t, NEW c, NEW a, IsTower(t, c, a), DOMAIN a = 1..Len(a), Len(a) \in Nat,
           NEW u, NEW d, NEW b, IsTower(u, d, b), DOMAIN b = 1..Len(b), Len(b) \in Nat,
           t[c][1] = u[d][1]
    PROVE  Values(a) = Values(b)
<1>1. c <= d \/ d <= c
  BY DEF IsTower
<1>2. CASE c <= d
  BY <1>2, LowerSameRoot
<1>3. CASE d <= c
  BY <1>3, LowerSameRoot
<1> QED BY <1>1, <1>2, <1>3

\* The layers that RootOf computes, the last one repeated.
IsRun(f, n, list) ==
    f = [k \in 0..n |->
           IF k = 0 THEN LeavesOf(list)
           ELSE IF Len(f[k - 1]) = 1 THEN f[k - 1] ELSE NextLayer(f[k - 1])]

LEMMA RunExists == ASSUME NEW list PROVE \A n \in Nat : \E f : IsRun(f, n, list)
<1> DEFINE above(l) == IF Len(l) = 1 THEN l ELSE NextLayer(l)
           Runs(f, n) == f = [k \in 0..n |-> IF k = 0 THEN LeavesOf(list) ELSE above(f[k - 1])]
           P == {n \in Nat : \E f : Runs(f, n)}
<1>1. \A f, n : IsRun(f, n, list) <=> Runs(f, n)
  BY DEF IsRun
<1> HIDE DEF above
<1>2. 0 \in P
  <2>1. PICK f : f = [k \in 0..0 |-> LeavesOf(list)]
    OBVIOUS
  <2>2. Runs(f, 0)
    BY <2>1
  <2> QED BY <2>2
<1>3. ASSUME NEW n \in P PROVE n + 1 \in P
  <2>0. n \in Nat
    OBVIOUS
  <2>1. PICK f : Runs(f, n)
    OBVIOUS
  <2>2. \A k \in 0..n : f[k] = IF k = 0 THEN LeavesOf(list) ELSE above(f[k - 1])
    BY <2>1
  <2>3. PICK g : g = [k \in 0..(n + 1) |-> IF k <= n THEN f[k] ELSE above(f[n])]
    OBVIOUS
  <2>4. \A k \in 0..(n + 1) : g[k] = IF k = 0 THEN LeavesOf(list) ELSE above(g[k - 1])
    <3> SUFFICES ASSUME NEW k \in 0..(n + 1)
                 PROVE  g[k] = IF k = 0 THEN LeavesOf(list) ELSE above(g[k - 1])
      OBVIOUS
    <3>1. CASE k = 0
      BY <2>0, <2>2, <2>3, <3>1
    <3>2. CASE k # 0
      <4>1. k - 1 \in 0..n /\ g[k - 1] = f[k - 1]
        BY <2>0, <2>3, <3>2
      <4>2. CASE k <= n
        BY <2>0, <2>2, <2>3, <3>2, <4>1, <4>2
      <4>3. CASE ~(k <= n)
        <5>1. k = n + 1 /\ k - 1 = n
          BY <2>0, <4>3
        <5> QED BY <2>0, <2>3, <3>2, <4>1, <4>3, <5>1
      <4> QED BY <4>2, <4>3
    <3> QED BY <3>1, <3>2
  <2>5. g = [k \in 0..(n + 1) |-> IF k = 0 THEN LeavesOf(list) ELSE above(g[k - 1])]
    <3>1. g = [k \in 0..(n + 1) |-> g[k]]
      BY <2>3
    <3> QED BY <2>4, <3>1
  <2>6. n + 1 \in Nat
    BY <2>0
  <2> QED BY <2>5, <2>6
<1>4. P \in SUBSET Nat
  OBVIOUS
<1>5. P = Nat
  <2> HIDE DEF P
  <2> QED BY <1>2, <1>3, <1>4, NumberInduction
<1> QED BY <1>1, <1>5

\* MaxLeaves passes are enough: RootOf is the root of the tree over its list.
LEMMA RootOfFacts ==
    ASSUME NEW list \in LeafLists
    PROVE  /\ DOMAIN list = 1..Len(list) /\ Len(list) \in Nat
           /\ \E t, d : IsTower(t, d, list) /\ t[d][1] = RootOf(list)
<1>1. PICK n \in 1..MaxLeaves : list \in [1..n -> Data]
  BY DEF LeafLists
<1>2. MaxLeaves \in Nat /\ n \in Nat /\ n >= 1
  BY LeavesAssumption
<1>3. /\ DOMAIN list = 1..Len(list) /\ Len(list) = n
      /\ IsSeq(LeavesOf(list)) /\ Len(LeavesOf(list)) = n
  <2>1. list \in Seq(Data) /\ DOMAIN list = 1..n
    BY <1>1, <1>2
  <2>2. LeavesOf(list) = [i \in 1..n |-> HashLeaf(list[i])]
    BY <2>1 DEF LeavesOf
  <2>3. LeavesOf(list) \in Seq({HashLeaf(list[i]) : i \in 1..n}) /\ DOMAIN LeavesOf(list) = 1..n
    BY <1>2, <2>2
  <2>4. Len(list) = n /\ Len(LeavesOf(list)) = n
    BY <1>2, <2>1, <2>3
  <2> QED BY <2>1, <2>3, <2>4 DEF IsSeq
<1>4. PICK f : IsRun(f, MaxLeaves, list) /\ RootOf(list) = f[MaxLeaves][1]
  <2> DEFINE R(f) == f = [k \in 0..MaxLeaves |->
                 IF k = 0 THEN [i \in DOMAIN list |-> HashLeaf(list[i])]
                 ELSE IF Len(f[k - 1]) = 1 THEN f[k - 1] ELSE NextLayer(f[k - 1])]
  <2>1. RootOf(list) = (CHOOSE f : R(f))[MaxLeaves][1]
    BY DEF RootOf
  <2>2. \A f : R(f) <=> IsRun(f, MaxLeaves, list)
    BY DEF IsRun, LeavesOf
  <2> HIDE DEF R
  <2>3. \E f : R(f)
    BY <1>2, <2>2, RunExists
  <2>4. PICK f : f = CHOOSE g : R(g)
    OBVIOUS
  <2>5. R(f)
    BY <2>3, <2>4
  <2> QED BY <2>1, <2>2, <2>4, <2>5
<1>5. /\ f[0] = LeavesOf(list)
      /\ \A k \in 0..(MaxLeaves - 1) :
           f[k + 1] = IF Len(f[k]) = 1 THEN f[k] ELSE NextLayer(f[k])
  <2>1. \A k \in 0..MaxLeaves :
          f[k] = IF k = 0 THEN LeavesOf(list)
                 ELSE IF Len(f[k - 1]) = 1 THEN f[k - 1] ELSE NextLayer(f[k - 1])
    BY <1>4 DEF IsRun
  <2>2. \A k \in 0..(MaxLeaves - 1) : k + 1 \in 0..MaxLeaves /\ k + 1 # 0 /\ (k + 1) - 1 = k
    BY <1>2
  <2> QED BY <1>2, <2>1, <2>2
\* Every pass that does not stop leaves fewer hashes.
<1> DEFINE Short(k) == IsSeq(f[k]) /\ Len(f[k]) >= 1 /\ (Len(f[k]) = 1 \/ Len(f[k]) <= n - k)
           P == {k \in Nat : k <= MaxLeaves => Short(k)}
<1>6. P = Nat
  <2>1. 0 \in P
    BY <1>2, <1>3, <1>5
  <2>2. ASSUME NEW k \in P PROVE k + 1 \in P
    <3>0. k \in Nat
      OBVIOUS
    <3> SUFFICES ASSUME k + 1 <= MaxLeaves PROVE Short(k + 1)
      BY <3>0
    <3>1. k \in 0..(MaxLeaves - 1) /\ Short(k)
      BY <1>2, <3>0
    <3>2. CASE Len(f[k]) = 1
      <4>1. f[k + 1] = f[k]
        BY <1>5, <3>1, <3>2
      <4> QED BY <3>1, <3>2, <4>1
    <3>3. CASE Len(f[k]) # 1
      <4>1. f[k + 1] = NextLayer(f[k])
        BY <1>5, <3>1, <3>3
      <4>2. /\ IsSeq(f[k + 1]) /\ Len(f[k + 1]) >= 1
            /\ Len(f[k + 1]) = (Len(f[k]) + 1) \div 2
        BY <3>1, <4>1, NextLayerFacts
      <4>3. PICK v, w : v = Len(f[k]) /\ w = Len(f[k + 1])
        OBVIOUS
      <4>4. v \in Nat /\ v >= 1 /\ v # 1 /\ v <= n - k /\ w = (v + 1) \div 2
        BY <3>1, <3>3, <4>2, <4>3, SeqFacts
      <4>5. w <= n - (k + 1)
        BY ONLY <1>2, <3>0, <4>4
      <4> QED BY <4>2, <4>3, <4>5
    <3> QED BY <3>2, <3>3
  <2>3. P \in SUBSET Nat
    OBVIOUS
  <2> HIDE DEF P
  <2> QED BY <2>1, <2>2, <2>3, NumberInduction
<1>7. \A k \in 0..MaxLeaves : Short(k)
  <2>1. \A k \in 0..MaxLeaves : k \in P /\ k <= MaxLeaves
    BY <1>2, <1>6
  <2> QED BY <2>1
<1> HIDE DEF P
<1>8. Len(f[MaxLeaves]) = 1
  <2>1. Short(MaxLeaves)
    BY <1>2, <1>7
  <2>2. Len(f[MaxLeaves]) \in Nat
    BY <2>1, SeqFacts
  <2> QED BY <1>1, <1>2, <2>1, <2>2
\* The pass after which nothing changes any more.
<1>9. PICK d \in 0..MaxLeaves : /\ Len(f[d]) = 1
                                /\ \A k \in 0..(d - 1) : Len(f[k]) # 1
  <2> DEFINE T == {k \in 0..MaxLeaves : Len(f[k]) = 1}
  <2>1. T \in SUBSET Nat /\ MaxLeaves \in T
    BY <1>2, <1>8
  <2>2. PICK d \in T : \A k \in T : d <= k
    BY <2>1, LeastNumber
  <2>3. \A k \in 0..(d - 1) : k \in 0..MaxLeaves /\ ~(d <= k)
    BY <1>2, <2>1, <2>2
  <2> QED BY <2>2, <2>3
<1>10. IsTower(f, d, list)
  <2>1. d \in Nat /\ \A k \in 0..(d - 1) : k \in 0..(MaxLeaves - 1) /\ Len(f[k]) # 1
    BY <1>2, <1>9
  <2>2. \A k \in 0..(d - 1) : f[k + 1] = NextLayer(f[k])
    BY <1>5, <2>1
  <2>3. \A k \in 0..d : IsSeq(f[k]) /\ Len(f[k]) >= 1
    BY <1>2, <1>7, <1>9
  <2> QED BY <1>5, <1>9, <2>1, <2>2, <2>3 DEF IsTower
<1>11. f[d] = f[MaxLeaves]
  <2> DEFINE Q == {k \in Nat : d + k <= MaxLeaves => f[d + k] = f[d]}
  <2>0. d \in Nat /\ d <= MaxLeaves
    BY <1>2, <1>9
  <2>1. 0 \in Q
    BY <2>0
  <2>2. ASSUME NEW k \in Q PROVE k + 1 \in Q
    <3>0. k \in Nat
      OBVIOUS
    <3> SUFFICES ASSUME d + (k + 1) <= MaxLeaves PROVE f[d + (k + 1)] = f[d]
      BY <3>0
    <3>1. /\ d + k \in 0..(MaxLeaves - 1) /\ d + (k + 1) = (d + k) + 1
          /\ f[d + k] = f[d]
      BY <1>2, <2>0, <3>0
    <3> QED BY <1>5, <1>9, <3>1
  <2>3. Q \in SUBSET Nat
    OBVIOUS
  <2> HIDE DEF Q
  <2>4. MaxLeaves - d \in Q
    BY <1>2, <2>0, <2>1, <2>2, <2>3, NumberInduction
  <2>5. d + (MaxLeaves - d) = MaxLeaves
    BY <1>2, <2>0
  <2> QED BY <2>4, <2>5 DEF Q
<1>12. f[d][1] = RootOf(list)
  BY <1>4, <1>11
<1> QED BY <1>2, <1>3, <1>10, <1>12

\* The layers of the state are such a tower once they are built.
LEMMA LayersAreTower ==
    ASSUME IInv, Built
    PROVE  /\ DOMAIN leaves = 1..Len(leaves) /\ Len(leaves) \in Nat
           /\ \E t, d : IsTower(t, d, leaves) /\ t[d][1] = Root
<1>1. /\ leaves \in Seq(Data)
      /\ DOMAIN leaves = 1..Len(leaves) /\ Len(leaves) \in Nat
  BY LeafHashesFacts DEF IInv, LeavesInv
<1>2. Len(layers) \in Nat /\ Len(layers) >= 1
  BY SeqFacts DEF IInv, LayersInv
<1>3. PICK d, t : d = Len(layers) - 1 /\ t = [k \in 0..d |-> layers[k + 1]]
  OBVIOUS
<1>4. d \in Nat /\ d + 1 = Len(layers) /\ \A k \in 0..d : t[k] = layers[k + 1]
  BY <1>2, <1>3
<1>5. t[0] = LeavesOf(leaves)
  <2>1. t[0] = layers[1]
    BY <1>4
  <2> QED BY <1>1, <2>1 DEF IInv, LayersInv, LeafHashes, LeavesOf
<1>6. \A k \in 0..d : IsSeq(t[k]) /\ Len(t[k]) >= 1
  <2>1. \A k \in 0..d : k + 1 \in 1..Len(layers)
    BY <1>4
  <2> QED BY <1>4, <2>1 DEF IInv, LayersInv
<1>7. \A k \in 0..(d - 1) : t[k + 1] = NextLayer(t[k])
  <2> SUFFICES ASSUME NEW k \in 0..(d - 1) PROVE t[k + 1] = NextLayer(t[k])
    OBVIOUS
  <2>1. k \in 0..d /\ k + 1 \in 0..d /\ k + 1 \in 1..(Len(layers) - 1)
    BY <1>4
  <2>2. layers[(k + 1) + 1] = NextLayer(layers[k + 1])
    BY <2>1 DEF IInv, LayersInv
  <2> QED BY <1>4, <2>1, <2>2
<1>8. t[d] = Last(layers)
  BY <1>4 DEF Last
<1>9. IsTower(t, d, leaves)
  BY <1>4, <1>5, <1>6, <1>7, <1>8 DEF IsTower, Built
<1> QED BY <1>1, <1>8, <1>9 DEF Root

\* For any number of leaves, only lists of the same values share a root
\* (_build, _hash_node): a root commits to the set of its leaves.
THEOREM RootsFixLeaves == Spec => []RootFixesLeaves
<1>1. IInv => RootFixesLeaves
  <2> SUFFICES ASSUME IInv, Built, NEW list \in LeafLists, RootOf(list) = Root
               PROVE  Values(list) = Values(leaves)
    BY DEF RootFixesLeaves, RootTable
  <2>1. PICK t, d : IsTower(t, d, list) /\ t[d][1] = RootOf(list)
    BY RootOfFacts
  <2>2. PICK u, e : IsTower(u, e, leaves) /\ u[e][1] = Root
    BY LayersAreTower
  <2>3. /\ DOMAIN list = 1..Len(list) /\ Len(list) \in Nat
        /\ DOMAIN leaves = 1..Len(leaves) /\ Len(leaves) \in Nat
    BY RootOfFacts, LayersAreTower
  <2>4. PICK b : b = leaves
    OBVIOUS
  <2>5. Values(list) = Values(b)
    BY <2>1, <2>2, <2>3, <2>4, SameRoot
  <2> QED BY <2>4, <2>5
<1> QED BY <1>1, Invariance, PTL
=============================================================================
