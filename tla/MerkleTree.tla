----------------------------- MODULE MerkleTree -----------------------------
(***************************************************************************)
(* The Merkle trees of zkpoc-broker/src/merkle.js over symbolic hashes: a  *)
(* digest is the pair it was made of, so two digests are equal only if     *)
(* what was hashed is.  Positions count from 0, as in the code.            *)
(***************************************************************************)
EXTENDS Integers, Sequences, FiniteSetsExt

\* sha256(concatBytes(left, right))
Sha256(left, right) == <<left, right>>

\* Plausible bug: an odd last node is passed up as it is.
LayerAboveFault(layer) ==
    [i \in 1 .. (Len(layer) + 1) \div 2 |->
        IF 2 * i <= Len(layer) THEN Sha256(layer[2 * i - 1], layer[2 * i])
                               ELSE layer[2 * i - 1]]

\* The last node of an odd layer is paired with itself.
LayerAbove(layer) ==
    [i \in 1 .. (Len(layer) + 1) \div 2 |->
        Sha256(layer[2 * i - 1], layer[Min({2 * i, Len(layer)})])]

\* Layer upon layer, as many as could be needed.
Stack(leaves) ==
    LET layer[h \in 0 .. Len(leaves)] ==
          IF h = 0 THEN leaves ELSE LayerAbove(layer[h - 1])
    IN  layer

\* buildMerkleTree(): the layers from the leaves up to the root.
Layers(leaves) ==
    LET layer == Stack(leaves)
        top == Min({h \in 0 .. Len(leaves) : Len(layer[h]) = 1})
    IN  [h \in 1 .. top + 1 |-> layer[h - 1]]

Root(layers) == layers[Len(layers)][1]

\* Plausible bug: the side recorded is the node's own, not its sibling's.
SiblingFault(layer, at) ==
    IF at % 2 = 1
    THEN [hash |-> layer[at], isRight |-> TRUE]
    ELSE [hash |-> layer[Min({at + 2, Len(layer)})], isRight |-> FALSE]

\* The neighbour of the node at a position, and whether it sits on the right;
\* at the edge of an odd layer, the node itself.
Sibling(layer, at) ==
    IF at % 2 = 1
    THEN [hash |-> layer[at], isRight |-> FALSE]
    ELSE [hash |-> layer[Min({at + 2, Len(layer)})], isRight |-> TRUE]

\* Where the path from a leaf passes through each layer, counted from 0.
Path(layers, index) ==
    LET idx[level \in 0 .. Len(layers)] ==
          IF level = 0 THEN index ELSE idx[level - 1] \div 2
    IN  idx

\* proveInclusion()
ProveInclusion(layers, index) ==
    [level \in 1 .. Len(layers) - 1 |->
        Sibling(layers[level], Path(layers, index)[level - 1])]

\* What verifyInclusion() has computed after each step of a proof: the position
\* is not an argument, the sides stand for it.
Climb(leaf, proof) ==
    LET current[p \in 0 .. Len(proof)] ==
          IF p = 0 THEN leaf
          ELSE IF proof[p].isRight THEN Sha256(current[p - 1], proof[p].hash)
                                   ELSE Sha256(proof[p].hash, current[p - 1])
    IN  current

VerifyInclusion(leaf, proof, root) == Climb(leaf, proof)[Len(proof)] = root
=============================================================================
