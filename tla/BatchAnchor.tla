---------------------------- MODULE BatchAnchor ----------------------------
(***************************************************************************)
(* The on-chain contract (anchor/contracts/src/BatchAnchor.sol): a         *)
(* write-once table of Merkle roots, one row per batch id, writable only   *)
(* by the account that deployed it.                                        *)
(*                                                                         *)
(* A root is represented by the sequence of records it commits to (the     *)
(* module Merkle is about the hashing); metadataHash is a function of the  *)
(* batch id and is left out; a timestamp is the height of the transaction. *)
(***************************************************************************)
EXTENDS Integers, Sequences

CONSTANTS
    BatchIds,   \* the uint256 keys in use
    Owner       \* msg.sender of the constructor

VARIABLES
    anchors,      \* mapping(uint256 => Anchor): total, zero where unset
    anchorCount

contractVars == <<anchors, anchorCount>>

NoAnchor == [root |-> <<>>, timestamp |-> 0]

Unguarded(b) == FALSE

BatchAlreadyAnchored(b) == anchors[b].timestamp # 0

\* anchorBatch reverts, and changes nothing, exactly when this is false.
Accepts(sender, b) == sender = Owner /\ ~BatchAlreadyAnchored(b)

\* The body of anchorBatch once both checks are passed.
AnchorBatch(b, root, now) ==
    /\ anchors' = [anchors EXCEPT ![b] = [root |-> root, timestamp |-> now]]
    /\ anchorCount' = anchorCount + 1

ContractInit ==
    /\ anchors = [b \in BatchIds |-> NoAnchor]
    /\ anchorCount = 0

Anchored == {b \in BatchIds : BatchAlreadyAnchored(b)}
=============================================================================
