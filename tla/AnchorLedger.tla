---------------------------- MODULE AnchorLedger ----------------------------
(***************************************************************************)
(* What the anchoring pipeline promises to an auditor, whatever the        *)
(* schedulers, the providers and the network do: an append-only ledger in  *)
(* which each row, once written, stays as it is, and commits to a          *)
(* non-empty list of distinct records that were handed to the pipeline     *)
(* before the row was written.  The row counter counts the rows.           *)
(***************************************************************************)
EXTENDS Integers, Sequences, Functions

CONSTANTS Records, BatchIds

VARIABLES
    accepted,  \* records handed to the pipeline
    ledger,    \* batch id -> [root, timestamp]; timestamp 0 when not written
    count

ledgerVars == <<accepted, ledger, count>>

Init ==
    /\ accepted = {}
    /\ ledger = [b \in BatchIds |-> [root |-> <<>>, timestamp |-> 0]]
    /\ count = 0

Accept(r) ==
    /\ r \notin accepted
    /\ accepted' = accepted \cup {r}
    /\ UNCHANGED <<ledger, count>>

Committable(root) ==
    /\ root # <<>>
    /\ IsInjective(root)
    /\ Range(root) \subseteq accepted

\* Row b, and no other, goes from unwritten to written.
Commit(b) ==
    /\ ledger[b].timestamp = 0
    /\ ledger'[b].timestamp > 0
    /\ Committable(ledger'[b].root)
    /\ \A c \in BatchIds \ {b} : ledger'[c] = ledger[c]
    /\ count' = count + 1
    /\ UNCHANGED accepted

Next ==
    \/ \E r \in Records : Accept(r)
    \/ \E b \in BatchIds : Commit(b)

Spec == Init /\ [][Next]_ledgerVars
=============================================================================
