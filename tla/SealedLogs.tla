----------------------------- MODULE SealedLogs -----------------------------
(***************************************************************************)
(* What reasoning sessions promise: each is a log that only grows, is      *)
(* closed once and for all, and of which at most one commitment is ever    *)
(* published, after the closing, covering exactly what the log holds.      *)
(* Logs are independent: several may take a step at once.                  *)
(***************************************************************************)
EXTENDS Sequences

CONSTANTS Logs, Entries

VARIABLES
    log,
    sealed,
    published  \* commitments handed to the anchoring pipeline, per log

logVars == <<log, sealed, published>>

Init ==
    /\ log = [l \in Logs |-> <<>>]
    /\ sealed = [l \in Logs |-> FALSE]
    /\ published = [l \in Logs |-> <<>>]

Record(l) ==
    /\ ~sealed[l]
    /\ \E e \in Entries : log'[l] = Append(log[l], e)
    /\ ~sealed'[l]
    /\ published'[l] = published[l]

Seal(l) ==
    /\ ~sealed[l]
    /\ sealed'[l]
    /\ log'[l] = log[l]
    /\ published'[l] = published[l]

Publish(l) ==
    /\ sealed[l]
    /\ published[l] = <<>>
    /\ published'[l] = <<log[l]>>
    /\ log'[l] = log[l]
    /\ sealed'[l]

Stay(l) ==
    /\ log'[l] = log[l]
    /\ sealed'[l] = sealed[l]
    /\ published'[l] = published[l]

Next == \A l \in Logs : Record(l) \/ Seal(l) \/ Publish(l) \/ Stay(l)

Spec == Init /\ [][Next]_logVars
=============================================================================
