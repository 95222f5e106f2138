--------------------------- MODULE AgentLifecycle ---------------------------
(***************************************************************************)
(* The lifecycle machine of layer1/kya/state_machine.py: its states, and   *)
(* for each event the states it leaves and the one it enters.              *)
(***************************************************************************)
Active == {"registered", "verified", "attested", "established"}

NonFinal == Active \cup {"unregistered", "suspended"}

Statuses == NonFinal \cup {"revoked"}

Source == [register   |-> {"unregistered"},
           verify     |-> {"registered"},
           attest     |-> {"verified"},
           establish  |-> {"attested"},
           suspend    |-> Active,
           reactivate |-> {"suspended"},
           revoke     |-> NonFinal]

SkipsVerified == [register   |-> "registered",
                  verify     |-> "attested",
                  attest     |-> "established",
                  establish  |-> "established",
                  suspend    |-> "suspended",
                  reactivate |-> "registered",
                  revoke     |-> "revoked"]

Target == [register   |-> "registered",
           verify     |-> "verified",
           attest     |-> "attested",
           establish  |-> "established",
           suspend    |-> "suspended",
           reactivate |-> "registered",
           revoke     |-> "revoked"]

\* A transition the machine has.
Transition(from, to) ==
    \E e \in DOMAIN Source : from \in Source[e] /\ to = Target[e]
=============================================================================
