-------------------------- MODULE MCSessionCapture --------------------------
(* SessionCapture with the bounds and the configurations of the TLC runs. *)
EXTENDS SessionCapture

CONSTANTS unsortable, mutate, write, publish, cancel, crash  \* failures of each kind

MCMaxFaults == [k \in FaultKinds |->
    CASE k = "unsortable" -> unsortable [] k = "mutate" -> mutate [] k = "write" -> write
      [] k = "publish" -> publish [] k = "cancel" -> cancel [] k = "crash" -> crash]

\* Every tool invocation costs something and names a data source; an LLM call
\* and an observation feed one of the two alone.
MCToolExtras == {{"cost", "accesses"}}

\* SessionService always has settings.
MCWirings ==
    {w \in [hosted : BOOLEAN, redis : BOOLEAN, storage : {"none", "local", "s3"}] :
        w.hosted => w.storage # "none"}
=============================================================================
