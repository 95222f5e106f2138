-------------------------- MODULE MCAnchorPipeline --------------------------
(***************************************************************************)
(* Instances of AnchorPipeline for TLC.                                    *)
(***************************************************************************)
EXTENDS AnchorPipeline, TLC

CONSTANTS rpc, timeout, drop, crash, redis   \* failures allowed, by kind

MCBatchIds == 1..MaxBatches

MCMaxFaults == [rpc |-> rpc, timeout |-> timeout, drop |-> drop,
                crash |-> crash, redis |-> redis]

\* Records and replicas are interchangeable (safety runs only).
Symmetry == Permutations(Records) \cup Permutations(Schedulers)
=============================================================================
