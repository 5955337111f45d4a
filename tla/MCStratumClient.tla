-------------------------- MODULE MCStratumClient --------------------------
(* Small instances of StratumClient: one etherproxy server for the runs    *)
(* about requests, three for the runs about failing over, and one stratum  *)
(* server for the runs about waiting and reconnecting.                     *)
EXTENDS StratumClient, TLC

MCProxy == 0 :> "etherproxy"
MCServers == [s \in 0..2 |-> "etherproxy"]
MCStratum == 0 :> "stratum"

\* The bound of the run about redialing, which has three connections: it does
\* not go on from a state where checkNewWork announces a DAG change.
NoDagChange == listener # "changeDAG"
=============================================================================
