-------------------------- MODULE MCAlertLifecycle --------------------------
(* Small instances of AlertLifecycle for TLC: a user rule, two checks of   *)
(* one component (a node's CPU and memory), a service, an event.           *)
EXTENDS AlertLifecycle

(* Both checks of the node have one category and one component. *)
MCClass ==
  [k \in Conditions |-> IF k \in {"nodeCPU", "nodeMemory"} THEN "node" ELSE k]

=============================================================================
