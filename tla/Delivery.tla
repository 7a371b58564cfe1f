------------------------------ MODULE Delivery ------------------------------
(* What the agent promises about the samples it collects: at-least-once    *)
(* delivery out of a bounded store.  A sample leaves the store only when   *)
(* the backend has it, when more than Capacity samples are waiting, or     *)
(* when the process dies.  Of the samples collected some are followed by   *)
(* name, the others only count.                                            *)
EXTENDS Naturals

CONSTANTS Followed, Capacity

VARIABLES
  running,    \* the process is up
  collected,  \* the followed samples taken so far
  held,       \* those of them the agent still has
  delivered,  \* those of them the backend has
  waiting     \* how many samples the agent has in all

vars == <<running, collected, held, delivered, waiting>>

(* At most one followed sample among those held. *)
One == {{}} \cup {{s} : s \in held}

Init ==
  /\ ~running
  /\ held \subseteq Followed
  /\ collected = held
  /\ delivered = {}
  /\ waiting \in Nat

Collect ==
  /\ running
  /\ \/ \E s \in Followed \ collected :
          /\ collected' = collected \cup {s}
          /\ held' = held \cup {s}
     \/ UNCHANGED <<collected, held>>
  /\ waiting' = waiting + 1
  /\ UNCHANGED <<running, delivered>>

(* The agent may not learn that a sample was delivered: then it keeps it, *)
(* and delivers it again.                                                 *)
Deliver ==
  /\ running
  /\ \E d \in One :
       /\ delivered' = delivered \cup d
       /\ \/ held' = held \ d /\ waiting' = waiting - 1
          \/ UNCHANGED <<held, waiting>>
  /\ UNCHANGED <<running, collected>>

Discard ==
  /\ running
  /\ waiting > Capacity
  /\ \E d \in One : held' = held \ d
  /\ waiting' = waiting - 1
  /\ UNCHANGED <<running, collected, delivered>>

(* What is left is what the disk holds, which may be out of date. *)
Crash ==
  /\ running
  /\ running' = FALSE
  /\ held' \in SUBSET collected
  /\ waiting' \in Nat
  /\ UNCHANGED <<collected, delivered>>

Restart ==
  /\ ~running
  /\ running' = TRUE
  /\ IF waiting > Capacity
     THEN waiting' = Capacity /\ held' \in SUBSET held
     ELSE UNCHANGED <<waiting, held>>
  /\ UNCHANGED <<collected, delivered>>

Next == Collect \/ Deliver \/ Discard \/ Crash \/ Restart

Spec == Init /\ [][Next]_vars

=============================================================================
