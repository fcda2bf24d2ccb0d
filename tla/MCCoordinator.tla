--------------------------- MODULE MCCoordinator ---------------------------
(* Instances of Coordinator for TLC. *)
EXTENDS CoordinatorInv, TLC

CONSTANTS c1, c2, p1, p2

(* The second worker process may register with the PID of the first. *)
AnyPid == (c1 :> {p1}) @@ (c2 :> {p1, p2})

(* Every worker process has a PID of its own. *)
OwnPid == (c1 :> {p1}) @@ (c2 :> {p2})

=============================================================================
