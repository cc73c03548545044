---------------------------- MODULE MCEventLoop ----------------------------
(***************************************************************************)
(* An instance of EventLoop for TLC.                                       *)
(***************************************************************************)
EXTENDS EventLoop, TLC

Symmetry == Permutations(Sock)

(* Every mode and change of mode without clients; clients with the access  *)
(* point alone.                                                            *)
Focus == sess = [s \in Sock |-> "closed"] \/ (boot = "ap" /\ reconfs = 0)
=============================================================================
