------------------------------ MODULE MCCanBus ------------------------------
(***************************************************************************)
(* An instance of CanBus for TLC.                                          *)
(***************************************************************************)
EXTENDS CanBus

(* Two commands, so that a count can be lost, and one frame from the motors*)
(* between two reports.                                                    *)
FewFrames == [c \in Counter |-> IF c = "tx" THEN 2 ELSE 1]
=============================================================================
