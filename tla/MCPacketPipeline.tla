-------------------------- MODULE MCPacketPipeline --------------------------
(***************************************************************************)
(* Instances of PacketPipeline for TLC.                                    *)
(***************************************************************************)
EXTENDS PacketPipeline

(* Every input, one executor at a time replaced once.                      *)
EveryInput == AllSource

(* One input with an address block on the select task and one that shares  *)
(* its task with the settings endpoint.                                    *)
ContendingInputs == {"UDP", "WEBSOCKET"}
=============================================================================
