--------------------------- MODULE ProtoRoundTrip ---------------------------
(***************************************************************************)
(* What pb_encode writes, pb_decode reads.                                 *)
(***************************************************************************)
EXTENDS ProtoDecode, ProtoEncode

(* What pb_encode writes of a Setting fits the buffer of Setting_size that *)
(* every caller has, and pb_decode gives the same Setting back, wherever   *)
(* its values lie in their range, in whatever order the fields come and    *)
(* with the fields of a newer firmware between them.                       *)
SettingSurvives ==
  Root = "Setting" /\ Complete =>
    /\ status # "failed"
    /\ status = "decoded" =>
         result = input.message /\ FitsBuffer(result)
=============================================================================
