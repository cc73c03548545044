---------------------------- MODULE Uart2Framing ----------------------------
(***************************************************************************)
(* UART2 input: reads of any length are gathered in uart2_rx_buffer and cut*)
(* into lines.  The queue the lines go to is in PacketPipeline; here they  *)
(* are collected in the order they are offered to it.                      *)
(***************************************************************************)
EXTENDS Naturals, Sequences, FiniteSetsExt

CONSTANTS UART2_BUF_SIZE,   \* length of uart2_rx_buffer and of a read
          MaxInput          \* bound: bytes the line delivers

ASSUME Uart2Assumption == /\ UART2_BUF_SIZE \in Nat \ {0}
                          /\ MaxInput \in Nat

(* A byte of a command, a carriage return and a newline.                   *)
LineByte == {"c", "r", "n"}

VARIABLES uart2_rx_buffer,   \* the first uart2_rx_len bytes of the buffer
          lines,             \* the data of the packets sent to the queue
          kept,              \* history: all bytes that fitted the buffer
          received           \* bytes received so far

uart2_vars == <<uart2_rx_buffer, lines, kept, received>>

Uart2Init == /\ uart2_rx_buffer = <<>>
             /\ lines = <<>>
             /\ kept = <<>>
             /\ received = 0

(* The bytes of a read that fit; the rest is discarded before any line is  *)
(* cut, so a line end among them is lost too.                              *)
AllBytes(bytes) == bytes
Fits(bytes) ==
  SubSeq(bytes, 1, Min({Len(bytes), UART2_BUF_SIZE - Len(uart2_rx_buffer)}))

(* A \r at the start of a line is skipped, and an empty line makes no      *)
(* packet.                                                                 *)
StripLeadingCr(line) ==
  IF line # <<>> /\ line[1] = "r" THEN Tail(line) ELSE line
Packets(line) ==
  IF StripLeadingCr(line) = <<>> THEN <<>> ELSE <<StripLeadingCr(line)>>

(* The loop over buffer b: where the next line starts, and the packets of  *)
(* the lines that have ended among the first i bytes.                      *)
ScanByte(b, i, s) ==
  IF b[i] # "n" THEN s
  ELSE [cmd_start |-> i + 1,
        packets |-> s.packets \o Packets(SubSeq(b, s.cmd_start, i - 1))]
Scan(b) ==
  LET s[i \in 0..Len(b)] ==
        IF i = 0 THEN [cmd_start |-> 1, packets |-> <<>>]
        ELSE ScanByte(b, i, s[i - 1])
  IN s
CompleteLines(b) == Scan(b)[Len(b)].packets

(* What follows the last newline moves to the start of the buffer.         *)
RemainingWithNewline(b) ==
  LET start == Scan(b)[Len(b)].cmd_start
  IN SubSeq(b, IF start = 1 THEN 1 ELSE start - 1, Len(b))
Remaining(b) == SubSeq(b, Scan(b)[Len(b)].cmd_start, Len(b))

(* uart2_handle_data for a read that returned bytes.                       *)
HandleData(bytes) ==
  LET buffer == uart2_rx_buffer \o Fits(bytes) IN
  /\ lines' = lines \o CompleteLines(buffer)
  /\ uart2_rx_buffer' = Remaining(buffer)
  /\ kept' = kept \o Fits(bytes)
  /\ received' = received + Len(bytes)

Uart2Next == \E n \in 1..UART2_BUF_SIZE :
               /\ received + n <= MaxInput
               /\ \E bytes \in [1..n -> LineByte] : HandleData(bytes)

Uart2Spec == Uart2Init /\ [][Uart2Next]_uart2_vars

-----------------------------------------------------------------------------
(* Properties.                                                             *)

(* Every variable stays in its set.                                        *)
Uart2TypeOK ==
  /\ uart2_rx_buffer \in Seq(LineByte)
  /\ lines \in Seq(Seq(LineByte))
  /\ kept \in Seq(LineByte)
  /\ received \in 0..MaxInput

(* What stays in uart2_rx_buffer after a read is a line without its end,   *)
(* and no longer than the buffer.                                          *)
UnfinishedLineFits ==
  /\ Len(uart2_rx_buffer) <= UART2_BUF_SIZE
  /\ \A i \in DOMAIN uart2_rx_buffer : uart2_rx_buffer[i] # "n"

(* uart2_handle_data never copies bytes of a read past the end of the      *)
(* buffer, not even those of lines that are cut off before it returns.     *)
CopyFits ==
  [][Len(uart2_rx_buffer) + (Len(kept') - Len(kept))
       <= UART2_BUF_SIZE]_uart2_vars

(* A decoder that looks at one byte at a time and never at read boundaries:*)
(* the lines it has put out and the one it is in, after i bytes.           *)
DecodeByte(d, byte) ==
  IF byte # "n" THEN [d EXCEPT !.pending = Append(@, byte)]
  ELSE LET cr == d.pending # <<>> /\ Head(d.pending) = "r"
           line == IF cr THEN Tail(d.pending) ELSE d.pending
       IN [out |-> IF line = <<>> THEN d.out ELSE Append(d.out, line),
           pending |-> <<>>]
Decoder(bytes) ==
  LET d[i \in 0..Len(bytes)] ==
        IF i = 0 THEN [out |-> <<>>, pending |-> <<>>]
        ELSE DecodeByte(d[i - 1], bytes[i])
  IN d

(* Framing does not depend on how the bytes were split into reads: the     *)
(* packets sent and the bytes kept for later are those of the byte-wise    *)
(* decoder run over everything that fitted the buffer.                     *)
FramingIgnoresReads ==
  LET decoded == Decoder(kept)[Len(kept)]
  IN lines = decoded.out /\ uart2_rx_buffer = decoded.pending
=============================================================================
