-------------------------- MODULE ByteStreamProofs --------------------------
(***************************************************************************)
(* Proofs about the two parts that read bytes: the line framing of UART2   *)
(* (Uart2Framing) and pb_decode with the callbacks of handy_task           *)
(* (ProtoDecode), for every input and every size.  Both define functions   *)
(* by recursion over their bytes; the induction over those is done with    *)
(* sets, by way of the well-foundedness of < on the natural numbers.       *)
(***************************************************************************)
EXTENDS ProtoDecode, Uart2Framing, WellFoundedInduction, TLAPS

-----------------------------------------------------------------------------
(* Induction over data.                                                    *)

(* Induction up to n, for a set that holds the numbers with a property.    *)
LEMMA InductionUpTo ==
  ASSUME NEW n \in Nat, NEW T,
         0 \in T,
         \A i \in 0..n-1 : i \in T => i + 1 \in T
  PROVE  \A i \in 0..n : i \in T
<1> DEFINE Bad == {i \in 0..n : i \notin T}
<1> SUFFICES ASSUME Bad # {} PROVE FALSE
  OBVIOUS
<1>1. PICK m \in Bad : \A k \in Bad : ~(k < m)
  <2>1. IsWellFoundedOn(OpToRel(<, Nat), Nat)
    BY NatLessThanWellFounded
  <2>2. Bad \subseteq Nat
    OBVIOUS
  <2>3. \E m \in Bad : \A k \in Bad : ~(<<k, m>> \in OpToRel(<, Nat))
    BY <2>1, <2>2, WFMin
  <2> QED
    BY <2>2, <2>3 DEF OpToRel
<1>2. m \in 1..n /\ m - 1 \in 0..n-1
  BY <1>1
<1> QED
  BY <1>1, <1>2

(* f is the recursion that starts with init and takes the steps.           *)
Follows(f, n, init, step) ==
  /\ f[0] = init
  /\ \A i \in 1..n : f[i] = step[i][f[i-1]]

(* A function may be defined by recursion up to n.                         *)
LEMMA RecursionUpTo ==
  ASSUME NEW n \in Nat, NEW S, NEW init \in S,
         NEW step \in [1..n -> [S -> S]]
  PROVE  \E f \in [0..n -> S] : Follows(f, n, init, step)
<1> DEFINE Upto(m, f) ==
             /\ f[0] = init
             /\ \A i \in 1..m : f[i] = step[i][f[i-1]]
           T == {m \in 0..n : \E f \in [0..m -> S] : Upto(m, f)}
<1>1. 0 \in T
  <2> DEFINE g == [i \in 0..0 |-> init]
  <2>1. g \in [0..0 -> S] /\ Upto(0, g)
    OBVIOUS
  <2> HIDE DEF g, Upto
  <2> QED
    BY <2>1
<1>2. \A m \in 0..n-1 : m \in T => m + 1 \in T
  <2> SUFFICES ASSUME NEW m \in 0..n-1, m \in T PROVE m + 1 \in T
    OBVIOUS
  <2>1. PICK f \in [0..m -> S] : Upto(m, f)
    OBVIOUS
  <2> DEFINE g == [i \in 0..m+1 |-> IF i <= m THEN f[i] ELSE step[m+1][f[m]]]
  <2>2. step[m+1][f[m]] \in S
    OBVIOUS
  <2>3. g \in [0..m+1 -> S]
    BY <2>2
  <2>4. Upto(m+1, g)
    <3>1. g[0] = init
      BY <2>1
    <3>2. ASSUME NEW i \in 1..m+1 PROVE g[i] = step[i][g[i-1]]
      <4>1. CASE i <= m
        BY <2>1, <4>1
      <4>2. CASE i = m + 1
        BY <4>2
      <4> QED
        BY <4>1, <4>2
    <3> QED
      BY <3>1, <3>2
  <2> HIDE DEF g, Upto
  <2> QED
    BY <2>3, <2>4
<1> HIDE DEF Upto, T
<1>3. \A m \in 0..n : m \in T
  BY <1>1, <1>2, InductionUpTo
<1>4. PICK f \in [0..n -> S] : Upto(n, f)
  BY <1>3 DEF T
<1> QED
  BY <1>4 DEF Upto, Follows

-----------------------------------------------------------------------------
(* UART2 framing.                                                          *)

(* What Scan and Decoder go through; a pending line has no line end.       *)
ScannerStates(n) == [cmd_start : 1..n+1, packets : Seq(Seq(LineByte))]
Unended == LineByte \ {"n"}
DecoderStates == [out : Seq(Seq(LineByte)), pending : Seq(Unended)]

(* StripLeadingCr and Packets stay within lines.                           *)
LEMMA PacketsAreLines ==
  ASSUME NEW line \in Seq(LineByte)
  PROVE  /\ StripLeadingCr(line) \in Seq(LineByte)
         /\ Packets(line) \in Seq(Seq(LineByte))
<1>1. StripLeadingCr(line) \in Seq(LineByte)
  BY DEF StripLeadingCr
<1> QED
  BY <1>1 DEF Packets

(* Scan is the recursion it is written as.                                 *)
LEMMA ScanIs ==
  ASSUME NEW b \in Seq(LineByte)
  PROVE  /\ Scan(b) \in [0..Len(b) -> ScannerStates(Len(b))]
         /\ Scan(b)[0] = [cmd_start |-> 1, packets |-> <<>>]
         /\ \A i \in 1..Len(b) : Scan(b)[i] = ScanByte(b, i, Scan(b)[i-1])
<1> DEFINE S == ScannerStates(Len(b))
           init == [cmd_start |-> 1, packets |-> <<>>]
           step == [i \in 1..Len(b) |-> [s \in S |-> ScanByte(b, i, s)]]
<1>1. Len(b) \in Nat
  OBVIOUS
<1>2. init \in S
  BY <1>1 DEF ScannerStates
<1>3. ASSUME NEW i \in 1..Len(b), NEW s \in S
      PROVE  ScanByte(b, i, s) \in S
  <2>1. SubSeq(b, s.cmd_start, i - 1) \in Seq(LineByte)
    BY <1>1 DEF ScannerStates
  <2>2. Packets(SubSeq(b, s.cmd_start, i - 1)) \in Seq(Seq(LineByte))
    BY <2>1, PacketsAreLines
  <2> QED
    BY <1>1, <2>2 DEF ScanByte, ScannerStates
<1>4. step \in [1..Len(b) -> [S -> S]]
  BY <1>3
<1> HIDE DEF S, init, step
<1>5. PICK f \in [0..Len(b) -> S] : Follows(f, Len(b), init, step)
  BY <1>1, <1>2, <1>4, RecursionUpTo
<1>6. \A i \in 1..Len(b) : f[i] = ScanByte(b, i, f[i-1])
  <2> SUFFICES ASSUME NEW i \in 1..Len(b)
               PROVE  f[i] = ScanByte(b, i, f[i-1])
    OBVIOUS
  <2>1. f[i] = step[i][f[i-1]] /\ f[i-1] \in S
    BY <1>1, <1>5 DEF Follows
  <2> QED
    BY <2>1 DEF step
<1>7. f = [i \in 0..Len(b) |->
             IF i = 0 THEN [cmd_start |-> 1, packets |-> <<>>]
             ELSE ScanByte(b, i, f[i - 1])]
  <2>1. \A i \in 0..Len(b) :
          f[i] = IF i = 0 THEN [cmd_start |-> 1, packets |-> <<>>]
                 ELSE ScanByte(b, i, f[i - 1])
    <3>1. f[0] = [cmd_start |-> 1, packets |-> <<>>]
      BY <1>5 DEF Follows, init
    <3>2. \A i \in 0..Len(b) : i = 0 \/ i \in 1..Len(b)
      BY <1>1
    <3> QED
      BY <1>6, <3>1, <3>2
  <2>2. f = [i \in 0..Len(b) |-> f[i]]
    BY <1>5
  <2> QED
    BY <2>1, <2>2
<1> DEFINE g == Scan(b)
<1>8. g = [i \in 0..Len(b) |->
             IF i = 0 THEN [cmd_start |-> 1, packets |-> <<>>]
             ELSE ScanByte(b, i, g[i - 1])]
  BY <1>7 DEF Scan
<1> HIDE DEF g
<1>9. \A i \in 0..Len(b) : g[i] \in S
  <2> DEFINE T == {i \in 0..Len(b) : g[i] \in S}
  <2>1. 0 \in T
    BY <1>1, <1>2, <1>8 DEF init
  <2>2. \A i \in 0..Len(b)-1 : i \in T => i + 1 \in T
    BY <1>1, <1>3, <1>8
  <2> HIDE DEF T
  <2>3. \A i \in 0..Len(b) : i \in T
    BY <1>1, <2>1, <2>2, InductionUpTo
  <2> QED
    BY <2>3 DEF T
<1>10. g \in [0..Len(b) -> S]
  <2>1. g = [i \in 0..Len(b) |-> g[i]]
    BY <1>8
  <2> QED
    BY <1>9, <2>1
<1>11. /\ g[0] = init
       /\ \A i \in 1..Len(b) : g[i] = ScanByte(b, i, g[i-1])
  BY <1>1, <1>8 DEF init
<1> QED
  BY <1>10, <1>11 DEF g, S, init

(* Decoder is the recursion it is written as.                              *)
LEMMA DecoderIs ==
  ASSUME NEW b \in Seq(LineByte)
  PROVE  /\ Decoder(b) \in [0..Len(b) -> DecoderStates]
         /\ Decoder(b)[0] = [out |-> <<>>, pending |-> <<>>]
         /\ \A i \in 1..Len(b) :
              Decoder(b)[i] = DecodeByte(Decoder(b)[i-1], b[i])
<1> DEFINE init == [out |-> <<>>, pending |-> <<>>]
           step == [i \in 1..Len(b) |->
                     [d \in DecoderStates |-> DecodeByte(d, b[i])]]
<1>1. Len(b) \in Nat
  OBVIOUS
<1>2. init \in DecoderStates
  BY DEF DecoderStates
<1>3. ASSUME NEW i \in 1..Len(b), NEW d \in DecoderStates
      PROVE  DecodeByte(d, b[i]) \in DecoderStates
  <2>1. b[i] \in LineByte
    OBVIOUS
  <2>2. d.pending \in Seq(Unended) /\ d.out \in Seq(Seq(LineByte))
    BY DEF DecoderStates
  <2>3. d.pending \in Seq(LineByte)
    BY <2>2 DEF Unended
  <2>4. CASE b[i] # "n"
    <3>1. Append(d.pending, b[i]) \in Seq(Unended)
      BY <2>1, <2>2, <2>4 DEF Unended
    <3>2. DecodeByte(d, b[i]) = [d EXCEPT !.pending = Append(d.pending, b[i])]
      BY <2>4 DEF DecodeByte
    <3> HIDE DEF init
    <3> QED
      BY <3>1, <3>2 DEF DecoderStates
  <2>5. CASE b[i] = "n"
    <3> DEFINE cr == d.pending # <<>> /\ Head(d.pending) = "r"
               line == IF cr THEN Tail(d.pending) ELSE d.pending
               next == IF line = <<>> THEN d.out ELSE Append(d.out, line)
    <3>1. line \in Seq(LineByte)
      BY <2>3
    <3>2. DecodeByte(d, b[i]) = [out |-> next, pending |-> <<>>]
      BY <2>5 DEF DecodeByte
    <3> HIDE DEF line
    <3>3. next \in Seq(Seq(LineByte))
      BY <2>2, <3>1
    <3> HIDE DEF next
    <3> QED
      BY <3>2, <3>3 DEF DecoderStates
  <2> QED
    BY <2>4, <2>5
<1>4. step \in [1..Len(b) -> [DecoderStates -> DecoderStates]]
  BY <1>3
<1> HIDE DEF init, step
<1>5. PICK f \in [0..Len(b) -> DecoderStates] : Follows(f, Len(b), init, step)
  BY <1>1, <1>2, <1>4, RecursionUpTo
<1>6. \A i \in 1..Len(b) : f[i] = DecodeByte(f[i-1], b[i])
  <2> SUFFICES ASSUME NEW i \in 1..Len(b)
               PROVE  f[i] = DecodeByte(f[i-1], b[i])
    OBVIOUS
  <2>1. f[i] = step[i][f[i-1]] /\ f[i-1] \in DecoderStates
    BY <1>1, <1>5 DEF Follows
  <2> QED
    BY <2>1 DEF step
<1>7. f = [i \in 0..Len(b) |-> IF i = 0 THEN [out |-> <<>>, pending |-> <<>>]
                               ELSE DecodeByte(f[i - 1], b[i])]
  <2>1. \A i \in 0..Len(b) :
          f[i] = IF i = 0 THEN [out |-> <<>>, pending |-> <<>>]
                 ELSE DecodeByte(f[i - 1], b[i])
    <3>1. f[0] = [out |-> <<>>, pending |-> <<>>]
      BY <1>5 DEF Follows, init
    <3>2. \A i \in 0..Len(b) : i = 0 \/ i \in 1..Len(b)
      BY <1>1
    <3> QED
      BY <1>6, <3>1, <3>2
  <2>2. f = [i \in 0..Len(b) |-> f[i]]
    BY <1>5
  <2> QED
    BY <2>1, <2>2
<1> DEFINE g == Decoder(b)
<1>8. g = [i \in 0..Len(b) |-> IF i = 0 THEN [out |-> <<>>, pending |-> <<>>]
                               ELSE DecodeByte(g[i - 1], b[i])]
  BY <1>7 DEF Decoder
<1> HIDE DEF g
<1>9. \A i \in 0..Len(b) : g[i] \in DecoderStates
  <2> DEFINE T == {i \in 0..Len(b) : g[i] \in DecoderStates}
  <2>1. 0 \in T
    BY <1>1, <1>2, <1>8 DEF init
  <2>2. \A i \in 0..Len(b)-1 : i \in T => i + 1 \in T
    BY <1>1, <1>3, <1>8
  <2> HIDE DEF T
  <2>3. \A i \in 0..Len(b) : i \in T
    BY <1>1, <2>1, <2>2, InductionUpTo
  <2> QED
    BY <2>3 DEF T
<1>10. g \in [0..Len(b) -> DecoderStates]
  <2>1. g = [i \in 0..Len(b) |-> g[i]]
    BY <1>8
  <2> QED
    BY <1>9, <2>1
<1>11. /\ g[0] = init
       /\ \A i \in 1..Len(b) : g[i] = DecodeByte(g[i-1], b[i])
  BY <1>1, <1>8 DEF init
<1> QED
  BY <1>10, <1>11 DEF g, init

(* The bytes of a line and the next one.                                   *)
LEMMA OneMore ==
  ASSUME NEW S, NEW b \in Seq(S), NEW i \in 1..Len(b), NEW start \in 1..i
  PROVE  SubSeq(b, start, i) = Append(SubSeq(b, start, i - 1), b[i])
OBVIOUS

(* Joining sequences is associative.                                       *)
LEMMA Associative ==
  ASSUME NEW S, NEW a \in Seq(S), NEW b \in Seq(S), NEW c \in Seq(S)
  PROVE  a \o (b \o c) = (a \o b) \o c
OBVIOUS

(* The loop of uart2_handle_data and the byte-wise decoder do the same with*)
(* a byte: what the decoder has pending is what the loop has passed since  *)
(* the last line end.                                                      *)
LEMMA ByteByByte ==
  ASSUME NEW b \in Seq(LineByte), NEW i \in 1..Len(b),
         NEW s \in [cmd_start : 1..i, packets : Seq(Seq(LineByte))],
         NEW out \in Seq(Seq(LineByte))
  PROVE  LET t == ScanByte(b, i, s)
             d == [out |-> out \o s.packets,
                   pending |-> SubSeq(b, s.cmd_start, i - 1)]
         IN /\ DecodeByte(d, b[i]) = [out |-> out \o t.packets,
                                      pending |-> SubSeq(b, t.cmd_start, i)]
            /\ t.cmd_start \in 1..i+1
<1> DEFINE line == SubSeq(b, s.cmd_start, i - 1)
           d == [out |-> out \o s.packets, pending |-> line]
           t == ScanByte(b, i, s)
<1>1. /\ Len(b) \in Nat /\ i \in Nat /\ s.cmd_start \in 1..i
      /\ s.packets \in Seq(Seq(LineByte))
  OBVIOUS
<1>2. line \in Seq(LineByte)
  BY <1>1
<1>3. CASE b[i] # "n"
  <2>1. t = s
    BY <1>3 DEF ScanByte
  <2>2. SubSeq(b, s.cmd_start, i) = Append(line, b[i])
    <3> DEFINE start == s.cmd_start
    <3>1. start \in 1..i /\ i \in 1..Len(b)
      BY <1>1
    <3> HIDE DEF start
    <3>2. SubSeq(b, start, i) = Append(SubSeq(b, start, i - 1), b[i])
      BY <3>1, OneMore
    <3> QED
      BY <3>2 DEF start
  <2>3. DecodeByte(d, b[i]) =
          [out |-> d.out, pending |-> Append(d.pending, b[i])]
    BY <1>3 DEF DecodeByte
  <2>4. d.out = out \o s.packets /\ d.pending = line
    OBVIOUS
  <2> HIDE DEF d, t, line
  <2> QED
    BY <1>1, <2>1, <2>2, <2>3, <2>4 DEF d, t, line
<1>4. CASE b[i] = "n"
  <2>1. t = [cmd_start |-> i + 1, packets |-> s.packets \o Packets(line)]
    BY <1>4 DEF ScanByte
  <2>2. SubSeq(b, i + 1, i) = <<>>
    BY <1>1
  <2> DEFINE stripped == StripLeadingCr(line)
             so_far == out \o s.packets
  <2>3. /\ stripped \in Seq(LineByte) /\ Packets(line) \in Seq(Seq(LineByte))
        /\ so_far \in Seq(Seq(LineByte))
    <3> HIDE DEF line
    <3>1. /\ StripLeadingCr(line) \in Seq(LineByte)
          /\ Packets(line) \in Seq(Seq(LineByte))
      BY <1>2, PacketsAreLines
    <3> QED
      BY <1>1, <3>1
  <2>4. d.pending = line /\ d.out = so_far
    OBVIOUS
  <2>5. DecodeByte(d, b[i]) = [out |-> IF stripped = <<>> THEN so_far
                                       ELSE Append(so_far, stripped),
                               pending |-> <<>>]
    <3> HIDE DEF d, line, so_far
    <3>1. line # <<>> => Head(line) = line[1]
      BY <1>2
    <3> QED
      BY <1>4, <2>4, <3>1 DEF DecodeByte, StripLeadingCr
  <2>6. out \o (s.packets \o Packets(line)) = so_far \o Packets(line)
    <3> DEFINE Lines == Seq(LineByte)
               p == Packets(line)
               q == s.packets
    <3>1. p \in Seq(Lines) /\ q \in Seq(Lines) /\ out \in Seq(Lines)
      BY <1>1, <2>3
    <3> HIDE DEF p, q, Lines
    <3> DEFINE o == out
    <3>3. o \in Seq(Lines)
      BY <3>1
    <3> HIDE DEF o
    <3>2. o \o (q \o p) = (o \o q) \o p
      BY <3>1, <3>3, Associative
    <3> QED
      BY <3>2 DEF p, q, o
  <2>7. so_far \o Packets(line) = IF stripped = <<>> THEN so_far
                                  ELSE Append(so_far, stripped)
    <3> HIDE DEF so_far
    <3> QED
      BY <2>3 DEF Packets
  <2>8. t.packets = s.packets \o Packets(line) /\ t.cmd_start = i + 1
    BY <2>1
  <2> HIDE DEF stripped, so_far, line, d, t
  <2>9. DecodeByte(d, b[i]) = [out |-> out \o t.packets,
                               pending |-> SubSeq(b, t.cmd_start, i)]
    BY <2>2, <2>5, <2>6, <2>7, <2>8
  <2>10. t.cmd_start \in 1..i+1
    BY <1>1, <2>8
  <2> QED
    BY <2>9, <2>10 DEF d, t, line
<1> QED
  BY <1>3, <1>4

(* A read ...                                                              *)
LEMMA ReadKeepsStep ==
  ASSUME NEW rx \in Seq(LineByte), NEW old \in Seq(LineByte),
         NEW fits \in Seq(LineByte), NEW out,
         \A i \in 1..Len(rx) : rx[i] # "n",
         Decoder(old)[Len(old)] = [out |-> out, pending |-> rx]
  PROVE  LET b == rx \o fits
             all == old \o fits
         IN  Decoder(all)[Len(all)] = [out |-> out \o CompleteLines(b),
                                       pending |-> Remaining(b)]
<1> DEFINE b == rx \o fits
           all == old \o fits
           scan == Scan(b)
           dec == Decoder(all)
           was == Decoder(old)
           k == Len(rx)
           n == Len(old)
           m == Len(fits)
<1>1. /\ k \in Nat /\ n \in Nat /\ m \in Nat
      /\ b \in Seq(LineByte) /\ Len(b) = k + m
      /\ all \in Seq(LineByte) /\ Len(all) = n + m
      /\ \A i \in 1..k : b[i] = rx[i] /\ b[i] # "n"
      /\ \A i \in 1..n : all[i] = old[i]
      /\ \A j \in 1..m : b[k + j] = fits[j] /\ all[n + j] = fits[j]
  OBVIOUS
<1>2. /\ scan \in [0..k + m -> ScannerStates(k + m)]
      /\ scan[0] = [cmd_start |-> 1, packets |-> <<>>]
      /\ \A i \in 1..k + m : scan[i] = ScanByte(b, i, scan[i-1])
  <2> HIDE DEF b
  <2> QED
    BY <1>1, ScanIs
<1>3. /\ dec \in [0..n + m -> DecoderStates]
      /\ dec[0] = [out |-> <<>>, pending |-> <<>>]
      /\ \A i \in 1..n + m : dec[i] = DecodeByte(dec[i-1], all[i])
  <2> HIDE DEF all
  <2> QED
    BY <1>1, DecoderIs
<1>4. /\ was[0] = [out |-> <<>>, pending |-> <<>>]
      /\ \A i \in 1..n : was[i] = DecodeByte(was[i-1], old[i])
  BY DecoderIs
<1>5. out \in Seq(Seq(LineByte))
  <2>1. Decoder(old)[n] \in DecoderStates
    BY <1>1, DecoderIs
  <2> QED
    BY <2>1 DEF DecoderStates
<1>6. /\ Remaining(b) = SubSeq(b, scan[k + m].cmd_start, k + m)
      /\ CompleteLines(b) = scan[k + m].packets
  BY <1>1 DEF Remaining, CompleteLines
<1> HIDE DEF b, all, scan, dec, was, k, n, m
<1>7. \A i \in 0..n : dec[i] = was[i]
  <2> DEFINE T == {i \in 0..n : dec[i] = was[i]}
  <2>1. 0 \in T
    BY <1>1, <1>3, <1>4
  <2>2. \A i \in 0..n-1 : i \in T => i + 1 \in T
    BY <1>1, <1>3, <1>4
  <2> HIDE DEF T
  <2>3. \A i \in 0..n : i \in T
    BY <1>1, <2>1, <2>2, InductionUpTo
  <2> QED
    BY <2>3 DEF T
<1>8. \A i \in 0..k : scan[i] = [cmd_start |-> 1, packets |-> <<>>]
  <2> DEFINE T == {i \in 0..k : scan[i] = [cmd_start |-> 1, packets |-> <<>>]}
  <2>1. 0 \in T
    BY <1>1, <1>2
  <2>2. \A i \in 0..k-1 : i \in T => i + 1 \in T
    <3> SUFFICES ASSUME NEW i \in 0..k-1, i \in T PROVE i + 1 \in T
      OBVIOUS
    <3>1. scan[i + 1] = ScanByte(b, i + 1, scan[i]) /\ b[i + 1] # "n"
      BY <1>1, <1>2
    <3>2. scan[i + 1] = scan[i]
      BY <3>1 DEF ScanByte
    <3> QED
      BY <1>1, <3>2
  <2> HIDE DEF T
  <2>3. \A i \in 0..k : i \in T
    BY <1>1, <2>1, <2>2, InductionUpTo
  <2> QED
    BY <2>3 DEF T
<1> DEFINE Agree(j) ==
             LET s == scan[k + j]
             IN /\ dec[n + j] = [out |-> out \o s.packets,
                                    pending |-> SubSeq(b, s.cmd_start, k + j)]
                /\ s.cmd_start \in 1..k+j+1
<1>9. Agree(0)
  <2>1. dec[n] = [out |-> out, pending |-> rx]
    <3>1. was[n] = [out |-> out, pending |-> rx]
      BY DEF was, n
    <3> QED
      BY <1>1, <1>7, <3>1
  <2>2. scan[k] = [cmd_start |-> 1, packets |-> <<>>]
    BY <1>1, <1>8
  <2>3. SubSeq(b, 1, k) = rx
    BY <1>1 DEF k
  <2>4. out \o <<>> = out
    BY <1>5
  <2>5. k + 0 = k /\ n + 0 = n
    BY <1>1
  <2>6. scan[k].packets = <<>> /\ scan[k].cmd_start = 1
    BY <2>2
  <2> SUFFICES dec[n] = [out |-> out \o scan[k].packets,
                         pending |-> SubSeq(b, scan[k].cmd_start, k)]
               /\ scan[k].cmd_start \in 1..k+1
    BY <2>5
  <2> QED
    BY <1>1, <2>1, <2>3, <2>4, <2>6
<1>10. ASSUME NEW j \in 0..m-1, Agree(j)
       PROVE  Agree(j + 1)
  <2>1. PICK i \in 1..k+m : i = k + (j + 1) /\ i - 1 = k + j /\ k + j + 1 = i
    BY <1>1
  <2>2. PICK h \in 1..n+m : h = n + (j + 1) /\ h - 1 = n + j
    BY <1>1
  <2>3. j + 1 \in 1..m
    BY <1>1
  <2>4. all[h] = b[i]
    BY <1>1, <2>1, <2>2, <2>3
  <2>5. scan[i] = ScanByte(b, i, scan[i-1])
    BY <1>2, <2>1
  <2>6. dec[h] = DecodeByte(dec[h-1], b[i])
    BY <1>3, <2>2, <2>4
  <2>7. /\ dec[h-1] = [out |-> out \o scan[i-1].packets,
                      pending |-> SubSeq(b, scan[i-1].cmd_start, i-1)]
        /\ scan[i-1].cmd_start \in 1..i
    BY <1>10, <2>1, <2>2
  <2>8. scan[i-1] \in [cmd_start : 1..i, packets : Seq(Seq(LineByte))]
    <3>1. i - 1 \in 0..k+m
      BY <1>1, <2>1
    <3>2. scan[i-1] \in ScannerStates(k + m)
      BY <1>2, <3>1
    <3> QED
      BY <2>7, <3>2 DEF ScannerStates
  <2>9. i \in 1..Len(b)
    BY <1>1, <2>1
  <2>10. /\ dec[h] = [out |-> out \o scan[i].packets,
                     pending |-> SubSeq(b, scan[i].cmd_start, i)]
         /\ scan[i].cmd_start \in 1..i+1
    BY <1>1, <1>5, <2>5, <2>6, <2>7, <2>8, <2>9, ByteByByte
  <2> QED
    BY <2>1, <2>2, <2>10
<1> HIDE DEF Agree
<1>11. \A j \in 0..m : Agree(j)
  <2> DEFINE T == {j \in 0..m : Agree(j)}
  <2>1. 0 \in T
    BY <1>1, <1>9
  <2>2. \A j \in 0..m-1 : j \in T => j + 1 \in T
    BY <1>1, <1>10
  <2> HIDE DEF T
  <2>3. \A j \in 0..m : j \in T
    BY <1>1, <2>1, <2>2, InductionUpTo
  <2> QED
    BY <2>3 DEF T
<1>12. Agree(m)
  BY <1>1, <1>11
<1>13. dec[n + m] = [out |-> out \o CompleteLines(b), pending |-> Remaining(b)]
  BY <1>6, <1>12 DEF Agree
<1> QED
  BY <1>1, <1>13 DEF dec, b, all

(* The invariant of the framing; it is inductive as it stands.             *)
FramingIInv == Uart2TypeOK /\ UnfinishedLineFits /\ FramingIgnoresReads

(* What is read into the buffer is as much as fits.                        *)
LEMMA FitsIsBounded ==
  ASSUME NEW bytes \in Seq(LineByte), Uart2TypeOK, UnfinishedLineFits
  PROVE  /\ Fits(bytes) \in Seq(LineByte)
         /\ Len(uart2_rx_buffer) + Len(Fits(bytes)) <= UART2_BUF_SIZE
<1> DEFINE room == UART2_BUF_SIZE - Len(uart2_rx_buffer)
<1>1. Len(bytes) \in Nat /\ room \in Nat
  BY Uart2Assumption DEF Uart2TypeOK, UnfinishedLineFits
<1>2. Min({Len(bytes), room}) = IF Len(bytes) <= room THEN Len(bytes) ELSE room
  BY <1>1 DEF Min
<1> DEFINE n == Min({Len(bytes), room})
<1>3. n \in 0..Len(bytes) /\ n <= room
  BY <1>1, <1>2
<1>4. Fits(bytes) = SubSeq(bytes, 1, n)
  BY DEF Fits
<1> HIDE DEF n
<1>5. Fits(bytes) \in Seq(LineByte) /\ Len(Fits(bytes)) = n
  BY <1>3, <1>4
<1>6. Len(uart2_rx_buffer) \in Nat
  BY DEF Uart2TypeOK
<1> QED
  BY <1>1, <1>3, <1>5, <1>6, Uart2Assumption

(* The lines cut from a buffer are lines, and what is left is no longer    *)
(* than the buffer.                                                        *)
LEMMA CutIs ==
  ASSUME NEW b \in Seq(LineByte)
  PROVE  /\ CompleteLines(b) \in Seq(Seq(LineByte))
         /\ Remaining(b) \in Seq(LineByte)
         /\ Len(Remaining(b)) <= Len(b)
<1> DEFINE s == Scan(b)[Len(b)]
<1>1. Len(b) \in Nat
  OBVIOUS
<1>2. s \in ScannerStates(Len(b))
  BY <1>1, ScanIs
<1> HIDE DEF s
<1>3. s.cmd_start \in 1..Len(b)+1 /\ s.packets \in Seq(Seq(LineByte))
  BY <1>2 DEF ScannerStates
<1>4. /\ SubSeq(b, s.cmd_start, Len(b)) \in Seq(LineByte)
      /\ Len(SubSeq(b, s.cmd_start, Len(b))) <= Len(b)
  BY <1>1, <1>3
<1> QED
  BY <1>3, <1>4 DEF CompleteLines, Remaining, s

(* uart2_handle_data keeps the invariant, whatever a read returns.         *)
LEMMA HandleDataKeeps ==
  ASSUME FramingIInv, NEW n \in 1..UART2_BUF_SIZE, received + n <= MaxInput,
         NEW bytes \in [1..n -> LineByte], HandleData(bytes)
  PROVE  /\ FramingIInv'
         /\ Len(uart2_rx_buffer) + (Len(kept') - Len(kept)) <= UART2_BUF_SIZE
<1> DEFINE fits == Fits(bytes)
           buffer == uart2_rx_buffer \o fits
           all == kept \o fits
<1>1. bytes \in Seq(LineByte) /\ Len(bytes) = n
  BY Uart2Assumption
<1>2. /\ fits \in Seq(LineByte)
      /\ Len(uart2_rx_buffer) + Len(fits) <= UART2_BUF_SIZE
  BY <1>1, FitsIsBounded DEF FramingIInv
<1>3. /\ lines' = lines \o CompleteLines(buffer)
      /\ uart2_rx_buffer' = Remaining(buffer)
      /\ kept' = all
      /\ received' = received + n
  BY <1>1 DEF HandleData
<1>4. /\ uart2_rx_buffer \in Seq(LineByte) /\ kept \in Seq(LineByte)
      /\ lines \in Seq(Seq(LineByte))
      /\ \A i \in 1..Len(uart2_rx_buffer) : uart2_rx_buffer[i] # "n"
  BY DEF FramingIInv, Uart2TypeOK, UnfinishedLineFits
<1> HIDE DEF fits
<1>5. buffer \in Seq(LineByte) /\ Len(buffer) <= UART2_BUF_SIZE
  BY <1>2, <1>4
<1>6. all \in Seq(LineByte) /\ Len(all) = Len(kept) + Len(fits)
  BY <1>2, <1>4
<1>7. Decoder(kept)[Len(kept)] = [out |-> lines, pending |-> uart2_rx_buffer]
  <2> DEFINE d == Decoder(kept)[Len(kept)]
  <2>1. d \in DecoderStates
    <3>1. /\ Decoder(kept) \in [0..Len(kept) -> DecoderStates]
          /\ Len(kept) \in 0..Len(kept)
      BY <1>4, DecoderIs
    <3> QED
      BY <3>1
  <2>2. d.out = lines /\ d.pending = uart2_rx_buffer
    BY DEF FramingIInv, FramingIgnoresReads
  <2> HIDE DEF d
  <2>3. d = [out |-> lines, pending |-> uart2_rx_buffer]
    BY <2>1, <2>2 DEF DecoderStates
  <2> QED
    BY <2>3 DEF d
<1>8. Decoder(all)[Len(all)] = [out |-> lines', pending |-> uart2_rx_buffer']
  BY <1>2, <1>3, <1>4, <1>7, ReadKeepsStep
<1>9. /\ CompleteLines(buffer) \in Seq(Seq(LineByte))
      /\ Remaining(buffer) \in Seq(LineByte)
      /\ Len(Remaining(buffer)) <= Len(buffer)
  <2> HIDE DEF buffer
  <2> QED
    BY <1>5, CutIs
<1>10. \A i \in 1..Len(uart2_rx_buffer') : uart2_rx_buffer'[i] # "n"
  <2> DEFINE d == Decoder(all)[Len(all)]
  <2>1. d \in DecoderStates
    <3> HIDE DEF all
    <3> QED
      BY <1>6, DecoderIs
  <2>2. d.pending = uart2_rx_buffer'
    BY <1>8
  <2> HIDE DEF d
  <2>3. uart2_rx_buffer' \in Seq(Unended)
    BY <2>1, <2>2 DEF DecoderStates
  <2> QED
    BY <2>3 DEF Unended
<1> HIDE DEF all, buffer
<1>11. Uart2TypeOK'
  BY <1>1, <1>3, <1>4, <1>6, <1>9, Uart2Assumption DEF FramingIInv, Uart2TypeOK
<1>12. UnfinishedLineFits'
  <2>1. Len(uart2_rx_buffer') <= UART2_BUF_SIZE
    BY <1>3, <1>5, <1>9, Uart2Assumption
  <2>2. DOMAIN uart2_rx_buffer' = 1..Len(uart2_rx_buffer')
    BY <1>3, <1>9
  <2> QED
    BY <1>10, <2>1, <2>2 DEF UnfinishedLineFits
<1>13. FramingIgnoresReads'
  BY <1>3, <1>8 DEF FramingIgnoresReads
<1>14. Len(uart2_rx_buffer) + (Len(kept') - Len(kept)) <= UART2_BUF_SIZE
  <2>1. Len(kept) \in Nat /\ Len(fits) \in Nat
    BY <1>2, <1>4
  <2> QED
    BY <1>2, <1>3, <1>6, <2>1
<1> QED
  BY <1>11, <1>12, <1>13, <1>14 DEF FramingIInv

(* The empty buffer is what the decoder holds before the first byte.       *)
LEMMA FramingInit == Uart2Init => FramingIInv
<1> SUFFICES ASSUME Uart2Init PROVE FramingIInv
  OBVIOUS
<1>1. /\ uart2_rx_buffer = <<>> /\ lines = <<>>
      /\ kept = <<>> /\ received = 0
  BY DEF Uart2Init
<1>2. Uart2TypeOK /\ UnfinishedLineFits
  BY <1>1, Uart2Assumption DEF Uart2TypeOK, UnfinishedLineFits
<1>3. Decoder(kept)[0] = [out |-> <<>>, pending |-> <<>>] /\ Len(kept) = 0
  BY <1>2, DecoderIs, <1>1 DEF Uart2TypeOK
<1> QED
  BY <1>1, <1>2, <1>3 DEF FramingIInv, FramingIgnoresReads

(* Every step keeps the invariant of the framing.                          *)
LEMMA FramingStep == FramingIInv /\ [Uart2Next]_uart2_vars => FramingIInv'
<1> SUFFICES ASSUME FramingIInv, [Uart2Next]_uart2_vars
             PROVE  FramingIInv'
  OBVIOUS
<1>1. CASE Uart2Next
  BY <1>1, HandleDataKeeps DEF Uart2Next
<1>2. CASE UNCHANGED uart2_vars
  BY <1>2 DEF uart2_vars, FramingIInv, Uart2TypeOK, UnfinishedLineFits,
              FramingIgnoresReads
<1> QED
  BY <1>1, <1>2

(* The invariant of the framing holds in every reachable state.            *)
LEMMA FramingCorrect == Uart2Spec => []FramingIInv
  BY FramingInit, FramingStep, PTL DEF Uart2Spec

(* The buffer, the bytes kept and their number stay in their sets.         *)
THEOREM Uart2TypeCorrect == Uart2Spec => []Uart2TypeOK
<1>1. FramingIInv => Uart2TypeOK
  BY DEF FramingIInv
<1> QED
  BY <1>1, FramingCorrect, PTL

(* Between two reads the buffer holds a line without its end that is no    *)
(* longer than the buffer, for every length of the buffer and of the reads.*)
THEOREM NoLineIsKept == Uart2Spec => []UnfinishedLineFits
<1>1. FramingIInv => UnfinishedLineFits
  BY DEF FramingIInv
<1> QED
  BY <1>1, FramingCorrect, PTL

(* However the bytes are split into reads, uart2_handle_data cuts them into*)
(* the lines a byte-wise decoder finds, and keeps the line that decoder is *)
(* in.                                                                     *)
THEOREM ReadsDoNotMatter == Uart2Spec => []FramingIgnoresReads
<1>1. FramingIInv => FramingIgnoresReads
  BY DEF FramingIInv
<1> QED
  BY <1>1, FramingCorrect, PTL

(* uart2_handle_data never writes past the end of its buffer.              *)
THEOREM NeverOverflows == Uart2Spec => CopyFits
<1>1. FramingIInv /\ [Uart2Next]_uart2_vars
        => [Len(uart2_rx_buffer) + (Len(kept') - Len(kept))
              <= UART2_BUF_SIZE]_uart2_vars
  BY HandleDataKeeps DEF Uart2Next
<1> QED
  BY <1>1, FramingCorrect, PTL DEF Uart2Spec, CopyFits

-----------------------------------------------------------------------------
(* What the fields of a message hold.                                      *)

(* The messages without submessages, those with, and the fields that are   *)
(* no submessages: those of basic types and the callbacks.                 *)
Parts == {"Wifi", "Servo", "Temperature", "mDNS", "LED", "Decoy", "ZDT", "MIT"}
Leaves == {"Wifi", "Servo", "Temperature", "mDNS", "LED", "Decoy", "MIT",
           "HomeParam", "Payload", "LinearCmd", "Vector"}
Messages == Leaves \cup {"Setting", "ZDT"}
Basic == {BOOL, INT32, INT64, FLOAT, CHARS, UINT32, DOUBLE}
Plain == Basic \cup {Callback("Vector"), Callback("Message")}

(* Times is a sequence of copies.                                          *)
LEMMA TimesIs ==
  ASSUME NEW n \in Nat \ {0}, NEW S, NEW field \in S
  PROVE  Times(n, field) \in Seq(S) \ {<<>>}
<1>1. Times(n, field) \in Seq(S) /\ Len(Times(n, field)) = n
  BY DEF Times
<1> QED
  BY <1>1

(* Joined field lists are field lists.                                     *)
LEMMA JoinedIs ==
  ASSUME NEW S, NEW a \in Seq(S) \ {<<>>}, NEW b \in Seq(S)
  PROVE  a \o b \in Seq(S) \ {<<>>}
<1>1. a \o b \in Seq(S) /\ Len(a \o b) = Len(a) + Len(b)
  OBVIOUS
<1>2. Len(a) \in Nat \ {0} /\ Len(b) \in Nat
  OBVIOUS
<1> QED
  BY <1>1, <1>2

(* One field is a field list.                                              *)
LEMMA SingleIs ==
  ASSUME NEW S, NEW x \in S
  PROVE  <<x>> \in Seq(S) \ {<<>>}
OBVIOUS

(* The field lists of messages without submessages or callbacks.           *)
LEMMA BasicLists ==
  ASSUME NEW d \in Leaves \ {"Payload", "LinearCmd"}
  PROVE  FieldList[d] \in Seq(Basic) \ {<<>>}
<1> DEFINE P == Basic
<1>1. /\ BOOL \in P /\ INT32 \in P /\ INT64 \in P /\ FLOAT \in P
      /\ CHARS \in P /\ UINT32 \in P /\ DOUBLE \in P
  BY DEF Basic
<1> HIDE DEF P
<1>2. /\ \A n \in Nat \ {0} : /\ Times(n, CHARS) \in Seq(P) \ {<<>>}
                              /\ Times(n, INT32) \in Seq(P) \ {<<>>}
                              /\ Times(n, INT64) \in Seq(P) \ {<<>>}
                              /\ Times(n, FLOAT) \in Seq(P) \ {<<>>}
                              /\ Times(n, BOOL) \in Seq(P) \ {<<>>}
      /\ <<BOOL>> \in Seq(P) \ {<<>>}
      /\ <<CHARS>> \in Seq(P) \ {<<>>}
  BY <1>1, TimesIs, SingleIs
<1>3. Setting_Wifi \in Seq(P) \ {<<>>}
  <2> DEFINE C == Times(2, CHARS)
             I == Times(3, INT32)
             B == <<BOOL>>
  <2>1. C \in Seq(P) \ {<<>>} /\ I \in Seq(P) /\ B \in Seq(P)
    BY <1>2
  <2>2. Setting_Wifi = C \o I \o B \o C \o I
    BY DEF Setting_Wifi
  <2> HIDE DEF C, I, B
  <2>3. C \o I \o B \o C \o I \in Seq(P) \ {<<>>}
    BY <2>1, JoinedIs
  <2> QED
    BY <2>2, <2>3
<1>4. Setting_Servo \in Seq(P) \ {<<>>}
  <2> DEFINE I12 == Times(12, INT32)
             F10 == Times(10, FLOAT)
             B == Times(3, BOOL)
             I6 == Times(6, INT32)
             F9 == Times(9, FLOAT)
             I3 == Times(3, INT32)
  <2>1. /\ I12 \in Seq(P) \ {<<>>} /\ F10 \in Seq(P) /\ B \in Seq(P)
        /\ I6 \in Seq(P) /\ F9 \in Seq(P) /\ I3 \in Seq(P)
    BY <1>2
  <2>2. Setting_Servo = I12 \o F10 \o B \o I6 \o F9 \o B \o I3
    BY DEF Setting_Servo
  <2> HIDE DEF I12, F10, B, I6, F9, I3
  <2>3. I12 \o F10 \o B \o I6 \o F9 \o B \o I3 \in Seq(P) \ {<<>>}
    BY <2>1, JoinedIs
  <2> QED
    BY <2>2, <2>3
<1>5. <<UINT32, UINT32, DOUBLE>> \in Seq(P) \ {<<>>}
  BY <1>1
<1>6. CASE d = "Wifi"
  BY <1>3, <1>6 DEF FieldList, P
<1>7. CASE d = "Servo"
  BY <1>4, <1>7 DEF FieldList, P
<1>8. /\ FieldList["Temperature"] = Times(3, INT64)
      /\ FieldList["mDNS"] = <<CHARS>>
      /\ FieldList["LED"] = <<BOOL>>
      /\ FieldList["Decoy"] = Times(4, INT32)
      /\ FieldList["MIT"] = Times(24, FLOAT)
      /\ FieldList["HomeParam"] = Times(6, INT32)
  BY DEF FieldList
<1>9. /\ FieldList["Temperature"] \in Seq(P) \ {<<>>}
      /\ FieldList["mDNS"] \in Seq(P) \ {<<>>}
      /\ FieldList["LED"] \in Seq(P) \ {<<>>}
      /\ FieldList["Decoy"] \in Seq(P) \ {<<>>}
      /\ FieldList["MIT"] \in Seq(P) \ {<<>>}
      /\ FieldList["HomeParam"] \in Seq(P) \ {<<>>}
  <2>1. /\ Times(3, INT64) \in Seq(P) \ {<<>>}
        /\ Times(4, INT32) \in Seq(P) \ {<<>>}
        /\ Times(24, FLOAT) \in Seq(P) \ {<<>>}
        /\ Times(6, INT32) \in Seq(P) \ {<<>>}
    BY <1>2
  <2> QED
    BY <1>2, <1>8, <2>1, Zenon
<1>10. CASE d \in {"Temperature", "mDNS", "LED", "Decoy", "MIT", "HomeParam"}
  BY <1>9, <1>10 DEF P
<1>11. FieldList["Vector"] = <<UINT32, UINT32, DOUBLE>>
  BY DEF FieldList, handyplug_LinearCmd_Vector
<1>12. CASE d = "Vector"
  BY <1>5, <1>11, <1>12 DEF P
<1> QED
  BY <1>6, <1>7, <1>9, <1>10, <1>12 DEF Leaves

(* The field lists of the two messages that have callbacks.                *)
LEMMA CallbackLists ==
  /\ FieldList["LinearCmd"] = <<UINT32, UINT32, Callback("Vector")>>
  /\ FieldList["Payload"] = <<Callback("Message")>>
BY DEF FieldList, handyplug_LinearCmd, handyplug_Payload

(* The field lists of the two messages that have submessages.              *)
LEMMA OtherLists ==
  /\ DOMAIN FieldList = Messages
  /\ FieldList["ZDT"]
       \in Seq(Basic \cup {RequiredMessage("HomeParam")}) \ {<<>>}
  /\ FieldList["Setting"] \in Seq({RequiredMessage(e) : e \in Parts}) \ {<<>>}
<1>1. DOMAIN FieldList = Messages
  BY DEF FieldList, Messages, Leaves
<1>2. Setting_ZDT \in Seq(Basic \cup {RequiredMessage("HomeParam")}) \ {<<>>}
  <2> DEFINE S == Basic \cup {RequiredMessage("HomeParam")}
             F == Times(4, FLOAT)
             B == <<BOOL, RequiredMessage("HomeParam"), BOOL>>
  <2>1. FLOAT \in S /\ BOOL \in S /\ RequiredMessage("HomeParam") \in S
    BY DEF Basic
  <2> HIDE DEF S
  <2>2. F \in Seq(S) \ {<<>>} /\ B \in Seq(S)
    BY <2>1, TimesIs
  <2>3. Setting_ZDT = F \o B
    BY DEF Setting_ZDT
  <2> HIDE DEF F, B
  <2>4. F \o B \in Seq(S) \ {<<>>}
    BY <2>2, JoinedIs
  <2> QED
    BY <2>3, <2>4 DEF S
<1>3. Setting \in Seq({RequiredMessage(e) : e \in Parts}) \ {<<>>}
  BY DEF Setting, Parts
<1> QED
  BY <1>1, <1>2, <1>3 DEF FieldList

(* A field that is no submessage: a basic type or a callback.              *)
Scalars == {"BOOL", "VARINT", "UVARINT", "FIXED32", "FIXED64", "STRING"}
IsPlain(x) ==
  /\ ~IsSubmessage(x)
  /\ x.data_size \in Nat
  /\ x.ltype \in Scalars \/ x.ltype = "SUBMESSAGE"
  /\ x.ltype = "STRING" => x.data_size > 0

(* A field of a basic type is plain.                                       *)
LEMMA ScalarField ==
  ASSUME NEW htype, NEW ltype \in Scalars, NEW size \in Nat
  PROVE  size > 0 => IsPlain(Field("STATIC", htype, ltype, size, "none"))
<1> DEFINE x == Field("STATIC", htype, ltype, size, "none")
<1>1. x.ltype = ltype /\ x.data_size = size
  BY DEF Field
<1> HIDE DEF x
<1>2. ltype # "SUBMESSAGE"
  BY DEF Scalars
<1> QED
  BY <1>1, <1>2 DEF IsPlain, IsSubmessage, x

(* The fields that are no submessages are plain.                           *)
LEMMA PlainIs ==
  ASSUME NEW x \in Plain
  PROVE  IsPlain(x)
<1>1. {"BOOL", "VARINT", "UVARINT", "FIXED32", "FIXED64", "STRING"} = Scalars
  BY DEF Scalars
<1>2. IsPlain(BOOL) /\ IsPlain(CHARS) /\ IsPlain(INT32) /\ IsPlain(INT64)
  BY <1>1, ScalarField DEF BOOL, CHARS, INT32, INT64, Required
<1>3. IsPlain(FLOAT) /\ IsPlain(UINT32) /\ IsPlain(DOUBLE)
  BY <1>1, ScalarField DEF FLOAT, UINT32, DOUBLE, Required, Singular
<1>4. IsPlain(Callback("Vector")) /\ IsPlain(Callback("Message"))
  BY DEF IsPlain, IsSubmessage, Callback, Field
<1> QED
  BY <1>2, <1>3, <1>4 DEF Plain, Basic

(* The fields of basic types are no callbacks.                             *)
LEMMA BasicIs ==
  ASSUME NEW x \in Basic
  PROVE  x.atype = "STATIC" /\ IsPlain(x)
<1>1. x.atype = "STATIC"
  BY DEF Basic, BOOL, CHARS, INT32, INT64, FLOAT, UINT32, DOUBLE, Required,
         Singular, Field
<1> QED
  BY <1>1, PlainIs DEF Plain

(* What a submessage field is.                                             *)
LEMMA SubIs ==
  ASSUME NEW e
  PROVE  /\ IsSubmessage(RequiredMessage(e))
         /\ RequiredMessage(e).submsg_desc = e
         /\ RequiredMessage(e).data_size = 0
         /\ RequiredMessage(e).ltype = "SUBMESSAGE"
         /\ RequiredMessage(e).atype = "STATIC"
BY DEF IsSubmessage, RequiredMessage, Field

(* Tags are 1, 2, 3 ...                                                    *)
LEMMA ListIs ==
  ASSUME NEW d \in Messages
  PROVE  \E n \in Nat \ {0} : DOMAIN FieldList[d] = 1..n
<1>1. ASSUME NEW S, NEW L \in Seq(S) \ {<<>>}
      PROVE  \E n \in Nat \ {0} : DOMAIN L = 1..n
  <2>1. DOMAIN L = 1..Len(L) /\ Len(L) \in Nat \ {0}
    OBVIOUS
  <2> QED
    BY <2>1
<1>2. CASE d \in Leaves \ {"Payload", "LinearCmd"}
  BY <1>1, <1>2, BasicLists
<1>3. CASE d \in {"ZDT", "Setting"}
  BY <1>1, <1>3, OtherLists
<1>4. CASE d \in {"Payload", "LinearCmd"}
  <2>1. DOMAIN FieldList[d] = 1..1 \/ DOMAIN FieldList[d] = 1..3
    BY <1>4, CallbackLists
  <2>2. 1 \in Nat \ {0} /\ 3 \in Nat \ {0}
    OBVIOUS
  <2> QED
    BY <2>1, <2>2, Zenon
<1> QED
  BY <1>2, <1>3, <1>4 DEF Messages

(* Messages are at most three deep, and only two have callbacks.           *)
LEMMA Nesting ==
  ASSUME NEW d \in Messages, NEW t \in DOMAIN FieldList[d]
  PROVE  LET field == FieldList[d][t]
         IN  /\ 1 \in DOMAIN FieldList[d]
             /\ field.data_size \in Nat
             /\ IsSubmessage(field) =>
                  /\ d \in {"Setting", "ZDT"}
                  /\ field.submsg_desc \in Parts \cup {"HomeParam"}
                  /\ d = "ZDT" => field.submsg_desc = "HomeParam"
                  /\ d = "Setting" => field.submsg_desc \in Parts
             /\ ~IsSubmessage(field) => IsPlain(field)
             /\ field.atype = "CALLBACK" =>
                  \/ d = "Payload" /\ field.submsg_desc = "Message"
                  \/ d = "LinearCmd" /\ field.submsg_desc = "Vector"
<1>1. CASE d \in {"Payload", "LinearCmd"}
  <2>1. Callback("Message") \in Plain /\ Callback("Vector") \in Plain
    BY DEF Plain
  <2>2. /\ Callback("Message").submsg_desc = "Message"
        /\ Callback("Vector").submsg_desc = "Vector"
    BY DEF Callback, Field
  <2>3. UINT32 \in Basic
    BY DEF Basic
  <2>4. CASE d = "Payload"
    <3>1. FieldList[d][t] = Callback("Message") /\ 1 \in DOMAIN FieldList[d]
      BY <2>4, CallbackLists
    <3> QED
      BY <2>1, <2>2, <2>4, <3>1, PlainIs DEF IsPlain
  <2>5. CASE d = "LinearCmd"
    <3>1. /\ FieldList[d][t] \in {UINT32, Callback("Vector")}
          /\ 1 \in DOMAIN FieldList[d]
      BY <2>5, CallbackLists
    <3>2. CASE FieldList[d][t] = UINT32
      BY <2>3, <3>1, <3>2, BasicIs DEF IsPlain
    <3>3. CASE FieldList[d][t] = Callback("Vector")
      BY <2>1, <2>2, <2>5, <3>1, <3>3, PlainIs DEF IsPlain
    <3> QED
      BY <3>1, <3>2, <3>3
  <2> QED
    BY <1>1, <2>4, <2>5
<1>2. CASE d \in Leaves \ {"Payload", "LinearCmd"}
  <2> DEFINE P == Basic
             L == FieldList[d]
  <2>1. L \in Seq(P) /\ L # <<>>
    BY <1>2, BasicLists
  <2> HIDE DEF P, L
  <2>2. \A i \in DOMAIN L : L[i] \in P
    BY <2>1
  <2>3. 1 \in DOMAIN L
    BY <2>1
  <2>4. L[t].atype = "STATIC" /\ IsPlain(L[t])
    BY <2>2, BasicIs DEF P, L
  <2> QED
    BY <2>3, <2>4 DEF IsPlain, L
<1>3. CASE d = "ZDT"
  <2> DEFINE S == Basic \cup {RequiredMessage("HomeParam")}
             L == FieldList["ZDT"]
  <2>1. L \in Seq(S) /\ L # <<>>
    BY OtherLists
  <2> HIDE DEF S, L
  <2>2. \A i \in DOMAIN L : L[i] \in S
    BY <2>1
  <2>3. 1 \in DOMAIN L
    BY <2>1
  <2>4. L = FieldList[d]
    BY <1>3 DEF L
  <2>5. CASE L[t] \in Basic
    <3>1. L[t].atype = "STATIC" /\ IsPlain(L[t])
      BY <2>5, BasicIs
    <3> QED
      BY <2>3, <2>4, <2>5, <3>1 DEF IsPlain
  <2>6. CASE L[t] = RequiredMessage("HomeParam")
    BY <1>3, <2>3, <2>4, <2>6, SubIs
  <2> QED
    BY <2>2, <2>4, <2>5, <2>6 DEF S
<1>4. CASE d = "Setting"
  <2> DEFINE S == {RequiredMessage(e) : e \in Parts}
             L == FieldList["Setting"]
  <2>1. L \in Seq(S) /\ L # <<>>
    BY OtherLists
  <2> HIDE DEF S, L
  <2>2. \A i \in DOMAIN L : L[i] \in S
    BY <2>1
  <2>3. 1 \in DOMAIN L
    BY <2>1
  <2>4. L = FieldList[d]
    BY <1>4 DEF L
  <2>5. PICK e \in Parts : L[t] = RequiredMessage(e)
    BY <2>2, <2>4 DEF S
  <2> QED
    BY <1>4, <2>3, <2>4, <2>5, SubIs
<1> QED
  BY <1>2, <1>3, <1>4, <1>1 DEF Messages

-----------------------------------------------------------------------------
(* A message is its fields, at every depth.                                *)
Holds(field, v) ==
  IF IsSubmessage(field) THEN IsMessage(field.submsg_desc, v)
  ELSE IsValue(field, v)
HoldsAll(d, m) ==
  /\ DOMAIN m = DOMAIN FieldList[d]
  /\ \A t \in DOMAIN FieldList[d] : Holds(FieldList[d][t], m[t])

(* IsMessage, written out to a fixed depth, is the recursion it stands     *)
(* for.                                                                    *)
LEMMA MessageIs ==
  ASSUME NEW d \in Messages, NEW m
  PROVE  IsMessage(d, m) <=> HoldsAll(d, m)
<1>1. ASSUME NEW e \in Leaves, NEW x
      PROVE  /\ (IsPart(e, x) <=> IsFlat(e, x))
             /\ (IsMessage(e, x) <=> IsFlat(e, x))
  <2>1. \A t \in DOMAIN FieldList[e] : ~IsSubmessage(FieldList[e][t])
    BY <1>1, Nesting DEF Messages, Leaves
  <2> QED
    BY <2>1 DEF IsPart, IsFlat, IsMessage, IsMessageWith
<1>2. ASSUME NEW x
      PROVE  IsMessage("ZDT", x) <=> IsPart("ZDT", x)
  <2>1. \A t \in DOMAIN FieldList["ZDT"] :
          IsSubmessage(FieldList["ZDT"][t]) =>
            FieldList["ZDT"][t].submsg_desc = "HomeParam"
    BY Nesting DEF Messages
  <2>2. \A y : IsPart("HomeParam", y) <=> IsFlat("HomeParam", y)
    BY <1>1 DEF Leaves
  <2> QED
    BY <2>1, <2>2 DEF IsPart, IsMessage, IsMessageWith
<1>3. \A e \in Parts \cup {"HomeParam"} :
        \A x : IsMessage(e, x) <=> IsPart(e, x)
  BY <1>1, <1>2 DEF Parts, Leaves
<1>4. \A t \in DOMAIN FieldList[d] :
        IsSubmessage(FieldList[d][t]) =>
          FieldList[d][t].submsg_desc \in Parts \cup {"HomeParam"}
  BY Nesting
<1> QED
  BY <1>3, <1>4 DEF IsMessage, IsMessageWith, HoldsAll, Holds

(* Putting a value its field can hold into a message keeps a message.      *)
LEMMA FieldPut ==
  ASSUME NEW d \in Messages, NEW m, IsMessage(d, m),
         NEW t \in DOMAIN FieldList[d], NEW x, Holds(FieldList[d][t], x)
  PROVE  IsMessage(d, [m EXCEPT ![t] = x])
<1>1. HoldsAll(d, m)
  BY MessageIs
<1> DEFINE n == [m EXCEPT ![t] = x]
<1>2. /\ DOMAIN n = DOMAIN FieldList[d]
      /\ \A i \in DOMAIN FieldList[d] : n[i] = IF i = t THEN x ELSE m[i]
  BY <1>1 DEF HoldsAll
<1> HIDE DEF n
<1>3. HoldsAll(d, n)
  BY <1>1, <1>2 DEF HoldsAll
<1> QED
  BY <1>3, MessageIs DEF n

(* What a message holds under a tag is a value of that field.              *)
LEMMA FieldTaken ==
  ASSUME NEW d \in Messages, NEW m, IsMessage(d, m),
         NEW t \in DOMAIN FieldList[d]
  PROVE  Holds(FieldList[d][t], m[t])
BY MessageIs DEF HoldsAll

(* Zero is a number of every integer type.                                 *)
LEMMA ZeroWord ==
  /\ IsWord(Zeros(10)) /\ FitsUInt32(Zeros(10))
  /\ Zeros(10) = SignExtended(Zeros(10))
<1> DEFINE z == Zeros(10)
<1>1. z = [i \in 1..10 |-> 0]
  BY DEF Zeros
<1>2. IsWord(z)
  BY <1>1 DEF IsWord
<1>3. FitsUInt32(z)
  BY <1>1 DEF FitsUInt32
<1>4. z[5] % 16 = 0
  BY <1>1
<1> HIDE DEF z
<1>5. SignExtended(z) = [k \in 1..10 |-> 0]
  BY <1>1, <1>4 DEF SignExtended
<1> QED
  BY <1>1, <1>2, <1>3, <1>5 DEF z

(* A field can hold its zero.                                              *)
LEMMA ZeroField ==
  ASSUME NEW field, IsPlain(field)
  PROVE  IsValue(field, FieldZero(field))
<1>1. /\ field.data_size \in Nat
      /\ field.ltype \in Scalars \/ field.ltype = "SUBMESSAGE"
      /\ field.ltype = "STRING" => field.data_size > 0
  BY DEF IsPlain
<1>2. CASE field.ltype = "BOOL"
  BY <1>2 DEF IsValue, FieldZero
<1>3. CASE field.ltype \in {"VARINT", "UVARINT"}
  BY <1>3, ZeroWord DEF IsValue, FieldZero
<1>4. CASE field.ltype \in {"FIXED32", "FIXED64"}
  BY <1>1, <1>4 DEF IsValue, FieldZero, Zeros
<1>5. CASE field.ltype = "STRING"
  <2>1. <<>> \in Seq(0..255) /\ Len(<<>>) = 0
    OBVIOUS
  <2> QED
    BY <1>1, <1>5, <2>1 DEF IsValue, FieldZero
<1>6. CASE field.ltype = "SUBMESSAGE"
  BY <1>6 DEF IsValue, FieldZero
<1> QED
  BY <1>1, <1>2, <1>3, <1>4, <1>5, <1>6 DEF Scalars

(* Init_zero and the nanopb defaults give a message of their type.         *)
LEMMA ZeroMessage ==
  ASSUME NEW d \in Messages
  PROVE  IsMessage(d, InitZero(d))
<1>1. ASSUME NEW e \in Messages, NEW t \in DOMAIN FieldList[e],
             ~IsSubmessage(FieldList[e][t])
      PROVE  Holds(FieldList[e][t], FieldZero(FieldList[e][t]))
  BY <1>1, Nesting, ZeroField DEF Holds
<1>2. ASSUME NEW e \in Leaves
      PROVE  IsMessage(e, ZeroFlat(e))
  <2>1. /\ e \in Messages
        /\ \A t \in DOMAIN FieldList[e] : ~IsSubmessage(FieldList[e][t])
    BY <1>2, Nesting DEF Messages, Leaves
  <2>2. HoldsAll(e, ZeroFlat(e))
    BY <1>1, <2>1 DEF HoldsAll, ZeroFlat
  <2> QED
    BY <2>1, <2>2, MessageIs
<1>3. ASSUME NEW e \in Parts \cup {"HomeParam"}
      PROVE  IsMessage(e, ZeroPart(e))
  <2>0. e \in Messages /\ e # "Setting"
    BY <1>3 DEF Messages, Leaves, Parts
  <2>1. \A t \in DOMAIN FieldList[e] :
          IsSubmessage(FieldList[e][t]) =>
            FieldList[e][t].submsg_desc \in Leaves
    BY <2>0, Nesting DEF Leaves
  <2>2. HoldsAll(e, ZeroPart(e))
    BY <1>1, <1>2, <2>0, <2>1 DEF HoldsAll, Holds, ZeroPart, ZeroWith
  <2> QED
    BY <2>0, <2>2, MessageIs
<1>4. \A t \in DOMAIN FieldList[d] :
          IsSubmessage(FieldList[d][t]) =>
            FieldList[d][t].submsg_desc \in Parts \cup {"HomeParam"}
  BY Nesting
<1>5. HoldsAll(d, InitZero(d))
  BY <1>1, <1>3, <1>4 DEF HoldsAll, Holds, InitZero, ZeroWith
<1> QED
  BY <1>5, MessageIs

-----------------------------------------------------------------------------
(* Reading bytes.                                                          *)

(* Sums is the recursion it is written as.                                 *)
LEMMA SumsIs ==
  ASSUME NEW ws \in Seq(Nat)
  PROVE  /\ Sums(ws) \in [0..Len(ws) -> Nat]
         /\ Sums(ws)[0] = 0
         /\ \A i \in 1..Len(ws) : Sums(ws)[i] = Sums(ws)[i-1] + ws[i]
<1> DEFINE step == [i \in 1..Len(ws) |-> [s \in Nat |-> s + ws[i]]]
           g == Sums(ws)
<1>1. Len(ws) \in Nat /\ 0 \in Nat /\ step \in [1..Len(ws) -> [Nat -> Nat]]
  OBVIOUS
<1> HIDE DEF step
<1>2. PICK f \in [0..Len(ws) -> Nat] : Follows(f, Len(ws), 0, step)
  BY <1>1, RecursionUpTo
<1>3. f = [i \in 0..Len(ws) |-> IF i = 0 THEN 0 ELSE f[i-1] + ws[i]]
  <2>1. \A i \in 1..Len(ws) : f[i] = f[i-1] + ws[i]
    <3> SUFFICES ASSUME NEW i \in 1..Len(ws) PROVE f[i] = f[i-1] + ws[i]
      OBVIOUS
    <3>0. i - 1 \in 0..Len(ws)
      BY <1>1
    <3>1. f[i] = step[i][f[i-1]] /\ f[i-1] \in Nat
      BY <1>2, <3>0 DEF Follows
    <3> QED
      BY <3>1 DEF step
  <2> QED
    BY <1>1, <1>2, <2>1 DEF Follows
<1>4. g = [i \in 0..Len(ws) |-> IF i = 0 THEN 0 ELSE g[i-1] + ws[i]]
  BY <1>3 DEF Sums
<1> HIDE DEF g
<1>5. \A i \in 0..Len(ws) : g[i] \in Nat
  <2> DEFINE T == {i \in 0..Len(ws) : g[i] \in Nat}
  <2>1. 0 \in T
    BY <1>1, <1>4
  <2>2. \A i \in 0..Len(ws)-1 : i \in T => i + 1 \in T
    BY <1>1, <1>4
  <2> HIDE DEF T
  <2>3. \A i \in 0..Len(ws) : i \in T
    BY <1>1, <2>1, <2>2, InductionUpTo
  <2> QED
    BY <2>3 DEF T
<1>6. g \in [0..Len(ws) -> Nat]
  <2>1. g = [i \in 0..Len(ws) |-> g[i]]
    BY <1>4
  <2> QED
    BY <1>5, <2>1
<1>7. g[0] = 0 /\ \A i \in 1..Len(ws) : g[i] = g[i-1] + ws[i]
  BY <1>1, <1>4
<1> QED
  BY <1>6, <1>7 DEF g

(* Sums over a common prefix agree.                                        *)
LEMMA SumsOfPrefix ==
  ASSUME NEW ws \in Seq(Nat), NEW vs \in Seq(Nat), NEW k \in Nat,
         k <= Len(ws), k <= Len(vs), \A i \in 1..k : ws[i] = vs[i]
  PROVE  Sums(ws)[k] = Sums(vs)[k]
<1> DEFINE T == {i \in 0..k : Sums(ws)[i] = Sums(vs)[i]}
<1>1. 0 \in T
  BY SumsIs
<1>2. ASSUME NEW i \in 0..k-1, i \in T PROVE i + 1 \in T
  <2>1. /\ i + 1 \in 1..k /\ i + 1 \in 1..Len(ws) /\ i + 1 \in 1..Len(vs)
        /\ i + 1 - 1 = i
    OBVIOUS
  <2>2. /\ Sums(ws)[i+1] = Sums(ws)[i] + ws[i+1]
        /\ Sums(vs)[i+1] = Sums(vs)[i] + vs[i+1]
    BY <2>1, SumsIs
  <2> QED
    BY <1>2, <2>1, <2>2
<1> HIDE DEF T
<1>3. \A i \in 0..k : i \in T
  BY <1>1, <1>2, InductionUpTo
<1> QED
  BY <1>3 DEF T

(* The least of some natural numbers.                                      *)
LEMMA Least ==
  ASSUME NEW S \in SUBSET Nat, S # {}
  PROVE  Min(S) \in S /\ \A n \in S : Min(S) <= n
<1>1. IsWellFoundedOn(OpToRel(<, Nat), Nat)
  BY NatLessThanWellFounded
<1>2. PICK m \in S : \A k \in S : ~(<<k, m>> \in OpToRel(<, Nat))
  BY <1>1, WFMin
<1>3. \A k \in S : m <= k
  <2>1. \A k \in S : ~(k < m)
    BY <1>2 DEF OpToRel
  <2> QED
    BY <2>1
<1> QED
  BY <1>3 DEF Min

(* The bytes that have arrived.                                            *)
BytesOK ==
  /\ input.bytes \in Seq(0..255)
  /\ length \in 0..Len(input.bytes)

(* s is a stream.                                                          *)
Readable(s) == s.at \in Nat \ {0} /\ s.left \in Nat

(* The elements of a sequence.                                             *)
LEMMA Elements ==
  ASSUME NEW S, NEW b \in Seq(S)
  PROVE  \A i \in 1..Len(b) : b[i] \in S
OBVIOUS

(* What is read is a byte, one that has arrived or one that lies behind.   *)
LEMMA ByteRead ==
  ASSUME BytesOK, NEW s, Readable(s), NEW k \in 1..s.left
  PROVE  Byte(s.at + k - 1) \in 0..255
<1> DEFINE i == s.at + k - 1
           B == 0..255
           arrived == input.bytes
           m == Len(Behind)
           j == 1 + ((i - length - 1) % m)
<1>1. i \in Nat \ {0}
  BY DEF Readable
<1>2. arrived \in Seq(B) /\ length \in 0..Len(arrived)
  BY DEF BytesOK
<1>3. Behind \in Seq(B) /\ Behind # <<>>
  BY BehindAssumption
<1>4. Byte(i) = IF i <= length THEN arrived[i] ELSE Behind[j]
  BY DEF Byte
<1> HIDE DEF B, arrived, i
<1>5. CASE i <= length
  <2>1. i \in 1..Len(arrived)
    BY <1>1, <1>2, <1>5
  <2>2. \A n \in 1..Len(arrived) : arrived[n] \in B
    BY <1>2, Elements
  <2> QED
    BY <1>4, <1>5, <2>1, <2>2 DEF B, i
<1>6. CASE ~(i <= length)
  <2>1. m \in Nat \ {0}
    BY <1>3
  <2>2. \A n \in 1..m : Behind[n] \in B
    BY <1>3, Elements
  <2> HIDE DEF m
  <2>3. (i - length - 1) % m \in 0..(m - 1)
    BY <1>1, <1>2, <1>6, <2>1
  <2>4. j \in 1..m
    BY <2>1, <2>3
  <2> QED
    BY <1>4, <1>6, <2>2, <2>4 DEF B, i
<1> QED
  BY <1>5, <1>6

(* The bytes pb_decode_varint looks at.                                    *)
LEMMA VarintBytesAre ==
  ASSUME BytesOK, NEW s, Readable(s)
  PROVE  LET b == VarintBytes(s)
         IN  /\ DOMAIN b = 1..Min({s.left, 11})
             /\ Min({s.left, 11}) \in 0..11
             /\ Min({s.left, 11}) <= s.left
             /\ Min({s.left, 11}) = s.left \/ Min({s.left, 11}) = 11
             /\ \A k \in DOMAIN b : b[k] \in 0..255
<1> DEFINE n == Min({s.left, 11})
<1>1. n \in {s.left, 11} /\ n <= s.left /\ n <= 11 /\ s.left \in Nat
  <2>1. {s.left, 11} \in SUBSET Nat
    BY DEF Readable
  <2> QED
    BY <2>1, Least
<1> HIDE DEF n
<1>2. \A k \in 1..n : Byte(s.at + k - 1) \in 0..255
  BY <1>1, ByteRead
<1>3. n \in 0..11 /\ n <= s.left /\ (n = s.left \/ n = 11)
  BY <1>1
<1>4. VarintBytes(s) = [k \in 1..n |-> Byte(s.at + k - 1)]
  BY DEF VarintBytes, n
<1>5. /\ DOMAIN VarintBytes(s) = 1..n
      /\ \A k \in 1..n : VarintBytes(s)[k] \in 0..255
  BY <1>2, <1>4
<1> QED
  BY <1>3, <1>5 DEF n

(* A varint is of its stream, takes a byte and ends before the first bad   *)
(* one.                                                                    *)
LEMMA ReadVarintIs ==
  ASSUME BytesOK, NEW s, Readable(s), NEW bad \in SUBSET DOMAIN VarintBytes(s),
         11 \in DOMAIN VarintBytes(s) => \E k \in DOMAIN VarintBytes(s) :
            VarintBytes(s)[k] < 128 \/ k \in bad
  PROVE  LET v == ReadVarint(s, bad)
         IN  /\ v.used \in 0..s.left
             /\ s.left > 0 => v.used > 0
             /\ v.word \in [1..10 -> 0..127]
             /\ v.ok \in BOOLEAN
             /\ v.ok => /\ v.used \in DOMAIN VarintBytes(s) \ bad
                        /\ \A k \in bad : v.used <= k
             /\ \A k \in 1..10 :
                  v.word[k] = IF k <= v.used THEN VarintBytes(s)[k] % 128
                              ELSE 0
<1> DEFINE b == VarintBytes(s)
           stops == {k \in DOMAIN b : b[k] < 128} \cup bad
           used == IF stops = {} THEN s.left ELSE Min(stops)
<1>1. PICK n \in 0..11 :
        /\ DOMAIN b = 1..n /\ n <= s.left /\ (n = s.left \/ n = 11)
        /\ \A k \in 1..n : b[k] \in 0..255
  BY VarintBytesAre
<1>2. s.left \in Nat
  BY DEF Readable
<1>3. /\ used \in 0..s.left
      /\ s.left > 0 => used > 0
      /\ used <= n
      /\ stops # {} => used \in DOMAIN b /\ \A k \in bad : used <= k
  <2>1. CASE stops = {}
    BY <1>1, <1>2, <2>1
  <2>2. CASE stops # {}
    <3>1. stops \in SUBSET Nat /\ stops \subseteq 1..n
      BY <1>1
    <3>2. Min(stops) \in stops /\ \A k \in bad : Min(stops) <= k
      BY <2>2, <3>1, Least
    <3> QED
      BY <1>1, <1>2, <2>2, <3>1, <3>2
  <2> QED
    BY <2>1, <2>2
<1> DEFINE word == [k \in 1..10 |-> IF k <= used THEN b[k] % 128 ELSE 0]
<1>4. ReadVarint(s, bad) = [ok |-> stops # {} /\ used \notin bad,
                            used |-> used, word |-> word]
  BY DEF ReadVarint
<1> HIDE DEF stops, used, b
<1>5. word \in [1..10 -> 0..127]
  <2>1. \A x \in 0..255 : x % 128 \in 0..127
    OBVIOUS
  <2>2. \A k \in 1..10 : k <= used => k \in 1..n
    BY <1>1, <1>3
  <2>3. \A k \in 1..10 : k <= used => b[k] \in 0..255
    BY <1>1, <2>2
  <2> DEFINE digit(k) == IF k <= used THEN b[k] % 128 ELSE 0
  <2>4. \A k \in 1..10 : digit(k) \in 0..127
    <3>1. 0 \in 0..127
      OBVIOUS
    <3> QED
      BY <2>1, <2>3, <3>1, Zenon
  <2>5. word = [k \in 1..10 |-> digit(k)]
    BY DEF word
  <2> HIDE DEF digit
  <2> QED
    BY <2>4, <2>5
<1> HIDE DEF word
<1>6. /\ ReadVarint(s, bad).used = used
      /\ ReadVarint(s, bad).word = word
      /\ ReadVarint(s, bad).ok = (stops # {} /\ used \notin bad)
  BY <1>4
<1> QED
  BY <1>3, <1>5, <1>6 DEF b, word

(* A varint of a stream: its bytes are of the stream, and it has a byte.   *)
IsRead(v, s) ==
  /\ v.ok \in BOOLEAN
  /\ v.used \in 0..s.left
  /\ s.left > 0 => v.used > 0
  /\ v.word \in [1..10 -> 0..127]

(* pb_decode_varint.                                                       *)
LEMMA VarintIs ==
  ASSUME BytesOK, NEW s, Readable(s)
  PROVE  IsRead(Varint(s), s)
<1> DEFINE b == VarintBytes(s)
           bad == Bad64(b)
<1>1. bad \in SUBSET DOMAIN b
  BY DEF Bad64
<1>2. 11 \in DOMAIN b => \E k \in DOMAIN b : b[k] < 128 \/ k \in bad
  <2>1. \A k \in DOMAIN b : b[k] \in 0..255
    BY VarintBytesAre
  <2> HIDE DEF b
  <2>2. 11 \in DOMAIN b => b[11] < 128 \/ 11 \in Bad64(b)
    BY <2>1 DEF Bad64
  <2> QED
    BY <2>2
<1>3. Varint(s) = ReadVarint(s, bad)
  BY DEF Varint
<1> HIDE DEF bad
<1> QED
  BY <1>1, <1>2, <1>3, ReadVarintIs DEF IsRead

(* pb_decode_varint32.                                                     *)
LEMMA Varint32Is ==
  ASSUME BytesOK, NEW s, Readable(s)
  PROVE  IsRead(Varint32(s), s)
<1> DEFINE b == VarintBytes(s)
           bad == Bad32(b)
<1>1. bad \in SUBSET DOMAIN b
  BY DEF Bad32
<1>2. 11 \in DOMAIN b => \E k \in DOMAIN b : b[k] < 128 \/ k \in bad
  <2> HIDE DEF b
  <2> QED
    BY DEF Bad32, BeyondBit32
<1>3. Varint32(s) = ReadVarint(s, bad)
  BY DEF Varint32
<1> HIDE DEF bad
<1> QED
  BY <1>1, <1>2, <1>3, ReadVarintIs DEF IsRead

(* The low 32 bits are a number.                                           *)
LEMMA Low32Is ==
  ASSUME NEW w \in [1..10 -> 0..127]
  PROVE  Low32(w) \in Nat
<1>1. /\ w[1] \in 0..127 /\ w[2] \in 0..127 /\ w[3] \in 0..127
      /\ w[4] \in 0..127 /\ w[5] \in 0..127
  OBVIOUS
<1>2. w[5] % 16 \in Nat
  BY <1>1
<1> DEFINE top == w[5] % 16
           low == w[1] + 128 * w[2] + 16384 * w[3] + 2097152 * w[4]
<1>3. low \in Nat
  <2>1. \A a, b, c, d \in Nat : a + 128 * b + 16384 * c + 2097152 * d \in Nat
    BY SMT
  <2>2. w[1] \in Nat /\ w[2] \in Nat /\ w[3] \in Nat /\ w[4] \in Nat
    BY <1>1
  <2> QED
    BY <2>1, <2>2, SMT
<1>4. Low32(w) = IF top >= 8 THEN 2147483647 ELSE low + 268435456 * top
  BY SMT DEF Low32
<1> HIDE DEF top, low
<1>5. top \in Nat
  BY <1>2 DEF top
<1> QED
  BY <1>3, <1>4, <1>5, SMT

(* A frame, or what a stream is as far as reading goes.                     *)
Names == {"kind", "desc", "value", "seen", "index", "at", "left", "tag",
          "copy"}
(* A message frame is in one of the fields of its type, and its message is *)
(* one of that type.                                                       *)
Described(f) ==
  f.kind = "message" => /\ f.desc \in DOMAIN FieldList
                        /\ f.index \in DOMAIN FieldList[f.desc]
                        /\ IsMessage(f.desc, f.value)
(* A frame of the stack.                                                   *)
IsFrame(f) ==
  /\ f = [x \in Names |-> f[x]]
  /\ f.at \in Nat \ {0} /\ f.left \in Nat
  /\ f.kind \in {"message", "callback"}
  /\ Described(f)

(* What is described does not depend on the position in the stream.        *)
LEMMA DescribedToo ==
  ASSUME NEW f, NEW g, Described(f), g.kind = f.kind, g.desc = f.desc,
         g.index = f.index, g.value = f.value
  PROVE  Described(g)
BY DEF Described

(* Reading n bytes of a frame.                                             *)
LEMMA AdvanceIs ==
  ASSUME NEW f, IsFrame(f), NEW n \in 0..f.left
  PROVE  LET g == Advance(f, n)
         IN  /\ IsFrame(g)
             /\ g.at = f.at + n /\ g.left = f.left - n
             /\ \A x \in Names \ {"at", "left"} : g[x] = f[x]
             /\ Readable(f) => Readable(g)
<1> DEFINE g == Advance(f, n)
<1>1. g = [f EXCEPT !.at = f.at + n, !.left = f.left - n]
  BY DEF Advance
<1>2. g = [x \in Names |-> IF x = "left" THEN f.left - n ELSE
                           IF x = "at" THEN f.at + n ELSE f[x]]
  BY <1>1 DEF IsFrame, Names
<1>3. /\ g.at = f.at + n /\ g.left = f.left - n
      /\ \A x \in Names \ {"at", "left"} : g[x] = f[x]
      /\ g = [x \in Names |-> g[x]]
  BY <1>2 DEF Names
<1> HIDE DEF g
<1>4. f.at \in Nat \ {0} /\ f.left \in Nat
  BY DEF IsFrame
<1>5. f.at + n \in Nat \ {0} /\ f.left - n \in Nat
  BY <1>4
<1>6. IsFrame(g)
  <2>1. /\ g.kind = f.kind /\ g.desc = f.desc /\ g.index = f.index
        /\ g.value = f.value
    BY <1>3 DEF Names
  <2>2. Described(g)
    BY <2>1, DescribedToo DEF IsFrame
  <2> QED
    BY <1>3, <1>5, <2>1, <2>2 DEF IsFrame
<1>7. Readable(f) => Readable(g)
  BY <1>3, <1>4, <1>5 DEF Readable, BytesOK
<1> QED
  BY <1>3, <1>6, <1>7 DEF g

(* The substream of a frame takes its bytes from the frame's.              *)
LEMMA SubstreamIs ==
  ASSUME BytesOK, NEW f, IsFrame(f), Readable(f)
  PROVE  LET sub == Substream(f)
         IN  /\ sub.ok \in BOOLEAN
             /\ sub.ok =>
                  /\ sub.used \in 0..f.left
                  /\ sub.stream.at \in Nat \ {0} /\ sub.stream.left \in Nat
                  /\ Readable(sub.stream)
                  /\ IsFrame(sub.parent)
                  /\ sub.parent.at = sub.stream.at
                  /\ sub.parent.left + sub.stream.left <= f.left
                  /\ sub.parent.at + sub.parent.left + sub.stream.left
                       = f.at + f.left
                  /\ \A x \in Names \ {"at", "left"} : sub.parent[x] = f[x]
<1> DEFINE v == Varint32(f)
           rest == Advance(f, v.used)
           size == Low32(v.word)
           sub == Substream(f)
<1>1. IsRead(v, f)
  BY Varint32Is
<1>2. size \in Nat
  BY <1>1, Low32Is DEF IsRead
<1>3. v.used \in 0..f.left /\ (f.left > 0 => v.used > 0) /\ v.ok \in BOOLEAN
  BY <1>1 DEF IsRead
<1>4. /\ IsFrame(rest) /\ Readable(rest)
      /\ rest.at = f.at + v.used /\ rest.left = f.left - v.used
      /\ \A x \in Names \ {"at", "left"} : rest[x] = f[x]
  BY <1>3, AdvanceIs
<1>5. /\ sub.ok = (v.ok /\ size <= rest.left)
      /\ sub.stream = [at |-> rest.at, left |-> size]
      /\ sub.parent = [rest EXCEPT !.left = @ - size]
      /\ sub.used = v.used + size
  BY DEF Substream
<1> HIDE DEF v, rest, size, sub
<1>6. /\ sub.stream.at = rest.at /\ sub.stream.left = size
      /\ sub.used = v.used + size
      /\ sub.ok => size <= rest.left
  <2>1. sub.stream.at = rest.at /\ sub.stream.left = size
    BY <1>5
  <2>2. sub.used = v.used + size /\ (sub.ok => size <= rest.left)
    BY <1>5, Zenon
  <2> QED
    BY <2>1, <2>2
<1>7. ASSUME size <= rest.left
      PROVE  /\ IsFrame(sub.parent)
             /\ sub.parent.at = rest.at /\ sub.parent.left = rest.left - size
             /\ \A x \in Names \ {"at", "left"} : sub.parent[x] = f[x]
  <2> DEFINE g == sub.parent
  <2>1. g = [x \in Names |-> IF x = "left" THEN rest.left - size ELSE rest[x]]
    BY <1>4, <1>5 DEF IsFrame, Names
  <2>2. /\ g.at = rest.at /\ g.left = rest.left - size
        /\ \A x \in Names \ {"left"} : g[x] = rest[x]
        /\ g = [x \in Names |-> g[x]]
    BY <2>1 DEF Names
  <2> HIDE DEF g
  <2>3. rest.left - size \in Nat
    BY <1>2, <1>4, <1>7 DEF IsFrame
  <2>4. IsFrame(g)
    <3>1. /\ g.kind = rest.kind /\ g.desc = rest.desc /\ g.index = rest.index
          /\ g.value = rest.value
      BY <2>2 DEF Names
    <3>2. Described(g)
      BY <1>4, <3>1, DescribedToo DEF IsFrame
    <3> QED
      BY <1>4, <2>2, <2>3, <3>1, <3>2 DEF IsFrame
  <2> QED
    BY <1>4, <2>2, <2>4 DEF g
<1>8. /\ f.at \in Nat \ {0} /\ f.left \in Nat /\ rest.at \in Nat \ {0}
      /\ rest.left \in Nat
  BY <1>4 DEF IsFrame
<1>9. ASSUME sub.ok
      PROVE  /\ sub.used \in 0..f.left
             /\ Readable(sub.stream)
             /\ sub.parent.left + sub.stream.left <= f.left
             /\ sub.parent.at + sub.parent.left + sub.stream.left
                  = f.at + f.left
  <2>2. Readable(sub.stream)
    BY <1>2, <1>6, <1>8 DEF Readable
  <2>3. /\ sub.parent.at = rest.at /\ sub.parent.left = rest.left - size
        /\ rest.at = f.at + v.used /\ rest.left = f.left - v.used
    BY <1>4, <1>6, <1>7, <1>9
  <2>4. sub.used \in 0..f.left
    BY <1>2, <1>3, <1>6, <1>8, <1>9, <2>3
  <2>5. sub.parent.at + sub.parent.left + sub.stream.left = f.at + f.left
    BY <1>2, <1>3, <1>6, <1>8, <2>3
  <2>6. sub.parent.left + sub.stream.left <= f.left
    BY <1>2, <1>3, <1>6, <1>8, <2>3
  <2> QED
    BY <2>2, <2>4, <2>5, <2>6
<1>10. sub.ok \in BOOLEAN
  BY <1>3, <1>5
<1> QED
  BY <1>2, <1>5, <1>6, <1>7, <1>8, <1>9, <1>10 DEF sub

(* A skipped field and a raw value are of the stream.                      *)
LEMMA SkipFieldIs ==
  ASSUME BytesOK, NEW f, IsFrame(f), Readable(f), NEW wire_type
  PROVE  LET skip == SkipField(f, wire_type)
         IN  /\ skip.ok \in BOOLEAN
             /\ skip.ok => skip.used \in 0..f.left
<1>1. f.left \in Nat
  BY DEF IsFrame
<1>2. CASE wire_type = 0
  <2> DEFINE ends == {k \in 1..f.left : Byte(f.at + k - 1) < 128}
  <2>1. ends \in SUBSET Nat
    OBVIOUS
  <2>2. ends # {} => Min(ends) \in 1..f.left
    BY <2>1, Least
  <2>3. SkipField(f, wire_type) = SkipVarint(f)
    BY <1>2 DEF SkipField
  <2>4. SkipVarint(f) = IF ends = {} THEN [ok |-> FALSE, used |-> f.left]
                        ELSE [ok |-> TRUE, used |-> Min(ends)]
    BY DEF SkipVarint
  <2> HIDE DEF ends
  <2> QED
    BY <1>1, <2>2, <2>3, <2>4
<1>3. CASE wire_type = 2
  BY <1>3, SubstreamIs DEF SkipField
<1>4. CASE wire_type \in {1, 5}
  <2>1. PICK n \in {4, 8} : SkipField(f, wire_type) = Fixed(f, n)
    BY <1>4 DEF SkipField
  <2>2. Fixed(f, n).ok = (f.left >= n) /\ Fixed(f, n).used = n
    BY DEF Fixed
  <2> DEFINE skip == SkipField(f, wire_type)
  <2>3. skip.used = n /\ n \in Nat
    BY <2>1, <2>2
  <2>4. skip.ok \in BOOLEAN
    BY <1>1, <2>1, <2>2
  <2>5. skip.ok => n <= f.left
    BY <1>1, <2>1, <2>2
  <2> HIDE DEF skip
  <2>6. skip.ok => skip.used \in 0..f.left
    BY <1>1, <2>3, <2>5
  <2> QED
    BY <2>4, <2>6 DEF skip
<1>5. CASE wire_type \notin {0, 1, 2, 5}
  BY <1>5 DEF SkipField
<1> QED
  BY <1>2, <1>3, <1>4, <1>5

(* A tag takes at least a byte.                                            *)
LEMMA DecodeTagIs ==
  ASSUME BytesOK, NEW f, IsFrame(f), Readable(f), f.left > 0
  PROVE  LET t == DecodeTag(f)
         IN  /\ IsFrame(t.next) /\ Readable(t.next)
             /\ t.next.left < f.left
             /\ t.next.at + t.next.left = f.at + f.left
             /\ \A x \in Names \ {"at", "left"} : t.next[x] = f[x]
             /\ t.tag \in Nat
<1> DEFINE v == Varint32(f)
<1>1. IsRead(v, f)
  BY Varint32Is
<1>2. v.used \in 1..f.left /\ f.at \in Nat /\ f.left \in Nat
  BY <1>1 DEF IsRead, IsFrame
<1>3. DecodeTag(f).next = Advance(f, v.used)
  BY DEF DecodeTag
<1>4. Low32(v.word) \div 8 \in Nat
  <2>1. Low32(v.word) \in Nat
    BY <1>1, Low32Is DEF IsRead
  <2> QED
    BY <2>1
<1>5. DecodeTag(f).tag \in Nat
  <2> DEFINE q == Low32(v.word) \div 8
  <2>1. DecodeTag(f).tag = IF v.ok THEN q ELSE 0
    BY DEF DecodeTag
  <2> HIDE DEF q
  <2> QED
    BY <1>4, <2>1 DEF q
<1> DEFINE g == Advance(f, v.used)
<1>6. /\ IsFrame(g) /\ Readable(g)
      /\ g.at = f.at + v.used /\ g.left = f.left - v.used
      /\ \A x \in Names \ {"at", "left"} : g[x] = f[x]
  <2>1. v.used \in 0..f.left
    BY <1>2
  <2> HIDE DEF v
  <2> QED
    BY <2>1, AdvanceIs
<1> HIDE DEF g, v
<1>7. g.left < f.left /\ g.at + g.left = f.at + f.left
  BY <1>2, <1>6
<1> QED
  BY <1>3, <1>5, <1>6, <1>7 DEF g

(* The 64-bit varints are words.                                           *)
LEMMA VarintWord ==
  ASSUME BytesOK, NEW s, Readable(s), Varint(s).ok
  PROVE  IsWord(Varint(s).word)
<1> DEFINE b == VarintBytes(s)
           bad == Bad64(b)
           v == ReadVarint(s, bad)
<1>1. bad \in SUBSET DOMAIN b
  BY DEF Bad64
<1>2. \A k \in DOMAIN b : b[k] \in 0..255
  BY VarintBytesAre
<1>3. 11 \in DOMAIN b => \E k \in DOMAIN b : b[k] < 128 \/ k \in bad
  <2> HIDE DEF b
  <2>2. 11 \in DOMAIN b => b[11] < 128 \/ 11 \in Bad64(b)
    BY <1>2 DEF Bad64
  <2> QED
    BY <2>2
<1>4. Varint(s) = v
  BY DEF Varint
<1>5. DOMAIN b \subseteq 1..11
  <2>1. DOMAIN b = 1..Min({s.left, 11}) /\ Min({s.left, 11}) \in 0..11
    BY VarintBytesAre
  <2> QED
    BY <2>1
<1>6. \A k \in DOMAIN b : k >= 10 /\ b[k] > 1 => k \in bad
  BY DEF Bad64
<1> HIDE DEF bad, v
<1>7. /\ v.word \in [1..10 -> 0..127]
      /\ v.used \in DOMAIN b \ bad
      /\ \A k \in bad : v.used <= k
      /\ \A k \in 1..10 : v.word[k] = IF k <= v.used THEN b[k] % 128 ELSE 0
  BY <1>1, <1>3, <1>4, ReadVarintIs DEF v
<1> HIDE DEF b
<1>8. v.word[10] < 2
  <2>1. CASE v.used < 10
    BY <1>7, <1>5, <2>1
  <2>2. CASE v.used = 10
    <3>1. 10 \in DOMAIN b /\ 10 \notin bad
      BY <1>7, <2>2
    <3>2. b[10] \in 0..255 /\ ~(b[10] > 1)
      BY <1>2, <1>6, <3>1
    <3>3. v.word[10] = b[10] % 128
      BY <1>7, <2>2
    <3> QED
      BY <3>2, <3>3
  <2>3. CASE v.used = 11
    <3>1. 10 \notin bad
      BY <1>7, <2>3
    <3>2. 10 \in DOMAIN b
      <4>1. DOMAIN b = 1..Min({s.left, 11}) /\ Min({s.left, 11}) \in 0..11
        BY VarintBytesAre DEF b
      <4>2. 11 \in DOMAIN b
        BY <1>7, <2>3
      <4> QED
        BY <4>1, <4>2
    <3>3. b[10] \in 0..255 /\ ~(b[10] > 1)
      BY <1>2, <1>6, <3>1, <3>2
    <3>4. v.word[10] = b[10] % 128
      BY <1>7, <2>3
    <3> QED
      BY <3>3, <3>4
  <2> QED
    BY <1>7, <1>5, <2>1, <2>2, <2>3
<1> QED
  BY <1>4, <1>7, <1>8 DEF IsWord

(* What a 32-bit number is stored as is stored again as itself.            *)
LEMMA SignExtendedWord ==
  ASSUME NEW w, IsWord(w)
  PROVE  /\ IsWord(SignExtended(w))
         /\ SignExtended(w) = SignExtended(SignExtended(w))
<1>1. w \in [1..10 -> 0..127]
  BY DEF IsWord
<1> DEFINE low == w[5] % 16
           top == IF low >= 8 THEN 1 ELSE 0
           x == SignExtended(w)
<1>2. low \in 0..15
  BY <1>1
<1>3. x = [k \in 1..10 |-> CASE k < 5 -> w[k]
                             [] k = 5 -> low + top * 112
                             [] k \in 6..9 -> top * 127
                             [] k = 10 -> top]
  <2>1. CASE low >= 8
    BY <2>1 DEF SignExtended
  <2>2. CASE ~(low >= 8)
    BY <2>2 DEF SignExtended
  <2> QED
    BY <2>1, <2>2
<1> HIDE DEF x
<1>4. /\ x[5] = low + top * 112 /\ x[10] = top
      /\ \A k \in 1..4 : x[k] = w[k]
      /\ \A k \in 6..9 : x[k] = top * 127
      /\ x = [k \in 1..10 |-> x[k]]
  BY <1>3
<1>5. top \in {0, 1} /\ (top = 1 <=> low >= 8)
  BY <1>2
<1> HIDE DEF low, top
<1>6. IsWord(x)
  <2>1. low + top * 112 \in 0..127 /\ top * 127 \in 0..127 /\ top \in 0..127
    BY <1>2, <1>5
  <2>2. \A k \in 1..10 : k \in 1..4 \/ k = 5 \/ k \in 6..9 \/ k = 10
    OBVIOUS
  <2>3. \A k \in 1..4 : w[k] \in 0..127
    BY <1>1
  <2>4. \A k \in 1..10 : x[k] \in 0..127
    BY <1>4, <2>1, <2>2, <2>3
  <2>5. x[10] < 2
    BY <1>4, <1>5
  <2> QED
    BY <1>4, <2>4, <2>5 DEF IsWord
<1>7. x[5] % 16 = low
  BY <1>2, <1>4, <1>5
<1>8. SignExtended(x) = [k \in 1..10 |-> CASE k < 5 -> x[k]
                             [] k = 5 -> low + top * 112
                             [] k \in 6..9 -> top * 127
                             [] k = 10 -> top]
  <2>1. CASE low >= 8
    BY <1>5, <1>7, <2>1 DEF SignExtended
  <2>2. CASE ~(low >= 8)
    BY <1>5, <1>7, <2>2 DEF SignExtended
  <2> QED
    BY <2>1, <2>2
<1>9. SignExtended(x) = x
  <2>1. \A k \in 1..10 : SignExtended(x)[k] = x[k]
    <3>1. \A k \in 1..10 : k \in 1..4 \/ k = 5 \/ k \in 6..9 \/ k = 10
      OBVIOUS
    <3> QED
      BY <1>4, <1>8, <3>1
  <2>2. SignExtended(x) = [k \in 1..10 |-> SignExtended(x)[k]]
    BY <1>8
  <2> QED
    BY <1>4, <2>1, <2>2
<1> QED
  BY <1>6, <1>9 DEF x

(* The bytes of a stream.                                                  *)
LEMMA FixedIs ==
  ASSUME BytesOK, NEW s, Readable(s), NEW n \in Nat, n <= s.left
  PROVE  /\ Fixed(s, n).ok /\ Fixed(s, n).used = n
         /\ Fixed(s, n).value \in [1..n -> 0..255]
<1>1. s.left \in Nat /\ s.left >= n
  BY DEF Readable
<1>2. \A i \in 1..n : Byte(s.at + i - 1) \in 0..255
  <2>1. \A i \in 1..n : i \in 1..s.left
    BY <1>1
  <2> QED
    BY <2>1, ByteRead
<1>3. Fixed(s, n) = [ok |-> TRUE, used |-> n,
                     value |-> [i \in 1..n |-> Byte(s.at + i - 1)]]
  BY <1>1 DEF Fixed
<1> QED
  BY <1>2, <1>3

(* A function from 1 to n is a sequence.                                   *)
LEMMA Listed ==
  ASSUME NEW S, NEW n \in Nat, NEW f \in [1..n -> S]
  PROVE  f \in Seq(S) /\ Len(f) = n
OBVIOUS

(* A value that is decoded is one its field can hold.                      *)
LEMMA DecodeBasicIs ==
  ASSUME BytesOK, NEW s, IsFrame(s), Readable(s), NEW field, IsPlain(field),
         field.ltype # "SUBMESSAGE", NEW wire_type,
         DecodeBasic(s, field, wire_type).ok
  PROVE  LET v == DecodeBasic(s, field, wire_type)
         IN  v.used \in 0..s.left /\ IsValue(field, v.value)
<1> DEFINE v == DecodeBasic(s, field, wire_type)
<1>1. wire_type = WireType(field)
  BY DEF DecodeBasic
<1>2. field.ltype \in Scalars /\ field.data_size \in Nat /\ s.left \in Nat
  BY DEF IsPlain, IsFrame
<1>3. CASE field.ltype = "BOOL"
  <2>1. v = DecBool(s)
    BY <1>1, <1>3 DEF DecodeBasic
  <2>2. v.used = Varint32(s).used /\ v.value \in BOOLEAN
    BY <2>1 DEF DecBool
  <2>3. v.used \in 0..s.left
    BY <2>2, Varint32Is DEF IsRead
  <2> QED
    BY <1>3, <2>2, <2>3 DEF IsValue
<1>4. CASE field.ltype \in {"VARINT", "UVARINT"}
  <2> DEFINE w == Varint(s)
  <2>1. v = DecVarint(s, field)
    BY <1>1, <1>4 DEF DecodeBasic
  <2> DEFINE fits == w.ok /\ (field.ltype = "UVARINT" => FitsUInt32(w.word))
             x == IF field.ltype = "VARINT" /\ field.data_size = 4
                  THEN SignExtended(w.word) ELSE w.word
  <2>6. v = [ok |-> fits, used |-> w.used, value |-> x]
    BY <2>1 DEF DecVarint
  <2>7. v.used = w.used /\ v.value = x /\ fits
    <3> HIDE DEF fits, x, w
    <3>1. v.ok
      OBVIOUS
    <3> HIDE DEF v
    <3> QED
      BY <2>6, <3>1
  <2>2. /\ v.used = w.used
        /\ w.ok /\ (field.ltype = "UVARINT" => FitsUInt32(w.word))
        /\ v.value = IF field.ltype = "VARINT" /\ field.data_size = 4
                     THEN SignExtended(w.word) ELSE w.word
    BY <2>7
  <2>3. w.used \in 0..s.left
    BY VarintIs DEF IsRead
  <2>4. IsWord(w.word)
    BY <2>2, VarintWord
  <2> HIDE DEF w, v
  <2>5. IsValue(field, v.value)
    BY <1>4, <2>2, <2>4, SignExtendedWord DEF IsValue
  <2> QED
    BY <2>2, <2>3, <2>5 DEF v
<1>5. CASE field.ltype = "STRING"
  <2> DEFINE sub == Substream(s)
             n == sub.stream.left
  <2>1. v = DecString(s, field)
    BY <1>1, <1>5 DEF DecodeBasic
  <2> DEFINE fits == sub.ok /\ n + 1 <= field.data_size
             x == IF sub.ok THEN Fixed(sub.stream, n).value ELSE <<>>
  <2>9. v = [ok |-> fits, used |-> sub.used, value |-> x]
    BY <2>1 DEF DecString, StringFits
  <2>10. v.used = sub.used /\ v.value = x /\ fits
    <3> HIDE DEF fits, x, sub
    <3>1. v.ok
      OBVIOUS
    <3> HIDE DEF v
    <3> QED
      BY <2>9, <3>1
  <2>2. sub.ok /\ n + 1 <= field.data_size /\ v.used = sub.used
    BY <2>10
  <2>3. v.value = Fixed(sub.stream, n).value
    BY <2>10
  <2>4. sub.used \in 0..s.left /\ Readable(sub.stream) /\ n \in Nat
    BY <2>2, SubstreamIs
  <2> HIDE DEF sub
  <2>5. v.value \in [1..n -> 0..255]
    <3> DEFINE stream == sub.stream
    <3>1. Readable(stream) /\ n \in Nat /\ n <= stream.left
      BY <2>4
    <3> HIDE DEF stream, n
    <3>2. Fixed(stream, n).value \in [1..n -> 0..255]
      BY <3>1, FixedIs
    <3> QED
      BY <2>3, <3>2 DEF stream, n
  <2> HIDE DEF n, v
  <2>6. v.value \in Seq(0..255) /\ Len(v.value) = n
    BY <2>4, <2>5, Listed
  <2>7. n < field.data_size
    BY <1>2, <2>2, <2>4 DEF n
  <2>8. IsValue(field, v.value)
    BY <1>5, <2>6, <2>7 DEF IsValue
  <2> QED
    BY <2>2, <2>4, <2>8 DEF v
<1>6. CASE field.ltype \in {"FIXED32", "FIXED64"}
  <2> DEFINE n == field.data_size
  <2>1. v = Fixed(s, n)
    BY <1>1, <1>6 DEF DecodeBasic
  <2>2. n <= s.left
    <3>1. v.ok
      OBVIOUS
    <3> HIDE DEF v
    <3>2. v.ok = (s.left >= n)
      BY <2>1 DEF Fixed
    <3> QED
      BY <1>2, <3>1, <3>2
  <2>3. v.used = n /\ v.value \in [1..n -> 0..255]
    <3> HIDE DEF v
    <3>1. n \in Nat
      BY <1>2
    <3> HIDE DEF n
    <3> QED
      BY <2>1, <2>2, <3>1, FixedIs
  <2>4. IsValue(field, v.value)
    BY <1>6, <2>3 DEF IsValue
  <2> QED
    BY <1>2, <2>2, <2>3, <2>4
<1> QED
  BY <1>2, <1>3, <1>4, <1>5, <1>6 DEF Scalars

-----------------------------------------------------------------------------
(* The stack of calls.                                                     *)

(* A sequence of whatever elements.                                        *)
IsSeq(s) == Len(s) \in Nat /\ s = [i \in 1..Len(s) |-> s[i]]

(* t is the first m elements of s and f.                                   *)
IsCut(t, s, m, f) ==
  /\ IsSeq(t) /\ Len(t) = m + 1
  /\ \A i \in 1..m : t[i] = s[i]
  /\ t[m + 1] = f

(* Any sequence and any value are of some common set.                      *)
LEMMA IsSeqIn ==
  ASSUME NEW s, IsSeq(s), NEW f
  PROVE  \E S : s \in Seq(S) /\ f \in S
<1> DEFINE S == {s[i] : i \in 1..Len(s)} \cup {f}
           n == Len(s)
<1>1. n \in Nat /\ s = [i \in 1..n |-> s[i]]
  BY DEF IsSeq
<1>2. \A i \in 1..n : s[i] \in S
  OBVIOUS
<1> HIDE DEF S, n
<1>3. [i \in 1..n |-> s[i]] \in Seq(S)
  BY <1>1, <1>2
<1>4. s \in Seq(S)
  BY <1>1, <1>3
<1>5. f \in S
  BY DEF S
<1> QED
  BY <1>4, <1>5

(* Replacing the last element.                                             *)
LEMMA ReplacedIs ==
  ASSUME NEW s, IsSeq(s), NEW f, Len(s) > 0
  PROVE  IsCut([s EXCEPT ![Len(s)] = f], s, Len(s) - 1, f)
<1>1. PICK S : s \in Seq(S) /\ f \in S
  BY IsSeqIn
<1>2. Len(s) \in Nat \ {0}
  BY DEF IsSeq
<1> DEFINE t == [s EXCEPT ![Len(s)] = f]
           n == Len(s)
<1>3. t \in Seq(S) /\ Len(t) = n /\ t = [i \in 1..n |-> t[i]]
  BY <1>1, <1>2
<1>4. \A i \in 1..n : t[i] = IF i = n THEN f ELSE s[i]
  BY <1>1, <1>2
<1> HIDE DEF t, n
<1> QED
  BY <1>2, <1>3, <1>4 DEF IsCut, IsSeq, t, n

(* Appending an element.                                                   *)
LEMMA AppendedIs ==
  ASSUME NEW s, IsSeq(s), NEW f
  PROVE  IsCut(Append(s, f), s, Len(s), f)
<1>1. PICK S : s \in Seq(S) /\ f \in S
  BY IsSeqIn
<1>2. Len(s) \in Nat
  BY DEF IsSeq
<1> DEFINE t == Append(s, f)
           n == Len(s)
<1>3. t \in Seq(S) /\ Len(t) = n + 1 /\ t = [i \in 1..n+1 |-> t[i]]
  <2>1. t \in Seq(S) /\ Len(t) = n + 1
    BY <1>1, <1>2
  <2> HIDE DEF t, n
  <2>2. t = [i \in 1..Len(t) |-> t[i]]
    BY <2>1
  <2> QED
    BY <2>1, <2>2
<1>4. \A i \in 1..n+1 : t[i] = IF i = n + 1 THEN f ELSE s[i]
  BY <1>1, <1>2
<1> HIDE DEF t, n
<1>5. n \in Nat
  BY <1>2 DEF n
<1>6. /\ Len(t) \in Nat /\ n + 1 \in 1..n+1
      /\ \A i \in 1..n : i \in 1..n+1 /\ i # n + 1
  BY <1>3, <1>5
<1>7. IsSeq(t)
  BY <1>3, <1>6 DEF IsSeq
<1>8. \A i \in 1..n : t[i] = s[i]
  BY <1>4, <1>6
<1>9. t[n + 1] = f
  BY <1>4, <1>6
<1>10. IsCut(t, s, n, f)
  BY <1>3, <1>7, <1>8, <1>9 DEF IsCut
<1> QED
  BY <1>10 DEF t, n

(* Cutting a sequence off and appending an element.                        *)
LEMMA CutOffIs ==
  ASSUME NEW s, IsSeq(s), NEW f, NEW m \in 0..Len(s)
  PROVE  IsCut(Append(SubSeq(s, 1, m), f), s, m, f)
<1>1. PICK S : s \in Seq(S) /\ f \in S
  BY IsSeqIn
<1> DEFINE u == SubSeq(s, 1, m)
<1>2. Len(s) \in Nat /\ m \in Nat
  BY DEF IsSeq
<1>3. u \in Seq(S) /\ Len(u) = m /\ \A i \in 1..m : u[i] = s[i]
  BY <1>1, <1>2
<1> HIDE DEF u
<1>4. IsSeq(u)
  BY <1>2, <1>3 DEF IsSeq
<1>5. IsCut(Append(u, f), u, m, f)
  BY <1>3, <1>4, AppendedIs
<1> QED
  BY <1>3, <1>5 DEF IsCut, u

(* A stack of frames, and the bytes left of its first i frames.            *)
IsStack(fs) == IsSeq(fs) /\ \A i \in 1..Len(fs) : IsFrame(fs[i])

Used(fs, i) == Sums(Left(fs))[i]

(* The bytes left of a stack of frames.                                    *)
LEMMA NumbersAre ==
  ASSUME NEW fs, IsStack(fs)
  PROVE  /\ Left(fs) \in Seq(Nat) /\ Len(Left(fs)) = Len(fs)
         /\ \A i \in 1..Len(fs) : Left(fs)[i] = fs[i].left
<1>1. Len(fs) \in Nat /\ DOMAIN fs = 1..Len(fs)
  BY DEF IsStack, IsSeq
<1>2. \A i \in 1..Len(fs) : fs[i].left \in Nat
  BY DEF IsStack, IsFrame
<1>3. Left(fs) = [i \in 1..Len(fs) |-> fs[i].left]
  BY <1>1 DEF Left
<1>4. Left(fs) \in Seq(Nat)
  BY <1>1, <1>2, <1>3
<1> QED
  BY <1>1, <1>3, <1>4

(* What the sums over a stack that was cut off are.                        *)
LEMMA SumsOfCut ==
  ASSUME NEW s, IsStack(s), NEW m \in 0..Len(s), NEW f, IsFrame(f),
         NEW t, IsCut(t, s, m, f)
  PROVE  /\ IsStack(t)
         /\ \A i \in 0..m : Used(t, i) = Used(s, i) /\ Used(s, i) \in Nat
         /\ Used(t, m + 1) = Used(s, m) + f.left
<1>1. Len(s) \in Nat /\ m \in Nat /\ Len(t) = m + 1 /\ IsSeq(t)
  BY DEF IsStack, IsSeq, IsCut
<1>2. \A i \in 1..m+1 : t[i] = IF i = m + 1 THEN f ELSE s[i]
  BY <1>1 DEF IsCut
<1>3. IsStack(t)
  BY <1>1, <1>2 DEF IsStack
<1> DEFINE ls == Left(s)
           lt == Left(t)
<1>4. /\ ls \in Seq(Nat) /\ Len(ls) = Len(s)
      /\ \A i \in 1..Len(s) : ls[i] = s[i].left
  BY NumbersAre
<1>5. /\ lt \in Seq(Nat) /\ Len(lt) = Len(t)
      /\ \A i \in 1..Len(t) : lt[i] = t[i].left
  BY <1>3, NumbersAre
<1> HIDE DEF ls, lt
<1>6. ASSUME NEW i \in 1..m
      PROVE  lt[i] = ls[i]
  <2>1. i \in 1..Len(s) /\ i \in 1..Len(t) /\ t[i] = s[i]
    BY <1>1, <1>2
  <2> QED
    BY <1>4, <1>5, <2>1
<1>7. lt[m + 1] = f.left
  BY <1>1, <1>2, <1>5
<1>8. ASSUME NEW i \in 0..m
      PROVE  Sums(lt)[i] = Sums(ls)[i] /\ Sums(ls)[i] \in Nat
  <2>1. i \in Nat /\ i <= Len(ls) /\ i <= Len(lt)
    BY <1>1, <1>4, <1>5
  <2>2. \A j \in 1..i : lt[j] = ls[j]
    BY <1>1, <1>6
  <2>3. Sums(lt)[i] = Sums(ls)[i]
    BY <1>4, <1>5, <2>1, <2>2, SumsOfPrefix
  <2>4. Sums(ls)[i] \in Nat
    BY <1>4, <2>1, SumsIs
  <2> QED
    BY <2>3, <2>4
<1>9. Sums(lt)[m + 1] = Sums(lt)[m] + lt[m + 1]
  <2>1. m + 1 \in 1..Len(lt) /\ m + 1 - 1 = m
    BY <1>1, <1>5
  <2> QED
    BY <1>5, <2>1, SumsIs
<1>10. m \in 0..m
  BY <1>1
<1>11. Sums(lt)[m + 1] = Sums(ls)[m] + f.left
  BY <1>7, <1>8, <1>9, <1>10
<1> QED
  BY <1>3, <1>8, <1>11 DEF Used, ls, lt

(* The sums over a stack.                                                  *)
LEMMA SumsOfStack ==
  ASSUME NEW s, IsStack(s)
  PROVE  /\ \A i \in 0..Len(s) : Used(s, i) \in Nat
         /\ \A i \in 1..Len(s) : Used(s, i) = Used(s, i - 1) + s[i].left
         /\ Total(Left(s)) = Used(s, Len(s))
<1> DEFINE ls == Left(s)
<1>1. /\ ls \in Seq(Nat) /\ Len(ls) = Len(s)
      /\ \A i \in 1..Len(s) : ls[i] = s[i].left
  BY NumbersAre
<1>2. Total(ls) = Sums(ls)[Len(s)]
  BY <1>1 DEF Total
<1> HIDE DEF ls
<1>3. \A i \in 0..Len(s) : Sums(ls)[i] \in Nat
  BY <1>1, SumsIs
<1>4. \A i \in 1..Len(s) : Sums(ls)[i] = Sums(ls)[i-1] + s[i].left
  BY <1>1, SumsIs
<1> QED
  BY <1>2, <1>3, <1>4 DEF Used, ls

(* A stack shrinks that is cut off where fewer bytes are left, or below a  *)
(* call that is gone.                                                      *)
LEMMA CutShrinks ==
  ASSUME NEW s, IsSeq(s), NEW m \in Nat, m < Len(s), NEW f,
         NEW t, IsCut(t, s, m, f),
         \/ f.left < s[m + 1].left
         \/ f.left = s[m + 1].left /\ m + 1 < Len(s)
  PROVE  Shrinks(s, t)
<1>1. /\ Len(s) \in Nat /\ DOMAIN s = 1..Len(s)
      /\ DOMAIN t = 1..m+1 /\ t[m + 1] = f /\ \A i \in 1..m : t[i] = s[i]
  BY DEF IsSeq, IsCut
<1>2. CASE f.left < s[m + 1].left
  <2>1. m + 1 \in DOMAIN s /\ m + 1 - 1 = m
    BY <1>1
  <2>2. \A j \in 1..m : j \in DOMAIN t /\ t[j].left = s[j].left
    BY <1>1
  <2> QED
    BY <1>1, <1>2, <2>1, <2>2 DEF Shrinks
<1>3. CASE f.left = s[m + 1].left /\ m + 1 < Len(s)
  <2>1. m + 2 \in DOMAIN s /\ m + 2 \notin DOMAIN t /\ m + 2 - 1 = m + 1
    BY <1>1, <1>3
  <2>2. \A j \in 1..(m + 1) : j \in DOMAIN t /\ t[j].left = s[j].left
    BY <1>1, <1>3
  <2> QED
    BY <2>1, <2>2 DEF Shrinks
<1> QED
  BY <1>2, <1>3

-----------------------------------------------------------------------------
(* How deep a call is nested: a Setting or Payload; a part of a Setting or *)
(* the callback for Messages; a HomeParam or LinearCmd; the callback for   *)
(* Vectors; a Vector.                                                      *)
Level(kind, desc) ==
  IF kind = "callback" THEN IF desc = "Message" THEN 2 ELSE 4
  ELSE CASE desc \in Parts -> 2
         [] desc \in {"HomeParam", "LinearCmd"} -> 3
         [] desc = "Vector" -> 5
         [] OTHER -> 1
Nested(c, p) == Level(c.kind, c.desc) = Level(p.kind, p.desc) + 1

(* What a message frame c on frame p decodes.                              *)
Decodes(c, p) ==
  /\ Nested(c, p)
  /\ c.kind = "message" =>
       IF p.kind = "message"
       THEN /\ c.tag \in DOMAIN FieldList[p.desc]
            /\ IsSubmessage(FieldList[p.desc][c.tag])
            /\ FieldList[p.desc][c.tag].submsg_desc = c.desc
       ELSE p.desc = "Vector" => c.desc = "Vector"
(* f is what became of the call g.                                         *)
SameCall(f, g) == /\ f.kind = g.kind /\ f.desc = g.desc
                  /\ f.tag = g.tag /\ f.copy = g.copy

(* What a call decodes depends on its kind, type, tag and copy only.       *)
LEMMA SameDecodes ==
  ASSUME NEW f, NEW g, SameCall(f, g), NEW p
  PROVE  /\ Decodes(g, p) => Decodes(f, p)
         /\ Decodes(p, g) => Decodes(p, f)
BY DEF SameCall, Decodes, Nested

(* The invariant of the stack: every frame is one its caller can have      *)
(* called, its stream is inside what is still counted, and the pointer     *)
(* under a copied scalar is past it.                                       *)
Kept(fs, given_up, end, root) ==
  /\ IsStack(fs)
  /\ Len(fs) > 0 => fs[1].kind = "message" /\ fs[1].desc = root
  /\ \A i \in 2..Len(fs) : Decodes(fs[i], fs[i - 1])
  /\ \A i \in 1..Len(fs) : fs[i].at + Used(fs, i) <= end
  /\ ~given_up => \A i \in 2..Len(fs) :
                    fs[i].copy => fs[i - 1].at + Used(fs, i - 1) = end
(* The pointer of the innermost stream is at the first byte not read.      *)
InStep(fs, end) == Len(fs) > 0 /\ fs[Len(fs)].at + Used(fs, Len(fs)) = end

(* t is stack s cut off after m frames, with frame f on it, and f's stream *)
(* is one that is left there.                                              *)
Pushed(t, is, s, was, m, f, end, root) ==
  /\ end \in Nat /\ m \in 0..Len(s)
  /\ Kept(s, was, end, root) /\ (was => is)
  /\ IsFrame(f) /\ IsCut(t, s, m, f)
  /\ m = 0 => f.kind = "message" /\ f.desc = root
  /\ m > 0 => Decodes(f, s[m])
  /\ f.at + Used(s, m) + f.left <= end
  /\ ~is /\ m > 0 /\ f.copy => s[m].at + Used(s, m) = end

(* A stack that is cut off keeps its invariant if the new frame fits.      *)
LEMMA CutKeeps ==
  ASSUME NEW t, NEW is, NEW s, NEW was, NEW m, NEW f, NEW end, NEW root,
         Pushed(t, is, s, was, m, f, end, root)
  PROVE  /\ Kept(t, is, end, root)
         /\ f.at + Used(s, m) + f.left = end => InStep(t, end)
<1> USE DEF Pushed
<1>1. IsStack(s) /\ Len(s) \in Nat /\ m \in Nat /\ Len(t) = m + 1
  BY DEF Kept, IsStack, IsSeq, IsCut
<1>2. /\ IsStack(t)
      /\ \A i \in 0..m : Used(t, i) = Used(s, i) /\ Used(s, i) \in Nat
      /\ Used(t, m + 1) = Used(s, m) + f.left
  BY <1>1, SumsOfCut
<1>3. (\A i \in 1..m : t[i] = s[i]) /\ t[m + 1] = f
  BY DEF IsCut
<1>4. f.at \in Nat /\ f.left \in Nat /\ Used(s, m) \in Nat
  BY <1>1, <1>2 DEF IsFrame
<1>5. f.at + Used(t, m + 1) = f.at + Used(s, m) + f.left
  BY <1>2, <1>4
<1>6. t[1].kind = "message" /\ t[1].desc = root
  <2>1. CASE m = 0
    BY <1>3, <2>1
  <2>2. CASE m > 0
    BY <1>1, <1>3, <2>2 DEF Kept
  <2> QED
    BY <1>1, <2>1, <2>2
<1>7. ASSUME NEW i \in 1..Len(t)
      PROVE  t[i].at + Used(t, i) <= end
  <2>1. CASE i = m + 1
    BY <1>3, <1>5, <2>1
  <2>2. CASE i # m + 1
    <3>1. i \in 1..m /\ i \in 0..m /\ i \in 1..Len(s)
      BY <1>1, <2>2
    <3> QED
      BY <1>2, <1>3, <3>1 DEF Kept
  <2> QED
    BY <2>1, <2>2
<1>8. ASSUME ~is, NEW i \in 2..Len(t), t[i].copy
      PROVE  t[i - 1].at + Used(t, i - 1) = end
  <2>1. /\ i - 1 \in 1..m /\ i - 1 \in 0..m
    BY <1>1
  <2>2. t[i - 1] = s[i - 1] /\ Used(t, i - 1) = Used(s, i - 1)
    BY <1>2, <1>3, <2>1
  <2>3. CASE i = m + 1
    BY <1>1, <1>3, <1>8, <2>1, <2>2, <2>3
  <2>4. CASE i # m + 1
    <3>1. i \in 1..m /\ i \in 2..Len(s)
      BY <1>1, <2>4
    <3>2. s[i].copy
      BY <1>3, <1>8, <3>1
    <3> QED
      BY <1>8, <2>2, <3>1, <3>2 DEF Kept
  <2> QED
    BY <2>3, <2>4
<1>9. ASSUME NEW i \in 2..Len(t)
       PROVE  Decodes(t[i], t[i - 1])
  <2>1. i - 1 \in 1..m /\ t[i - 1] = s[i - 1]
    BY <1>1, <1>3
  <2>2. CASE i = m + 1
    BY <1>1, <1>3, <2>1, <2>2
  <2>3. CASE i # m + 1
    <3>1. i \in 1..m /\ i \in 2..Len(s) /\ t[i] = s[i]
      BY <1>1, <1>3, <2>3
    <3> QED
      BY <2>1, <3>1 DEF Kept
  <2> QED
    BY <2>2, <2>3
<1>10. f.at + Used(s, m) + f.left = end => InStep(t, end)
  BY <1>1, <1>3, <1>5 DEF InStep
<1> QED
  BY <1>2, <1>6, <1>7, <1>8, <1>10, <1>9 DEF Kept

(* The greatest of some bounded numbers.                                   *)
LEMMA Greatest ==
  ASSUME NEW bound \in Nat, NEW S \in SUBSET (0..bound), S # {}
  PROVE  /\ Max(S) \in S
         /\ \A n \in S : n <= Max(S)
<1> DEFINE Above == {m \in Nat : \A n \in S : n <= m}
<1>1. PICK m \in Above : \A k \in Above : ~(k < m)
  <2>1. bound \in Above
    OBVIOUS
  <2>2. IsWellFoundedOn(OpToRel(<, Nat), Nat)
    BY NatLessThanWellFounded
  <2>3. \E m \in Above : \A k \in Above : ~(<<k, m>> \in OpToRel(<, Nat))
    BY <2>1, <2>2, WFMin
  <2> QED
    BY <2>3 DEF OpToRel
<1>2. m \in S
  <2> SUFFICES ASSUME m \notin S PROVE FALSE
    OBVIOUS
  <2>1. PICK x \in S : x <= m
    BY <1>1
  <2>2. m \in Nat \ {0}
    BY <1>1, <2>1
  <2>3. m - 1 \in Above
    BY <1>1, <2>2
  <2> QED
    BY <1>1, <2>2, <2>3
<1>3. \E x \in S : \A n \in S : x >= n
  BY <1>1, <1>2
<1> QED
  BY <1>3 DEF Max

(* What is known of the last frame of a stack and the sums up to it.       *)
LastIs(s, n, last, given_up, end, root) ==
  /\ IsStack(s) /\ IsSeq(s) /\ n \in Nat /\ n - 1 \in 0..n
  /\ IsFrame(last) /\ last.at \in Nat /\ last.left \in Nat
  /\ Used(s, n - 1) \in Nat /\ Used(s, n) \in Nat
  /\ Used(s, n) = Used(s, n - 1) + last.left
  /\ last.at + Used(s, n) <= end
  /\ n = 1 => last.kind = "message" /\ last.desc = root
  /\ n > 1 => Decodes(last, s[n - 1])
  /\ ~given_up /\ n > 1 /\ last.copy =>
       s[n - 1].at + Used(s, n - 1) = end

(* The last frame of a stack.                                              *)
LEMMA LastOfStack ==
  ASSUME NEW end \in Nat, NEW root, NEW s,
         NEW given_up, Kept(s, given_up, end, root),
         NEW n, n = Len(s), n > 0, NEW last, last = s[n]
  PROVE  LastIs(s, n, last, given_up, end, root)
<1>1. IsStack(s) /\ IsSeq(s) /\ n \in Nat
  BY DEF Kept, IsStack, IsSeq
<1>2. n \in 1..n /\ n - 1 \in 0..n /\ n \in 0..n
  BY <1>1
<1>3. /\ Used(s, n - 1) \in Nat /\ Used(s, n) \in Nat
      /\ Used(s, n) = Used(s, n - 1) + last.left
  BY <1>1, <1>2, SumsOfStack
<1>4. IsFrame(last)
  BY <1>1, <1>2 DEF IsStack
<1>5. last.at \in Nat /\ last.left \in Nat
  BY <1>4 DEF IsFrame
<1>6. last.at + Used(s, n) <= end
  BY <1>2 DEF Kept
<1>7. n = 1 => last.kind = "message" /\ last.desc = root
  BY <1>2 DEF Kept
<1>8. ~given_up /\ n > 1 /\ last.copy => s[n - 1].at + Used(s, n - 1) = end
  <2>1. n > 1 => n \in 2..n
    BY <1>1
  <2> QED
    BY <2>1 DEF Kept
<1>9. n > 1 => Decodes(last, s[n - 1])
  <2>1. n > 1 => n \in 2..n
    BY <1>1
  <2> QED
    BY <2>1 DEF Kept
<1> QED
  BY <1>1, <1>2, <1>3, <1>4, <1>5, <1>6, <1>7, <1>8, <1>9 DEF LastIs

(* Calls are nested no deeper than the message types.                      *)
LEMMA Shallow ==
  ASSUME NEW end, NEW root, NEW s, NEW given_up, Kept(s, given_up, end, root)
  PROVE  Len(s) <= Deepest
<1>1. Len(s) \in Nat
  BY DEF Kept, IsStack, IsSeq
<1>2. SUFFICES ASSUME ~(Len(s) <= 5) PROVE FALSE
  BY DEF Deepest
<1> DEFINE level(i) == Level(s[i].kind, s[i].desc)
<1>3. \A i \in 1..6 : level(i) \in 1..5
  BY DEF Level
<1>4. \A i \in 2..6 : level(i) = level(i - 1) + 1
  BY <1>1, <1>2 DEF Kept, Decodes, Nested
<1> HIDE DEF level
<1>5. /\ level(2) = level(1) + 1 /\ level(3) = level(2) + 1
      /\ level(4) = level(3) + 1 /\ level(5) = level(4) + 1
      /\ level(6) = level(5) + 1
  BY <1>4
<1> QED
  BY <1>3, <1>5

(* The innermost call goes on in its stream.                               *)
LEMMA ContinueKeeps ==
  ASSUME NEW end \in Nat, NEW root, NEW s,
         NEW given_up, Kept(s, given_up, end, root),
         ~given_up => InStep(s, end),
         NEW n, n = Len(s), n > 0, NEW last, last = s[n],
         NEW f, IsFrame(f), SameCall(f, last),
         f.at + f.left = Drained(last),
         f.left < last.left
  PROVE  LET t == [s EXCEPT ![n] = f]
         IN  /\ Kept(t, given_up, end, root)
             /\ ~given_up => InStep(t, end)
             /\ Shrinks(s, t)
<1> DEFINE t == [s EXCEPT ![n] = f]
<1>1. /\ IsStack(s) /\ IsSeq(s) /\ n \in Nat /\ n - 1 \in 0..n
      /\ IsFrame(last) /\ last.at \in Nat /\ last.left \in Nat
      /\ Used(s, n - 1) \in Nat /\ Used(s, n) \in Nat
      /\ Used(s, n) = Used(s, n - 1) + last.left
      /\ last.at + Used(s, n) <= end
      /\ n = 1 => last.kind = "message" /\ last.desc = root
      /\ n > 1 => Decodes(last, s[n - 1])
      /\ ~given_up /\ n > 1 /\ last.copy => s[n - 1].at + Used(s, n - 1) = end
  <2>1. LastIs(s, n, last, given_up, end, root)
    BY LastOfStack
  <2> QED
    BY <2>1 DEF LastIs
<1>2. /\ last.at \in Nat /\ last.left \in Nat /\ Used(s, n - 1) \in Nat
      /\ f.at \in Nat /\ f.left \in Nat
  BY <1>1 DEF IsFrame
<1>3. IsCut(t, s, n - 1, f)
  BY <1>1, ReplacedIs
<1>4. f.at + f.left = last.at + last.left
  BY DEF Drained
<1>5. ~given_up => last.at + Used(s, n) = end
  BY DEF InStep
<1> HIDE DEF t
<1>6. /\ f.at + Used(s, n - 1) + f.left <= end
      /\ ~given_up => f.at + Used(s, n - 1) + f.left = end
      /\ n - 1 = 0 => n = 1
      /\ n - 1 > 0 => n > 1
  <2>1. f.at + Used(s, n - 1) + f.left = last.at + Used(s, n)
    <3> DEFINE u == Used(s, n - 1)
               a == f.at
               b == f.left
               c == last.at
               d == last.left
    <3>1. a + u + b = c + (u + d)
      <4>1. u \in Nat /\ a \in Nat /\ b \in Nat /\ c \in Nat /\ d \in Nat
        BY <1>2
      <4>2. a + b = c + d
        BY <1>4
      <4> HIDE DEF u, a, b, c, d
      <4> QED
        BY <4>1, <4>2
    <3> QED
      BY <1>1, <3>1
  <2>2. (n - 1 = 0 => n = 1) /\ (n - 1 > 0 => n > 1)
    BY <1>1
  <2> QED
    BY <1>1, <1>5, <2>1, <2>2
<1>7. f.kind = last.kind /\ f.copy = last.copy /\ f.desc = last.desc
  BY DEF SameCall
<1>8. n - 1 > 0 => Decodes(f, s[n - 1])
  BY <1>1, <1>6, SameDecodes
<1>9. /\ Kept(t, given_up, end, root)
      /\ f.at + Used(s, n - 1) + f.left = end => InStep(t, end)
  <2>1. n - 1 = 0 => f.kind = "message" /\ f.desc = root
    BY <1>1, <1>6, <1>7
  <2>2. ~given_up /\ n - 1 > 0 /\ f.copy => s[n - 1].at + Used(s, n - 1) = end
    BY <1>1, <1>6, <1>7
  <2>3. n - 1 \in 0..Len(s)
    BY <1>1
  <2>4. Pushed(t, given_up, s, given_up, n - 1, f, end, root)
    BY <1>3, <1>6, <1>8, <2>1, <2>2, <2>3 DEF Pushed
  <2> DEFINE m == n - 1
  <2> HIDE DEF t, m
  <2> QED
    BY <2>4, CutKeeps DEF m
<1>10. Shrinks(s, t)
  <2>1. n - 1 \in Nat /\ n - 1 < Len(s) /\ n - 1 + 1 = n
    BY <1>1
  <2> QED
    BY <1>1, <1>3, <2>1, CutShrinks
<1> QED
  BY <1>6, <1>9, <1>10 DEF t

(* A frame is pushed whose stream was taken from the one below.            *)
LEMMA PushKeeps ==
  ASSUME NEW end \in Nat, NEW root, NEW r, NEW given_up,
         Kept(r, given_up, end, root), NEW n \in Nat \ {0}, n = Len(r),
         NEW g, IsFrame(g), Decodes(g, r[n]), NEW t, IsCut(t, r, n, g),
         g.at + Used(r, n) + g.left <= end,
         ~given_up => g.at + Used(r, n) + g.left = end,
         ~given_up /\ g.copy => r[n].at + Used(r, n) = end
  PROVE  Kept(t, given_up, end, root) /\ (~given_up => InStep(t, end))
<1>1. n \in 0..Len(r) /\ n > 0
  OBVIOUS
<1>2. n = 0 => g.kind = "message" /\ g.desc = root
  OBVIOUS
<1>3. n > 0 => Decodes(g, r[n])
  OBVIOUS
<1>4. ~given_up /\ n > 0 /\ g.copy => r[n].at + Used(r, n) = end
  OBVIOUS
<1>5. Pushed(t, given_up, r, given_up, n, g, end, root)
  BY <1>1, <1>2, <1>3, <1>4 DEF Pushed
<1>6. /\ Kept(t, given_up, end, root)
      /\ g.at + Used(r, n) + g.left = end => InStep(t, end)
  BY <1>5, CutKeeps
<1> QED
  BY <1>6

(* r is stack s with f on top in place of what f became of.                *)
Lowered(r, s, n, f, given_up, end, root) ==
  /\ end \in Nat /\ Kept(s, given_up, end, root)
  /\ n = Len(s) /\ n > 0 /\ r = [s EXCEPT ![n] = f]
  /\ IsFrame(f) /\ SameCall(f, s[n]) /\ f.at + f.left <= Drained(s[n])

(* The innermost call goes on below a call it is about to make.            *)
LEMMA LowerKept ==
  ASSUME NEW end, NEW root, NEW s, NEW given_up, NEW n, NEW f, NEW r,
         Lowered(r, s, n, f, given_up, end, root)
  PROVE  /\ Kept(r, given_up, end, root)
         /\ IsStack(r) /\ IsSeq(r) /\ Len(r) = n
         /\ Used(r, n) = Used(s, n - 1) + f.left
         /\ r[n] = f
         /\ IsCut(r, s, n - 1, f)
<1> DEFINE last == s[n]
<1>1. /\ end \in Nat /\ Kept(s, given_up, end, root)
      /\ n = Len(s) /\ n > 0 /\ r = [s EXCEPT ![n] = f]
      /\ IsFrame(f) /\ SameCall(f, last) /\ f.at + f.left <= Drained(last)
  BY DEF Lowered
<1> HIDE DEF last
<1>2. last = s[n]
  BY DEF last
<1>3. /\ IsStack(s) /\ IsSeq(s) /\ n \in Nat /\ n > 0 /\ n - 1 \in 0..n
      /\ IsFrame(last) /\ last.at \in Nat /\ last.left \in Nat
      /\ Used(s, n - 1) \in Nat /\ Used(s, n) \in Nat
      /\ Used(s, n) = Used(s, n - 1) + last.left
      /\ last.at + Used(s, n) <= end
      /\ n = 1 => last.kind = "message" /\ last.desc = root
      /\ n > 1 => Decodes(last, s[n - 1])
      /\ ~given_up /\ n > 1 /\ last.copy => s[n - 1].at + Used(s, n - 1) = end
  <2>1. LastIs(s, n, last, given_up, end, root)
    BY <1>1, <1>2, LastOfStack
  <2> QED
    BY <2>1 DEF LastIs
<1>4. /\ last.at \in Nat /\ last.left \in Nat /\ Used(s, n - 1) \in Nat
      /\ f.at \in Nat /\ f.left \in Nat
  BY <1>3, <1>1 DEF IsFrame
<1>5. IsCut(r, s, n - 1, f)
  BY <1>3, <1>1, ReplacedIs
<1>6. f.at + f.left <= last.at + last.left
  BY <1>1 DEF Drained
<1>7. f.kind = last.kind /\ f.copy = last.copy /\ f.desc = last.desc
  BY <1>1 DEF SameCall
<1>8. n - 1 \in 0..Len(s)
  BY <1>3, <1>1
<1>9. Kept(r, given_up, end, root)
  <2>0. n - 1 \in Nat /\ (n - 1 = 0 => n = 1) /\ (n - 1 > 0 => n > 1)
    BY <1>3
  <2>1. n - 1 = 0 => f.kind = "message" /\ f.desc = root
    BY <1>3, <1>7, <2>0
  <2>4. n - 1 > 0 => Decodes(f, s[n - 1])
    BY <1>3, <1>1, <2>0, SameDecodes
  <2>2. ~given_up /\ n - 1 > 0 /\ f.copy => s[n - 1].at + Used(s, n - 1) = end
    BY <1>3, <1>7
  <2>3. f.at + Used(s, n - 1) + f.left <= end
    <3> DEFINE u == Used(s, n - 1)
               a == f.at
               b == f.left
               c == last.at
               d == last.left
    <3>1. a + u + b <= c + (u + d)
      <4>1. u \in Nat /\ a \in Nat /\ b \in Nat /\ c \in Nat /\ d \in Nat
        BY <1>4
      <4>2. a + b <= c + d
        BY <1>6
      <4> HIDE DEF u, a, b, c, d
      <4> QED
        BY <4>1, <4>2
    <3>2. f.at + Used(s, n - 1) + f.left \in Nat
      BY <1>4
    <3>3. last.at + (Used(s, n - 1) + last.left) <= end
      BY <1>3
    <3>4. last.at + (Used(s, n - 1) + last.left) \in Nat
      BY <1>3
    <3> QED
      BY <1>1, <3>1, <3>2, <3>3, <3>4
  <2>5. Pushed(r, given_up, s, given_up, n - 1, f, end, root)
    BY <1>5, <1>1, <1>8, <2>1, <2>2, <2>3, <2>4 DEF Pushed
  <2> DEFINE m == n - 1
  <2> HIDE DEF m
  <2> QED
    BY <2>5, CutKeeps DEF m
<1>10. /\ IsStack(r) /\ IsSeq(r) /\ Len(r) = n
       /\ Used(r, n) = Used(s, n - 1) + f.left
       /\ r[n] = f
  <2>1. n - 1 + 1 = n
    BY <1>3
  <2>2. IsSeq(r) /\ Len(r) = n /\ r[n] = f
    BY <1>5, <2>1 DEF IsCut
  <2>3. IsStack(r) /\ Used(r, n) = Used(s, n - 1) + f.left
    <3> DEFINE m == n - 1
    <3>1. m \in 0..Len(s) /\ IsCut(r, s, m, f) /\ m + 1 = n
      BY <1>5, <1>8, <2>1
    <3> HIDE DEF m
    <3>2. IsStack(r) /\ Used(r, m + 1) = Used(s, m) + f.left
      BY <1>3, <1>1, <3>1, SumsOfCut
    <3> QED
      BY <3>1, <3>2 DEF m
  <2> QED
    BY <2>2, <2>3
<1> QED
  BY <1>5, <1>9, <1>10

(* A stack shrinks whose innermost call gives bytes to a new one.          *)
LEMMA CallShrinks ==
  ASSUME NEW s, IsSeq(s), NEW n \in Nat, n = Len(s), n > 0,
         NEW f, f.left < s[n].left, NEW r, IsCut(r, s, n - 1, f),
         NEW g, NEW t, IsCut(t, r, n, g)
  PROVE  Shrinks(s, t)
<1>1. n \in DOMAIN s /\ n \in DOMAIN t
  BY DEF IsSeq, IsCut
<1>2. r[n] = f /\ \A i \in 1..(n - 1) : r[i] = s[i]
  <2>1. n - 1 + 1 = n
    OBVIOUS
  <2> QED
    BY <2>1 DEF IsCut
<1>3. t[n] = f /\ \A i \in 1..(n - 1) : i \in DOMAIN t /\ t[i] = s[i]
  <2>1. \A i \in 1..n : t[i] = r[i] /\ i \in DOMAIN t
    BY DEF IsCut, IsSeq
  <2> QED
    BY <1>2, <2>1
<1> QED
  BY <1>1, <1>3 DEF Shrinks

(* The innermost call gives part of its stream to a new one.               *)
LEMMA CallKeeps ==
  ASSUME NEW end \in Nat, NEW root, NEW s,
         NEW given_up, Kept(s, given_up, end, root),
         ~given_up => InStep(s, end),
         NEW n, n = Len(s), n > 0, NEW last, last = s[n],
         NEW f, IsFrame(f), SameCall(f, last), f.left < last.left,
         NEW g, IsFrame(g), Decodes(g, f),
         f.at + f.left <= Drained(last),
         g.at + f.left + g.left = Drained(last),
         g.copy => f.at + f.left = Drained(last)
  PROVE  LET t == Append([s EXCEPT ![n] = f], g)
         IN  /\ Kept(t, given_up, end, root)
             /\ ~given_up => InStep(t, end)
             /\ Shrinks(s, t)
<1> DEFINE r == [s EXCEPT ![n] = f]
           t == Append(r, g)
<1>1. /\ IsSeq(s) /\ n \in Nat /\ n > 0
      /\ last.at \in Nat /\ last.left \in Nat
      /\ Used(s, n - 1) \in Nat
      /\ Used(s, n) = Used(s, n - 1) + last.left
      /\ last.at + Used(s, n) <= end
  <2>1. LastIs(s, n, last, given_up, end, root)
    BY LastOfStack
  <2> QED
    BY <2>1 DEF LastIs
<1>2. /\ last.at \in Nat /\ last.left \in Nat /\ Used(s, n - 1) \in Nat
      /\ f.at \in Nat /\ f.left \in Nat
  BY <1>1 DEF IsFrame
<1>3. g.at \in Nat /\ g.left \in Nat
  BY DEF IsFrame
<1>4. /\ g.at + f.left + g.left = last.at + last.left
      /\ g.copy => f.at + f.left = last.at + last.left
  BY DEF Drained
<1>5. ~given_up => last.at + Used(s, n) = end
  BY DEF InStep
<1>6. /\ Kept(r, given_up, end, root)
      /\ IsStack(r) /\ IsSeq(r) /\ Len(r) = n
      /\ Used(r, n) = Used(s, n - 1) + f.left
      /\ r[n] = f
      /\ IsCut(r, s, n - 1, f)
  <2>1. Lowered(r, s, n, f, given_up, end, root)
    BY DEF Lowered
  <2> HIDE DEF r
  <2> QED
    BY <2>1, LowerKept
<1> HIDE DEF r
<1>7. IsCut(t, r, n, g)
  BY <1>6, AppendedIs
<1>8. /\ g.at + Used(r, n) + g.left <= end
      /\ ~given_up => g.at + Used(r, n) + g.left = end
      /\ ~given_up /\ g.copy => f.at + Used(r, n) = end
  <2>1. Used(r, n) = Used(s, n - 1) + f.left
    BY <1>6
  <2> DEFINE u == Used(s, n - 1)
  <2>11. Used(r, n) = u + f.left
    BY <2>1
  <2>2. g.at + (u + f.left) + g.left = last.at + (u + last.left)
    <3> DEFINE a == g.at
               b == g.left
               c == last.at
               d == last.left
               e == f.left
    <3>1. /\ u \in Nat /\ a \in Nat /\ b \in Nat /\ c \in Nat /\ d \in Nat
          /\ e \in Nat
      BY <1>2, <1>3
    <3>2. a + e + b = c + d
      BY <1>4
    <3> HIDE DEF u, a, b, c, d, e
    <3>3. a + (u + e) + b = u + (a + e + b) /\ c + (u + d) = u + (c + d)
      BY <3>1
    <3> QED
      BY <3>2, <3>3 DEF a, b, c, d, e
  <2>3. g.copy => f.at + (u + f.left) = last.at + (u + last.left)
    <3> DEFINE a == f.at
               b == f.left
               c == last.at
               d == last.left
    <3> SUFFICES ASSUME g.copy PROVE a + (u + b) = c + (u + d)
      OBVIOUS
    <3>1. u \in Nat /\ a \in Nat /\ b \in Nat /\ c \in Nat /\ d \in Nat
      BY <1>2
    <3>2. a + b = c + d
      BY <1>4
    <3> HIDE DEF u, a, b, c, d
    <3> QED
      BY <3>1, <3>2
  <2>4. Used(s, n) = u + last.left /\ last.at + Used(s, n) <= end
    BY <1>1
  <2> HIDE DEF u
  <2> QED
    BY <1>5, <2>11, <2>2, <2>3, <2>4
<1>9. Kept(t, given_up, end, root) /\ (~given_up => InStep(t, end))
  <2>1. n = Len(r) /\ n \in Nat \ {0} /\ Decodes(g, r[n])
    BY <1>1, <1>6
  <2>2. Kept(r, given_up, end, root) /\ r[n] = f
    BY <1>6
  <2>3. /\ g.at + Used(r, n) + g.left <= end
        /\ ~given_up => g.at + Used(r, n) + g.left = end
        /\ ~given_up /\ g.copy => f.at + Used(r, n) = end
    BY <1>8
  <2>4. ~given_up /\ g.copy => r[n].at + Used(r, n) = end
    BY <2>2, <2>3
  <2> HIDE DEF t
  <2> QED
    BY <1>7, <2>1, <2>2, <2>3, <2>4, PushKeeps
<1> HIDE DEF t
<1>10. Shrinks(s, t)
  BY <1>1, <1>6, <1>7, CallShrinks
<1> QED
  BY <1>9, <1>10 DEF t, r

(* A stack is kept at a later end, too, if no count is relied on.          *)
LEMMA KeptLater ==
  ASSUME NEW end \in Nat, NEW root, NEW s, NEW given_up,
         Kept(s, given_up, end, root), NEW later \in Nat, end <= later
  PROVE  Kept(s, TRUE, later, root)
<1>1. IsStack(s)
  BY DEF Kept
<1>2. ASSUME NEW i \in 1..Len(s)
      PROVE  s[i].at + Used(s, i) <= later
  <2>1. i \in 0..Len(s) /\ IsFrame(s[i])
    BY <1>1 DEF IsStack, IsSeq
  <2>2. s[i].at \in Nat /\ Used(s, i) \in Nat
    BY <1>1, <2>1, SumsOfStack DEF IsFrame
  <2>3. s[i].at + Used(s, i) <= end
    BY DEF Kept
  <2> QED
    BY <2>2, <2>3
<1> QED
  BY <1>2 DEF Kept

(* The innermost call starts a new one on a stream whose bytes it goes on  *)
(* counting as its own.                                                    *)
LEMMA OverrunKeeps ==
  ASSUME NEW end \in Nat, NEW root, NEW s,
         NEW given_up, Kept(s, given_up, end, root),
         NEW n, n = Len(s), n > 0, NEW last, last = s[n],
         NEW f, IsFrame(f), SameCall(f, last), f.left < last.left,
         f.at + f.left <= Drained(last),
         NEW g, IsFrame(g), Decodes(g, f)
  PROVE  LET t == Append([s EXCEPT ![n] = f], g)
         IN  /\ \E later \in Nat : Kept(t, TRUE, later, root)
             /\ Shrinks(s, t)
<1> DEFINE r == [s EXCEPT ![n] = f]
           t == Append(r, g)
           later == end + g.at + Used(r, n) + g.left
<1>1. IsSeq(s) /\ n \in Nat
  BY DEF Kept, IsStack, IsSeq
<1>2. /\ Kept(r, given_up, end, root)
      /\ IsStack(r) /\ IsSeq(r) /\ Len(r) = n
      /\ r[n] = f /\ IsCut(r, s, n - 1, f)
  <2>1. Lowered(r, s, n, f, given_up, end, root)
    BY DEF Lowered
  <2> HIDE DEF r
  <2> QED
    BY <2>1, LowerKept
<1> HIDE DEF r
<1>3. IsCut(t, r, n, g)
  BY <1>2, AppendedIs
<1>4. g.at \in Nat /\ g.left \in Nat /\ Used(r, n) \in Nat
  <2>1. n \in 0..Len(r)
    BY <1>1, <1>2
  <2> QED
    BY <1>2, <2>1, SumsOfStack DEF IsFrame
<1>5. /\ later \in Nat /\ end <= later
      /\ g.at + Used(r, n) + g.left <= later
  BY <1>4
<1> HIDE DEF later, t
<1>6. Kept(r, TRUE, later, root)
  BY <1>2, <1>5, KeptLater
<1>7. Kept(t, TRUE, later, root)
  <2>1. n = Len(r) /\ n \in Nat \ {0} /\ Decodes(g, r[n])
    BY <1>1, <1>2
  <2> QED
    BY <1>3, <1>5, <1>6, <2>1, PushKeeps
<1>8. Shrinks(s, t)
  BY <1>1, <1>2, <1>3, CallShrinks
<1> QED
  BY <1>5, <1>7, <1>8 DEF t, r

(* The frame two below the second is the first.                            *)
LEMMA TwoBack == \A k \in Nat : k - 2 = 0 => k - 1 = 1
OBVIOUS

(* The innermost call returns to the one below.                            *)
LEMMA ReturnKeeps ==
  ASSUME NEW end \in Nat, NEW root, NEW s,
         NEW given_up, Kept(s, given_up, end, root),
         ~given_up => InStep(s, end),
         NEW n, n = Len(s), n > 1, NEW last, last = s[n],
         NEW below, below = s[n - 1],
         NEW f, IsFrame(f), SameCall(f, below),
         f.left = below.left,
         f.at = Drained(last) \/ (last.copy /\ f.at = below.at)
  PROVE  LET t == Append(SubSeq(s, 1, n - 2), f)
         IN  /\ Kept(t, given_up, end, root)
             /\ ~given_up => InStep(t, end)
             /\ Shrinks(s, t)
<1> DEFINE t == Append(SubSeq(s, 1, n - 2), f)
           u == Used(s, n - 2)
           v == Used(s, n - 1)
<1>1. /\ IsStack(s) /\ IsSeq(s) /\ n \in Nat /\ n - 1 \in 0..n
      /\ last.at \in Nat /\ last.left \in Nat /\ IsFrame(last)
      /\ last.at + Used(s, n) <= end
      /\ Used(s, n) = v + last.left
      /\ ~given_up /\ last.copy => below.at + v = end
  <2>0. n \in Nat /\ n > 0
    BY DEF Kept, IsStack, IsSeq
  <2>1. LastIs(s, n, last, given_up, end, root)
    BY <2>0, LastOfStack
  <2> QED
    BY <2>1 DEF LastIs
<1>2. /\ n - 1 \in 1..n /\ n - 2 \in 0..Len(s) /\ n - 2 \in 0..n
      /\ n - 1 - 1 = n - 2
  BY <1>1
<1>3. /\ u \in Nat /\ v \in Nat
      /\ v = u + below.left
  BY <1>1, <1>2, SumsOfStack
<1>4. below.at + v <= end /\ IsFrame(below)
  BY <1>2 DEF Kept, IsStack
<1>5. /\ f.at \in Nat /\ f.left \in Nat /\ below.at \in Nat
      /\ below.left \in Nat
  BY <1>4 DEF IsFrame
<1>6. ~given_up => last.at + Used(s, n) = end
  BY DEF InStep
<1>7. IsCut(t, s, n - 2, f)
  BY <1>1, <1>2, CutOffIs
<1>8. f.at = last.at + last.left \/ (last.copy /\ f.at = below.at)
  BY DEF Drained
<1> HIDE DEF t, u, v
<1>9. /\ f.at + u + f.left <= end
      /\ ~given_up => f.at + u + f.left = end
  <2>1. f.at + u + f.left = f.at + v
    <3> DEFINE a == f.at
               b == f.left
    <3>1. a \in Nat /\ b \in Nat /\ u \in Nat /\ v = u + b
      BY <1>3, <1>5
    <3> HIDE DEF a, b
    <3>2. a + u + b = a + v
      BY <3>1
    <3> QED
      BY <3>2 DEF a, b
  <2>2. CASE f.at = last.at + last.left
    <3>1. f.at + v = last.at + Used(s, n)
      <4> DEFINE a == last.at
                 b == last.left
      <4>1. a \in Nat /\ b \in Nat /\ v \in Nat
        BY <1>1, <1>3
      <4> HIDE DEF a, b
      <4>2. (a + b) + v = a + (v + b)
        BY <4>1
      <4> QED
        BY <1>1, <2>2, <4>2 DEF a, b
    <3> QED
      BY <1>1, <1>6, <2>1, <3>1
  <2>3. CASE last.copy /\ f.at = below.at
    BY <1>1, <1>4, <2>1, <2>3
  <2> QED
    BY <1>8, <2>2, <2>3
<1>10. n - 2 = 0 => f.kind = "message" /\ f.desc = root
  <2>1. n \in Nat
    BY <1>1
  <2>2. n - 2 = 0 => n - 1 = 1
    BY <2>1, TwoBack
  <2>3. s[1].kind = "message" /\ s[1].desc = root
    BY <2>1 DEF Kept
  <2> QED
    BY <2>2, <2>3 DEF SameCall
<1>11. n - 2 > 0 => Decodes(f, s[n - 2])
  <2>1. n - 2 > 0 => n - 1 \in 2..Len(s)
    BY <1>1
  <2> QED
    BY <1>2, <2>1, SameDecodes DEF Kept
<1>12. ~given_up /\ n - 2 > 0 /\ f.copy => s[n - 2].at + u = end
  <2>1. n - 2 > 0 => n - 1 \in 2..Len(s)
    BY <1>1
  <2> QED
    BY <1>2, <2>1 DEF Kept, u, SameCall
<1>13. Kept(t, given_up, end, root) /\ (~given_up => InStep(t, end))
  <2> DEFINE m == n - 2
  <2>1. m \in 0..Len(s) /\ IsCut(t, s, m, f) /\ u = Used(s, m)
    BY <1>2, <1>7 DEF u
  <2>2. /\ m = 0 => f.kind = "message" /\ f.desc = root
        /\ m > 0 => Decodes(f, s[m])
    BY <1>10, <1>11
  <2>3. ~given_up /\ m > 0 /\ f.copy => s[m].at + u = end
    BY <1>12
  <2> HIDE DEF m
  <2>4. /\ f.at + Used(s, m) + f.left <= end
        /\ ~given_up => f.at + Used(s, m) + f.left = end
    BY <1>9, <2>1
  <2>5. ~given_up /\ m > 0 /\ f.copy => s[m].at + Used(s, m) = end
    BY <2>1, <2>3
  <2>6. Pushed(t, given_up, s, given_up, m, f, end, root)
    BY <2>1, <2>2, <2>4, <2>5 DEF Pushed
  <2>7. /\ Kept(t, given_up, end, root)
        /\ f.at + Used(s, m) + f.left = end => InStep(t, end)
    BY <2>6, CutKeeps
  <2> QED
    BY <2>4, <2>7
<1>14. Shrinks(s, t)
  <2>1. n - 2 \in Nat /\ n - 2 < Len(s) /\ n - 2 + 1 = n - 1 /\ n - 1 < Len(s)
    BY <1>1
  <2> QED
    BY <1>1, <1>7, <2>1, CutShrinks
<1> QED
  BY <1>13, <1>14 DEF t

(* Giving a LinearCmd up.                                                  *)
LEMMA FailKeeps ==
  ASSUME NEW end \in Nat, NEW root, NEW s,
         NEW given_up, Kept(s, given_up, end, root),
         NEW h \in 2..Len(s) - 1, s[h].kind = "callback",
         NEW f, f = [s[h] EXCEPT !.at = Drained(s[h + 1])]
  PROVE  LET t == Append(SubSeq(s, 1, h - 1), f)
         IN  Kept(t, TRUE, end, root) /\ Shrinks(s, t)
<1> DEFINE t == Append(SubSeq(s, 1, h - 1), f)
           next == s[h + 1]
           u == Used(s, h - 1)
<1>1. IsStack(s) /\ IsSeq(s) /\ Len(s) \in Nat
  BY DEF Kept, IsStack, IsSeq
<1>2. /\ h \in Nat /\ h \in 1..Len(s) /\ h + 1 \in 1..Len(s)
      /\ h - 1 \in 0..Len(s) /\ h + 1 - 1 = h /\ h - 1 # 0
      /\ h \in 0..Len(s) /\ h + 1 \in 0..Len(s) /\ Len(s) \in 0..Len(s)
      /\ h + 1 <= Len(s)
  BY <1>1
<1>3. IsFrame(s[h]) /\ IsFrame(next) /\ next.at + Used(s, h + 1) <= end
  BY <1>1, <1>2 DEF Kept, IsStack
<1>4. /\ next.at \in Nat \ {0} /\ next.left \in Nat /\ s[h].left \in Nat
      /\ next.at + next.left \in Nat \ {0}
  BY <1>3 DEF IsFrame
<1>5. f = [x \in Names |-> IF x = "at" THEN next.at + next.left ELSE s[h][x]]
  BY <1>3 DEF IsFrame, Drained, Names
<1>6. /\ f.at = next.at + next.left /\ f.left = s[h].left
      /\ f.kind = s[h].kind /\ f = [x \in Names |-> f[x]]
  BY <1>5 DEF Names
<1>7. SameCall(f, s[h])
  BY <1>5 DEF Names, SameCall
<1>8. IsFrame(f)
  <2>1. Described(f)
    BY <1>6 DEF Described
  <2> QED
    BY <1>3, <1>4, <1>6, <2>1 DEF IsFrame
<1>9. /\ u \in Nat
      /\ Used(s, h) = u + s[h].left
      /\ Used(s, h + 1) = Used(s, h) + next.left
  BY <1>1, <1>2, SumsOfStack
<1>10. IsCut(t, s, h - 1, f)
  BY <1>1, <1>2, CutOffIs
<1> HIDE DEF t, next
<1>11. f.at + u + f.left <= end
  <2> DEFINE a == next.at
             b == next.left
             c == s[h].left
             w == u
  <2>1. a \in Nat /\ b \in Nat /\ c \in Nat /\ w \in Nat
    BY <1>4, <1>9
  <2>2. a + ((w + c) + b) <= end
    BY <1>3, <1>9
  <2>3. f.at + w + f.left = (a + b) + w + c
    BY <1>6
  <2> HIDE DEF a, b, c, w, u
  <2>4. (a + b) + w + c = a + ((w + c) + b)
    BY <2>1
  <2> QED
    BY <2>2, <2>3, <2>4 DEF w
<1>12. Kept(t, TRUE, end, root)
  <2>1. h - 1 > 0 => Decodes(f, s[h - 1])
    BY <1>2, <1>7, SameDecodes DEF Kept
  <2>2. Pushed(t, TRUE, s, given_up, h - 1, f, end, root)
    BY <1>2, <1>8, <1>10, <1>11, <2>1 DEF Pushed, u
  <2> DEFINE m == h - 1
  <2> HIDE DEF m
  <2> QED
    BY <2>2, CutKeeps DEF m
<1>13. Shrinks(s, t)
  <2>1. /\ h - 1 \in Nat /\ h - 1 < Len(s) /\ h - 1 + 1 = h
        /\ h < Len(s)
    BY <1>1, <1>2
  <2> QED
    BY <1>1, <1>6, <1>10, <2>1, CutShrinks
<1> QED
  BY <1>12, <1>13 DEF t

-----------------------------------------------------------------------------
(* Steps of the decoder.                                                   *)

(* The stack, and, until a LinearCmd is given up or read past its end,     *)
(* pointers and counts in step, up to the end of what has arrived.         *)
Aligned(fs, given_up, over, end) ==
  /\ Kept(fs, given_up \/ over, end, Root)
  /\ Len(fs) > 0 /\ ~given_up /\ ~over => InStep(fs, end)
  /\ ~over => end = length + 1

(* The inductive invariant.                                                *)
StackIInv ==
  /\ BytesOK
  /\ input.cuts \subseteq 0..Len(input.bytes)
  /\ (status = "busy") <=> (Len(frames) > 0)
  /\ \E end \in Nat : Aligned(frames, abandoned, overrun, end)

(* What a step of the decoder leaves: fewer calls and bytes, or the end.   *)
Moved ==
  \/ status' # "busy" /\ frames' = <<>>
  \/ /\ status' = "busy" /\ Len(frames') > 0
     /\ \E end \in Nat : Aligned(frames', abandoned', overrun', end)
     /\ Shrinks(frames, frames')

(* What is known of the innermost frame while pb_decode runs.              *)
LEMMA Ready ==
  ASSUME StackIInv, status = "busy"
  PROVE  /\ BytesOK
         /\ IsStack(frames) /\ IsSeq(frames)
         /\ Len(frames) \in Nat /\ Len(frames) > 0
         /\ frames[1].kind = "message"
         /\ IsFrame(Top) /\ Readable(Top)
         /\ Len(frames) > 1 => Decodes(Top, Parent)
         /\ Len(frames) = 1 => Top.kind = "message" /\ Top.desc = Root
<1>1. PICK end \in Nat : Kept(frames, abandoned \/ overrun, end, Root)
  BY DEF StackIInv, Aligned
<1>2. BytesOK /\ Len(frames) > 0
  BY DEF StackIInv
<1> DEFINE n == Len(frames)
           last == frames[n]
           given_up == abandoned \/ overrun
<1> HIDE DEF n, last, given_up
<1>3. LastIs(frames, n, last, given_up, end, Root)
  BY <1>1, <1>2, LastOfStack DEF n, last, given_up
<1>4. /\ n \in Nat /\ IsFrame(last)
      /\ IsStack(frames) /\ IsSeq(frames)
      /\ n > 1 => Decodes(last, frames[n - 1])
      /\ n = 1 => last.kind = "message" /\ last.desc = Root
  BY <1>3 DEF LastIs
<1>5. Readable(last)
  BY <1>4 DEF Readable, IsFrame
<1>6. frames[1].kind = "message"
  BY <1>1, <1>2 DEF Kept
<1> QED
  BY <1>2, <1>4, <1>5, <1>6 DEF Top, Parent, n, last

(* A stack that was cut off and pushed on is not empty.                    *)
LEMMA CutIsLonger ==
  ASSUME NEW t, NEW s, NEW m \in Nat, NEW f, IsCut(t, s, m, f)
  PROVE  Len(t) > 0
BY DEF IsCut

(* A step in one stream.                                                   *)
LEMMA ContinueMoves ==
  ASSUME StackIInv, status = "busy",
         NEW f, IsFrame(f), SameCall(f, Top),
         f.at + f.left = Drained(Top), f.left < Top.left,
         Continue(f)
  PROVE  Moved
<1> DEFINE n == Len(frames)
           last == frames[n]
           given_up == abandoned \/ overrun
           t == [frames EXCEPT ![n] = f]
<1>1. IsSeq(frames) /\ n \in Nat /\ n > 0 /\ n - 1 \in Nat
  BY Ready
<1>2. last = Top
  BY DEF Top
<1>3. /\ frames' = t /\ status' = "busy"
      /\ abandoned' = abandoned /\ overrun' = overrun
  BY DEF Continue
<1>4. PICK end \in Nat : Aligned(frames, abandoned, overrun, end)
  BY DEF StackIInv
<1>5. Len(t) > 0
  <2>1. IsCut(t, frames, n - 1, f)
    BY <1>1, ReplacedIs
  <2> HIDE DEF t
  <2> QED
    BY <1>1, <2>1, CutIsLonger
<1> HIDE DEF n, last, given_up
<1>6. /\ Kept(frames, given_up, end, Root)
      /\ ~given_up => InStep(frames, end)
  BY <1>1, <1>4 DEF Aligned, given_up, n
<1>7. /\ Kept(t, given_up, end, Root)
      /\ ~given_up => InStep(t, end)
      /\ Shrinks(frames, t)
  BY <1>1, <1>2, <1>6, ContinueKeeps DEF n, last
<1> HIDE DEF t
<1>8. Aligned(t, abandoned, overrun, end)
  BY <1>4, <1>7 DEF Aligned, given_up
<1> QED
  BY <1>3, <1>5, <1>7, <1>8 DEF Moved

(* A stack that was pushed on twice is not empty.                          *)
LEMMA PushedIsLonger ==
  ASSUME NEW s, IsSeq(s), Len(s) > 0, NEW f, NEW g
  PROVE  Len(Append([s EXCEPT ![Len(s)] = f], g)) > 0
<1> DEFINE n == Len(s)
           r == [s EXCEPT ![n] = f]
           t == Append(r, g)
<1>1. n - 1 \in Nat
  BY DEF IsSeq
<1>2. IsCut(r, s, n - 1, f)
  BY ReplacedIs
<1> HIDE DEF r
<1>3. IsSeq(r) /\ Len(r) \in Nat
  BY <1>2 DEF IsCut, IsSeq
<1>4. IsCut(t, r, Len(r), g)
  BY <1>3, AppendedIs
<1> HIDE DEF t
<1>5. Len(t) > 0
  BY <1>3, <1>4, CutIsLonger
<1> QED
  BY <1>5 DEF t, r

(* A step that opens a call.                                               *)
LEMMA CallMoves ==
  ASSUME StackIInv, status = "busy",
         NEW f, IsFrame(f), SameCall(f, Top), f.left < Top.left,
         NEW g, IsFrame(g), Decodes(g, f),
         f.at + f.left <= Drained(Top),
         g.at + f.left + g.left = Drained(Top),
         g.copy => f.at + f.left = Drained(Top),
         Call(f, g)
  PROVE  Moved
<1> DEFINE n == Len(frames)
           last == frames[n]
           given_up == abandoned \/ overrun
           t == Append([frames EXCEPT ![n] = f], g)
<1>1. n \in Nat /\ n > 0
  BY Ready
<1>2. last = Top
  BY DEF Top
<1>3. /\ frames' = t /\ status' = "busy"
      /\ abandoned' = abandoned /\ overrun' = overrun
  BY DEF Call, Push
<1>4. PICK end \in Nat : Aligned(frames, abandoned, overrun, end)
  BY DEF StackIInv
<1>5. Len(t) > 0
  BY Ready, PushedIsLonger
<1> HIDE DEF n, last, given_up
<1>6. /\ Kept(frames, given_up, end, Root)
      /\ ~given_up => InStep(frames, end)
  BY <1>1, <1>4 DEF Aligned, given_up, n
<1>7. /\ Kept(t, given_up, end, Root)
      /\ ~given_up => InStep(t, end)
      /\ Shrinks(frames, t)
  BY <1>1, <1>2, <1>6, CallKeeps DEF n, last
<1> HIDE DEF t
<1>8. Aligned(t, abandoned, overrun, end)
  BY <1>4, <1>7 DEF Aligned, given_up
<1> QED
  BY <1>3, <1>5, <1>7, <1>8 DEF Moved

(* A step that opens a call on bytes its caller goes on counting.          *)
LEMMA OverrunMoves ==
  ASSUME StackIInv, status = "busy",
         NEW f, IsFrame(f), SameCall(f, Top), f.left < Top.left,
         f.at + f.left <= Drained(Top),
         NEW g, IsFrame(g), Decodes(g, f),
         Push(f, g), overrun' = TRUE
  PROVE  Moved
<1> DEFINE n == Len(frames)
           last == frames[n]
           given_up == abandoned \/ overrun
           t == Append([frames EXCEPT ![n] = f], g)
<1>1. n \in Nat /\ n > 0
  BY Ready
<1>2. last = Top
  BY DEF Top
<1>3. frames' = t /\ status' = "busy"
  BY DEF Push
<1>4. PICK end \in Nat : Kept(frames, given_up, end, Root)
  BY DEF StackIInv, Aligned
<1>5. Len(t) > 0
  BY Ready, PushedIsLonger
<1> HIDE DEF n, last, given_up
<1>6. /\ \E later \in Nat : Kept(t, TRUE, later, Root)
      /\ Shrinks(frames, t)
  BY <1>1, <1>2, <1>4, OverrunKeeps DEF n, last
<1> HIDE DEF t
<1>7. (abandoned' \/ overrun') = TRUE
  OBVIOUS
<1>8. \E later \in Nat : Aligned(t, abandoned', overrun', later)
  BY <1>6, <1>7 DEF Aligned
<1> QED
  BY <1>3, <1>5, <1>6, <1>8 DEF Moved

(* A step that closes a call.                                              *)
LEMMA ReturnMoves ==
  ASSUME StackIInv, status = "busy", Len(frames) > 1,
         NEW f, IsFrame(f), SameCall(f, Parent),
         f.left = Parent.left,
         f.at = Drained(Top) \/ (Top.copy /\ f.at = Parent.at),
         Return(f)
  PROVE  Moved
<1> DEFINE n == Len(frames)
           given_up == abandoned \/ overrun
           t == Append(SubSeq(frames, 1, n - 2), f)
<1>1. IsSeq(frames) /\ n \in Nat /\ n > 1
  BY Ready
<1>2. frames[n] = Top /\ frames[n - 1] = Parent
  BY DEF Top, Parent
<1>3. /\ frames' = t /\ status' = "busy"
      /\ abandoned' = abandoned /\ overrun' = overrun
  BY DEF Return
<1>4. PICK end \in Nat : Aligned(frames, abandoned, overrun, end)
  BY DEF StackIInv
<1>5. Len(t) > 0
  <2>1. n - 2 \in 0..Len(frames) /\ n - 2 \in Nat
    BY <1>1
  <2>2. IsCut(t, frames, n - 2, f)
    BY <1>1, <2>1, CutOffIs
  <2> HIDE DEF t
  <2> QED
    BY <2>1, <2>2, CutIsLonger
<1> HIDE DEF n, given_up
<1>6. /\ Kept(frames, given_up, end, Root)
      /\ ~given_up => InStep(frames, end)
  BY <1>1, <1>4 DEF Aligned, given_up, n
<1>7. /\ Kept(t, given_up, end, Root)
      /\ ~given_up => InStep(t, end)
      /\ Shrinks(frames, t)
  BY <1>1, <1>2, <1>6, ReturnKeeps DEF n
<1> HIDE DEF t
<1>8. Aligned(t, abandoned, overrun, end)
  BY <1>4, <1>7 DEF Aligned, given_up
<1> QED
  BY <1>3, <1>5, <1>7, <1>8 DEF Moved

(* An error, handled by handy_task or by the caller of pb_decode.          *)
LEMMA FailMoves ==
  ASSUME StackIInv, status = "busy", Top.kind = "message", Fail
  PROVE  Moved
<1> DEFINE handlers == {i \in DOMAIN frames :
                          frames[i].kind = "callback"
                            /\ frames[i].desc = "Message"}
           h == Max(handlers)
<1>1. CASE handlers = {}
  BY <1>1 DEF Fail, End, Moved
<1>2. CASE handlers # {}
  <2>1. Len(frames) \in Nat /\ Len(frames) > 0
    BY Ready
  <2>2. DOMAIN frames = 1..Len(frames) /\ IsSeq(frames)
    BY Ready DEF IsSeq
  <2>3. handlers \in SUBSET (0..Len(frames))
    BY <2>2
  <2>4. h \in handlers
    <3> HIDE DEF handlers
    <3> QED
      BY <1>2, <2>1, <2>3, Greatest
  <2>5. h \in 1..Len(frames) /\ frames[h].kind = "callback"
    BY <2>2, <2>4
  <2>6. h # Len(frames)
    BY <2>5 DEF Top
  <2>7. h # 1
    BY <2>5, Ready
  <2> DEFINE f == [frames[h] EXCEPT !.at = Drained(frames[h + 1])]
             t == Append(SubSeq(frames, 1, h - 1), f)
  <2>8. /\ frames' = t /\ status' = "busy"
        /\ abandoned' = TRUE /\ overrun' = overrun
    BY <1>2 DEF Fail
  <2> HIDE DEF handlers, h
  <2>9. h \in 2..Len(frames) - 1 /\ h - 1 \in 0..Len(frames) /\ h - 1 \in Nat
    BY <2>1, <2>5, <2>6, <2>7
  <2>10. Len(t) > 0
    <3> HIDE DEF f
    <3>1. IsCut(t, frames, h - 1, f)
      BY <2>2, <2>9, CutOffIs
    <3> HIDE DEF t
    <3> QED
      BY <2>9, <3>1, CutIsLonger
  <2>11. PICK end \in Nat : Aligned(frames, abandoned, overrun, end)
    BY DEF StackIInv
  <2> DEFINE given_up == abandoned \/ overrun
  <2>12. Kept(frames, given_up, end, Root)
    BY <2>11 DEF Aligned
  <2> HIDE DEF given_up
  <2>13. Kept(t, TRUE, end, Root) /\ Shrinks(frames, t)
    BY <2>5, <2>9, <2>12, FailKeeps
  <2> HIDE DEF t
  <2>14. (TRUE \/ overrun) = TRUE
    OBVIOUS
  <2>15. Aligned(t, TRUE, overrun, end)
    BY <2>11, <2>13, <2>14 DEF Aligned
  <2> QED
    BY <2>8, <2>10, <2>13, <2>15 DEF Moved
<1> QED
  BY <1>1, <1>2

(* The end of pb_decode.                                                   *)
LEMMA EndMoves ==
  ASSUME NEW outcome \in {"decoded", "failed", "undefined"}, End(outcome)
  PROVE  Moved
BY DEF End, Moved

(* What Frame makes is a frame.                                            *)
LEMMA FrameIs ==
  ASSUME NEW kind \in {"message", "callback"}, NEW desc, NEW value,
         kind = "message" => desc \in Messages /\ IsMessage(desc, value),
         NEW stream, stream.at \in Nat \ {0}, stream.left \in Nat,
         NEW tag, NEW copy
  PROVE  LET f == Frame(kind, desc, value, stream, tag, copy)
         IN  /\ IsFrame(f)
             /\ f.at = stream.at /\ f.left = stream.left
             /\ f.kind = kind /\ f.desc = desc /\ f.value = value
             /\ f.tag = tag /\ f.copy = copy
<1> DEFINE f == Frame(kind, desc, value, stream, tag, copy)
<1>1. /\ f.at = stream.at /\ f.left = stream.left
      /\ f.kind = kind /\ f.desc = desc /\ f.value = value
      /\ f.tag = tag /\ f.copy = copy /\ f.index = 1
  BY DEF Frame
<1>2. f = [x \in Names |-> f[x]]
  BY DEF Frame, Names
<1> HIDE DEF f
<1>3. Described(f)
  <2>1. desc \in Messages => /\ desc \in DOMAIN FieldList
                             /\ 1 \in DOMAIN FieldList[desc]
    BY OtherLists, ListIs
  <2> QED
    BY <1>1, <2>1 DEF Described
<1>4. IsFrame(f)
  BY <1>1, <1>2, <1>3 DEF IsFrame
<1> QED
  BY <1>1, <1>4 DEF f

(* The frame after its tag was read.                                       *)
LEMMA NextIs ==
  ASSUME StackIInv, status = "busy", Top.left > 0
  PROVE  /\ IsFrame(Here.next) /\ Readable(Here.next)
         /\ Here.next.left < Top.left
         /\ Here.next.at + Here.next.left = Drained(Top)
         /\ \A x \in Names \ {"at", "left"} : Here.next[x] = Top[x]
         /\ Here.tag \in Nat
         /\ SameCall(Here.next, Top)
<1>1. /\ IsFrame(Here.next) /\ Readable(Here.next)
      /\ Here.next.left < Top.left
      /\ Here.next.at + Here.next.left = Drained(Top)
      /\ \A x \in Names \ {"at", "left"} : Here.next[x] = Top[x]
      /\ Here.tag \in Nat
  BY Ready, DecodeTagIs DEF Here, Drained
<1>2. SameCall(Here.next, Top)
  BY <1>1 DEF SameCall, Names
<1> QED
  BY <1>1, <1>2

(* The field a message frame is at, and what its message holds there.      *)
LEMMA FieldIs ==
  ASSUME StackIInv, AtField, Found
  PROVE  /\ status = "busy" /\ Top.left > 0
         /\ Top.kind = "message" /\ Top.desc \in Messages
         /\ Here.tag \in DOMAIN FieldList[Top.desc]
         /\ IsMessage(Top.desc, Top.value)
<1>1. status = "busy" /\ Top.left > 0 /\ Top.kind = "message"
  BY DEF AtField, InMessage
<1>2. /\ Top.desc \in Messages /\ Top.index \in DOMAIN FieldList[Top.desc]
      /\ IsMessage(Top.desc, Top.value)
  <2>1. Described(Top)
    BY <1>1, Ready DEF IsFrame
  <2> QED
    BY <1>1, <2>1, OtherLists DEF Described
<1>3. PICK n \in Nat \ {0} : DOMAIN FieldList[Top.desc] = 1..n
  BY <1>2, ListIs
<1>4. Here.tag \in DOMAIN FieldList[Top.desc]
  <2>1. Here.tag \in 1..Top.index \/ Here.tag \in DOMAIN FieldList[Top.desc]
    BY DEF Found, Searched
  <2> QED
    BY <1>2, <1>3, <2>1
<1> QED
  BY <1>1, <1>2, <1>4

(* The frame after its field was found and noted.                          *)
LEMMA NotedIs ==
  ASSUME StackIInv, AtField, Found
  PROVE  /\ IsFrame(Noted) /\ Readable(Noted)
         /\ Noted.left < Top.left
         /\ Noted.at + Noted.left = Drained(Top)
         /\ \A x \in Names \ {"at", "left", "index", "seen"} :
              Noted[x] = Top[x]
         /\ SameCall(Noted, Top)
<1> DEFINE next == Here.next
           seen == IF IsRequired(TheField)
                        /\ RequiredIndex(Top.desc, Here.tag)
                             < PB_MAX_REQUIRED_FIELDS
                   THEN next.seen \cup {RequiredIndex(Top.desc, Here.tag)}
                   ELSE next.seen
           tag == Here.tag
           g == Noted
<1>1. /\ status = "busy" /\ Top.left > 0 /\ Top.kind = "message"
      /\ Top.desc \in Messages /\ tag \in DOMAIN FieldList[Top.desc]
      /\ IsMessage(Top.desc, Top.value)
  BY FieldIs
<1>2. /\ IsFrame(next) /\ Readable(next) /\ next.left < Top.left
      /\ next.at + next.left = Drained(Top)
      /\ \A x \in Names \ {"at", "left"} : next[x] = Top[x]
  BY <1>1, NextIs
<1>3. next = [x \in Names |-> next[x]]
  BY <1>2 DEF IsFrame
<1>4. g = [next EXCEPT !.index = tag, !.seen = seen]
  <2>1. [next EXCEPT !.index = tag].seen = next.seen
    <3> HIDE DEF next, tag
    <3> QED
      BY <1>3 DEF Names
  <2> QED
    BY <2>1 DEF Noted
<1> HIDE DEF next, seen, tag, g
<1>5. g = [x \in Names |-> IF x = "seen" THEN seen
                           ELSE IF x = "index" THEN tag ELSE next[x]]
  BY <1>3, <1>4 DEF Names
<1>6. /\ g.at = next.at /\ g.left = next.left /\ g.kind = next.kind
      /\ g.index = tag
      /\ g = [x \in Names |-> g[x]]
      /\ \A x \in Names \ {"index", "seen"} : g[x] = next[x]
  BY <1>5 DEF Names
<1>7. IsFrame(g) /\ Readable(g)
  <2>1. g.desc = Top.desc /\ g.value = Top.value
    BY <1>2, <1>6 DEF Names
  <2>2. Described(g)
    BY <1>1, <1>6, <2>1, OtherLists DEF Described
  <2> QED
    BY <1>2, <1>6, <2>2 DEF IsFrame, Readable
<1>8. /\ g.left < Top.left /\ g.at + g.left = Drained(Top)
      /\ \A x \in Names \ {"at", "left", "index", "seen"} : g[x] = Top[x]
  BY <1>2, <1>6
<1>9. SameCall(g, Top)
  BY <1>8 DEF SameCall, Names
<1> QED
  BY <1>7, <1>8, <1>9 DEF g

(* The parent of a stream that was closed.                                 *)
LEMMA ParentIs ==
  ASSUME StackIInv, status = "busy", Len(frames) > 1
  PROVE  /\ IsFrame(Parent)
         /\ IsFrame(Top) /\ Drained(Top) \in Nat \ {0}
<1>1. /\ Len(frames) \in Nat /\ IsStack(frames) /\ IsFrame(Top)
  BY Ready DEF Kept
<1>2. Len(frames) - 1 \in 1..Len(frames)
  BY <1>1
<1>3. IsFrame(Parent)
  BY <1>1, <1>2 DEF IsStack, Parent
<1>4. Drained(Top) \in Nat \ {0}
  BY <1>1 DEF IsFrame, Drained
<1> QED
  BY <1>1, <1>3, <1>4

(* A frame whose pointer was restored.                                     *)
LEMMA MovedTo ==
  ASSUME NEW f, IsFrame(f), NEW at \in Nat \ {0}
  PROVE  LET g == [f EXCEPT !.at = at]
         IN  /\ IsFrame(g) /\ g.at = at /\ g.left = f.left
             /\ \A x \in Names \ {"at"} : g[x] = f[x]
             /\ SameCall(g, f)
<1> DEFINE g == [f EXCEPT !.at = at]
<1>1. g = [x \in Names |-> IF x = "at" THEN at ELSE f[x]]
  BY DEF IsFrame, Names
<1> HIDE DEF g
<1>2. /\ g.at = at /\ g.left = f.left /\ g = [x \in Names |-> g[x]]
      /\ \A x \in Names \ {"at"} : g[x] = f[x]
  BY <1>1 DEF Names
<1>3. SameCall(g, f) /\ g.index = f.index /\ g.value = f.value
  BY <1>2 DEF SameCall, Names
<1>4. IsFrame(g)
  <2>1. Described(g)
    BY <1>3, DescribedToo DEF IsFrame, SameCall
  <2> QED
    BY <1>2, <1>3, <2>1 DEF IsFrame, SameCall
<1> QED
  BY <1>2, <1>3, <1>4 DEF g

(* A frame with another message in it.                                     *)
LEMMA Valued ==
  ASSUME NEW f, IsFrame(f), NEW value,
         f.kind = "message" => IsMessage(f.desc, value)
  PROVE  LET g == [f EXCEPT !.value = value]
         IN  /\ IsFrame(g) /\ g.at = f.at /\ g.left = f.left
             /\ SameCall(g, f)
<1> DEFINE g == [f EXCEPT !.value = value]
<1>1. g = [x \in Names |-> IF x = "value" THEN value ELSE f[x]]
  BY DEF IsFrame, Names
<1> HIDE DEF g
<1>2. /\ g.value = value /\ g = [x \in Names |-> g[x]]
      /\ \A x \in Names \ {"value"} : g[x] = f[x]
  BY <1>1 DEF Names
<1>3. /\ SameCall(g, f) /\ g.index = f.index
      /\ g.at = f.at /\ g.left = f.left
  BY <1>2 DEF SameCall, Names
<1>4. IsFrame(g)
  <2>1. Described(g)
    BY <1>2, <1>3 DEF Described, IsFrame, SameCall
  <2> QED
    BY <1>2, <1>3, <2>1 DEF IsFrame, SameCall
<1> QED
  BY <1>3, <1>4 DEF g

(* pb_skip_field.                                                          *)
LEMMA SkipUnknownMoves ==
  ASSUME StackIInv, SkipUnknown
  PROVE  Moved
<1> DEFINE next == Here.next
           skip == SkipField(next, Here.wire_type)
           f == Advance(next, skip.used)
<1>1. status = "busy" /\ Top.kind = "message" /\ Top.left > 0
  BY DEF SkipUnknown, AtField, InMessage
<1>2. CASE ~skip.ok
  <2>1. Fail
    BY <1>2 DEF SkipUnknown
  <2> QED
    BY <1>1, <2>1, FailMoves
<1>3. CASE skip.ok
  <2>1. Continue(f)
    BY <1>3 DEF SkipUnknown
  <2>2. /\ IsFrame(next) /\ Readable(next) /\ next.left < Top.left
        /\ next.at + next.left = Drained(Top)
        /\ \A x \in Names \ {"at", "left"} : next[x] = Top[x]
    BY <1>1, NextIs
  <2>3. BytesOK /\ IsFrame(Top)
    BY <1>1, Ready
  <2> HIDE DEF next
  <2>4. skip.used \in 0..next.left
    BY <1>3, <2>2, <2>3, SkipFieldIs
  <2> HIDE DEF skip
  <2>5. /\ IsFrame(f) /\ f.at = next.at + skip.used
        /\ f.left = next.left - skip.used
        /\ \A x \in Names \ {"at", "left"} : f[x] = next[x]
    BY <2>2, <2>4, AdvanceIs
  <2> HIDE DEF f
  <2>6. SameCall(f, Top)
    BY <2>2, <2>5 DEF SameCall, Names
  <2>7. next.at \in Nat /\ next.left \in Nat /\ Top.left \in Nat
    BY <2>2, <2>3 DEF IsFrame
  <2>8. f.at + f.left = Drained(Top) /\ f.left < Top.left
    BY <2>2, <2>4, <2>5, <2>7
  <2> QED
    BY <1>1, <2>1, <2>5, <2>6, <2>8, ContinueMoves
<1> QED
  BY <1>2, <1>3

(* The steps that only fail.                                               *)
LEMMA ErrorMoves ==
  ASSUME StackIInv, BadTag \/ MissingField \/ VectorRefused
  PROVE  Moved
<1>1. status = "busy" /\ Top.kind = "message" /\ Fail
  BY DEF BadTag, MissingField, VectorRefused, AtVectorEnd, AtCompleteEnd,
         AtEnd, InMessage
<1> QED
  BY <1>1, FailMoves

(* decode_basic_field.                                                     *)
LEMMA DecodeStaticMoves ==
  ASSUME StackIInv, DecodeStatic
  PROVE  Moved
<1> DEFINE tag == Here.tag
           field == FieldList[Top.desc][tag]
           v == DecodeBasic(Noted, TheField, Here.wire_type)
           g == Advance(Noted, v.used)
           value == [g.value EXCEPT ![tag] = v.value]
           f == [g EXCEPT !.value = value]
<1>1. AtField /\ Found /\ TheField = field /\ field.ltype # "SUBMESSAGE"
  BY DEF DecodeStatic, TheField
<1>2. /\ status = "busy" /\ Top.left > 0
      /\ Top.kind = "message" /\ Top.desc \in Messages
      /\ tag \in DOMAIN FieldList[Top.desc]
      /\ IsMessage(Top.desc, Top.value)
  BY <1>1, FieldIs
<1>3. /\ IsFrame(Noted) /\ Readable(Noted) /\ Noted.left < Top.left
      /\ Noted.at + Noted.left = Drained(Top) /\ SameCall(Noted, Top)
      /\ Noted.value = Top.value
  BY <1>1, NotedIs DEF Names
<1>4. CASE ~v.ok
  <2>1. Fail
    BY <1>4 DEF DecodeStatic
  <2> QED
    BY <1>2, <2>1, FailMoves
<1>5. CASE v.ok
  <2>1. Continue([g EXCEPT !.value[tag] = v.value])
    BY <1>5 DEF DecodeStatic
  <2>2. Continue(f)
    BY <2>1
  <2>3. BytesOK /\ IsFrame(Top)
    BY <1>2, Ready
  <2>4. ~IsSubmessage(field) /\ IsPlain(field)
    BY <1>1, <1>2, Nesting DEF IsSubmessage
  <2>5. v.used \in 0..Noted.left /\ IsValue(field, v.value)
    BY <1>1, <1>3, <1>5, <2>3, <2>4, DecodeBasicIs
  <2> HIDE DEF v
  <2>6. /\ IsFrame(g) /\ g.at = Noted.at + v.used
        /\ g.left = Noted.left - v.used
        /\ \A x \in Names \ {"at", "left"} : g[x] = Noted[x]
    BY <1>3, <2>5, AdvanceIs
  <2> HIDE DEF g
  <2>7. SameCall(g, Top) /\ g.value = Top.value
    BY <1>3, <2>6 DEF SameCall, Names
  <2>8. IsMessage(Top.desc, value)
    <3>1. Holds(field, v.value)
      BY <2>4, <2>5 DEF Holds
    <3> HIDE DEF tag
    <3> QED
      BY <1>2, <2>7, <3>1, FieldPut
  <2> HIDE DEF value
  <2>9. /\ IsFrame(f) /\ f.at = g.at /\ f.left = g.left /\ SameCall(f, g)
    BY <2>6, <2>7, <2>8, Valued DEF SameCall
  <2> HIDE DEF f
  <2>10. SameCall(f, Top)
    BY <2>7, <2>9 DEF SameCall
  <2>11. Noted.at \in Nat /\ Noted.left \in Nat /\ Top.left \in Nat
    BY <1>3, <2>3 DEF IsFrame
  <2>12. f.at + f.left = Drained(Top) /\ f.left < Top.left
    <3>1. f.at = Noted.at + v.used /\ f.left = Noted.left - v.used
      BY <2>6, <2>9
    <3> QED
      BY <1>3, <2>5, <2>11, <3>1
  <2> QED
    BY <1>2, <2>2, <2>9, <2>10, <2>12, ContinueMoves
<1> QED
  BY <1>4, <1>5

(* A call on the bytes a frame gives away.                                 *)
LEMMA OpeningMoves ==
  ASSUME StackIInv, status = "busy",
         NEW g, IsFrame(g), SameCall(g, Top), g.left < Top.left,
         g.at + g.left = Drained(Top),
         NEW f, IsFrame(f), \A x \in Names \ {"at", "left"} : f[x] = g[x],
         NEW kind \in {"message", "callback"}, NEW desc, NEW value, NEW stream,
         NEW tag, NEW copy,
         kind = "message" => desc \in Messages /\ IsMessage(desc, value),
         Level(kind, desc) = Level(Top.kind, Top.desc) + 1,
         stream.at \in Nat \ {0}, stream.left \in Nat,
         stream.at + f.left + stream.left = Drained(Top),
         f.left + stream.left <= g.left,
         copy => f.at + f.left = Drained(Top),
         f.at + f.left <= Drained(Top),
         kind = "message" =>
           IF Top.kind = "message"
           THEN /\ tag \in DOMAIN FieldList[Top.desc]
                /\ IsSubmessage(FieldList[Top.desc][tag])
                /\ FieldList[Top.desc][tag].submsg_desc = desc
           ELSE Top.desc = "Vector" => desc = "Vector",
         Call(f, Frame(kind, desc, value, stream, tag, copy))
  PROVE  Moved
<1> DEFINE c == Frame(kind, desc, value, stream, tag, copy)
<1>1. /\ IsFrame(c) /\ c.at = stream.at /\ c.left = stream.left
      /\ c.kind = kind /\ c.desc = desc /\ c.tag = tag /\ c.copy = copy
  BY FrameIs
<1>2. SameCall(f, Top)
  BY DEF SameCall, Names
<1>3. Decodes(c, f)
  BY <1>1, <1>2 DEF Decodes, Nested, SameCall
<1> HIDE DEF c
<1>4. IsFrame(Top)
  BY Ready
<1>5. f.left \in Nat /\ c.left \in Nat /\ g.left \in Nat /\ Top.left \in Nat
  BY <1>1, <1>4 DEF IsFrame
<1>6. f.left < Top.left
  BY <1>1, <1>5
<1>7. Call(f, c)
  BY DEF c
<1> QED
  BY <1>1, <1>2, <1>3, <1>6, <1>7, CallMoves

(* pb_dec_submessage.                                                      *)
LEMMA OpenSubmessageMoves ==
  ASSUME StackIInv, OpenSubmessage
  PROVE  Moved
<1> DEFINE tag == Here.tag
           field == FieldList[Top.desc][tag]
           sub == Substream(Noted)
           desc == field.submsg_desc
           value == Top.value[tag]
<1>1. AtField /\ Found /\ TheField = field /\ IsSubmessage(field)
  BY DEF OpenSubmessage, TheField, IsSubmessage
<1>2. /\ status = "busy" /\ Top.left > 0
      /\ Top.kind = "message" /\ Top.desc \in Messages
      /\ tag \in DOMAIN FieldList[Top.desc]
      /\ IsMessage(Top.desc, Top.value)
  BY <1>1, FieldIs
<1>3. /\ IsFrame(Noted) /\ Readable(Noted) /\ Noted.left < Top.left
      /\ Noted.at + Noted.left = Drained(Top) /\ SameCall(Noted, Top)
  BY <1>1, NotedIs
<1>4. CASE ~(Here.wire_type = 2 /\ sub.ok)
  <2>1. Fail
    BY <1>4 DEF OpenSubmessage
  <2> QED
    BY <1>2, <2>1, FailMoves
<1>5. CASE Here.wire_type = 2 /\ sub.ok
  <2>1. Call(sub.parent, Frame("message", desc, value, sub.stream, tag, FALSE))
    BY <1>1, <1>5 DEF OpenSubmessage
  <2>2. BytesOK
    BY <1>2, Ready
  <2>3. /\ sub.stream.at \in Nat \ {0} /\ sub.stream.left \in Nat
        /\ IsFrame(sub.parent) /\ sub.parent.at = sub.stream.at
        /\ sub.parent.left + sub.stream.left <= Noted.left
        /\ sub.parent.at + sub.parent.left + sub.stream.left = Drained(Top)
        /\ \A x \in Names \ {"at", "left"} : sub.parent[x] = Noted[x]
    BY <1>3, <1>5, <2>2, SubstreamIs
  <2>4. desc \in Messages /\ IsMessage(desc, value)
    <3>1. Holds(field, value)
      BY <1>2, FieldTaken
    <3>2. desc \in Parts \cup {"HomeParam"}
      BY <1>1, <1>2, Nesting
    <3> QED
      BY <1>1, <3>1, <3>2 DEF Holds, Messages, Leaves, Parts
  <2>5. sub.parent.at + sub.parent.left <= Drained(Top)
    <3>1. sub.parent.at \in Nat /\ sub.parent.left \in Nat
      BY <2>3 DEF IsFrame
    <3> QED
      BY <2>3, <3>1
  <2>6. sub.stream.at + sub.parent.left + sub.stream.left = Drained(Top)
    BY <2>3
  <2>7. /\ tag \in DOMAIN FieldList[Top.desc]
        /\ IsSubmessage(FieldList[Top.desc][tag])
        /\ FieldList[Top.desc][tag].submsg_desc = desc
    BY <1>1, <1>2
  <2>8. Level("message", desc) = Level(Top.kind, Top.desc) + 1
    <3>1. \/ Top.desc = "Setting" /\ desc \in Parts
          \/ Top.desc = "ZDT" /\ desc = "HomeParam"
      BY <1>1, <1>2, Nesting
    <3> HIDE DEF desc
    <3> QED
      BY <1>2, <3>1 DEF Level, Parts
  <2> DEFINE f == sub.parent
             stream == sub.stream
  <2> HIDE DEF sub, value, desc, tag, f, stream
  <2> QED
    BY <1>2, <1>3, <2>1, <2>3, <2>4, <2>5, <2>6, <2>7, <2>8, OpeningMoves
       DEF f, stream
<1> QED
  BY <1>4, <1>5

(* decode_callback_field, with the bytes or with a copy of a scalar.       *)
LEMMA OpenCallbackMoves ==
  ASSUME StackIInv, OpenCallback
  PROVE  Moved
<1> DEFINE copy == Here.wire_type # 2
           sub == IF copy THEN RawValue(Noted, Here.wire_type)
                  ELSE Substream(Noted)
           desc == TheField.submsg_desc
           tag == Here.tag
<1>1. AtField /\ Found
  BY DEF OpenCallback
<1>2. status = "busy" /\ Top.kind = "message"
  BY <1>1, FieldIs
<1>3. Level("callback", desc) = Level(Top.kind, Top.desc) + 1
  <2>1. /\ Top.desc \in Messages /\ tag \in DOMAIN FieldList[Top.desc]
        /\ FieldList[Top.desc][tag].atype = "CALLBACK"
        /\ FieldList[Top.desc][tag].submsg_desc = desc
    BY <1>1, FieldIs DEF OpenCallback, TheField
  <2>2. \/ Top.desc = "Payload" /\ desc = "Message"
        \/ Top.desc = "LinearCmd" /\ desc = "Vector"
    BY <2>1, Nesting
  <2> HIDE DEF desc
  <2> QED
    BY <1>2, <2>2 DEF Level, Parts
<1>4. /\ IsFrame(Noted) /\ Readable(Noted) /\ Noted.left < Top.left
      /\ Noted.at + Noted.left = Drained(Top) /\ SameCall(Noted, Top)
  BY <1>1, NotedIs
<1>5. CASE ~sub.ok
  <2>1. Fail
    BY <1>5 DEF OpenCallback
  <2> QED
    BY <1>2, <2>1, FailMoves
<1>6. CASE sub.ok
  <2>1. Call(sub.parent, Frame("callback", desc, <<>>, sub.stream, tag, copy))
    BY <1>6 DEF OpenCallback
  <2>2. BytesOK
    BY <1>2, Ready
  <2> DEFINE f == sub.parent
             stream == sub.stream
  <2>3. /\ stream.at \in Nat \ {0} /\ stream.left \in Nat
        /\ IsFrame(f)
        /\ \A x \in Names \ {"at", "left"} : f[x] = Noted[x]
        /\ f.left + stream.left <= Noted.left
        /\ stream.at + f.left + stream.left = Drained(Top)
        /\ copy => f.at + f.left = Drained(Top)
        /\ f.at + f.left <= Drained(Top)
    <3>1. CASE copy
      <4> DEFINE skip == SkipField(Noted, Here.wire_type)
                 raw == RawValue(Noted, Here.wire_type)
                 n == skip.used
      <4>1. sub = raw
        BY <3>1
      <4>2. raw = [ok |-> skip.ok /\ n <= 10,
                   stream |-> [at |-> Noted.at, left |-> n],
                   parent |-> Advance(Noted, n)]
        BY DEF RawValue
      <4>3. skip.ok
        <5> HIDE DEF raw, skip, n
        <5>1. raw.ok
          BY <1>6, <4>1
        <5> QED
          BY <4>2, <5>1
      <4>4. n \in 0..Noted.left
        BY <1>4, <2>2, <4>3, SkipFieldIs
      <4> HIDE DEF skip, n, raw
      <4>5. f = Advance(Noted, n) /\ stream.at = Noted.at /\ stream.left = n
        BY <4>1, <4>2
      <4> HIDE DEF f, stream
      <4>6. /\ IsFrame(f) /\ f.at = Noted.at + n /\ f.left = Noted.left - n
            /\ \A x \in Names \ {"at", "left"} : f[x] = Noted[x]
        BY <1>4, <4>4, <4>5, AdvanceIs
      <4>7. Noted.at \in Nat \ {0} /\ Noted.left \in Nat
        BY <1>4 DEF IsFrame
      <4>8. /\ f.left + stream.left <= Noted.left
            /\ stream.at + f.left + stream.left = Drained(Top)
            /\ f.at + f.left = Drained(Top)
        BY <1>4, <4>4, <4>5, <4>6, <4>7
      <4>9. f.at + f.left <= Drained(Top) /\ stream.left \in Nat
        BY <1>4, <4>4, <4>5, <4>7, <4>8
      <4> QED
        BY <4>5, <4>6, <4>7, <4>8, <4>9
    <3>2. CASE ~copy
      <4>1. sub = Substream(Noted)
        BY <3>2
      <4>2. /\ stream.at \in Nat \ {0} /\ stream.left \in Nat
            /\ IsFrame(f) /\ f.at = stream.at
            /\ f.left + stream.left <= Noted.left
            /\ f.at + f.left + stream.left = Drained(Top)
            /\ \A x \in Names \ {"at", "left"} : f[x] = Noted[x]
        BY <1>4, <1>6, <2>2, <4>1, SubstreamIs
      <4> HIDE DEF f, stream, copy
      <4>3. f.at + f.left <= Drained(Top)
        <5>1. f.at \in Nat /\ f.left \in Nat
          BY <4>2 DEF IsFrame
        <5> QED
          BY <4>2, <5>1
      <4> QED
        BY <3>2, <4>2, <4>3
    <3> QED
      BY <3>1, <3>2
  <2> HIDE DEF sub, desc, tag, f, stream, copy
  <2> QED
    BY <1>2, <1>4, <1>3, <2>1, <2>3, OpeningMoves DEF f, stream
<1> QED
  BY <1>5, <1>6

-----------------------------------------------------------------------------
(* A call that ends leaves the stream of the one below where it ended.     *)
LEMMA ClosingMoves ==
  ASSUME StackIInv, status = "busy", Len(frames) > 1,
         Return([Parent EXCEPT !.at = Drained(Top)])
  PROVE  Moved
<1> DEFINE at == Drained(Top)
           f == [Parent EXCEPT !.at = at]
<1>1. IsFrame(Parent) /\ at \in Nat \ {0}
  BY ParentIs
<1>2. Return(f)
  OBVIOUS
<1> HIDE DEF at
<1>3. IsFrame(f) /\ f.at = at /\ f.left = Parent.left /\ SameCall(f, Parent)
  BY <1>1, MovedTo
<1> HIDE DEF f
<1> QED
  BY <1>2, <1>3, ReturnMoves DEF at

(* The end of pb_dec_submessage puts a message into its field.             *)
LEMMA CloseSubmessageMoves ==
  ASSUME StackIInv, CloseSubmessage
  PROVE  Moved
<1> DEFINE at == Drained(Top)
           g == [Parent EXCEPT !.at = at]
           value == [g.value EXCEPT ![Top.tag] = Top.value]
           f == [g EXCEPT !.value = value]
<1>1. /\ status = "busy" /\ Top.kind = "message" /\ Len(frames) > 1
      /\ Parent.kind = "message"
      /\ Return([Parent EXCEPT !.at = at, !.value[Top.tag] = Top.value])
  BY DEF CloseSubmessage, AtCompleteEnd, AtEnd, InMessage
<1>2. IsFrame(Parent) /\ IsFrame(Top) /\ at \in Nat \ {0}
  BY <1>1, ParentIs
<1>3. Decodes(Top, Parent)
  BY <1>1, Ready
<1>4. Return(f)
  BY <1>1
<1> HIDE DEF at
<1>5. IsFrame(g) /\ g.at = at /\ g.left = Parent.left /\ SameCall(g, Parent)
      /\ g.value = Parent.value
  BY <1>2, MovedTo DEF Names
<1> HIDE DEF g
<1>6. IsMessage(Parent.desc, value)
  <2>1. /\ Parent.desc \in Messages /\ IsMessage(Parent.desc, Parent.value)
        /\ IsMessage(Top.desc, Top.value)
    BY <1>1, <1>2, OtherLists DEF IsFrame, Described
  <2>2. /\ Top.tag \in DOMAIN FieldList[Parent.desc]
        /\ Holds(FieldList[Parent.desc][Top.tag], Top.value)
    BY <1>1, <1>3, <2>1 DEF Decodes, Holds
  <2> DEFINE t == Top.tag
             x == Top.value
  <2> HIDE DEF t, x
  <2> QED
    BY <1>5, <2>1, <2>2, FieldPut
<1> HIDE DEF value
<1>7. IsFrame(f) /\ f.at = g.at /\ f.left = g.left /\ SameCall(f, g)
  BY <1>5, <1>6, Valued DEF SameCall
<1> HIDE DEF f
<1>8. SameCall(f, Parent)
  BY <1>5, <1>7 DEF SameCall
<1> QED
  BY <1>1, <1>4, <1>5, <1>7, <1>8, ReturnMoves DEF at

(* The ends of the decodes in callbacks.                                   *)
LEMMA CloseLinearCmdMoves ==
  ASSUME StackIInv, CloseLinearCmd \/ SendVector
  PROVE  Moved
<1>1. /\ status = "busy" /\ Len(frames) > 1
      /\ Return([Parent EXCEPT !.at = Drained(Top)])
  BY DEF CloseLinearCmd, SendVector, AtVectorEnd, AtCompleteEnd, AtEnd,
         InMessage
<1> QED
  BY <1>1, ClosingMoves

(* A copy's parent is past it already.                                     *)
LEMMA CopyClosed ==
  ASSUME StackIInv, status = "busy", Len(frames) > 1, Top.copy, Return(Parent)
  PROVE  Moved
<1>1. IsFrame(Parent)
  BY ParentIs
<1>2. SameCall(Parent, Parent)
  BY DEF SameCall
<1> QED
  BY <1>1, <1>2, ReturnMoves

(* A callback has a caller.                                                *)
LEMMA Below ==
  ASSUME StackIInv, status = "busy", Top.kind = "callback"
  PROVE  Len(frames) > 1
<1>1. /\ Len(frames) \in Nat /\ Len(frames) > 0
      /\ Len(frames) = 1 => Top.kind = "message"
  BY Ready
<1> DEFINE n == Len(frames)
<1>2. n \in Nat /\ n > 0 /\ n # 1
  BY <1>1
<1> HIDE DEF n
<1>3. n > 1
  BY <1>2
<1> QED
  BY <1>3 DEF n

(* The end of a callback.                                                  *)
LEMMA CloseCallbackMoves ==
  ASSUME StackIInv, CloseCallback
  PROVE  Moved
<1>1. status = "busy" /\ Top.kind = "callback"
  BY DEF CloseCallback
<1>2. Len(frames) > 1
  BY <1>1, Below
<1>3. CASE Top.copy
  <2>1. Return(Parent)
    BY <1>3 DEF CloseCallback
  <2> QED
    BY <1>1, <1>2, <1>3, <2>1, CopyClosed
<1>4. CASE ~Top.copy
  <2>1. Return([Parent EXCEPT !.at = Drained(Top)])
    BY <1>4 DEF CloseCallback
  <2> QED
    BY <1>1, <1>2, <2>1, ClosingMoves
<1> QED
  BY <1>3, <1>4

(* A callback that finds no LinearCmd is called again, after the tag.      *)
LEMMA OtherMessageMoves ==
  ASSUME StackIInv, OtherMessage
  PROVE  Moved
<1>1. status = "busy" /\ Top.kind = "callback" /\ Top.left > 0
  BY DEF OtherMessage, InCallback
<1>2. Len(frames) > 1
  BY <1>1, Below
<1>3. CASE Top.copy
  <2>1. Return(Parent)
    BY <1>3 DEF OtherMessage
  <2> QED
    BY <1>1, <1>2, <1>3, <2>1, CopyClosed
<1>4. CASE ~Top.copy
  <2> DEFINE f == Here.next
  <2>1. Continue(f)
    BY <1>4 DEF OtherMessage
  <2>2. IsFrame(f) /\ f.left < Top.left /\ f.at + f.left = Drained(Top)
        /\ SameCall(f, Top)
    BY <1>1, NextIs
  <2> HIDE DEF f
  <2> QED
    BY <1>1, <2>1, <2>2, ContinueMoves
<1> QED
  BY <1>3, <1>4

(* handy_task decodes a LinearCmd.                                         *)
LEMMA OpenLinearCmdMoves ==
  ASSUME StackIInv, OpenLinearCmd
  PROVE  Moved
<1> DEFINE next == Here.next
           sub == Substream(next)
           value == InitZero("LinearCmd")
<1>1. /\ status = "busy" /\ Top.left > 0
      /\ Top.kind = "callback" /\ Top.desc = "Message"
  BY DEF OpenLinearCmd, InCallback
<1>2. /\ IsFrame(next) /\ Readable(next) /\ next.left < Top.left
      /\ next.at + next.left = Drained(Top) /\ SameCall(next, Top)
  BY <1>1, NextIs
<1>3. CASE End("undefined")
  BY <1>3, EndMoves
<1> DEFINE level == Level("message", "LinearCmd")
<1>4. level = Level(Top.kind, Top.desc) + 1
  BY <1>1 DEF Level, Parts
<1>5. BytesOK
  BY <1>1, Ready
<1>6. CASE sub.ok /\ Call(sub.parent, Frame("message", "LinearCmd", value,
                                           sub.stream, 0, FALSE))
  <2>1. Call(sub.parent,
             Frame("message", "LinearCmd", value, sub.stream, 0, FALSE))
    BY <1>6
  <2>3. /\ sub.stream.at \in Nat \ {0} /\ sub.stream.left \in Nat
        /\ IsFrame(sub.parent) /\ sub.parent.at = sub.stream.at
        /\ sub.parent.left + sub.stream.left <= next.left
        /\ sub.parent.at + sub.parent.left + sub.stream.left = Drained(Top)
        /\ \A x \in Names \ {"at", "left"} : sub.parent[x] = next[x]
    BY <1>2, <1>6, <1>5, SubstreamIs
  <2>4. "LinearCmd" \in Messages /\ IsMessage("LinearCmd", value)
    BY ZeroMessage DEF Messages, Leaves
  <2> DEFINE f == sub.parent
             stream == sub.stream
  <2>5. f.at + f.left <= Drained(Top)
    <3>1. f.at \in Nat /\ f.left \in Nat
      BY <2>3 DEF IsFrame
    <3> QED
      BY <2>3, <3>1
  <2>6. stream.at + f.left + stream.left = Drained(Top)
    BY <2>3
  <2> HIDE DEF sub, value, next, f, stream
  <2> QED
    BY <1>1, <1>2, <1>4, <2>1, <2>3, <2>4, <2>5, <2>6, OpeningMoves
       DEF f, stream
<1> DEFINE rest == AfterLength(next)
           copy == FALSE
           g == Frame("message", "LinearCmd", value, rest, 0, copy)
<1>7. CASE Push(rest, g) /\ overrun' = TRUE
  <2> DEFINE used == Varint32(next).used
  <2>1. used \in 0..next.left
    BY <1>2, <1>5, Varint32Is DEF IsRead
  <2>2. rest = Advance(next, used)
    BY DEF AfterLength
  <2> HIDE DEF used, next
  <2>3. /\ IsFrame(rest) /\ rest.at = next.at + used
        /\ rest.left = next.left - used
        /\ \A x \in Names \ {"at", "left"} : rest[x] = next[x]
    BY <1>2, <2>1, <2>2, AdvanceIs
  <2> HIDE DEF rest
  <2>4. IsFrame(Top)
    BY <1>1, Ready
  <2>5. /\ next.at \in Nat /\ next.left \in Nat /\ Top.left \in Nat
        /\ rest.at \in Nat \ {0} /\ rest.left \in Nat
    BY <1>2, <2>3, <2>4 DEF IsFrame
  <2>6. rest.at + rest.left <= Drained(Top) /\ rest.left < Top.left
    BY <1>2, <2>1, <2>3, <2>5
  <2>7. SameCall(rest, Top)
    BY <1>2, <2>3 DEF SameCall, Names
  <2>8. "LinearCmd" \in Messages /\ IsMessage("LinearCmd", value)
    BY ZeroMessage DEF Messages, Leaves
  <2> HIDE DEF value, copy
  <2>9. IsFrame(g) /\ g.kind = "message" /\ g.desc = "LinearCmd"
    BY <2>5, <2>8, FrameIs
  <2> HIDE DEF g
  <2>10. Decodes(g, rest)
    BY <1>1, <1>4, <2>7, <2>9 DEF Decodes, Nested, SameCall
  <2> QED
    BY <1>1, <1>7, <2>3, <2>6, <2>7, <2>9, <2>10, OverrunMoves
<1>8. \/ End("undefined")
      \/ sub.ok /\ Call(sub.parent, Frame("message", "LinearCmd", value,
                                           sub.stream, 0, FALSE))
      \/ Push(rest, g) /\ overrun' = TRUE
  BY DEF OpenLinearCmd
<1> QED
  BY <1>3, <1>6, <1>7, <1>8

(* handy_task decodes a Vector, in the stream of its callback.             *)
LEMMA OpenVectorMoves ==
  ASSUME StackIInv, OpenVector
  PROVE  Moved
<1> DEFINE last == Top
           f == [last EXCEPT !.left = 0]
           value == InitZero("Vector")
           copy == FALSE
           g == Frame("message", "Vector", value, last, 0, copy)
<1>1. /\ status = "busy" /\ last.left > 0 /\ last.kind = "callback"
      /\ last.desc = "Vector" /\ Call(f, g)
  BY DEF OpenVector, InCallback
<1>2. IsFrame(last)
  BY <1>1, Ready
<1>3. last.at \in Nat \ {0} /\ last.left \in Nat
  BY <1>2 DEF IsFrame
<1>4. "Vector" \in Messages /\ IsMessage("Vector", value)
  BY ZeroMessage DEF Messages, Leaves
<1> HIDE DEF value, last
<1>5. /\ IsFrame(g) /\ g.at = last.at /\ g.left = last.left
      /\ g.kind = "message" /\ g.desc = "Vector" /\ g.copy = FALSE
  <2> HIDE DEF copy
  <2>1. /\ IsFrame(g) /\ g.at = last.at /\ g.left = last.left
        /\ g.kind = "message" /\ g.desc = "Vector" /\ g.copy = copy
    BY <1>3, <1>4, FrameIs
  <2> QED
    BY <2>1 DEF copy
<1>6. f = [x \in Names |-> IF x = "left" THEN 0 ELSE last[x]]
  BY <1>2 DEF IsFrame, Names
<1> HIDE DEF f, g
<1>7. /\ f.left = 0 /\ f.at = last.at /\ SameCall(f, last)
      /\ f = [x \in Names |-> f[x]]
  BY <1>6 DEF Names, SameCall
<1>8. IsFrame(f)
  BY <1>1, <1>3, <1>7 DEF IsFrame, SameCall, Described
<1>9. Decodes(g, f)
  <2>1. Level("message", "Vector") = Level("callback", "Vector") + 1
    BY DEF Level, Parts
  <2> QED
    BY <1>1, <1>5, <1>7, <2>1 DEF Decodes, Nested, SameCall
<1>10. /\ f.at + f.left <= Drained(last)
       /\ g.at + f.left + g.left = Drained(last)
  BY <1>3, <1>5, <1>7 DEF Drained
<1> QED
  BY <1>1, <1>5, <1>7, <1>8, <1>9, <1>10, CallMoves DEF last

-----------------------------------------------------------------------------
(* The theorems of the decoder.                                            *)

(* Its other half: the values.                                             *)
Values ==
  /\ status = "decoded" => IsMessage(Root, result)
  /\ IsSeq(sent)
  /\ \A i \in 1..Len(sent) : IsMessage("Vector", sent[i])
(* Both.                                                                   *)
DecoderIInv == StackIInv /\ Values

(* A step of pb_decode or of a callback.                                   *)
Decoding ==
  \/ BadTag \/ SkipUnknown \/ DecodeStatic \/ OpenSubmessage \/ OpenCallback
  \/ MissingField \/ Decoded \/ CloseSubmessage
  \/ OtherMessage \/ OpenLinearCmd \/ CloseLinearCmd
  \/ OpenVector \/ SendVector \/ VectorRefused \/ CloseCallback

(* Every step of the decoder moves on.                                     *)
LEMMA DecodingMoves ==
  ASSUME StackIInv, Decoding
  PROVE  Moved /\ UNCHANGED <<input, length>>
<1>1. ASSUME Decoded PROVE Moved
  BY <1>1, EndMoves DEF Decoded
<1>2. Moved
  BY <1>1, ErrorMoves, SkipUnknownMoves, DecodeStaticMoves,
     OpenSubmessageMoves, OpenCallbackMoves, CloseSubmessageMoves,
     OtherMessageMoves, OpenLinearCmdMoves, CloseLinearCmdMoves,
     OpenVectorMoves, CloseCallbackMoves DEF Decoding
<1>3. UNCHANGED <<input, length>>
  BY DEF Decoding, BadTag, SkipUnknown, DecodeStatic, OpenSubmessage,
         OpenCallback, MissingField, Decoded, CloseSubmessage, OtherMessage,
         OpenLinearCmd, CloseLinearCmd, OpenVector, SendVector,
         VectorRefused, CloseCallback
<1> QED
  BY <1>2, <1>3

(* No frames.                                                              *)
LEMMA EmptyKept ==
  ASSUME NEW given_up, NEW end, NEW root
  PROVE  Kept(<<>>, given_up, end, root) /\ Len(<<>>) = 0
<1>1. Len(<<>>) = 0 /\ IsSeq(<<>>)
  BY DEF IsSeq
<1>2. \A i \in 1..0 : FALSE
  OBVIOUS
<1>3. \A i \in 2..0 : FALSE
  OBVIOUS
<1> QED
  BY <1>1, <1>2, <1>3 DEF Kept, IsStack

(* The invariant of the stack when no call is active.                      *)
LEMMA EmptyKeeps ==
  ASSUME BytesOK', input'.cuts \subseteq 0..Len(input'.bytes),
         status' # "busy", frames' = <<>>
  PROVE  StackIInv'
<1>1. PICK end \in Nat : end = length' + 1
  <2>1. input'.bytes \in Seq(0..255) /\ length' \in 0..Len(input'.bytes)
    BY DEF BytesOK
  <2>2. length' \in Nat
    BY <2>1
  <2>3. length' + 1 \in Nat
    BY <2>2
  <2> QED
    BY <2>3
<1>2. ASSUME NEW given_up
      PROVE  Kept(frames', given_up, end, Root') /\ Len(frames') = 0
  BY EmptyKept
<1> QED
  BY <1>1, <1>2 DEF StackIInv, Aligned

(* A step that moves on keeps the invariant of the stack.                  *)
LEMMA MovedKeeps ==
  ASSUME StackIInv, Moved, UNCHANGED <<input, length>>
  PROVE  StackIInv'
<1>1. BytesOK' /\ (input.cuts \subseteq 0..Len(input.bytes))'
  BY DEF StackIInv, BytesOK
<1>2. Root' = Root /\ length' = length
  BY DEF Root
<1>3. CASE status' # "busy" /\ frames' = <<>>
  BY <1>1, <1>3, EmptyKeeps
<1>4. CASE ~(status' # "busy" /\ frames' = <<>>)
  <2>1. /\ status' = "busy" /\ Len(frames') > 0
        /\ \E end \in Nat : Aligned(frames', abandoned', overrun', end)
    BY <1>4 DEF Moved
  <2> QED
    BY <1>1, <1>2, <2>1 DEF StackIInv, Aligned
<1> QED
  BY <1>3, <1>4

(* No step but the last says "decoded".                                    *)
LEMMA NotYet ==
  ASSUME status = "busy", Decoding, status' = "decoded"
  PROVE  Decoded
<1>1. ASSUME Fail PROVE status' # "decoded"
  BY <1>1 DEF Fail, End
<1>2. ASSUME NEW f, Continue(f) \/ Return(f) PROVE status' # "decoded"
  BY <1>2 DEF Continue, Return
<1>3. ASSUME NEW f, NEW g, Call(f, g) PROVE status' # "decoded"
  BY <1>3 DEF Call, Push
<1>4. ASSUME BadTag \/ MissingField \/ VectorRefused PROVE FALSE
  BY <1>1, <1>4 DEF BadTag, MissingField, VectorRefused
<1>5. ASSUME SkipUnknown \/ DecodeStatic PROVE FALSE
  BY <1>1, <1>2, <1>5 DEF SkipUnknown, DecodeStatic
<1>6. ASSUME OpenSubmessage \/ OpenCallback \/ OpenVector PROVE FALSE
  BY <1>1, <1>3, <1>6 DEF OpenSubmessage, OpenCallback, OpenVector
<1>7. ASSUME OpenLinearCmd PROVE FALSE
  BY <1>3, <1>7 DEF OpenLinearCmd, Push, End
<1>8. ASSUME \/ CloseSubmessage \/ OtherMessage \/ CloseLinearCmd
             \/ SendVector \/ CloseCallback
      PROVE  FALSE
  BY <1>2, <1>8 DEF CloseSubmessage, OtherMessage, CloseLinearCmd, SendVector,
                    CloseCallback
<1> QED
  BY <1>4, <1>5, <1>6, <1>7, <1>8 DEF Decoding

(* The steps of the decoder are taken while pb_decode runs.                *)
LEMMA IsBusy ==
  ASSUME Decoding
  PROVE  status = "busy"
BY DEF Decoding, BadTag, SkipUnknown, DecodeStatic, OpenSubmessage,
       OpenCallback, MissingField, Decoded, CloseSubmessage, OtherMessage,
       OpenLinearCmd, CloseLinearCmd, OpenVector, SendVector,
       VectorRefused, CloseCallback, AtField, AtVectorEnd, AtCompleteEnd,
       AtEnd, InMessage, InCallback

(* A vector that is sent is a Vector.                                      *)
LEMMA VectorSent ==
  ASSUME DecoderIInv, SendVector
  PROVE  IsSeq(sent') /\ \A i \in 1..Len(sent') : IsMessage("Vector", sent'[i])
<1>1. /\ status = "busy" /\ Top.kind = "message" /\ Len(frames) > 1
      /\ Parent.kind = "callback" /\ Parent.desc = "Vector"
  BY DEF SendVector, AtVectorEnd, AtCompleteEnd, AtEnd, InMessage
<1>2. Decodes(Top, Parent) /\ IsFrame(Top)
  BY <1>1, Ready DEF DecoderIInv
<1>3. IsMessage("Vector", Top.value)
  <2>1. Top.desc = "Vector"
    BY <1>1, <1>2 DEF Decodes
  <2> QED
    BY <1>1, <1>2, <2>1 DEF IsFrame, Described
<1> DEFINE s == sent
           x == Top.value
           t == Append(s, x)
<1>4. IsSeq(s) /\ \A i \in 1..Len(s) : IsMessage("Vector", s[i])
  BY DEF DecoderIInv, Values
<1>5. sent' = t /\ IsMessage("Vector", x)
  BY <1>3 DEF SendVector
<1> HIDE DEF s, x
<1>6. IsCut(t, s, Len(s), x)
  BY <1>4, AppendedIs
<1> HIDE DEF t
<1>7. \A i \in 1..Len(t) : IsMessage("Vector", t[i])
  BY <1>4, <1>5, <1>6 DEF IsCut, IsSeq
<1> QED
  BY <1>5, <1>6, <1>7 DEF IsCut

(* The message that is decoded is of the type that was asked for.          *)
LEMMA DecodedFits ==
  ASSUME DecoderIInv, Decoded
  PROVE  IsMessage(Root, result')
<1>1. /\ status = "busy" /\ Top.kind = "message" /\ Len(frames) = 1
      /\ result' = Top.value
  BY DEF Decoded, AtCompleteEnd, AtEnd, InMessage
<1>2. Top.desc = Root /\ IsFrame(Top)
  BY <1>1, Ready DEF DecoderIInv
<1> QED
  BY <1>1, <1>2 DEF IsFrame, Described

(* Every step of the decoder keeps the values.                             *)
LEMMA ValuesKept ==
  ASSUME DecoderIInv, Decoding
  PROVE  Values'
<1>1. status = "busy" /\ input' = input
  BY IsBusy, DecodingMoves DEF DecoderIInv
<1>2. status' = "decoded" => IsMessage(Root', result')
  BY <1>1, NotYet, DecodedFits DEF Root
<1>3. sent' = sent \/ SendVector
  BY DEF Decoding, BadTag, SkipUnknown, DecodeStatic, OpenSubmessage,
         OpenCallback, MissingField, Decoded, CloseSubmessage, OtherMessage,
         OpenLinearCmd, CloseLinearCmd, OpenVector,
         VectorRefused, CloseCallback
<1>4. IsSeq(sent') /\ \A i \in 1..Len(sent') : IsMessage("Vector", sent'[i])
  BY <1>3, VectorSent DEF DecoderIInv, Values
<1> QED
  BY <1>2, <1>4 DEF Values

(* pb_decode starts with one frame, over all the bytes there are.          *)
LEMMA Started ==
  ASSUME input' = input, input.bytes \in Seq(0..255),
         input.cuts \subseteq 0..Len(input.bytes),
         Root \in {"Setting", "Payload"},
         NEW n \in input.cuts, length' = n, StartDecode(n)
  PROVE  StackIInv'
<1> DEFINE c == Frame("message", Root, InitZero(Root), [at |-> 1, left |-> n],
                      0, FALSE)
           t == <<c>>
           stream == [at |-> 1, left |-> n]
           value == InitZero(Root)
           copy == FALSE
<1>1. n \in Nat /\ n \in 0..Len(input.bytes)
  OBVIOUS
<1>2. frames' = t /\ status' = "busy"
  BY DEF StartDecode
<1>3. Root \in Messages /\ IsMessage(Root, value)
  BY ZeroMessage DEF Messages, Leaves
<1>4. /\ IsFrame(c) /\ c.at = 1 /\ c.left = n
      /\ c.kind = "message" /\ c.desc = Root
  <2>1. stream.at = 1 /\ stream.left = n
    OBVIOUS
  <2>2. c = Frame("message", Root, value, stream, 0, copy)
    OBVIOUS
  <2> HIDE DEF stream, value, copy, c
  <2> QED
    BY <1>1, <1>3, <2>1, <2>2, FrameIs
<1> HIDE DEF c
<1>5. Len(t) = 1 /\ t[1] = c /\ IsSeq(t)
  BY DEF IsSeq
<1> HIDE DEF t
<1>6. IsStack(t)
  BY <1>4, <1>5 DEF IsStack
<1>7. Used(t, 1) = n
  <2>1. Used(t, 0) = 0
    BY <1>6, NumbersAre, SumsIs DEF Used
  <2>2. 1 \in 1..Len(t) /\ 1 - 1 = 0
    BY <1>5
  <2>3. Used(t, 1) = Used(t, 0) + t[1].left
    BY <1>6, <2>2, SumsOfStack
  <2> QED
    BY <1>1, <1>4, <1>5, <2>1, <2>3
<1> DEFINE end == n + 1
           given_up == abandoned' \/ overrun'
<1> HIDE DEF given_up
<1>8. end \in Nat /\ Kept(t, given_up, end, Root) /\ InStep(t, end)
  BY <1>1, <1>4, <1>5, <1>6, <1>7 DEF Kept, InStep
<1>9. BytesOK' /\ (input.cuts \subseteq 0..Len(input.bytes))' /\ Root' = Root
  BY <1>1 DEF BytesOK, Root
<1>10. Len(frames') > 0
  BY <1>2, <1>5
<1> QED
  BY <1>2, <1>8, <1>9, <1>10 DEF StackIInv, Aligned, given_up

(* Input that never reaches pb_decode.                                     *)
LEMMA Refused ==
  ASSUME input' = input, input.bytes \in Seq(0..255),
         input.cuts \subseteq 0..Len(input.bytes),
         length' \in 0..Len(input.bytes), End("failed")
  PROVE  StackIInv' /\ status' = "failed"
<1>1. status' = "failed" /\ frames' = <<>>
  BY DEF End
<1>2. BytesOK' /\ (input.cuts \subseteq 0..Len(input.bytes))'
  BY DEF BytesOK
<1> QED
  BY <1>1, <1>2, EmptyKeeps

(* The input arrives, whole or cut.                                        *)
LEMMA Received ==
  ASSUME DecoderIInv, ReceiveSetting \/ ReceivePayload \/ HandyQueueFull
  PROVE  DecoderIInv' /\ status = "arriving"
<1>1. /\ input' = input /\ input.bytes \in Seq(0..255)
      /\ input.cuts \subseteq 0..Len(input.bytes)
      /\ length \in 0..Len(input.bytes)
      /\ status = "arriving" /\ Root \in {"Setting", "Payload"}
      /\ UNCHANGED <<result, sent>>
  BY DEF DecoderIInv, StackIInv, BytesOK, ReceiveSetting, ReceivePayload,
         HandyQueueFull
<1>2. ASSUME NEW n \in input.cuts, length' = n, StartDecode(n)
      PROVE  StackIInv' /\ status' # "decoded"
  BY <1>1, <1>2, Started DEF StartDecode
<1>3. ASSUME NEW n \in input.cuts, length' = n, End("failed")
      PROVE  StackIInv' /\ status' # "decoded"
  BY <1>1, <1>3, Refused
<1>4. CASE ReceiveSetting
  <2>1. PICK n \in input.cuts : length' = n /\ Decode(n)
    BY <1>4 DEF ReceiveSetting
  <2>2. StackIInv' /\ status' # "decoded"
    BY <1>2, <1>3, <2>1 DEF Decode
  <2> QED
    BY <1>1, <2>2 DEF DecoderIInv, Values
<1>5. CASE ReceivePayload
  <2>1. PICK n \in input.cuts :
          length' = n /\ (StartDecode(n) \/ End("failed"))
    BY <1>5 DEF ReceivePayload
  <2>2. StackIInv' /\ status' # "decoded"
    BY <1>2, <1>3, <2>1
  <2> QED
    BY <1>1, <2>2 DEF DecoderIInv, Values
<1>6. CASE HandyQueueFull
  <2>1. length' = length /\ End("failed")
    BY <1>6 DEF HandyQueueFull
  <2>2. StackIInv' /\ status' # "decoded"
    BY <1>1, <2>1, Refused
  <2> QED
    BY <1>1, <2>2 DEF DecoderIInv, Values
<1> QED
  BY <1>1, <1>4, <1>5, <1>6

(* Before the input arrives.                                               *)
LEMMA DecodeInit ==
  ASSUME Init
  PROVE  DecoderIInv
<1>1. PICK k \in DOMAIN Input : input = Input[k]
  BY DEF Init
<1>2. /\ input.bytes \in Seq(0..255)
      /\ input.cuts \subseteq 0..Len(input.bytes)
      /\ length = 0 /\ frames = <<>> /\ sent = <<>> /\ status = "arriving"
  BY <1>1, InputAssumption DEF Init
<1>3. BytesOK
  <2>1. Len(input.bytes) \in Nat
    BY <1>2
  <2> QED
    BY <1>2, <2>1 DEF BytesOK
<1> DEFINE end == length + 1
           given_up == abandoned \/ overrun
<1>4. Kept(frames, given_up, end, Root) /\ Len(frames) = 0
  BY <1>2, EmptyKept
<1>5. Aligned(frames, abandoned, overrun, end) /\ end \in Nat
  BY <1>2, <1>4 DEF Aligned
<1>6. IsSeq(sent) /\ \A i \in 1..Len(sent) : IsMessage("Vector", sent[i])
  BY <1>2 DEF IsSeq
<1> HIDE DEF end
<1> QED
  BY <1>2, <1>3, <1>4, <1>5, <1>6 DEF DecoderIInv, StackIInv, Values

(* Every step keeps the invariant of the decoder.                          *)
LEMMA DecodeStep ==
  ASSUME DecoderIInv, [Next]_vars
  PROVE  DecoderIInv'
<1>1. CASE ReceiveSetting \/ ReceivePayload \/ HandyQueueFull
  BY <1>1, Received
<1>2. CASE Decoding
  BY <1>2, DecodingMoves, MovedKeeps, ValuesKept DEF DecoderIInv
<1>3. CASE UNCHANGED vars
  BY <1>3 DEF vars, DecoderIInv, StackIInv, Aligned, Values, BytesOK, Root
<1> QED
  BY <1>1, <1>2, <1>3 DEF Next, Decoding, Ended

(* The invariant of the decoder holds in every reachable state, for every  *)
(* input.                                                                  *)
THEOREM DecoderCorrect == Spec => []DecoderIInv
<1>1. Init => DecoderIInv
  BY DecodeInit
<1>2. DecoderIInv /\ [Next]_vars => DecoderIInv'
  BY DecodeStep
<1> QED
  BY <1>1, <1>2, PTL DEF Spec

(* Whatever bytes arrive, until a LinearCmd is read whose length is too    *)
(* large no call reads outside the payload, and until handy_task gives a   *)
(* LinearCmd up the pointers and the counts of bytes left agree all the    *)
(* way up the stack.                                                       *)
THEOREM StreamsStayInStep == Spec => []StreamsAgree
<1>1. ASSUME DecoderIInv, frames # <<>>, ~overrun
      PROVE  /\ InPayload
             /\ ~abandoned => Top.at + Total(Left(frames)) = length + 1
  <2> DEFINE n == Len(frames)
             end == length + 1
  <2>1. Aligned(frames, abandoned, overrun, end) /\ end \in Nat
    BY <1>1 DEF DecoderIInv, StackIInv, Aligned
  <2> HIDE DEF end
  <2>2. /\ IsStack(frames) /\ n \in Nat /\ DOMAIN frames = 1..n
        /\ Kept(frames, abandoned \/ overrun, end, Root)
    BY <2>1 DEF Aligned, Kept, IsStack, IsSeq
  <2>3. n > 0
    <3>1. n = 0 => frames = <<>>
      BY <2>2 DEF IsStack, IsSeq
    <3> QED
      BY <1>1, <2>2, <3>1
  <2>4. ASSUME NEW i \in 1..n
        PROVE  Drained(frames[i]) <= end
    <3> DEFINE a == frames[i].at
               b == frames[i].left
               u == Used(frames, i - 1)
    <3>1. IsFrame(frames[i]) /\ i - 1 \in 0..n
      BY <2>2 DEF IsStack
    <3>2. /\ a \in Nat /\ b \in Nat /\ u \in Nat
          /\ Used(frames, i) = u + b /\ a + Used(frames, i) <= end
      BY <2>2, <3>1, SumsOfStack DEF IsFrame, Kept
    <3> HIDE DEF a, b, u
    <3>3. a + b <= end
      BY <2>1, <3>2
    <3> QED
      BY <3>3 DEF Drained, a, b
  <2>5. ASSUME ~abandoned
        PROVE  Top.at + Total(Left(frames)) = end
    <3>1. Total(Left(frames)) = Used(frames, n)
      BY <2>2, SumsOfStack
    <3> QED
      BY <1>1, <2>1, <2>3, <2>5, <3>1 DEF Aligned, InStep, Top
  <2> QED
    BY <2>2, <2>4, <2>5 DEF InPayload, end
<1>2. DecoderIInv => StreamsAgree
  BY <1>1 DEF StreamsAgree
<1> QED
  BY <1>2, DecoderCorrect, PTL

(* Whatever bytes arrive and wherever an overrun goes on reading, every    *)
(* step uses up bytes of a call or ends one, and calls nest at most five   *)
(* deep: pb_decode ends.                                                   *)
THEOREM DecodingEnds == Spec => DecodingProgresses
<1>1. ASSUME DecoderIInv, [Next]_vars
      PROVE  [status = "busy" /\ status' = "busy" =>
                Len(frames') <= Deepest /\ Shrinks(frames, frames')]_vars
  <2>1. CASE ReceiveSetting \/ ReceivePayload \/ HandyQueueFull
    BY <1>1, <2>1, Received
  <2>2. CASE Decoding
    <3>1. Moved
      BY <1>1, <2>2, DecodingMoves DEF DecoderIInv
    <3>2. ASSUME status' = "busy"
          PROVE  Len(frames') <= Deepest /\ Shrinks(frames, frames')
      <4>1. /\ Shrinks(frames, frames')
            /\ \E end \in Nat : Aligned(frames', abandoned', overrun', end)
        BY <3>1, <3>2 DEF Moved
      <4>2. PICK end \in Nat :
              Kept(frames', abandoned' \/ overrun', end, Root)
        BY <4>1 DEF Aligned
      <4> QED
        BY <4>1, <4>2, Shallow
    <3> QED
      BY <3>2
  <2>3. CASE UNCHANGED vars
    BY <2>3
  <2> QED
    BY <1>1, <2>1, <2>2, <2>3 DEF Next, Decoding, Ended
<1> QED
  BY <1>1, DecoderCorrect, PTL DEF Spec, DecodingProgresses

(* Whatever bytes arrive, a message that is decoded and the vectors that   *)
(* are sent hold only values their C types can hold.                       *)
THEOREM DecodedValuesFit == Spec => []ValuesFit
<1>1. DecoderIInv => ValuesFit
  BY DEF DecoderIInv, Values, ValuesFit, IsSeq
<1> QED
  BY <1>1, DecoderCorrect, PTL
=============================================================================
