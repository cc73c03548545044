---------------------------- MODULE ProtoDecode ----------------------------
(***************************************************************************)
(* pb_decode, one field per step, on a settings file or request body, and  *)
(* on the payloads the Handy task receives, whose decoding callbacks send  *)
(* the motion vectors to the receive queue.                                *)
(*                                                                         *)
(* The C stack is a sequence of frames, the innermost last.  A frame of    *)
(* kind "message" is a call of pb_decode_inner, one of kind "callback" a   *)
(* lambda of handy_task.  Every frame has its own pb_istream_t: `at` is    *)
(* its state pointer, `left` its bytes_left.                               *)
(***************************************************************************)
EXTENDS ProtoMessages

CONSTANTS Input,   \* a sequence of [root, bytes, cuts, lacks, message,
                   \* vectors]: the message type, what arrives, how many of
                   \* the bytes may arrive, whether a field is missing, too
                   \* long or no field, and what was encoded
          Behind   \* what lies behind them in memory, over and over

ASSUME InputAssumption ==
  \A i \in DOMAIN Input : /\ Input[i].root \in {"Setting", "Payload"}
                          /\ Input[i].bytes \in Seq(0..255)
                          /\ Input[i].cuts \subseteq 0..Len(Input[i].bytes)

ASSUME BehindAssumption == Behind \in Seq(0..255) \ {<<>>}

VARIABLES input,    \* one of them
          length,   \* how many of its bytes are there
          frames,   \* the calls that are active
          status,   \* "arriving", "busy", "decoded", "failed" or "undefined"
          result,   \* the message pb_decode has filled in
          sent,     \* handy: the vectors put into the receive queue
          abandoned,\* history: handy_task gave a LinearCmd up
          overrun   \* history: it read one whose length was too large

vars ==
  <<input, length, frames, status, result, sent, abandoned, overrun>>

PB_MAX_REQUIRED_FIELDS == 64

-----------------------------------------------------------------------------
(* Reading from a stream s: s.left bytes from s.at may be read, `used` are *)
(* consumed.                                                               *)

Byte(i) ==
  IF i <= length THEN input.bytes[i]
  ELSE Behind[1 + ((i - length - 1) % Len(Behind))]

Advance(s, n) == [s EXCEPT !.at = @ + n, !.left = @ - n]

(* A varint ends with its first byte below 128, and is refused at the      *)
(* first bad one; a stream that ends before either is an error, too.       *)
VarintBytes(s) == [k \in 1..Min({s.left, 11}) |-> Byte(s.at + k - 1)]
ReadVarint(s, bad) ==
  LET b == VarintBytes(s)
      stops == {k \in DOMAIN b : b[k] < 128} \cup bad
      used == IF stops = {} THEN s.left ELSE Min(stops)
  IN [ok |-> stops # {} /\ used \notin bad, used |-> used,
      word |-> [k \in 1..10 |-> IF k <= used THEN b[k] % 128 ELSE 0]]

(* pb_decode_varint: the tenth byte holds the 64th bit only.               *)
Bad64(b) == {k \in DOMAIN b : k >= 10 /\ b[k] > 1}
Varint(s) == ReadVarint(s, Bad64(VarintBytes(s)))

(* pb_decode_varint32: after 32 bits only zeros or a sign extension.       *)
BeyondBit32(b, k) ==
  \/ k = 5 /\ (b[5] % 128) \div 16 # 0 /\ (b[5] % 128) \div 8 # 15
  \/ k > 5 /\ b[k] % 128 # 0
           /\ \/ (b[5] % 16) \div 8 = 0
              \/ b[k] # IF k < 10 THEN 255 ELSE 1
  \/ k > 10
Bad32(b) == {k \in DOMAIN b : BeyondBit32(b, k)}
Varint32(s) == ReadVarint(s, Bad32(VarintBytes(s)))

(* The low 32 bits as a number; those from 2^31 on are longer than any     *)
(* stream, and as tags the tag of no field.                                *)
Low32(w) ==
  IF w[5] % 16 >= 8 THEN 2147483647
  ELSE w[1] + 128 * w[2] + 16384 * w[3] + 2097152 * w[4]
            + 268435456 * (w[5] % 16)

(* pb_decode_tag.                                                          *)
DecodeTag(s) ==
  LET v == Varint32(s)
  IN [ok |-> v.ok, next |-> Advance(s, v.used),
      tag |-> IF v.ok THEN Low32(v.word) \div 8 ELSE 0,
      wire_type |-> IF v.ok THEN v.word[1] % 8 ELSE 0]

Fixed(s, n) ==
  [ok |-> s.left >= n, used |-> n,
   value |-> IF s.left >= n THEN [i \in 1..n |-> Byte(s.at + i - 1)]
             ELSE <<>>]

(* pb_make_string_substream: the bytes a length at s announces, and where  *)
(* their parent is while they are read.  Its pointer stays before them.    *)
SubstreamOverParent(s) ==
  LET v == Varint32(s)
      rest == Advance(s, v.used)
  IN [ok |-> v.ok /\ Low32(v.word) <= rest.left, parent |-> rest,
      stream |-> [at |-> rest.at, left |-> Low32(v.word)],
      used |-> v.used + Low32(v.word)]
Substream(s) ==
  LET v == Varint32(s)
      rest == Advance(s, v.used)
      size == Low32(v.word)
  IN [ok |-> v.ok /\ size <= rest.left,
      stream |-> [at |-> rest.at, left |-> size],
      parent |-> [rest EXCEPT !.left = @ - size],
      used |-> v.used + size]

(* pb_skip_field and read_raw_value: how many bytes a field takes.         *)
SkipVarint(s) ==
  LET ends == {k \in 1..s.left : Byte(s.at + k - 1) < 128}
  IN IF ends = {} THEN [ok |-> FALSE, used |-> s.left]
     ELSE [ok |-> TRUE, used |-> Min(ends)]

SkipField(s, wire_type) ==
  CASE wire_type = 0 -> SkipVarint(s)
    [] wire_type = 1 -> Fixed(s, 8)
    [] wire_type = 2 -> Substream(s)
    [] wire_type = 5 -> Fixed(s, 4)
    [] OTHER -> [ok |-> FALSE, used |-> 0]

RawValue(s, wire_type) ==
  LET v == SkipField(s, wire_type)
  IN [ok |-> v.ok /\ v.used <= 10,
      stream |-> [at |-> s.at, left |-> v.used],
      parent |-> Advance(s, v.used)]

-----------------------------------------------------------------------------
(* Values of basic fields.                                                 *)

DecVarint(s, field) ==
  LET v == Varint(s) IN
  [ok |-> v.ok /\ (field.ltype = "UVARINT" => FitsUInt32(v.word)),
   used |-> v.used,
   value |-> IF field.ltype = "VARINT" /\ field.data_size = 4
             THEN SignExtended(v.word) ELSE v.word]

DecBool(s) ==
  LET v == Varint32(s)
  IN [ok |-> v.ok, used |-> v.used, value |-> Low32(v.word) # 0]

(* One byte of the field is for the null terminator.                       *)
StringFitsExactly(size, field) == size <= field.data_size
StringFits(size, field) == size + 1 <= field.data_size
DecString(s, field) ==
  LET sub == Substream(s)
  IN [ok |-> sub.ok /\ StringFits(sub.stream.left, field),
      used |-> sub.used,
      value |-> IF sub.ok THEN Fixed(sub.stream, sub.stream.left).value
                ELSE <<>>]

(* decode_basic_field for everything but submessages.                      *)
DecodeBasic(s, field, wire_type) ==
  IF wire_type # WireType(field) THEN [ok |-> FALSE]
  ELSE CASE field.ltype = "BOOL" -> DecBool(s)
         [] field.ltype \in {"VARINT", "UVARINT"} -> DecVarint(s, field)
         [] field.ltype = "STRING" -> DecString(s, field)
         [] OTHER -> Fixed(s, field.data_size)

-----------------------------------------------------------------------------
(* The stack of calls.                                                     *)

Frame(kind, desc, value, stream, tag, copy) ==
  [kind |-> kind, desc |-> desc, value |-> value, seen |-> {}, index |-> 1,
   at |-> stream.at, left |-> stream.left, tag |-> tag, copy |-> copy]

Top == frames[Len(frames)]
Parent == frames[Len(frames) - 1]
Root == input.root

Init ==
  /\ \E i \in DOMAIN Input : input = Input[i]
  /\ length = 0
  /\ frames = <<>>
  /\ status = "arriving"
  /\ result = <<>>
  /\ sent = <<>>
  /\ abandoned = FALSE
  /\ overrun = FALSE

InMessage == status = "busy" /\ Top.kind = "message"
InCallback(desc) ==
  status = "busy" /\ Top.kind = "callback" /\ Top.desc = desc

(* Replace the top frame; push one on it; go back to the one below.        *)
Continue(f) == /\ frames' = [frames EXCEPT ![Len(frames)] = f]
               /\ UNCHANGED <<status, abandoned, overrun>>
Push(f, g) == /\ frames' = Append([frames EXCEPT ![Len(frames)] = f], g)
              /\ UNCHANGED <<status, abandoned>>
Call(f, g) == Push(f, g) /\ UNCHANGED overrun
Return(f) == /\ frames' = Append(SubSeq(frames, 1, Len(frames) - 2), f)
             /\ UNCHANGED <<status, abandoned, overrun>>

End(outcome) == /\ status' = outcome
                /\ frames' = <<>>
                /\ UNCHANGED <<abandoned, overrun>>

(* Where pb_close_string_substream leaves the parent of f's stream.        *)
Drained(f) == f.at + f.left

(* An error ends every call up to pb_decode, or to handy_task's callback   *)
(* for Messages, which only logs that a LinearCmd failed and closes its    *)
(* substream.  Nobody closes the substreams in between: the pointer the    *)
(* callback goes on with is the LinearCmd's own, which is still before the *)
(* Vectors that were being read.                                           *)
Fail ==
  LET handlers == {i \in DOMAIN frames :
                     frames[i].kind = "callback" /\ frames[i].desc = "Message"}
      i == Max(handlers)
  IN IF handlers = {} THEN End("failed")
     ELSE /\ frames' = Append(SubSeq(frames, 1, i - 1),
                              [frames[i] EXCEPT !.at = Drained(frames[i + 1])])
          /\ abandoned' = TRUE
          /\ UNCHANGED <<status, overrun>>

-----------------------------------------------------------------------------
(* What arrives, and the call of pb_decode.                                *)

MaxWrite == 256              \* handy_chr_val, handy_chr_val2

StartDecode(n) ==
  /\ frames' = <<Frame("message", Root, InitZero(Root),
                       [at |-> 1, left |-> n], 0, FALSE)>>
  /\ status' = "busy"
  /\ UNCHANGED <<abandoned, overrun>>

(* SettingWrapper::decode takes no empty input.                            *)
Decode(n) == IF n = 0 THEN End("failed") ELSE StartDecode(n)

(* POST /api/setting takes what one httpd_req_recv returns of the body; a  *)
(* file can have been cut off.                                             *)
ReceiveSetting ==
  /\ status = "arriving" /\ Root = "Setting"
  /\ \E n \in input.cuts : length' = n /\ Decode(n)
  /\ UNCHANGED <<input, result, sent>>

(* A write to a Handy characteristic: the first mbuf of the chain, if it   *)
(* is not too long, goes through handy_queue, which may be full.           *)
ReceivePayload ==
  /\ status = "arriving" /\ Root = "Payload"
  /\ \E n \in input.cuts :
       /\ length' = n
       /\ IF n > MaxWrite THEN End("failed") ELSE StartDecode(n)
  /\ UNCHANGED <<input, result, sent>>

HandyQueueFull ==
  /\ status = "arriving" /\ Root = "Payload"
  /\ End("failed")
  /\ UNCHANGED <<input, length, result, sent>>

-----------------------------------------------------------------------------
(* pb_decode_inner: one field per step.                                    *)

(* pb_field_iter_find goes forward from the current field and starts again *)
(* at the first, to stop where it was.                                     *)
SearchedForward(f, tag) == f.index..Len(FieldList[f.desc])
Searched(f, tag) ==
  IF tag < f.index THEN 1..f.index ELSE DOMAIN FieldList[f.desc]

Here == DecodeTag(Top)
Found == Here.tag \in Searched(Top, Here.tag)
TheField == FieldList[Top.desc][Here.tag]

AtField == InMessage /\ Top.left > 0 /\ Here.ok /\ Here.tag # 0

(* The iterator moves to the field; fields_seen notes a required one.      *)
Noted ==
  LET required == RequiredIndex(Top.desc, Here.tag)
  IN [Here.next EXCEPT
        !.index = Here.tag,
        !.seen = IF IsRequired(TheField) /\ required < PB_MAX_REQUIRED_FIELDS
                 THEN @ \cup {required} ELSE @]

BadTag ==
  /\ InMessage /\ Top.left > 0
  /\ ~Here.ok \/ Here.tag = 0
  /\ Fail
  /\ UNCHANGED <<input, length, result, sent>>

SkipUnknown ==
  /\ AtField /\ ~Found
  /\ LET skip == SkipField(Here.next, Here.wire_type)
     IN IF skip.ok THEN Continue(Advance(Here.next, skip.used)) ELSE Fail
  /\ UNCHANGED <<input, length, result, sent>>

DecodeStatic ==
  /\ AtField /\ Found
  /\ TheField.ltype # "SUBMESSAGE"
  /\ LET v == DecodeBasic(Noted, TheField, Here.wire_type)
     IN IF v.ok THEN Continue([Advance(Noted, v.used) EXCEPT
                                 !.value[Here.tag] = v.value])
        ELSE Fail
  /\ UNCHANGED <<input, length, result, sent>>

(* pb_dec_submessage: the fields go over what the parent's struct holds.   *)
OpenSubmessage ==
  /\ AtField /\ Found
  /\ TheField.ltype = "SUBMESSAGE" /\ TheField.atype = "STATIC"
  /\ LET sub == Substream(Noted)
     IN IF Here.wire_type = 2 /\ sub.ok
        THEN Call(sub.parent,
                  Frame("message", TheField.submsg_desc, Top.value[Here.tag],
                        sub.stream, Here.tag, FALSE))
        ELSE Fail
  /\ UNCHANGED <<input, length, result, sent>>

(* decode_callback_field: a scalar is handed over in a copy.               *)
OpenCallback ==
  /\ AtField /\ Found
  /\ TheField.atype = "CALLBACK"
  /\ LET copy == Here.wire_type # 2
         sub == IF copy THEN RawValue(Noted, Here.wire_type)
                ELSE Substream(Noted)
     IN IF sub.ok
        THEN Call(sub.parent,
                  Frame("callback", TheField.submsg_desc, <<>>, sub.stream,
                        Here.tag, copy))
        ELSE Fail
  /\ UNCHANGED <<input, length, result, sent>>

(* pb_decode_inner checks that every required field it can note was seen.  *)
AllRequiredSeenWords(f) ==
  \A i \in 0..(32 * (RequiredCount(f.desc) \div 32) - 1) : i \in f.seen
AllRequiredSeen(f) ==
  \A i \in 0..(Min({RequiredCount(f.desc), PB_MAX_REQUIRED_FIELDS}) - 1) :
    i \in f.seen
AtEnd == InMessage /\ Top.left = 0
AtCompleteEnd == AtEnd /\ AllRequiredSeen(Top)

MissingField ==
  /\ AtEnd /\ ~AllRequiredSeen(Top)
  /\ Fail
  /\ UNCHANGED <<input, length, result, sent>>

Decoded ==
  /\ AtCompleteEnd
  /\ Len(frames) = 1
  /\ End("decoded")
  /\ result' = Top.value
  /\ UNCHANGED <<input, length, sent>>

CloseSubmessage ==
  /\ AtCompleteEnd
  /\ Len(frames) > 1 /\ Parent.kind = "message"
  /\ Return([Parent EXCEPT !.at = Drained(Top), !.value[Top.tag] = Top.value])
  /\ UNCHANGED <<input, length, result, sent>>

-----------------------------------------------------------------------------
(* The callbacks of handy_task.                                            *)

(* For a Messages field the callback looks for one tag at the head of its  *)
(* stream.  On any other it returns, and decode_callback_field calls it    *)
(* again as long as bytes are left: it steps through the contents of the   *)
(* other messages, as if they were tags.                                   *)
IsLinearCmd ==
  Here.ok /\ Here.wire_type = 2 /\ Here.tag = LinearCmdTag

OtherMessage ==
  /\ InCallback("Message") /\ Top.left > 0
  /\ ~IsLinearCmd
  /\ IF Top.copy THEN Return(Parent) ELSE Continue(Here.next)
  /\ UNCHANGED <<input, length, result, sent>>

(* The result of pb_make_string_substream is not looked at.  Where it is   *)
(* FALSE because the length is too large, subStream is a copy of the       *)
(* stream behind the length, whose own count of bytes left stays: when the *)
(* substream has been closed the pointer is at their end, and what is read *)
(* next lies behind it.  Without a length subStream is uninitialised.      *)
AfterLength(s) == Advance(s, Varint32(s).used)

OpenLinearCmd ==
  /\ InCallback("Message") /\ Top.left > 0
  /\ IsLinearCmd
  /\ LET sub == Substream(Here.next)
         rest == AfterLength(Here.next)
         LinearCmd(stream) ==
           Frame("message", "LinearCmd", InitZero("LinearCmd"), stream, 0,
                 FALSE)
     IN \/ sub.ok /\ Call(sub.parent, LinearCmd(sub.stream))
        \/ /\ ~sub.ok /\ Varint32(Here.next).ok
           /\ Push(rest, LinearCmd(rest)) /\ overrun' = TRUE
        \/ ~Varint32(Here.next).ok /\ End("undefined")
  /\ UNCHANGED <<input, length, result, sent>>

CloseLinearCmd ==
  /\ AtCompleteEnd
  /\ Len(frames) > 1 /\ Parent.kind = "callback" /\ Parent.desc = "Message"
  /\ Return([Parent EXCEPT !.at = Drained(Top)])
  /\ UNCHANGED <<input, length, result, sent>>

(* For a Vectors field pb_decode reads the callback's own stream, to its   *)
(* end.                                                                    *)
OpenVectorOnCopy ==
  /\ InCallback("Vector") /\ Top.left > 0
  /\ Call(Top, Frame("message", "Vector", InitZero("Vector"), Top, 0, FALSE))
  /\ UNCHANGED <<input, length, result, sent>>
OpenVector ==
  /\ InCallback("Vector") /\ Top.left > 0
  /\ Call([Top EXCEPT !.left = 0],
          Frame("message", "Vector", InitZero("Vector"), Top, 0, FALSE))
  /\ UNCHANGED <<input, length, result, sent>>

AtVectorEnd ==
  /\ AtCompleteEnd
  /\ Len(frames) > 1 /\ Parent.kind = "callback" /\ Parent.desc = "Vector"

SendVector ==
  /\ AtVectorEnd
  /\ sent' = Append(sent, Top.value)
  /\ Return([Parent EXCEPT !.at = Drained(Top)])
  /\ UNCHANGED <<input, length, result>>

(* No memory, or the receive queue stays full for 100 ms.                  *)
VectorRefusedGoesOn ==
  /\ AtVectorEnd
  /\ Return([Parent EXCEPT !.at = Drained(Top)])
  /\ UNCHANGED <<input, length, result, sent>>
VectorRefused ==
  /\ AtVectorEnd
  /\ Fail
  /\ UNCHANGED <<input, length, result, sent>>

CloseCallback ==
  /\ status = "busy" /\ Top.kind = "callback" /\ Top.left = 0
  /\ Return(IF Top.copy THEN Parent ELSE [Parent EXCEPT !.at = Drained(Top)])
  /\ UNCHANGED <<input, length, result, sent>>

Ended == status \notin {"arriving", "busy"} /\ UNCHANGED vars

Next ==
  \/ ReceiveSetting \/ ReceivePayload \/ HandyQueueFull
  \/ BadTag \/ SkipUnknown \/ DecodeStatic \/ OpenSubmessage \/ OpenCallback
  \/ MissingField \/ Decoded \/ CloseSubmessage
  \/ OtherMessage \/ OpenLinearCmd \/ CloseLinearCmd
  \/ OpenVector \/ SendVector \/ VectorRefused \/ CloseCallback
  \/ Ended

Spec == Init /\ [][Next]_vars

-----------------------------------------------------------------------------
(* Properties.                                                             *)

Complete == length = Len(input.bytes) /\ ~input.lacks

(* The sums of the first 0, 1, 2 ... numbers of a sequence.                *)
Sums(numbers) ==
  LET s[i \in 0..Len(numbers)] == IF i = 0 THEN 0 ELSE s[i - 1] + numbers[i]
  IN s
Total(numbers) == Sums(numbers)[Len(numbers)]

(* No stream reaches behind the payload.                                   *)
InPayload == \A i \in DOMAIN frames : Drained(frames[i]) <= length + 1

(* Unless a LinearCmd was read whose length is too large, no call reads    *)
(* outside the payload; and as long as handy_task has given up nothing     *)
(* either, the stream pointers and the counts of bytes left agree, all the *)
(* way up the stack: what is read next is the first byte nobody has read.  *)
(* The pointer is restored by pb_close_string_substream, the count is      *)
(* reduced by pb_make_string_substream, at two ends of every nested        *)
(* decode.  What is read through the uninitialised stream of a LinearCmd   *)
(* without a length is excepted, too: decoding ends there ("undefined").   *)
Left(fs) == [i \in DOMAIN fs |-> fs[i].left]
StreamsAgree ==
  frames # <<>> /\ ~overrun =>
    /\ InPayload
    /\ ~abandoned => Top.at + Total(Left(frames)) = length + 1

(* Whatever bytes arrive, and wherever an overrun goes on reading, every   *)
(* step of pb_decode and of the callbacks uses up bytes of a call or ends  *)
(* one, and calls nest no deeper than the message types do: a payload, its *)
(* Messages, a LinearCmd, its Vectors and a Vector.  So neither the search *)
(* for fields nor the loops that go on while a stream has bytes left run   *)
(* for ever, also where a pointer moves back or past the end.  Excepted is *)
(* what the uninitialised stream of a LinearCmd without a length leads to. *)
Deepest == 5
Shrinks(fs, gs) ==
  \E i \in DOMAIN fs :
    /\ \A j \in 1..(i - 1) : j \in DOMAIN gs /\ gs[j].left = fs[j].left
    /\ i \in DOMAIN gs => gs[i].left < fs[i].left
DecodingProgresses ==
  [][status = "busy" /\ status' = "busy" =>
       Len(frames') <= Deepest /\ Shrinks(frames, frames')]_vars

(* Whatever bytes arrive, every value taken from them is one its C type    *)
(* can hold, strings with their terminator.                                *)
ValuesFit ==
  /\ status = "decoded" => IsMessage(Root, result)
  /\ \A i \in DOMAIN sent : IsMessage("Vector", sent[i])

(* A Setting is taken only whole: a file or request body that was cut off  *)
(* anywhere, or that an older firmware wrote without one of the required   *)
(* fields of any of its messages, is refused, and so is one with a string  *)
(* that does not fit.                                                      *)
OnlyComplete == Root = "Setting" /\ status = "decoded" => Complete

(* The motion commands reach the queue in the order of the payload, none   *)
(* twice and, when no LinearCmd was given up, none left out.  A vector     *)
(* whose fields are all zero is an empty field and makes no command.       *)
(* Excepted is a payload with a LinearCmd whose length is too large, after *)
(* which bytes are taken for commands that nobody sent.                    *)
VectorsInOrder ==
  LET meant == input.vectors
      matched == FoldLeft(LAMBDA k, v : IF k < Len(sent) /\ v = sent[k + 1]
                                        THEN k + 1 ELSE k, 0, meant)
  IN Root = "Payload" /\ ~overrun =>
       /\ matched = Len(sent)
       /\ ~abandoned => IsPrefix(sent, meant)
       /\ ~abandoned /\ status = "decoded" /\ Complete => sent = meant
=============================================================================
