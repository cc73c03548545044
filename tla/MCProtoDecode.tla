--------------------------- MODULE MCProtoDecode ---------------------------
(***************************************************************************)
(* What arrives: settings complete, cut off, without a required field, in  *)
(* another field order and with unknown fields; payloads of the Handy app. *)
(***************************************************************************)
EXTENDS ProtoRoundTrip

MinusOne == [i \in 1..10 |-> IF i < 10 THEN 127 ELSE 1]

(* A Setting whose every field takes as many bytes as it can.              *)
RECURSIVE Largest(_)
LargestField(field) ==
  CASE field.ltype = "BOOL" -> TRUE
    [] field.ltype = "VARINT" -> MinusOne
    [] field.ltype = "FIXED32" -> [i \in 1..4 |-> 255]
    [] field.ltype = "STRING" -> [i \in 1..(field.data_size - 1) |-> 97]
    [] OTHER -> Largest(field.submsg_desc)
Largest(d) == [t \in DOMAIN FieldList[d] |-> LargestField(FieldList[d][t])]

(* Different values next to each other; t is the tag.                      *)
RECURSIVE Mixed(_)
MixedField(field, t) ==
  CASE field.ltype = "BOOL" -> t % 2 = 0
    [] field.ltype = "VARINT" ->
         IF t % 3 = 0 THEN MinusOne ELSE Number(100 * t)
    [] field.ltype = "FIXED32" -> <<t, 0, 128, 63>>
    [] field.ltype = "STRING" -> <<104, 105, 97 + t>>
    [] OTHER -> Mixed(field.submsg_desc)
Mixed(d) == [t \in DOMAIN FieldList[d] |-> MixedField(FieldList[d][t], t)]

Setting0 == Setting_init_zero
SettingX == Largest("Setting")
SettingM == Mixed("Setting")

Without(f, t) == [x \in DOMAIN f \ {t} |-> f[x]]

Entry(root, bytes, cuts, lacks, message, vectors) ==
  [root |-> root, bytes |-> bytes, cuts |-> cuts, lacks |-> lacks,
   message |-> message, vectors |-> vectors]
Whole(bytes, message) ==
  Entry("Setting", bytes, {Len(bytes)}, FALSE, message, <<>>)
CutAnywhere(bytes, message) ==
  Entry("Setting", bytes, 0..Len(bytes), FALSE, message, <<>>)
Lacking(bytes) == Entry("Setting", bytes, {Len(bytes)}, TRUE, <<>>, <<>>)

(* The last field first, in the Setting and in each of its messages.       *)
Backwards ==
  FlattenSeq([i \in 1..8 |->
    LET t == 9 - i
        d == Setting[t].submsg_desc
    IN EncodeTag(2, t)
         \o EncodeString(EncodeInOrder(d, SettingM[t],
                                       Reverse(TagsOf(d, SettingM[t]))))])

(* Fields of every wire type that a newer firmware might add.              *)
Unknown ==
  EncodeTag(0, 40) \o EncodeVarint(MinusOne) \o EncodeTag(1, 41)
    \o Zeros(8) \o EncodeTag(2, 2000) \o EncodeString(<<8, 1>>)
    \o EncodeTag(5, 9) \o <<1, 2, 3, 4>>
WithUnknown == Unknown \o Encode("Setting", SettingM) \o Unknown

(* Every required field of every message left out, one at a time.          *)
TopLevelRemoved ==
  [t \in 1..8 |-> Lacking(Encode("Setting", Without(Setting0, t)))]
RemovedIn(m) ==
  [t \in DOMAIN Setting0[m] |->
     Lacking(Encode("Setting",
                    [Setting0 EXCEPT ![m] = Without(Setting0[m], t)]))]
RemovedInHome ==
  [t \in DOMAIN Setting0[7][6] |->
     Lacking(Encode("Setting",
                    [Setting0 EXCEPT ![7][6] = Without(@, t)]))]

(* 2^32 + 5 and an SSID of 65 bytes.                                       *)
Wide == [i \in 1..10 |-> IF i = 1 THEN 5 ELSE IF i = 5 THEN 16 ELSE 0]
TooWide == [Setting0 EXCEPT ![1][3] = Wide]
TooLong == [Setting0 EXCEPT ![1][1] = [i \in 1..65 |-> 97]]

NewDevices ==
  LET builds == FoldSet(LAMBDA b, s : Append(s, b), <<>>, Build)
  IN [i \in DOMAIN builds |->
        Whole(Encode("Setting", default_setting(builds[i])),
              default_setting(builds[i]))]

SettingInputs ==
  <<Whole(Encode("Setting", TooWide),
          [Setting0 EXCEPT ![1][3] = Number(5)]),
    Lacking(Encode("Setting", TooLong)),
    CutAnywhere(Encode("Setting", Setting0), Setting0),
    Whole(Encode("Setting", SettingX), SettingX),
    Whole(Backwards, SettingM),
    Entry("Setting", WithUnknown, 0..Len(Unknown) \cup {Len(WithUnknown)},
          FALSE, SettingM, <<>>),
    Lacking(Encode("Setting", Setting0) \o <<0>>)>>
  \o NewDevices
  \o TopLevelRemoved
  \o FlattenSeq([m \in 1..8 |-> RemovedIn(m)])
  \o RemovedInHome

-----------------------------------------------------------------------------
(* Payloads.                                                               *)

Half == <<0, 0, 0, 0, 0, 0, 224, 63>>
One == <<0, 0, 0, 0, 0, 0, 240, 63>>
Vector(duration, position) == <<Number(0), Number(duration), position>>

VectorsField(v) == EncodeTag(2, 3) \o EncodeString(Encode("Vector", v))
Contents(vectors) ==
  EncodeTag(0, 1) \o <<7>>
    \o FlattenSeq([i \in DOMAIN vectors |-> VectorsField(vectors[i])])
Linear(vectors) ==
  EncodeTag(2, LinearCmdTag) \o EncodeString(Contents(vectors))
Messages(bytes) == EncodeTag(2, 1) \o EncodeString(bytes)

PingTag == 102
Ping(id) ==
  Messages(EncodeTag(2, PingTag)
             \o EncodeString(EncodeTag(0, 1) \o EncodeVarint(Number(id))))

RequestServerInfoTag == 200
RequestServerInfo(id, name) ==
  Messages(EncodeTag(2, RequestServerInfoTag)
             \o EncodeString(EncodeTag(0, 1) \o EncodeVarint(Number(id))
                               \o EncodeTag(2, 2) \o EncodeString(name)))

V1 == Vector(500, Half)
V2 == Vector(20, One)
V3 == Vector(900, Zeros(8))
V0 == InitZero("Vector")

Payload(bytes, cuts, vectors) ==
  Entry("Payload", bytes, cuts, FALSE, <<>>, vectors)

(* Two messages with motions and one without; two commands in one message  *)
(* and an empty vector; a vector whose duration has the wrong wire type;   *)
(* a scalar for a message; a Ping whose Id is encoded as 9A 19, for which  *)
(* the callback finds no length, and a RequestServerInfo with that Id and  *)
(* a ClientName, in which it finds a length that is too large; more than   *)
(* fits in a write.                                                        *)
PayloadInputs ==
  LET motions == Messages(Linear(<<V1, V2>>)) \o Ping(5)
                   \o Messages(Linear(<<V3>>))
      together == Messages(Linear(<<V1, V0>>) \o Linear(<<V2>>))
      wrong == Messages(EncodeTag(2, LinearCmdTag)
                 \o EncodeString(EncodeTag(2, 3)
                      \o EncodeString(EncodeTag(5, 2) \o <<1, 0, 0, 0>>)))
                 \o Messages(Linear(<<V2>>))
      scalar == EncodeTag(0, 1) \o <<5>> \o Messages(Linear(<<V1>>))
      reply == Ping(3226) \o Messages(Linear(<<V1>>))
      request == RequestServerInfo(3226,
                                   <<97, 117, 97, 98, 99, 100, 120, 97>>)
                   \o Messages(Linear(<<V1, V2>>))
      many == [i \in 1..20 |-> V1]
  IN <<Payload(motions, 0..Len(motions), <<V1, V2, V3>>),
       Payload(together, {Len(together)}, <<V1, V2>>),
       Payload(wrong, {Len(wrong)}, <<V2>>),
       Payload(scalar, {Len(scalar)}, <<V1>>),
       Payload(reply, {Len(reply)}, <<V1>>),
       Payload(request, 0..Len(request), <<V1, V2>>),
       Payload(Messages(Linear(many)), {Len(Messages(Linear(many)))}, many)>>

(* The end of one message and the head of another.                         *)
MCBehind == <<0, 10, 7, 146, 25, 4, 26, 2, 16, 20, 1>>

MCInput == SettingInputs \o PayloadInputs
=============================================================================
