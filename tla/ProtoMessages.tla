--------------------------- MODULE ProtoMessages ---------------------------
(***************************************************************************)
(* The messages of the firmware as nanopb sees them: the field lists of    *)
(* setting.pb.h and handyplug.pb.h, and the values of their fields.        *)
(*                                                                         *)
(* A message is a function from tags to values.  A 64-bit integer is the   *)
(* ten base-128 digits of its varint, lowest first; a float or double is   *)
(* its bytes; a string the sequence of its bytes.                          *)
(***************************************************************************)
EXTENDS Integers, Sequences, FiniteSets, SequencesExt, DefaultSettings

-----------------------------------------------------------------------------
(* Field lists.                                                            *)

Field(atype, htype, ltype, size, desc) ==
  [atype |-> atype, htype |-> htype, ltype |-> ltype, data_size |-> size,
   submsg_desc |-> desc]

Required(ltype, size) == Field("STATIC", "REQUIRED", ltype, size, "none")
Singular(ltype, size) == Field("STATIC", "SINGULAR", ltype, size, "none")
RequiredMessage(desc) == Field("STATIC", "REQUIRED", "SUBMESSAGE", 0, desc)
Callback(desc) == Field("CALLBACK", "REPEATED", "SUBMESSAGE", 0, desc)

BOOL == Required("BOOL", 1)
INT32 == Required("VARINT", 4)
INT64 == Required("VARINT", 8)
FLOAT == Required("FIXED32", 4)
CHARS == Required("STRING", 65)
UINT32 == Singular("UVARINT", 4)
DOUBLE == Singular("FIXED64", 8)

Times(n, field) == [i \in 1..n |-> field]

(* The descriptors pb_decode is called with, in order of their tags, which *)
(* are 1, 2, 3 ...                                                         *)
Setting ==
  <<RequiredMessage("Wifi"), RequiredMessage("Servo"),
    RequiredMessage("Temperature"), RequiredMessage("mDNS"),
    RequiredMessage("LED"), RequiredMessage("Decoy"),
    RequiredMessage("ZDT"), RequiredMessage("MIT")>>

Setting_Wifi ==
  Times(2, CHARS) \o Times(3, INT32) \o <<BOOL>> \o Times(2, CHARS)
                   \o Times(3, INT32)

Setting_Servo ==
  Times(12, INT32) \o Times(10, FLOAT) \o Times(3, BOOL) \o Times(6, INT32)
                   \o Times(9, FLOAT) \o Times(3, BOOL) \o Times(3, INT32)

Setting_ZDT ==
  Times(4, FLOAT) \o <<BOOL, RequiredMessage("HomeParam"), BOOL>>

handyplug_LinearCmd == <<UINT32, UINT32, Callback("Vector")>>
handyplug_LinearCmd_Vector == <<UINT32, UINT32, DOUBLE>>
handyplug_Payload == <<Callback("Message")>>

FieldList ==
  [Setting |-> Setting, Wifi |-> Setting_Wifi, Servo |-> Setting_Servo,
   Temperature |-> Times(3, INT64), mDNS |-> <<CHARS>>, LED |-> <<BOOL>>,
   Decoy |-> Times(4, INT32), ZDT |-> Setting_ZDT,
   HomeParam |-> Times(6, INT32), MIT |-> Times(24, FLOAT),
   Payload |-> handyplug_Payload, LinearCmd |-> handyplug_LinearCmd,
   Vector |-> handyplug_LinearCmd_Vector]

LinearCmdTag == 403                     \* handyplug_Message_LinearCmd_tag

(* Setting_size, the largest encoded Setting, as the generator computed it.*)
Setting_size == 1086

IsRequired(field) == field.htype = "REQUIRED"
IsSubmessage(field) ==
  field.ltype = "SUBMESSAGE" /\ field.atype = "STATIC"

(* The wire type of a field's values.                                      *)
WireType(field) ==
  CASE field.ltype \in {"BOOL", "VARINT", "UVARINT"} -> 0
    [] field.ltype = "FIXED64" -> 1
    [] field.ltype = "FIXED32" -> 5
    [] OTHER -> 2

(* required_field_index: how many required fields come before this one.    *)
RequiredIndex(d, tag) ==
  Cardinality({t \in 1..(tag - 1) : IsRequired(FieldList[d][t])})
RequiredCount(d) ==
  Cardinality({t \in DOMAIN FieldList[d] : IsRequired(FieldList[d][t])})

-----------------------------------------------------------------------------
(* Values.                                                                 *)

Zeros(n) == [i \in 1..n |-> 0]
Number(n) ==                             \* 0 <= n < 2^14, as a 64-bit word
  [i \in 1..10 |-> IF i = 1 THEN n % 128 ELSE IF i = 2 THEN n \div 128 ELSE 0]

(* Messages are nested at most three deep: Setting, ZDT, HomeParam.  What  *)
(* follows a message into its submessages is written out to that depth.    *)

(* What memset and Setting_init_zero leave in a field, and what            *)
(* pb_message_set_to_defaults puts there: no message has default values.   *)
FieldZero(field) ==
  CASE field.ltype = "BOOL" -> FALSE
    [] field.ltype \in {"VARINT", "UVARINT"} -> Zeros(10)
    [] field.ltype \in {"FIXED32", "FIXED64"} -> Zeros(field.data_size)
    [] OTHER -> <<>>
ZeroWith(d, Inner(_)) ==
  [t \in DOMAIN FieldList[d] |->
     IF IsSubmessage(FieldList[d][t]) THEN Inner(FieldList[d][t].submsg_desc)
     ELSE FieldZero(FieldList[d][t])]
ZeroFlat(d) == [t \in DOMAIN FieldList[d] |-> FieldZero(FieldList[d][t])]
ZeroPart(d) == ZeroWith(d, ZeroFlat)
InitZero(d) == ZeroWith(d, ZeroPart)
Setting_init_zero == InitZero("Setting")

(* What a struct can hold: strings with their terminator in data_size      *)
(* bytes, and 32-bit numbers, which are sign-extended when a message is    *)
(* written.                                                                *)
IsWord(w) == w \in [1..10 -> 0..127] /\ w[10] < 2
Complement(n) == [i \in 1..10 |-> (IF i = 10 THEN 1 ELSE 127) - Number(n)[i]]
SignExtended(w) ==
  LET ones(n) == IF w[5] % 16 >= 8 THEN n ELSE 0
  IN [k \in 1..10 |-> CASE k < 5 -> w[k]
                        [] k = 5 -> (w[5] % 16) + ones(112)
                        [] k \in 6..9 -> ones(127)
                        [] k = 10 -> ones(1)]
FitsUInt32(w) == w[5] < 16 /\ \A k \in 6..10 : w[k] = 0

IsValue(field, v) ==
  CASE field.ltype = "BOOL" -> v \in BOOLEAN
    [] field.ltype = "VARINT" ->
         IsWord(v) /\ (field.data_size = 4 => v = SignExtended(v))
    [] field.ltype = "UVARINT" -> IsWord(v) /\ FitsUInt32(v)
    [] field.ltype \in {"FIXED32", "FIXED64"} ->
         v \in [1..field.data_size -> 0..255]
    [] field.ltype = "STRING" -> v \in Seq(0..255) /\ Len(v) < field.data_size
    [] OTHER -> v = <<>>
IsMessageWith(d, m, IsInner(_, _)) ==
  /\ DOMAIN m = DOMAIN FieldList[d]
  /\ \A t \in DOMAIN FieldList[d] :
       IF IsSubmessage(FieldList[d][t])
       THEN IsInner(FieldList[d][t].submsg_desc, m[t])
       ELSE IsValue(FieldList[d][t], m[t])
IsFlat(d, m) ==
  /\ DOMAIN m = DOMAIN FieldList[d]
  /\ \A t \in DOMAIN FieldList[d] : IsValue(FieldList[d][t], m[t])
IsPart(d, m) == IsMessageWith(d, m, IsFlat)
IsMessage(d, m) == IsMessageWith(d, m, IsPart)

-----------------------------------------------------------------------------
(* What a new device stores.                                               *)

(* Thousandths as a single-precision float.                                *)
Float(n) ==
  CASE n = 0    -> <<0, 0, 0, 0>>
    [] n = 4    -> <<111, 18, 131, 59>>
    [] n = 20   -> <<10, 215, 163, 60>>
    [] n = 240  -> <<143, 194, 117, 62>>
    [] n = 580  -> <<225, 122, 20, 63>>
    [] n = 720  -> <<236, 81, 56, 63>>
    [] n = 800  -> <<205, 204, 76, 63>>
    [] n = 1000 -> <<0, 0, 128, 63>>
    [] n = 1320 -> <<195, 245, 168, 63>>
    [] n = 2000 -> <<0, 0, 0, 64>>
    [] n = 3000 -> <<0, 0, 64, 64>>
    [] n = 6000 -> <<0, 0, 192, 64>>
    [] n = 7000 -> <<0, 0, 224, 64>>
    [] n = 8000 -> <<0, 0, 0, 65>>
    [] n = 9000 -> <<0, 0, 16, 65>>

Int32(n) == IF n >= 0 THEN Number(n) ELSE Complement(-n - 1)

(* The servo settings of a build under the tags of their fields.           *)
ServoMessage(c) ==
  LET Of(f, keys) == [i \in DOMAIN keys |-> f[keys[i]]]
      Ints(f, keys) == [i \in DOMAIN keys |-> Int32(f[keys[i]])]
      Floats(f, keys) == [i \in DOMAIN keys |-> Float(f[keys[i]])]
      Limits(keys) ==
        FlattenSeq([i \in DOMAIN keys |-> <<Float(c.left[keys[i]]),
                                            Float(c.right[keys[i]])>>])
      old == <<"A", "B", "C", "D">>
      added == <<"E", "F">>
  IN Ints(c.pin, old) \o Ints(c.freq, old) \o Ints(c.zero, old)
       \o Floats(c.scale, <<"L0", "R1", "R2">>) \o Limits(<<"L0", "R1", "R2">>)
       \o <<Float(1000 * c.MODE)>> \o Of(c.reverse, <<"L0", "R1", "R2">>)
       \o Ints(c.pin, added) \o Ints(c.freq, added) \o Ints(c.zero, added)
       \o Floats(c.scale, <<"L1", "R0", "L2">>) \o Limits(<<"L1", "R0", "L2">>)
       \o Of(c.reverse, <<"L1", "R0", "L2">>)
       \o <<Int32(c.pin["G"]), Int32(c.freq["G"]), Int32(c.zero["G"])>>

default_setting(build) ==
  LET ESP32 == <<69, 83, 80, 51, 50>>
      tcode == <<116, 99, 111, 100, 101>>
      zero == Number(0)
      Numbers(s) == [i \in DOMAIN s |-> Int32(s[i])]
  IN <<<<<<>>, <<>>, zero, zero, zero, TRUE, ESP32, <<>>, zero,
         Number(8000), Number(8000)>>,
       ServoMessage(getDefaultServoConfig(build)),
       <<zero, zero, zero>>, <<tcode>>, <<TRUE>>, Numbers(<<4, 6, 7, -1>>),
       <<Float(20), Float(0), Float(0), Float(0), FALSE,
         Numbers(<<100, 5000, 50, 300, 10, 0>>), FALSE>>,
       InitZero("MIT")>>
=============================================================================
