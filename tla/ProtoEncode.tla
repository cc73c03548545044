---------------------------- MODULE ProtoEncode ----------------------------
(***************************************************************************)
(* pb_encode, which turns a message into bytes.                            *)
(***************************************************************************)
EXTENDS ProtoMessages

(* As few digits as the value has, all but the last with the high bit.     *)
EncodeVarint(w) ==
  LET used == {i \in 1..10 : w[i] # 0}
      n == IF used = {} THEN 1 ELSE Max(used)
  IN [i \in 1..n |-> IF i < n THEN w[i] + 128 ELSE w[i]]

EncodeTag(type, tag) == EncodeVarint(Number(8 * tag + type))
EncodeString(bytes) == EncodeVarint(Number(Len(bytes))) \o bytes

(* encode_field leaves a proto3 field out when its value is the default.   *)
IsOmitted(field, v) == field.htype = "SINGULAR" /\ v = FieldZero(field)

RECURSIVE Encode(_, _)
EncodeContents(field, v) ==
  CASE field.ltype = "BOOL" -> EncodeVarint(Number(IF v THEN 1 ELSE 0))
    [] field.ltype \in {"VARINT", "UVARINT"} -> EncodeVarint(v)
    [] field.ltype \in {"FIXED32", "FIXED64"} -> v
    [] field.ltype = "STRING" -> EncodeString(v)
    [] OTHER -> EncodeString(Encode(field.submsg_desc, v))

EncodeField(field, tag, v) ==
  IF IsOmitted(field, v) THEN <<>>
  ELSE EncodeTag(WireType(field), tag) \o EncodeContents(field, v)

(* pb_encode walks the field list in order; a message that lacks a tag is  *)
(* one an older firmware, without that field, has written.                 *)
EncodeInOrder(d, v, order) ==
  FlattenSeq([i \in DOMAIN order |->
                EncodeField(FieldList[d][order[i]], order[i], v[order[i]])])

TagsOf(d, v) == SelectSeq([t \in DOMAIN FieldList[d] |-> t],
                          LAMBDA t : t \in DOMAIN v)
Encode(d, v) == EncodeInOrder(d, v, TagsOf(d, v))

(* SettingWrapper::encode: the buffer has Setting_size bytes, or pb_encode *)
(* fails.                                                                  *)
FitsBuffer(setting) == Len(Encode("Setting", setting)) <= Setting_size
=============================================================================
