------------------------------ MODULE Msgpack ------------------------------
(***************************************************************************)
(* The MessagePack encoder and decoder (src/shared/rns/msgpack.js), whose  *)
(* bytes LXMF hashes and signs.  A value is a pair of its type and what it *)
(* holds:                                                                  *)
(*                                                                         *)
(*   int: a number, which in TLC has 32 bits, so the 64-bit forms and the  *)
(*        unsigned ones from 2^31 on are left out; float: its eight bytes; *)
(*   str: its UTF-8 bytes; bin: bytes; array: a sequence of values;        *)
(*   map: to be packed, a sequence of pairs; unpacked, the set of pairs.   *)
(***************************************************************************)
EXTENDS Integers, Sequences

LOCAL INSTANCE SequencesExt

CONSTANT Values    \* values to pack

Nothing == <<"nothing">>

(* A reader: what was read, and the offset after it.                       *)
Read(v, next) == [value |-> v, next |-> next]

VARIABLES
  value,     \* the value packed, or none yet
  packed,    \* its bytes
  unpacked   \* what unpack() makes of them

msgpackVars == <<value, packed, unpacked>>

Byte == 0 .. 255

MsgpackTypeOK == packed \in Seq(Byte) /\ unpacked.next \in Nat

MsgpackInit == value = Nothing /\ packed = <<>> /\ unpacked = Read(Nothing, 0)

---------------------------------------------------------------------------
(* pushBE() of num's two's complement, and readBE().                       *)
pushBE(byteLength, num) ==
  [i \in 1 .. byteLength |-> (num \div 256 ^ (byteLength - i)) % 256]

Number(bytes) == FoldLeft(LAMBDA n, b : 256 * n + b, 0, bytes)

Signed(bytes) ==
  LET top == IF bytes[1] >= 128 THEN bytes[1] - 256 ELSE bytes[1]
  IN  FoldLeft(LAMBDA n, b : 256 * n + b, top, Tail(bytes))

writeInt(n) ==
  IF n >= 0 THEN
    IF n < 128 THEN <<n>>
    ELSE IF n < 256 THEN <<204, n>>
    ELSE IF n < 65536 THEN <<205>> \o pushBE(2, n) ELSE <<206>> \o pushBE(4, n)
  ELSE
    IF n >= -32 THEN <<n % 256>>
    ELSE IF n >= -128 THEN <<208, n % 256>>
    ELSE IF n >= -32768 THEN <<209>> \o pushBE(2, n) ELSE <<210>> \o pushBE(4, n)

(* Tag and length: in the tag itself below fixed, then in 1, 2 or 4 bytes, *)
(* where tags has 0 for a width the type does not have.                    *)
Header(len, fixTag, fixed, tags) ==
  IF len < fixed THEN <<fixTag + len>>
  ELSE IF len < 256 /\ tags[1] # 0 THEN <<tags[1], len>>
  ELSE IF len < 65536 THEN <<tags[2]>> \o pushBE(2, len) ELSE <<tags[3]>> \o pushBE(4, len)

writeString(bytes) == Header(Len(bytes), 160, 32, <<217, 218, 219>>) \o bytes
writeBinary(bytes) == Header(Len(bytes), 0, 0, <<196, 197, 198>>) \o bytes
ArrayHeader(len) == Header(len, 144, 16, <<0, 220, 221>>)
MapHeaderTo16(len) == Header(len, 128, 17, <<0, 222, 223>>)    \* mutant

MapHeader(len) == Header(len, 128, 16, <<0, 222, 223>>)

RECURSIVE writeValue(_)
writeValue(v) ==
  CASE v[1] = "nil" -> <<192>>
    [] v[1] = "bool" -> IF v[2] THEN <<195>> ELSE <<194>>
    [] v[1] = "float" -> <<203>> \o v[2]
    [] v[1] = "int" -> writeInt(v[2])
    [] v[1] = "str" -> writeString(v[2])
    [] v[1] = "bin" -> writeBinary(v[2])
    [] v[1] = "array" ->
         FoldLeft(LAMBDA bytes, x : bytes \o writeValue(x), ArrayHeader(Len(v[2])), v[2])
    [] v[1] = "map" ->
         FoldLeft(LAMBDA bytes, x : bytes \o writeValue(x[1]) \o writeValue(x[2]),
                  MapHeader(Len(v[2])), v[2])

---------------------------------------------------------------------------
readBytes(bytes, at, length) == SubSeq(bytes, at, at + length - 1)

(* A property name of an object is a string, whatever the key was.         *)
PropertyName(key) == IF key[1] = "int" THEN <<"str", <<48 + key[2]>>>> ELSE key

RECURSIVE readValue(_, _)

(* Elements of an array, and entries of a map, of which the last with a    *)
(* name counts.                                                            *)
readArray(bytes, at, length) ==
  LET step(r, i) == LET x == readValue(bytes, r.next)
                    IN  Read(<<"array", Append(r.value[2], x.value)>>, x.next)
  IN  FoldLeft(step, Read(<<"array", <<>>>>, at), [i \in 1 .. length |-> i])

readMap(bytes, at, length) ==
  LET step(r, i) == LET k == readValue(bytes, r.next)
                        x == readValue(bytes, k.next)
                        name == PropertyName(k.value)
                    IN  Read(<<"map", {e \in r.value[2] : e[1] # name} \cup {<<name, x.value>>}>>,
                             x.next)
  IN  FoldLeft(step, Read(<<"map", {}>>, at), [i \in 1 .. length |-> i])

readValue(bytes, at) ==
  LET tag == bytes[at]
      len(width) == Number(readBytes(bytes, at + 1, width))
      raw(type, start, length) == Read(<<type, readBytes(bytes, start, length)>>, start + length)
      sized(type, width) == raw(type, at + 1 + width, len(width))
      signed(width) == Read(<<"int", Signed(readBytes(bytes, at + 1, width))>>, at + 1 + width)
      unsigned(width) == Read(<<"int", len(width)>>, at + 1 + width)
  IN  CASE tag <= 127 -> Read(<<"int", tag>>, at + 1)
        [] tag >= 224 -> Read(<<"int", tag - 256>>, at + 1)
        [] tag \in 128 .. 143 -> readMap(bytes, at + 1, tag - 128)
        [] tag \in 144 .. 159 -> readArray(bytes, at + 1, tag - 144)
        [] tag \in 160 .. 191 -> raw("str", at + 1, tag - 160)
        [] tag = 192 -> Read(<<"nil">>, at + 1)
        [] tag \in {194, 195} -> Read(<<"bool", tag = 195>>, at + 1)
        [] tag \in 196 .. 198 -> sized("bin", 2 ^ (tag - 196))
        [] tag = 203 -> raw("float", at + 1, 8)
        [] tag \in 204 .. 206 -> unsigned(2 ^ (tag - 204))
        [] tag \in 208 .. 210 -> signed(2 ^ (tag - 208))
        [] tag \in 217 .. 219 -> sized("str", 2 ^ (tag - 217))
        [] tag \in {220, 221} -> readArray(bytes, at + 1 + 2 * (tag - 219), len(2 * (tag - 219)))
        [] tag \in {222, 223} -> readMap(bytes, at + 1 + 2 * (tag - 221), len(2 * (tag - 221)))

---------------------------------------------------------------------------
Pack ==
  /\ value = Nothing
  /\ value' \in Values
  /\ packed' = writeValue(value')
  /\ UNCHANGED unpacked

Unpack ==
  /\ value # Nothing /\ unpacked.value = Nothing
  /\ unpacked' = readValue(packed, 1)
  /\ UNCHANGED <<value, packed>>

MsgpackNext == Pack \/ Unpack

MsgpackSpec == MsgpackInit /\ [][MsgpackNext]_msgpackVars

---------------------------------------------------------------------------
(* What unpack() returns for the bytes of a value: keys become strings.    *)
RECURSIVE AsObject(_)
AsObject(v) ==
  CASE v[1] = "array" -> <<"array", [i \in DOMAIN v[2] |-> AsObject(v[2][i])]>>
    [] v[1] = "map" -> <<"map", {<<PropertyName(v[2][i][1]), AsObject(v[2][i][2])>> : i \in DOMAIN v[2]}>>
    [] OTHER -> v

(* Whatever was packed comes back, through every change of format at the   *)
(* limits of the lengths and numbers, and the reader stops exactly behind  *)
(* it: nothing of a nested value is left for the next one.                 *)
PackedReturns ==
  unpacked.value # Nothing =>
    unpacked = Read(AsObject(value), Len(packed) + 1)
=============================================================================
