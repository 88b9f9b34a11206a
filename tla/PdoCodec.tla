------------------------------ MODULE PdoCodec ------------------------------
(***************************************************************************)
(* The data types of the object dictionary and the packing of objects into *)
(* process data, on the device (canopen-core, pdo/mod.rs and               *)
(* pdo/engine.rs) and in the remote client the macros generate             *)
(* (pdo_client_codegen.rs).                                                *)
(*                                                                         *)
(* A value is the sequence of its bits, least significant first; a frame's *)
(* data is the sequence of the bits of its bytes. A mapping is a record of *)
(* index, sub-index and number of bits.                                    *)
(***************************************************************************)
EXTENDS Integers, Sequences, SequencesExt

PDO_MAX_PAYLOAD_BITS == 64

VariableLength(ty) == ty = "visible_string"

(* Bytes on the wire; a string has no fixed size.                          *)
TypeSize == [bool |-> 1, u8 |-> 1, i8 |-> 1, u16 |-> 2, i16 |-> 2, u24 |-> 3, i24 |-> 3,
             u32 |-> 4]

IsSigned(ty) == ty \in {"i8", "i16", "i24"}

(* The Rust type a field is kept in: 24-bit integers take 32 bits.         *)
ReprBits(ty) == IF TypeSize[ty] = 3 THEN 32 ELSE 8 * TypeSize[ty]

(* Two's complement of a number of at most 32 bits, and back again.        *)
IntBits(v, n) ==
    [i \in 1..n |-> IF i > 31 THEN IF v < 0 THEN 1 ELSE 0 ELSE (v \div 2^(i - 1)) % 2]

BitsInt(bits) == FoldRight(LAMBDA b, n : 2 * n + b, bits, 0)

Zeros(n) == [i \in 1..n |-> 0]

BytesForBits(n) == (n + 7) \div 8

(* CiA 301 dummy entries: padding without an object.                       *)
IsDummy(index) == index \in 1..7

CopyBits(src, from, dst, to, n) ==
    [i \in DOMAIN dst |-> IF i \in (to + 1)..(to + n) THEN src[i - to + from] ELSE dst[i]]

SignExtend(value, bits) ==
    IF bits = 0 \/ bits >= Len(value) THEN value
    ELSE IF value[bits] = 0 THEN value
    ELSE [i \in DOMAIN value |-> IF i > bits THEN 1 ELSE value[i]]

TotalBits(mappings) == FoldLeft(LAMBDA n, m : n + m.bits, 0, mappings)

-----------------------------------------------------------------------------
(* The device: a TPDO is built from what the objects read as. read[m] is   *)
(* the data of the object a mapping names, or NoData when there is none to *)
(* read; a frame that cannot be built is NoData as well.                   *)
NoData == <<2>>

(* A mutant: every object begins at a byte of its own.                     *)
PackObjectAligned(acc, m, data) ==
    LET from == 8 * BytesForBits(acc.offset)
    IN  IF acc.failed \/ data = NoData \/ from + m.bits > PDO_MAX_PAYLOAD_BITS
        THEN [acc EXCEPT !.failed = TRUE]
        ELSE [acc EXCEPT !.offset = from + m.bits, !.data = CopyBits(data, 0, acc.data, from, m.bits)]

PackObject(acc, m, data) ==
    LET end == acc.offset + m.bits
    IN  IF acc.failed \/ end > PDO_MAX_PAYLOAD_BITS THEN [acc EXCEPT !.failed = TRUE]
        ELSE IF IsDummy(m.index) THEN [acc EXCEPT !.offset = end]
        ELSE IF data = NoData THEN [acc EXCEPT !.failed = TRUE]
        ELSE IF Len(data) < m.bits THEN [acc EXCEPT !.failed = TRUE]
        ELSE [acc EXCEPT !.offset = end,
                         !.data = CopyBits(data, 0, acc.data, acc.offset, m.bits)]

BuildFrame(mappings, read) ==
    LET built == FoldLeft(LAMBDA acc, m : PackObject(acc, m, read[m]),
                          [offset |-> 0, data |-> Zeros(PDO_MAX_PAYLOAD_BITS), failed |-> FALSE],
                          mappings)
    IN  IF built.failed THEN NoData ELSE SubSeq(built.data, 1, 8 * BytesForBits(built.offset))

(* An RPDO is taken apart along its mappings; an object narrower than its  *)
(* size is widened, with its sign if it has one. The result is the         *)
(* sequence of the writes to the object dictionary. types[m] is the type   *)
(* of the object, NoType if it is unknown or of variable length.           *)
NoType == "none"

Widened(m, bits, ty) ==
    LET object == 8 * BytesForBits(m.bits)
        size == IF ty = NoType THEN 0 ELSE 8 * TypeSize[ty]
        wide == [i \in 1..size |-> IF i <= Len(bits) THEN bits[i] ELSE 0]
    IN  IF size < object THEN bits \o Zeros(object - Len(bits))
        ELSE IF IsSigned(ty) THEN SignExtend(wide, m.bits)
        ELSE wide

UnpackObject(acc, m, data, ty) ==
    LET end == acc.offset + m.bits
    IN  IF acc.stopped \/ end > Len(data) THEN [acc EXCEPT !.stopped = TRUE]
        ELSE IF IsDummy(m.index) THEN [acc EXCEPT !.offset = end]
        ELSE [acc EXCEPT !.offset = end,
                         !.writes = Append(@, [at |-> <<m.index, m.sub>>,
                                               data |-> Widened(m, SubSeq(data, acc.offset + 1, end), ty)])]

ApplyMapped(mappings, data, types) ==
    FoldLeft(LAMBDA acc, m : UnpackObject(acc, m, data, types[m]),
             [offset |-> 0, writes |-> <<>>, stopped |-> FALSE], mappings).writes

(* An RPDO of another length than its mapping's is not applied.            *)
RightLength(mappings, data) ==
    /\ TotalBits(mappings) <= PDO_MAX_PAYLOAD_BITS
    /\ Len(data) = 8 * BytesForBits(TotalBits(mappings))

-----------------------------------------------------------------------------
(* The remote client: fields of a typed payload, each with its place.      *)
WireBits(ty) == 8 * TypeSize[ty]

(* The fields of a PDO's payload: what is mapped, dummies only move the    *)
(* offset. A field of more bits than its object has, or a second field of  *)
(* one name, refuses the client. mapped[m] is the variable at the address. *)
MappedFields(mappings, mapped) ==
    FoldLeft(LAMBDA acc, m :
                 IF IsDummy(m.index) THEN [acc EXCEPT !.offset = @ + m.bits]
                 ELSE [offset |-> acc.offset + m.bits,
                       fields |-> Append(acc.fields, [at |-> <<m.index, m.sub>>, name |-> mapped[m].name,
                                                      ty |-> mapped[m].ty, offset |-> acc.offset,
                                                      bits |-> m.bits])],
             [offset |-> 0, fields |-> <<>>], mappings).fields

FieldsOk(fields) ==
    /\ \A i \in DOMAIN fields :
          /\ fields[i].ty \in DOMAIN TypeSize
          /\ fields[i].bits <= WireBits(fields[i].ty)
    /\ \A i, j \in DOMAIN fields : i # j => fields[i].name # fields[j].name

(* The payload of an RPDO is the value of each field, in its Rust type.    *)
EncodeRpdo(mappings, fields, payload) ==
    LET data == FoldLeft(LAMBDA d, f : CopyBits(payload[f.at], 0, d, f.offset, f.bits),
                         Zeros(PDO_MAX_PAYLOAD_BITS), fields)
    IN  SubSeq(data, 1, 8 * BytesForBits(TotalBits(mappings)))

DecodeField(f, data) ==
    LET raw == CopyBits(data, f.offset, Zeros(ReprBits(f.ty)), 0, f.bits)
        top == IF f.ty = "i24" /\ f.bits > 24 THEN 24 ELSE f.bits
        signed == SignExtend(raw, top)
    IN  CASE f.ty = "bool" -> IntBits(IF \E i \in DOMAIN raw : raw[i] = 1 THEN 1 ELSE 0, 8)
          [] f.ty \in {"u8", "u16", "u24", "u32"} -> raw
          [] f.ty \in {"i8", "i16"} -> signed
          [] f.ty = "i24" -> [i \in 1..32 |-> IF i > 24 /\ signed[24] = 1 THEN 1 ELSE signed[i]]

DecodeTpdo(mappings, fields, data) ==
    IF Len(data) < 8 * BytesForBits(TotalBits(mappings)) THEN <<>>
    ELSE [a \in {fields[i].at : i \in DOMAIN fields} |->
             DecodeField(CHOOSE f \in {fields[i] : i \in DOMAIN fields} : f.at = a, data)]
=============================================================================
