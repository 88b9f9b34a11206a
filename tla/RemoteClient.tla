---------------------------- MODULE RemoteClient ----------------------------
(***************************************************************************)
(* The host's typed view of a device, generated from its data sheet: the   *)
(* PDO codec and its dispatch (pdo_client_codegen.rs) and the SDO methods  *)
(* (sdo_client_codegen.rs) with the driver's conversions (sdo/driver.rs).  *)
(***************************************************************************)
EXTENDS EdsFile

(* effective_cob_id_spec(): the identifier without its flag bits, and the  *)
(* predefined one where the sheet gives none.                              *)
EffectiveCob(pdo) ==
    IF pdo.cob # NoCob THEN Cob(pdo.cob.rel, pdo.cob.v)
    ELSE IF pdo.number <= 4 THEN Cob(TRUE, PredefinedBase(pdo))
    ELSE NoCob

(* cob_id_expr() *)
CobUsable(c) == c # NoCob /\ (IF c.rel THEN c.v + 127 <= \h7FF ELSE c.v <= \h7FF)
ClientCob(pdo, node) == EffectiveCob(pdo).v + (IF EffectiveCob(pdo).rel THEN node ELSE 0)

MappedPdos(def) == SelectSeq(def.pdos, LAMBDA p : p.maps # <<>>)

(* A PDO that is off in the sheet keeps its codec but claims no frames.    *)
DispatchPdos(def) == SelectSeq(MappedPdos(def), LAMBDA p : ~p.cob.off)
DispatchTpdos(def) == SelectSeq(DispatchPdos(def), LAMBDA p : p.dir = "tpdo")

Fields(def, pdo) ==
    LET flat == Flatten(def.entries)
        maps == ResolveMappings(pdo, flat)
        VarOf(m) == SelectSeq(flat, LAMBDA f : f.at = <<m.index, m.sub>>)[1].var
    IN  MappedFields(maps, [m \in {n \in Range(maps) : ~IsDummy(n.index)} |-> VarOf(m)])

(* generate_parts(): what the macro makes a client for.                    *)
ClientGenerates(def) ==
    LET active == DispatchPdos(def)
    IN  /\ \A i, j \in DOMAIN active : i # j => EffectiveCob(active[i]) # EffectiveCob(active[j])
        /\ \A p \in Range(MappedPdos(def)) :
              /\ Resolvable(p, Flatten(def.entries))
              /\ FieldsOk(Fields(def, p))
              /\ CobUsable(EffectiveCob(p))

(* node_id_dependent_collision(): a fixed and a relative identifier that   *)
(* are the same for some node.                                             *)
MayCollide(p, q) ==
    LET c == EffectiveCob(p)
        d == EffectiveCob(q)
    IN  c.rel # d.rel /\ (IF c.rel THEN d.v - c.v ELSE c.v - d.v) \in 1..127

(* decode(): the number of the TPDO a frame is, with its fields' values;   *)
(* 0 is Ok(None), -1 an error.                                             *)
Decoded(as, values) == [as |-> as, values |-> values]

Decode(def, node, cob, data) ==
    LET named == SelectSeq(DispatchTpdos(def), LAMBDA p : ClientCob(p, node) = cob)
    IN  IF \E p, q \in Range(named) : MayCollide(p, q) THEN Decoded(-1, <<>>)
        ELSE IF named = <<>> THEN Decoded(0, <<>>)
        ELSE LET maps == ResolveMappings(named[1], Flatten(def.entries))
                 values == DecodeTpdo(maps, Fields(def, named[1]), data)
             IN  Decoded(IF values = <<>> THEN -1 ELSE named[1].number, values)

(* The methods rpdoN: a frame from a payload.                              *)
Encode(def, pdo, payload) ==
    EncodeRpdo(ResolveMappings(pdo, Flatten(def.entries)), Fields(def, pdo), payload)

-----------------------------------------------------------------------------
(* gen_var_methods() and gen_array_methods(): the objects with a typed     *)
(* method to read or to write them.                                        *)
TypedReads(def) ==
    {a \in UserAddresses(def) : VarAt(def, a).access # "wo" /\ ~VariableLength(VarAt(def, a).ty)}
TypedWrites(def) ==
    {a \in UserAddresses(def) : VarAt(def, a).access \in {"rw", "wo"} /\ ~VariableLength(VarAt(def, a).ty)}

(* read_fixed() and the conversions around it; a value of another width is *)
(* a protocol error.                                                       *)
TypedRead(ty, data) ==
    IF Len(data) # 8 * TypeSize[ty] THEN NoData
    ELSE CASE ty = "bool" -> IntBits(IF BitsInt(data) # 0 THEN 1 ELSE 0, 8)
           [] ty = "i24" -> data \o [i \in 1..8 |-> data[24]]
           [] ty = "u24" -> data \o Zeros(8)
           [] OTHER -> data

TypedWrite(ty, value) == SubSeq(value, 1, 8 * TypeSize[ty])
=============================================================================
