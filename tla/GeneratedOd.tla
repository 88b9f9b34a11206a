----------------------------- MODULE GeneratedOd ----------------------------
(***************************************************************************)
(* The object dictionary that object_dictionary! generates for an accepted *)
(* definition (codegen.rs, generate): new, lookup, read, write, sub_count  *)
(* and the PDO configurations, and what the PDO engines do with them.      *)
(***************************************************************************)
EXTENDS OdDefs, TLC

(* How many mapping entries of a PDO are objects: all there can be, or     *)
(* those declared when the mapping is fixed.                               *)
MappingSlots(pdo) == IF pdo.kind = "mutable" THEN MaxMappings ELSE Len(pdo.maps)

CommSubs(pdo) == IF pdo.dir = "tpdo" THEN {0, 1, 2, 3, 5} ELSE {0, 1, 2, 5}

UserAddresses(def) == UNION {{<<e.index, s.sub>> : s \in Range(e.subs)} : e \in Range(def.entries)}
CountAddresses(def) == {<<e.index, 0>> : e \in {e \in Range(def.entries) : e.kind # "var"}}
CommAddresses(def) == UNION {{<<CommIndex(p), s>> : s \in CommSubs(p)} : p \in Range(def.pdos)}
MapAddresses(def) == UNION {{<<MapIndex(p), s>> : s \in 0..MappingSlots(p)} : p \in Range(def.pdos)}
ServerAddresses(def) == UNION {{<<ServerIndex(s), i>> : i \in 0..2} : s \in def.servers}

Addresses(def) ==
    UserAddresses(def) \cup CountAddresses(def) \cup CommAddresses(def) \cup MapAddresses(def)
        \cup ServerAddresses(def) \cup {<<StoreFormat, 0>>}

EntryAt(def, a) == CHOOSE e \in Range(def.entries) : e.index = a[1]
VarAt(def, a) == CHOOSE s \in Range(EntryAt(def, a).subs) : s.sub = a[2]
PdoAt(def, a) == CHOOSE p \in Range(def.pdos) : a[1] \in {CommIndex(p), MapIndex(p)}
ServerAt(def, a) == CHOOSE s \in def.servers : ServerIndex(s) = a[1]

(* lookup(): the static table of types and access rights.                  *)
Meta(def, a) ==
    CASE a \in UserAddresses(def) ->
            LET v == VarAt(def, a) IN [ty |-> v.ty, access |-> v.access, pdo |-> v.pdo]
      [] a \in CommAddresses(def) ->
            [ty |-> (0 :> "u8" @@ 1 :> "u32" @@ 2 :> "u8" @@ 3 :> "u16" @@ 5 :> "u16")[a[2]],
             access |-> IF a[2] = 0 THEN "ro" ELSE "rw", pdo |-> FALSE]
      [] a \in MapAddresses(def) ->
            [ty |-> IF a[2] = 0 THEN "u8" ELSE "u32",
             access |-> IF PdoAt(def, a).kind = "mutable" THEN "rw" ELSE "const", pdo |-> FALSE]
      [] a \in ServerAddresses(def) ->
            [ty |-> IF a[2] = 0 THEN "u8" ELSE "u32", access |-> "ro", pdo |-> FALSE]
      [] OTHER -> [ty |-> "u8", access |-> "ro", pdo |-> FALSE]

(* sub_count(): the highest sub-index, which is also what sub-index 0 of a *)
(* record or an array reads.                                               *)
SubCount(def, index) == Max({a[2] : a \in {a \in Addresses(def) : a[1] = index}})

-----------------------------------------------------------------------------
(* new(). A COB-ID that depends on the node is stored as 0.                *)
StoredCob(c) ==
    IF c = NoCob \/ c.rel THEN Zeros(32) ELSE [IntBits(c.v, 32) EXCEPT ![32] = IF c.off THEN 1 ELSE 0]

InitialOf(var) ==
    CASE var.default.form = "none" -> IF VariableLength(var.ty) THEN <<>> ELSE Zeros(ReprBits(var.ty))
      [] var.default.form = "str" -> StringBits(var.default.v)
      [] var.default.form = "not" ->
            IF var.ty = "bool" THEN IntBits(1 - var.default.v, 8)
            ELSE IntBits(-var.default.v - 1, ReprBits(var.ty))
      [] OTHER -> IntBits(var.default.v, ReprBits(var.ty))

InitialComm(pdo, sub) ==
    CASE sub = 0 -> IntBits(5, 8)
      [] sub = 1 -> StoredCob(pdo.cob)
      [] sub = 2 -> IntBits(pdo.tt, 8)
      [] sub = 3 -> IntBits(pdo.inhibit, 16)
      [] sub = 5 -> IntBits(pdo.event, 16)

InitialMap(def, pdo, sub) ==
    LET maps == ResolveMappings(pdo, Flatten(def.entries))
    IN  IF sub = 0 THEN IntBits(Len(maps), 8)
        ELSE IF sub <= Len(maps) THEN IntBits(Raw(maps[sub]), 32)
        ELSE Zeros(32)

InitialServer(s, sub) ==
    CASE sub = 0 -> IntBits(2, 8)
      [] sub = 1 -> StoredCob(s.rx)
      [] sub = 2 -> StoredCob(s.tx)

NewOd(def) ==
    [a \in Addresses(def) |->
        CASE a \in UserAddresses(def) -> InitialOf(VarAt(def, a))
          [] a \in CountAddresses(def) -> IntBits(SubCount(def, a[1]), 8)
          [] a \in CommAddresses(def) -> InitialComm(PdoAt(def, a), a[2])
          [] a \in MapAddresses(def) -> InitialMap(def, PdoAt(def, a), a[2])
          [] a \in ServerAddresses(def) -> InitialServer(ServerAt(def, a), a[2])
          [] OTHER -> IntBits(128, 8)]

-----------------------------------------------------------------------------
(* read(): the wire width of the value.                                    *)
ReadOd(def, od, a) ==
    IF a \notin DOMAIN od THEN NoData
    ELSE LET meta == Meta(def, a) IN
         IF meta.access = "wo" THEN NoData
         ELSE IF VariableLength(meta.ty) THEN od[a]
         ELSE SubSeq(od[a], 1, 8 * TypeSize[meta.ty])

(* validate_mapping_target()                                               *)
Eligible(def, m, receive) ==
    \/ IsDummy(m.index)
    \/ /\ <<m.index, m.sub>> \in Addresses(def)
       /\ LET meta == Meta(def, <<m.index, m.sub>>)
          IN  meta.pdo /\ (IF receive THEN meta.access \in {"wo", "rw"} ELSE meta.access # "wo")

Descriptor(bits) ==
    [index |-> BitsInt(SubSeq(bits, 17, 32)), sub |-> BitsInt(SubSeq(bits, 9, 16)),
     bits |-> BitsInt(SubSeq(bits, 1, 8))]

MappingOf(od, pdo, count) == [i \in 1..count |-> Descriptor(od[<<MapIndex(pdo), i>>])]

CountWrite(def, od, pdo, data) ==
    LET count == BitsInt(data)
    IN  IF Len(data) # 8 THEN "DataTypeMismatch"
        ELSE IF count > MaxMappings THEN "ValueRange"
        ELSE LET maps == MappingOf(od, pdo, count) IN
             IF \E i \in 1..count : ~Eligible(def, maps[i], pdo.dir = "rpdo") THEN "CannotBeMapped"
             ELSE IF TotalBits(maps) > PDO_MAX_PAYLOAD_BITS THEN "ValueRange"
             ELSE "ok"

(* A mutant: an entry may be rewritten while the mapping is active.        *)
EntryWriteAnytime(od, pdo, data) ==
    IF Len(data) # 32 THEN "DataTypeMismatch"
    ELSE IF Descriptor(data).bits > PDO_MAX_PAYLOAD_BITS THEN "ValueRange"
    ELSE "ok"

EntryWrite(od, pdo, data) ==
    IF BitsInt(od[<<MapIndex(pdo), 0>>]) # 0 THEN "ReadOnly"
    ELSE IF Len(data) # 32 THEN "DataTypeMismatch"
    ELSE IF Descriptor(data).bits > PDO_MAX_PAYLOAD_BITS THEN "ValueRange"
    ELSE "ok"

FixedWrite(ty, data) == IF Len(data) # 8 * TypeSize[ty] THEN "DataTypeMismatch" ELSE "ok"

CommWrite(a, ty, data) ==
    IF FixedWrite(ty, data) # "ok" THEN "DataTypeMismatch"
    ELSE IF a[2] = 2 /\ BitsInt(data) \in 241..253 THEN "ValueRange"
    ELSE "ok"

(* write(): the outcome, and the value that is kept when it is "ok".       *)
WriteOutcome(def, od, a, data) ==
    IF a \notin DOMAIN od THEN "NotFound"
    ELSE LET meta == Meta(def, a) IN
         IF meta.access \in {"ro", "const"} THEN "ReadOnly"
         ELSE IF a \in MapAddresses(def)
              THEN IF a[2] = 0 THEN CountWrite(def, od, PdoAt(def, a), data)
                   ELSE EntryWrite(od, PdoAt(def, a), data)
         ELSE IF a \in CommAddresses(def) THEN CommWrite(a, meta.ty, data)
         ELSE IF VariableLength(meta.ty) THEN IF Len(data) > StringCap THEN "ValueTooLong" ELSE "ok"
         ELSE FixedWrite(meta.ty, data)

Kept(ty, data) ==
    CASE ty = "bool" -> IntBits(IF BitsInt(data) # 0 THEN 1 ELSE 0, 8)
      [] ty = "i24" -> data \o [i \in 1..8 |-> data[24]]
      [] ty = "u24" -> data \o Zeros(8)
      [] OTHER -> data

WriteOd(def, od, a, data) ==
    IF WriteOutcome(def, od, a, data) = "ok" THEN [od EXCEPT ![a] = Kept(Meta(def, a).ty, data)] ELSE od

-----------------------------------------------------------------------------
(* tpdo_configs() and rpdo_configs(): a stored COB-ID of 0 is the one the  *)
(* declaration gives for this node, bit 31 disables.                       *)
PredefinedBase(pdo) == (IF pdo.dir = "tpdo" THEN \h180 ELSE \h200) + \h100 * (pdo.number - 1)

DefaultCob(pdo, node) ==
    IF pdo.cob # NoCob /\ pdo.cob.rel THEN pdo.cob.v + node
    ELSE IF pdo.number <= 4 THEN PredefinedBase(pdo) + node
    ELSE 0

ConfigOf(od, pdo, cob, enabled) ==
    [cob |-> cob, enabled |-> enabled,
     tt |-> BitsInt(od[<<CommIndex(pdo), 2>>]), event |-> BitsInt(od[<<CommIndex(pdo), 5>>]),
     inhibit |-> IF pdo.dir = "tpdo" THEN BitsInt(od[<<CommIndex(pdo), 3>>]) ELSE 0,
     mappings |-> MappingOf(od, pdo, BitsInt(od[<<MapIndex(pdo), 0>>]))]

FirstConfig(od, pdo, node) ==
    LET raw == od[<<CommIndex(pdo), 1>>]
        cob == IF raw = Zeros(32) THEN DefaultCob(pdo, node) ELSE BitsInt(SubSeq(raw, 1, 11))
    IN  ConfigOf(od, pdo, cob, raw[32] = 0 /\ cob # 0)

(* Node::new writes what was resolved back into the dictionary, and the    *)
(* identifiers of the SDO servers too (write_pdo_cob_ids_to_od,            *)
(* store_sdo_server_cob_ids).                                              *)
ResolvedCob(config) == [IntBits(config.cob, 32) EXCEPT ![32] = IF config.enabled THEN 0 ELSE 1]

WithPdoCobs(def, od, node) ==
    [a \in DOMAIN od |->
        IF a \in CommAddresses(def) /\ a[2] = 1 THEN ResolvedCob(FirstConfig(od, PdoAt(def, a), node))
        ELSE od[a]]

WithServerCobs(def, od, node) ==
    LET Resolved(c) == IntBits(IF c.rel THEN c.v + node ELSE c.v, 32)
    IN  [a \in DOMAIN od |->
            IF a \in ServerAddresses(def) /\ a[2] = 1 THEN Resolved(ServerAt(def, a).rx)
            ELSE IF a \in ServerAddresses(def) /\ a[2] = 2 THEN Resolved(ServerAt(def, a).tx)
            ELSE od[a]]

(* sync_pdo_from_od(): from then on the dictionary alone decides.          *)
SyncedConfig(od, pdo) ==
    LET raw == od[<<CommIndex(pdo), 1>>]
        cob == BitsInt(SubSeq(raw, 1, 11))
    IN  ConfigOf(od, pdo, cob, raw[32] = 0 /\ cob # 0)

(* The engines: a TPDO is built from what the dictionary reads, an RPDO's  *)
(* objects are written one after another, what is refused is passed over.  *)
TpdoFrame(def, od, config) ==
    BuildFrame(config.mappings,
               [m \in Range(config.mappings) |-> ReadOd(def, od, <<m.index, m.sub>>)])

RpdoApplied(def, od, config, data) ==
    LET TypeAt(m) == IF <<m.index, m.sub>> \notin Addresses(def) THEN NoType
                     ELSE LET ty == Meta(def, <<m.index, m.sub>>).ty
                          IN  IF VariableLength(ty) THEN NoType ELSE ty
    IN  IF ~RightLength(config.mappings, data) THEN od
        ELSE FoldLeft(LAMBDA o, w : WriteOd(def, o, w.at, w.data), od,
                      ApplyMapped(config.mappings, data,
                                  [m \in Range(config.mappings) |-> TypeAt(m)]))
=============================================================================
