------------------------------ MODULE EdsFile -------------------------------
(***************************************************************************)
(* The electronic data sheet of a device: how the macro writes it          *)
(* (eds_export.rs), how it is read back for a device or for a remote       *)
(* client (eds_parser.rs), and the readers' view of a default value.       *)
(*                                                                         *)
(* A file is a function from the addresses of its object sections to their *)
(* properties; the section of an index itself has sub-index Main. The text *)
(* of a value has a form ("empty", decimal, hexadecimal, string or an      *)
(* expression with $NODEID) and a number; "off" and "nodeid_off" are       *)
(* COB-IDs with bit 31 set.                                                *)
(***************************************************************************)
EXTENDS GeneratedOd

Main == -1

Text(form, v) == [form |-> form, v |-> v]
Empty == Text("empty", 0)

(* type_to_eds_code(), and datatype_to_rust() on the way back.             *)
EdsCode == [bool |-> 1, i8 |-> 2, i16 |-> 3, u8 |-> 5, u16 |-> 6, u32 |-> 7,
            visible_string |-> 9, i24 |-> 16, u24 |-> 22]

RustType(code) ==
    CASE code = 1 -> "bool" [] code = 2 -> "i8" [] code = 3 -> "i16" [] code = 5 -> "u8"
      [] code = 6 -> "u16" [] code = 7 -> "u32" [] code = 9 -> "visible_string"
      [] code = 16 -> "i24" [] code = 22 -> "u24" [] OTHER -> NoType

(* eds_default(): a literal keeps its spelling, an expression is evaluated *)
(* without a type, so that a complement is negative, and what cannot be    *)
(* evaluated is left empty.                                                *)
EdsDefault(var) ==
    CASE var.default.form = "none" -> Empty
      [] var.default.form = "path" -> Empty
      [] var.default.form = "str" ->
            IF var.default.v = 0 THEN Empty ELSE Text("str", var.default.v)
      [] var.default.form = "lit" -> Text("dec", var.default.v)
      [] var.default.form = "hex" -> Text("hex", var.default.v)
      [] var.default.form = "not" -> Text("dec", -var.default.v - 1)
      [] var.default.form = "expr" ->
            IF var.default.v < 0 THEN Text("dec", var.default.v) ELSE Text("hex", var.default.v)

(* Elements of an array are numbered, and written with the value they      *)
(* start with.                                                             *)
VarProps(kind, var) ==
    [name |-> IF kind = "array" THEN Append(var.name, ToString(var.sub)) ELSE var.name,
     object |-> 7, type |-> EdsCode[var.ty], access |-> var.access,
     pdo |-> var.pdo, default |-> IF kind = "array" THEN Text("dec", 0) ELSE EdsDefault(var)]

Header(name, object) ==
    [name |-> name, object |-> object, type |-> 0, access |-> "ro", pdo |-> FALSE, default |-> Empty]

Parameter(type, access, text) ==
    [name |-> <<"parameter">>, object |-> 7, type |-> type, access |-> access, pdo |-> FALSE, default |-> text]

CobText(c) == IF c.rel THEN Text("nodeid", c.v) ELSE Text("hex", c.v)

PdoCobText(pdo) == IF pdo.cob = NoCob THEN Text("nodeid", PredefinedBase(pdo)) ELSE CobText(pdo.cob)

(* The kinds of main sections: 7 a variable, 8 an array, 9 a record.       *)
ObjectType == [var |-> 7, array |-> 8, record |-> 9]

EntrySections(e) ==
    IF e.kind = "var" THEN <<e.index, Main>> :> VarProps(e.kind, e.subs[1])
    ELSE (<<e.index, Main>> :> Header(e.name, ObjectType[e.kind]))
         @@ (<<e.index, 0>> :> Parameter(5, "ro", Text("dec", Max({s.sub : s \in Range(e.subs)}))))
         @@ [a \in {<<e.index, s.sub>> : s \in Range(e.subs)} |->
               VarProps(e.kind, CHOOSE s \in Range(e.subs) : s.sub = a[2])]

PdoSections(pdo, maps) ==
    LET access == IF pdo.kind = "mutable" THEN "rw" ELSE "const"
        Comm(sub) == CASE sub = 0 -> Parameter(5, "ro", Text("dec", 5))
                       [] sub = 1 -> Parameter(7, "rw", PdoCobText(pdo))
                       [] sub = 2 -> Parameter(5, "rw", Text("hex", pdo.tt))
                       [] sub = 3 -> Parameter(6, "rw", Text("hex", pdo.inhibit))
                       [] sub = 5 -> Parameter(6, "rw", Text("hex", pdo.event))
        Map(sub) == IF sub = 0 THEN Parameter(5, access, Text("hex", Len(maps)))
                    ELSE Parameter(7, access, Text("hex", IF sub <= Len(maps) THEN Raw(maps[sub]) ELSE 0))
    IN  (<<CommIndex(pdo), Main>> :> Header(<<"comm">>, 9))
        @@ (<<MapIndex(pdo), Main>> :> Header(<<"map">>, 9))
        @@ [a \in {<<CommIndex(pdo), s>> : s \in CommSubs(pdo)} |-> Comm(a[2])]
        @@ [a \in {<<MapIndex(pdo), s>> : s \in 0..MappingSlots(pdo)} |-> Map(a[2])]

ServerSections(s) ==
    (<<ServerIndex(s), Main>> :> Header(<<"server">>, 9))
    @@ (<<ServerIndex(s), 0>> :> Parameter(5, "ro", Text("dec", 2)))
    @@ (<<ServerIndex(s), 1>> :> [Parameter(7, "ro", CobText(s.rx)) EXCEPT !.name = <<"rx">>])
    @@ (<<ServerIndex(s), 2>> :> [Parameter(7, "ro", CobText(s.tx)) EXCEPT !.name = <<"tx">>])

(* generate_eds() *)
Merge(files) == FoldLeft(LAMBDA f, g : f @@ g, <<>>, files)

Export(def) ==
    LET flat == Flatten(def.entries)
    IN  Merge([i \in DOMAIN def.entries |-> EntrySections(def.entries[i])])
        @@ Merge([i \in DOMAIN def.pdos |->
                     PdoSections(def.pdos[i], ResolveMappings(def.pdos[i], flat))])
        @@ Merge(SetToSeq({ServerSections(s) : s \in def.servers}))
        @@ (<<StoreEds, Main>> :> [Header(<<"store", "eds">>, 7) EXCEPT !.type = 15])
        @@ (<<StoreFormat, Main>> :> Parameter(5, "ro", Text("hex", 128)))

-----------------------------------------------------------------------------
(* normalize_default(): the number a text stands for, or nothing. A        *)
(* hexadecimal text is a bit pattern.                                      *)
Refused == [ok |-> FALSE, v |-> 0]
Number(v) == [ok |-> TRUE, v |-> v]

LowestOf(ty) == IF IsSigned(ty) THEN -(2^(8 * TypeSize[ty] - 1)) ELSE 0
SpanBits(ty) == IF IsSigned(ty) THEN 8 * TypeSize[ty] - 1 ELSE 8 * TypeSize[ty]
InRange(ty, v) == v >= LowestOf(ty) /\ (SpanBits(ty) >= 31 \/ v < 2^SpanBits(ty))

FromPattern(ty, v) ==
    LET bits == 8 * TypeSize[ty]
    IN  IF bits < 31 /\ v >= 2^bits THEN Refused
        ELSE IF IsSigned(ty) /\ v >= 2^(bits - 1) THEN Number(v - 2^bits)
        ELSE Number(v)

NormalizeDefault(ty, text) ==
    CASE text.form \in {"empty", "nodeid"} -> Number(0)
      [] text.form = "str" -> Refused
      [] text.form = "dec" ->
            IF ty = "bool" THEN IF text.v \in {0, 1} THEN Number(text.v) ELSE Refused
            ELSE IF InRange(ty, text.v) THEN Number(text.v) ELSE Refused
      [] text.form = "hex" -> IF ty = "bool" THEN Refused ELSE FromPattern(ty, text.v)

(* parse_var_entry(): entries of unknown types are passed over, a default  *)
(* that is no value of its type refuses the file.                          *)
ReadAccess(text) == IF text \in {"rwr", "rww"} THEN "rw" ELSE text

ImportedDefault(ty, text) ==
    IF VariableLength(ty)
    THEN IF text.form = "str" THEN [form |-> "str", v |-> text.v] ELSE NoDefault
    ELSE [form |-> "lit", v |-> NormalizeDefault(ty, text).v]

ImportVar(sub, name, props) ==
    LET ty == RustType(props.type)
    IN  [sub |-> sub, name |-> name, ty |-> ty, access |-> ReadAccess(props.access), pdo |-> props.pdo,
         default |-> ImportedDefault(ty, props.default)]

DefaultOk(props) ==
    LET ty == RustType(props.type)
    IN  ty = NoType \/ VariableLength(ty) \/ NormalizeDefault(ty, props.default).ok

UserSection(a) ==
    /\ a[1] \notin \h1400..\h1BFF
    /\ a[1] \notin {StoreEds, StoreFormat}

Known(props) == RustType(props.type) # NoType

(* The entries: variables from main sections, the rest from sub-sections,  *)
(* whose names get the record's in front. A long array of zeros is read as *)
(* an array, every other one as a record.                                  *)
SubSections(file, index) ==
    {a \in DOMAIN file : a[1] = index /\ a[2] > 0 /\ Known(file[a])}

ByAddress(as) == InOrder(as, LAMBDA a, b : a[1] < b[1] \/ (a[1] = b[1] /\ a[2] < b[2]))

ImportVariable(file, index) ==
    LET props == file[<<index, Main>>]
    IN  [index |-> index, name |-> props.name, kind |-> "var", subs |-> <<ImportVar(0, props.name, props)>>]

ImportRecord(file, index) ==
    LET at == ByAddress(SubSections(file, index))
        name == file[<<index, Main>>].name
        subs == [i \in DOMAIN at |-> ImportVar(at[i][2], name \o file[at[i]].name, file[at[i]])]
        zeros == \A s \in Range(subs) : s.default = NoDefault \/ s.default.v = 0
        array == file[<<index, Main>>].object = 8 /\ Len(subs) >= 4 /\ zeros
    IN  [index |-> index, name |-> name, kind |-> IF array THEN "array" ELSE "record",
         subs |-> IF array THEN ArraySubs(name, subs[1].ty, Len(subs), subs[1].access, subs[1].pdo)
                  ELSE subs]

ImportEntries(file) ==
    LET user == {a \in DOMAIN file : UserSection(a)}
        vars == {a[1] : a \in {a \in user : a[2] = Main /\ file[a].object = 7 /\ Known(file[a])}}
        records == {a[1] : a \in {a \in user : a[2] > 0 /\ Known(file[a])}}
    IN  InOrder({ImportVariable(file, i) : i \in vars} \cup {ImportRecord(file, i) : i \in records},
                     LAMBDA e, f : e.index < f.index)

-----------------------------------------------------------------------------
(* extract_pdos() *)
CobOf(text) ==
    CASE text.form = "empty" -> NoCob
      [] OTHER -> [rel |-> text.form \in {"nodeid", "nodeid_off"}, v |-> text.v,
                   off |-> text.form \in {"off", "nodeid_off"}]

ValueOr(file, a, default) ==
    IF a \notin DOMAIN file THEN default
    ELSE IF file[a].default.form = "empty" THEN default
    ELSE file[a].default.v

(* resolve_mapping(): the field a descriptor names, by the field's name;   *)
(* what names no variable or sub-entry is left out.                        *)
ResolveRaw(v, flat) ==
    LET m == FromRaw(v)
        named == SelectSeq(flat, LAMBDA f : f.at = <<m.index, m.sub>>)
    IN  IF IsDummy(m.index) THEN <<[name |-> <<"dummy">>, bits |-> m.bits, dummy |-> m.index]>>
        ELSE IF named = <<>> THEN <<>>
        ELSE <<[name |-> named[1].var.name, bits |-> m.bits, dummy |-> 0]>>

RawMappings(file, pdo) ==
    SelectSeq([i \in 1..ValueOr(file, <<MapIndex(pdo), 0>>, 0) |-> ValueOr(file, <<MapIndex(pdo), i>>, 0)],
              LAMBDA v : v # 0)

ImportPdo(file, dir, number, flat) ==
    LET shape == [dir |-> dir, number |-> number]
        comm == CommIndex(shape)
        count == <<MapIndex(shape), 0>>
    IN  [dir |-> dir, number |-> number,
         cob |-> IF <<comm, 1>> \in DOMAIN file THEN CobOf(file[<<comm, 1>>].default) ELSE NoCob,
         tt |-> ValueOr(file, <<comm, 2>>, 255),
         inhibit |-> IF dir = "tpdo" THEN ValueOr(file, <<comm, 3>>, 0) ELSE 0,
         event |-> ValueOr(file, <<comm, 5>>, 0),
         kind |-> IF count \in DOMAIN file /\ file[count].access \in {"ro", "const"}
                  THEN "immutable" ELSE "mutable",
         maps |-> FoldLeft(LAMBDA ms, v : ms \o ResolveRaw(v, flat), <<>>, RawMappings(file, shape))]

ImportPdos(file, flat) ==
    LET found == {p \in [dir : {"tpdo", "rpdo"}, number : 1..MaxPdoNumber] :
                     <<CommIndex(p), Main>> \in DOMAIN file}
        order == InOrder(found, LAMBDA p, q : IF p.dir = q.dir THEN p.number < q.number
                                                   ELSE p.dir = "tpdo")
    IN  [i \in DOMAIN order |-> ImportPdo(file, order[i].dir, order[i].number, flat)]

(* What a mapping addresses is mappable from then on.                      *)
MarkMapped(entries, file, pdos) ==
    LET mapped == UNION {{<<FromRaw(v).index, FromRaw(v).sub>> : v \in Range(RawMappings(file, p))}
                         : p \in Range(pdos)}
    IN  [i \in DOMAIN entries |->
            [entries[i] EXCEPT !.subs = [j \in DOMAIN @ |->
                [@[j] EXCEPT !.pdo = \/ @
                                     \/ /\ entries[i].kind # "array"
                                        /\ <<entries[i].index, entries[i].subs[j].sub>> \in mapped]]]]

PdosOk(file, pdos) ==
    \A p \in Range(pdos) :
        /\ ValueOr(file, <<MapIndex(p), 0>>, 0) <= MaxMappings
        /\ TransmissionTypeOk(p.tt)
        /\ p.dir = "rpdo" => p.tt \notin {252, 253}

(* parse_eds_content_with_overrides(). Additional SDO servers are read as  *)
(* ordinary records.                                                       *)
Importable(file) ==
    /\ \A a \in DOMAIN file : UserSection(a) /\ a[2] # 0 => DefaultOk(file[a])
    /\ PdosOk(file, ImportPdos(file, Flatten(ImportEntries(file))))

Import(file) ==
    LET entries == ImportEntries(file)
        pdos == ImportPdos(file, Flatten(entries))
    IN  [entries |-> MarkMapped(entries, file, pdos), pdos |-> pdos, servers |-> {}]
=============================================================================
