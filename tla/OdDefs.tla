------------------------------- MODULE OdDefs -------------------------------
(***************************************************************************)
(* Object dictionaries as object_dictionary! declares them (dsl.rs) and    *)
(* the code the macro generates for one (codegen.rs): what declarations    *)
(* are accepted, and new, lookup, read, write and the PDO configurations   *)
(* of the generated type.                                                  *)
(*                                                                         *)
(* A definition has a sequence of entries, each a variable, a record or an *)
(* array with the variables in it, PDOs and additional SDO servers. A name *)
(* is the sequence of its words. The values of a device are a function     *)
(* from addresses, pairs of index and sub-index, to bits; PDO parameters   *)
(* are among them.                                                         *)
(***************************************************************************)
EXTENDS PdoCodec, FiniteSets

CONSTANTS
    MaxMappings,   \* PDO_MAX_MAPPINGS
    MaxPdoNumber,  \* the number of PDOs of one direction, 512
    StringCap      \* bits a visible_string may hold

(* A default in the source: "lit", "hex" and "expr" are literals and       *)
(* expressions the macro can evaluate, "not" the complement of a literal,  *)
(* "path" a constant defined elsewhere, "str" a string.                    *)
NoDefault == [form |-> "none", v |-> 0]
(* A COB-ID: relative to the node or not, and bit 31, which switches off. *)
Cob(rel, v) == [rel |-> rel, v |-> v, off |-> FALSE]
NoCob == Cob(FALSE, -1)
NoBits == -1

(* Zero is the empty string, any other number a string of one character.   *)
StringBits(v) == IF v = 0 THEN <<>> ELSE IntBits(v, 8)

(* The elements of a set in a strict total order.                          *)
InOrder(S, Before(_, _)) ==
    [i \in 1..Cardinality(S) |-> CHOOSE x \in S : Cardinality({y \in S : Before(y, x)}) = i - 1]

(* The elements of an array share everything but their sub-index.          *)
ArraySubs(name, ty, count, access, pdo) ==
    [i \in 1..count |-> [sub |-> i, name |-> name, ty |-> ty, access |-> access, pdo |-> pdo,
                         default |-> NoDefault]]

-----------------------------------------------------------------------------
(* flatten(): the variables and sub-entries, without the arrays.           *)
FlatOf(e) == [i \in DOMAIN e.subs |-> [at |-> <<e.index, e.subs[i].sub>>, var |-> e.subs[i]]]

Flatten(entries) ==
    FoldLeft(LAMBDA flat, e : IF e.kind = "array" THEN flat ELSE flat \o FlatOf(e), <<>>, entries)

ArraysOf(entries) == SelectSeq(entries, LAMBDA e : e.kind = "array")

NamedIn(flat, name) == SelectSeq(flat, LAMBDA f : f.var.name = name)

(* resolve_pdo_mappings(): a field's name stands for its address, with all *)
(* its bits, one for a bool, unless the declaration says how many.         *)
ResolvedBits(m, ty) ==
    IF m.bits # NoBits THEN m.bits ELSE IF ty = "bool" THEN 1 ELSE 8 * TypeSize[ty]

Resolvable(pdo, flat) ==
    \A i \in DOMAIN pdo.maps : LET m == pdo.maps[i] IN
        \/ m.dummy # 0
        \/ /\ NamedIn(flat, m.name) # <<>>
           /\ LET f == NamedIn(flat, m.name)[1].var IN f.pdo /\ ~VariableLength(f.ty)

ResolveMapping(m, flat) ==
    IF m.dummy # 0 THEN [index |-> m.dummy, sub |-> 0, bits |-> m.bits]
    ELSE LET f == NamedIn(flat, m.name)[1]
         IN  [index |-> f.at[1], sub |-> f.at[2], bits |-> ResolvedBits(m, f.var.ty)]

ResolveMappings(pdo, flat) == [i \in DOMAIN pdo.maps |-> ResolveMapping(pdo.maps[i], flat)]

(* ResolvedMapping::raw and PdoMapping::from_mapping_value.                *)
Raw(m) == m.index * 65536 + m.sub * 256 + m.bits
FromRaw(v) == [index |-> v \div 65536, sub |-> (v \div 256) % 256, bits |-> v % 256]

-----------------------------------------------------------------------------
(* The indices of a PDO's records and of an SDO server's.                  *)
CommIndex(pdo) == (IF pdo.dir = "tpdo" THEN \h1800 ELSE \h1400) + pdo.number - 1
MapIndex(pdo) == (IF pdo.dir = "tpdo" THEN \h1A00 ELSE \h1600) + pdo.number - 1
ServerIndex(s) == \h1200 + s.number - 1
StoreEds == \h1021
StoreFormat == \h1022

GeneratedIndices(def) ==
    {StoreEds, StoreFormat} \cup {CommIndex(p) : p \in Range(def.pdos)}
        \cup {MapIndex(p) : p \in Range(def.pdos)} \cup {ServerIndex(s) : s \in def.servers}

(* parse_cob_id_spec() *)
CobSpecOk(c) == IF c.rel THEN c.v \in 1..(\h7FF - 127) ELSE c.v \in 1..\h7FF

(* parse_transmission_type() *)
TransmissionTypeOk(tt) == tt \in 0..255 /\ tt \notin 241..251

(* parse_pdo_def() *)
PdoDeclarable(p) ==
    /\ p.number \in 1..MaxPdoNumber
    /\ p.cob = NoCob \/ CobSpecOk(p.cob)
    /\ p.number > 4 => p.cob # NoCob
    /\ TransmissionTypeOk(p.tt)
    /\ p.dir = "rpdo" => p.tt \notin {252, 253} /\ p.inhibit = 0
    /\ Len(p.maps) <= MaxMappings

(* parse_sdo_server_def() *)
ServerDeclarable(s) == s.number \in 2..128 /\ CobSpecOk(s.rx) /\ CobSpecOk(s.tx)

Declarable(def) ==
    /\ \A p \in Range(def.pdos) : PdoDeclarable(p)
    /\ \A s \in def.servers : ServerDeclarable(s)

(* OdDefinition::validate() *)
AddressesOk(def) ==
    /\ \A i, j \in DOMAIN def.entries : i # j => def.entries[i].index # def.entries[j].index
    /\ \A e \in Range(def.entries) :
          /\ e.index \notin GeneratedIndices(def)
          /\ e.kind = "record" =>
                /\ \A s \in Range(e.subs) : s.sub # 0
                /\ \A i, j \in DOMAIN e.subs : i # j => e.subs[i].sub # e.subs[j].sub

DirectionOk(pdo, access) ==
    IF pdo.dir = "rpdo" THEN access \notin {"ro", "const"} ELSE access # "wo"

Valid(def) ==
    /\ AddressesOk(def)
    /\ \A p \in Range(def.pdos) :
          /\ p.tt \notin {252, 253}
          /\ \A m \in Range(p.maps) :
                LET named == NamedIn(Flatten(def.entries), m.name)
                IN  m.dummy # 0 \/ named = <<>> \/ DirectionOk(p, named[1].var.access)

(* The checks of generate(): numbers and identifiers that would collide,   *)
(* mappings that cannot be resolved or do not fit a frame.                 *)
ServerSlots(def) ==
    {[rel |-> TRUE, v |-> \h600, of |-> <<1, "rx">>], [rel |-> TRUE, v |-> \h580, of |-> <<1, "tx">>]}
        \cup UNION {{[rel |-> s.rx.rel, v |-> s.rx.v, of |-> <<s.number, "rx">>],
                     [rel |-> s.tx.rel, v |-> s.tx.v, of |-> <<s.number, "tx">>]} : s \in def.servers}

Generates(def) ==
    LET flat == Flatten(def.entries)
    IN  /\ \A i, j \in DOMAIN def.pdos :
              i # j => CommIndex(def.pdos[i]) # CommIndex(def.pdos[j])
        /\ \A p \in Range(def.pdos) :
              /\ Resolvable(p, flat)
              /\ TotalBits(ResolveMappings(p, flat)) <= PDO_MAX_PAYLOAD_BITS
        /\ \A s, t \in def.servers : s # t => s.number # t.number
        /\ \A a, b \in ServerSlots(def) : a.of # b.of => <<a.rel, a.v>> # <<b.rel, b.v>>

(* The fields of the generated structure; the compiler refuses a structure *)
(* with two of one name.                                                   *)
NamesDistinct(def) ==
    LET flat == Flatten(def.entries)
        arrays == ArraysOf(def.entries)
        names == [i \in DOMAIN flat |-> flat[i].var.name] \o [i \in DOMAIN arrays |-> arrays[i].name]
    IN  \A i, j \in DOMAIN names : i # j => names[i] # names[j]

Accepted(def) == Declarable(def) /\ Valid(def) /\ Generates(def) /\ NamesDistinct(def)
=============================================================================
