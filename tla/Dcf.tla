-------------------------------- MODULE Dcf ---------------------------------
(***************************************************************************)
(* Device configuration files (canopen-core, dcf.rs): a data sheet whose   *)
(* objects may have a configured value each, read at run time and applied  *)
(* to a local object dictionary or, over SDO, to a remote one.             *)
(***************************************************************************)
EXTENDS EdsFile

(* ParameterValue is preferred, DefaultValue taken where there is none.    *)
ConfiguredText(file, values, a) == IF a \in DOMAIN values THEN values[a] ELSE file[a].default

(* serialize_value() and serialize_integer(): decimal numbers have the     *)
(* range of the type, hexadecimal ones are bit patterns.                   *)
Serialize(ty, text) ==
    CASE ty = NoType -> NoData
      [] ty = "visible_string" -> StringBits(text.v)
      [] ty = "bool" -> IF text.v \in {0, 1} THEN IntBits(text.v, 8) ELSE NoData
      [] OTHER ->
            IF (IF text.form = "dec" THEN InRange(ty, text.v) ELSE FromPattern(ty, text.v).ok)
            THEN IntBits(text.v, 8 * TypeSize[ty]) ELSE NoData

(* A mutant: the parameters of PDOs are configured too.                    *)
ConfiguredWithPdos(file, values) ==
    {a \in DOMAIN file :
        a[2] # 0 /\ file[a].type # 0 /\ ConfiguredText(file, values, a).form \notin {"empty", "nodeid"}}

(* Dcf::parse() passes over PDO parameters, counts, sections without a     *)
(* type, and values that are empty or depend on the node.                  *)
Configured(file, values) ==
    {a \in DOMAIN file :
        /\ a[1] \notin \h1400..\h1BFF
        /\ a[2] # 0
        /\ file[a].type # 0
        /\ ConfiguredText(file, values, a).form \notin {"empty", "nodeid"}}

DcfData(file, values, a) == Serialize(RustType(file[a].type), ConfiguredText(file, values, a))

Parses(file, values) == \A a \in Configured(file, values) : DcfData(file, values, a) # NoData

(* The writes of a file in its order: what the macro generates is written  *)
(* behind the declared objects.                                            *)
GeneratedLast(a) == IF a[1] \in (\h1201..\h127F) \cup {StoreFormat} THEN 1 ELSE 0

DcfWrites(file, values) ==
    LET order == InOrder(Configured(file, values), LAMBDA a, b :
                     \/ GeneratedLast(a) < GeneratedLast(b)
                     \/ /\ GeneratedLast(a) = GeneratedLast(b)
                        /\ a[1] < b[1] \/ (a[1] = b[1] /\ a[2] < b[2]))
    IN  [i \in DOMAIN order |-> [at |-> <<order[i][1], IF order[i][2] = Main THEN 0 ELSE order[i][2]>>,
                                 data |-> DcfData(file, values, order[i])]]

(* apply(): what is refused is passed over.                                *)
Apply(def, od, writes) == FoldLeft(LAMBDA o, w : WriteOd(def, o, w.at, w.data), od, writes)

(* apply_strict(): the first refusal ends it, what was written stays.      *)
ApplyStrict(def, od, writes) ==
    FoldLeft(LAMBDA acc, w :
                 IF acc.failed \/ WriteOutcome(def, acc.od, w.at, w.data) # "ok"
                 THEN [acc EXCEPT !.failed = TRUE]
                 ELSE [acc EXCEPT !.od = WriteOd(def, acc.od, w.at, w.data)],
             [od |-> od, failed |-> FALSE], writes).od
=============================================================================
