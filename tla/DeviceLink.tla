----------------------------- MODULE DeviceLink -----------------------------
(***************************************************************************)
(* A device and its host, both generated: the device's object dictionary   *)
(* by object_dictionary! (or object_dictionary_from_eds!), the host's      *)
(* typed client from the data sheet the device's macro wrote (or the       *)
(* vendor's). They exchange PDOs and SDO transfers, a tool reconfigures    *)
(* the PDOs, and the sheet is loaded as a configuration file.              *)
(*                                                                         *)
(* A scenario is what the device was declared as, the values its           *)
(* application sets, the downloads of the tool and the configured values   *)
(* of a DCF.                                                               *)
(***************************************************************************)
EXTENDS RemoteClient, Dcf

CONSTANTS
    Scenarios,   \* names of the scenarios
    Declared,    \* for each, the definition, or the vendor's sheet as [sheet]
    AppValues,   \* for each, pairs of an address and a value
    Downloads,   \* for each, pairs of an address and the data written by SDO
    Values,      \* for each, the configured values of the DCF
    LinkNode     \* the node's identifier

VARIABLES
    scene,        \* the scenario
    board,        \* the definition the device is generated from
    sheet,        \* its data sheet
    client,       \* the definition the client is generated from
    fresh,        \* the object dictionary as the device starts
    od,           \* the object dictionary
    operational,  \* whether the device is Operational
    loaded        \* writes of a remote DCF done so far, -1 after a refusal

linkVars == <<scene, board, sheet, client, fresh, od, operational, loaded>>
made == <<scene, board, sheet, client, fresh>>

FromSheet(s) == "sheet" \in DOMAIN Declared[s]
SheetOf(s) == IF FromSheet(s) THEN Declared[s].sheet ELSE Export(Declared[s])

(* A declaration the macros refuse makes no device.                        *)
Compiles(s) ==
    LET host == Import(SheetOf(s))
    IN  /\ Importable(SheetOf(s))
        /\ IF FromSheet(s) THEN Valid(host) /\ Generates(host) ELSE Accepted(Declared[s])
        /\ ClientGenerates(host)

LinkInit ==
    /\ scene \in {s \in Scenarios : Compiles(s)}
    /\ sheet = SheetOf(scene)
    /\ client = Import(sheet)
    /\ board = IF FromSheet(scene) THEN client ELSE Declared[scene]
    /\ fresh = WithServerCobs(board, WithPdoCobs(board, NewOd(board), LinkNode), LinkNode)
    /\ od = fresh
    /\ operational = FALSE
    /\ loaded = 0

(* No device and no client.                                                *)
Idle ==
    /\ scene = "none" /\ sheet = <<>> /\ client = <<>> /\ board = <<>> /\ fresh = <<>> /\ od = <<>>
    /\ operational = FALSE /\ loaded = 0

(* The master's NMT commands.                                              *)
StartStop ==
    /\ operational' = ~operational
    /\ UNCHANGED <<made, od, loaded>>

(* The application sets an object through od_mut().                        *)
AppSets ==
    /\ \E w \in AppValues[scene] : od' = [od EXCEPT ![w[1]] = w[2]]
    /\ UNCHANGED <<made, operational, loaded>>

(* An SDO download; PDO parameters are refused while Operational.          *)
SdoDownload ==
    /\ \E w \in Downloads[scene] :
          /\ ~(operational /\ w[1][1] \in \h1400..\h1BFF)
          /\ od' = WriteOd(board, od, w[1], w[2])
    /\ UNCHANGED <<made, operational, loaded>>

(* The host sends an RPDO: the first active one with the frame's           *)
(* identifier is applied.                                                  *)
Payloads(pdo) ==
    LET fields == Fields(client, pdo)
        at == {fields[i].at : i \in DOMAIN fields}
    IN  {f \in [at -> {w[2] : w \in AppValues[scene]}] : \A a \in at : <<a, f[a]>> \in AppValues[scene]}

Receive(cob, data) ==
    LET active == SelectSeq(board.pdos, LAMBDA p :
                      LET config == SyncedConfig(od, p)
                      IN  p.dir = "rpdo" /\ config.enabled /\ config.cob = cob)
    IN  IF active = <<>> THEN od
        ELSE RpdoApplied(board, od, SyncedConfig(od, active[1]), data)

ClientRpdos == {p \in Range(MappedPdos(client)) : p.dir = "rpdo"}

HostSends ==
    /\ operational
    /\ \E p \in ClientRpdos : \E payload \in Payloads(p) :
          od' = Receive(ClientCob(p, LinkNode), Encode(client, p, payload))
    /\ UNCHANGED <<made, operational, loaded>>

(* The configuration file is applied to the dictionary, leniently or       *)
(* strictly, or sent over SDO one object at a time. A file that cannot be  *)
(* parsed has no writes.                                                   *)
Writes == IF Parses(sheet, Values[scene]) THEN DcfWrites(sheet, Values[scene]) ELSE <<>>

LoadDcf ==
    /\ od' = Apply(board, od, Writes)
    /\ UNCHANGED <<made, operational, loaded>>

LoadDcfStrict ==
    /\ od' = ApplyStrict(board, od, Writes)
    /\ UNCHANGED <<made, operational, loaded>>

SendDcfEntry ==
    /\ loaded \in 0..(Len(Writes) - 1)
    /\ LET w == Writes[loaded + 1]
       IN  /\ od' = WriteOd(board, od, w.at, w.data)
           /\ loaded' = IF WriteOutcome(board, od, w.at, w.data) = "ok" THEN loaded + 1 ELSE -1
    /\ UNCHANGED <<made, operational>>

LinkNext ==
    \/ StartStop
    \/ AppSets
    \/ SdoDownload
    \/ HostSends
    \/ LoadDcf
    \/ LoadDcfStrict
    \/ SendDcfEntry

LinkSpec == LinkInit /\ [][LinkNext]_linkVars

-----------------------------------------------------------------------------
(* The number a mapping of some bits carries of a number: the arithmetic   *)
(* the bit copying has to amount to.                                       *)
Wrapped(v, bits, ty) ==
    LET low == IF bits > 30 THEN v ELSE v % 2^bits
    IN  IF ty = "bool" THEN IF low # 0 THEN 1 ELSE 0
        ELSE IF IsSigned(ty) /\ bits \in 1..30 /\ low >= 2^(bits - 1) THEN low - 2^bits
        ELSE low

IntOf(bits, ty) ==
    LET width == 8 * TypeSize[ty]
    IN  IF IsSigned(ty) /\ bits[width] = 1 THEN BitsInt(SubSeq(bits, 1, width - 1)) - 2^(width - 1)
        ELSE BitsInt(SubSeq(bits, 1, IF width = 32 THEN 31 ELSE width))

Carried(bits, f) == IntBits(Wrapped(IntOf(bits, f.ty), f.bits, f.ty), ReprBits(f.ty))

(* A PDO nobody has reconfigured since the device started.                 *)
Unchanged(p) ==
    \A a \in DOMAIN od : a[1] \in {CommIndex(p), MapIndex(p)} => od[a] = fresh[a]

Ambiguous(p) ==
    \E q \in Range(DispatchTpdos(client)) :
        q.number # p.number /\ ClientCob(q, LinkNode) = ClientCob(p, LinkNode)

OnlyReceiver(p) ==
    \A q \in Range(board.pdos) :
        q.dir = "rpdo" /\ q.number # p.number =>
            SyncedConfig(od, q).cob # ClientCob(p, LinkNode)

TpdoAgrees(p) ==
    LET config == SyncedConfig(od, p)
        decoded == Decode(client, LinkNode, config.cob, TpdoFrame(board, od, config))
        fields == Fields(client, p)
    IN  IF Ambiguous(p) THEN decoded.as = -1
        ELSE /\ decoded.as = p.number
             /\ \A i \in DOMAIN fields :
                   decoded.values[fields[i].at] = Carried(od[fields[i].at], fields[i])

RpdoAgrees(p) ==
    \A payload \in Payloads(p) :
        LET after == Receive(ClientCob(p, LinkNode), Encode(client, p, payload))
            fields == Fields(client, p)
        IN  /\ \A i \in DOMAIN fields : after[fields[i].at] = Carried(payload[fields[i].at], fields[i])
            /\ \A a \in DOMAIN od : a \notin DOMAIN payload => after[a] = od[a]

SdoAgrees ==
    /\ \A a \in TypedReads(client) :
          TypedRead(VarAt(client, a).ty, ReadOd(board, od, a)) = od[a]
    /\ \A w \in AppValues[scene] :
          w[1] \in TypedWrites(client) =>
              WriteOd(board, od, w[1], TypedWrite(VarAt(client, w[1]).ty, w[2]))[w[1]] = w[2]

(* The client generated from a device's data sheet and the device itself   *)
(* understand each other, in whatever state the device is: a TPDO nobody   *)
(* reconfigured is decoded to the values the device holds, an RPDO lands   *)
(* in the objects it names and nowhere else, both cut to the mapped bits,  *)
(* a frame of an ambiguous identifier is refused rather than taken for     *)
(* another PDO's, and the typed SDO methods read and write what the device *)
(* holds (generate_eds, extract_pdos, build_pdo_frame, apply_mapped,       *)
(* decode). Names must stay distinct under the import.                     *)
LinkAgrees ==
    scene # "none" /\ NamesDistinct(client) =>
        /\ \A p \in Range(DispatchPdos(client)) :
              Unchanged(p) => IF p.dir = "tpdo" THEN TpdoAgrees(p)
                              ELSE OnlyReceiver(p) => RpdoAgrees(p)
        /\ SdoAgrees

(* However the mapping records are written, an active mapping names only   *)
(* objects that may be mapped in its direction, and fits a frame (the      *)
(* generated write arms of 0x1600 and 0x1A00).                             *)
ActiveMappingLegal ==
    scene # "none" => \A p \in Range(board.pdos) :
        LET maps == SyncedConfig(od, p).mappings
        IN  /\ \A i \in DOMAIN maps : Eligible(board, maps[i], p.dir = "rpdo")
            /\ TotalBits(maps) <= PDO_MAX_PAYLOAD_BITS

(* The three readers of a default agree: what the generated dictionary     *)
(* starts with is what a dictionary generated from its sheet starts with,  *)
(* PDO configurations included, and what loading the sheet as a            *)
(* configuration file restores; loading leaves PDO parameters and          *)
(* read-only objects as they are (new(), tpdo_configs, normalize_default,  *)
(* extract_pdos, serialize_value, Dcf::apply).                             *)
DefaultsAgree ==
    scene # "none" =>
        LET after == Apply(board, od, DcfWrites(sheet, <<>>))
            known == {a \in UserAddresses(board) : VarAt(board, a).default.form \notin {"none", "path"}}
            writable == {a \in known : VarAt(board, a).access \in {"rw", "wo"}}
        IN  /\ \A a \in known : NewOd(client)[a] = fresh[a]
            /\ NamesDistinct(client) => \A p \in Range(board.pdos) : \A q \in Range(client.pdos) :
                  CommIndex(p) = CommIndex(q) =>
                      FirstConfig(NewOd(client), q, LinkNode) = FirstConfig(NewOd(board), p, LinkNode)
            /\ \A a \in writable : after[a] = fresh[a]
            /\ \A a \in DOMAIN od : a \notin UserAddresses(board) => after[a] = od[a]
            /\ \A a \in known \ writable : after[a] = od[a]
=============================================================================
