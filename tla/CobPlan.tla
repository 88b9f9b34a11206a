------------------------------ MODULE CobPlan -------------------------------
(***************************************************************************)
(* The identifier plan of a node: which services use which 11-bit COB-IDs. *)
(* Node::new (canopen-core/src/node.rs) refuses a static configuration in  *)
(* which an SDO server or SYNC shares an identifier with another service;  *)
(* afterwards clients may rewrite the identifiers of PDOs, of SYNC and of  *)
(* the monitored heartbeats by SDO, one object at a time, and the checks   *)
(* of canopen-core/src/sdo/server.rs decide about each write alone.        *)
(*                                                                         *)
(* A committed write is re-read into the running services in the same call *)
(* (handle_sdo_request), so one variable stands for an object and for the  *)
(* service that follows it.  Writes the application makes behind the SDO   *)
(* server's back are not modelled: the code leaves them unchecked.         *)
(***************************************************************************)
EXTENDS CobIds, FiniteSets

CONSTANTS Own,           \* this node's ID
          Tpdos, Rpdos,  \* PDO slots
          Extra,         \* indices of the additional SDO servers (numbers)
          ExtraPlans,    \* their possible identifiers: [rx, tx], slot -> identifier
          Subs,          \* subindices of the consumer heartbeat object 0x1016
          MaxMonitors,   \* MAX_HEARTBEAT_MONITORS
          ReservedCap,   \* RESERVED_COB_IDS
          PlanIds,       \* identifiers that are tried
          PlanNodes      \* producers that are tried, valid node IDs or not

ASSUME PlanConfig ==
    /\ Own \in NodeIds
    /\ Extra \subseteq Nat
    /\ Subs \subseteq Nat
    /\ PlanIds \subseteq Nat
    /\ ExtraPlans \subseteq [rx : [Extra -> Nat], tx : [Extra -> Nat]]

VARIABLES extra,     \* extra_sdo_rx and extra_sdo_tx, fixed at construction
          tpdo, rpdo, \* slot -> [cob, enabled]
          sync,      \* SyncConsumer::cob_id
          consumer   \* 0x1016: subindex -> [node, active] (active: time # 0)

planVars == <<extra, tpdo, rpdo, sync, consumer>>

PdoConfig == [cob : PlanIds, enabled : BOOLEAN]

-----------------------------------------------------------------------------
(* The monitors sync_heartbeat_from_od makes of the entries.               *)
MonitoredSubs == {s \in Subs : s <= MaxMonitors}
Monitored == {n \in NodeIds : \E s \in MonitoredSubs : consumer[s] = [node |-> n, active |-> TRUE]}
MonitoredCobs == {Heartbeat(n) : n \in Monitored}

PdoCobs == {tpdo[t].cob : t \in Tpdos} \cup {rpdo[r].cob : r \in Rpdos}

(* SdoCobIds::claims: 0 is a placeholder and never claimed.                *)
ExtraCobs == {extra.rx[i] : i \in Extra} \cup {extra.tx[i] : i \in Extra}
SdoCobs == ({SdoRx(Own), SdoTx(Own)} \cup ExtraCobs) \ {0}

(* reserved_cob_ids; parked PDOs count, since they may be enabled later.   *)
Reserved ==
    ({Emergency(Own), Heartbeat(Own), LssRequest, LssResponse} \cup PdoCobs \cup MonitoredCobs) \ {0}

(* ReservedCobIds::claims: a list that did not fit claims everything.      *)
ReservedClaims(cob) == cob # 0 /\ (Cardinality(Reserved) > ReservedCap \/ cob \in Reserved)

-----------------------------------------------------------------------------
(* Node::new: sdo_cob_ids_are_unique.                                      *)
FixedCobs ==
    {NMT, sync, Emergency(Own), SdoRx(Own), SdoTx(Own), Heartbeat(Own), LssRequest, LssResponse}
SdoCobIdsAreUnique ==
    /\ \A i \in Extra :
         /\ extra.rx[i] # 0 /\ extra.tx[i] # 0 /\ extra.rx[i] # extra.tx[i]
         /\ {extra.rx[i], extra.tx[i]} \cap FixedCobs = {}
         /\ \A j \in Extra : j > i =>
              {extra.rx[i], extra.tx[i]} \cap {extra.rx[j], extra.tx[j]} = {}
    /\ SdoCobs \cap (PdoCobs \cup MonitoredCobs) = {}

(* Node::new: sync_cob_id_is_unique.                                       *)
SyncCobIdIsUnique ==
    /\ sync # NMT
    /\ sync \notin SdoCobs
    /\ sync \notin {Emergency(Own), Heartbeat(Own), LssRequest, LssResponse}
    /\ sync \notin PdoCobs \cup MonitoredCobs

PlanInit ==
    /\ extra \in ExtraPlans
    /\ tpdo \in [Tpdos -> PdoConfig]
    /\ rpdo \in [Rpdos -> PdoConfig]
    /\ \A t \in Tpdos : tpdo[t].enabled => tpdo[t].cob # 0
    /\ \A r \in Rpdos : rpdo[r].enabled => rpdo[r].cob # 0
    /\ sync \in PlanIds \ {0}
    /\ consumer \in [Subs -> [node : PlanNodes, active : BOOLEAN]]
    /\ SdoCobIdsAreUnique
    /\ SyncCobIdIsUnique

-----------------------------------------------------------------------------
(* A COB-ID value as it is downloaded: the identifier and the flag bits    *)
(* that are set, 31 (PDO not valid), 30, 29 (extended) or any in between.  *)
RawBits == {{}, {31}, {30}, {29}, {11}}

(* Mutated form of PdoWriteOk: the SYNC identifier is not looked at.       *)
PdoWriteOkUnsynced(cob, bits) == bits \subseteq {30, 31} /\ cob \notin SdoCobs

(* validate_pdo_cob_id_write.                                              *)
PdoWriteOk(cob, bits) ==
    /\ bits \subseteq {30, 31}
    /\ cob \notin SdoCobs
    /\ cob # 0 => cob # sync

(* What sync_pdo_from_od makes of a value; identifier 0 stays disabled.    *)
PdoFrom(cob, bits) == [cob |-> cob, enabled |-> 31 \notin bits /\ cob # 0]

WriteTpdoCob(t, cob, bits) ==
    /\ PdoWriteOk(cob, bits)
    /\ tpdo' = [tpdo EXCEPT ![t] = PdoFrom(cob, bits)]
    /\ UNCHANGED <<extra, rpdo, sync, consumer>>

WriteRpdoCob(r, cob, bits) ==
    /\ PdoWriteOk(cob, bits)
    /\ rpdo' = [rpdo EXCEPT ![r] = PdoFrom(cob, bits)]
    /\ UNCHANGED <<extra, tpdo, sync, consumer>>

(* is_supported_sync_cob_id and validate_sync_cob_id_write.                *)
SyncWriteOk(cob, bits) ==
    /\ bits \subseteq {30} /\ cob # 0
    /\ cob \notin SdoCobs
    /\ ~ ReservedClaims(cob)

WriteSyncCob(cob, bits) ==
    /\ SyncWriteOk(cob, bits)
    /\ sync' = cob
    /\ UNCHANGED <<extra, tpdo, rpdo, consumer>>

(* validate_heartbeat_consumer_write: an inactive entry is always taken.   *)
ConsumerWriteOk(s, node, active) ==
    active =>
      /\ node \in NodeIds
      /\ s <= MaxMonitors => Heartbeat(node) \notin SdoCobs \cup {sync}
      /\ \A other \in Subs \ {s} : consumer[other] # [node |-> node, active |-> TRUE]

WriteConsumer(s, node, active) ==
    /\ ConsumerWriteOk(s, node, active)
    /\ consumer' = [consumer EXCEPT ![s] = [node |-> node, active |-> active]]
    /\ UNCHANGED <<extra, tpdo, rpdo, sync>>

PlanNext ==
    \/ \E cob \in PlanIds, bits \in RawBits :
         \/ \E t \in Tpdos : WriteTpdoCob(t, cob, bits)
         \/ \E r \in Rpdos : WriteRpdoCob(r, cob, bits)
         \/ WriteSyncCob(cob, bits)
    \/ \E s \in Subs, node \in PlanNodes, active \in BOOLEAN : WriteConsumer(s, node, active)

PlanSpec == PlanInit /\ [][PlanNext]_planVars

-----------------------------------------------------------------------------
(* dispatch_frame: the service a received frame goes to.  SDO servers and  *)
(* SYNC come first, whatever else their identifiers may be; a heartbeat is *)
(* one byte long, and the RPDO engine gets what nobody took.               *)
Dispatch(id, dlc) ==
    IF \E i \in Extra : extra.rx[i] = id
      THEN <<"extra", CHOOSE i \in Extra : extra.rx[i] = id
                        /\ \A j \in Extra : extra.rx[j] = id => i <= j>>
    ELSE IF id = sync THEN <<"sync", 0>>
    ELSE IF id = NMT THEN <<"nmt", 0>>
    ELSE IF id = SdoRx(Own) THEN <<"sdo", 0>>
    ELSE IF id = LssRequest THEN <<"lss", 0>>
    ELSE IF dlc = 1 /\ id \in MonitoredCobs THEN <<"monitor", id - Heartbeat(0)>>
    ELSE <<"rpdo", 0>>

(* Whatever a client writes, in whatever order, every frame reaches the    *)
(* service that owns its identifier: each SDO server its requests, SYNC,   *)
(* NMT and LSS their own, each monitor its node's heartbeats and each RPDO *)
(* its data (unless it was put on the LSS identifier, which nothing        *)
(* forbids).  And nothing but an SDO server speaks on an SDO identifier.   *)
ServicesReached ==
    /\ \A i \in Extra : Dispatch(extra.rx[i], 8) = <<"extra", i>>
    /\ Dispatch(sync, 0) = <<"sync", 0>>
    /\ Dispatch(NMT, 2) = <<"nmt", 0>>
    /\ Dispatch(SdoRx(Own), 8) = <<"sdo", 0>>
    /\ Dispatch(LssRequest, 8) = <<"lss", 0>>
    /\ \A n \in Monitored : Dispatch(Heartbeat(n), 1) = <<"monitor", n>>
    /\ \A r \in Rpdos : rpdo[r].enabled /\ rpdo[r].cob # LssRequest =>
                          Dispatch(rpdo[r].cob, 8) = <<"rpdo", 0>>
    /\ \A t \in Tpdos : tpdo[t].cob \notin SdoCobs
=============================================================================
