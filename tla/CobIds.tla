------------------------------- MODULE CobIds -------------------------------
(***************************************************************************)
(* The 11-bit identifiers of the pre-defined connection set:               *)
(* canopen-core/src/cobid.rs, the LSS identifiers of lss.rs, and the check *)
(* on SYNC identifiers of sync.rs.                                         *)
(***************************************************************************)
EXTENDS Naturals

NodeIds == 1..127

NMT == 0
SYNC == 128
Emergency(n) == 128 + n
Tpdo(p, n) == 128 + 256 * p + n
Rpdo(p, n) == 256 + 256 * p + n
SdoTx(n) == 1408 + n
SdoRx(n) == 1536 + n
Heartbeat(n) == 1792 + n
LssRequest == 2021
LssResponse == 2020

(* CobId::parse: which service an identifier belongs to by default.  Each  *)
(* block of 128 identifiers is a service, the place in it a node, and 0 is *)
(* no node.                                                                *)
Block(id) == id \div 128
NodeOf(id) == id % 128
ParsedAs(id) ==
    IF id = NMT THEN "nmt"
    ELSE IF id = SYNC THEN "sync"
    ELSE IF NodeOf(id) = 0 THEN "unknown"
    ELSE CASE Block(id) = 1 -> "emergency"
           [] Block(id) \in {3, 5, 7, 9} -> "tpdo"
           [] Block(id) \in {4, 6, 8, 10} -> "rpdo"
           [] Block(id) = 11 -> "sdo_response"
           [] Block(id) = 12 -> "sdo_request"
           [] Block(id) = 14 -> "heartbeat"
           [] OTHER -> "unknown"
=============================================================================
