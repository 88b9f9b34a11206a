------------------------------- MODULE MCParts ------------------------------
(***************************************************************************)
(* Parts of the system that share no state, checked in one run; part says  *)
(* which of them a behaviour is of:                                        *)
(*   emcy     the EMCY producer, two categories and a queue of two         *)
(*   lss      the LSS slave                                                *)
(*   plan     the identifier plan of a node with one additional SDO server *)
(*   f767     the F767 updater and the host tool                           *)
(*   server   the WebSocket server of the F767 boards                      *)
(*   slcan    serial adapters                                              *)
(*   router   the routing of received frames to several readers            *)
(*   ws       the WebSocket transport                                      *)
(*   link     a generated device and its generated client                  *)
(***************************************************************************)
EXTENDS Emcy, Lss, CobPlan, F767Update, WsServer, Slcan, CanRouter, WsTransport,
        MCLink

VARIABLE part

partsVars == <<vars, lssVars, planVars, f767Vars, wsServerVars, slcanVars, routerVars, wsVars,
              linkVars, part>>

(* The additional server in a free place, on TPDO 1's default identifier   *)
(* and on a heartbeat's.                                                   *)
MCExtraPlans ==
    {[rx |-> [i \in Extra |-> 1600], tx |-> [i \in Extra |-> 1472]],
     [rx |-> [i \in Extra |-> Heartbeat(6)], tx |-> [i \in Extra |-> Tpdo(1, Own)]]}

MCFiles == [t \in ImageTargets |-> IF t = "firmware" THEN {<<1, 1, 2>>} ELSE {<<2>>}]
MCOptions == {[stay |-> FALSE, corrupt |-> FALSE], [stay |-> FALSE, corrupt |-> TRUE],
              [stay |-> TRUE, corrupt |-> FALSE]}
MCBootable == {<<1, 1, 2>>}

(* Lines that are too long for the buffer, with a frame in their tail; a   *)
(* damaged line; an identifier of more than 11 bits.                       *)
MCBusFrames == {[id |-> 291, data |-> <<171>>]}
MCNoise ==
    {[i \in 1..n |-> OtherChar] \o <<T, 1, 2, 3, 0>> : n \in {12, 13}}
    \cup {[i \in 1..11 |-> OtherChar], <<T, 1, 2, 3, 1, 4>>, <<T, 9, 2, 3, 0>>}

MCRouterFrames ==
    {[id |-> Heartbeat(5), full |-> FALSE], [id |-> Heartbeat(6), full |-> FALSE],
     [id |-> Tpdo(1, 5), full |-> TRUE], [id |-> SdoTx(5), full |-> TRUE],
     [id |-> SdoTx(5), full |-> FALSE]}

(* What a part with several initial states is while others are looked at.  *)
QuietPlan ==
    /\ extra = [rx |-> [i \in Extra |-> 1600], tx |-> [i \in Extra |-> 1472]]
    /\ tpdo = [t \in Tpdos |-> [cob |-> Tpdo(1, Own), enabled |-> TRUE]]
    /\ rpdo = [r \in Rpdos |-> [cob |-> Rpdo(1, Own), enabled |-> TRUE]]
    /\ sync = SYNC
    /\ consumer = [s \in Subs |-> [node |-> 0, active |-> FALSE]]

PartsInit ==
    /\ part \in {"emcy", "lss", "plan", "f767", "server", "slcan", "router", "ws", "link"}
    /\ Init /\ LssInit /\ F767Init /\ WsServerInit /\ WsInit
    /\ IF part = "plan" THEN PlanInit ELSE QuietPlan
    /\ SlcanInit
    /\ part # "slcan" => lineReader = "serial" /\ channel
    /\ RouterInit
    /\ IF part = "link" THEN LinkInit ELSE Idle
    /\ part # "router" => user = "demux" /\ portNode = 0

PartsNext ==
    \/ /\ part = "emcy" /\ Next
       /\ UNCHANGED <<lssVars, planVars, f767Vars, wsServerVars, slcanVars,
                      routerVars, wsVars, linkVars, part>>
    \/ /\ part = "lss" /\ LssNext
       /\ UNCHANGED <<vars, planVars, f767Vars, wsServerVars, slcanVars,
                      routerVars, wsVars, linkVars, part>>
    \/ /\ part = "plan" /\ PlanNext
       /\ UNCHANGED <<vars, lssVars, f767Vars, wsServerVars, slcanVars,
                      routerVars, wsVars, linkVars, part>>
    \/ /\ part = "f767" /\ F767Next
       /\ UNCHANGED <<vars, lssVars, planVars, wsServerVars, slcanVars,
                      routerVars, wsVars, linkVars, part>>
    \/ /\ part = "server" /\ WsServerNext
       /\ UNCHANGED <<vars, lssVars, planVars, f767Vars, slcanVars,
                      routerVars, wsVars, linkVars, part>>
    \/ /\ part = "slcan" /\ SlcanNext
       /\ UNCHANGED <<vars, lssVars, planVars, f767Vars, wsServerVars,
                      routerVars, wsVars, linkVars, part>>
    \/ /\ part = "router" /\ RouterNext
       /\ UNCHANGED <<vars, lssVars, planVars, f767Vars, wsServerVars,
                      slcanVars, wsVars, linkVars, part>>
    \/ /\ part = "ws" /\ WsNext
       /\ UNCHANGED <<vars, lssVars, planVars, f767Vars, wsServerVars,
                      slcanVars, routerVars, linkVars, part>>
    \/ /\ part = "link" /\ LinkNext
       /\ UNCHANGED <<vars, lssVars, planVars, f767Vars, wsServerVars,
                      slcanVars, routerVars, wsVars, part>>

PartsSpec == PartsInit /\ [][PartsNext]_partsVars
=============================================================================
