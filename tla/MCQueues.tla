------------------------------ MODULE MCQueues ------------------------------
(***************************************************************************)
(* The queues of Node under two kinds of traffic, one in each behaviour:   *)
(*   sdo      two SDO channels, one of them with block transfers           *)
(*   events   everything that produces an event for the application        *)
(***************************************************************************)
EXTENDS MCNode

VARIABLE traffic

FramesOf == [sdo |-> SdoFrames, events |-> ProducingFrames]

QueueInit ==
    /\ Init
    /\ traffic \in DOMAIN FramesOf
    /\ traffic = "sdo" => \A r \in Rpdos : ~ Synchronous(rcfg[r])

QueueNext ==
    /\ Next /\ UNCHANGED traffic
    /\ Len(rxq') > Len(rxq) => rxq'[Len(rxq')] \in FramesOf[traffic]

QueueSpec == QueueInit /\ [][QueueNext]_<<vars, traffic>>
=============================================================================
