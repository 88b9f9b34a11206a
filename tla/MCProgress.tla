----------------------------- MODULE MCProgress -----------------------------
(***************************************************************************)
(* Parts that share no state and that have to get on, checked in one run;  *)
(* part says which of them a behaviour is of:                              *)
(*   log      the metadata log of the emdm boards                          *)
(*   panel    the SDO panel of the desktop and browser application         *)
(*   bridge   a client connection of canwsd                                *)
(*   attach   canwsd's attach command                                      *)
(***************************************************************************)
EXTENDS MetaLog, SdoPanel, Canwsd, CanwsdAttach

VARIABLE part

progressVars == <<vars, panelVars, canwsdVars, attachVars, part>>

MCRequests ==
    LET R(n, o, p) == [node |-> n, obj |-> o, kind |-> "read", big |-> FALSE, priority |-> p]
    IN  <<R(1, "a", FALSE), R(1, "b", FALSE), R(NoNode, "a", TRUE)>>

(* A part with several initial states has one while others are looked at.  *)
(* A client that wants error frames starts with the filter that lets no    *)
(* data frame in, and may change it.                                       *)
ProgressInit ==
    /\ part \in {"log", "panel", "bridge", "attach"}
    /\ Init /\ PanelInit /\ CanwsdInit /\ AttachInit
    /\ part # "log" => page = Erased
    /\ part # "panel" => backend = "native"
    /\ part # "bridge" => filter = NoFilter /\ ~ wantErrors
    /\ wantErrors => filter = {}

LogStep(A) == part = "log" /\ A /\ UNCHANGED <<panelVars, canwsdVars, attachVars, part>>
PanelStep(A) == part = "panel" /\ A /\ UNCHANGED <<vars, canwsdVars, attachVars, part>>
BridgeStep(A) == part = "bridge" /\ A /\ UNCHANGED <<vars, panelVars, attachVars, part>>
AttachStep(A) == part = "attach" /\ A /\ UNCHANGED <<vars, panelVars, canwsdVars, part>>

ProgressNext ==
    \/ LogStep(Next) \/ PanelStep(PanelNext)
    \/ BridgeStep(CanwsdNext) \/ AttachStep(AttachNext)

(* The fairness of each part, in its behaviours.  Actions of different     *)
(* parts, of different backends, or of different places of one task are    *)
(* never enabled together and share a conjunct.                            *)
ProgressFairness ==
    /\ SF_progressVars(\/ LogStep(PowerOn)
                       \/ PanelStep(ThreadTick(TRUE) \/ WebPoll(TRUE))
                       \/ BridgeStep(BufferEvent))
    /\ SF_progressVars(LogStep(Erase) \/ BridgeStep(PingTick))
    /\ SF_progressVars(LogStep(Write))
    /\ SF_progressVars(LogStep(\E c \in Contents : Start(c)))
    /\ WF_progressVars(\/ PanelStep(OpenSession \/ ThreadCommand \/ ThreadReceive)
                       \/ BridgeStep(Sent \/ SendFails \/ WriteReturns)
                       \/ AttachStep(SendRemote \/ SendRemoteReturns))
    /\ WF_progressVars(\/ PanelStep(ServerSilent) \/ BridgeStep(BufferWait)
                       \/ AttachStep(WriteLocal \/ WriteLocalReturns))

ProgressSpec == ProgressInit /\ [][ProgressNext]_progressVars /\ ProgressFairness

(* Whoever reads a DropBuffer sees its items in order, each once, and is   *)
(* told of a loss with its exact size before the first item behind it: a   *)
(* client of canwsd, and both directions of attach (DropBuffer::push and   *)
(* next).                                                                  *)
LossAnnounced == LossInOrder(buffer) /\ LossInOrder(outbound) /\ LossInOrder(inbound)

(* No consumer of a DropBuffer is left asleep beside a non-empty buffer or *)
(* a closed one, however pushes and close() fall between its check and its *)
(* await: with the frames of the run pushed, each is handed on or reported *)
(* lost, or the connection or the command ends.  In expose, select! drops  *)
(* the wait, with the permit or wake-up it may hold, for every message and *)
(* ping; in attach nothing but a notify wakes a direction, and the failure *)
(* of the local interface must get through behind the last frame.          *)
NothingLeftAsleep == ClientBehind \/ AttachBehind ~> ~ ClientBehind /\ ~ AttachBehind

(* In the behaviours of the log, appends go on succeeding (KeepsRecording).*)
LogKeepsRecording == part = "log" => KeepsRecording
=============================================================================
