--------------------------- MODULE SdoChannelOps ----------------------------
(***************************************************************************)
(* One SDO server channel as the node sees it: the transfer the server has *)
(* open (canopen-core/src/sdo/server.rs, what a transfer contains left     *)
(* out) and the one response the node may still owe the transport          *)
(* (PendingSdoTx in canopen-core/src/node.rs).                             *)
(*                                                                         *)
(* A transfer knows which of the five state machines it runs, whether its  *)
(* object is a PDO parameter (0x1400-0x1BFF), how many segments of the     *)
(* current block-upload sub-block it has not offered yet, and the age      *)
(* since last_activity_us.  "blk_down" receives segments, "blk_end" waits  *)
(* for the end request.                                                    *)
(***************************************************************************)
EXTENDS Integers

CONSTANTS SdoTimeout,   \* SDO_TIMEOUT_US in ticks
          MaxSegments   \* bound on the segments of one block-upload sub-block

ASSUME SdoTimeoutAssumption == SdoTimeout \in Nat \ {0}
ASSUME MaxSegmentsAssumption == MaxSegments \in Nat

TransferStates == {"none", "seg_up", "blk_up", "seg_down", "blk_down", "blk_end"}
Transfer == [state : TransferStates, pdo : BOOLEAN, segs : 0..MaxSegments, age : 0..SdoTimeout]
NoTransfer == [state |-> "none", pdo |-> FALSE, segs |-> 0, age |-> 0]
Started(state, pdo, segs) == [state |-> state, pdo |-> pdo, segs |-> segs, age |-> 0]
Continued(x) == [x EXCEPT !.age = 0]
Open(x) == x.state # "none"

(* What a request writes to the OD when it commits a download: a PDO       *)
(* parameter, a SYNC or heartbeat object, or one the stack does not use.   *)
Objects(pdo) == IF pdo THEN {"pdo"} ELSE {"app", "sync", "hb"}

(* An outcome of process_with_context: the transfer after it, whether a    *)
(* response was written, and what was committed.  Final is a response that *)
(* ends the transfer: an abort, or the last answer of an upload.           *)
Outcome(x, resp, commit) == [x |-> x, resp |-> resp, commit |-> commit]
Final == Outcome(NoTransfer, TRUE, "nothing")
Answered(x) == Outcome(x, TRUE, "nothing")
Silent(x) == Outcome(x, FALSE, "nothing")
Committed(pdo) == {Outcome(NoTransfer, TRUE, c) : c \in Objects(pdo)}
SubBlocks == {Silent(Started("blk_up", FALSE, n)) : n \in 1..MaxSegments}

InitiateUpload == {Final, Answered(Started("seg_up", FALSE, 0))}

UploadSegment(x) ==
    IF x.state = "seg_up" THEN {Final, Answered(Continued(x))} ELSE {Final}

(* handle_block_upload: initiate, start, acknowledge a sub-block, end.     *)
InitiateBlockUpload == {Final, Answered(Started("blk_up", FALSE, 0))}

StartBlockUpload(x) ==
    IF x.state = "blk_up" /\ x.segs = 0 THEN {Final} \cup SubBlocks ELSE {Final}

AckBlockUpload(x) ==
    IF x.state # "blk_up" THEN {Final}
    ELSE IF x.segs > 0 THEN {Silent(x)}
    ELSE {Final} \cup SubBlocks

EndBlockUpload(x) == {Silent(IF x.state = "blk_up" THEN NoTransfer ELSE x)}

(* The initiate requests of downloads refuse PDO parameters in             *)
(* Operational; an expedited download commits or aborts at once.           *)
Locked(pdo, nmt) == pdo /\ nmt = "Operational"

InitiateDownload(pdo, nmt) ==
    IF Locked(pdo, nmt) THEN {Final}
    ELSE {Final, Answered(Started("seg_down", pdo, 0))} \cup Committed(pdo)

InitiateBlockDownload(pdo, nmt) ==
    IF Locked(pdo, nmt) THEN {Final}
    ELSE {Final, Answered(Started("blk_down", pdo, 0))}

(* The last segment, or the end request of a block, commits what           *)
(* validate_download and the OD accept; the NMT state is not looked at.    *)
DownloadSegment(x) ==
    IF x.state = "seg_down" THEN {Final, Answered(Continued(x))} \cup Committed(x.pdo)
    ELSE {Final}

BlockDownloadSegment(x) ==
    {Final, Silent(Continued(x)), Answered(Continued(x)), Answered(Started("blk_end", x.pdo, 0))}

EndBlockDownload(x) ==
    IF x.state = "blk_end" THEN {Final} \cup Committed(x.pdo) ELSE {Final}

(* "abort" is the byte 0x80; "abort_bits" is the abort specifier with      *)
(* other low bits, which the node does not let past a pending response.    *)
Requests == {"abort", "abort_bits", "upload", "upload_segment",
             "block_upload", "start", "ack", "end_upload",
             "download", "download_pdo", "download_segment",
             "block_download", "block_download_pdo", "end_download"}

(* While block segments are received every frame but an abort is one.      *)
ProcessWithContext(x, req, nmt) ==
    IF x.state = "blk_down" /\ req # "abort" THEN BlockDownloadSegment(x)
    ELSE CASE req \in {"abort", "abort_bits"} -> {Silent(NoTransfer)}
           [] req = "upload"             -> InitiateUpload
           [] req = "upload_segment"     -> UploadSegment(x)
           [] req = "block_upload"       -> InitiateBlockUpload
           [] req = "start"              -> StartBlockUpload(x)
           [] req = "ack"                -> AckBlockUpload(x)
           [] req = "end_upload"         -> EndBlockUpload(x)
           [] req = "download"           -> InitiateDownload(FALSE, nmt)
           [] req = "download_pdo"       -> InitiateDownload(TRUE, nmt)
           [] req = "download_segment"   -> DownloadSegment(x)
           [] req = "block_download"     -> InitiateBlockDownload(FALSE, nmt)
           [] req = "block_download_pdo" -> InitiateBlockDownload(TRUE, nmt)
           [] req = "end_download"       -> EndBlockDownload(x)

(* Mutated form of SegmentOffered: last_activity_us is not refreshed.      *)
SegmentOfferedStill(x) == [x EXCEPT !.segs = @ - 1]

(* poll_block_upload: one more segment of the sub-block was produced.      *)
SegmentOffered(x) == [x EXCEPT !.segs = @ - 1, !.age = 0]

-----------------------------------------------------------------------------
(* PendingSdoTx: whether a response is owed, for how long, and whether the *)
(* transport refused this channel in the current call of process().        *)

NothingPending == [has |-> FALSE, age |-> 0, refused |-> FALSE]
Pending == [has : BOOLEAN, age : 0..SdoTimeout, refused : BOOLEAN]

QueueResponse(s) == [s EXCEPT !.has = TRUE, !.age = 0]

(* begin_poll: a response that waited too long is given up together with   *)
(* the transfer; otherwise a silent client is told of the timeout.         *)
Stale(s) == s.has /\ s.age >= SdoTimeout
TransferTimesOut(s, x) == ~ Stale(s) /\ Open(x) /\ x.age >= SdoTimeout

(* Mutated form of BeginPollSlot: a stale response is kept.                *)
BeginPollKeepsStale(s, x) ==
    LET t == [s EXCEPT !.refused = FALSE]
    IN  IF ~ s.has /\ TransferTimesOut(s, x) THEN QueueResponse(t) ELSE t

BeginPollSlot(s, x) ==
    LET t == [s EXCEPT !.refused = FALSE]
    IN  IF Stale(s) THEN [t EXCEPT !.has = FALSE, !.age = 0]
        ELSE IF TransferTimesOut(s, x) THEN QueueResponse(t)
        ELSE t

BeginPollTransfer(s, x) ==
    IF Stale(s) \/ TransferTimesOut(s, x) THEN NoTransfer ELSE x

(* try_send with the transport's answer.                                   *)
TrySend(s, accepted) ==
    IF ~ s.has \/ s.refused THEN s
    ELSE IF accepted THEN [s EXCEPT !.has = FALSE, !.age = 0]
    ELSE [s EXCEPT !.refused = TRUE]
Sends(s) == s.has /\ ~ s.refused
=============================================================================
