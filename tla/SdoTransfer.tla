---------------------------- MODULE SdoTransfer -----------------------------
(***************************************************************************)
(* SDO transfers between a host and a node: SdoDriver and SdoClient        *)
(* (canopen-core/src/sdo/driver.rs, client.rs) on one side, SdoServer      *)
(* behind the node's response slot (PendingSdoTx in node.rs) on the other, *)
(* and a channel between them that keeps the order of frames, delays them  *)
(* and loses some.                                                         *)
(*                                                                         *)
(* The driver runs one transfer at a time and creates a client for each;   *)
(* a transfer may end by its deadline at any moment, and its late answers  *)
(* stay in the channel for the next one to find.  Block transfers are run  *)
(* by a client that is not part of the repository; it shares the channel.  *)
(***************************************************************************)
EXTENDS SdoServerOps

CONSTANTS Objects,       \* the objects transferred
          Values,        \* the values of an object, written by hosts and by the application
          ClientBytes,   \* BUF of SdoClient (256)
          MaxTransfers,  \* bound on the transfers begun
          MaxDisturbed   \* bound on frames lost or refused, resets, changes by the application

ASSUME SdoTransferAssumption ==
    ClientBytes \in Nat /\ MaxTransfers \in Nat /\ MaxDisturbed \in Nat

VARIABLES cl,      \* the client: state of the transfer under way
          done,    \* how the last transfer ended
          reqs,    \* request frames on their way to the server
          resps,   \* response frames the host has not received
          srv,     \* SdoServer::transfer
          owed,    \* PendingSdoTx::frame
          od,      \* the object dictionary
          begun,   \* number of transfers begun
          hist,    \* history of the transfer under way, see Begun
          disturbed  \* number of disturbances so far
vars == <<cl, done, reqs, resps, srv, owed, od, begun, hist, disturbed>>

ClientStates == {"idle", "upload", "upload_segmented", "download", "download_segmented",
                 "block_upload", "block_receiving", "end_upload",
                 "block_download", "block_sending", "end_download"}
BlockStates == {"block_upload", "block_receiving", "end_upload",
                "block_download", "block_sending", "end_download"}
Downloads == {"download", "download_segmented", "block_download", "block_sending", "end_download"}

(* val is the data to send or received so far, off how much of it was      *)
(* sent, size the indicated one or -1, seq the last segment of a sub-block.*)
Idle == [st |-> "idle"]
Client(st, obj, val, size) ==
    [st |-> st, obj |-> obj, toggle |-> FALSE, val |-> val, off |-> 0, size |-> size,
     seq |-> 0, blk |-> 1, kind |-> "driver"]
AllValues == UNION {Values[o] : o \in Objects}
Outcomes == {"none", "uploaded", "downloaded", "aborted", "failed"}
NotDone == [how |-> "none", val |-> <<>>]

(* What is remembered of a transfer: how many transfers were given up      *)
(* since the channel was last empty, whether the server was idle too when  *)
(* it began, the values the object had since, the values the server wrote  *)
(* to it since, and whether something went wrong that was neither's fault. *)
Empty == reqs = <<>> /\ resps = <<>> /\ owed = <<>>
Begun(c) == [late |-> IF Empty THEN 0 ELSE Lesser(hist.late + 1, 2),
             fresh |-> Empty /\ srv = NoTransfer,
             kind |-> IF ~ Empty /\ hist.kind = "unchecked" THEN "unchecked" ELSE c.kind,
             had |-> {od[c.obj]}, wrote |-> {}, fault |-> FALSE]

Init == /\ cl = Idle /\ done = NotDone /\ reqs = <<>> /\ resps = <<>>
        /\ srv = NoTransfer /\ owed = <<>> /\ begun = 0 /\ disturbed = 0
        /\ od \in {f \in [Objects -> AllValues] : \A o \in Objects : f[o] \in Values[o]}
        /\ hist = [late |-> 0, fresh |-> TRUE, kind |-> "driver",
                   had |-> {}, wrote |-> {}, fault |-> FALSE]

(* SdoClient: what a response does to the transfer.                        *)
Complete(val) == [tag |-> "complete", cl |-> Idle, frames |-> <<>>, val |-> val]
SendNext(c, frames) == [tag |-> "next", cl |-> c, frames |-> frames, val |-> <<>>]
AbortedBy == [tag |-> "aborted", cl |-> Idle, frames |-> <<>>, val |-> <<>>]
IgnoredAbort(c) == [tag |-> "ignored", cl |-> c, frames |-> <<>>, val |-> <<>>]
Error == [tag |-> "error", cl |-> Idle, frames |-> <<>>, val |-> <<>>]

UploadSegmentRequest(toggle) == [op |-> "upload_segment", toggle |-> toggle]

StartUpload(obj) == [op |-> "upload", obj |-> obj]

TooLarge(v) == ~ Expedited(v) /\ Len(v) > ClientBytes

StartDownload(obj, v) ==
    [op |-> "download", obj |-> obj, expedited |-> Expedited(v),
     data |-> IF Expedited(v) THEN v ELSE <<>>, size |-> Len(v)]

UploadInitResponse(c, r) ==
    IF r.op = "expedited" THEN IF Len(r.data) > ClientBytes THEN Error ELSE Complete(r.data)
    ELSE IF r.size > ClientBytes THEN Error
    ELSE SendNext([c EXCEPT !.st = "upload_segmented", !.size = r.size],
                  <<UploadSegmentRequest(FALSE)>>)

ToggleOk(c, r) == r.toggle = c.toggle

UploadSegmentResponse(c, r) ==
    LET v == c.val \o r.data
    IN  IF \/ ~ ToggleOk(c, r)
           \/ Len(v) > ClientBytes
           \/ c.size >= 0 /\ (Len(v) > c.size \/ (r.last /\ Len(v) # c.size))
        THEN Error
        ELSE IF r.last THEN Complete(v)
        ELSE SendNext([c EXCEPT !.val = v, !.toggle = ~ @], <<UploadSegmentRequest(~ c.toggle)>>)

(* make_download_segment and the client after it.                          *)
NextSegment(c, toggle) ==
    LET d == SegmentAt(c.val, c.off)
    IN  SendNext([c EXCEPT !.st = "download_segmented", !.toggle = toggle, !.off = @ + Len(d)],
                 <<[op |-> "download_segment", toggle |-> toggle, data |-> d,
                    last |-> LastAt(c.val, c.off)]>>)

DownloadInitResponse(c) ==
    IF Expedited(c.val) THEN Complete(c.val) ELSE NextSegment(c, FALSE)

(* Mutated form of DownloadSegmentResponse: the toggle bit stays.          *)
DownloadSegmentResponseUntoggled(c, r) ==
    IF ~ ToggleOk(c, r) THEN Error
    ELSE IF c.off >= Len(c.val) THEN Complete(c.val)
    ELSE NextSegment(c, c.toggle)

DownloadSegmentResponse(c, r) ==
    IF ~ ToggleOk(c, r) THEN Error
    ELSE IF c.off >= Len(c.val) THEN Complete(c.val)
    ELSE NextSegment(c, ~ c.toggle)

(* An abort of another object is another transfer's.                       *)
ProcessResponse(c, r) ==
    IF r.op = "abort" THEN IF r.obj \in {Channel, c.obj} THEN AbortedBy ELSE IgnoredAbort(c)
    ELSE IF c.st = "upload" /\ r.op \in {"expedited", "upload"} /\ r.obj = c.obj
    THEN UploadInitResponse(c, r)
    ELSE IF c.st = "upload_segmented" /\ r.op = "upload_segment" THEN UploadSegmentResponse(c, r)
    ELSE IF c.st = "download" /\ r.op = "download" /\ r.obj = c.obj THEN DownloadInitResponse(c)
    ELSE IF c.st = "download_segmented" /\ r.op = "download_segment"
    THEN DownloadSegmentResponse(c, r)
    ELSE Error

(* A block segment on the response identifier, its number below 32, has    *)
(* the bits of an upload segment, or with bit 7 of an abort.               *)
ResponseReadings(r) ==
    IF r.op # "block_segment" THEN {r}
    ELSE IF r.last THEN {AbortFrame(o, "protocol") : o \in Objects \cup {Channel}}
    ELSE [op : {"upload_segment"}, toggle : BOOLEAN, last : BOOLEAN, data : {r.data}]

-----------------------------------------------------------------------------
(* The client of block transfers, as CiA 301 has it.                       *)

BlockSegments(c, blk) ==
    LET left == (Len(c.val) - c.off + SegBytes - 1) \div SegBytes
        at(i) == c.off + (i - 1) * SegBytes
    IN  [i \in 1..Lesser(blk, IF left = 0 THEN 1 ELSE left) |->
            [op |-> "block_segment", seq |-> i, last |-> LastAt(c.val, at(i)),
             data |-> Padded(SegmentAt(c.val, at(i)))]]

SendBlock(c, blk) == SendNext([c EXCEPT !.st = "block_sending"], BlockSegments(c, blk))

DownloadAcked(c, r) ==
    LET d == [c EXCEPT !.off = @ + r.seq * SegBytes]
    IN  IF d.off < Len(c.val) THEN SendBlock(d, r.blk)
        ELSE SendNext([d EXCEPT !.st = "end_download"],
                      <<[op |-> "end_download", crc |-> c.val,
                         unused |-> IF c.val = <<>> THEN SegBytes ELSE Unused(c.val)]>>)

(* A segment out of sequence is passed over; the acknowledgement of the    *)
(* sub-block asks for it again.                                            *)
SegmentReceived(c, r) ==
    LET good == r.seq = c.seq + 1
        d == IF good THEN [c EXCEPT !.val = @ \o r.data, !.seq = r.seq] ELSE c
    IN  IF r.last \/ r.seq >= c.blk
        THEN SendNext([d EXCEPT !.seq = 0,
                                !.st = IF good /\ r.last THEN "end_upload" ELSE @],
                      <<[op |-> "ack_upload", seq |-> d.seq, blk |-> c.blk]>>)
        ELSE SendNext(d, <<>>)

UploadEnded(c, r) ==
    LET v == SubSeq(c.val, 1, Len(c.val) - r.unused)
    IN  IF r.unused <= Len(c.val) /\ r.crc = v /\ Len(v) = c.size
        THEN [Complete(v) EXCEPT !.frames = <<[op |-> "end_upload"]>>]
        ELSE Error

BlockResponse(c, r) ==
    IF r.op = "abort" THEN AbortedBy
    ELSE IF c.st = "block_upload" /\ r.op = "block_upload" /\ r.obj = c.obj
    THEN SendNext([c EXCEPT !.st = "block_receiving", !.size = r.size], <<[op |-> "start_upload"]>>)
    ELSE IF c.st = "block_receiving" /\ r.op = "block_segment" THEN SegmentReceived(c, r)
    ELSE IF c.st = "end_upload" /\ r.op = "end_upload" THEN UploadEnded(c, r)
    ELSE IF c.st = "block_download" /\ r.op = "block_download" /\ r.obj = c.obj
    THEN SendBlock(c, r.blk)
    ELSE IF c.st = "block_sending" /\ r.op = "ack_download" THEN DownloadAcked(c, r)
    ELSE IF c.st = "end_download" /\ r.op = "end_download" THEN Complete(c.val)
    ELSE Error

-----------------------------------------------------------------------------
(* The host.                                                               *)

Ended(how, val) == cl' = Idle /\ done' = [how |-> how, val |-> val]
Fault == hist' = [hist EXCEPT !.fault = cl.st # "idle" \/ @]
Disturb == disturbed < MaxDisturbed /\ disturbed' = disturbed + 1
Quiet == UNCHANGED disturbed

(* upload_impl, download_impl: a new client and its first frame.  When the *)
(* frame is not sent, nothing else is.                                     *)
MayBegin == cl.st = "idle" /\ begun < MaxTransfers
Begin(c, frame) ==
    /\ begun' = begun + 1
    /\ \/ /\ cl' = c /\ done' = NotDone /\ reqs' = Append(reqs, frame)
          /\ hist' = Begun(c) /\ Quiet
       \/ /\ Ended("failed", <<>>) /\ UNCHANGED reqs /\ Disturb
          /\ hist' = [Begun(c) EXCEPT !.fault = TRUE]
    /\ UNCHANGED <<resps, srv, owed, od>>

BeginUpload(o) == MayBegin /\ Begin(Client("upload", o, <<>>, -1), StartUpload(o))

BeginDownload(o, v) ==
    /\ MayBegin /\ v \in Values[o] /\ ~ TooLarge(v)
    /\ Begin(Client("download", o, v, Len(v)), StartDownload(o, v))

BeginBlockUpload(o, blk) ==
    /\ MayBegin
    /\ Begin([Client("block_upload", o, <<>>, -1) EXCEPT !.blk = blk, !.kind = "checked"],
             [op |-> "block_upload", obj |-> o, blk |-> blk])

BeginBlockDownload(o, v, size, crc) ==
    /\ MayBegin /\ v \in Values[o]
    /\ Begin([Client("block_download", o, v, Len(v)) EXCEPT
                 !.kind = IF crc THEN "checked" ELSE "unchecked"],
             [op |-> "block_download", obj |-> o, size |-> size, crc |-> crc])

(* finish: a transfer that breaks off offers an abort to the transport,    *)
(* which may not take it.                                                  *)
GiveUp == /\ Ended("failed", <<>>)
          /\ reqs' \in {reqs, Append(reqs, [op |-> "abort"])}

Timeout == /\ cl.st # "idle" /\ GiveUp /\ Fault
           /\ UNCHANGED <<disturbed, resps, srv, owed, od, begun>>

(* receive_response, and what upload_impl and download_impl make of it.    *)
Receive ==
    /\ cl.st # "idle" /\ resps # <<>>
    /\ resps' = Tail(resps)
    /\ LET r == Head(resps)
       IN  \E a \in IF cl.st \in BlockStates THEN {BlockResponse(cl, r)}
                    ELSE {ProcessResponse(cl, s) : s \in ResponseReadings(r)} :
             \/ /\ a.tag \in {"next", "ignored"} /\ cl' = a.cl /\ UNCHANGED <<done, hist>>
                /\ reqs' = reqs \o a.frames
             \/ /\ a.tag = "next" /\ a.frames # <<>> /\ GiveUp /\ Fault
             \/ /\ a.tag = "complete" /\ reqs' = reqs \o a.frames /\ UNCHANGED hist
                /\ Ended(IF cl.st \in Downloads THEN "downloaded" ELSE "uploaded", a.val)
             \/ /\ a.tag = "aborted" /\ Ended("aborted", <<>>) /\ UNCHANGED <<reqs, hist>>
             \/ /\ a.tag = "error" /\ GiveUp /\ UNCHANGED hist
    /\ UNCHANGED <<srv, owed, od, begun, disturbed>>

-----------------------------------------------------------------------------
(* The node.                                                               *)

(* PendingSdoTx::queue and try_send: the transport takes the frame, or it  *)
(* is owed.                                                                *)
Respond(resp) == \/ resps' = resps \o resp /\ owed' = <<>> /\ Quiet
                 \/ resp # <<>> /\ owed' = resp /\ UNCHANGED resps /\ Disturb

Watched(o) ==
    IF cl.st = "idle" THEN hist
    ELSE [hist EXCEPT !.had = @ \cup {o.od[cl.obj]},
                      !.wrote = @ \cup {w[2] : w \in {u \in o.wrote : u[1] = cl.obj}},
                      !.fault = @ \/ o.resp = <<AbortFrame(cl.obj, "object")>>]

(* handle_sdo_request: while a response is owed only an abort gets in.     *)
Handle ==
    /\ reqs # <<>> /\ reqs' = Tail(reqs)
    /\ LET r == Head(reqs)
       IN  \/ /\ owed # <<>> /\ r.op # "abort" /\ Fault
              /\ UNCHANGED <<disturbed, resps, srv, owed, od>>
           \/ /\ owed = <<>> \/ r.op = "abort"
              /\ \E o \in ProcessWithContext(srv, r, od) :
                    /\ srv' = o.x /\ od' = o.od /\ hist' = Watched(o) /\ Respond(o.resp)
    /\ UNCHANGED <<cl, done, begun>>

SendOwed == /\ owed # <<>> /\ resps' = resps \o owed /\ owed' = <<>>
            /\ UNCHANGED <<cl, done, reqs, srv, od, begun, hist, disturbed>>

(* begin_poll: a response that waited too long is given up with the        *)
(* transfer; otherwise a transfer whose client went silent is.             *)
DropOwed == /\ owed # <<>> /\ owed' = <<>> /\ srv' = NoTransfer /\ Fault
            /\ UNCHANGED <<cl, done, reqs, resps, od, begun, disturbed>>

(* Mutated form of TimesOut: block transfers are not looked at.            *)
TimesOutSegmented(x) == x.kind \in {"upload", "download"}

TimesOut(x) == x.kind # "none"

(* The abort is sent when the channels are serviced, after the requests of *)
(* the same poll.  A response that is owed is as old as its transfer, so   *)
(* none is replaced here (TimeoutAbortReplacesNothing of Node).            *)
CheckTimeout == /\ owed = <<>> /\ TimesOut(srv) /\ srv' = NoTransfer
                /\ owed' = <<AbortFrame(srv.obj, "timeout")>> /\ Fault /\ Quiet
                /\ UNCHANGED <<cl, done, reqs, resps, od, begun>>

(* PendingSdoTx::service.                                                  *)
PollBlockUpload == /\ owed = <<>> /\ Polls(srv) /\ srv' = Polled(srv)
                   /\ Respond(<<PolledSegment(srv)>>)
                   /\ UNCHANGED <<cl, done, reqs, od, begun, hist>>

(* abort_all_sdo_transfers.                                                *)
NodeReset == /\ srv # NoTransfer \/ owed # <<>>
             /\ srv' = NoTransfer /\ owed' = <<>> /\ Fault /\ Disturb
             /\ UNCHANGED <<cl, done, reqs, resps, od, begun>>

AppWrites(o, v) == /\ v \in Values[o] \ {od[o]} /\ Disturb /\ od' = [od EXCEPT ![o] = v]
                   /\ hist' = IF cl.st # "idle" /\ cl.obj = o
                              THEN [hist EXCEPT !.had = @ \cup {v}] ELSE hist
                   /\ UNCHANGED <<cl, done, reqs, resps, srv, owed, begun>>

(* The queues on the way, on either side, drop frames.                     *)
LoseRequest == /\ reqs # <<>> /\ reqs' = Tail(reqs) /\ Fault /\ Disturb
               /\ UNCHANGED <<cl, done, resps, srv, owed, od, begun>>

LoseResponse == /\ resps # <<>> /\ resps' = Tail(resps) /\ Fault /\ Disturb
                /\ UNCHANGED <<cl, done, reqs, srv, owed, od, begun>>

Next ==
    \/ \E o \in Objects : BeginUpload(o)
    \/ \E o \in Objects, v \in AllValues : BeginDownload(o, v)
    \/ \E o \in Objects, blk \in 1..MaxBlkSize : BeginBlockUpload(o, blk)
    \/ \E o \in Objects, v \in AllValues, sized \in BOOLEAN, crc \in BOOLEAN :
          BeginBlockDownload(o, v, IF sized THEN Len(v) ELSE -1, crc)
    \/ Timeout \/ Receive
    \/ Handle \/ SendOwed \/ DropOwed \/ CheckTimeout \/ PollBlockUpload \/ NodeReset
    \/ \E o \in Objects, v \in AllValues : AppWrites(o, v)
    \/ LoseRequest \/ LoseResponse

(* Deadlines pass, the node is polled and its clock advances.              *)
Fairness == /\ WF_vars(Timeout) /\ WF_vars(Handle) /\ WF_vars(PollBlockUpload)
            /\ WF_vars(SendOwed \/ DropOwed) /\ WF_vars(CheckTimeout)

Spec == Init /\ [][Next]_vars /\ Fairness

-----------------------------------------------------------------------------
(* The types of the state; no buffer is overrun, no offset is past its end. *)
TypeOK ==
    /\ cl.st \in ClientStates /\ (cl.st # "idle" => cl.obj \in Objects)
    /\ cl.st \in {"upload", "upload_segmented"} => Len(cl.val) <= ClientBytes
    /\ done.how \in Outcomes
    /\ srv.kind \in {"none", "upload", "download", "block_upload", "block_download"}
    /\ srv.kind # "none" => srv.obj \in Objects /\ Len(srv.buf) <= BufBytes
    /\ srv.kind \in {"upload", "block_upload"} => srv.off \in 0..Len(srv.buf)
    /\ Len(owed) <= 1
    /\ begun \in 0..MaxTransfers /\ hist.late \in 0..2

(* A transfer that began with nothing in the channel means what it says,   *)
(* whatever was lost and whatever an earlier transfer left in the server:  *)
(* an upload returns a value the object had during the transfer, a         *)
(* download was written during the transfer. An abort means the opposite:  *)
(* of a transfer that found channel and server idle, nothing was written.  *)
OutcomeIsReal ==
    /\ hist.late = 0 => /\ done.how = "uploaded" => done.val \in hist.had
                        /\ done.how = "downloaded" => done.val \in hist.wrote
    /\ done.how = "aborted" /\ hist.fresh => hist.wrote = {}

(* Even with the late frames of one transfer that was given up, no upload  *)
(* returns and no download writes bytes of two values.                     *)
NoMixture ==
    hist.late <= 1 /\ hist.kind # "unchecked" =>
        /\ done.how = "uploaded" => done.val \in AllValues
        /\ hist.wrote \subseteq AllValues

(* Driver and server understand each other: a transfer on an idle channel  *)
(* fails only when a frame was lost or late, or the object was refused or  *)
(* does not fit the client.                                                *)
NoDisagreement ==
    done.how \in {"aborted", "failed"} /\ hist.fresh /\ hist.kind = "driver" =>
        hist.fault \/ \E v \in hist.had : Len(v) > ClientBytes

(* The server's only transfer is not held for ever by a client that is     *)
(* gone.                                                                   *)
ChannelReleased == (srv # NoTransfer /\ cl.st = "idle") ~> (srv = NoTransfer \/ cl.st # "idle")

-----------------------------------------------------------------------------
(* The instance that is model-checked: an object of one byte, which        *)
(* travels expedited, and one of two segments.  No value is a mixture of   *)
(* two others.                                                             *)
MCObjects == {"short", "long"}
MCValues == [short |-> {<<1>>}, long |-> {<<1, 1, 1>>, <<2, 2, 2>>}]
=============================================================================
