---------------------------- MODULE SdoServerOps ----------------------------
(***************************************************************************)
(* The SDO server of canopen-core/src/sdo/server.rs with the fields of its *)
(* messages: what process_with_context answers to a request, what it does  *)
(* to the one transfer of the channel, and what it writes to the object    *)
(* dictionary.                                                             *)
(*                                                                         *)
(* An object stands for an index and a subindex, a value is the sequence   *)
(* of its bytes, and a CRC is the sequence it was computed over.  Requests *)
(* and responses are records; an abort code only tells whether the object  *)
(* was refused, the protocol violated or the transfer timed out.  The      *)
(* object dictionary may refuse any read and any write.                    *)
(***************************************************************************)
EXTENDS Integers, Sequences

CONSTANTS SegBytes,        \* data bytes of a segment (7)
          ExpeditedBytes,  \* data bytes of an expedited frame (4)
          MaxBlkSize       \* MAX_BLKSIZE, segments of a sub-block (127)

ASSUME SdoSizesAssumption ==
    /\ SegBytes \in Nat \ {0}
    /\ ExpeditedBytes \in Nat \ {0}
    /\ MaxBlkSize \in Nat \ {0}

BufBytes == MaxBlkSize * SegBytes
Channel == "0x0000:00"            \* what an abort of no object in particular names

Lesser(a, b) == IF a < b THEN a ELSE b
Expedited(v) == Len(v) \in 1..ExpeditedBytes
SegmentAt(v, off) == SubSeq(v, off + 1, Lesser(off + SegBytes, Len(v)))
LastAt(v, off) == Len(v) - off <= SegBytes
Padded(d) == d \o [i \in 1..(SegBytes - Len(d)) |-> 0]
Unused(v) == (SegBytes - (Len(v) % SegBytes)) % SegBytes

NoTransfer == [kind |-> "none"]
SegmentedUpload(obj, v) ==
    [kind |-> "upload", obj |-> obj, toggle |-> FALSE, buf |-> v, off |-> 0]
SegmentedDownload(obj, size) ==
    [kind |-> "download", obj |-> obj, toggle |-> FALSE, buf |-> <<>>, size |-> size]
BlockUpload(obj, v, blk) ==
    [kind |-> "block_upload", obj |-> obj, buf |-> v, off |-> 0, start |-> 0,
     blk |-> blk, seq |-> 0, last |-> 0]
BlockDownload(obj, size, crc) ==
    [kind |-> "block_download", obj |-> obj, buf |-> <<>>, size |-> size,
     seq |-> 0, ending |-> FALSE, crc |-> crc]

(* The transfer afterwards, the response if there is one, the object       *)
(* dictionary, and what was written to it.  Every abort that is answered   *)
(* ends the transfer.                                                      *)
Outcome(x, resp, od) == [x |-> x, resp |-> resp, od |-> od, wrote |-> {}]
Silent(x, od) == Outcome(x, <<>>, od)
Answer(x, r, od) == Outcome(x, <<r>>, od)
AbortFrame(obj, code) == [op |-> "abort", obj |-> obj, code |-> code]
Aborted(obj, od) == Answer(NoTransfer, AbortFrame(obj, "protocol"), od)
Refused(obj, od) == Answer(NoTransfer, AbortFrame(obj, "object"), od)

(* validate_download and od.write.                                         *)
Commit(obj, v, r, od) ==
    {[Answer(NoTransfer, r, [od EXCEPT ![obj] = v]) EXCEPT !.wrote = {<<obj, v>>}],
     Refused(obj, od)}

InitiateUpload(r, od) ==
    LET v == od[r.obj]
    IN  {Refused(r.obj, od)} \cup
        (IF Len(v) > BufBytes THEN {}
         ELSE IF Expedited(v)
         THEN {Answer(NoTransfer, [op |-> "expedited", obj |-> r.obj, data |-> v], od)}
         ELSE {Answer(SegmentedUpload(r.obj, v),
                      [op |-> "upload", obj |-> r.obj, size |-> Len(v)], od)})

(* Mutated form of UploadSegment: every segment is read from the object    *)
(* dictionary instead of the copy made when the upload was initiated.      *)
UploadSegmentLive(x, r, od) ==
    IF x.kind # "upload" THEN {Aborted(Channel, od)}
    ELSE IF r.toggle # x.toggle THEN {Aborted(x.obj, od)}
    ELSE LET d == SegmentAt(od[x.obj], x.off)
             s == [op |-> "upload_segment", toggle |-> x.toggle, data |-> d,
                   last |-> LastAt(x.buf, x.off)]
         IN  {Answer(IF s.last THEN NoTransfer
                     ELSE [x EXCEPT !.off = @ + Len(d), !.toggle = ~ @], s, od)}

UploadSegment(x, r, od) ==
    IF x.kind # "upload" THEN {Aborted(Channel, od)}
    ELSE IF r.toggle # x.toggle THEN {Aborted(x.obj, od)}
    ELSE LET d == SegmentAt(x.buf, x.off)
             s == [op |-> "upload_segment", toggle |-> x.toggle, data |-> d,
                   last |-> LastAt(x.buf, x.off)]
         IN  {Answer(IF s.last THEN NoTransfer
                     ELSE [x EXCEPT !.off = @ + Len(d), !.toggle = ~ @], s, od)}

(* A size of -1 is one that was not indicated.                             *)
InitiateDownload(r, od) ==
    LET s == [op |-> "download", obj |-> r.obj]
    IN  IF r.expedited THEN Commit(r.obj, r.data, s, od)
        ELSE IF r.size > BufBytes THEN {Refused(r.obj, od)}
        ELSE {Answer(SegmentedDownload(r.obj, r.size), s, od)}

DownloadSegment(x, r, od) ==
    IF x.kind # "download" THEN {Aborted(Channel, od)}
    ELSE LET v == x.buf \o r.data
             s == [op |-> "download_segment", toggle |-> r.toggle]
         IN  IF \/ r.toggle # x.toggle
                \/ x.size >= 0 /\ (Len(v) > x.size \/ (r.last /\ Len(v) # x.size))
                \/ Len(v) > BufBytes
             THEN {Aborted(x.obj, od)}
             ELSE IF r.last THEN Commit(x.obj, v, s, od)
             ELSE {Answer([x EXCEPT !.buf = v, !.toggle = ~ @], s, od)}

(* handle_block_upload: initiate, start, acknowledge a sub-block, end.     *)
InitiateBlockUpload(r, od) ==
    LET v == od[r.obj]
    IN  IF r.blk \notin 1..MaxBlkSize THEN {Aborted(r.obj, od)}
        ELSE {Refused(r.obj, od)} \cup
        (IF Len(v) > BufBytes THEN {}
         ELSE {Answer(BlockUpload(r.obj, v, r.blk),
                      [op |-> "block_upload", obj |-> r.obj, size |-> Len(v)], od)})

StartBlockUpload(x, od) ==
    IF x.kind = "block_upload" /\ x.seq = 0 /\ x.off = 0
    THEN {Silent([x EXCEPT !.seq = 1], od)}
    ELSE {Aborted(Channel, od)}

(* The first byte that was not acknowledged.                               *)
Acknowledged(x, ackseq) == Lesser(x.start + ackseq * SegBytes, Len(x.buf))

AckBlockUpload(x, r, od) ==
    IF x.kind # "block_upload" THEN {Aborted(Channel, od)}
    ELSE IF x.seq # 0 THEN {Silent(x, od)}
    ELSE IF r.blk \notin 1..MaxBlkSize \/ r.seq > x.last THEN {Aborted(x.obj, od)}
    ELSE LET off == Acknowledged(x, r.seq)
         IN  IF off >= Len(x.buf)
             THEN {Answer(NoTransfer, [op |-> "end_upload", unused |-> Unused(x.buf),
                                       crc |-> SubSeq(x.buf, 1, off)], od)}
             ELSE {Silent([x EXCEPT !.off = off, !.start = off, !.blk = r.blk,
                                    !.seq = 1, !.last = 0], od)}

EndBlockUpload(x, od) == {Silent(IF x.kind = "block_upload" THEN NoTransfer ELSE x, od)}

(* poll_block_upload: the next segment of a sub-block under way.           *)
Polls(x) == x.kind = "block_upload" /\ x.seq # 0
PolledSegment(x) ==
    [op |-> "block_segment", seq |-> x.seq, last |-> LastAt(x.buf, x.off),
     data |-> Padded(SegmentAt(x.buf, x.off))]

Polled(x) ==
    [x EXCEPT !.off = Lesser(@ + SegBytes, Len(x.buf)), !.last = x.seq,
              !.seq = IF x.seq >= x.blk \/ LastAt(x.buf, x.off) THEN 0 ELSE @ + 1]

(* handle_block_download: initiate and end; and the segments in between.   *)
InitiateBlockDownload(r, od) ==
    IF r.size > BufBytes THEN {Refused(r.obj, od)}
    ELSE {Answer(BlockDownload(r.obj, r.size, r.crc),
                 [op |-> "block_download", obj |-> r.obj, blk |-> MaxBlkSize], od)}

(* Mutated form of SequenceOk: a gap in the numbers goes unnoticed.        *)
SequenceOkAnyway(x, seq) == seq > x.seq

SequenceOk(x, seq) == seq = x.seq + 1

BlockDownloadSegment(x, r, od) ==
    IF ~ SequenceOk(x, r.seq) \/ BufBytes - Len(x.buf) < SegBytes THEN {Aborted(x.obj, od)}
    ELSE LET y == [x EXCEPT !.buf = @ \o r.data, !.seq = r.seq]
             ack == [op |-> "ack_download", seq |-> r.seq, blk |-> MaxBlkSize]
         IN  IF r.last THEN {Answer([y EXCEPT !.ending = TRUE], ack, od)}
             ELSE IF r.seq >= MaxBlkSize THEN {Answer([y EXCEPT !.seq = 0], ack, od)}
             ELSE {Silent(y, od)}

EndBlockDownload(x, r, od) ==
    IF x.kind # "block_download" THEN {Aborted(Channel, od)}
    ELSE IF r.unused > SegBytes - 1 \/ Len(x.buf) < r.unused THEN {Aborted(x.obj, od)}
    ELSE LET v == SubSeq(x.buf, 1, Len(x.buf) - r.unused)
         IN  IF (x.size >= 0 /\ Len(v) # x.size) \/ (x.crc /\ r.crc # v)
             THEN {Aborted(x.obj, od)}
             ELSE Commit(x.obj, v, [op |-> "end_download"], od)

(* While block segments are received, byte 0 of any frame but an abort is  *)
(* read as a sequence number: a request that is none may happen to carry   *)
(* the expected one.                                                       *)
Readings(x, r) ==
    IF r.op = "block_segment" THEN {r}
    ELSE [op : {"block_segment"}, seq : {0, x.seq + 1}, last : BOOLEAN, data : {Padded(<<>>)}]

(* A block segment at any other time: its number, below 32 here, is read   *)
(* as the bits of a download segment, or with bit 7 as an abort.           *)
StraySegment(x, r, od) ==
    IF r.last THEN {Silent(NoTransfer, od)}
    ELSE UNION {DownloadSegment(x, s, od) :
                  s \in [toggle : BOOLEAN, last : BOOLEAN, data : {r.data}]}

ProcessWithContext(x, r, od) ==
    IF x.kind = "block_download" /\ ~ x.ending /\ r.op # "abort"
    THEN UNION {BlockDownloadSegment(x, s, od) : s \in Readings(x, r)}
    ELSE CASE r.op = "upload"           -> InitiateUpload(r, od)
           [] r.op = "upload_segment"   -> UploadSegment(x, r, od)
           [] r.op = "download"         -> InitiateDownload(r, od)
           [] r.op = "download_segment" -> DownloadSegment(x, r, od)
           [] r.op = "block_upload"     -> InitiateBlockUpload(r, od)
           [] r.op = "start_upload"     -> StartBlockUpload(x, od)
           [] r.op = "ack_upload"       -> AckBlockUpload(x, r, od)
           [] r.op = "end_upload"       -> EndBlockUpload(x, od)
           [] r.op = "block_download"   -> InitiateBlockDownload(r, od)
           [] r.op = "end_download"     -> EndBlockDownload(x, r, od)
           [] r.op = "abort"            -> {Silent(NoTransfer, od)}
           [] r.op = "block_segment"    -> StraySegment(x, r, od)
=============================================================================
