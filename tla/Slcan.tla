-------------------------------- MODULE Slcan -------------------------------
(***************************************************************************)
(* CAN frames as lines of text over a serial line (SLCAN): the codec       *)
(* canopen-core/src/slcan/logic.rs, the line buffer of slcan/serial.rs,    *)
(* the opening of an adapter in canopen-linux/src/slcan.rs, and the line   *)
(* buffer of the browser in canopen-web/src/transport/slcan.rs.            *)
(*                                                                         *)
(* A character is a hexadecimal digit, of either case, by its value, or    *)
(* one of the symbols below.  The adapter is external: it answers          *)
(* commands with empty lines, and passes on the frames of the bus while    *)
(* its channel is open.  Noise stands for damaged and overlong lines.      *)
(*                                                                         *)
(* A read returns all that has arrived, or ReadSizes of it.  owed and      *)
(* received are the frames sent since the port was opened and those        *)
(* delivered.                                                              *)
(***************************************************************************)
EXTENDS Naturals, Sequences, SequencesExt

CONSTANTS RxBufLen,    \* length of SlcanTransport::rx_buf
          WebBufLen,   \* limit of the browser's line_buf
          BusFrames,   \* frames on the bus: [id, data]
          Noise,       \* other lines the host may read, none of them a frame
          MaxLines,    \* bound on the lines the adapter sends
          ReadSizes    \* characters a read returns, if it does not return all there are

T == 16
OtherChar == 17
CR == 18
Stamp == <<0, 1, 10, 15>>

VARIABLES lineReader,  \* whether the host is "serial" or "web"
          stage,       \* how far opening the adapter is
          channel,     \* adapter: is its CAN channel open
          toAdapter,   \* lines on their way to the adapter
          wire,        \* characters on their way to the host
          rx_buf, discarding_line,  \* line buffer; a browser has no flag
          lines, overlong, owed, received, handedOver, onBus

slcanVars == <<lineReader, stage, channel, toAdapter, wire, rx_buf, discarding_line,
               lines, overlong, owed, received, handedOver, onBus>>

-----------------------------------------------------------------------------
(* encode_slcan_frame and parse_slcan_frame.  The parser gives no frame or *)
(* one, and takes and forgets a time stamp of four digits.                 *)
AllHex(s) == \A i \in DOMAIN s : s[i] < T

EncodeSlcanFrame(f) ==
    <<T, f.id \div 256, (f.id \div 16) % 16, f.id % 16, Len(f.data)>>
      \o FlattenSeq([i \in DOMAIN f.data |-> <<f.data[i] \div 16, f.data[i] % 16>>])
      \o <<CR>>

ParseSlcanFrame(line) ==
    LET dlc == line[5]
        digits == SubSeq(line, 6, 5 + 2 * dlc)
        suffix == SubSeq(line, 6 + 2 * dlc, Len(line))
        id == 256 * line[2] + 16 * line[3] + line[4]
    IN  IF /\ Len(line) >= 5
           /\ line[1] = T
           /\ AllHex(SubSeq(line, 2, 4))
           /\ dlc <= 8
           /\ Len(line) >= 5 + 2 * dlc
           /\ AllHex(digits)
           /\ AllHex(suffix) /\ Len(suffix) \in {0, 4}
           /\ id <= 2047
        THEN <<[id |-> id, data |-> [i \in 1..dlc |-> 16 * digits[2 * i - 1] + digits[2 * i]]]>>
        ELSE <<>>

(* has_slcan_frame: somewhere the beginning of a frame.                    *)
HasSlcanFrame(s) ==
    \E i \in 1..Len(s) : i + 4 <= Len(s) /\ s[i] = T /\ AllHex(SubSeq(s, i + 1, i + 3)) /\ s[i + 4] <= 8

(* The frames of the complete lines of a text.                             *)
CrPositions(s) == {i \in DOMAIN s : s[i] = CR}
FirstCr(s) == CHOOSE i \in CrPositions(s) : \A j \in CrPositions(s) : i <= j

-----------------------------------------------------------------------------
(* SlcanTransport: take_buffered_frame.  Lines is what it makes of the     *)
(* buffer: the first frame, if any, what is left, and the flag.            *)
Taken(frame, buf, discarding) == [frame |-> frame, buf |-> buf, discarding |-> discarding]

(* Mutated form of Overrun: only the full buffer is discarded.             *)
OverrunForgets(buf, discarding) == Taken(<<>>, <<>>, FALSE)

(* A full buffer without a delimiter: discard through the next one.        *)
Overrun(buf, discarding) == Taken(<<>>, <<>>, TRUE)

RECURSIVE TakeBufferedFrame(_, _)
TakeBufferedFrame(buf, discarding) ==
    IF CrPositions(buf) = {}
      THEN IF Len(buf) = RxBufLen THEN Overrun(buf, discarding) ELSE Taken(<<>>, buf, discarding)
      ELSE LET cr == FirstCr(buf)
               frame == IF discarding THEN <<>> ELSE ParseSlcanFrame(SubSeq(buf, 1, cr - 1))
               rest == SubSeq(buf, cr + 1, Len(buf))
           IN  IF frame # <<>> THEN Taken(frame, rest, FALSE) ELSE TakeBufferedFrame(rest, FALSE)

(* How much a read may return.                                             *)
Reads == (ReadSizes \cap 0..Len(wire)) \cup {Len(wire)}

Lower(a, b) == IF a <= b THEN a ELSE b

(* try_recv: a buffered frame first; otherwise one read of n characters,   *)
(* of all that fit, or a failed read, and another look at the buffer.      *)
TryRecv(n) ==
    LET first == TakeBufferedFrame(rx_buf, discarding_line)
        read == Lower(n, RxBufLen - Len(first.buf))
        second == TakeBufferedFrame(first.buf \o SubSeq(wire, 1, read), first.discarding)
        last == IF first.frame # <<>> THEN first ELSE second
    IN  /\ lineReader = "serial" /\ stage = "ready"
        /\ n \in 0..Len(wire)
        /\ rx_buf' = last.buf
        /\ discarding_line' = last.discarding
        /\ received' = received \o last.frame
        /\ wire' = IF first.frame # <<>> THEN wire ELSE SubSeq(wire, read + 1, Len(wire))
        /\ UNCHANGED <<lineReader, stage, channel, toAdapter, lines, overlong, owed, handedOver, onBus>>

(* process_byte, in a browser: the line ends at a delimiter, and a         *)
(* character too many clears it.                                           *)
ProcessByte(s, byte) ==
    IF byte = CR THEN [buf |-> <<>>, out |-> s.out \o ParseSlcanFrame(s.buf)]
    ELSE IF Len(s.buf) < WebBufLen THEN [s EXCEPT !.buf = Append(@, byte)]
    ELSE [s EXCEPT !.buf = <<>>]

(* read_loop, character by character of a chunk.                           *)
WebRead ==
    LET end == ProcessByte([buf |-> rx_buf, out |-> <<>>], Head(wire))
    IN  /\ lineReader = "web" /\ stage = "ready"
        /\ wire # <<>>
        /\ rx_buf' = end.buf
        /\ received' = received \o end.out
        /\ wire' = Tail(wire)
        /\ UNCHANGED <<lineReader, stage, channel, toAdapter, discarding_line, lines, overlong, owed, handedOver, onBus>>

(* transmit: one write of an encoded line.                                 *)
SlcanTransmit(f) ==
    /\ stage = "ready" /\ handedOver = <<>>
    /\ toAdapter' = Append(toAdapter, EncodeSlcanFrame(f))
    /\ handedOver' = Append(handedOver, f)
    /\ UNCHANGED <<lineReader, stage, channel, wire, rx_buf, discarding_line, lines, overlong, owed, received, onBus>>

-----------------------------------------------------------------------------
(* Opening.  The commands are <<"C">>, <<"S">> and <<"O">>.                *)
CommandLine(c) == <<CR + c, CR>>
CloseCommand == CommandLine(1)
BitrateCommand == CommandLine(2)
OpenCommand == CommandLine(3)

SlcanInit ==
    /\ lineReader \in {"serial", "web"}
    /\ stage = IF lineReader = "serial" THEN "probe" ELSE "ready"
    /\ channel \in BOOLEAN
    /\ toAdapter = IF lineReader = "serial" THEN <<>> ELSE <<CloseCommand, BitrateCommand, OpenCommand>>
    /\ wire = <<>> /\ rx_buf = <<>> /\ discarding_line = FALSE
    /\ lines = 0 /\ overlong = FALSE
    /\ owed = <<>> /\ received = <<>> /\ handedOver = <<>> /\ onBus = <<>>

(* The frames still owed when reading begins with rest: those of its whole *)
(* lines, without the line that was cut in two.                            *)
RECURSIVE WholeLines(_)
WholeLines(s) ==
    IF CrPositions(s) = {} THEN <<>>
    ELSE ParseSlcanFrame(SubSeq(s, 1, FirstCr(s) - 1)) \o WholeLines(SubSeq(s, FirstCr(s) + 1, Len(s)))
AfterCut(n) ==
    LET rest == SubSeq(wire, n + 1, Len(wire))
    IN  IF n = 0 \/ wire[n] = CR \/ rest = <<>> THEN WholeLines(rest)
        ELSE WholeLines(SubSeq(rest, FirstCr(rest) + 1, Len(rest)))

(* drain_rx: what has arrived is gone, the rest of a line may follow.      *)
DrainRx(n) ==
    /\ n \in 0..Len(wire)
    /\ wire' = SubSeq(wire, n + 1, Len(wire))
    /\ rx_buf' = <<>> /\ discarding_line' = FALSE
    /\ owed' = AfterCut(n) /\ received' = <<>>
    /\ UNCHANGED <<lineReader, lines, overlong, handedOver, onBus>>

(* A read of the probe; what it saw decides, and on success the drain      *)
(* follows at once.                                                        *)
Probe(n) ==
    /\ lineReader = "serial" /\ stage = "probe"
    /\ n \in 1..Len(wire)
    /\ LET found == HasSlcanFrame(SubSeq(wire, 1, n))
       IN  \E more \in Reads \cup {n} :
             /\ more = n \/ (found /\ more > n)
             /\ DrainRx(more)
             /\ stage' = IF found THEN "ready" ELSE "probe"
    /\ UNCHANGED <<channel, toAdapter>>

(* Nothing seen in time: DTR may reset the adapter.                        *)
ProbeTimeout ==
    /\ stage = "probe"
    /\ stage' = "reset"
    /\ channel' \in {channel, FALSE}
    /\ UNCHANGED <<lineReader, toAdapter, wire, rx_buf, discarding_line, lines, overlong, owed, received, handedOver, onBus>>

Opening == [reset |-> "close", close |-> "bitrate", bitrate |-> "open", open |-> "ready"]
Commands == [close |-> CloseCommand, bitrate |-> BitrateCommand, open |-> OpenCommand]

OpenStep(n) ==
    /\ lineReader = "serial" /\ stage \in DOMAIN Opening
    /\ DrainRx(n)
    /\ stage' = Opening[stage]
    /\ toAdapter' = IF stage' = "ready" THEN toAdapter ELSE Append(toAdapter, Commands[stage'])
    /\ UNCHANGED channel

-----------------------------------------------------------------------------
(* The adapter.                                                            *)
Emit(line, frames) ==
    /\ lines < MaxLines
    /\ lines' = lines + 1
    /\ wire' = wire \o line \o <<CR>>
    /\ owed' = owed \o frames
    /\ overlong' = (overlong \/ Len(line) >= WebBufLen)
    /\ UNCHANGED <<lineReader, stage, rx_buf, discarding_line, received, handedOver>>

EmitFrame(f, stamped) ==
    /\ channel
    /\ Emit(Front(EncodeSlcanFrame(f)) \o (IF stamped THEN Stamp ELSE <<>>), <<f>>)
    /\ UNCHANGED <<channel, toAdapter, onBus>>

EmitNoise(line) ==
    /\ stage = "ready"
    /\ Emit(line, <<>>)
    /\ UNCHANGED <<channel, toAdapter, onBus>>

Answer ==
    /\ toAdapter # <<>>
    /\ toAdapter' = Tail(toAdapter)
    /\ channel' = CASE Head(toAdapter) = CloseCommand -> FALSE
                    [] Head(toAdapter) = OpenCommand -> TRUE
                    [] OTHER -> channel
    /\ onBus' = IF channel THEN onBus \o ParseSlcanFrame(Front(Head(toAdapter))) ELSE onBus
    /\ wire' = Append(wire, CR)
    /\ UNCHANGED <<lineReader, stage, rx_buf, discarding_line, lines, overlong, owed, received, handedOver>>

SlcanNext ==
    \/ \E n \in Reads : TryRecv(n) \/ Probe(n) \/ OpenStep(n)
    \/ WebRead \/ ProbeTimeout \/ Answer
    \/ \E f \in BusFrames : SlcanTransmit(f) \/ \E stamped \in BOOLEAN : EmitFrame(f, stamped)
    \/ \E line \in Noise : EmitNoise(line)

SlcanSpec == SlcanInit /\ [][SlcanNext]_slcanVars

-----------------------------------------------------------------------------
(* The frames delivered are exactly those of the whole lines sent, in      *)
(* order, however the characters arrive: none is made of the rest of a     *)
(* line that opening the port cut in two, or of the tail of a line too     *)
(* long for the buffer, and none is lost behind an answer or a damaged     *)
(* line.  The browser's buffer promises this only while every line fits.   *)
(* Frames sent reach the bus as they were.                                 *)
FramesAreWholeLines ==
    /\ stage = "ready" /\ (lineReader = "serial" \/ ~ overlong) =>
         /\ IsPrefix(received, owed)
         /\ wire = <<>> /\ rx_buf = <<>> => received = owed
    /\ IsPrefix(onBus, handedOver)
=============================================================================
