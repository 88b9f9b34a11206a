---------------------------- MODULE CanwsdAttach ----------------------------
(***************************************************************************)
(* `canwsd attach` (tools/canwsd/src/main.rs): a local SocketCAN interface *)
(* bridged to a remote network.  The local reader task fills one           *)
(* DropBuffer, outbound, that send_remote drains to the WebSocket;         *)
(* receive_remote fills another, inbound, that write_local drains to the   *)
(* local socket.  The three futures run in one select! and the first to    *)
(* return ends the command.                                                *)
(***************************************************************************)
EXTENDS DropBuffer

CONSTANTS
  AttachBuffer, \* FRAME_BUFFER
  MaxBridged    \* bound: frames pushed into each buffer

VARIABLES
  outbound, inbound,
  localReader,  \* reader_task on the local socket: running, ended or aborted
  sender,       \* send_remote: next or sending
  writer,       \* write_local: next or writing
  attached      \* the select!: running or ended

attachVars == <<outbound, inbound, localReader, sender, writer, attached>>

AttachInit ==
  /\ outbound = NewBuffer /\ inbound = NewBuffer
  /\ localReader = "running" /\ sender = "next" /\ writer = "next" /\ attached = "running"

\* One of the futures returned an error.
Detach ==
  /\ attached' = "ended"
  /\ localReader' = IF localReader = "running" THEN "aborted" ELSE localReader

\* reader_task
LocalFrame ==
  /\ localReader = "running" /\ outbound.pushed < MaxBridged
  /\ outbound' = PushItem(outbound, "frame", AttachBuffer)
  /\ UNCHANGED <<inbound, localReader, sender, writer, attached>>

LocalFails ==
  /\ localReader = "running" /\ localReader' = "ended"
  /\ outbound' = CloseBuffer(outbound)
  /\ UNCHANGED <<inbound, sender, writer, attached>>

\* The steps of buffer.next() that hand nothing out.
WaitStep(b, c) ==
  \/ b.at = "check" /\ EventOf(b) = "none" /\ c = AfterEvent(b)
  \/ b.at = "await" /\ c = PollNotified(b)
  \/ b.at = "woken" /\ c = WakeUp(b)

\* send_remote: a frame is sent, a loss logged, the end of the socket returned.
SendRemote ==
  /\ attached = "running" /\ sender = "next"
  /\ \/ /\ outbound.at = "check" /\ EventOf(outbound) # "none"
        /\ outbound' = AfterEvent(outbound)
        /\ sender' = IF EventOf(outbound) = "item" THEN "sending" ELSE "next"
        /\ IF EventOf(outbound) = "closed" THEN Detach ELSE UNCHANGED <<attached, localReader>>
     \/ WaitStep(outbound, outbound') /\ UNCHANGED <<sender, attached, localReader>>
  /\ UNCHANGED <<inbound, writer>>

\* ws_tx.send within ATTACH_WRITE_TIMEOUT, or an error or the timeout.
SendRemoteReturns ==
  /\ attached = "running" /\ sender = "sending" /\ sender' = "next"
  /\ Detach \/ UNCHANGED <<attached, localReader>>
  /\ UNCHANGED <<outbound, inbound, writer>>

\* receive_remote: a frame is pushed; frames that do not decode or cannot be
\* transmitted, status messages, pings and pongs are ignored (no step).
RemoteFrame ==
  /\ attached = "running" /\ inbound.pushed < MaxBridged
  /\ inbound' = PushItem(inbound, "frame", AttachBuffer)
  /\ UNCHANGED <<outbound, localReader, sender, writer, attached>>

\* receive_remote: the stream closes, ends or fails.
RemoteCloses ==
  /\ attached = "running" /\ Detach
  /\ UNCHANGED <<outbound, inbound, sender, writer>>

\* write_local
WriteLocal ==
  /\ attached = "running" /\ writer = "next"
  /\ \/ /\ inbound.at = "check" /\ EventOf(inbound) # "none"
        /\ inbound' = AfterEvent(inbound)
        /\ writer' = IF EventOf(inbound) = "item" THEN "writing" ELSE "next"
        /\ IF EventOf(inbound) = "closed" THEN Detach ELSE UNCHANGED <<attached, localReader>>
     \/ WaitStep(inbound, inbound') /\ UNCHANGED <<writer, attached, localReader>>
  /\ UNCHANGED <<outbound, sender>>

\* local.write_frame: an error only drops the frame, the timeout is final.
WriteLocalReturns ==
  /\ attached = "running" /\ writer = "writing" /\ writer' = "next"
  /\ Detach \/ UNCHANGED <<attached, localReader>>
  /\ UNCHANGED <<outbound, inbound, sender>>

AttachNext ==
  \/ LocalFrame \/ LocalFails \/ SendRemote \/ SendRemoteReturns
  \/ RemoteFrame \/ RemoteCloses \/ WriteLocal \/ WriteLocalReturns

\* The futures are polled when woken, and the sends have a timeout.
AttachFairness ==
  /\ WF_attachVars(SendRemote) /\ WF_attachVars(SendRemoteReturns)
  /\ WF_attachVars(WriteLocal) /\ WF_attachVars(WriteLocalReturns)

-----------------------------------------------------------------------------
\* attach has not caught up: frames wait in one of the directions, or the local
\* interface has failed, and the command goes on.
AttachBehind ==
  /\ attached # "ended"
  /\ Unread(outbound) \/ Unread(inbound) \/ localReader = "ended"
=============================================================================
