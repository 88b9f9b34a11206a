------------------------------- MODULE Canwsd -------------------------------
(***************************************************************************)
(* One WebSocket client of `canwsd expose` (tools/canwsd/src/bridge.rs):   *)
(* its CAN socket with the kernel's receive filter, the reader task that   *)
(* drains the socket into a DropBuffer, and the select! loop of run_client *)
(* between that buffer, the WebSocket and the keepalive timer.             *)
(*                                                                         *)
(* A frame is known by its identifier; error frames have the identifier    *)
(* "error".  A filter list is the set of identifiers it accepts, or        *)
(* NoFilter.  Arrival in the socket and the reader's read are one step.    *)
(*                                                                         *)
(* Frames buffered before the last filter change were judged by an older   *)
(* kernel filter; they are marked not fresh, and no claim is made of them. *)
(***************************************************************************)
EXTENDS DropBuffer, FiniteSets

CONSTANTS
  CanIds,       \* identifiers of data frames
  NoFilter,     \* the filter of a client that set none
  FrameBuffer,  \* FRAME_BUFFER, 16384 in the code
  KernelLimit,  \* MAX_KERNEL_FILTERS, 512 in the code
  FailingCalls, \* the setsockopt calls that may fail: accept_all, drop_all, filters
  MaxArrivals,  \* bound: frames arriving on the bus
  MaxQuiet,     \* keepalive ticks after which CLIENT_TIMEOUT has surely passed
  MaxCommands   \* bound: commands the client sends

\* No filter at all is not a list of identifiers.
ASSUME NoFilterAssumption == \A f \in SUBSET CanIds : f # NoFilter

VARIABLES
  buffer,       \* the DropBuffer between reader_task and run_client
  reader,       \* reader_task: running, ended (read error) or aborted
  conn,         \* run_client: loop, sending, writing or done
  afterSend,    \* what follows a successful send_ws: loop, close or done
  filter,       \* the client's filter: NoFilter or the accepted identifiers
  userspace,    \* userspace_filter
  kernel,       \* identifiers the socket's kernel filter accepts
  wantErrors,   \* ?errors=1
  quiet,        \* keepalive ticks since last_rx
  peer,         \* the client's end still answers
  commands,     \* commands received so far
  verdict       \* history: the last fresh frame, wanted by the client and forwarded

canwsdVars == <<buffer, reader, conn, afterSend, filter, userspace, kernel,
                wantErrors, quiet, peer, commands, verdict>>

Accepts(f, id) == f = NoFilter \/ id \in f

\* Every way a setsockopt call of apply_filter can turn out.
Outcomes(call) == IF call \in FailingCalls THEN {TRUE, FALSE} ELSE {TRUE}

-----------------------------------------------------------------------------
(* The wire format, canwsd-proto/src/wire.rs: a message is known by its     *)
(* length, its DLC byte and the flags of its id word.                       *)

\* WireFrame::decode
WireDecodes(m) == m.len >= 5 /\ m.dlc <= 8 /\ m.len = 5 + m.dlc

ClientMessages ==
  LET M(l, d, e, r) == [len |-> l, dlc |-> d, error |-> e, inRange |-> r]
  IN {M(5, 0, FALSE, TRUE), M(4, 0, FALSE, TRUE), M(14, 9, FALSE, TRUE), M(6, 0, FALSE, TRUE),
      M(5, 0, TRUE, TRUE), M(5, 0, FALSE, FALSE)}

\* can_frame_from_wire: error frames and identifiers out of range have no
\* SocketCAN frame to send.
Transmittable(m) == WireDecodes(m) /\ ~m.error /\ m.inRange

-----------------------------------------------------------------------------
(* The receive filter.                                                      *)

\* Mutant: a filter list the kernel refused is not checked in userspace either.
ApplyFilterTrusting(f, old, k, u) ==
  \E pairs \in Outcomes("filters") :
    CASE f = NoFilter -> k = CanIds /\ u = FALSE
      [] f = {} -> k = {} /\ u = FALSE
      [] OTHER -> k = (IF pairs /\ Cardinality(f) <= KernelLimit THEN f ELSE CanIds) /\ u = FALSE

\* apply_filter on a socket with kernel filter old: the kernel filter k and the
\* userspace flag u it leaves, for every outcome of the calls it makes.  One id:mask pair per identifier.
ApplyFilter(f, old, k, u) ==
  \E all \in Outcomes("accept_all"), none \in Outcomes("drop_all"), pairs \in Outcomes("filters") :
    LET acceptAll == IF all THEN CanIds ELSE old
    IN CASE f = NoFilter -> k = acceptAll /\ u = FALSE
         [] f = {} -> k = (IF none THEN {} ELSE old) /\ u = ~none
         [] OTHER -> IF Cardinality(f) <= KernelLimit /\ pairs
                     THEN k = f /\ u = FALSE
                     ELSE k = acceptAll /\ u = TRUE

\* The `pass` of an Item: error frames bypass the filter.
Passes(id) == id = "error" \/ ~userspace \/ Accepts(filter, id)

-----------------------------------------------------------------------------
\* ws_handler and open_client_socket: a socket accepts everything until its
\* filter is applied; then run_client starts.
CanwsdInit ==
  /\ buffer = NewBuffer
  /\ reader = "running" /\ conn = "loop" /\ afterSend = "loop"
  /\ filter \in {NoFilter} \cup SUBSET CanIds
  /\ kernel \in SUBSET CanIds /\ userspace \in BOOLEAN
  /\ ApplyFilter(filter, CanIds, kernel, userspace)
  /\ wantErrors \in BOOLEAN
  /\ quiet = 0 /\ peer = TRUE /\ commands = 0
  /\ verdict = [wanted |-> TRUE, forwarded |-> TRUE]

\* A frame arrives on the bus: the kernel filter withholds it, or reader_task
\* reads and pushes it.  Error frames reach the sockets that asked for them.
Arrive(id) ==
  /\ reader = "running" /\ buffer.pushed < MaxArrivals
  /\ LET let_in == IF id = "error" THEN wantErrors ELSE id \in kernel
     IN /\ buffer' = IF let_in THEN PushItem(buffer, [id |-> id, fresh |-> TRUE], FrameBuffer)
                               ELSE buffer
        /\ verdict' = IF let_in \/ id = "error" THEN verdict
                      ELSE [wanted |-> Accepts(filter, id), forwarded |-> FALSE]
  /\ UNCHANGED <<reader, conn, afterSend, filter, userspace, kernel, wantErrors, quiet, peer,
                 commands>>

\* reader_task meets a read error: the interface went down.
BusFails ==
  /\ reader = "running"
  /\ reader' = "ended" /\ buffer' = CloseBuffer(buffer)
  /\ UNCHANGED <<conn, afterSend, filter, userspace, kernel, wantErrors, quiet, peer, commands,
                 verdict>>

\* The loop ends: run_client aborts the reader and drops the WebSocket.
Disconnect ==
  /\ conn' = "done" /\ afterSend' = "done"
  /\ reader' = IF reader = "running" THEN "aborted" ELSE reader

\* The first branch of the select!: buffer.next() is polled and has an event.
\* A frame that passes, a loss and the end of the bus are each sent.
BufferEvent ==
  /\ conn = "loop" /\ buffer.at = "check" /\ EventOf(buffer) # "none"
  /\ buffer' = AfterEvent(buffer)
  /\ LET event == EventOf(buffer)
         item == Head(buffer.items).x
     IN /\ conn' = IF event = "item" /\ ~Passes(item.id) THEN "loop" ELSE "sending"
        /\ afterSend' = IF event = "closed" THEN "close" ELSE "loop"
        /\ verdict' = IF event = "item" /\ item.fresh /\ item.id # "error"
                      THEN [wanted |-> Accepts(filter, item.id), forwarded |-> Passes(item.id)]
                      ELSE verdict
  /\ UNCHANGED <<reader, filter, userspace, kernel, wantErrors, quiet, peer, commands>>

\* The same branch without an event: check, await, sleep, wake up.
BufferWait ==
  /\ conn = "loop"
  /\ \/ buffer.at = "check" /\ EventOf(buffer) = "none" /\ buffer' = AfterEvent(buffer)
     \/ buffer.at = "await" /\ buffer' = PollNotified(buffer)
     \/ buffer.at = "woken" /\ buffer' = WakeUp(buffer)
  /\ UNCHANGED <<reader, conn, afterSend, filter, userspace, kernel, wantErrors, quiet, peer,
                 commands, verdict>>

\* send_ws returns: sent, failed, or blocked for WS_SEND_TIMEOUT.  After the
\* bus error status comes the close message, whatever becomes of that one.  To
\* a half-open connection a message may still be written: it is buffered.
Sent ==
  /\ conn = "sending"
  /\ \/ afterSend = "loop" /\ conn' = "loop" /\ UNCHANGED <<afterSend, reader>>
     \/ afterSend = "close" /\ afterSend' = "done" /\ UNCHANGED <<conn, reader>>
     \/ afterSend = "done" /\ Disconnect
  /\ UNCHANGED <<buffer, filter, userspace, kernel, wantErrors, quiet, peer, commands, verdict>>

SendFails ==
  /\ conn = "sending" /\ Disconnect
  /\ UNCHANGED <<buffer, filter, userspace, kernel, wantErrors, quiet, peer, commands, verdict>>

\* A binary message of the client: a frame to write to the bus, or ignored.
ClientFrame(m) ==
  /\ conn = "loop" /\ peer /\ commands < MaxCommands
  /\ commands' = commands + 1 /\ quiet' = 0
  /\ buffer' = CancelNext(buffer)
  /\ conn' = IF Transmittable(m) THEN "writing" ELSE "loop"
  /\ UNCHANGED <<reader, afterSend, filter, userspace, kernel, wantErrors, peer, verdict>>

\* sock.write_frame returns in time (an error is only logged), or the loop
\* gives up after CLIENT_TIMEOUT.
WriteReturns ==
  /\ conn = "writing"
  /\ \/ conn' = "loop" /\ UNCHANGED <<afterSend, reader>>
     \/ Disconnect
  /\ UNCHANGED <<buffer, filter, userspace, kernel, wantErrors, quiet, peer, commands, verdict>>

\* Frames already buffered were let in by the filter in force before.
Aged(m) == [m EXCEPT !.x = [id |-> m.x.id, fresh |-> FALSE]]
Stale(b) == [b EXCEPT !.items = [i \in DOMAIN b.items |-> Aged(b.items[i])]]

\* A text message: SetFilter or ClearFilter.
ClientCommand(f) ==
  /\ conn = "loop" /\ peer /\ commands < MaxCommands
  /\ commands' = commands + 1 /\ quiet' = 0
  /\ filter' = f
  /\ kernel' \in SUBSET CanIds /\ userspace' \in BOOLEAN
  /\ ApplyFilter(f, kernel, kernel', userspace')
  /\ buffer' = Stale(CancelNext(buffer))
  /\ UNCHANGED <<reader, conn, afterSend, wantErrors, peer, verdict>>

\* Any other message: pings, pongs, commands that do not parse.
ClientOther ==
  /\ conn = "loop" /\ peer
  /\ quiet' = 0 /\ buffer' = CancelNext(buffer)
  /\ UNCHANGED <<reader, conn, afterSend, filter, userspace, kernel, wantErrors, peer, commands,
                 verdict>>

\* Message::Close, the end of the stream, or an error of it.
ClientCloses ==
  /\ conn = "loop" /\ peer
  /\ peer' = FALSE /\ Disconnect
  /\ UNCHANGED <<buffer, filter, userspace, kernel, wantErrors, quiet, commands, verdict>>

\* The client vanishes without a word: the connection is half-open.
ClientVanishes ==
  /\ conn # "done" /\ peer /\ peer' = FALSE
  /\ UNCHANGED <<buffer, reader, conn, afterSend, filter, userspace, kernel, wantErrors, quiet,
                 commands, verdict>>

\* Mutant: a keepalive tick only sends the ping.
PingTickOnly ==
  /\ conn = "loop"
  /\ buffer' = CancelNext(buffer)
  /\ conn' = "sending" /\ afterSend' = "loop" /\ quiet' = 0
  /\ UNCHANGED <<reader, filter, userspace, kernel, wantErrors, peer, commands, verdict>>

\* ping.tick(): a client silent for CLIENT_TIMEOUT is dropped, otherwise it is
\* pinged.  Writes that blocked may have let the time pass in fewer ticks.
PingTick ==
  /\ conn = "loop"
  /\ buffer' = CancelNext(buffer)
  /\ \/ Disconnect /\ quiet > 0 /\ UNCHANGED quiet
     \/ /\ quiet < MaxQuiet /\ quiet' = quiet + 1
        /\ conn' = "sending" /\ afterSend' = "loop" /\ UNCHANGED reader
  /\ UNCHANGED <<filter, userspace, kernel, wantErrors, peer, commands, verdict>>

CanwsdNext ==
  \/ \E id \in CanIds \cup {"error"} : Arrive(id)
  \/ BusFails \/ BufferEvent \/ BufferWait \/ Sent \/ SendFails
  \/ \E m \in ClientMessages : ClientFrame(m)
  \/ WriteReturns
  \/ \E f \in {NoFilter} \cup SUBSET CanIds : ClientCommand(f)
  \/ ClientOther \/ ClientCloses \/ ClientVanishes \/ PingTick

\* select! polls its branches in random order, so one that is ready again and
\* again is taken; the task is polled when woken; both writes have a timeout.
CanwsdFairness ==
  /\ SF_canwsdVars(BufferEvent) /\ WF_canwsdVars(BufferWait)
  /\ SF_canwsdVars(PingTick)
  /\ WF_canwsdVars(Sent \/ SendFails) /\ WF_canwsdVars(WriteReturns)

CanwsdSpec == CanwsdInit /\ [][CanwsdNext]_canwsdVars /\ CanwsdFairness

-----------------------------------------------------------------------------
\* The filter a client set is exact for every frame that arrived since: a frame
\* is forwarded just when the filter accepts it, whether the kernel took the
\* list, refused it or could not hold it (apply_filter and the `pass` test).
\* The call that opens the kernel filter is taken to succeed: when "accept_all"
\* is among FailingCalls the filter before it stays, and frames are missed.
FilterExact == verdict.wanted = verdict.forwarded

\* Frames wait for the client of a connection that goes on.
ClientBehind == conn # "done" /\ Unread(buffer)

\* A connection does not outlive its bus or its client: after a read error of
\* the CAN socket, and after the client vanished without closing, run_client
\* ends (the Closed event, the keepalive and the write timeouts).
ConnectionEnds == (reader = "ended" \/ ~peer) ~> conn = "done"
=============================================================================
