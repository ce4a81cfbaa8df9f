---------------------------- MODULE Connections ----------------------------
(***************************************************************************)
(* The connections of the three programs: what configure_iomanager()       *)
(* declares in each of them, and the names their operations look up.  The  *)
(* three programs declare the connections they share each for itself, with *)
(* literals, and look some of them up under names they compute.            *)
(***************************************************************************)
EXTENDS Naturals

Programs == {"filterorchestrator", "trdispatcher", "filterresultwriter"}

\* my_id of the three configurations.
MyId(p) == IF p = "filterresultwriter" THEN 1 ELSE 0

\* A name is a stem and its numbers: "conn_A1_G0_C0_", "TR_tracking2".
get_connection_name(app, group, conn) == <<"conn", app, group, conn>>
Numbered(stem, sub) == <<stem, sub>>

\* The transport keeps 16 bits of a port, which 83000 has not.
Port(number) == number % 65536

\* Connections named stem0, stem1, ..., on consecutive ports of one host.
Row(stem, count, host, port) ==
  {[name |-> Numbered(stem, sub), host |-> host, port |-> Port(port + sub)] :
     sub \in 0..count - 1}

\* The literals "conn_A0_G0_C0_" and "conn_A1_G0_C0_", and the defaults of port.
RecordConnection(app, host, port) ==
  {[name |-> get_connection_name(app, 0, 0), host |-> host,
    port |-> Port(port)]}

Tracking(o) == Row("TR_tracking", 3, o.server, 13000)

\* Mutant: the ports of "trdispatcher" follow those of "TR_tracking".
RequestsTooClose(o) == Row("trdispatcher", 3, o.server_trdispatcher, 13002)

Requests(o) == Row("trdispatcher", 3, o.server_trdispatcher, 23000)
Instructions(o) == Row("trwriter", 3, o.server, 33000)
Bookkeeping(count, o) == Row("bookkeeping", count, o.server, 83000)

\* Mutant: the writer declares the record connection of the dispatcher.
WriterRecordsOfDispatcher(o) == RecordConnection(0, o.server, 15501)

WriterRecords(o) == RecordConnection(1, o.server, 15501)

\* What only one or two of the programs declare.
Own(p, o) ==
  IF p = "trdispatcher"
    THEN RecordConnection(0, o.server, 15500) \cup Bookkeeping(1, o)
  ELSE IF p = "filterresultwriter"
    THEN WriterRecords(o) \cup Instructions(o) \cup Bookkeeping(2, o)
  ELSE {}

configure_iomanager(p, o) == Tracking(o) \cup Requests(o) \cup Own(p, o)

-----------------------------------------------------------------------------
(* The names looked up: receivers and senders of the operations that run,   *)
(* of init(), and of the two operations that nothing calls.                 *)

Records(p) == get_connection_name(MyId(p), 0, 0)

WriterReceivers ==
  {<<"trwriter", 0>>, <<"bookkeeping", 1>>, Records("filterresultwriter")}

\* Mutant: the dispatcher listens on the name in the comments of its init().
ReceiversSharedRequests(p) ==
  IF p = "filterresultwriter" THEN WriterReceivers ELSE {<<"trdispatcher", 1>>}

Receivers(p) ==
  IF p = "filterresultwriter" THEN WriterReceivers
  ELSE {<<"trdispatcher", IF p = "trdispatcher" THEN 0 ELSE 1>>}

Senders(p) ==
  IF p = "filterorchestrator" THEN {<<"trdispatcher", 0>>}
  ELSE IF p = "trdispatcher"
    THEN {<<"TR_tracking", 2>>, <<"bookkeeping", 0>>, Records(p)}
  ELSE {<<"bookkeeping", 0>>}

\* Where init() waits for "gotit".
AnswerReceiver(p) ==
  IF p = "trdispatcher" THEN <<"TR_tracking", 2>> ELSE <<"TR_tracking", 1>>

InitReceivers(p) ==
  {AnswerReceiver(p)} \cup
  (IF p = "filterorchestrator" THEN {<<"trdispatcher", 1>>}
   ELSE IF p = "filterresultwriter" THEN {<<"trwriter", 1>>} ELSE {})

\* Where init() sends its second message.
SecondSender(p) ==
  IF p = "filterorchestrator" THEN {<<"trdispatcher", 0>>}
  ELSE IF p = "filterresultwriter" THEN {<<"trwriter", 0>>} ELSE {}

InitSenders(p) == {<<"TR_tracking", 0>>} \cup SecondSender(p)

\* The relay of the filter orchestrator, which is not called, and
\* send_next_tr() of the writer, which is not called either.
RelayNames ==
  {<<"TR_tracking", 2>>, <<"trdispatcher", 2>>, Records("filterorchestrator")}
SendNextTrNames == {<<"trdispatcher", 1>>}

-----------------------------------------------------------------------------
(* get_connection_ip(); it is not called.  The writer assigns the loopback   *)
(* address to a second variable of the same name and returns the empty one. *)

Loopback == "127.0.0.1"

\* What its assertions and loops over the connections would allow.
AppIds == 0..251
GroupIds == 0..251
ConnIds == 0..250

get_connection_ip(p, server, app, group, conn) ==
  IF server # Loopback THEN <<server>>
  ELSE IF p = "filterresultwriter" THEN <<>>
  ELSE <<127, app + 1, group + 1, conn + 2>>
=============================================================================
