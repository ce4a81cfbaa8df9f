----------------------------- MODULE DFBackend -----------------------------
(***************************************************************************)
(* The three programs at work with the datafilter server, a program of     *)
(* another repository: the server instructs the filter orchestrator, which *)
(* requests a file from the dispatcher; the dispatcher announces the file  *)
(* on "bookkeeping0", sends its records to the server and reports "send";  *)
(* the server forwards the announcement and every record to the filter     *)
(* result writer, each record after a "write_tr" instruction and its       *)
(* answer "received".  (A record that it rejected would be, to the writer, *)
(* one that try_send() lost.)                                              *)
(*                                                                         *)
(* The dispatcher runs from storage and nothing dies.  The server knows    *)
(* only what the three programs send to it.                                *)
(***************************************************************************)
EXTENDS Naturals, Sequences, SequencesExt

CONSTANTS
  Files,       \* data files, each named by its file index
  Records,     \* number of trigger records of each file, and of Dummy
  MaxRetries, FirstLedger, FirstNames, BufferNames,  \* see HDF5FromStorage
  MaxAsks,     \* bound: files the server ever asks for
  MaxSelects,  \* bound: records the server ever selects
  TriggerRange \* see FilterResultWriter

\* The ledger can be read, and every file has records that can be read (Damaged
\* is empty): nothing ends a program.
ASSUME DFBAssumption ==
  /\ Files \subseteq Nat \ {0} /\ Files # {}
  /\ Records \in [Files \cup {0} -> Nat \ {0}] /\ Records[0] = 1
  /\ MaxRetries \in Nat \ {0} /\ BufferNames \in Nat
  /\ FirstLedger \subseteq {"nokey", "list"} /\ FirstNames \subseteq Files
  /\ MaxAsks \in Nat /\ MaxSelects \in Nat
  /\ TriggerRange \in Nat \ {0}

VARIABLES
  \* The filter orchestrator.
  trdispatcher1, fo_pc, fo_cnt, asked,
  \* The dispatcher; the requests sent to it are those the orchestrator sent.
  json, storage, obj, recorded, alive, td_pc, run, files, current,
  trdispatcher0, td_cnt, trdispatchers, sender, fate, booked, requested,
  rounds,
  \* The filter result writer.
  trwriter0, trs, bookkeeping1, rw_pc, rw_cnt, sub, writing, ofile_pathname,
  disk, attrs, attrs_cnt, m_file_index, instructed, sent, announced, acks,
  named, taken, written, failed,
  \* The connections to the server, and what it has read.
  bookkeeping0,  \* the dispatcher's messages: <<"open", file>>, <<"send", file>>
  conn_A0,       \* the records that arrived and wait for the server
  served         \* "send" messages read

foVars == <<trdispatcher1, fo_pc, fo_cnt, asked>>
tdVars == <<json, storage, obj, recorded, alive, td_pc, run, files, current,
            td_cnt, trdispatchers, sender, fate, booked, rounds>>
requestVars == <<trdispatcher0, requested>>
rwVars == <<trwriter0, trs, bookkeeping1, rw_pc, rw_cnt, sub, writing,
            ofile_pathname, disk, attrs, attrs_cnt, m_file_index, instructed,
            sent, announced, acks, named, taken, written, failed>>
serverVars == <<bookkeeping0, conn_A0, served>>
vars == <<foVars, tdVars, requestVars, rwVars, serverVars>>

\* The file of the mode that is not used here.
AnyFile == CHOOSE f \in Files : TRUE

O == INSTANCE FilterOrchestrator WITH
  MaxInstructions <- MaxAsks, Windows <- {1}, window <- 1,
  pc <- fo_pc, received_cnt <- fo_cnt, instructed <- asked

D == INSTANCE TRDispatcher WITH
  Mode <- "storage", Input <- AnyFile, NumRuns <- 1, Threads <- {0, 1},
  MaxRequests <- MaxAsks, Window <- 1, MayCrash <- FALSE, Damaged <- {},
  StorageMayVanish <- FALSE, pc <- td_pc, received_cnt <- td_cnt

W == INSTANCE FilterResultWriter WITH
  Stream <- <<>>, NumMessages <- 1, MaxInstructions <- MaxSelects,
  MaxAttrs <- MaxAsks, MayFail <- FALSE, Paced <- FALSE,
  pc <- rw_pc, received_cnt <- rw_cnt

Init ==
  /\ O!Init /\ D!Init /\ W!Init
  /\ bookkeeping0 = <<>> /\ conn_A0 = <<>>
  /\ served = 0

-----------------------------------------------------------------------------
(* The filter orchestrator. *)

OrchestratorMain ==
  /\ O!AddCallback \/ O!HandshakeDone \/ O!RemoveCallback
  /\ UNCHANGED <<tdVars, requestVars, rwVars, serverVars>>

OrchestratorEventLoop ==
  /\ O!Callback("next_tr")
  /\ UNCHANGED <<tdVars, requestVars, rwVars, serverVars>>

RequestNextTr ==
  /\ O!RequestNextTr
  /\ trdispatcher0' = [trdispatcher0 EXCEPT !["trdispatcher0"] = @ + 1]
  /\ UNCHANGED <<tdVars, rwVars, serverVars>>

-----------------------------------------------------------------------------
(* The dispatcher. *)

DispatcherMain ==
  /\ \/ D!ChooseSource
     \/ D!AddCallback \/ D!HandshakeDone \/ D!RemoveCallback
     \/ D!Announce \/ D!SpawnSenders \/ D!JoinSenders
  /\ UNCHANGED <<foVars, rwVars, serverVars>>

DispatcherEventLoop ==
  /\ D!Callback("trdispatcher0")
  /\ UNCHANGED <<foVars, rwVars, serverVars>>

DispatcherSender ==
  /\ D!SendRecord(1, "timeout") \/ D!SentAll(1) \/ D!NoteInLedger(1)
  /\ UNCHANGED <<foVars, rwVars, serverVars>>

OpenFile ==
  /\ D!OpenFile
  /\ bookkeeping0' = Append(bookkeeping0, <<"open", current>>)
  /\ UNCHANGED <<foVars, rwVars, conn_A0, served>>

Record(id) == [file |-> id[1], trigger |-> id[2], seq |-> 0]

SendRecord ==
  /\ D!SendRecord(1, "accepted")
  /\ conn_A0' = Append(conn_A0, Record(<<current, sender[1].next>>))
  /\ UNCHANGED <<foVars, rwVars, bookkeeping0, served>>

SendBookkeeping ==
  /\ D!SendBookkeeping(1)
  /\ bookkeeping0' = Append(bookkeeping0, <<"send", current>>)
  /\ UNCHANGED <<foVars, rwVars, conn_A0, served>>

\* A bound: files age while the scan is about to look at them.  Nothing else
\* depends on their age, so an earlier step would show nothing more.
Age ==
  /\ obj[0].pc = "find"
  /\ D!Age
  /\ UNCHANGED <<foVars, rwVars, serverVars>>

-----------------------------------------------------------------------------
(* The filter result writer. *)

WriterThreads ==
  /\ W!Main \/ W!Attrs
  /\ UNCHANGED <<foVars, tdVars, requestVars, serverVars>>

WriterEventLoops ==
  /\ W!Callback("write_tr") \/ W!RecvTR \/ W!WriteTR \/ W!AttrsCallback
  /\ UNCHANGED <<foVars, tdVars, requestVars, serverVars>>

-----------------------------------------------------------------------------
(* The server. *)

\* It asks for the first file, and for another when "send" came for the last.
Ask ==
  /\ asked = served
  /\ asked < MaxAsks
  /\ trdispatcher1' = [trdispatcher1 EXCEPT !["next_tr"] = @ + 1]
  /\ asked' = asked + 1
  /\ UNCHANGED <<fo_pc, fo_cnt, tdVars, requestVars, rwVars, serverVars>>

ReadBookkeeping ==
  /\ bookkeeping0 # <<>>
  /\ bookkeeping0' = Tail(bookkeeping0)
  /\ IF Head(bookkeeping0)[1] = "open"
       THEN W!Announce(Head(bookkeeping0)[2]) /\ UNCHANGED served
       ELSE served' = served + 1 /\ UNCHANGED rwVars
  /\ UNCHANGED <<foVars, tdVars, requestVars, conn_A0>>

BetweenRecords == instructed = Len(sent)

Select ==
  /\ BetweenRecords
  /\ conn_A0 # <<>>
  /\ W!Instruct
  /\ UNCHANGED <<foVars, tdVars, requestVars, serverVars>>

\* The writer answered "received".
Forward ==
  /\ acks > Len(sent)
  /\ ~BetweenRecords
  /\ W!Deliver(Head(conn_A0))
  /\ conn_A0' = Tail(conn_A0)
  /\ UNCHANGED <<foVars, tdVars, requestVars, bookkeeping0, served>>

-----------------------------------------------------------------------------
Orchestrator == OrchestratorMain \/ OrchestratorEventLoop \/ RequestNextTr

DispatcherThreads ==
  \/ DispatcherEventLoop \/ DispatcherSender \/ SendRecord \/ SendBookkeeping

Writer == WriterThreads \/ WriterEventLoops

Server == Ask \/ ReadBookkeeping \/ Select \/ Forward

Next ==
  \/ Orchestrator
  \/ DispatcherMain \/ OpenFile \/ DispatcherThreads \/ Age
  \/ Writer
  \/ Server

\* Every thread and event loop of the three programs and the server run on.
\* Only the dispatcher's scan has endless steps, so that the other threads of a
\* program can share one condition.
Fairness ==
  /\ WF_vars(Orchestrator)
  /\ WF_vars(DispatcherMain \/ OpenFile) /\ WF_vars(DispatcherThreads)
  /\ WF_vars(Writer) /\ WF_vars(Server)

Spec == Init /\ [][Next]_vars /\ Fairness

-----------------------------------------------------------------------------
(* Properties. *)

RecordsOf(writes) == [n \in 1..Len(writes) |-> writes[n][1]]

\* All records that left the dispatcher, from the server's selection to the
\* output files.
Pipeline ==
  RecordsOf(written)
    \o (IF writing = <<>> THEN <<>> ELSE <<writing[1]>>) \o trs \o conn_A0

\* Every record that the dispatcher's connection accepted is in one place of
\* the three programs and the connections between them, and in one only: none
\* is written twice, and none is let go by a round of the writer that is not
\* its own, however the rounds of the three programs overlap.
NoRecordLost ==
  /\ IsInjective(Pipeline)
  /\ ToSet(Pipeline)
       = {Record(id) : id \in {i \in D!RecordIds : fate[i] = "accepted"}}

\* The dispatcher's ledger and the writer's disk agree, although no message is
\* about that: of a file that is noted as transferred, and so is never sent
\* again, each record that its connection did not refuse is on its way to the
\* disk or there.
RecordedIsOnItsWay ==
  \A f \in recorded \ FirstNames : \A r \in 1..Records[f] :
    fate[<<f, r>>] = "timeout" \/ Record(<<f, r>>) \in ToSet(Pipeline)

\* A "write_tr" that arrives while the callback of the last round is still
\* registered is counted and forgotten: it has begun no round and never will.
Swallowed ==
  instructed - trwriter0["write_tr"]
    > acks + CASE rw_pc = "poll" -> rw_cnt
               [] rw_pc \in {"subscribe", "ack"} -> 1
               [] OTHER -> 0

\* Every accepted record is written in the end, unless the writer
\* swallows an instruction: no message tells the server that a round is over,
\* and that is the only way for the three programs to stop.
AcceptedIsSettled ==
  []<>(\/ \A id \in D!RecordIds :
            fate[id] = "accepted" => Record(id) \in ToSet(RecordsOf(written))
       \/ Swallowed)

\* Every file that is an hour old is recorded in the end: asking for a file
\* when "send" came for the last one never leaves a program waiting for a
\* message that nobody will send.
EveryOldFileRecorded ==
  []<>(\A f \in Files : storage[f] = "old" => f \in json.names)

\* What the models of the orchestrator and the dispatcher assume of their peer
\* holds of the programs that are their peers: the server and the dispatcher's
\* "send" never let an instruction overtake a request (window = 1), and never
\* two requests meet in one receive() (Window = 1).
PeersAsAssumed ==
  /\ asked <= requested + 1
  /\ trdispatcher0["trdispatcher0"] + D!InHand <= 1

=============================================================================
