-------------------------- MODULE DFBackendProofs --------------------------
(***************************************************************************)
(* Proofs about DFBackend, for every set of files, every number of records *)
(* and every number of files asked for.                                    *)
(***************************************************************************)
EXTENDS DFBackend, TLAPS, SequenceTheorems

\* What is proved about the three programs, as they are in DFBackend.
OP == INSTANCE FilterOrchestratorProofs WITH
  MaxInstructions <- MaxAsks, Windows <- {1}, window <- 1,
  pc <- fo_pc, received_cnt <- fo_cnt, instructed <- asked

DP == INSTANCE TRDispatcherProofs WITH
  Mode <- "storage", Input <- AnyFile, NumRuns <- 1, Threads <- {0, 1},
  MaxRequests <- MaxAsks, Window <- 1, MayCrash <- FALSE, Damaged <- {},
  StorageMayVanish <- FALSE, pc <- td_pc, received_cnt <- td_cnt

WP == INSTANCE FilterResultWriterProofs WITH
  Stream <- <<>>, NumMessages <- 1, MaxInstructions <- MaxSelects,
  MaxAttrs <- MaxAsks, MayFail <- FALSE, Paced <- FALSE,
  pc <- rw_pc, received_cnt <- rw_cnt

\* What the three modules assume of their constants.
LEMMA Assumptions ==
  /\ OP!FOAssumption
  /\ DP!StoreAssumption /\ DP!TRDispatcherAssumption
  /\ WP!FRWAssumption
<1>1. OP!FOAssumption
  BY DFBAssumption DEF OP!FOAssumption
<1>2. DP!StoreAssumption
  BY DFBAssumption DEF DP!StoreAssumption, DP!Kinds
<1>3. DP!TRDispatcherAssumption
  BY DFBAssumption
  DEF DP!TRDispatcherAssumption, DP!Dummy, DP!Sources, AnyFile
<1>4. WP!FRWAssumption
  BY DFBAssumption DEF WP!FRWAssumption
<1> QED
  BY <1>1, <1>2, <1>3, <1>4

-----------------------------------------------------------------------------
(* The proofs are about instances of their own: the definitions that they  *)
(* share with the instances of DFBackend are the same.                     *)

LEMMA SameOrchestrator ==
  /\ OP!Init <=> O!Init
  /\ OP!Next <=> O!Next
  /\ UNCHANGED OP!vars <=> UNCHANGED O!vars
<1> USE
      DEF OP!Next, O!Next, OP!Init, O!Init, OP!vars, O!vars, OP!Main,
          O!Main, OP!EventLoop, O!EventLoop, OP!Instruct, O!Instruct,
          OP!Chatter, O!Chatter, OP!MsgIds, O!MsgIds, OP!AddCallback,
          O!AddCallback, OP!HandshakeDone, O!HandshakeDone,
          OP!RemoveCallback, O!RemoveCallback, OP!RequestNextTr,
          O!RequestNextTr, OP!Callback, O!Callback,
          OP!CallbackRegistered, O!CallbackRegistered
<1>1. OP!Init <=> O!Init
  OBVIOUS
<1>2. UNCHANGED OP!vars <=> UNCHANGED O!vars
  OBVIOUS
<1>3. OP!Next <=> O!Next
  OBVIOUS
<1> QED
  BY <1>1, <1>2, <1>3

LEMMA SameStore ==
  ASSUME NEW t, NEW f
  PROVE  /\ DP!ConstructorStep(t) <=> D!ConstructorStep(t)
         /\ DP!WriteJSON(t, f) <=> D!WriteJSON(t, f)
         /\ DP!WriterStep(t) <=> D!WriterStep(t)
         /\ DP!Forget(t) <=> D!Forget(t)
         /\ DP!StorageStep <=> D!StorageStep
<1> USE
      DEF DP!ConstructorStep, D!ConstructorStep, DP!WriteJSON,
          D!WriteJSON, DP!Forget, D!Forget, DP!StorageStep,
          D!StorageStep, DP!Construct, D!Construct, DP!ReadJSONStep,
          D!ReadJSONStep, DP!HDF5Find, D!HDF5Find, DP!HDF5FindNoStorage,
          D!HDF5FindNoStorage, DP!Idle, D!Idle, DP!CheckMissing,
          D!CheckMissing, DP!CheckEmpty, D!CheckEmpty, DP!CheckReady,
          D!CheckReady, DP!ParseLedger, D!ParseLedger, DP!Throw,
          D!Throw, DP!Ledger, D!Ledger, DP!Fits, D!Fits, DP!Put, D!Put,
          DP!Overlay, D!Overlay, DP!Cardinality, D!Cardinality
<1>1. DP!ConstructorStep(t) <=> D!ConstructorStep(t)
  OBVIOUS
<1>2. DP!WriteJSON(t, f) <=> D!WriteJSON(t, f)
  OBVIOUS
<1>3. DP!ReadForWrite(t) <=> D!ReadForWrite(t)
  BY DEF DP!ReadForWrite, D!ReadForWrite
<1>4. DP!Truncate(t) <=> D!Truncate(t)
  BY DEF DP!Truncate, D!Truncate
<1>5. DP!FlushHead(t) <=> D!FlushHead(t)
  BY DEF DP!FlushHead, D!FlushHead
<1>6. DP!Flush(t) <=> D!Flush(t)
  BY DEF DP!Flush, D!Flush
<1>7. DP!WriterStep(t) <=> D!WriterStep(t)
  BY <1>3, <1>4, <1>5, <1>6 DEF DP!WriterStep, D!WriterStep
<1>8. DP!Forget(t) <=> D!Forget(t)
  OBVIOUS
<1>9. DP!StorageStep <=> D!StorageStep
  OBVIOUS
<1> QED
  BY <1>1, <1>2, <1>7, <1>8, <1>9

LEMMA SameDispatcher ==
  /\ DP!Init <=> D!Init
  /\ DP!Next <=> D!Next
  /\ UNCHANGED DP!vars <=> UNCHANGED D!vars
<1> USE SameStore
      DEF DP!vars, D!vars, DP!Senders, D!Senders, DP!MsgIds, D!MsgIds,
          DP!InitStore, D!InitStore, DP!StartPC, D!StartPC, DP!Dummy,
          D!Dummy, DP!NotStarted, D!NotStarted, DP!RecordIds,
          D!RecordIds, DP!storeVars, D!storeVars, DP!mainVars,
          D!mainVars, DP!requestVars, D!requestVars, DP!senderVars,
          D!senderVars, DP!Idle, D!Idle, DP!InHand, D!InHand, DP!Ledger,
          D!Ledger, DP!Sources, D!Sources, DP!Joined, D!Joined,
          DP!Sending, D!Sending, DP!Sound, D!Sound, DP!Readable, D!Readable
<1>1. DP!Init <=> D!Init
  BY DEF DP!Init, D!Init
<1>2. DP!Scan <=> D!Scan
  BY DEF DP!Scan, D!Scan
<1>3. DP!Scanned <=> D!Scanned
  BY DEF DP!Scanned, D!Scanned
<1>4. DP!NextFile <=> D!NextFile
  BY DEF DP!NextFile, D!NextFile
<1>5. DP!Rescan <=> D!Rescan
  BY DEF DP!Rescan, D!Rescan
<1>6. DP!NextRun <=> D!NextRun
  BY DEF DP!NextRun, D!NextRun
<1>7. DP!AddCallback <=> D!AddCallback
  BY DEF DP!AddCallback, D!AddCallback
<1>8. DP!HandshakeDone <=> D!HandshakeDone
  BY DEF DP!HandshakeDone, D!HandshakeDone
<1>9. DP!RemoveCallback <=> D!RemoveCallback
  BY DEF DP!RemoveCallback, D!RemoveCallback
<1>10. DP!OpenFile <=> D!OpenFile
  BY DEF DP!OpenFile, D!OpenFile
<1>11. DP!OpenFails <=> D!OpenFails
  BY DEF DP!OpenFails, D!OpenFails
<1>12. DP!Announce <=> D!Announce
  BY DEF DP!Announce, D!Announce
<1>13. DP!SpawnSenders <=> D!SpawnSenders
  BY DEF DP!SpawnSenders, D!SpawnSenders
<1>14. DP!JoinSenders <=> D!JoinSenders
  BY DEF DP!JoinSenders, D!JoinSenders
<1>15. ASSUME NEW t, NEW result
       PROVE  DP!SendRecord(t, result) <=> D!SendRecord(t, result)
  BY DEF DP!SendRecord, D!SendRecord
<1>16. ASSUME NEW t PROVE DP!SendNothing(t) <=> D!SendNothing(t)
  BY DEF DP!SendNothing, D!SendNothing
<1>17. ASSUME NEW t PROVE DP!SentAll(t) <=> D!SentAll(t)
  BY DEF DP!SentAll, D!SentAll
<1>18. ASSUME NEW t PROVE DP!NoteInLedger(t) <=> D!NoteInLedger(t)
  BY DEF DP!NoteInLedger, D!NoteInLedger
<1>19. ASSUME NEW t PROVE DP!SendBookkeeping(t) <=> D!SendBookkeeping(t)
  BY DEF DP!SendBookkeeping, D!SendBookkeeping
<1>20. ASSUME NEW m PROVE DP!Callback(m) <=> D!Callback(m)
  BY DEF DP!Callback, D!Callback
<1>21. DP!Terminate <=> D!Terminate
  BY DEF DP!Terminate, D!Terminate
<1>22. DP!Race <=> D!Race
  BY DEF DP!Race, D!Race
<1>23. DP!Crash <=> D!Crash
  BY DEF DP!Crash, D!Crash
<1>24. DP!Restart <=> D!Restart
  BY DEF DP!Restart, D!Restart
<1>25. DP!Request <=> D!Request
  BY DEF DP!Request, D!Request
<1>26. DP!Chatter <=> D!Chatter
  BY DEF DP!Chatter, D!Chatter
<1>27. DP!Age <=> D!Age
  BY DEF DP!Age, D!Age
<1>28. ASSUME NEW t PROVE DP!ReadFails(t) <=> D!ReadFails(t)
  BY DEF DP!ReadFails, D!ReadFails
<1>29. UNCHANGED DP!vars <=> UNCHANGED D!vars
  OBVIOUS
<1> QED
  BY <1>1, <1>2, <1>3, <1>4, <1>5, <1>6, <1>7, <1>8, <1>9, <1>10, <1>11,
     <1>12, <1>13, <1>14, <1>15, <1>16, <1>17, <1>18, <1>19, <1>20, <1>21,
     <1>22, <1>23, <1>24, <1>25, <1>26, <1>27, <1>28, <1>29
  DEF DP!Next, D!Next, DP!Main, D!Main, DP!Sender, D!Sender,
      DP!ChooseSource, D!ChooseSource

LEMMA SameWriter ==
  ASSUME NEW m, NEW i, NEW r
  PROVE  /\ WP!Init <=> W!Init
         /\ WP!Main <=> W!Main
         /\ WP!Attrs <=> W!Attrs
         /\ WP!Callback(m) <=> W!Callback(m)
         /\ WP!RecvTR <=> W!RecvTR
         /\ WP!WriteTR <=> W!WriteTR
         /\ WP!AttrsCallback <=> W!AttrsCallback
         /\ WP!Announce(i) <=> W!Announce(i)
         /\ WP!Instruct <=> W!Instruct
         /\ WP!Deliver(r) <=> W!Deliver(r)
<1> USE
      DEF WP!vars, W!vars, WP!MsgIds, W!MsgIds, WP!NewSubscriber,
          W!NewSubscriber, WP!NoPath, W!NoPath, WP!Paths, W!Paths,
          WP!NoRecord, W!NoRecord, WP!NoIndex, W!NoIndex,
          WP!AddCallback, W!AddCallback, WP!HandshakeDone,
          W!HandshakeDone, WP!Subscribe, W!Subscribe, WP!SendAck,
          W!SendAck, WP!AllDone, W!AllDone, WP!RemoveRecordCallback,
          W!RemoveRecordCallback, WP!RemoveCallback, W!RemoveCallback,
          WP!AddAttrsCallback, W!AddAttrsCallback, WP!AttrsDone,
          W!AttrsDone, WP!RemoveAttrsCallback, W!RemoveAttrsCallback,
          WP!Running, W!Running, WP!ackVars, W!ackVars, WP!attrsVars,
          W!attrsVars, WP!recordVars, W!recordVars, WP!TakeTR, W!TakeTR,
          WP!StartWriting, W!StartWriting, WP!Pathname, W!Pathname,
          WP!handshakeVars, W!handshakeVars, WP!fileVars, W!fileVars,
          WP!Indices, W!Indices, WP!TornPath, W!TornPath
<1>1. WP!Init <=> W!Init
  BY DEF WP!Init, W!Init
<1>2. WP!Main <=> W!Main
  BY DEF WP!Main, W!Main
<1>3. WP!Attrs <=> W!Attrs
  BY DEF WP!Attrs, W!Attrs
<1>4. WP!Callback(m) <=> W!Callback(m)
  BY DEF WP!Callback, W!Callback
<1>5. WP!RecvTR <=> W!RecvTR
  BY DEF WP!RecvTR, W!RecvTR
<1>6. WP!WriteTR <=> W!WriteTR
  BY DEF WP!WriteTR, W!WriteTR
<1>7. WP!AttrsCallback <=> W!AttrsCallback
  BY DEF WP!AttrsCallback, W!AttrsCallback
<1>8. WP!Announce(i) <=> W!Announce(i)
  BY DEF WP!Announce, W!Announce
<1>9. WP!Instruct <=> W!Instruct
  BY DEF WP!Instruct, W!Instruct
<1>10. WP!Deliver(r) <=> W!Deliver(r)
  BY DEF WP!Deliver, W!Deliver
<1> QED
  BY <1>1, <1>2, <1>3, <1>4, <1>5, <1>6, <1>7, <1>8, <1>9, <1>10

-----------------------------------------------------------------------------
(* One file at a time. *)

\* Requests that the dispatcher's callback has counted in receive().
Polled == IF td_pc = "poll" THEN td_cnt ELSE 0

\* The dispatcher has a request that it has not reported as sent.
OnTheWay ==
  IF \/ td_pc \in {"remove", "open", "announce", "spawn"}
     \/ td_pc = "join" /\ sender[1].pc # "done"
    THEN 1 ELSE 0

\* A report "send" that the server has not read, the last of its queue.
LastIsReport ==
  bookkeeping0 # <<>> /\ bookkeeping0[Len(bookkeeping0)][1] = "send"

Reported == IF LastIsReport THEN 1 ELSE 0

\* What the server has asked for is a request, a round of the dispatcher or a
\* report at any time, and is one file only.
OneFileAsked ==
  /\ asked <= served + 1
  /\ requested = rounds + trdispatcher0["trdispatcher0"] + Polled
  /\ rounds = served + Reported + OnTheWay
  /\ td_pc = "remove" => td_cnt = 1

Messages == {"open", "send"} \X D!Sources

ServerTypes ==
  /\ served \in Nat /\ asked \in 0..MaxAsks
  /\ bookkeeping0 \in Seq(Messages)
  /\ \A n \in 1..Len(bookkeeping0) :
       bookkeeping0[n][1] = "send" => n = Len(bookkeeping0)
  /\ td_pc \notin {"scan", "next"} => current \in Files

OrchestratorInv == OP!TypeOK /\ OP!NoUnaskedRequest

DispatcherInv == DP!TypeOK /\ DP!Counts /\ DP!SendersJoined

PeersInv ==
  OrchestratorInv /\ DispatcherInv /\ ServerTypes /\ OneFileAsked

LEMMA OrchestratorFacts ==
  ASSUME OrchestratorInv
  PROVE  /\ fo_cnt \in Nat /\ requested \in Nat /\ asked \in Nat
         /\ asked <= MaxAsks /\ MaxAsks \in Nat
         /\ requested <= asked
         /\ fo_pc = "request" => requested < asked
<1>1. /\ fo_cnt \in Nat /\ requested \in Nat /\ asked \in 0..MaxAsks
      /\ trdispatcher1["next_tr"] \in Nat /\ MaxAsks \in Nat
  BY DFBAssumption DEF OrchestratorInv, OP!TypeOK, OP!MsgIds
<1>2. /\ requested + OP!Counted + trdispatcher1["next_tr"] <= asked
      /\ fo_pc \in {"remove", "request"} => fo_cnt >= 1
  BY DEF OrchestratorInv, OP!NoUnaskedRequest
<1>3. OP!Counted \in Nat /\ (fo_pc = "request" => OP!Counted >= 1)
  BY <1>1, <1>2 DEF OP!Counted
<1> QED
  BY <1>1, <1>2, <1>3

LEMMA DispatcherFacts ==
  ASSUME DispatcherInv
  PROVE  /\ trdispatcher0 \in [{"trdispatcher0", "other"} -> Nat]
         /\ td_cnt \in Nat /\ rounds \in Nat /\ Polled \in Nat
         /\ trdispatcher0["trdispatcher0"] \in Nat
         /\ current \in D!Sources /\ Files \subseteq D!Sources
         /\ td_pc = "join" => trdispatchers = 1
         /\ td_pc # "join" => trdispatchers = 0
  BY DEF DispatcherInv, DP!TypeOK, DP!MsgIds, Polled, DP!Sources, D!Sources,
         DP!Dummy, D!Dummy, DP!Counts

\* What the peers may count on.
LEMMA OneFileFacts ==
  ASSUME PeersInv
  PROVE  /\ trdispatcher0["trdispatcher0"] + D!InHand <= 1
         /\ asked <= requested + 1
         /\ fo_pc = "request" => trdispatcher0["trdispatcher0"] + D!InHand = 0
         /\ OnTheWay = 1 => Reported = 0 /\ trdispatcher0["trdispatcher0"] = 0
         /\ asked = served => asked <= requested
<1> USE DEF PeersInv
<1> DEFINE q == trdispatcher0["trdispatcher0"]
<1>1. /\ requested \in Nat /\ asked \in Nat /\ served \in Nat /\ rounds \in Nat
      /\ q \in Nat /\ Polled \in Nat /\ Reported \in {0, 1}
      /\ OnTheWay \in {0, 1} /\ td_cnt \in Nat
  BY OrchestratorFacts, DispatcherFacts DEF ServerTypes, Reported, OnTheWay
<1>2. /\ requested <= asked /\ asked <= served + 1
      /\ requested = rounds + q + Polled
      /\ rounds = served + Reported + OnTheWay
      /\ fo_pc = "request" => requested < asked
  BY OrchestratorFacts DEF OneFileAsked
<1>3. D!InHand = IF td_pc = "remove" THEN 1 ELSE Polled
  BY DEF D!InHand, Polled, OneFileAsked
<1>4. td_pc = "remove" => OnTheWay = 1
  BY DEF OnTheWay
<1> HIDE DEF q
<1>5. /\ q + Polled <= 1 /\ (OnTheWay = 1 => q + Polled = 0 /\ Reported = 0)
      /\ (requested < asked => q + Polled = 0 /\ OnTheWay = 0)
      /\ asked <= requested + 1
      /\ asked = served => asked <= requested
  BY <1>1, <1>2
<1>6. /\ q + D!InHand <= 1
      /\ fo_pc = "request" => q + D!InHand = 0
      /\ OnTheWay = 1 => Reported = 0 /\ q = 0
  BY <1>1, <1>2, <1>3, <1>4, <1>5
<1> QED
  BY <1>5, <1>6 DEF q

\* The steps of DFBackend that are steps of the dispatcher.
DispatcherStep ==
  \/ DispatcherMain \/ OpenFile \/ DispatcherThreads \/ Age

LEMMA DispatcherSteps ==
  ASSUME DispatcherStep
  PROVE  /\ D!Next
         /\ UNCHANGED <<requested, foVars, rwVars, served>>
<1> USE DEF D!requestVars
<1>1. CASE DispatcherMain
  <2>1. D!Next
    BY <1>1 DEF DispatcherMain, D!Next, D!Main
  <2>2. UNCHANGED requested
    BY <1>1
    DEF DispatcherMain, D!ChooseSource, D!Scan, D!Scanned, D!NextFile, D!Rescan,
        D!NextRun, D!AddCallback, D!HandshakeDone, D!RemoveCallback,
        D!Announce, D!SpawnSenders, D!JoinSenders
  <2> QED
    BY <1>1, <2>1, <2>2 DEF DispatcherMain, serverVars
<1>2. CASE OpenFile
  BY <1>2 DEF OpenFile, D!OpenFile, D!Next, D!Main
<1>3. CASE DispatcherThreads
  <2>1. D!Next
    BY <1>3
    DEF DispatcherThreads, DispatcherEventLoop, DispatcherSender, SendRecord,
        SendBookkeeping, D!Next, D!Sender, D!Senders, D!MsgIds
  <2>2. UNCHANGED requested
    BY <1>3
    DEF DispatcherThreads, DispatcherEventLoop, DispatcherSender, SendRecord,
        SendBookkeeping, D!Callback, D!SendRecord, D!SentAll, D!NoteInLedger,
        D!SendBookkeeping
  <2>3. UNCHANGED <<foVars, rwVars, served>>
    BY <1>3
    DEF DispatcherThreads, DispatcherEventLoop, DispatcherSender, SendRecord,
        SendBookkeeping, serverVars
  <2> QED
    BY <2>1, <2>2, <2>3
<1>4. CASE Age
  BY <1>4 DEF Age, D!Next, D!Age, serverVars
<1> QED
  BY <1>1, <1>2, <1>3, <1>4 DEF DispatcherStep

\* Every step is one that the modules of the orchestrator and the dispatcher
\* allow, the server and the other program their peers.
LEMMA PeerSteps ==
  ASSUME PeersInv, [Next]_vars
  PROVE  [O!Next]_(O!vars) /\ [D!Next]_(D!vars)
<1> USE DEF PeersInv
<1>a. ASSUME UNCHANGED <<foVars, requested>> PROVE UNCHANGED O!vars
  BY <1>a DEF foVars, O!vars
<1>b. ASSUME UNCHANGED <<tdVars, requestVars>> PROVE UNCHANGED D!vars
  BY <1>b
  DEF tdVars, requestVars, D!vars, D!storeVars, D!mainVars, D!requestVars,
      D!senderVars
<1>1. CASE OrchestratorMain \/ OrchestratorEventLoop
  <2>1. O!Next
    BY <1>1
    DEF OrchestratorMain, OrchestratorEventLoop, O!Next, O!Main, O!EventLoop,
        O!MsgIds
  <2> QED
    BY <1>1, <1>b, <2>1 DEF OrchestratorMain, OrchestratorEventLoop
<1>2. CASE RequestNextTr
  <2>1. O!Next
    BY <1>2 DEF RequestNextTr, O!Next, O!Main
  <2>2. /\ fo_pc = "request" /\ requested' = requested + 1
        /\ trdispatcher0' = [trdispatcher0 EXCEPT !["trdispatcher0"] = @ + 1]
        /\ UNCHANGED tdVars
    BY <1>2 DEF RequestNextTr, O!RequestNextTr
  <2>3. /\ requested < MaxAsks
        /\ trdispatcher0["trdispatcher0"] + D!InHand < 1
    BY <2>2, OneFileFacts, OrchestratorFacts
  <2>4. D!Request
    BY <2>2, <2>3
    DEF D!Request, tdVars, D!storeVars, D!mainVars, D!senderVars
  <2> QED
    BY <2>1, <2>4 DEF D!Next
<1>3. CASE DispatcherStep
  BY <1>3, <1>a, DispatcherSteps
<1>4. CASE Writer
  BY <1>4, <1>a, <1>b
  DEF Writer, WriterThreads, WriterEventLoops, requestVars
<1>5. CASE Ask
  <2>1. /\ asked = served /\ asked < MaxAsks /\ asked' = asked + 1
        /\ trdispatcher1' = [trdispatcher1 EXCEPT !["next_tr"] = @ + 1]
        /\ UNCHANGED <<fo_pc, fo_cnt, tdVars, requestVars>>
    BY <1>5 DEF Ask
  <2>2. asked < requested + 1
    BY <2>1, OneFileFacts, OrchestratorFacts
  <2>3. O!Instruct
    BY <2>1, <2>2 DEF O!Instruct, requestVars
  <2> QED
    BY <1>b, <2>1, <2>3 DEF O!Next
<1>6. CASE ReadBookkeeping \/ Select \/ Forward \/ UNCHANGED vars
  BY <1>6, <1>a, <1>b DEF ReadBookkeeping, Select, Forward, vars, requestVars
<1> QED
  BY <1>1, <1>2, <1>3, <1>4, <1>5, <1>6
  DEF Next, Orchestrator, DispatcherStep, Server

LEMMA OrchestratorStep ==
  ASSUME OrchestratorInv, [O!Next]_(O!vars) PROVE OrchestratorInv'
<1>1. [OP!Next]_(OP!vars)
  BY SameOrchestrator
<1> QED
  BY <1>1, OP!TypeStep, OP!AskedStep, Assumptions DEF OrchestratorInv

LEMMA DispatcherInvStep ==
  ASSUME DispatcherInv, [D!Next]_(D!vars) PROVE DispatcherInv'
<1>1. [DP!Next]_(DP!vars)
  BY SameDispatcher
<1> QED
  BY <1>1, DP!DispatchStep, Assumptions DEF DispatcherInv

\* The numbers of OneFileAsked.
LEMMA PeerNumbers ==
  ASSUME PeersInv
  PROVE  /\ asked \in Nat /\ served \in Nat /\ requested \in Nat
         /\ rounds \in Nat /\ trdispatcher0["trdispatcher0"] \in Nat
         /\ Polled \in Nat /\ td_cnt \in Nat
         /\ Reported \in {0, 1} /\ OnTheWay \in {0, 1}
  BY OrchestratorFacts, DispatcherFacts
  DEF PeersInv, ServerTypes, Reported, OnTheWay

\* The main thread of the dispatcher: a round begins with one request, and
\* ends when the sender has reported.
LEMMA DispatcherMainPeers ==
  ASSUME PeersInv, DispatcherMain
  PROVE  ServerTypes' /\ OneFileAsked'
<1> USE PeerNumbers
    DEF PeersInv, ServerTypes, OneFileAsked, D!requestVars, D!senderVars,
        D!mainVars
<1>0. UNCHANGED <<asked, served, bookkeeping0, Reported>>
  BY DEF DispatcherMain, foVars, serverVars, Reported, LastIsReport
<1>1. CASE D!ChooseSource
  <2>1. /\ UNCHANGED <<requested, rounds, trdispatcher0>>
        /\ td_pc \in {"scan", "next"} /\ td_pc' \in {"scan", "next", "receive"}
    BY <1>1
    DEF D!ChooseSource, D!Scan, D!Scanned, D!NextFile, D!Rescan, D!NextRun
  <2>2. td_pc' = "receive" => current' \in Files
    BY <1>1
    DEF D!ChooseSource, D!Scan, D!Scanned, D!NextFile, D!Rescan, D!NextRun,
        DispatcherInv, DP!TypeOK
  <2>3. Polled' = Polled /\ OnTheWay' = OnTheWay
    BY <2>1 DEF Polled, OnTheWay
  <2> QED
    BY <1>0, <2>1, <2>2, <2>3
<1>2. CASE D!AddCallback
  <2>1. /\ UNCHANGED <<requested, rounds, trdispatcher0, current>>
        /\ td_pc = "receive" /\ td_pc' = "poll" /\ td_cnt' = 0
    BY <1>2 DEF D!AddCallback
  <2>2. Polled' = Polled /\ OnTheWay' = OnTheWay
    BY <2>1 DEF Polled, OnTheWay
  <2> QED
    BY <1>0, <2>1, <2>2
<1>3. CASE D!HandshakeDone
  <2>1. /\ UNCHANGED <<requested, trdispatcher0, current, td_cnt>>
        /\ td_pc = "poll" /\ td_pc' = "remove" /\ td_cnt = 1
        /\ rounds' = rounds + 1
    BY <1>3 DEF D!HandshakeDone
  <2>2. Polled' = 0 /\ Polled = 1 /\ OnTheWay' = 1 /\ OnTheWay = 0
    BY <2>1 DEF Polled, OnTheWay
  <2> QED
    BY <1>0, <2>1, <2>2
<1>4. CASE D!RemoveCallback \/ D!Announce
  <2>1. /\ UNCHANGED <<requested, rounds, trdispatcher0, current>>
        /\ td_pc \in {"remove", "announce"} /\ td_pc' \in {"open", "spawn"}
    BY <1>4 DEF D!RemoveCallback, D!Announce
  <2>2. Polled' = Polled /\ OnTheWay' = OnTheWay
    BY <2>1 DEF Polled, OnTheWay
  <2> QED
    BY <1>0, <2>1, <2>2
<1>5. CASE D!SpawnSenders
  <2>1. /\ UNCHANGED <<requested, rounds, trdispatcher0, current>>
        /\ td_pc = "spawn" /\ td_pc' = "join"
        /\ trdispatchers' = trdispatchers + 1
        /\ sender' = [t \in D!Senders |-> IF t <= trdispatchers'
                                             THEN [pc |-> "send", next |-> 1]
                                             ELSE sender[t]]
    BY <1>5 DEF D!SpawnSenders
  <2>2. trdispatchers' = 1 /\ 1 \in D!Senders
    BY <2>1, DispatcherFacts DEF D!Senders
  <2>3. sender'[1].pc = "send"
    BY <2>1, <2>2
  <2>4. Polled' = Polled /\ OnTheWay' = OnTheWay
    BY <2>1, <2>3 DEF Polled, OnTheWay
  <2> QED
    BY <1>0, <2>1, <2>4
<1>6. CASE D!JoinSenders
  <2>1. /\ UNCHANGED <<requested, rounds, trdispatcher0, current>>
        /\ td_pc = "join" /\ td_pc' = "next" /\ D!Joined
    BY <1>6 DEF D!JoinSenders
  <2>2. sender[1].pc = "done"
    BY <2>1, DispatcherFacts DEF D!Joined
  <2>3. Polled' = Polled /\ OnTheWay' = OnTheWay
    BY <2>1, <2>2 DEF Polled, OnTheWay
  <2> QED
    BY <1>0, <2>1, <2>3
<1> QED
  BY <1>1, <1>2, <1>3, <1>4, <1>5, <1>6 DEF DispatcherMain

\* The messages that leave for the server.
LEMMA OpenFilePeers ==
  ASSUME PeersInv, OpenFile PROVE ServerTypes' /\ OneFileAsked'
<1> USE PeerNumbers DEF PeersInv, ServerTypes, OneFileAsked, D!requestVars
<1>1. /\ UNCHANGED <<asked, served, requested, rounds, trdispatcher0, current>>
      /\ td_pc = "open" /\ td_pc' = "announce"
      /\ bookkeeping0' = Append(bookkeeping0, <<"open", current>>)
  BY DEF OpenFile, D!OpenFile, foVars
<1>2. Polled' = Polled /\ OnTheWay' = OnTheWay /\ OnTheWay = 1
  BY <1>1 DEF Polled, OnTheWay
<1>3. Reported = 0
  BY <1>2, OneFileFacts
<1>4. <<"open", current>> \in Messages
  BY DispatcherFacts DEF Messages
<1>5. /\ bookkeeping0' \in Seq(Messages)
      /\ Len(bookkeeping0') = Len(bookkeeping0) + 1
      /\ bookkeeping0'[Len(bookkeeping0')][1] = "open"
      /\ \A n \in 1..Len(bookkeeping0) : bookkeeping0'[n] = bookkeeping0[n]
      /\ Len(bookkeeping0) \in Nat
  BY <1>1, <1>4
<1>6. \A n \in 1..Len(bookkeeping0) : bookkeeping0[n][1] # "send"
  BY <1>3, <1>5 DEF Reported, LastIsReport
<1>7. Reported' = 0
  BY <1>5 DEF Reported, LastIsReport
<1>8. \A n \in 1..Len(bookkeeping0') :
        n \in 1..Len(bookkeeping0) \/ n = Len(bookkeeping0')
  BY <1>5
<1>9. \A n \in 1..Len(bookkeeping0') :
        bookkeeping0'[n][1] = "send" => n = Len(bookkeeping0')
  <2> HIDE DEF PeersInv, ServerTypes, OneFileAsked
  <2> QED
    BY <1>5, <1>6, <1>8
<1> QED
  BY <1>1, <1>2, <1>3, <1>5, <1>7, <1>9

LEMMA SendBookkeepingPeers ==
  ASSUME PeersInv, SendBookkeeping PROVE ServerTypes' /\ OneFileAsked'
<1> USE PeerNumbers DEF PeersInv, ServerTypes, OneFileAsked, D!requestVars
<1>1. /\ UNCHANGED <<asked, served, requested, rounds, trdispatcher0, current,
                    td_pc, td_cnt>>
      /\ sender[1].pc = "ledger"
      /\ sender' = [sender EXCEPT ![1].pc = "done"]
      /\ bookkeeping0' = Append(bookkeeping0, <<"send", current>>)
  BY DEF SendBookkeeping, D!SendBookkeeping, D!mainVars, foVars
<1>2. td_pc = "join" /\ sender'[1].pc = "done"
  <2>1. 1 \in DP!Senders /\ sender \in [DP!Senders -> DP!SenderStates]
    BY DEF DP!Senders, DispatcherInv, DP!TypeOK
  <2>2. td_pc = "join"
    BY <1>1, <2>1 DEF DispatcherInv, DP!SendersJoined, DP!NotStarted
  <2> QED
    BY <1>1, <2>1, <2>2 DEF DP!SenderStates
<1>3. Polled' = Polled /\ OnTheWay' = 0 /\ OnTheWay = 1
  BY <1>1, <1>2 DEF Polled, OnTheWay
<1>4. Reported = 0
  BY <1>3, OneFileFacts
<1>5. <<"send", current>> \in Messages
  BY DispatcherFacts DEF Messages
<1>6. /\ bookkeeping0' \in Seq(Messages)
      /\ Len(bookkeeping0') = Len(bookkeeping0) + 1
      /\ bookkeeping0'[Len(bookkeeping0')][1] = "send"
      /\ \A n \in 1..Len(bookkeeping0) : bookkeeping0'[n] = bookkeeping0[n]
      /\ Len(bookkeeping0) \in Nat /\ bookkeeping0' # <<>>
  BY <1>1, <1>5
<1>7. \A n \in 1..Len(bookkeeping0) : bookkeeping0[n][1] # "send"
  BY <1>4, <1>6 DEF Reported, LastIsReport
<1>8. Reported' = 1
  BY <1>6 DEF Reported, LastIsReport
<1>9. \A n \in 1..Len(bookkeeping0') :
        n \in 1..Len(bookkeeping0) \/ n = Len(bookkeeping0')
  BY <1>6
<1>10. \A n \in 1..Len(bookkeeping0') :
        bookkeeping0'[n][1] = "send" => n = Len(bookkeeping0')
  <2> HIDE DEF ServerTypes, PeersInv, OneFileAsked
  <2> QED
    BY <1>6, <1>7, <1>9
<1> QED
  BY <1>1, <1>3, <1>4, <1>6, <1>8, <1>10

\* The server reads a message.
LEMMA ReadBookkeepingPeers ==
  ASSUME PeersInv, ReadBookkeeping PROVE ServerTypes' /\ OneFileAsked'
<1>1. /\ UNCHANGED <<asked, requested, rounds, trdispatcher0, current, td_pc,
                    td_cnt, sender>>
      /\ bookkeeping0 # <<>> /\ bookkeeping0' = Tail(bookkeeping0)
      /\ served' = IF Head(bookkeeping0)[1] = "open" THEN served
                                                    ELSE served + 1
  BY DEF ReadBookkeeping, foVars, tdVars, requestVars
<1>2. Polled' = Polled /\ OnTheWay' = OnTheWay
  BY <1>1 DEF Polled, OnTheWay
<1>3. /\ bookkeeping0 \in Seq(Messages)
      /\ \A n \in 1..Len(bookkeeping0) :
           bookkeeping0[n][1] = "send" => n = Len(bookkeeping0)
  BY DEF PeersInv, ServerTypes
<1>4. /\ Len(bookkeeping0) \in Nat \ {0} /\ bookkeeping0[1] \in Messages
      /\ Head(bookkeeping0) = bookkeeping0[1]
  BY <1>1, <1>3
<1>5. /\ bookkeeping0' \in Seq(Messages)
      /\ Len(bookkeeping0') = Len(bookkeeping0) - 1
      /\ \A n \in 1..Len(bookkeeping0') : bookkeeping0'[n] = bookkeeping0[n + 1]
  BY <1>1, <1>3, HeadTailProperties
<1>6. bookkeeping0' = <<>> <=> Len(bookkeeping0') = 0
  BY <1>5
<1>7. Head(bookkeeping0)[1] \in {"open", "send"}
  BY <1>4 DEF Messages
<1>8. ASSUME NEW n \in 1..Len(bookkeeping0'), bookkeeping0'[n][1] = "send"
      PROVE  n = Len(bookkeeping0')
  <2>1. n + 1 \in 1..Len(bookkeeping0) /\ bookkeeping0[n + 1][1] = "send"
    BY <1>4, <1>5, <1>8
  <2>2. n + 1 = Len(bookkeeping0)
    BY <1>3, <2>1
  <2> QED
    BY <1>4, <1>5, <2>2
<1>9. served' \in Nat /\ served \in Nat
  BY <1>1, PeerNumbers
<1>10. ServerTypes'
  BY <1>1, <1>5, <1>8, <1>9 DEF PeersInv, ServerTypes
<1>11. served' + Reported' = served + Reported
  <2>1. CASE Head(bookkeeping0)[1] = "open"
    <3>1. CASE Len(bookkeeping0) = 1
      BY <1>1, <1>4, <1>5, <1>6, <2>1, <3>1 DEF Reported, LastIsReport
    <3>2. CASE Len(bookkeeping0) # 1
      <4>1. Len(bookkeeping0') \in 1..Len(bookkeeping0') /\ bookkeeping0' # <<>>
        BY <1>4, <1>5, <1>6, <3>2
      <4>2. bookkeeping0'[Len(bookkeeping0')] = bookkeeping0[Len(bookkeeping0)]
        BY <1>4, <1>5, <4>1
      <4>3. LastIsReport' <=> LastIsReport
        BY <1>1, <4>1, <4>2 DEF LastIsReport
      <4> QED
        BY <1>1, <2>1, <4>3 DEF Reported, LastIsReport
    <3> QED
      BY <3>1, <3>2
  <2>2. CASE Head(bookkeeping0)[1] = "send"
    <3>1. Len(bookkeeping0) = 1
      <4>1. 1 \in 1..Len(bookkeeping0) /\ bookkeeping0[1][1] = "send"
        BY <1>4, <2>2
      <4> QED
        BY <1>3, <4>1
    <3>2. LastIsReport /\ ~LastIsReport'
      BY <1>1, <1>4, <1>5, <1>6, <2>2, <3>1 DEF LastIsReport
    <3> QED
      BY <1>1, <1>9, <2>2, <3>2 DEF Reported, LastIsReport
  <2> QED
    BY <1>7, <2>1, <2>2
<1>12. Reported \in {0, 1} /\ Reported' \in {0, 1} /\ served' >= served
  BY <1>1, PeerNumbers DEF Reported
<1>13. /\ asked' <= served' + 1
       /\ rounds' = served' + Reported' + OnTheWay'
  <2>1. /\ asked <= served + 1 /\ rounds = served + Reported + OnTheWay
        /\ asked \in Nat /\ OnTheWay \in {0, 1}
    BY PeerNumbers DEF PeersInv, OneFileAsked
  <2>2. asked' = asked /\ rounds' = rounds /\ OnTheWay' = OnTheWay
    BY <1>1, <1>2
  <2>3. asked' <= served' + 1
    <3>1. \A k, m, n \in Nat : k <= m + 1 /\ n >= m => k <= n + 1
      OBVIOUS
    <3> QED
      BY <1>9, <1>12, <2>1, <2>2, <3>1
  <2>4. /\ rounds' = served + Reported + OnTheWay
        /\ served + Reported = served' + Reported'
    BY <1>11, <2>1, <2>2
  <2> QED
    BY <2>3, <2>4, <2>2
<1> QED
  BY <1>1, <1>2, <1>10, <1>13 DEF PeersInv, OneFileAsked

\* The steps of the dispatcher's other threads.
LEMMA DispatcherThreadsPeers ==
  ASSUME PeersInv, DispatcherEventLoop \/ DispatcherSender \/ SendRecord \/ Age
  PROVE  ServerTypes' /\ OneFileAsked'
<1> USE DEF D!requestVars, D!mainVars, D!senderVars
<1>0. UNCHANGED <<asked, served, bookkeeping0, Reported>>
  BY DEF DispatcherEventLoop, DispatcherSender, SendRecord, Age, foVars,
         serverVars, Reported, LastIsReport
<1>1. CASE DispatcherEventLoop
  <2>1. /\ UNCHANGED <<requested, rounds, td_pc, current, sender>>
        /\ td_pc \in {"poll", "remove"}
        /\ trdispatcher0["trdispatcher0"] > 0
        /\ trdispatcher0' = [trdispatcher0 EXCEPT !["trdispatcher0"] = @ - 1]
        /\ td_cnt' = td_cnt + 1
    BY <1>1 DEF DispatcherEventLoop, D!Callback
  <2>2. td_pc = "poll"
    <3>1. td_pc = "remove" => OnTheWay = 1
      BY DEF OnTheWay
    <3> QED
      BY <2>1, <3>1, OneFileFacts
  <2>3. trdispatcher0'["trdispatcher0"] = trdispatcher0["trdispatcher0"] - 1
    BY <2>1, DispatcherFacts DEF PeersInv
  <2>4. Polled' = Polled + 1 /\ OnTheWay' = OnTheWay
    BY <2>1, <2>2 DEF Polled, OnTheWay
  <2>5. trdispatcher0'["trdispatcher0"] + Polled'
          = trdispatcher0["trdispatcher0"] + Polled
    BY <2>3, <2>4, PeerNumbers
  <2>6. requested' = rounds' + trdispatcher0'["trdispatcher0"] + Polled'
    BY <2>1, <2>3, <2>4, PeerNumbers DEF PeersInv, OneFileAsked
  <2>7. ServerTypes'
    BY <1>0, <2>1, <2>2 DEF PeersInv, ServerTypes
  <2> QED
    BY <1>0, <2>1, <2>2, <2>4, <2>6, <2>7 DEF PeersInv, OneFileAsked
<1>2. CASE DispatcherSender \/ SendRecord \/ Age
  <2>1. UNCHANGED <<requested, rounds, td_pc, current, trdispatcher0, td_cnt>>
    BY <1>2
    DEF DispatcherSender, SendRecord, Age, D!SendRecord, D!SentAll,
        D!NoteInLedger, D!Age
  <2>2. OnTheWay' = OnTheWay
    <3>1. CASE sender' = sender
      BY <2>1, <3>1 DEF OnTheWay
    <3>2. CASE sender' # sender
      <4>1. /\ sender \in [{1} -> DP!SenderStates] /\ td_pc = "join"
            /\ sender[1].pc = "send" /\ current # D!Dummy
            /\ \/ \E n : sender' = [sender EXCEPT ![1].next = n]
               \/ sender' = [sender EXCEPT ![1].pc = "ledger"]
        <5>1. DP!Senders = {1} /\ 1 \in DP!Senders
          BY DEF DP!Senders
        <5>2. sender \in [{1} -> DP!SenderStates]
          BY <5>1 DEF PeersInv, DispatcherInv, DP!TypeOK
        <5>3. td_pc = "join" /\ sender[1].pc = "send"
          BY <1>2, <3>2
          DEF DispatcherSender, SendRecord, Age, D!SendRecord, D!SentAll,
              D!NoteInLedger, D!Age, D!Sending
        <5>4. current # D!Dummy
          BY <5>3, DFBAssumption DEF PeersInv, ServerTypes, D!Dummy
        <5> QED
          BY <1>2, <3>2, <5>2, <5>3, <5>4
          DEF DispatcherSender, SendRecord, Age, D!SendRecord, D!SentAll,
              D!NoteInLedger, D!Age
      <4>2. sender'[1].pc \in {"send", "ledger"}
        BY <4>1 DEF DP!SenderStates
      <4> QED
        BY <2>1, <4>1, <4>2 DEF OnTheWay
    <3> QED
      BY <3>1, <3>2
  <2>3. Polled' = Polled
    BY <2>1 DEF Polled
  <2> QED
    BY <1>0, <2>1, <2>2, <2>3 DEF PeersInv, ServerTypes, OneFileAsked
<1> QED
  BY <1>1, <1>2

\* Every step keeps it.
LEMMA PeersInvStep ==
  ASSUME PeersInv, [Next]_vars PROVE PeersInv'
<1>1. OrchestratorInv' /\ DispatcherInv'
  BY PeerSteps, OrchestratorStep, DispatcherInvStep DEF PeersInv
<1>2. ServerTypes' /\ OneFileAsked'
  <2>a. ASSUME UNCHANGED <<tdVars, bookkeeping0, served>>
        PROVE  UNCHANGED <<rounds, td_pc, td_cnt, current, sender, Polled,
                           OnTheWay, Reported, bookkeeping0, served>>
    BY <2>a DEF tdVars, Polled, OnTheWay, Reported, LastIsReport
  <2>1. CASE OrchestratorMain \/ OrchestratorEventLoop
    <3>1. UNCHANGED <<requested, asked, requestVars, tdVars, serverVars>>
      BY <2>1
      DEF OrchestratorMain, OrchestratorEventLoop, O!AddCallback,
          O!HandshakeDone, O!RemoveCallback, O!Callback
    <3> QED
      BY <2>a, <3>1
      DEF PeersInv, ServerTypes, OneFileAsked, requestVars, serverVars
  <2>2. CASE RequestNextTr
    <3>1. /\ UNCHANGED <<asked, tdVars, serverVars>>
          /\ requested' = requested + 1
          /\ trdispatcher0' = [trdispatcher0 EXCEPT !["trdispatcher0"] = @ + 1]
      BY <2>2 DEF RequestNextTr, O!RequestNextTr
    <3>2. trdispatcher0'["trdispatcher0"] = trdispatcher0["trdispatcher0"] + 1
      BY <3>1, DispatcherFacts DEF PeersInv
    <3> QED
      BY <2>a, <3>1, <3>2, PeerNumbers
      DEF PeersInv, ServerTypes, OneFileAsked, serverVars
  <2>3. CASE Ask
    <3>1. /\ UNCHANGED <<requested, trdispatcher0, tdVars, served,
                         bookkeeping0>>
          /\ asked = served /\ asked < MaxAsks /\ asked' = asked + 1
      BY <2>3 DEF Ask, requestVars, serverVars
    <3>2. asked' \in 0..MaxAsks /\ asked' <= served' + 1
      BY <3>1, PeerNumbers, DFBAssumption
    <3> QED
      BY <2>a, <3>1, <3>2 DEF PeersInv, ServerTypes, OneFileAsked
  <2>4. CASE Writer \/ Select \/ Forward \/ UNCHANGED vars
    <3>1. UNCHANGED <<requested, trdispatcher0, asked, tdVars, served,
                      bookkeeping0>>
      BY <2>4
      DEF Writer, WriterThreads, WriterEventLoops, Select, Forward, vars,
          foVars, requestVars, serverVars
    <3> QED
      BY <2>a, <3>1 DEF PeersInv, ServerTypes, OneFileAsked
  <2> QED
    BY <2>1, <2>2, <2>3, <2>4, DispatcherMainPeers, OpenFilePeers,
       SendBookkeepingPeers, ReadBookkeepingPeers, DispatcherThreadsPeers
    DEF Next, Orchestrator, DispatcherThreads, Server
<1> QED
  BY <1>1, <1>2 DEF PeersInv

LEMMA PeersInvInit == Init => PeersInv
<1> SUFFICES ASSUME Init PROVE PeersInv
  OBVIOUS
<1>1. OrchestratorInv
  BY Assumptions, SameOrchestrator
  DEF Init, OrchestratorInv, OP!Init, OP!TypeOK, OP!NoUnaskedRequest,
      OP!Counted, OP!MsgIds, OP!PCs, OP!FOAssumption
<1>2. DispatcherInv
  BY Assumptions, SameDispatcher, DP!DispatchInit DEF Init, DispatcherInv
<1>3. ServerTypes
  BY DFBAssumption
  DEF Init, ServerTypes, O!Init, D!Init, D!StartPC
<1>4. OneFileAsked
  BY DEF Init, OneFileAsked, Polled, OnTheWay, Reported, LastIsReport, O!Init,
         D!Init, D!StartPC, D!MsgIds
<1> QED
  BY <1>1, <1>2, <1>3, <1>4 DEF PeersInv

LEMMA AlwaysPeers == Spec => []PeersInv
  BY PeersInvInit, PeersInvStep, PTL DEF Spec

\* The server and the reports of the dispatcher keep the programs in step, for
\* any number of files: no instruction overtakes a request, and no two
\* requests meet in one receive() of the dispatcher.
THEOREM PeersKeepInStep == Spec => []PeersAsAssumed
<1>1. PeersInv => PeersAsAssumed
  BY OneFileFacts DEF PeersAsAssumed
<1> QED
  BY <1>1, AlwaysPeers, PTL

\* So the three programs together run the orchestrator as FilterOrchestrator
\* with a peer that awaits each request.
THEOREM RunsTheOrchestrator == Spec => O!Spec
<1>1. PeersInv /\ [Next]_vars => [O!Next]_(O!vars)
  BY PeerSteps
<1> QED
  BY <1>1, AlwaysPeers, PTL DEF Spec, Init, O!Spec

\* With the two others and the server around it, the dispatcher does nothing
\* that TRDispatcher does not, so that its theorems hold of it here.
THEOREM RunsTheDispatcher == Spec => D!Spec
<1>1. PeersInv /\ [Next]_vars => [D!Next]_(D!vars)
  BY PeerSteps
<1> QED
  BY <1>1, AlwaysPeers, PTL DEF Spec, Init, D!Spec

-----------------------------------------------------------------------------
(* No record is lost. *)

WriterInv == WP!Types /\ WP!RecordInv

\* The server has a record for each instruction that it has sent.
Selected ==
  /\ conn_A0 \in Seq(WP!TriggerRecords)
  /\ instructed \in {Len(sent), Len(sent) + 1}
  /\ instructed = Len(sent) + 1 => conn_A0 # <<>>

\* The records that the connection of the dispatcher accepted.
Accepted == {Record(id) : id \in {i \in D!RecordIds : fate[i] = "accepted"}}

\* They are what the server forwarded and what it has not read, once each.
AcceptedOnce ==
  /\ IsInjective(sent \o conn_A0)
  /\ ToSet(sent \o conn_A0) = Accepted

LEMMA WriterFacts ==
  ASSUME WriterInv
  PROVE  /\ WP!Numbers /\ WP!Shapes
         /\ sent \in Seq(WP!TriggerRecords) /\ Len(sent) \in Nat
         /\ instructed \in Nat
<1>1. WP!Numbers /\ WP!Shapes
  BY WP!RecordFacts, Assumptions DEF WriterInv
<1> QED
  BY <1>1, DFBAssumption
  DEF WP!Numbers, WP!Shapes, WriterInv, WP!Types, WP!TypeOK

\* Every step keeps what is proved of the writer: the server sends a record
\* only after "received".
LEMMA WriterInvStep ==
  ASSUME PeersInv, WriterInv, Selected, [Next]_vars PROVE WriterInv'
<1> USE Assumptions DEF WriterInv
<1>1. CASE WriterThreads
  <2>1. WP!Main \/ WP!Attrs
    BY <1>1, SameWriter DEF WriterThreads
  <2> QED
    BY <2>1, WP!MainTypes, WP!MainRecords, WP!OtherTypes, WP!OtherRecords
<1>2. CASE WriterEventLoops
  <2>1. \/ WP!RecvTR \/ WP!WriteTR \/ WP!AttrsCallback
        \/ \E m \in WP!MsgIds : WP!Callback(m)
    BY <1>2, SameWriter DEF WriterEventLoops, WP!MsgIds
  <2> QED
    BY <2>1, WP!RecordTypes, WP!RecvRecords, WP!WriteRecords, WP!OtherTypes,
       WP!OtherRecords
<1>u. ASSUME UNCHANGED rwVars PROVE WriterInv'
  <2>1. UNCHANGED WP!vars
    BY <1>u
    DEF rwVars, WP!vars, WP!ackVars, WP!handshakeVars, WP!attrsVars,
        WP!recordVars, WP!fileVars
  <2> QED
    BY <2>1, WP!StepTypes, WP!OtherRecords
<1>3. CASE ReadBookkeeping
  <2>1. CASE \E i \in WP!Indices : WP!Announce(i)
    BY <2>1, WP!AnnounceTypes, WP!OtherRecords
  <2>2. CASE UNCHANGED rwVars
    BY <2>2, <1>u
  <2>3. \/ UNCHANGED rwVars
        \/ W!Announce(Head(bookkeeping0)[2]) /\ bookkeeping0 # <<>>
    BY <1>3 DEF ReadBookkeeping
  <2>4. bookkeeping0 # <<>> => Head(bookkeeping0)[2] \in WP!Indices
    <3>1. bookkeeping0 \in Seq(Messages)
      BY DEF PeersInv, ServerTypes
    <3>2. bookkeeping0 # <<>> => Head(bookkeeping0) \in Messages
      BY <3>1
    <3> QED
      BY <3>2 DEF Messages, D!Sources, D!Dummy, WP!Indices, WP!NoIndex
  <2> QED
    BY <2>1, <2>2, <2>3, <2>4, SameWriter
<1>4. CASE Select
  <2>1. WP!Instruct
    BY <1>4, SameWriter DEF Select
  <2> QED
    BY <2>1, WP!OtherTypes, WP!OtherRecords
<1>5. CASE Forward
  <2>1. Len(sent) < acks /\ W!Deliver(Head(conn_A0)) /\ instructed # Len(sent)
    BY <1>5, WriterFacts DEF Forward, BetweenRecords, WP!Numbers
  <2>2. WP!Deliver(Head(conn_A0))
    BY <2>1, SameWriter
  <2>3. Head(conn_A0) \in WP!TriggerRecords
    BY <2>1 DEF Selected
  <2> QED
    BY <2>1, <2>2, <2>3, WP!DeliverTypes, WP!DeliverRecords
<1>6. CASE Orchestrator \/ DispatcherStep \/ Ask \/ UNCHANGED vars
  <2>1. UNCHANGED rwVars
    BY <1>6, DispatcherSteps
    DEF Orchestrator, OrchestratorMain, OrchestratorEventLoop, RequestNextTr,
        Ask, vars
  <2> QED
    BY <2>1, <1>u
<1> QED
  BY <1>1, <1>2, <1>3, <1>4, <1>5, <1>6
  DEF Next, Writer, Server, DispatcherStep

\* Nobody but the server sends to the writer and reads the records, and nobody
\* but the dispatcher sends them.
LEMMA OthersKeepRecords ==
  ASSUME [Next]_vars, ~SendRecord, ~Select, ~Forward
  PROVE  UNCHANGED <<sent, conn_A0, instructed>>
<1>1. CASE Orchestrator \/ Ask \/ UNCHANGED vars
  BY <1>1
  DEF Orchestrator, OrchestratorMain, OrchestratorEventLoop, RequestNextTr, Ask,
      vars, serverVars, rwVars
<1>2. CASE DispatcherStep
  BY <1>2
  DEF DispatcherStep, DispatcherMain, OpenFile, DispatcherThreads,
      DispatcherEventLoop, DispatcherSender, SendBookkeeping, Age, serverVars,
      rwVars
<1>3. CASE Writer
  BY <1>3
  DEF Writer, WriterThreads, WriterEventLoops, serverVars, W!Main,
      W!AddCallback, W!HandshakeDone, W!Subscribe, W!SendAck, W!AllDone,
      W!RemoveRecordCallback, W!RemoveCallback, W!Attrs, W!AddAttrsCallback,
      W!AttrsDone, W!RemoveAttrsCallback, W!Callback, W!RecvTR, W!TakeTR,
      W!WriteTR, W!AttrsCallback, W!recordVars, W!handshakeVars
<1>4. CASE ReadBookkeeping
  BY <1>4
  DEF ReadBookkeeping, W!Announce, rwVars, W!handshakeVars, W!recordVars
<1> QED
  BY <1>1, <1>2, <1>3, <1>4 DEF Next, Server, DispatcherStep

LEMMA SelectedStep ==
  ASSUME PeersInv, WriterInv, Selected, [Next]_vars PROVE Selected'
<1> USE WriterFacts DEF Selected
<1>1. CASE SendRecord
  <2>1. /\ UNCHANGED <<sent, instructed>>
        /\ conn_A0' = Append(conn_A0, Record(<<current, sender[1].next>>))
    BY <1>1 DEF SendRecord, rwVars
  <2>2. Record(<<current, sender[1].next>>) \in WP!TriggerRecords
    <3>1. td_pc = "join"
      BY <1>1 DEF SendRecord, D!SendRecord, D!Sending
    <3>2. current \in Files
      BY <3>1 DEF PeersInv, ServerTypes
    <3>3. sender[1].next \in Nat
      BY DEF PeersInv, DispatcherInv, DP!TypeOK, DP!Senders, DP!SenderStates
    <3> QED
      BY <3>2, <3>3 DEF Record, WP!TriggerRecords
  <2> QED
    BY <2>1, <2>2
<1>2. CASE Select
  <2>1. /\ UNCHANGED <<sent, conn_A0>> /\ conn_A0 # <<>>
        /\ instructed = Len(sent) /\ instructed' = instructed + 1
    BY <1>2
    DEF Select, BetweenRecords, W!Instruct, W!recordVars, serverVars
  <2> QED
    BY <2>1
<1>3. CASE Forward
  <2>1. /\ sent' = Append(sent, Head(conn_A0)) /\ conn_A0' = Tail(conn_A0)
        /\ instructed' = instructed /\ instructed # Len(sent)
    BY <1>3 DEF Forward, BetweenRecords, W!Deliver, W!handshakeVars
  <2>2. conn_A0 # <<>> /\ instructed = Len(sent) + 1
    BY <2>1
  <2>3. /\ Len(sent') = Len(sent) + 1
        /\ conn_A0' \in Seq(WP!TriggerRecords)
    BY <2>1, <2>2
  <2> QED
    BY <2>1, <2>2, <2>3
<1>4. CASE ~SendRecord /\ ~Select /\ ~Forward
  BY <1>4, OthersKeepRecords
<1> QED
  BY <1>1, <1>2, <1>3, <1>4

\* A sequence without repetition stays one when something new comes last.
LEMMA AppendNew ==
  ASSUME NEW S, NEW s \in Seq(S), NEW e \in S, IsInjective(s), e \notin ToSet(s)
  PROVE  /\ IsInjective(Append(s, e))
         /\ ToSet(Append(s, e)) = ToSet(s) \cup {e}
<1>1. /\ Len(s) \in Nat /\ DOMAIN s = 1..Len(s)
      /\ DOMAIN Append(s, e) = 1..Len(s) + 1
      /\ \A n \in 1..Len(s) : Append(s, e)[n] = s[n]
      /\ Append(s, e)[Len(s) + 1] = e
  OBVIOUS
<1>2. \A n \in 1..Len(s) + 1 : n \in 1..Len(s) \/ n = Len(s) + 1
  BY <1>1
<1>3. /\ \A n \in 1..Len(s) : s[n] # e
      /\ \A n, m \in 1..Len(s) : s[n] = s[m] => n = m
  BY <1>1 DEF ToSet, IsInjective
<1>4. \A n \in 1..Len(s) : n \in 1..Len(s) + 1
  BY <1>1
<1>5. Len(s) + 1 \in 1..Len(s) + 1
  BY <1>1
<1>6. IsInjective(Append(s, e))
  BY <1>1, <1>2, <1>3, Zenon DEF IsInjective
<1>7. ToSet(Append(s, e)) = ToSet(s) \cup {e}
  BY <1>1, <1>2, <1>4, <1>5, Zenon DEF ToSet
<1> QED
  BY <1>6, <1>7

\* The first of a second sequence may as well be the last of the first one.
LEMMA HeadMoves ==
  ASSUME NEW S, NEW s \in Seq(S), NEW t \in Seq(S), t # <<>>
  PROVE  Append(s, Head(t)) \o Tail(t) = s \o t
<1>1. /\ Head(t) \in S /\ Tail(t) \in Seq(S) /\ Len(Tail(t)) = Len(t) - 1
      /\ \A n \in 1..Len(Tail(t)) : Tail(t)[n] = t[n + 1]
      /\ Head(t) = t[1] /\ Len(t) \in Nat \ {0} /\ Len(s) \in Nat
  BY HeadTailProperties
<1> DEFINE u == Append(s, Head(t))
<1>2. /\ u \in Seq(S) /\ Len(u) = Len(s) + 1 /\ u[Len(s) + 1] = t[1]
      /\ \A n \in 1..Len(s) : u[n] = s[n]
  BY <1>1
<1> HIDE DEF u
<1>3. /\ u \o Tail(t) \in Seq(S) /\ Len(u \o Tail(t)) = Len(s) + Len(t)
      /\ \A n \in 1..Len(s) + Len(t) :
           (u \o Tail(t))[n] = IF n <= Len(s) + 1 THEN u[n]
                              ELSE Tail(t)[n - (Len(s) + 1)]
  <2>1. /\ u \o Tail(t) \in Seq(S)
        /\ Len(u \o Tail(t)) = Len(u) + Len(Tail(t))
        /\ \A n \in 1..Len(u) + Len(Tail(t)) :
             (u \o Tail(t))[n] = IF n <= Len(u) THEN u[n]
                                ELSE Tail(t)[n - Len(u)]
    BY <1>1, <1>2, ConcatProperties
  <2>2. Len(u) + Len(Tail(t)) = Len(s) + Len(t)
    BY <1>1, <1>2
  <2> QED
    BY <1>2, <2>1, <2>2
<1>4. /\ s \o t \in Seq(S) /\ Len(s \o t) = Len(s) + Len(t)
      /\ \A n \in 1..Len(s) + Len(t) :
           (s \o t)[n] = IF n <= Len(s) THEN s[n] ELSE t[n - Len(s)]
  BY ConcatProperties
<1>5. ASSUME NEW n \in 1..Len(s) + Len(t) PROVE (u \o Tail(t))[n] = (s \o t)[n]
  <2>1. CASE n <= Len(s)
    <3>1. n \in 1..Len(s) /\ n <= Len(s) + 1
      BY <1>1, <2>1
    <3> QED
      BY <1>2, <1>3, <1>4, <2>1, <3>1
  <2>2. CASE n = Len(s) + 1
    <3>1. ~(n <= Len(s)) /\ n - Len(s) = 1
      BY <1>1, <2>2
    <3> QED
      BY <1>2, <1>3, <1>4, <2>2, <3>1
  <2>3. CASE n > Len(s) + 1
    <3>1. /\ ~(n <= Len(s)) /\ ~(n <= Len(s) + 1)
          /\ n - (Len(s) + 1) \in 1..Len(Tail(t))
          /\ n - (Len(s) + 1) + 1 = n - Len(s)
      BY <1>1, <2>3
    <3> QED
      BY <1>1, <1>3, <1>4, <3>1
  <2>4. n <= Len(s) \/ n = Len(s) + 1 \/ n > Len(s) + 1
    BY <1>1
  <2> QED
    BY <2>1, <2>2, <2>3, <2>4
<1>6. u \o Tail(t) = s \o t
  BY <1>3, <1>4, <1>5, SeqEqual
<1> QED
  BY <1>6 DEF u

\* What is not read yet comes last of all.
LEMMA AppendAtEnd ==
  ASSUME NEW S, NEW s \in Seq(S), NEW t \in Seq(S), NEW e \in S
  PROVE  s \o Append(t, e) = Append(s \o t, e)
<1>1. /\ Append(t, e) = t \o <<e>> /\ <<e>> \in Seq(S)
      /\ s \o t \in Seq(S)
  BY AppendIsConcat, ConcatProperties
<1>2. Append(s \o t, e) = (s \o t) \o <<e>>
  BY <1>1, AppendIsConcat
<1> QED
  BY <1>1, <1>2, ConcatAssociative

\* Only the dispatcher's connection changes what became of a record.
LEMMA FateKept ==
  ASSUME [Next]_vars, ~SendRecord, ~D!SendRecord(1, "timeout")
  PROVE  UNCHANGED fate
<1> USE DEF D!senderVars
<1>1. CASE DispatcherStep
  BY <1>1
  DEF DispatcherStep, DispatcherMain, OpenFile, DispatcherThreads,
      DispatcherEventLoop, DispatcherSender, SendBookkeeping, Age,
      D!ChooseSource, D!Scan, D!Scanned, D!NextFile, D!Rescan, D!NextRun,
      D!AddCallback, D!HandshakeDone, D!RemoveCallback, D!OpenFile, D!Announce,
      D!SpawnSenders, D!JoinSenders, D!Callback, D!SentAll, D!NoteInLedger,
      D!SendBookkeeping, D!Age
<1>2. CASE ~DispatcherStep
  <2>1. Orchestrator \/ Writer \/ Server \/ UNCHANGED vars
    BY <1>2 DEF Next, DispatcherStep
  <2> QED
    BY <2>1
    DEF Orchestrator, OrchestratorMain, OrchestratorEventLoop, RequestNextTr,
        Writer, WriterThreads, WriterEventLoops, Server, Ask, ReadBookkeeping,
        Select, Forward, vars, tdVars
<1> QED
  BY <1>1, <1>2

LEMMA RecordInjective ==
  ASSUME NEW i \in D!RecordIds, NEW j \in D!RecordIds, Record(i) = Record(j)
  PROVE  i = j
<1>1. /\ i = <<i[1], i[2]>> /\ j = <<j[1], j[2]>>
  BY DEF D!RecordIds
<1>2. i[1] = j[1] /\ i[2] = j[2]
  BY DEF Record
<1> QED
  BY <1>1, <1>2

LEMMA AcceptedOnceStep ==
  ASSUME PeersInv, WriterInv, Selected, AcceptedOnce, DP!SoundOfferedOnce,
         [Next]_vars
  PROVE  AcceptedOnce'
<1>0. /\ sent \in Seq(WP!TriggerRecords) /\ conn_A0 \in Seq(WP!TriggerRecords)
      /\ sent \o conn_A0 \in Seq(WP!TriggerRecords)
  BY WriterFacts DEF Selected
<1>1. CASE Forward
  <2>1. /\ sent' = Append(sent, Head(conn_A0)) /\ conn_A0' = Tail(conn_A0)
        /\ instructed # Len(sent) /\ fate' = fate
    BY <1>1 DEF Forward, BetweenRecords, W!Deliver, tdVars
  <2>2. conn_A0 # <<>>
    BY <2>1 DEF Selected
  <2>3. sent' \o conn_A0' = sent \o conn_A0
    BY <1>0, <2>1, <2>2, HeadMoves
  <2> QED
    BY <2>1, <2>3 DEF AcceptedOnce, Accepted
<1>2. ASSUME NEW result, D!SendRecord(1, result)
      PROVE  LET id == <<current, sender[1].next>>
             IN  /\ id \in D!RecordIds /\ fate[id] = "unsent"
                 /\ fate \in [D!RecordIds -> DP!Fates]
                 /\ fate' = [fate EXCEPT ![id] = result]
                 /\ Record(id) \in WP!TriggerRecords
  <2> DEFINE id == <<current, sender[1].next>>
  <2>1. /\ td_pc = "join" /\ sender[1].pc = "send"
        /\ sender[1].next <= Records[current]
        /\ fate' = [fate EXCEPT ![id] =
                      IF @ = "accepted" THEN @ ELSE result]
    BY <1>2 DEF D!SendRecord, D!Sending, D!Readable
  <2>2. current \in Files /\ sender[1].next \in Nat \ {0}
    BY <2>1
    DEF PeersInv, ServerTypes, DispatcherInv, DP!TypeOK, DP!Senders,
        DP!SenderStates
  <2>3. sender[1].next \in 1..Records[current] /\ Records[current] \in Nat
    BY <2>1, <2>2, DFBAssumption
  <2>4. id \in D!RecordIds
    BY <2>2, <2>3 DEF D!RecordIds, D!Sources
  <2>5. fate[id] = "unsent"
    <3>1. DP!Sound(current)
      BY <2>2, DFBAssumption DEF DP!Sound
    <3> QED
      BY <2>1, <2>2, <2>3, <3>1 DEF DP!SoundOfferedOnce, DP!Senders
  <2>6. fate \in [D!RecordIds -> DP!Fates]
    BY DEF PeersInv, DispatcherInv, DP!TypeOK, DP!RecordIds, D!RecordIds,
           DP!Sources, D!Sources, DP!Dummy, D!Dummy
  <2>7. Record(id) \in WP!TriggerRecords
    BY <2>2 DEF Record, WP!TriggerRecords
  <2>8. fate' = [fate EXCEPT ![id] = result]
    BY <2>1, <2>4, <2>5, <2>6
  <2> QED
    BY <2>4, <2>5, <2>6, <2>7, <2>8
<1>3. CASE D!SendRecord(1, "timeout")
  <2>1. UNCHANGED <<sent, conn_A0>>
    <3>1. ~Select /\ ~Forward /\ ~SendRecord
      <4>1. sender' # sender
        <5>1. /\ sender' = [sender EXCEPT ![1].next = @ + 1]
              /\ sender[1].next \in Nat /\ 1 \in DP!Senders
              /\ sender \in [DP!Senders -> DP!SenderStates]
          BY <1>3
          DEF D!SendRecord, PeersInv, DispatcherInv, DP!TypeOK, DP!Senders,
              DP!SenderStates
        <5>2. sender'[1].next = sender[1].next + 1
          BY <5>1 DEF DP!SenderStates
        <5>3. sender[1].next + 1 # sender[1].next
          BY <5>1
        <5> QED
          BY <5>2, <5>3
      <4>2. ~Select /\ ~Forward
        BY <4>1 DEF Select, Forward, tdVars
      <4>3. fate'[<<current, sender[1].next>>] = "timeout"
        BY <1>2, <1>3
      <4>4. SendRecord => fate'[<<current, sender[1].next>>] = "accepted"
        BY <1>2 DEF SendRecord
      <4> QED
        BY <4>2, <4>3, <4>4
    <3> QED
      BY <3>1, OthersKeepRecords
  <2>2. Accepted' = Accepted
    <3>1. \A i \in D!RecordIds : fate'[i] = "accepted" <=> fate[i] = "accepted"
      BY <1>2, <1>3
    <3> QED
      BY <3>1 DEF Accepted, Record, D!RecordIds, D!Sources, D!Dummy
  <2> QED
    BY <2>1, <2>2 DEF AcceptedOnce
<1>4. CASE SendRecord
  <2> DEFINE id == <<current, sender[1].next>>
  <2>1. /\ id \in D!RecordIds /\ fate[id] = "unsent"
        /\ fate \in [D!RecordIds -> DP!Fates]
        /\ fate' = [fate EXCEPT ![id] = "accepted"]
        /\ Record(id) \in WP!TriggerRecords
        /\ sent' = sent /\ conn_A0' = Append(conn_A0, Record(id))
    BY <1>2, <1>4 DEF SendRecord, rwVars
  <2> HIDE DEF id
  <2>2. Record(id) \notin Accepted
    <3>1. \A i \in D!RecordIds : Record(i) = Record(id) => i = id
      BY <2>1, RecordInjective
    <3> QED
      BY <2>1, <3>1 DEF Accepted
  <2>3. Accepted' = Accepted \cup {Record(id)}
    <3>1. \A i \in D!RecordIds :
            fate'[i] = "accepted" <=> fate[i] = "accepted" \/ i = id
      BY <2>1
    <3>2. Accepted' = {Record(j) : j \in {i \in D!RecordIds :
                                           fate'[i] = "accepted"}}
      BY DEF Accepted, Record, D!RecordIds, D!Sources, D!Dummy
    <3>3. {i \in D!RecordIds : fate'[i] = "accepted"}
            = {i \in D!RecordIds : fate[i] = "accepted"} \cup {id}
      BY <2>1, <3>1
    <3> QED
      BY <3>2, <3>3 DEF Accepted
  <2>4. sent' \o conn_A0' = Append(sent \o conn_A0, Record(id))
    BY <1>0, <2>1, AppendAtEnd
  <2>5. /\ IsInjective(Append(sent \o conn_A0, Record(id)))
        /\ ToSet(Append(sent \o conn_A0, Record(id)))
             = ToSet(sent \o conn_A0) \cup {Record(id)}
    BY <1>0, <2>1, <2>2, AppendNew DEF AcceptedOnce
  <2>6. AcceptedOnce' <=> /\ IsInjective(sent' \o conn_A0')
                          /\ ToSet(sent' \o conn_A0') = Accepted'
    BY DEF AcceptedOnce
  <2> QED
    BY <2>3, <2>4, <2>5, <2>6 DEF AcceptedOnce
<1>5. CASE ~SendRecord /\ ~D!SendRecord(1, "timeout") /\ ~Forward
  <2>1. UNCHANGED <<sent, conn_A0, fate>>
    <3>1. CASE Select
      BY <1>5, <3>1, FateKept DEF Select, W!Instruct, W!recordVars, serverVars
    <3>2. CASE ~Select
      BY <1>5, <3>2, FateKept, OthersKeepRecords
    <3> QED
      BY <3>1, <3>2
  <2> QED
    BY <2>1 DEF AcceptedOnce, Accepted
<1> QED
  BY <1>1, <1>3, <1>4, <1>5

\* What was written, is written and waits for the writer is what the server
\* forwarded, in that order.
LEMMA PipelineIsSent ==
  ASSUME WriterInv, Selected PROVE Pipeline = sent \o conn_A0
<1> DEFINE S == WP!TriggerRecords
<1> DEFINE A == RecordsOf(written)
<1> DEFINE B == IF writing = <<>> THEN <<>> ELSE <<writing[1]>>
<1> DEFINE w == IF writing = <<>> THEN 0 ELSE 1
<1>1. /\ WP!Numbers /\ WP!Shapes /\ sent \in Seq(S) /\ conn_A0 \in Seq(S)
      /\ WP!RecordRound /\ WP!InOrder
      /\ writing \in {<<>>} \cup (S \X WP!Indices)
  BY WriterFacts
  DEF WriterInv, WP!RecordInv, Selected, WP!Types, WP!TypeOK
<1>2. /\ A \in Seq(S) /\ Len(A) = Len(written) /\ Len(written) \in Nat
      /\ \A n \in 1..Len(written) : A[n] = sent[n]
  <2>1. /\ Len(written) \in Nat
        /\ \A n \in 1..Len(written) : written[n] \in S \X WP!Indices
    BY <1>1 DEF WP!Numbers, WP!Shapes
  <2>2. A = [n \in 1..Len(written) |-> written[n][1]]
    BY DEF RecordsOf
  <2>3. \A n \in 1..Len(written) : written[n][1] \in S
    BY <2>1
  <2>4. A \in Seq(S) /\ Len(A) = Len(written)
    BY <2>1, <2>2, <2>3
  <2> QED
    BY <1>1, <2>1, <2>2, <2>4 DEF WP!InOrder
<1>3. /\ B \in Seq(S) /\ Len(B) = w /\ w \in {0, 1}
      /\ w = 1 => B[1] = sent[Len(written) + 1]
  <2>1. CASE writing = <<>>
    BY <2>1
  <2>2. CASE writing # <<>>
    BY <1>1, <2>2 DEF WP!InOrder
  <2> QED
    BY <2>1, <2>2
<1>4. /\ trs \in Seq(S) /\ taken = Len(written) + w
      /\ taken + Len(trs) = Len(sent) /\ Len(trs) \in {0, 1}
      /\ Len(trs) = 1 => trs[1] = sent[taken + 1]
  <2>1. /\ trs \in Seq(S) /\ taken = Len(written) + w
        /\ taken + Len(trs) = Len(sent) /\ Len(trs) \in Nat /\ taken \in Nat
        /\ trs # <<>> => trs[1] = sent[taken + 1]
        /\ trs = <<>> <=> Len(trs) = 0
    BY <1>1 DEF WP!Numbers, WP!Shapes, WP!RecordRound, WP!InOrder
  <2>2. Len(sent) <= Len(written) + 1 /\ Len(sent) \in Nat
    BY <1>1, <1>2 DEF WP!RecordRound, WP!Numbers
  <2>3. taken >= Len(written)
    BY <1>2, <1>3, <2>1
  <2>4. \A k, l, m, n \in Nat : k + l = m /\ m <= n + 1 /\ k >= n => l \in {0, 1}
    OBVIOUS
  <2>5. Len(trs) \in {0, 1}
    BY <1>2, <2>1, <2>2, <2>3, <2>4
  <2>6. Len(trs) = 1 => trs # <<>>
    BY <2>1
  <2> QED
    BY <2>1, <2>5, <2>6
<1> HIDE DEF S, A, B, w
<1>5. /\ A \o B \in Seq(S) /\ Len(A \o B) = Len(A) + Len(B)
      /\ \A n \in 1..Len(A) + Len(B) :
           (A \o B)[n] = IF n <= Len(A) THEN A[n] ELSE B[n - Len(A)]
  BY <1>2, <1>3, ConcatProperties
<1>6. \A n \in 1..Len(written) + w : (A \o B)[n] = sent[n]
  <2> SUFFICES ASSUME NEW n \in 1..Len(written) + w PROVE (A \o B)[n] = sent[n]
    OBVIOUS
  <2>0. n \in 1..Len(A) + Len(B)
    BY <1>2, <1>3
  <2>1. CASE n <= Len(written)
    <3>1. n \in 1..Len(written)
      BY <1>2, <1>3, <2>1
    <3> QED
      BY <1>2, <1>5, <2>0, <2>1, <3>1
  <2>2. CASE ~(n <= Len(written))
    <3>1. n = Len(written) + 1 /\ w = 1 /\ n - Len(A) = 1
      BY <1>2, <1>3, <2>2
    <3> QED
      BY <1>2, <1>3, <1>5, <2>0, <2>2, <3>1
  <2> QED
    BY <2>1, <2>2
<1> DEFINE C == A \o B
<1>7. C \in Seq(S) /\ Len(C) = taken
  BY <1>2, <1>3, <1>4, <1>5
<1>8. \A n \in 1..taken : C[n] = sent[n]
  BY <1>4, <1>6
<1> HIDE DEF C
<1>9. C \o trs = sent
  <2>1. /\ C \o trs \in Seq(S) /\ Len(C \o trs) = Len(C) + Len(trs)
        /\ \A n \in 1..Len(C) + Len(trs) :
             (C \o trs)[n] = IF n <= Len(C) THEN C[n] ELSE trs[n - Len(C)]
    BY <1>4, <1>7, ConcatProperties
  <2>2. ASSUME NEW n \in 1..Len(C \o trs) PROVE (C \o trs)[n] = sent[n]
    <3>0. taken \in Nat /\ n \in 1..Len(C) + Len(trs)
      BY <1>2, <1>3, <1>4, <2>1
    <3>1. CASE n <= taken
      <4>1. n \in 1..taken
        BY <1>4, <1>7, <3>0, <3>1
      <4> QED
        BY <1>7, <1>8, <2>1, <3>0, <3>1, <4>1
    <3>2. CASE ~(n <= taken)
      <4>1. Len(trs) = 1 /\ n = taken + 1 /\ n - Len(C) = 1
        <5>1. \A k, l, m \in Nat : /\ m \in 1..k + l /\ ~(m <= k) /\ l \in {0, 1}
                                  => l = 1 /\ m = k + 1 /\ m - k = 1
          OBVIOUS
        <5>2. Len(trs) \in Nat /\ n \in Nat /\ Len(C) = taken
          BY <1>4, <1>7, <3>0
        <5> QED
          BY <1>4, <3>0, <3>2, <5>1, <5>2
      <4> QED
        BY <1>4, <1>7, <2>1, <3>0, <3>2, <4>1
    <3> QED
      BY <3>1, <3>2
  <2>3. sent \in Seq(S) /\ Len(C \o trs) = Len(sent)
    BY <1>1, <1>4, <1>7, <2>1 DEF S
  <2> QED
    BY <2>1, <2>2, <2>3, SeqEqual
<1> QED
  BY <1>9 DEF Pipeline, A, B, C

LEMMA RecordsInit == Init => WriterInv /\ Selected /\ AcceptedOnce
<1> SUFFICES ASSUME Init PROVE WriterInv /\ Selected /\ AcceptedOnce
  OBVIOUS
<1>1. WriterInv
  BY Assumptions, SameWriter, WP!InitTypes, WP!InitRecords DEF Init, WriterInv
<1>2. Selected
  BY DEF Init, W!Init, Selected
<1>3. AcceptedOnce
  <2>1. sent \o conn_A0 = <<>>
    BY DEF Init, W!Init
  <2>2. Accepted = {}
    BY DEF Init, D!Init, Accepted
  <2> QED
    BY <2>1, <2>2 DEF AcceptedOnce, IsInjective, ToSet
<1> QED
  BY <1>1, <1>2, <1>3

\* The dispatcher of its proofs is the one that runs.
LEMMA RunsTheProvedDispatcher == Spec => DP!Spec
<1>1. D!Init => DP!Init
  BY SameDispatcher
<1>2. [D!Next]_(D!vars) => [DP!Next]_(DP!vars)
  BY SameDispatcher
<1> QED
  BY <1>1, <1>2, RunsTheDispatcher, PTL DEF D!Spec, DP!Spec

\* Every record that the dispatcher's connection accepted is in one place of
\* the programs and their connections, and in one only, for every number of
\* files and records.
THEOREM NoneLost == Spec => []NoRecordLost
<1>1. Spec => []DP!SoundOfferedOnce
  <2>1. DP!Undisturbed
    BY DFBAssumption DEF DP!Undisturbed
  <2>2. DP!Spec => [](DP!SoundOfferedOnce /\ (~alive => ~DP!Sound(current)))
    BY <2>1, Assumptions, DP!SoundFilesOfferedOnce
  <2> QED
    BY <2>2, RunsTheProvedDispatcher, PTL
<1>2. PeersInv /\ DP!SoundOfferedOnce /\ WriterInv /\ Selected /\ AcceptedOnce
        /\ [Next]_vars
        => WriterInv' /\ Selected' /\ AcceptedOnce'
  BY WriterInvStep, SelectedStep, AcceptedOnceStep
<1>3. WriterInv /\ Selected /\ AcceptedOnce => NoRecordLost
  BY PipelineIsSent DEF AcceptedOnce, Accepted, NoRecordLost
<1> QED
  BY <1>1, <1>2, <1>3, AlwaysPeers, RecordsInit, PTL DEF Spec

\* Every record of a file in the ledger was refused by the connection, is on
\* its way to the disk or is written, for every number of files and records.
THEOREM RecordedArrives == Spec => []RecordedIsOnItsWay
<1>1. Spec => []DP!RecordedWasOffered
  BY RunsTheProvedDispatcher, Assumptions, DP!RecordedAfterOffered, PTL
<1>2. PeersInv /\ DP!RecordedWasOffered /\ NoRecordLost => RecordedIsOnItsWay
  <2> SUFFICES ASSUME PeersInv, DP!RecordedWasOffered, NoRecordLost,
                      NEW f \in recorded \ FirstNames, NEW r \in 1..Records[f],
                      fate[<<f, r>>] # "timeout"
               PROVE  Record(<<f, r>>) \in ToSet(Pipeline)
    BY DEF RecordedIsOnItsWay
  <2>1. f \in Files /\ fate \in [D!RecordIds -> DP!Fates]
    BY DEF PeersInv, DispatcherInv, DP!TypeOK, DP!StoreTypeOK, DP!RecordIds,
           D!RecordIds, DP!Sources, D!Sources, DP!Dummy, D!Dummy
  <2>2. <<f, r>> \in D!RecordIds
    BY <2>1 DEF D!RecordIds, D!Sources
  <2>3. fate[<<f, r>>] # "unsent"
    BY DEF DP!RecordedWasOffered, DP!WholeFileOffered
  <2>4. fate[<<f, r>>] = "accepted"
    BY <2>1, <2>2, <2>3 DEF DP!Fates
  <2> QED
    BY <2>2, <2>4 DEF NoRecordLost
<1> QED
  BY <1>1, <1>2, NoneLost, AlwaysPeers, PTL
=============================================================================
