------------------------- MODULE TRDispatcherProofs -------------------------
(***************************************************************************)
(* Proofs about TRDispatcher, in every mode, for every set of files, every *)
(* number of runs, records, attempts and requests, with or without deaths: *)
(* types, the ledger, the refinement of TransferLedger, what ends the      *)
(* program, and that each record is offered once.                          *)
(***************************************************************************)
EXTENDS TRDispatcher, HDF5FromStorageProofs

-----------------------------------------------------------------------------
(* The inductive invariant, in parts. *)

\* How many senders there are: one per run done, in mode "hdf5", and one for
\* the run that is joined.
Counts ==
  /\ trdispatchers = (IF Mode = "hdf5" THEN run ELSE 0)
                       + (IF pc = "join" THEN 1 ELSE 0)
  /\ Mode = "storage" => run = 0
  /\ Mode # "storage" /\ pc \notin {"scan", "next", "finished"} => run < NumRuns

\* Senders exist while the main thread joins them, and only they call the
\* class then.
SendersJoined ==
  /\ \A t \in Senders : pc # "join" \/ t > trdispatchers
                          => sender[t] = NotStarted
  /\ \A t \in Senders : sender[t].pc # "ledger" => obj[t] = Idle
  /\ \A t \in Senders : sender[t].pc = "ledger" => current \in Files

Offered == FirstNames \cup {f \in Files : WholeFileOffered(f)}

\* Every name in the ledger, or on its way there, is of a file whose records
\* were all offered.
OfferedNames ==
  /\ json.names \subseteq Offered
  /\ recorded \subseteq Offered
  /\ \A t \in Threads : obj[t].adding \cup obj[t].data \subseteq Offered

\* A sender has offered the records before its next one.
SendersOffered ==
  \A t \in Senders :
    /\ sender[t].pc = "send" =>
         \A r \in 1..Records[current] : r < sender[t].next
                                          => fate[<<current, r>>] # "unsent"
    /\ sender[t].pc = "ledger" => current \in Files /\ WholeFileOffered(current)

-----------------------------------------------------------------------------
(* Types, and the number of senders. *)

\* Facts about the constants that the proofs below use.
LEMMA ConstantFacts ==
  /\ Files \subseteq Nat /\ Sources \subseteq Nat /\ Dummy \notin Files
  /\ Input \in Files /\ FirstNames \subseteq Files
  /\ NumRuns \in Nat \ {0} /\ MaxRequests \in Nat
  /\ Records \in [Sources -> Nat] /\ Records[Dummy] = 1
  /\ 0 \in Threads /\ Senders \subseteq Nat \ {0}
  /\ Threads = 0..(IF Mode = "storage" THEN 1 ELSE NumRuns)
  /\ Senders = 1..(IF Mode = "storage" THEN 1 ELSE NumRuns)
  BY TRDispatcherAssumption, StoreAssumption DEF Sources, Senders, Dummy

\* The ids of the records of a source.
LEMMA RecordIdFacts ==
  \A s \in Sources, r \in Nat \ {0} :
    <<s, r>> \in RecordIds <=> r <= Records[s]
  BY ConstantFacts DEF RecordIds

\* The steps of the program and of its surroundings keep the types of the
\* store: the class is called with names of files only.
LEMMA StoreTyped ==
  ASSUME TypeOK, SendersJoined, [Next]_vars
  PROVE  StoreTypeOK'
<1> USE ConstantFacts
<1>0. StoreTypeOK
  BY DEF TypeOK
<1>1. CASE Scan
  BY <1>0, <1>1, StoreTypeStep DEF Scan
<1>2. CASE Scanned
  BY <1>0, <1>2, StoreTypeStep DEF Scanned
<1>3. ASSUME NEW t \in Senders, NoteInLedger(t) PROVE StoreTypeOK'
  <2>1. t \in Threads /\ current \in Files
    BY <1>3 DEF NoteInLedger, SendersJoined, Senders
  <2> QED
    BY <1>0, <1>3, <2>1, StoreTypeStep DEF NoteInLedger
<1>4. ASSUME NEW t \in Senders, SendBookkeeping(t) PROVE StoreTypeOK'
  <2>1. t \in Threads
    BY DEF Senders
  <2> QED
    BY <1>0, <1>4, <2>1, StoreTypeStep DEF SendBookkeeping
<1>5. CASE Restart
  BY <1>0, <1>5, CallUpdates DEF Restart, StoreTypeOK
<1>6. CASE Age
  BY <1>0, <1>6, StoreTypeStep DEF Age
<1>7. CASE UNCHANGED storeVars
  BY <1>0, <1>7 DEF storeVars, StoreTypeOK
<1>8. ASSUME NEW t \in Senders,
             \/ \E result \in {"accepted", "timeout"} : SendRecord(t, result)
             \/ ReadFails(t) \/ SendNothing(t) \/ SentAll(t)
      PROVE  UNCHANGED storeVars
  BY <1>8 DEF SendRecord, ReadFails, SendNothing, SentAll
<1>9. ASSUME NEW m \in MsgIds, Callback(m) PROVE UNCHANGED storeVars
  BY <1>9 DEF Callback
<1>10. CASE NextFile \/ Rescan \/ NextRun
  BY <1>7, <1>10 DEF NextFile, Rescan, NextRun
<1>11. CASE AddCallback \/ HandshakeDone \/ RemoveCallback
  BY <1>7, <1>11 DEF AddCallback, HandshakeDone, RemoveCallback
<1>12. CASE \/ OpenFile \/ OpenFails \/ Announce
            \/ SpawnSenders \/ JoinSenders
  BY <1>7, <1>12
  DEF OpenFile, OpenFails, Announce, SpawnSenders, JoinSenders
<1>13. CASE Terminate \/ Race \/ Crash \/ Request \/ Chatter
  BY <1>7, <1>13 DEF Terminate, Race, Crash, Request, Chatter
<1>14. CASE UNCHANGED vars
  BY <1>7, <1>14 DEF vars
<1> QED
  BY <1>1, <1>2, <1>3, <1>4, <1>5, <1>6, <1>7, <1>8, <1>9, <1>10, <1>11,
     <1>12, <1>13, <1>14
  DEF Next, Main, ChooseSource, Sender

\* A sender keeps its type under each of the updates that the steps make.
LEMMA SenderUpdates ==
  /\ NotStarted \in SenderStates
  /\ \A n \in Nat \ {0} : [pc |-> "send", next |-> n] \in SenderStates
  /\ \A x \in SenderStates :
       /\ x.next \in Nat \ {0}
       /\ [x EXCEPT !.next = x.next + 1] \in SenderStates
       /\ \A p \in {"ledger", "done"} : [x EXCEPT !.pc = p] \in SenderStates
  BY DEF SenderStates, NotStarted

\* Every step keeps the types, the number of senders and the rule that a
\* sender works only while it is joined.
LEMMA DispatchStep ==
  ASSUME TypeOK, Counts, SendersJoined, [Next]_vars
  PROVE  TypeOK' /\ Counts' /\ SendersJoined'
<1>0. StoreTypeOK /\ StoreTypeOK'
  BY StoreTyped DEF TypeOK
<1>u. ASSUME UNCHANGED storeVars
      PROVE  UNCHANGED <<json, storage, obj, recorded>>
  BY <1>u DEF storeVars
<1> USE ConstantFacts, <1>0
    DEF TypeOK, Counts, SendersJoined, PCs, MsgIds, NotStarted, mainVars,
        requestVars, senderVars
<1>s. ASSUME NEW t \in Senders, sender[t].pc # "none"
      PROVE  pc = "join" /\ t <= trdispatchers
  <2>1. ~(pc # "join" \/ t > trdispatchers)
    BY <1>s
  <2>2. t \in Nat /\ trdispatchers \in Nat
    OBVIOUS
  <2> QED
    BY <2>1, <2>2
<1>1. CASE Scan
  <2>1. \A u \in Senders : obj'[u] = obj[u]
    BY <1>1, OwnCallOnly DEF Scan, Senders
  <2> QED
    BY <1>1, <2>1 DEF Scan
<1>2. CASE Scanned
  <2>1. \A u \in Senders : obj'[u] = obj[u]
    BY <1>2, OwnCallOnly DEF Scanned, Senders
  <2>2. obj[0].to_transfer \in SUBSET Files
    BY DEF StoreTypeOK, Calls
  <2> QED
    BY <1>2, <2>1, <2>2 DEF Scanned
<1>3. CASE NextFile
  BY <1>3, <1>u DEF NextFile, Sources
<1>4. CASE Rescan
  BY <1>4, <1>u DEF Rescan
<1>5. CASE NextRun
  BY <1>5, <1>u DEF NextRun, Sources
<1>6. CASE AddCallback \/ HandshakeDone \/ RemoveCallback
  <2>1. CASE AddCallback
    BY <2>1, <1>u DEF AddCallback
  <2>2. CASE HandshakeDone
    BY <2>2, <1>u DEF HandshakeDone
  <2>3. CASE RemoveCallback
    BY <2>3, <1>u DEF RemoveCallback
  <2> QED
    BY <1>6, <2>1, <2>2, <2>3
<1>7. CASE OpenFile \/ OpenFails \/ Announce
  BY <1>7, <1>u DEF OpenFile, OpenFails, Announce
<1>8. CASE SpawnSenders
  <2>1. sender' \in [Senders -> SenderStates]
    BY <1>8, SenderUpdates DEF SpawnSenders
  <2> QED
    BY <1>8, <1>u, <2>1 DEF SpawnSenders
<1>9. CASE JoinSenders
  <2>1. ASSUME NEW t \in Senders PROVE sender[t].pc # "ledger"
    <3>1. CASE t <= trdispatchers
      BY <1>9, <3>1 DEF JoinSenders, Joined
    <3>2. CASE t > trdispatchers
      BY <3>2
    <3> QED
      BY <3>1, <3>2
  <2>2. \A t \in Senders : sender'[t] = NotStarted
    BY <1>9 DEF JoinSenders
  <2>3. run' \in 0..NumRuns
    BY <1>9 DEF JoinSenders
  <2>4. Counts'
    BY <1>9 DEF JoinSenders
  <2>5. trdispatchers' \in Threads
    BY <1>9, <2>3, <2>4 DEF JoinSenders
  <2>6. TypeOK'
    BY <1>9, <2>3, <2>5, SenderUpdates DEF JoinSenders
  <2>7. SendersJoined'
    BY <1>9, <1>u, <2>1, <2>2 DEF JoinSenders
  <2> QED
    BY <2>4, <2>6, <2>7
<1>10. ASSUME NEW t \in Senders,
              NEW result \in {"accepted", "timeout"}, SendRecord(t, result)
       PROVE  TypeOK' /\ Counts' /\ SendersJoined'
  <2>1. fate' \in [RecordIds -> Fates]
    BY <1>10 DEF SendRecord, Fates
  <2>2. sender' \in [Senders -> SenderStates]
    BY <1>10, SenderUpdates DEF SendRecord
  <2>3. TypeOK' /\ Counts'
    BY <1>10, <2>1, <2>2 DEF SendRecord
  <2>4. SendersJoined'
    <3>a. sender[t].pc = "send"
      BY <1>10 DEF SendRecord, Sending
    <3>b. sender'[t].pc = "send"
      BY <1>10, <3>a DEF SendRecord, SenderStates
    <3>1. /\ sender[t].pc = "send" /\ pc = "join" /\ t <= trdispatchers
          /\ sender'[t].pc = "send"
      BY <1>s, <3>a, <3>b
    <3>2. \A u \in Senders \ {t} : sender'[u] = sender[u]
      BY <1>10 DEF SendRecord
    <3> QED
      BY <1>10, <1>u, <3>1, <3>2 DEF SendRecord
  <2> QED
    BY <2>3, <2>4
<1>11. ASSUME NEW t \in Senders, ReadFails(t) \/ SendNothing(t) \/ SentAll(t)
       PROVE  TypeOK' /\ Counts' /\ SendersJoined'
  <2>1. CASE ReadFails(t) \/ SendNothing(t)
    BY <2>1, <1>u DEF ReadFails, SendNothing
  <2>2. CASE SentAll(t)
    <3>1. sender' \in [Senders -> SenderStates]
      BY <2>2, SenderUpdates DEF SentAll
    <3>2. TypeOK' /\ Counts'
      BY <2>2, <3>1 DEF SentAll
    <3>a. sender[t].pc = "send"
      BY <2>2 DEF SentAll, Sending
    <3>b. sender'[t].pc = "ledger" => current \in Files
      BY <2>2 DEF SentAll, SenderStates, Sources
    <3>3. /\ sender[t].pc = "send" /\ pc = "join" /\ t <= trdispatchers
          /\ sender'[t].pc = "ledger" => current \in Files
      BY <1>s, <3>a, <3>b
    <3>4. \A u \in Senders \ {t} : sender'[u] = sender[u]
      BY <2>2 DEF SentAll
    <3> QED
      BY <2>2, <1>u, <3>2, <3>3, <3>4 DEF SentAll
  <2> QED
    BY <1>11, <2>1, <2>2
<1>12. ASSUME NEW t \in Senders, NoteInLedger(t)
       PROVE  TypeOK' /\ Counts' /\ SendersJoined'
  <2>1. \A u \in Senders \ {t} : obj'[u] = obj[u]
    BY <1>12, OwnCallOnly DEF NoteInLedger, Senders
  <2> QED
    BY <1>12, <2>1 DEF NoteInLedger
<1>13. ASSUME NEW t \in Senders, SendBookkeeping(t)
       PROVE  TypeOK' /\ Counts' /\ SendersJoined'
  <2>1. \A u \in Senders \ {t} : obj'[u] = obj[u]
    BY <1>13, OwnCallOnly DEF SendBookkeeping, Senders
  <2>2. obj'[t] = Idle
    BY <1>13 DEF SendBookkeeping, Forget, StoreTypeOK, Senders
  <2>3. sender' \in [Senders -> SenderStates]
    BY <1>13, SenderUpdates DEF SendBookkeeping
  <2>4. TypeOK' /\ Counts'
    BY <1>13, <2>3 DEF SendBookkeeping
  <2>5. sender[t].pc = "ledger" /\ pc = "join" /\ t <= trdispatchers
    BY <1>13, <1>s DEF SendBookkeeping
  <2>6. \A u \in Senders \ {t} : sender'[u] = sender[u]
    BY <1>13 DEF SendBookkeeping
  <2>7. sender'[t].pc = "done"
    BY <1>13 DEF SendBookkeeping, SenderStates
  <2>8. UNCHANGED <<pc, current, trdispatchers>>
    BY <1>13 DEF SendBookkeeping
  <2>9. SendersJoined'
    <3>1. ASSUME NEW u \in Senders
          PROVE  /\ pc' # "join" \/ u > trdispatchers'
                      => sender'[u] = NotStarted
                 /\ sender'[u].pc # "ledger" => obj'[u] = Idle
                 /\ sender'[u].pc = "ledger" => current' \in Files
      <4>1. CASE u = t
        <5>1. ~(t > trdispatchers)
          BY <2>5
        <5> QED
          BY <4>1, <5>1, <2>2, <2>5, <2>7, <2>8
      <4>2. CASE u # t
        <5>1. sender'[u] = sender[u] /\ obj'[u] = obj[u]
          BY <4>2, <2>1, <2>6
        <5> QED
          BY <5>1, <2>8
      <4> QED
        BY <4>1, <4>2
    <3> QED
      BY <3>1
  <2> QED
    BY <2>4, <2>9
<1>14. ASSUME NEW m \in MsgIds, Callback(m)
       PROVE  TypeOK' /\ Counts' /\ SendersJoined'
  BY <1>14, <1>u DEF Callback
<1>15. CASE Terminate \/ Race \/ Crash
  BY <1>15, <1>u DEF Terminate, Race, Crash
<1>16. CASE Restart
  <2>1. /\ sender' = [t \in Senders |-> NotStarted]
        /\ obj' = [t \in Threads |-> Idle]
        /\ \A t \in Senders : t \in Threads
    BY <1>16 DEF Restart, Senders
  <2>2. sender' \in [Senders -> SenderStates]
    BY <2>1, SenderUpdates
  <2>3. SendersJoined'
    BY <2>1
  <2>6. trdispatcher0' \in [MsgIds -> Nat]
    BY <1>16 DEF Restart
  <2>4. TypeOK'
    BY <1>16, <2>2, <2>6 DEF Restart, StartPC, Sources
  <2>5. Counts'
    BY <1>16 DEF Restart, StartPC
  <2> QED
    BY <2>3, <2>4, <2>5
<1>17. CASE Request \/ Chatter
  <2>1. CASE Request
    BY <2>1, <1>u DEF Request
  <2>2. CASE Chatter
    BY <2>2, <1>u DEF Chatter
  <2> QED
    BY <1>17, <2>1, <2>2
<1>18. CASE Age
  BY <1>18 DEF Age, StorageStep
<1>19. CASE UNCHANGED vars
  BY <1>19, <1>u DEF vars
<1> QED
  BY <1>1, <1>2, <1>3, <1>4, <1>5, <1>6, <1>7, <1>8, <1>9, <1>10, <1>11,
     <1>12, <1>13, <1>14, <1>15, <1>16, <1>17, <1>18, <1>19
  DEF Next, Main, ChooseSource, Sender

\* The first state has the types, no sender and no call in progress.
LEMMA DispatchInit == Init => TypeOK /\ Counts /\ SendersJoined
<1> SUFFICES ASSUME Init PROVE TypeOK /\ Counts /\ SendersJoined
  OBVIOUS
<1> USE ConstantFacts DEF Init
<1>1. StoreTypeOK
  BY InitStoreType
<1>2. TypeOK
  <2>1. sender \in [Senders -> SenderStates]
    BY SenderUpdates
  <2>2. fate \in [RecordIds -> Fates]
    BY DEF Fates
  <2> QED
    BY <1>1, <2>1, <2>2 DEF TypeOK, PCs, MsgIds, Sources, StartPC
<1>3. Counts
  BY DEF Counts, StartPC
<1>4. SendersJoined
  BY DEF SendersJoined, NotStarted, InitStore, Senders
<1> QED
  BY <1>2, <1>3, <1>4

\* The variables of the dispatcher stay in range in every mode: in particular
\* there are never more senders than runs, and from storage never two.
THEOREM TypeCorrect == Spec => [](TypeOK /\ Counts /\ SendersJoined)
  BY DispatchInit, DispatchStep, PTL DEF Spec

-----------------------------------------------------------------------------
(* A recorded file was offered. *)

\* A send attempt never makes a record unsent again.
LEMMA OffersStay ==
  ASSUME TypeOK, NEW t \in Senders, NEW result \in {"accepted", "timeout"},
         SendRecord(t, result)
  PROVE  /\ \A id \in RecordIds : fate[id] # "unsent" => fate'[id] # "unsent"
         /\ \A f \in Sources : WholeFileOffered(f) => WholeFileOffered(f)'
         /\ Offered \subseteq Offered'
<1>1. \A id \in RecordIds : fate[id] # "unsent" => fate'[id] # "unsent"
  BY DEF SendRecord, TypeOK
<1>2. ASSUME NEW f \in Sources, WholeFileOffered(f)
      PROVE  WholeFileOffered(f)'
  <2>1. \A r \in 1..Records[f] : <<f, r>> \in RecordIds
    BY RecordIdFacts, ConstantFacts
  <2> QED
    BY <1>1, <1>2, <2>1 DEF WholeFileOffered
<1> QED
  BY <1>1, <1>2 DEF Offered, Sources

\* Every step keeps the two facts about offered files.
LEMMA OfferStep ==
  ASSUME TypeOK, SendersJoined, OfferedNames, SendersOffered, [Next]_vars
  PROVE  OfferedNames' /\ SendersOffered'
<1>0. StoreTypeOK
  BY DEF TypeOK
<1>a. ASSUME UNCHANGED fate PROVE Offered' = Offered
  BY <1>a DEF Offered, WholeFileOffered
<1>b. ASSUME UNCHANGED <<json, obj, recorded>>, Offered \subseteq Offered'
      PROVE  OfferedNames'
  BY <1>b DEF OfferedNames
<1>c. ASSUME UNCHANGED <<fate, current, sender>> PROVE SendersOffered'
  BY <1>c DEF SendersOffered, WholeFileOffered
<1>d. ASSUME \A t \in Senders : sender'[t].pc = "none" PROVE SendersOffered'
  BY <1>d DEF SendersOffered
<1>e. ASSUME pc # "join" PROVE \A t \in Senders : sender[t].pc = "none"
  BY <1>e DEF SendersJoined, NotStarted
<1>f. ASSUME UNCHANGED <<storeVars, fate, current, sender>>
      PROVE  OfferedNames' /\ SendersOffered'
  BY <1>a, <1>b, <1>c, <1>f DEF storeVars
<1>g. ASSUME NEW t \in Threads, UNCHANGED fate,
             \/ ConstructorStep(t)
             \/ \E f \in Files \cap Offered : WriteJSON(t, f)
             \/ WriterStep(t)
             \/ Forget(t) /\ UNCHANGED <<json, recorded>>
      PROVE  OfferedNames'
  <2>1. /\ json'.names \subseteq Offered
        /\ recorded' \subseteq Offered
        /\ \A u \in Threads :
             obj'[u].adding \cup obj'[u].data \subseteq Offered
    BY <1>0, <1>g, NamesWithin DEF OfferedNames
  <2> QED
    BY <1>a, <1>g, <2>1 DEF OfferedNames
<1>1. CASE Scan
  BY <1>1, <1>c, <1>g, ConstantFacts DEF Scan, mainVars, senderVars
<1>2. CASE Scanned
  BY <1>2, <1>c, <1>g, ConstantFacts DEF Scanned, senderVars
<1>3. CASE NextFile \/ Rescan \/ NextRun
  <2>1. UNCHANGED <<storeVars, senderVars>> /\ pc # "join"
    BY <1>3 DEF NextFile, Rescan, NextRun
  <2> QED
    BY <2>1, <1>a, <1>b, <1>d, <1>e DEF storeVars, senderVars
<1>4. CASE AddCallback \/ HandshakeDone \/ RemoveCallback
  BY <1>4, <1>f DEF AddCallback, HandshakeDone, RemoveCallback, senderVars
<1>5. CASE OpenFile \/ OpenFails \/ Announce
  BY <1>5, <1>f DEF OpenFile, OpenFails, Announce, senderVars, mainVars
<1>6. CASE SpawnSenders
  <2>1. UNCHANGED <<json, obj, recorded, fate, current>> /\ pc # "join"
    BY <1>6 DEF SpawnSenders, storeVars
  <2>2. OfferedNames'
    BY <2>1, <1>a, <1>b
  <2>3. \A t \in Senders : \/ sender'[t] = [pc |-> "send", next |-> 1]
                            \/ sender'[t].pc = "none"
    BY <1>6, <1>e, <2>1 DEF SpawnSenders
  <2>4. SendersOffered'
    <3>1. \A r \in 1..Records[current] : ~(r < 1)
      BY ConstantFacts DEF TypeOK
    <3>2. UNCHANGED current
      BY <2>1
    <3> QED
      BY <2>3, <3>1, <3>2 DEF SendersOffered
  <2> QED
    BY <2>2, <2>4
<1>7. CASE JoinSenders
  <2>1. \A t \in Senders : sender'[t].pc = "none"
    BY <1>7 DEF JoinSenders, NotStarted
  <2> QED
    BY <2>1, <1>7, <1>a, <1>b, <1>d DEF JoinSenders, storeVars
<1>8. ASSUME NEW t \in Senders,
             NEW result \in {"accepted", "timeout"}, SendRecord(t, result)
      PROVE  OfferedNames' /\ SendersOffered'
  <2>1. OfferedNames'
    BY <1>8, <1>b, OffersStay DEF SendRecord, storeVars
  <2>2. UNCHANGED current /\ current \in Sources
    BY <1>8 DEF SendRecord, mainVars, TypeOK
  <2>3. \A r \in 1..Records[current] : <<current, r>> \in RecordIds
    BY <2>2, RecordIdFacts, ConstantFacts
  <2>4. ASSUME NEW u \in Senders, sender'[u].pc = "ledger"
        PROVE  current' \in Files /\ WholeFileOffered(current)'
    <3>1. sender[u].pc = "ledger"
      BY <1>8, <2>4 DEF SendRecord, Sending, TypeOK, SenderStates
    <3>2. WholeFileOffered(current) /\ current \in Files
      BY <3>1 DEF SendersOffered
    <3> QED
      BY <1>8, <2>2, <3>2, OffersStay DEF WholeFileOffered
  <2>5. ASSUME NEW u \in Senders, sender'[u].pc = "send",
               NEW r \in 1..Records[current], r < sender'[u].next
        PROVE  fate'[<<current, r>>] # "unsent"
    <3>1. CASE u # t
      <4>1. sender'[u] = sender[u]
        BY <1>8, <3>1 DEF SendRecord
      <4>2. fate[<<current, r>>] # "unsent"
        BY <2>5, <4>1 DEF SendersOffered
      <4> QED
        BY <1>8, <2>3, <4>2, OffersStay
    <3>2. CASE u = t
      <4>1. sender[t].pc = "send" /\ sender[t].next \in Nat \ {0}
        BY <1>8, SenderUpdates DEF SendRecord, Sending, TypeOK
      <4>2. sender'[t].next = sender[t].next + 1
        BY <1>8 DEF SendRecord, TypeOK, SenderStates
      <4>3. r \in Nat /\ (r < sender[t].next \/ r = sender[t].next)
        BY <2>2, <2>5, <3>2, <4>1, <4>2, ConstantFacts
      <4>4. CASE r < sender[t].next
        <5>1. fate[<<current, r>>] # "unsent"
          BY <4>1, <4>4 DEF SendersOffered
        <5> QED
          BY <1>8, <2>3, <5>1, OffersStay
      <4>5. CASE r = sender[t].next
        BY <1>8, <2>3, <4>5 DEF SendRecord, TypeOK
      <4> QED
        BY <4>3, <4>4, <4>5
    <3> QED
      BY <3>1, <3>2
  <2> QED
    BY <2>1, <2>2, <2>4, <2>5 DEF SendersOffered
<1>9. ASSUME NEW t \in Senders, ReadFails(t) \/ SendNothing(t)
      PROVE  OfferedNames' /\ SendersOffered'
  BY <1>9, <1>f DEF ReadFails, SendNothing, mainVars, senderVars
<1>10. ASSUME NEW t \in Senders, SentAll(t)
       PROVE  OfferedNames' /\ SendersOffered'
  <2>1. OfferedNames'
    BY <1>10, <1>a, <1>b DEF SentAll, storeVars
  <2>2. UNCHANGED <<fate, current>> /\ current \in Sources
    BY <1>10 DEF SentAll, mainVars, TypeOK
  <2>3. \A u \in Senders \ {t} : sender'[u] = sender[u]
    BY <1>10 DEF SentAll
  <2>4. sender'[t].pc = IF current = Dummy THEN "done" ELSE "ledger"
    BY <1>10 DEF SentAll, TypeOK, SenderStates
  <2>5. WholeFileOffered(current)
    <3>1. /\ sender[t].pc = "send" /\ sender[t].next \in Nat
          /\ Records[current] > 0 /\ sender[t].next > Records[current]
      BY <1>10, SenderUpdates DEF SentAll, Sending, Sound, TypeOK
    <3>2. \A r \in 1..Records[current] : r < sender[t].next
      BY <2>2, <3>1, ConstantFacts
    <3> QED
      BY <3>1, <3>2 DEF WholeFileOffered, SendersOffered
  <2>6. SendersOffered'
    BY <2>2, <2>3, <2>4, <2>5 DEF SendersOffered, WholeFileOffered, Sources
  <2> QED
    BY <2>1, <2>6
<1>11. ASSUME NEW t \in Senders, NoteInLedger(t)
       PROVE  OfferedNames' /\ SendersOffered'
  <2>1. t \in Threads /\ current \in Files \cap Offered
    BY <1>11 DEF NoteInLedger, SendersOffered, Offered, Senders
  <2>2. UNCHANGED <<fate, current, sender>>
    BY <1>11 DEF NoteInLedger, mainVars, senderVars
  <2> QED
    BY <1>11, <1>c, <1>g, <2>1, <2>2 DEF NoteInLedger
<1>12. ASSUME NEW t \in Senders, SendBookkeeping(t)
       PROVE  OfferedNames' /\ SendersOffered'
  <2>1. t \in Threads /\ UNCHANGED <<fate, current>>
    BY <1>12 DEF SendBookkeeping, mainVars, Senders
  <2>2. \A u \in Senders : sender'[u] = sender[u] \/ sender'[u].pc = "done"
    BY <1>12 DEF SendBookkeeping, TypeOK, SenderStates
  <2>3. SendersOffered'
    BY <2>1, <2>2 DEF SendersOffered, WholeFileOffered
  <2> QED
    BY <1>12, <1>g, <2>1, <2>3 DEF SendBookkeeping
<1>13. ASSUME NEW m \in MsgIds, Callback(m)
       PROVE  OfferedNames' /\ SendersOffered'
  BY <1>13, <1>f DEF Callback, mainVars, senderVars
<1>14. CASE Terminate \/ Race \/ Crash
  BY <1>14, <1>f DEF Terminate, Race, Crash, mainVars, senderVars
<1>15. CASE Restart
  <2>1. \A t \in Senders : sender'[t].pc = "none"
    BY <1>15 DEF Restart, NotStarted
  <2>2. \A t \in Threads : obj'[t].adding \cup obj'[t].data = {}
    BY <1>15 DEF Restart, Idle
  <2> QED
    BY <1>15, <1>a, <1>d, <2>1, <2>2 DEF Restart, OfferedNames
<1>16. CASE Request \/ Chatter
  BY <1>16, <1>f DEF Request, Chatter, mainVars, senderVars
<1>17. CASE Age
  <2>1. UNCHANGED <<json, obj, recorded, fate, current, sender>>
    BY <1>17 DEF Age, StorageStep, mainVars, senderVars
  <2> QED
    BY <2>1, <1>a, <1>b, <1>c
<1>18. CASE UNCHANGED vars
  BY <1>18, <1>f DEF vars, mainVars, senderVars
<1> QED
  BY <1>1, <1>2, <1>3, <1>4, <1>5, <1>6, <1>7, <1>8, <1>9, <1>10, <1>11,
     <1>12, <1>13, <1>14, <1>15, <1>16, <1>17, <1>18
  DEF Next, Main, ChooseSource, Sender

\* The facts about offered files hold in every reachable state.
LEMMA OfferedAlways == Spec => [](OfferedNames /\ SendersOffered)
<1>1. Init => OfferedNames /\ SendersOffered
  <2> SUFFICES ASSUME Init PROVE OfferedNames /\ SendersOffered
    OBVIOUS
  <2>1. OfferedNames
    BY DEF Init, InitStore, Ledger, Idle, OfferedNames, Offered
  <2>2. SendersOffered
    BY DEF Init, SendersOffered, NotStarted
  <2> QED
    BY <2>1, <2>2
<1>2. TypeOK /\ SendersJoined /\ OfferedNames /\ SendersOffered /\ [Next]_vars
        => (OfferedNames /\ SendersOffered)'
  BY OfferStep
<1> QED
  BY <1>1, <1>2, TypeCorrect, PTL DEF Spec

\* No file is in the ledger before a send was attempted for each of its
\* records, in any mode and whatever steps the program dies between.
THEOREM RecordedAfterOffered == Spec => []RecordedWasOffered
<1>1. OfferedNames => RecordedWasOffered
  BY DEF OfferedNames, Offered, RecordedWasOffered
<1> QED
  BY <1>1, OfferedAlways, PTL

-----------------------------------------------------------------------------
(* Each request gives at most one round. *)

\* No step makes a round, or a request on its way, without a request: a round
\* begins on a count of one, which is dropped with its callback.
LEMMA RoundStep ==
  ASSUME TypeOK, NoUnaskedRound, [Next]_vars
  PROVE  NoUnaskedRound'
<1>0. /\ trdispatcher0 \in [MsgIds -> Nat] /\ received_cnt \in Nat
      /\ rounds \in Nat /\ requested \in Nat
  BY ConstantFacts DEF TypeOK
<1>a. ASSUME UNCHANGED requestVars, pc' # "poll" \/ pc = "poll"
      PROVE  NoUnaskedRound'
  BY <1>0, <1>a DEF NoUnaskedRound, requestVars, MsgIds
<1>1. CASE Scan \/ Scanned
  BY <1>1, <1>a DEF Scan, Scanned, mainVars
<1>2. CASE NextFile \/ Rescan \/ NextRun
  BY <1>2, <1>a DEF NextFile, Rescan, NextRun
<1>3. CASE AddCallback
  BY <1>0, <1>3 DEF AddCallback, NoUnaskedRound, MsgIds
<1>4. CASE HandshakeDone
  BY <1>0, <1>4 DEF HandshakeDone, NoUnaskedRound, MsgIds
<1>5. CASE RemoveCallback
  BY <1>5, <1>a DEF RemoveCallback
<1>6. CASE \/ OpenFile \/ OpenFails \/ Announce
           \/ SpawnSenders \/ JoinSenders
  <2>1. UNCHANGED requestVars
    BY <1>6 DEF OpenFile, OpenFails, Announce, SpawnSenders, JoinSenders
  <2>2. pc' # "poll" \/ pc = "poll"
    BY <1>6
    DEF OpenFile, OpenFails, Announce, SpawnSenders, JoinSenders, mainVars
  <2> QED
    BY <1>a, <2>1, <2>2
<1>7. ASSUME NEW t \in Senders, Sender(t) PROVE NoUnaskedRound'
  <2>1. UNCHANGED <<mainVars, requestVars>>
    BY <1>7 DEF Sender, SendRecord, ReadFails, SendNothing, SentAll, NoteInLedger,
                SendBookkeeping
  <2> QED
    BY <1>a, <2>1 DEF mainVars
<1>8. ASSUME NEW m \in MsgIds, Callback(m) PROVE NoUnaskedRound'
  <2>1. CASE m = "trdispatcher0"
    <3>1. /\ trdispatcher0'["trdispatcher0"] = trdispatcher0["trdispatcher0"] - 1
          /\ trdispatcher0["trdispatcher0"] \in Nat
          /\ received_cnt' = received_cnt + 1
          /\ UNCHANGED <<pc, requested, rounds>>
      BY <1>0, <1>8, <2>1 DEF Callback, mainVars
    <3> QED
      BY <1>0, <3>1 DEF NoUnaskedRound
  <2>2. CASE m # "trdispatcher0"
    <3>1. /\ trdispatcher0'["trdispatcher0"] = trdispatcher0["trdispatcher0"]
          /\ UNCHANGED <<pc, received_cnt, requested, rounds>>
      BY <1>0, <1>8, <2>2 DEF Callback, mainVars
    <3> QED
      BY <3>1 DEF NoUnaskedRound
  <2> QED
    BY <2>1, <2>2
<1>9. CASE Terminate \/ Race \/ Crash
  BY <1>9, <1>a DEF Terminate, Race, Crash, mainVars
<1>10. CASE Restart
  <2>1. /\ trdispatcher0'["trdispatcher0"] \in {0, trdispatcher0["trdispatcher0"]}
        /\ trdispatcher0["trdispatcher0"] \in Nat
        /\ received_cnt' = 0 /\ UNCHANGED <<requested, rounds>>
    BY <1>0, <1>10 DEF Restart, MsgIds
  <2> QED
    BY <1>0, <2>1 DEF NoUnaskedRound
<1>11. CASE Request
  <2>1. /\ trdispatcher0'["trdispatcher0"] = trdispatcher0["trdispatcher0"] + 1
        /\ trdispatcher0["trdispatcher0"] \in Nat
        /\ requested' = requested + 1
        /\ UNCHANGED <<pc, received_cnt, rounds>>
    BY <1>0, <1>11 DEF Request, MsgIds, mainVars
  <2> QED
    BY <1>0, <2>1 DEF NoUnaskedRound
<1>12. CASE Chatter
  <2>1. /\ trdispatcher0'["trdispatcher0"] = trdispatcher0["trdispatcher0"]
        /\ UNCHANGED <<pc, received_cnt, requested, rounds>>
    BY <1>0, <1>12 DEF Chatter, MsgIds, mainVars
  <2> QED
    BY <2>1 DEF NoUnaskedRound
<1>13. CASE Age \/ UNCHANGED vars
  BY <1>13, <1>a DEF Age, vars, mainVars
<1> QED
  BY <1>1, <1>2, <1>3, <1>4, <1>5, <1>6, <1>7, <1>8, <1>9, <1>10, <1>11,
     <1>12, <1>13
  DEF Next, Main, ChooseSource

\* No request starts two rounds of sending, in any mode, for any number of
\* requests at once and across restarts that keep or lose what was queued.
THEOREM RoundsAsked == Spec => []NoUnaskedRound
<1>1. Init => NoUnaskedRound
  BY DEF Init, StartPC, MsgIds, NoUnaskedRound
<1>2. TypeOK /\ NoUnaskedRound /\ [Next]_vars => NoUnaskedRound'
  BY RoundStep
<1> QED
  BY <1>1, <1>2, TypeCorrect, PTL DEF Spec

-----------------------------------------------------------------------------
(* The ledger forgets nothing. *)

\* A sender that is not noting a file in the ledger has no call in progress,
\* and there is none before the senders are started and after they are joined.
LEMMA IdleSenders ==
  ASSUME SendersJoined
  PROVE  /\ \A t \in Senders : sender[t].pc # "ledger" => obj[t] = Idle
         /\ pc # "join" => \A t \in Senders : obj[t] = Idle
  BY DEF SendersJoined, NotStarted

\* Every step of the program keeps what the ledger and its writers hold.
LEMMA LedgerStep ==
  ASSUME TypeOK, SendersJoined, LedgerHolds, WritersAgree(Senders, current),
         [Next]_vars
  PROVE  LedgerHolds' /\ WritersAgree(Senders, current)'
<1>0. StoreTypeOK /\ Senders \in SUBSET Threads /\ 0 \in Threads
  BY ConstantFacts DEF TypeOK, Senders
<1>a. ASSUME UNCHANGED <<json, obj, recorded, current>>
      PROVE  LedgerHolds' /\ WritersAgree(Senders, current)'
  BY <1>a DEF LedgerHolds, WritersAgree
<1>b. ASSUME UNCHANGED <<json, recorded>>, \A t \in Senders : obj'[t] = Idle
      PROVE  LedgerHolds' /\ WritersAgree(Senders, current)'
  BY <1>b DEF LedgerHolds, WritersAgree, Idle, Adding, HasRead
<1>c. ASSUME NEW t \in Threads, UNCHANGED current, current \in Files,
             \/ ConstructorStep(t)
             \/ t \in Senders /\ (WriteJSON(t, current) \/ WriterStep(t))
             \/ Forget(t) /\ UNCHANGED <<json, recorded>>
      PROVE  LedgerHolds' /\ WritersAgree(Senders, current)'
  <2> DEFINE name == current
  <2>1. name \in Files
    BY <1>c
  <2>2. /\ LedgerHolds'
        /\ \A u \in Senders :
             /\ obj'[u].pc \in Adding
                  => obj'[u].adding = {name}
             /\ obj'[u].pc \in HasRead
                  => obj'[u].data = recorded' \cup {name}
    BY <1>0, <1>c, <2>1, WriterKeepsLedger DEF WritersAgree
  <2> QED
    BY <1>c, <2>2 DEF WritersAgree
<1>1. CASE Scan \/ Scanned
  <2>1. /\ UNCHANGED <<json, recorded>> /\ pc # "join"
        /\ \A u \in Threads \ {0} : obj'[u] = obj[u]
    BY <1>0, <1>1, OwnCallOnly DEF Scan, Scanned
  <2> QED
    BY <1>0, <1>b, <2>1, IdleSenders DEF Senders
<1>2. CASE NextFile \/ Rescan \/ NextRun
  <2>1. UNCHANGED <<json, obj, recorded>> /\ pc # "join"
    BY <1>2 DEF NextFile, Rescan, NextRun, storeVars
  <2> QED
    BY <1>b, <2>1, IdleSenders
<1>3. CASE AddCallback \/ HandshakeDone \/ RemoveCallback
  BY <1>3, <1>a DEF AddCallback, HandshakeDone, RemoveCallback, storeVars
<1>4. CASE OpenFile \/ OpenFails \/ Announce
  BY <1>4, <1>a DEF OpenFile, OpenFails, Announce, storeVars, mainVars
<1>5. CASE SpawnSenders \/ JoinSenders
  BY <1>5, <1>a DEF SpawnSenders, JoinSenders, storeVars
<1>6. ASSUME NEW t \in Senders,
             \/ \E result \in {"accepted", "timeout"} : SendRecord(t, result)
             \/ ReadFails(t) \/ SendNothing(t) \/ SentAll(t)
      PROVE  LedgerHolds' /\ WritersAgree(Senders, current)'
  BY <1>6, <1>a DEF SendRecord, ReadFails, SendNothing, SentAll, storeVars, mainVars
<1>7. ASSUME NEW t \in Senders, NoteInLedger(t) \/ SendBookkeeping(t)
      PROVE  LedgerHolds' /\ WritersAgree(Senders, current)'
  <2>1. t \in Threads /\ current \in Files /\ UNCHANGED current
    BY <1>0, <1>7
    DEF NoteInLedger, SendBookkeeping, SendersJoined, mainVars
  <2> QED
    BY <1>7, <1>c, <2>1 DEF NoteInLedger, SendBookkeeping
<1>8. ASSUME NEW m \in MsgIds, Callback(m)
      PROVE  LedgerHolds' /\ WritersAgree(Senders, current)'
  BY <1>8, <1>a DEF Callback, storeVars, mainVars
<1>9. CASE Terminate \/ Race \/ Crash \/ Request \/ Chatter
  BY <1>9, <1>a
  DEF Terminate, Race, Crash, Request, Chatter, storeVars, mainVars
<1>10. CASE Restart
  BY <1>10, <1>0, <1>b DEF Restart
<1>11. CASE Age
  BY <1>11, <1>a DEF Age, StorageStep, mainVars
<1>12. CASE UNCHANGED vars
  BY <1>12, <1>a DEF vars, storeVars, mainVars
<1> QED
  BY <1>1, <1>2, <1>3, <1>4, <1>5, <1>6, <1>7, <1>8, <1>9, <1>10, <1>11, <1>12
  DEF Next, Main, ChooseSource, Sender

\* The first ledger holds what was recorded, and nobody writes.
LEMMA LedgerInit == Init => LedgerHolds /\ WritersAgree(Senders, current)
  BY DEF Init, InitStore, Ledger, Idle, LedgerHolds, WritersAgree, Senders,
         Adding, HasRead

\* Whenever the ledger is a list, every name ever recorded is in it: in no
\* mode, with any number of senders that rewrite it without a lock, and
\* wherever the program dies, does it lose a name.
THEOREM LedgerKept == Spec => []LedgerForgetsNothing
<1>1. LedgerHolds => LedgerForgetsNothing
  BY DEF LedgerHolds, LedgerForgetsNothing
<1>2. TypeOK /\ SendersJoined /\ LedgerHolds /\ WritersAgree(Senders, current)
        /\ [Next]_vars
        => (LedgerHolds /\ WritersAgree(Senders, current))'
  BY LedgerStep
<1> QED
  BY <1>1, <1>2, LedgerInit, TypeCorrect, PTL DEF Spec

-----------------------------------------------------------------------------
(* From storage, no recorded file is sent again. *)

\* What a thread that constructs an object knows of the ledger.
ScanSound(t) ==
  /\ obj[t].pc = "find" => recorded \subseteq obj[t].already
  /\ obj[t].pc = "built" => obj[t].to_transfer \cap recorded = {}

\* The lists of files to send, wherever they are, hold no recorded file: the
\* list of a scan grows old while its files are sent, but only the file that
\* is sent is recorded, and it has left the list.
NothingRecordedToSend ==
  /\ pc # "scan" => obj[0] = Idle
  /\ ScanSound(0)
  /\ files \cap recorded = {}
  /\ pc \notin {"scan", "next"} => current \notin files
  /\ pc \in {"receive", "poll", "remove", "open", "announce", "spawn"}
       => current \notin recorded
  /\ NoResendOfRecorded

\* The constructor finds no recorded file, whatever the ledger was.
LEMMA ScanStep ==
  ASSUME StoreTypeOK, LedgerHolds, NEW t \in Threads, ScanSound(t),
         ConstructorStep(t)
  PROVE  ScanSound(t)'
<1>t. obj[t] \in Calls /\ DOMAIN obj = Threads
  BY DEF StoreTypeOK
<1>0. UNCHANGED recorded
  BY OwnCallOnly
<1>1. CASE Throw(t)
  BY <1>1, <1>t DEF Throw, Idle, ScanSound
<1>2. CASE Construct(t) \/ CheckReady(t)
  BY <1>2, <1>t DEF Construct, CheckReady, Calls, ScanSound
<1>3. CASE CheckEmpty(t) /\ ~Throw(t)
  BY <1>3, <1>t DEF CheckEmpty, Calls, ScanSound
<1>4. CASE ParseLedger(t) /\ ~Throw(t)
  <2>1. recorded \subseteq json.names
    BY <1>4 DEF ParseLedger, LedgerHolds
  <2>2. obj'[t].pc = "find" /\ obj'[t].already = json.names
    BY <1>4, <1>t DEF ParseLedger, Calls
  <2> QED
    BY <1>0, <2>1, <2>2 DEF ScanSound
<1>5. CASE HDF5Find(t)
  <2>1. obj[t].pc = "find" /\ recorded \subseteq obj[t].already
    BY <1>5 DEF HDF5Find, ScanSound
  <2>2. /\ obj'[t].pc = "built"
        /\ obj'[t].to_transfer \cap obj[t].already = {}
    BY <1>5, <1>t DEF HDF5Find, Calls
  <2> QED
    BY <1>0, <2>1, <2>2 DEF ScanSound
<1> QED
  BY <1>1, <1>2, <1>3, <1>4, <1>5
  DEF ConstructorStep, ReadJSONStep, CheckMissing, HDF5FindNoStorage

\* A step of a sender records nothing but the name it adds.
LEMMA OnlyNameRecorded ==
  ASSUME StoreTypeOK, NEW S \in SUBSET Threads, NEW name \in Files,
         WritersAgree(S, name), NEW t \in S,
         ConstructorStep(t) \/ WriteJSON(t, name) \/ WriterStep(t)
  PROVE  recorded' \subseteq recorded \cup {name}
<1>1. CASE ConstructorStep(t) \/ WriteJSON(t, name)
  BY <1>1, OwnCallOnly
<1>2. CASE ReadForWrite(t) \/ Truncate(t)
  BY <1>2 DEF ReadForWrite, Truncate
<1>3. CASE FlushHead(t) \/ Flush(t)
  <2>1. obj[t].data = recorded \cup {name}
    BY <1>3 DEF FlushHead, Flush, WritersAgree, HasRead
  <2>2. \E part : Put(t, part)
    BY <1>3 DEF FlushHead, Flush
  <2> QED
    BY <2>1, <2>2 DEF Put, Overlay, Ledger
<1> QED
  BY <1>1, <1>2, <1>3 DEF WriterStep

\* From storage, every step keeps recorded files out of the lists.
LEMMA ResendStep ==
  ASSUME Mode = "storage", TypeOK, SendersJoined,
         LedgerHolds, WritersAgree(Senders, current),
         NothingRecordedToSend, [Next]_vars
  PROVE  NothingRecordedToSend'
<1>0. /\ StoreTypeOK /\ Senders \in SUBSET Threads /\ 0 \in Threads
      /\ Senders = {1} /\ 0 \notin Senders
  BY ConstantFacts DEF TypeOK, Senders
<1>s. pc # "join" => \A t \in Senders : sender[t].pc = "none"
  BY DEF SendersJoined, NotStarted
<1>a. ASSUME UNCHANGED <<obj, recorded, pc, files, current>>,
             \A t \in Senders : sender'[t].pc = "send"
                                 => sender[t].pc = "send"
      PROVE  NothingRecordedToSend'
  BY <1>a DEF NothingRecordedToSend, ScanSound, NoResendOfRecorded
<1>1. CASE Scan
  <2>1. ScanSound(0)'
    BY <1>0, <1>1, ScanStep DEF Scan, NothingRecordedToSend
  <2>2. UNCHANGED recorded
    BY <1>0, <1>1, OwnCallOnly DEF Scan
  <2> QED
    BY <1>1, <2>1, <2>2
    DEF Scan, NothingRecordedToSend, NoResendOfRecorded, mainVars, senderVars
<1>2. CASE Scanned
  <2>1. obj'[0] = Idle
    BY <1>0, <1>2 DEF Scanned, Forget, StoreTypeOK
  <2>2. files' \cap recorded' = {}
    BY <1>2 DEF Scanned, NothingRecordedToSend, ScanSound
  <2>3. /\ pc = "scan" /\ pc' = "next"
        /\ UNCHANGED <<recorded, current, sender>>
    BY <1>2 DEF Scanned, senderVars
  <2> QED
    BY <2>1, <2>2, <2>3
    DEF NothingRecordedToSend, NoResendOfRecorded, ScanSound, Idle
<1>3. CASE NextFile
  <2>1. /\ pc = "next" /\ pc' = "receive"
        /\ current' \in files /\ files' = files \ {current'}
        /\ UNCHANGED <<obj, recorded, sender>>
    BY <1>3 DEF NextFile, storeVars, senderVars
  <2>2. NoResendOfRecorded'
    BY <1>s, <2>1 DEF NoResendOfRecorded
  <2> QED
    BY <2>1, <2>2 DEF NothingRecordedToSend, ScanSound
<1>4. CASE Rescan \/ NextRun
  <2>1. /\ pc = "next" /\ pc' = "scan"
        /\ UNCHANGED <<obj, recorded, sender, files, current>>
    BY <1>4 DEF Rescan, NextRun, storeVars, senderVars
  <2> QED
    BY <2>1 DEF NothingRecordedToSend, ScanSound, NoResendOfRecorded
<1>5. CASE \/ AddCallback \/ HandshakeDone \/ RemoveCallback
           \/ OpenFile \/ OpenFails \/ Announce
  <2>1. /\ pc \in {"receive", "poll", "remove", "open", "announce"}
        /\ pc' \in {"poll", "remove", "open", "announce", "spawn"}
        /\ UNCHANGED <<obj, recorded, sender, files, current>>
    BY <1>5
    DEF AddCallback, HandshakeDone, RemoveCallback, OpenFile, OpenFails,
        Announce, storeVars, mainVars, senderVars
  <2> QED
    BY <2>1 DEF NothingRecordedToSend, ScanSound, NoResendOfRecorded
<1>6. CASE SpawnSenders
  <2>1. /\ pc = "spawn" /\ pc' = "join"
        /\ UNCHANGED <<obj, recorded, files, current>>
    BY <1>6 DEF SpawnSenders, storeVars
  <2> QED
    BY <2>1 DEF NothingRecordedToSend, ScanSound, NoResendOfRecorded
<1>7. CASE JoinSenders
  <2>1. /\ pc = "join" /\ pc' = "next"
        /\ \A t \in Senders : sender'[t].pc = "none"
        /\ UNCHANGED <<obj, recorded, files, current>>
    BY <1>7 DEF JoinSenders, storeVars, NotStarted
  <2> QED
    BY <2>1 DEF NothingRecordedToSend, ScanSound, NoResendOfRecorded
<1>8. ASSUME NEW t \in Senders,
             \/ \E result \in {"accepted", "timeout"} : SendRecord(t, result)
             \/ ReadFails(t) \/ SendNothing(t) \/ SentAll(t)
      PROVE  NothingRecordedToSend'
  <2>1. sender[t].pc = "send" /\ \A u \in Senders : u = t
    BY <1>0, <1>8 DEF SendRecord, ReadFails, SendNothing, SentAll, Sending
  <2> QED
    BY <1>8, <1>a, <2>1
    DEF SendRecord, ReadFails, SendNothing, SentAll, storeVars, mainVars
<1>9. ASSUME NEW t \in Senders, NoteInLedger(t)
      PROVE  NothingRecordedToSend'
  <2>1. /\ sender[t].pc = "ledger" /\ \A u \in Senders : u = t
        /\ current \in Files /\ pc = "join"
        /\ UNCHANGED <<pc, files, current, sender>>
    BY <1>0, <1>s, <1>9 DEF NoteInLedger, SendersJoined, mainVars, senderVars
  <2>2. recorded' \subseteq recorded \cup {current}
    BY <1>0, <1>9, <2>1, OnlyNameRecorded DEF NoteInLedger
  <2>3. obj'[0] = obj[0]
    BY <1>0, <1>9, <2>1, OwnCallOnly DEF NoteInLedger
  <2>4. NoResendOfRecorded'
    BY <2>1 DEF NoResendOfRecorded
  <2> QED
    BY <2>1, <2>2, <2>3, <2>4 DEF NothingRecordedToSend, ScanSound, Idle
<1>10. ASSUME NEW t \in Senders, SendBookkeeping(t)
       PROVE  NothingRecordedToSend'
  <2>1. /\ \A u \in Senders : u = t
        /\ UNCHANGED <<recorded, pc, files, current>>
    BY <1>0, <1>10 DEF SendBookkeeping, mainVars
  <2>2. obj'[0] = obj[0]
    BY <1>0, <1>10, OwnCallOnly DEF SendBookkeeping
  <2>3. sender'[t].pc = "done"
    BY <1>10 DEF SendBookkeeping, TypeOK, SenderStates
  <2> QED
    BY <2>1, <2>2, <2>3 DEF NothingRecordedToSend, ScanSound, NoResendOfRecorded
<1>11. ASSUME NEW m \in MsgIds, Callback(m) PROVE NothingRecordedToSend'
  BY <1>11, <1>a DEF Callback, storeVars, mainVars, senderVars
<1>12. CASE Terminate \/ Race \/ Crash \/ Request \/ Chatter
  BY <1>12, <1>a
  DEF Terminate, Race, Crash, Request, Chatter, storeVars, mainVars, senderVars
<1>13. CASE Restart
  <2>1. /\ pc' = "scan" /\ files' = {} /\ obj'[0] = Idle
        /\ \A t \in Senders : sender'[t].pc = "none"
    BY <1>0, <1>13 DEF Restart, StartPC, NotStarted
  <2> QED
    BY <2>1 DEF NothingRecordedToSend, ScanSound, NoResendOfRecorded, Idle
<1>14. CASE Age
  BY <1>14, <1>a DEF Age, StorageStep, mainVars, senderVars
<1>15. CASE UNCHANGED vars
  BY <1>15, <1>a DEF vars, storeVars, mainVars, senderVars
<1> QED
  BY <1>1, <1>2, <1>3, <1>4, <1>5, <1>6, <1>7, <1>8, <1>9, <1>10, <1>11,
     <1>12, <1>13, <1>14, <1>15
  DEF Next, Main, ChooseSource, Sender

LEMMA NothingRecordedAlways ==
  ASSUME Mode = "storage" PROVE Spec => []NothingRecordedToSend
<1>1. Init => NothingRecordedToSend
  <2> SUFFICES ASSUME Init PROVE NothingRecordedToSend
    OBVIOUS
  <2>1. obj[0] = Idle
    BY ConstantFacts DEF Init, InitStore
  <2> QED
    BY <2>1 DEF Init, StartPC, Idle, NotStarted, NothingRecordedToSend,
                ScanSound, NoResendOfRecorded
<1>2. TypeOK /\ SendersJoined /\ LedgerHolds /\ WritersAgree(Senders, current)
        /\ NothingRecordedToSend /\ [Next]_vars
        => NothingRecordedToSend'
  BY ResendStep
<1>3. TypeOK /\ SendersJoined /\ LedgerHolds /\ WritersAgree(Senders, current)
        /\ [Next]_vars
        => (LedgerHolds /\ WritersAgree(Senders, current))'
  BY LedgerStep
<1> QED
  BY <1>1, <1>2, <1>3, LedgerInit, TypeCorrect, PTL DEF Spec

\* Run from storage, the program never sends a recorded file again, whichever
\* steps it dies between, however old the list of the last scan is, and
\* whatever the ledger was when the program was first started.
THEOREM RecordedNotResent ==
  ASSUME Mode = "storage" PROVE Spec => []NoResendOfRecorded
<1>1. NothingRecordedToSend => NoResendOfRecorded
  BY DEF NothingRecordedToSend
<1> QED
  BY <1>1, NothingRecordedAlways, PTL

-----------------------------------------------------------------------------
(* From storage, the program keeps the promise of TransferLedger. *)

\* Once a scan got past the ledger it can be read, until a sender truncates
\* it, and then that sender has not written all of it yet.
LedgerReadable ==
  /\ pc # "scan" \/ obj[0].pc \in {"find", "built"} =>
       \/ json.kind \in {"list", "nokey", "notarray"}
       \/ \E t \in Senders : Rewriting(t)
  /\ \A t \in Senders : obj[t].pc = "wrest" => json.kind \in {"head", "list"}

\* Only Truncate leads to the flushes.
LEMMA NoFlushYet ==
  ASSUME StoreTypeOK, NEW t \in Threads, NEW name \in Files,
         \/ ConstructorStep(t) \/ WriteJSON(t, name) \/ ReadForWrite(t)
         \/ Forget(t)
  PROVE  ~Rewriting(t)'
<1>t. obj[t] \in Calls /\ DOMAIN obj = Threads
  BY DEF StoreTypeOK
<1> USE DEF Rewriting
<1>1. CASE Throw(t) \/ Forget(t)
  BY <1>1, <1>t DEF Throw, Forget, Idle
<1>2. CASE ConstructorStep(t) /\ ~Throw(t)
  BY <1>2, <1>t
  DEF ConstructorStep, ReadJSONStep, Construct, CheckMissing, CheckEmpty,
      CheckReady, ParseLedger, HDF5Find, HDF5FindNoStorage, Calls
<1>3. CASE WriteJSON(t, name)
  BY <1>3, <1>t DEF WriteJSON, Calls
<1>4. CASE ReadForWrite(t) /\ ~Throw(t)
  BY <1>4, <1>t DEF ReadForWrite, Calls
<1> QED
  BY <1>1, <1>2, <1>3, <1>4

\* From storage, every step keeps the ledger readable in this sense.
LEMMA ReadableStep ==
  ASSUME Mode = "storage", TypeOK, SendersJoined, NothingRecordedToSend,
         LedgerReadable, [Next]_vars
  PROVE  LedgerReadable'
<1>0. /\ StoreTypeOK /\ Senders \in SUBSET Threads /\ 0 \in Threads
      /\ Senders = {1} /\ 0 \notin Senders
  BY ConstantFacts DEF TypeOK, Senders
<1>s. pc # "join" => \A t \in Senders : obj[t].pc = "idle"
  BY IdleSenders DEF Idle
<1> USE DEF Rewriting
<1>a. ASSUME UNCHANGED <<json, obj>>, pc # "scan" \/ pc' = pc
      PROVE  LedgerReadable'
  BY <1>a DEF LedgerReadable
<1>1. CASE Scan
  <2>1. /\ pc = "scan" /\ UNCHANGED <<pc, json>>
        /\ \A t \in Senders : obj'[t] = obj[t]
    BY <1>0, <1>1, OwnCallOnly DEF Scan, mainVars
  <2>2. ASSUME obj'[0].pc \in {"find", "built"}
        PROVE  json.kind \in {"list", "nokey", "notarray"}
    <3>t. obj[0] \in Calls /\ DOMAIN obj = Threads
      BY <1>0 DEF StoreTypeOK
    <3>1. CASE Throw(0)
      BY <1>0, <2>2, <3>1, <3>t DEF Throw, Idle
    <3>2. CASE ParseLedger(0) /\ ~Throw(0)
      BY <3>2 DEF ParseLedger
    <3>3. CASE HDF5Find(0)
      BY <1>s, <2>1, <3>3 DEF HDF5Find, LedgerReadable
    <3>4. CASE (Construct(0) \/ CheckReady(0) \/ CheckEmpty(0)) /\ ~Throw(0)
      BY <1>0, <2>2, <3>4, <3>t DEF Construct, CheckReady, CheckEmpty, Calls
    <3> QED
      BY <1>1, <3>1, <3>2, <3>3, <3>4
      DEF Scan, ConstructorStep, ReadJSONStep, CheckMissing, HDF5FindNoStorage
  <2> QED
    BY <1>s, <2>1, <2>2 DEF LedgerReadable
<1>2. CASE Scanned
  <2>1. json.kind \in {"list", "nokey", "notarray"} /\ UNCHANGED json
    BY <1>s, <1>2 DEF Scanned, LedgerReadable
  <2>2. \A t \in Senders : obj'[t].pc = "idle"
    BY <1>0, <1>s, <1>2, OwnCallOnly DEF Scanned
  <2> QED
    BY <2>1, <2>2 DEF LedgerReadable
<1>3. CASE NextFile \/ Rescan \/ NextRun
  BY <1>3, <1>a DEF NextFile, Rescan, NextRun, storeVars
<1>4. CASE AddCallback \/ HandshakeDone \/ RemoveCallback
  BY <1>4, <1>a DEF AddCallback, HandshakeDone, RemoveCallback, storeVars
<1>5. CASE OpenFile \/ OpenFails \/ Announce
  BY <1>5, <1>a DEF OpenFile, OpenFails, Announce, storeVars, mainVars
<1>6. CASE SpawnSenders \/ JoinSenders
  BY <1>6, <1>a DEF SpawnSenders, JoinSenders, storeVars
<1>7. ASSUME NEW t \in Senders,
             \/ \E result \in {"accepted", "timeout"} : SendRecord(t, result)
             \/ ReadFails(t) \/ SendNothing(t) \/ SentAll(t)
      PROVE  LedgerReadable'
  BY <1>7, <1>a DEF SendRecord, ReadFails, SendNothing, SentAll, storeVars, mainVars
<1>8. ASSUME NEW t \in Senders, NoteInLedger(t) \/ SendBookkeeping(t)
      PROVE  LedgerReadable'
  <2>0. /\ t \in Threads /\ current \in Files
        /\ obj[t] \in Calls /\ DOMAIN obj = Threads
    BY <1>0, <1>8
    DEF NoteInLedger, SendBookkeeping, SendersJoined, StoreTypeOK
  <2>1. CASE Truncate(t)
    BY <1>0, <2>0, <2>1 DEF Truncate, LedgerReadable, Calls
  <2>2. CASE FlushHead(t)
    <3>1. obj'[t].pc = "wrest" /\ json'.kind \in {"head", "list"}
      BY <2>0, <2>2 DEF FlushHead, Put, Overlay, Ledger, Calls
    <3> QED
      BY <1>0, <3>1 DEF LedgerReadable
  <2>4. CASE Flush(t)
    <3>1. obj'[t].pc = "written"
      BY <2>0, <2>4 DEF Flush, Calls
    <3>2. json'.kind = "list"
      BY <2>4 DEF Flush, Put, Overlay, Ledger, LedgerReadable
    <3> QED
      BY <1>0, <3>1, <3>2 DEF LedgerReadable
  <2>3. CASE \/ ConstructorStep(t) \/ WriteJSON(t, current) \/ ReadForWrite(t)
             \/ Forget(t) /\ obj[t].pc = "written" /\ UNCHANGED json
    <3>1. ~Rewriting(t)
      BY <2>3 DEF ConstructorStep, ReadJSONStep, Construct, CheckMissing,
                  CheckEmpty, CheckReady, ParseLedger, HDF5Find,
                  HDF5FindNoStorage, WriteJSON, ReadForWrite
    <3>2. UNCHANGED json
      BY <1>0, <2>0, <2>3, OwnCallOnly DEF ReadForWrite
    <3>3. \A u \in Senders : ~Rewriting(u)
      BY <1>0, <3>1
    <3>4. pc = "join"
      BY <1>8 DEF NoteInLedger, SendBookkeeping, SendersJoined, NotStarted
    <3>5. \A u \in Senders : obj'[u].pc # "wrest"
      BY <1>0, <2>0, <2>3, NoFlushYet
    <3> QED
      BY <3>2, <3>3, <3>4, <3>5 DEF LedgerReadable
  <2> QED
    BY <1>8, <2>1, <2>2, <2>3, <2>4 DEF NoteInLedger, SendBookkeeping, WriterStep
<1>9. ASSUME NEW m \in MsgIds, Callback(m) PROVE LedgerReadable'
  BY <1>9, <1>a DEF Callback, storeVars, mainVars
<1>10. CASE Terminate \/ Race \/ Crash \/ Request \/ Chatter
  BY <1>10, <1>a
  DEF Terminate, Race, Crash, Request, Chatter, storeVars, mainVars
<1>11. CASE Restart
  BY <1>0, <1>11 DEF Restart, StartPC, Idle, LedgerReadable
<1>12. CASE Age
  BY <1>12, <1>a DEF Age, StorageStep, mainVars
<1>13. CASE UNCHANGED vars
  BY <1>13, <1>a DEF vars, storeVars, mainVars
<1> QED
  BY <1>1, <1>2, <1>3, <1>4, <1>5, <1>6, <1>7, <1>8, <1>9, <1>10, <1>11,
     <1>12, <1>13
  DEF Next, Main, ChooseSource, Sender

\* From storage, every step is a step of TransferLedger or a stutter.
LEMMA PromiseStep ==
  ASSUME Mode = "storage", TypeOK, SendersJoined, SendersOffered,
         WritersAgree(Senders, current), NothingRecordedToSend,
         LedgerReadable, [Next]_vars
  PROVE  [Promise!Next]_<<{f \in Files : WholeFileOffered(f)}, recorded, Torn>>
<1> USE DEF Rewriting
<1> DEFINE offered == {f \in Files : WholeFileOffered(f)}
           Goal == [Promise!Next]_<<offered, recorded, Torn>>
<1>0. /\ StoreTypeOK /\ Senders \in SUBSET Threads /\ 0 \in Threads
      /\ Senders = {1} /\ Threads = {0, 1}
  BY ConstantFacts DEF TypeOK, Senders
<1>a. ASSUME UNCHANGED <<fate, recorded, json>>, Writing' => Writing
      PROVE  Goal
  <2>1. offered' = offered
    BY <1>a DEF WholeFileOffered
  <2>2. Torn \in BOOLEAN /\ Torn' \in BOOLEAN /\ (Torn => Torn')
    BY <1>a DEF Torn
  <2> QED
    BY <1>a, <2>1, <2>2 DEF Promise!Next, Promise!Tear
<1>b. ASSUME UNCHANGED <<fate, recorded, json, obj>>, alive' => alive
      PROVE  Goal
  BY <1>a, <1>b DEF Writing
<1>c. ASSUME NEW t \in Threads, UNCHANGED <<fate, recorded, json, alive>>,
             \A u \in Threads \ {t} : obj'[u] = obj[u],
             ~Rewriting(t)'
      PROVE  Goal
  BY <1>a, <1>c DEF Writing
<1>n. ASSUME ~Torn, ~Torn' PROVE Torn' = Torn
  BY <1>n DEF Torn
<1>r. ASSUME NEW t \in Senders, ~Rewriting(t), pc = "join"
      PROVE  json.kind \in {"list", "nokey", "notarray"}
  BY <1>0, <1>r DEF LedgerReadable
<1>1. CASE Scan \/ Scanned
  <2>1. /\ UNCHANGED <<fate, recorded, json, alive>>
        /\ \A u \in Threads \ {0} : obj'[u] = obj[u]
    BY <1>0, <1>1, OwnCallOnly DEF Scan, Scanned, senderVars
  <2>2. ~Rewriting(0)'
    <3>1. Input \in Files
      BY ConstantFacts
    <3> QED
      BY <1>0, <1>1, <3>1, NoFlushYet DEF Scan, Scanned
  <2> QED
    BY <1>0, <1>c, <2>1, <2>2
<1>2. CASE NextFile \/ Rescan \/ NextRun
  BY <1>2, <1>b DEF NextFile, Rescan, NextRun, storeVars, senderVars
<1>3. CASE AddCallback \/ HandshakeDone \/ RemoveCallback
  BY <1>3, <1>b
  DEF AddCallback, HandshakeDone, RemoveCallback, storeVars, senderVars
<1>4. CASE OpenFile \/ OpenFails \/ Announce
  BY <1>4, <1>b DEF OpenFile, OpenFails, Announce, storeVars, senderVars
<1>5. CASE SpawnSenders \/ JoinSenders
  BY <1>5, <1>b DEF SpawnSenders, JoinSenders, storeVars
<1>6. ASSUME NEW t \in Senders,
             NEW result \in {"accepted", "timeout"}, SendRecord(t, result)
      PROVE  Goal
  <2>1. /\ alive /\ pc = "join" /\ sender[t].pc = "send"
        /\ UNCHANGED <<json, obj, recorded, alive, current>>
    BY <1>6 DEF SendRecord, Sending, storeVars, mainVars
  <2>2. ~Torn /\ ~Torn' /\ UNCHANGED Torn
    <3>1. obj[t].pc = "idle"
      BY <2>1, IdleSenders DEF Idle
    <3>2. ~Torn /\ ~Torn'
      BY <1>r, <2>1, <3>1 DEF Torn
    <3> QED
      BY <1>n, <3>2
  <2>3. current \notin recorded
    BY <2>1 DEF NothingRecordedToSend, NoResendOfRecorded
  <2>4. \A f \in Files : WholeFileOffered(f) => WholeFileOffered(f)'
    BY <1>6, OffersStay DEF Sources
  <2>5. ASSUME NEW f \in Files, f # current, WholeFileOffered(f)'
        PROVE  WholeFileOffered(f)
    <3>1. \A r \in 1..Records[f] :
            <<f, r>> \in RecordIds /\ <<f, r>> # <<current, sender[t].next>>
      BY <2>5, RecordIdFacts, ConstantFacts DEF Sources
    <3>2. \A r \in 1..Records[f] : fate'[<<f, r>>] = fate[<<f, r>>]
      BY <1>6, <3>1 DEF SendRecord, TypeOK
    <3>3. Records[f] > 0 /\ \A r \in 1..Records[f] : fate'[<<f, r>>] # "unsent"
      BY <2>5 DEF WholeFileOffered
    <3> QED
      BY <3>2, <3>3 DEF WholeFileOffered
  <2>6. CASE offered' = offered
    BY <2>1, <2>2, <2>6
  <2>7. CASE offered' # offered
    <3>1. current \in Files /\ offered' = offered \cup {current}
      BY <2>4, <2>5, <2>7
    <3> QED
      BY <2>1, <2>2, <2>3, <3>1 DEF Promise!Next, Promise!Offer
  <2> QED
    BY <2>6, <2>7
<1>7. ASSUME NEW t \in Senders, ReadFails(t) \/ SendNothing(t) \/ SentAll(t)
      PROVE  Goal
  BY <1>7, <1>b DEF ReadFails, SendNothing, SentAll, storeVars, senderVars
<1>8. ASSUME NEW t \in Senders, NoteInLedger(t) PROVE Goal
  <2>1. /\ alive /\ sender[t].pc = "ledger" /\ pc = "join"
        /\ t \in Threads /\ current \in Files
        /\ obj[t] \in Calls /\ DOMAIN obj = Threads
        /\ WholeFileOffered(current)
        /\ UNCHANGED <<alive, fate, current>>
    BY <1>0, <1>8
    DEF NoteInLedger, SendersJoined, NotStarted, SendersOffered, StoreTypeOK,
        mainVars, senderVars
  <2>2. offered' = offered
    BY <2>1 DEF WholeFileOffered
  <2>3. CASE ConstructorStep(t) \/ WriteJSON(t, current) \/ ReadForWrite(t)
    <3>1. UNCHANGED <<json, recorded>> /\ ~Rewriting(t)'
      BY <1>0, <2>1, <2>3, OwnCallOnly, NoFlushYet DEF ReadForWrite
    <3>2. \A u \in Threads \ {t} : obj'[u] = obj[u]
      BY <1>0, <2>1, <2>3, OwnCallOnly DEF WriterStep
    <3> QED
      BY <1>c, <2>1, <3>1, <3>2
  <2>4. CASE Truncate(t)
    <3>1. obj[t].pc = "wtrunc" /\ UNCHANGED recorded
      BY <2>4 DEF Truncate
    <3>2. obj'[t].pc = "wflush"
      BY <2>1, <2>4 DEF Truncate, Calls
    <3>3. ~Torn /\ ~Torn'
      BY <1>r, <2>1, <3>1, <3>2 DEF Torn, Writing
    <3> QED
      BY <1>n, <2>2, <3>1, <3>3
  <2>5. CASE FlushHead(t) \/ Flush(t)
    <3>1. Rewriting(t) /\ obj[t].data = recorded \cup {current}
      BY <2>5 DEF FlushHead, Flush, WritersAgree, HasRead
    <3>2. recorded' \in {recorded, recorded \cup {current}}
      <4>1. \E part : Put(t, part)
        BY <2>5 DEF FlushHead, Flush
      <4> QED
        BY <3>1, <4>1 DEF Put, Overlay, Ledger, LedgerHolds
    <3>3. json'.kind = "list" \/ Rewriting(t)'
      <4>1. CASE FlushHead(t)
        BY <2>1, <4>1 DEF FlushHead, Calls
      <4>2. CASE Flush(t)
        BY <4>2 DEF Flush, Put, Overlay, Ledger, LedgerReadable
      <4> QED
        BY <2>5, <4>1, <4>2
    <3>4. ~Torn /\ ~Torn'
      BY <2>1, <3>1, <3>3 DEF Torn, Writing
    <3>5. current \in offered
      BY <2>1
    <3>6. UNCHANGED Torn
      BY <1>n, <3>4
    <3> QED
      BY <2>1, <2>2, <3>2, <3>4, <3>5, <3>6 DEF Promise!Next, Promise!Record
  <2> QED
    BY <1>8, <2>3, <2>4, <2>5 DEF NoteInLedger, WriterStep
<1>9. ASSUME NEW t \in Senders, SendBookkeeping(t) PROVE Goal
  <2>1. /\ UNCHANGED <<fate, recorded, json, alive>> /\ t \in Threads
        /\ \A u \in Threads \ {t} : obj'[u] = obj[u]
    BY <1>0, <1>9, OwnCallOnly DEF SendBookkeeping
  <2>2. ~Rewriting(t)'
    <3>1. Input \in Files
      BY ConstantFacts
    <3> QED
      BY <1>0, <1>9, <2>1, <3>1, NoFlushYet DEF SendBookkeeping
  <2> QED
    BY <1>c, <2>1, <2>2
<1>10. ASSUME NEW m \in MsgIds, Callback(m) PROVE Goal
  BY <1>10, <1>b DEF Callback, storeVars, senderVars
<1>11. CASE Terminate \/ Race \/ Crash \/ Request \/ Chatter
  BY <1>11, <1>b
  DEF Terminate, Race, Crash, Request, Chatter, storeVars, senderVars
<1>12. CASE Restart
  <2>1. UNCHANGED <<fate, recorded, json>>
    BY <1>12 DEF Restart
  <2>2. ~Writing'
    BY <1>12 DEF Restart, Idle, Writing
  <2> QED
    BY <1>a, <2>1, <2>2
<1>13. CASE Age
  BY <1>13, <1>b DEF Age, StorageStep, senderVars
<1>14. CASE UNCHANGED vars
  BY <1>14, <1>b DEF vars, storeVars, senderVars
<1> QED
  BY <1>1, <1>2, <1>3, <1>4, <1>5, <1>6, <1>7, <1>8, <1>9, <1>10, <1>11,
     <1>12, <1>13, <1>14
  DEF Next, Main, ChooseSource, Sender

\* From storage, the lists of files and the ledger are in order in every
\* reachable state.
LEMMA ReadableAlways ==
  ASSUME Mode = "storage"
  PROVE  Spec => [](/\ LedgerHolds /\ WritersAgree(Senders, current)
                    /\ NothingRecordedToSend /\ LedgerReadable)
<1>1. Init => NothingRecordedToSend /\ LedgerReadable
  <2> SUFFICES ASSUME Init PROVE NothingRecordedToSend /\ LedgerReadable
    OBVIOUS
  <2>1. obj[0] = Idle /\ \A t \in Senders : obj[t] = Idle
    BY ConstantFacts DEF Init, InitStore, Senders
  <2>2. NothingRecordedToSend
    BY <2>1 DEF Init, StartPC, Idle, NotStarted, NothingRecordedToSend,
                ScanSound, NoResendOfRecorded
  <2>3. LedgerReadable
    BY <2>1 DEF Init, StartPC, Idle, LedgerReadable
  <2> QED
    BY <2>2, <2>3
<1>2. TypeOK /\ SendersJoined /\ LedgerHolds /\ WritersAgree(Senders, current)
        /\ [Next]_vars
        => (LedgerHolds /\ WritersAgree(Senders, current))'
  BY LedgerStep
<1>3. TypeOK /\ SendersJoined /\ LedgerHolds /\ WritersAgree(Senders, current)
        /\ NothingRecordedToSend /\ LedgerReadable /\ [Next]_vars
        => (NothingRecordedToSend /\ LedgerReadable)'
  BY ResendStep, ReadableStep
<1> QED
  BY <1>1, <1>2, <1>3, LedgerInit, TypeCorrect, PTL DEF Spec

\* Run from storage, the program implements TransferLedger: it records what it
\* offered, forgets nothing, offers nothing again that is recorded, and stops
\* for good at a torn ledger.
THEOREM KeepsPromise ==
  ASSUME Mode = "storage" PROVE Spec => LedgerPromise
<1>1. Init => Promise!Init
  <2> SUFFICES ASSUME Init PROVE Promise!Init
    OBVIOUS
  <2>1. \A f \in Files : ~WholeFileOffered(f)
    <3> SUFFICES ASSUME NEW f \in Files, WholeFileOffered(f) PROVE FALSE
      OBVIOUS
    <3>1. f \in Sources /\ Records[f] \in Nat /\ Records[f] > 0
      BY ConstantFacts DEF WholeFileOffered, Sources
    <3>2. <<f, 1>> \in RecordIds /\ 1 \in 1..Records[f]
      BY <3>1, RecordIdFacts
    <3> QED
      BY <3>2 DEF Init, WholeFileOffered
  <2>2. recorded \in {{}, FirstNames}
    BY DEF Init, InitStore, Ledger
  <2> QED
    BY <2>1, <2>2 DEF Promise!Init, Torn
<1>2. TypeOK /\ SendersJoined /\ SendersOffered
        /\ WritersAgree(Senders, current)
        /\ NothingRecordedToSend /\ LedgerReadable /\ [Next]_vars
        => [Promise!Next]_<<{f \in Files : WholeFileOffered(f)},
                            recorded, Torn>>
  BY PromiseStep
<1> QED
  BY <1>1, <1>2, ReadableAlways, TypeCorrect, OfferedAlways, PTL
  DEF Spec, LedgerPromise, Promise!Spec

-----------------------------------------------------------------------------
(* A torn ledger stops the dispatch. *)

\* With a torn ledger the program is dead or scans: it is neither sending nor
\* in the middle of a write, and a scan does not get past such a ledger.
LEMMA TornStep ==
  ASSUME Mode = "storage", TypeOK, SendersJoined, LedgerReadable, Torn,
         [Next]_vars
  PROVE  Torn' /\ fate' = fate
<1>0. /\ StoreTypeOK /\ Senders \in SUBSET Threads /\ 0 \in Threads
      /\ Threads = {0, 1} /\ 1 \in Senders
  BY ConstantFacts DEF TypeOK, Senders
<1>t. json.kind \in {"empty", "head", "tail"} /\ ~Writing
  BY DEF Torn
<1>s. alive => pc = "scan"
  BY <1>0, <1>t DEF Writing, LedgerReadable
<1>n. \A t \in Senders : alive => sender[t] = NotStarted
  BY <1>s DEF SendersJoined
<1>a. ASSUME UNCHANGED <<json, fate>>, ~Writing'
      PROVE  Torn' /\ fate' = fate
  BY <1>a, <1>t DEF Torn
<1>b. ASSUME UNCHANGED <<json, obj, fate>>, alive' => alive
      PROVE  Torn' /\ fate' = fate
  BY <1>a, <1>b, <1>t DEF Writing, Rewriting
<1>1. CASE Scan \/ Scanned
  <2>1. /\ UNCHANGED <<json, fate, alive>> /\ alive
        /\ \A u \in Threads \ {0} : obj'[u] = obj[u]
    BY <1>0, <1>1, OwnCallOnly DEF Scan, Scanned, senderVars
  <2>2. ~Rewriting(0)'
    <3>1. Input \in Files
      BY ConstantFacts
    <3> QED
      BY <1>0, <1>1, <3>1, NoFlushYet DEF Scan, Scanned
  <2>3. \A u \in Threads : ~Rewriting(u)'
    BY <1>t, <2>1, <2>2 DEF Writing, Rewriting
  <2> QED
    BY <1>a, <2>1, <2>3 DEF Writing
<1>2. CASE NextFile \/ Rescan \/ NextRun
  BY <1>2, <1>s DEF NextFile, Rescan, NextRun
<1>3. CASE AddCallback \/ HandshakeDone \/ RemoveCallback
  BY <1>3, <1>s DEF AddCallback, HandshakeDone, RemoveCallback
<1>4. CASE OpenFile \/ OpenFails \/ Announce \/ SpawnSenders \/ JoinSenders
  BY <1>4, <1>s
  DEF OpenFile, OpenFails, Announce, SpawnSenders, JoinSenders
<1>5. ASSUME NEW t \in Senders, Sender(t) PROVE FALSE
  <2>1. alive /\ sender[t].pc \in {"send", "ledger"}
    BY <1>5 DEF Sender, SendRecord, ReadFails, SendNothing, SentAll, Sending,
                NoteInLedger, SendBookkeeping
  <2> QED
    BY <1>n, <2>1 DEF NotStarted
<1>6. ASSUME NEW m \in MsgIds, Callback(m) PROVE FALSE
  BY <1>6, <1>s DEF Callback
<1>7. CASE Terminate \/ Race \/ Crash \/ Request \/ Chatter
  BY <1>7, <1>b
  DEF Terminate, Race, Crash, Request, Chatter, storeVars, senderVars
<1>8. CASE Restart
  <2>1. UNCHANGED <<json, fate>> /\ \A t \in Threads : obj'[t] = Idle
    BY <1>8 DEF Restart
  <2> QED
    BY <1>a, <2>1 DEF Writing, Rewriting, Idle
<1>9. CASE Age \/ UNCHANGED vars
  BY <1>9, <1>b DEF Age, StorageStep, vars, storeVars, senderVars
<1> QED
  BY <1>1, <1>2, <1>3, <1>4, <1>5, <1>6, <1>7, <1>8, <1>9
  DEF Next, Main, ChooseSource

\* From storage, a death inside the rewrite of the ledger stops the dispatch
\* until a person steps in, however often the program is started again.
THEOREM TornStops ==
  ASSUME Mode = "storage" PROVE Spec => TornLedgerStopsDispatch
<1>1. TypeOK /\ SendersJoined /\ LedgerReadable /\ [Next]_vars
        => [Torn => Torn' /\ fate' = fate]_vars
  BY TornStep
<1> QED
  BY <1>1, TypeCorrect, ReadableAlways, PTL DEF Spec, TornLedgerStopsDispatch

-----------------------------------------------------------------------------
(* One writer of the ledger. *)

HasName(f) == json.kind = "list" /\ f \in json.names

\* The name is in the ledger once a sender is through with it, and so from the
\* second run on: the further senders find it there and write nothing.
NoteOnce ==
  /\ obj[0].pc \notin Adding
  /\ Mode = "hdf5" /\ pc \notin {"scan", "next", "finished"} => current = Input
  /\ Mode = "hdf5" /\ run > 0 => HasName(Input)
  /\ \A t \in Senders :
       obj[t].pc = "written" \/ (sender[t].pc = "done" /\ current \in Files)
         => HasName(current)
  /\ \A t \in Senders : AtLedger(t) => trdispatchers <= 1
  /\ \A t \in Senders : obj[t].pc = "wflush" => json.kind = "empty"
  /\ \A t \in Senders : obj[t].pc = "wrest" => json.kind = "head"

\* The constructor leaves a thread in one of its own states.
LEMMA ConstructorPCs ==
  ASSUME StoreTypeOK, NEW t \in Threads, ConstructorStep(t)
  PROVE  obj'[t].pc \in {"check", "parse", "find", "built", "threw"}
<1>t. obj[t] \in Calls /\ DOMAIN obj = Threads
  BY DEF StoreTypeOK
<1>1. CASE Throw(t)
  BY <1>1, <1>t DEF Throw, Idle
<1>2. CASE ConstructorStep(t) /\ ~Throw(t)
  BY <1>2, <1>t
  DEF ConstructorStep, ReadJSONStep, Construct, CheckMissing, CheckEmpty,
      CheckReady, ParseLedger, HDF5Find, HDF5FindNoStorage, Calls
<1> QED
  BY <1>1, <1>2

\* Where there is a sender at the ledger it is the only one, unless the name is
\* in the ledger.
LEMMA SoleSender ==
  ASSUME TypeOK, Counts, SendersJoined, NoteOnce,
         NEW t \in Senders, sender[t].pc = "ledger"
  PROVE  /\ pc = "join" /\ t <= trdispatchers /\ current \in Files
         /\ trdispatchers <= 1 \/ HasName(current)
         /\ \A u \in Senders : AtLedger(u) => u = t
<1> USE ConstantFacts
<1>1. ASSUME NEW u \in Senders, sender[u].pc # "none"
      PROVE  pc = "join" /\ u <= trdispatchers
  <2>1. ~(pc # "join" \/ u > trdispatchers)
    BY <1>1 DEF SendersJoined, NotStarted
  <2>2. u \in Nat /\ trdispatchers \in Nat
    BY DEF TypeOK
  <2> QED
    BY <2>1, <2>2
<1>2. pc = "join" /\ t <= trdispatchers /\ current \in Files
  BY <1>1 DEF SendersJoined
<1>3. trdispatchers <= 1 \/ HasName(current)
  BY <1>2 DEF TypeOK, Counts, NoteOnce
<1>4. ASSUME NEW u \in Senders, AtLedger(u) PROVE u = t
  <2>1. sender[u].pc = "ledger"
    BY <1>4 DEF SendersJoined, AtLedger, Idle
  <2>2. u <= trdispatchers /\ trdispatchers <= 1
    BY <1>1, <1>4, <2>1 DEF NoteOnce
  <2> QED
    BY <1>2, <2>2 DEF TypeOK
<1> QED
  BY <1>2, <1>3, <1>4

\* Every step of a sender at the ledger.
LEMMA NoteOnceSender ==
  ASSUME TypeOK, Counts, SendersJoined, LedgerHolds,
         WritersAgree(Senders, current), NoteOnce,
         NEW t \in Senders, NoteInLedger(t)
  PROVE  NoteOnce'
<1>0. /\ StoreTypeOK /\ Senders \in SUBSET Threads /\ t \in Threads
      /\ obj[t] \in Calls /\ DOMAIN obj = Threads /\ t # 0 /\ 0 \in Threads
  BY ConstantFacts DEF TypeOK, StoreTypeOK, Senders
<1>1. /\ sender[t].pc = "ledger" /\ pc = "join" /\ current \in Files
      /\ trdispatchers <= 1 \/ HasName(current)
      /\ \A u \in Senders : AtLedger(u) => u = t
  BY SoleSender DEF NoteInLedger
<1>2. /\ \A u \in Threads \ {t} : obj'[u] = obj[u]
      /\ DOMAIN obj' = Threads
      /\ ConstructorStep(t) \/ WriteJSON(t, current) => UNCHANGED json
  BY <1>0, <1>1, OwnCallOnly DEF NoteInLedger
<1>3. UNCHANGED <<pc, run, current, trdispatchers, sender>>
  BY DEF NoteInLedger, mainVars, senderVars
<1>4. Mode = "hdf5" => current = Input
  BY <1>1 DEF NoteOnce
<1>5. ASSUME UNCHANGED json, obj'[t].pc = "written" => HasName(current),
             AtLedger(t)' => obj'[t].pc = "wtrunc" /\ trdispatchers <= 1
      PROVE  NoteOnce'
  BY <1>0, <1>1, <1>2, <1>3, <1>5 DEF NoteOnce, HasName, AtLedger
<1>6. CASE ConstructorStep(t) \/ WriteJSON(t, current)
  <2>1. obj'[t].pc \notin {"written", "wtrunc", "wflush", "wrest"}
    <3>1. CASE ConstructorStep(t)
      BY <1>0, <3>1, ConstructorPCs
    <3>2. CASE WriteJSON(t, current)
      BY <1>0, <3>2 DEF WriteJSON, Calls
    <3> QED
      BY <1>6, <3>1, <3>2
  <2> QED
    BY <1>2, <1>5, <1>6, <2>1 DEF AtLedger
<1>7. CASE ReadForWrite(t)
  <2>1. obj[t].adding = {current} /\ UNCHANGED json
    BY <1>7 DEF ReadForWrite, WritersAgree, Adding
  <2>2. CASE Throw(t)
    BY <1>0, <1>5, <2>1, <2>2 DEF Throw, Idle, AtLedger
  <2>3. CASE ~Throw(t) /\ current \in json.names
    <3>1. obj'[t].pc = "written" /\ json.kind \in {"list", "nokey"}
      BY <1>0, <1>7, <2>1, <2>3 DEF ReadForWrite, Calls
    <3>2. json.kind = "list"
      BY <2>3, <3>1 DEF LedgerHolds
    <3> QED
      BY <1>5, <2>1, <2>3, <3>1, <3>2 DEF AtLedger, HasName
  <2>4. CASE ~Throw(t) /\ current \notin json.names
    <3>1. obj'[t].pc = "wtrunc"
      BY <1>0, <1>7, <2>1, <2>4 DEF ReadForWrite, Calls
    <3> QED
      BY <1>1, <1>5, <2>1, <2>4, <3>1 DEF HasName
  <2> QED
    BY <2>2, <2>3, <2>4
<1>8. CASE Truncate(t) \/ FlushHead(t) \/ Flush(t)
  <2>1. AtLedger(t) /\ trdispatchers <= 1
    BY <1>8 DEF Truncate, FlushHead, Flush, AtLedger, NoteOnce
  <2>2. current \in obj[t].data
    BY <1>8 DEF Truncate, FlushHead, Flush, WritersAgree, HasRead
  <2>3. ~(Mode = "hdf5" /\ run > 0)
    BY <1>1, <2>1, ConstantFacts DEF Counts, TypeOK
  <2>7. t <= trdispatchers
    BY <1>1, SoleSender
  <2>4. ASSUME NEW u \in Senders, u # t
        PROVE  sender[u].pc = "none" /\ obj[u] = Idle
    <3>1. u > trdispatchers
      BY <2>1, <2>4, <2>7, ConstantFacts DEF TypeOK
    <3> QED
      BY <3>1 DEF SendersJoined, NotStarted
  <2>5. obj'[t].pc = "written" => HasName(current)'
    <3>1. CASE Flush(t)
      BY <1>0, <1>3, <2>2, <3>1
      DEF Flush, HasName, Put, Overlay, Ledger, NoteOnce
    <3>2. CASE Truncate(t) \/ FlushHead(t)
      BY <1>0, <3>2 DEF Truncate, FlushHead, Calls
    <3> QED
      BY <1>8, <3>1, <3>2
  <2>6. \A u \in Senders : u # t => obj'[u] = Idle /\ sender'[u].pc = "none"
    BY <1>0, <1>2, <1>3, <2>4
  <2>8. /\ obj'[t].pc = "wflush" => json'.kind = "empty"
        /\ obj'[t].pc = "wrest" => json'.kind = "head"
    <3>1. CASE Truncate(t)
      BY <1>0, <3>1 DEF Truncate, Ledger, Calls
    <3>2. CASE FlushHead(t)
      BY <1>0, <3>2 DEF FlushHead, Put, Overlay, Ledger, Calls, NoteOnce
    <3>3. CASE Flush(t)
      BY <1>0, <3>3 DEF Flush, Calls
    <3> QED
      BY <1>8, <3>1, <3>2, <3>3
  <2> QED
    BY <1>0, <1>1, <1>2, <1>3, <2>1, <2>3, <2>5, <2>6, <2>8
    DEF NoteOnce, Idle, AtLedger
<1> QED
  BY <1>6, <1>7, <1>8 DEF NoteInLedger, WriterStep

\* Every step keeps it.
LEMMA NoteOnceStep ==
  ASSUME TypeOK, Counts, SendersJoined, LedgerHolds,
         WritersAgree(Senders, current), NoteOnce, [Next]_vars
  PROVE  NoteOnce'
<1>0. /\ StoreTypeOK /\ Senders \in SUBSET Threads /\ 0 \in Threads
      /\ 0 \notin Senders
  BY ConstantFacts DEF TypeOK, Senders
<1>s. /\ pc # "join" => \A t \in Senders : obj[t] = Idle /\ sender[t].pc = "none"
      /\ \A t \in Senders : sender[t].pc # "ledger" => obj[t] = Idle
  BY DEF SendersJoined, NotStarted
<1>a. ASSUME UNCHANGED <<json, obj, current, run, trdispatchers, sender>>,
             pc \notin {"scan", "next", "finished"} \/ pc' = pc
      PROVE  NoteOnce'
  BY <1>a DEF NoteOnce, HasName, AtLedger
<1>b. ASSUME UNCHANGED <<json, run>>, obj'[0].pc \notin Adding,
             \A t \in Senders : obj'[t] = Idle /\ sender'[t].pc # "done",
             \/ pc' \in {"scan", "next", "finished"}
             \/ Mode = "hdf5" => current' = Input
      PROVE  NoteOnce'
  BY <1>b DEF NoteOnce, HasName, AtLedger, Idle
<1>1. CASE Scan
  <2>1. /\ UNCHANGED <<json, run, pc, sender>> /\ pc = "scan"
        /\ \A t \in Senders : obj'[t] = obj[t]
        /\ obj'[0].pc \notin Adding
    BY <1>0, <1>1, OwnCallOnly, ConstructorPCs
    DEF Scan, mainVars, senderVars, Adding, HasRead
  <2> QED
    BY <1>b, <1>s, <2>1
<1>2. CASE Scanned
  <2>1. /\ UNCHANGED <<json, run, sender>> /\ pc = "scan" /\ pc' = "next"
        /\ \A t \in Senders : obj'[t] = obj[t]
    BY <1>0, <1>2, OwnCallOnly DEF Scanned, senderVars
  <2>2. obj'[0] = Idle
    BY <1>0, <1>2 DEF Scanned, Forget, StoreTypeOK
  <2> QED
    BY <1>b, <1>s, <2>1, <2>2 DEF Idle, Adding, HasRead
<1>3. CASE NextFile \/ Rescan \/ NextRun
  <2>1. /\ UNCHANGED <<json, obj, run, sender>> /\ pc = "next"
        /\ \/ pc' \in {"scan", "next", "finished"}
           \/ Mode = "hdf5" => current' = Input
    BY <1>3 DEF NextFile, Rescan, NextRun, storeVars, senderVars
  <2> QED
    BY <1>b, <1>s, <2>1 DEF NoteOnce
<1>4. CASE AddCallback \/ HandshakeDone \/ RemoveCallback
  BY <1>4, <1>a
  DEF AddCallback, HandshakeDone, RemoveCallback, storeVars, senderVars
<1>5. CASE OpenFile \/ OpenFails \/ Announce
  BY <1>5, <1>a
  DEF OpenFile, OpenFails, Announce, storeVars, mainVars, senderVars
<1>6. CASE SpawnSenders
  <2>1. /\ UNCHANGED <<json, obj, run, current>> /\ pc = "spawn"
        /\ \A t \in Senders : sender'[t].pc # "done"
    BY <1>6, <1>s DEF SpawnSenders, storeVars
  <2> QED
    BY <1>b, <1>s, <2>1 DEF NoteOnce
<1>7. CASE JoinSenders
  <2>1. /\ UNCHANGED <<json, obj, current>> /\ pc' = "next"
        /\ \A t \in Senders : sender'[t].pc # "done"
    BY <1>7 DEF JoinSenders, storeVars, NotStarted
  <2>2. \A t \in Senders : sender[t].pc # "ledger"
    <3>1. ASSUME NEW t \in Senders, sender[t].pc = "ledger" PROVE FALSE
      <4>1. t \in 1..trdispatchers
        BY <3>1, ConstantFacts DEF SendersJoined, NotStarted, TypeOK
      <4> QED
        BY <1>7, <3>1, <4>1 DEF JoinSenders, Joined
    <3> QED
      BY <3>1
  <2>3. \A t \in Senders : obj[t] = Idle
    BY <1>s, <2>2
  <2>4. ASSUME Mode = "hdf5" PROVE HasName(Input)
    <3>0. pc = "join" /\ run \in Nat
      BY <1>7, ConstantFacts DEF JoinSenders, TypeOK
    <3>1. 1 \in Senders /\ 1 \in 1..trdispatchers /\ current = Input
      <4>1. trdispatchers = run + 1
        BY <2>4, <3>0 DEF Counts
      <4>2. current = Input
        BY <2>4, <3>0 DEF NoteOnce
      <4> QED
        BY <2>4, <3>0, <4>1, <4>2, ConstantFacts
    <3>2. sender[1].pc = "done"
      BY <1>7, <3>1 DEF JoinSenders, Joined
    <3> QED
      BY <3>1, <3>2, ConstantFacts DEF NoteOnce
  <2> QED
    BY <2>1, <2>3, <2>4 DEF NoteOnce, HasName, AtLedger, Idle
<1>8. ASSUME NEW t \in Senders,
             \/ \E result \in {"accepted", "timeout"} : SendRecord(t, result)
             \/ ReadFails(t) \/ SendNothing(t) \/ SentAll(t)
      PROVE  NoteOnce'
  <2>0. UNCHANGED <<storeVars, mainVars, trdispatchers>>
    BY <1>8 DEF SendRecord, ReadFails, SendNothing, SentAll, senderVars
  <2>s. \/ sender' = sender
        \/ \E x : sender' = [sender EXCEPT ![t] = x]
    BY <1>8 DEF SendRecord, ReadFails, SendNothing, SentAll, senderVars
  <2>1. /\ UNCHANGED <<json, obj, run, current, pc, trdispatchers>>
        /\ \A u \in Senders \ {t} : sender'[u] = sender[u]
    BY <2>0, <2>s DEF TypeOK, storeVars, mainVars
  <2>2. sender'[t].pc = "done" => current \notin Files
    <3>1. sender \in [Senders -> SenderStates] /\ sender[t].pc = "send"
      BY <1>8 DEF TypeOK, SendRecord, ReadFails, SendNothing, SentAll, Sending
    <3>2. CASE SentAll(t)
      BY <3>1, <3>2, ConstantFacts DEF SentAll, SenderStates
    <3>3. CASE \E result \in {"accepted", "timeout"} : SendRecord(t, result)
      BY <3>1, <3>3 DEF SendRecord, SenderStates
    <3>4. CASE ReadFails(t) \/ SendNothing(t)
      BY <3>1, <3>4 DEF ReadFails, SendNothing, senderVars
    <3> QED
      BY <1>8, <3>2, <3>3, <3>4
  <2> QED
    BY <2>1, <2>2 DEF NoteOnce, HasName, AtLedger
<1>9. ASSUME NEW t \in Senders, NoteInLedger(t) PROVE NoteOnce'
  BY <1>9, NoteOnceSender
<1>10. ASSUME NEW t \in Senders, SendBookkeeping(t) PROVE NoteOnce'
  <2>1. /\ UNCHANGED <<json, run, current, pc, trdispatchers>>
        /\ \A u \in Senders \ {t} : sender'[u] = sender[u]
        /\ \A u \in Threads \ {t} : obj'[u] = obj[u]
        /\ obj'[t] = Idle /\ HasName(current)
    BY <1>0, <1>10, OwnCallOnly
    DEF SendBookkeeping, mainVars, Forget, StoreTypeOK, NoteOnce
  <2> QED
    BY <1>0, <2>1 DEF NoteOnce, HasName, AtLedger, Idle
<1>11. ASSUME NEW m \in MsgIds, Callback(m) PROVE NoteOnce'
  BY <1>11, <1>a DEF Callback, storeVars, mainVars, senderVars
<1>12. CASE Terminate \/ Race \/ Crash \/ Request \/ Chatter
  BY <1>12, <1>a
  DEF Terminate, Race, Crash, Request, Chatter, storeVars, mainVars, senderVars
<1>13. CASE Restart
  <2>1. /\ UNCHANGED json /\ run' = 0 /\ pc' \in {"scan", "next"}
        /\ \A t \in Threads : obj'[t] = Idle
        /\ \A t \in Senders : sender'[t].pc = "none"
    BY <1>13 DEF Restart, StartPC, NotStarted
  <2> QED
    BY <1>0, <2>1 DEF NoteOnce, AtLedger, Idle, Adding, HasRead
<1>14. CASE Age
  BY <1>14, <1>a DEF Age, StorageStep, mainVars, senderVars
<1>15. CASE UNCHANGED vars
  BY <1>15, <1>a DEF vars, storeVars, mainVars, senderVars
<1> QED
  BY <1>1, <1>2, <1>3, <1>4, <1>5, <1>6, <1>7, <1>8, <1>9, <1>10, <1>11, <1>12,
     <1>13, <1>14, <1>15
  DEF Next, Main, ChooseSource, Sender

LEMMA NoteOnceAlways ==
  Spec => [](NoteOnce /\ LedgerHolds /\ WritersAgree(Senders, current))
<1>1. Init => NoteOnce
  <2> SUFFICES ASSUME Init PROVE NoteOnce
    OBVIOUS
  <2>1. /\ obj[0] = Idle /\ \A t \in Senders : obj[t] = Idle
        /\ \A t \in Senders : sender[t].pc = "none"
    BY ConstantFacts DEF Init, InitStore, Senders, NotStarted
  <2> QED
    BY <2>1 DEF Init, StartPC, Idle, NoteOnce, AtLedger, Adding, HasRead
<1>2. TypeOK /\ Counts /\ SendersJoined /\ LedgerHolds
        /\ WritersAgree(Senders, current) /\ NoteOnce /\ [Next]_vars
        => (NoteOnce /\ LedgerHolds /\ WritersAgree(Senders, current))'
  BY NoteOnceStep, LedgerStep
<1> QED
  BY <1>1, <1>2, LedgerInit, TypeCorrect, PTL DEF Spec

\* In every mode, with any number of runs and deaths anywhere, one thread at
\* most is between its reading of the ledger and the end of its writing.
THEOREM OneAtLedger == Spec => []OneWriterOfLedger
<1>1. TypeOK /\ Counts /\ SendersJoined /\ NoteOnce => OneWriterOfLedger
  <2> SUFFICES ASSUME TypeOK, Counts, SendersJoined, NoteOnce,
                      NEW t \in Threads, NEW u \in Threads,
                      AtLedger(t), AtLedger(u)
               PROVE  t = u
    BY DEF OneWriterOfLedger
  <2>1. t \in Senders /\ u \in Senders
    BY DEF NoteOnce, AtLedger, Adding, HasRead, Senders
  <2>2. sender[t].pc = "ledger"
    BY <2>1 DEF SendersJoined, AtLedger, Idle
  <2> QED
    BY <2>1, <2>2, SoleSender
<1> QED
  BY <1>1, TypeCorrect, NoteOnceAlways, PTL

-----------------------------------------------------------------------------
(* What ends the program. *)

\* Nothing but a data file ends it from outside: the ledger is there and can
\* be read, the storage stays and nobody kills the process.  Files may be
\* damaged or without records.
Undisturbed ==
  /\ FirstLedger \subseteq {"nokey", "list"}
  /\ ~StorageMayVanish /\ ~MayCrash

\* Nothing was thrown, and the ledger can be read unless its only writer is at
\* work; a death leaves it readable, for it comes when two senders are at work
\* or over a file that has no sound sender.
ReadableUnlessWriting ==
  /\ ~alive => trdispatchers >= 2 \/ ~Sound(current)
  /\ ~alive => json.kind \in {"nokey", "list"}
  /\ pc # "scan" => obj[0] = Idle
  /\ \A t \in Threads : obj[t].pc # "threw"
  /\ \/ json.kind \in {"nokey", "list"}
     \/ \E t \in Senders : Rewriting(t)

\* With a ledger that can be read a thread does not throw.
LEMMA NoThrow ==
  ASSUME StoreTypeOK, Undisturbed, NEW t \in Threads, obj[t].pc # "threw",
         obj[t].pc \in {"check", "parse", "wread"}
           => json.kind \in {"nokey", "list"},
         \/ ConstructorStep(t) \/ (\E f \in Files : WriteJSON(t, f))
         \/ WriterStep(t)
  PROVE  obj'[t].pc # "threw"
<1>t. obj[t] \in Calls /\ DOMAIN obj = Threads
  BY DEF StoreTypeOK
<1>1. CASE Construct(t) \/ CheckReady(t) \/ HDF5Find(t)
  BY <1>1, <1>t DEF Construct, CheckReady, HDF5Find, Calls
<1>2. CASE CheckMissing(t) \/ CheckEmpty(t) \/ HDF5FindNoStorage(t)
  BY <1>2 DEF CheckMissing, CheckEmpty, HDF5FindNoStorage, Undisturbed
<1>3. CASE ParseLedger(t)
  <2>1. obj' = [obj EXCEPT ![t] =
                  [@ EXCEPT !.pc = "find", !.already = json.names]]
    BY <1>3 DEF ParseLedger
  <2> QED
    BY <1>t, <2>1 DEF Calls
<1>4. ASSUME NEW f \in Files, WriteJSON(t, f) PROVE obj'[t].pc # "threw"
  BY <1>4, <1>t DEF WriteJSON, Calls
<1>5. CASE ReadForWrite(t)
  <2>1. json.kind \in {"nokey", "list"}
    BY <1>5 DEF ReadForWrite
  <2> QED
    BY <1>5, <1>t, <2>1 DEF ReadForWrite, Calls
<1>6. CASE Truncate(t) \/ FlushHead(t)
  BY <1>6, <1>t DEF Truncate, FlushHead, Calls
<1>7. CASE Flush(t)
  BY <1>7, <1>t DEF Flush, Calls
<1> QED
  BY <1>1, <1>2, <1>3, <1>4, <1>5, <1>6, <1>7
  DEF ConstructorStep, ReadJSONStep, WriterStep

\* A sender at the ledger.
LEMMA LedgerKeptByNote ==
  ASSUME Undisturbed, TypeOK, Counts, SendersJoined, NoteOnce,
         ReadableUnlessWriting, NEW t \in Senders, NoteInLedger(t)
  PROVE  ReadableUnlessWriting'
<1>0. /\ StoreTypeOK /\ Senders \in SUBSET Threads /\ t \in Threads
      /\ obj[t] \in Calls /\ DOMAIN obj = Threads /\ t # 0 /\ 0 \in Threads
      /\ UNCHANGED <<pc, alive, trdispatchers>> /\ alive
  BY ConstantFacts DEF TypeOK, StoreTypeOK, Senders, NoteInLedger, mainVars,
                       senderVars
<1>1. /\ sender[t].pc = "ledger" /\ current \in Files
      /\ \A u \in Senders : AtLedger(u) => u = t
  BY SoleSender DEF NoteInLedger
<1>2. /\ \A u \in Threads \ {t} : obj'[u] = obj[u]
      /\ ConstructorStep(t) \/ WriteJSON(t, current) => UNCHANGED json
  BY <1>0, <1>1, OwnCallOnly DEF NoteInLedger
<1>3. json.kind \in {"nokey", "list"} \/ Rewriting(t)
  BY <1>1 DEF ReadableUnlessWriting, AtLedger, Rewriting
<1>4. obj'[t].pc # "threw"
  <2>1. /\ obj[t].pc \in {"check", "parse", "wread"}
             => json.kind \in {"nokey", "list"}
        /\ obj[t].pc # "threw"
    BY <1>0, <1>3 DEF Rewriting, ReadableUnlessWriting
  <2>2. \/ ConstructorStep(t) \/ (\E f \in Files : WriteJSON(t, f))
        \/ WriterStep(t)
    BY <1>1 DEF NoteInLedger
  <2> QED
    BY <1>0, <2>1, <2>2, NoThrow
<1>5. json'.kind \in {"nokey", "list"} \/ Rewriting(t)'
  <2>1. CASE ConstructorStep(t) \/ WriteJSON(t, current) \/ ReadForWrite(t)
    <3>1. ~Rewriting(t)
      BY <1>0, <2>1, <1>1
      DEF ConstructorStep, ReadJSONStep, Construct, CheckMissing, CheckEmpty,
          CheckReady, ParseLedger, HDF5Find, HDF5FindNoStorage, WriteJSON,
          ReadForWrite, Rewriting
    <3>2. UNCHANGED json
      BY <1>2, <2>1 DEF ReadForWrite
    <3> QED
      BY <1>3, <3>1, <3>2
  <2>2. CASE Truncate(t) \/ FlushHead(t)
    BY <1>0, <2>2 DEF Truncate, FlushHead, Rewriting, Calls
  <2>3. CASE Flush(t)
    <3>1. json'.kind = "list"
      BY <2>3 DEF Flush, Put, Overlay, Ledger, NoteOnce
    <3> QED
      BY <3>1
  <2> QED
    BY <2>1, <2>2, <2>3 DEF NoteInLedger, WriterStep
<1> QED
  BY <1>0, <1>2, <1>4, <1>5
  DEF ReadableUnlessWriting

\* Every step keeps it.
LEMMA LedgerKeptStep ==
  ASSUME Undisturbed, TypeOK, Counts, SendersJoined, NoteOnce,
         ReadableUnlessWriting, [Next]_vars
  PROVE  ReadableUnlessWriting'
<1>0. /\ StoreTypeOK /\ Senders \in SUBSET Threads /\ 0 \in Threads
      /\ 0 \notin Senders /\ DOMAIN obj = Threads
      /\ ~MayCrash
  BY ConstantFacts DEF TypeOK, StoreTypeOK, Senders, Undisturbed
<1>a. ASSUME UNCHANGED <<json, obj, alive, trdispatchers>>,
             pc = "scan" => pc' = "scan", alive \/ current' = current
      PROVE  ReadableUnlessWriting'
  BY <1>a DEF ReadableUnlessWriting, Rewriting, Sound
<1>b. ASSUME alive, pc # "join"
      PROVE  /\ \A t \in Senders : obj[t] = Idle
             /\ json.kind \in {"nokey", "list"}
  BY <1>b DEF SendersJoined, NotStarted, ReadableUnlessWriting, Rewriting, Idle
<1>c. ASSUME NEW t \in Senders, sender[t].pc = "send"
      PROVE  json.kind \in {"nokey", "list"}
  <2>1. ASSUME NEW u \in Senders, Rewriting(u) PROVE FALSE
    <3>1. sender[u].pc = "ledger" /\ AtLedger(u)
      BY <2>1 DEF SendersJoined, Rewriting, AtLedger, Idle
    <3>2. u <= trdispatchers /\ trdispatchers <= 1
      BY <3>1, SoleSender DEF NoteOnce
    <3>3. ~(t > trdispatchers)
      BY <1>c DEF SendersJoined, NotStarted
    <3>4. t = u
      <4>1. t \in Nat \ {0} /\ u \in Nat \ {0} /\ trdispatchers \in Nat
        BY ConstantFacts DEF TypeOK
      <4> QED
        BY <3>2, <3>3, <4>1
    <3> QED
      BY <1>c, <3>1, <3>4
  <2> QED
    BY <2>1 DEF ReadableUnlessWriting
<1>1. CASE Scan
  <2>1. /\ UNCHANGED <<json, alive, pc>> /\ alive /\ pc = "scan"
        /\ \A t \in Threads \ {0} : obj'[t] = obj[t]
    BY <1>0, <1>1, OwnCallOnly DEF Scan, mainVars
  <2>2. obj'[0].pc # "threw"
    BY <1>0, <1>1, <1>b, <2>1, NoThrow DEF Scan, ReadableUnlessWriting
  <2> QED
    BY <1>b, <2>1, <2>2 DEF ReadableUnlessWriting
<1>2. CASE Scanned
  <2>1. /\ UNCHANGED <<json, alive>> /\ alive /\ pc = "scan"
        /\ \A t \in Threads \ {0} : obj'[t] = obj[t]
    BY <1>0, <1>2, OwnCallOnly DEF Scanned
  <2>2. obj'[0] = Idle
    BY <1>0, <1>2 DEF Scanned, Forget
  <2> QED
    BY <1>b, <2>1, <2>2
    DEF ReadableUnlessWriting, Idle
<1>3. CASE NextFile \/ Rescan \/ NextRun
  BY <1>3, <1>a DEF NextFile, Rescan, NextRun, storeVars, senderVars
<1>4. CASE AddCallback \/ HandshakeDone \/ RemoveCallback
  BY <1>4, <1>a
  DEF AddCallback, HandshakeDone, RemoveCallback, storeVars, senderVars
<1>5. CASE OpenFile \/ Announce
  BY <1>5, <1>a DEF OpenFile, Announce, storeVars, senderVars
<1>6. CASE SpawnSenders \/ JoinSenders
  <2>1. /\ UNCHANGED <<json, obj, alive>> /\ alive /\ pc # "scan"
    BY <1>6 DEF SpawnSenders, JoinSenders, storeVars
  <2> QED
    BY <2>1 DEF ReadableUnlessWriting, Rewriting
<1>7. CASE OpenFails \/ Crash
  <2>1. /\ UNCHANGED <<json, obj, pc, current>> /\ pc = "open" /\ alive
        /\ ~Sound(current)
    BY <1>0, <1>7 DEF OpenFails, Crash, Sound, storeVars, mainVars
  <2> QED
    BY <1>b, <2>1 DEF ReadableUnlessWriting, Sound
<1>8. ASSUME NEW t \in Senders,
             \/ \E result \in {"accepted", "timeout"} : SendRecord(t, result)
             \/ SentAll(t)
      PROVE  ReadableUnlessWriting'
  BY <1>8, <1>a DEF SendRecord, SentAll, storeVars, mainVars
<1>9. ASSUME NEW t \in Senders, ReadFails(t) \/ SendNothing(t)
      PROVE  ReadableUnlessWriting'
  <2>1. /\ UNCHANGED <<json, obj, pc, current>> /\ sender[t].pc = "send"
        /\ ~Sound(current)
    BY <1>9 DEF ReadFails, SendNothing, Sending, Sound, storeVars, mainVars
  <2> QED
    BY <1>c, <2>1 DEF ReadableUnlessWriting, Sound
<1>10. ASSUME NEW t \in Senders, NoteInLedger(t) PROVE ReadableUnlessWriting'
  BY <1>10, LedgerKeptByNote
<1>11. ASSUME NEW t \in Senders, SendBookkeeping(t)
       PROVE  ReadableUnlessWriting'
  <2>1. /\ UNCHANGED <<json, alive, pc>> /\ alive
        /\ obj[t].pc = "written" /\ obj'[t] = Idle
        /\ \A u \in Threads \ {t} : obj'[u] = obj[u]
    BY <1>0, <1>11, OwnCallOnly DEF SendBookkeeping, mainVars, Forget
  <2>2. \A u \in Senders : Rewriting(u) => Rewriting(u)'
    BY <1>0, <2>1 DEF Rewriting
  <2>3. obj'[0] = obj[0] /\ \A u \in Threads : obj'[u] \in {obj[u], Idle}
    BY <1>0, <2>1
  <2> QED
    BY <2>1, <2>2, <2>3
    DEF ReadableUnlessWriting, Idle
<1>12. ASSUME NEW m \in MsgIds, Callback(m) PROVE ReadableUnlessWriting'
  BY <1>12, <1>a DEF Callback, storeVars, mainVars, senderVars
<1>13. CASE Request \/ Chatter \/ Age
  BY <1>13, <1>a
  DEF Request, Chatter, Age, StorageStep, storeVars, mainVars, senderVars
<1>14. CASE Terminate
  BY <1>14 DEF Terminate, ReadableUnlessWriting
<1>15. CASE Race
  <2>1. PICK t \in Senders, u \in Senders :
          /\ t # u /\ sender[t].pc # "none" /\ sender[u].pc # "none"
    <3>1. PICK t \in Senders, u \in Senders :
            /\ t # u
            /\ {sender[t].pc, sender[u].pc} \subseteq {"send", "ledger"}
      BY <1>15 DEF Race
    <3> QED
      BY <3>1
  <2>2. ~(t > trdispatchers) /\ ~(u > trdispatchers)
    BY <2>1 DEF SendersJoined, NotStarted
  <2>3. trdispatchers >= 2
    <3>1. t \in Nat \ {0} /\ u \in Nat \ {0} /\ trdispatchers \in Nat
      BY ConstantFacts DEF TypeOK
    <3> QED
      BY <2>1, <2>2, <3>1
  <2>4. UNCHANGED <<json, obj, pc, trdispatchers>>
    BY <1>15 DEF Race, storeVars, mainVars, senderVars
  <2>5. json.kind \in {"nokey", "list"}
    <3>1. ~(trdispatchers <= 1)
      BY <2>3, ConstantFacts DEF TypeOK
    <3> QED
      BY <3>1 DEF ReadableUnlessWriting, NoteOnce, AtLedger, Rewriting
  <2> QED
    BY <2>3, <2>4, <2>5 DEF ReadableUnlessWriting
<1>16. CASE Restart
  <2>1. /\ UNCHANGED json /\ alive' = TRUE /\ ~alive
        /\ \A t \in Threads : obj'[t] = Idle
    BY <1>16 DEF Restart
  <2> QED
    BY <1>0, <2>1 DEF ReadableUnlessWriting, Idle
<1>17. CASE UNCHANGED vars
  BY <1>17, <1>a DEF vars, storeVars, mainVars, senderVars
<1> QED
  BY <1>1, <1>2, <1>3, <1>4, <1>5, <1>6, <1>7, <1>8, <1>9, <1>10, <1>11,
     <1>12, <1>13, <1>14, <1>15, <1>16, <1>17
  DEF Next, Main, ChooseSource, Sender

LEMMA ReadableUnlessWritingAlways ==
  ASSUME Undisturbed PROVE Spec => []ReadableUnlessWriting
<1>1. Init => ReadableUnlessWriting
  <2> SUFFICES ASSUME Init PROVE ReadableUnlessWriting
    OBVIOUS
  <2>1. /\ json.kind \in FirstLedger /\ \A t \in Threads : obj[t] = Idle
        /\ 0 \in Threads /\ alive
    BY ConstantFacts DEF Init, InitStore, Ledger
  <2>2. json.kind \in {"nokey", "list"}
    BY <2>1 DEF Undisturbed
  <2> QED
    BY <2>1, <2>2 DEF ReadableUnlessWriting, Idle
<1>2. TypeOK /\ Counts /\ SendersJoined /\ NoteOnce /\ ReadableUnlessWriting
        /\ [Next]_vars
        => ReadableUnlessWriting'
  BY LedgerKeptStep
<1> QED
  BY <1>1, <1>2, TypeCorrect, NoteOnceAlways, PTL DEF Spec

\* With a ledger that can be read at first, a storage that stays and nobody
\* that kills the program, no thread ever gets an exception from the ledger
\* class, and no death leaves a half-written ledger: in every mode, with any
\* number of runs, of stale senders and of files that are damaged or have no
\* records, and after any number of deaths from these.
THEOREM LedgerHarmless == ASSUME Undisturbed PROVE Spec => []LedgerNotFatal
<1>1. ReadableUnlessWriting => LedgerNotFatal
  BY DEF ReadableUnlessWriting, LedgerNotFatal, Torn
<1> QED
  BY <1>1, ReadableUnlessWritingAlways, PTL

-----------------------------------------------------------------------------
(* From storage, no record is offered twice. *)

\* What was offered of a sound source is of a file that is recorded, or of the
\* one at work.
OfferedByNow ==
  /\ pc \notin {"scan", "next"} => current \in Files
  /\ \A s \in Sources : Sound(s) => \A r \in 1..Records[s] :
       fate[<<s, r>>] # "unsent" =>
         \/ s \in recorded
         \/ /\ pc = "join" /\ s = current
            /\ \A t \in Senders : sender[t].pc = "send" => r < sender[t].next

\* What is recorded once stays recorded.
LEMMA RecordedStays ==
  ASSUME StoreTypeOK, NEW t \in Threads,
         \/ ConstructorStep(t) \/ (\E f \in Files : WriteJSON(t, f))
         \/ WriterStep(t)
  PROVE  recorded \subseteq recorded'
<1>1. CASE ConstructorStep(t) \/ (\E f \in Files : WriteJSON(t, f))
  BY <1>1, OwnCallOnly
<1>2. CASE WriterStep(t)
  BY <1>2
  DEF WriterStep, ReadForWrite, Truncate, FlushHead, Flush, Put
<1> QED
  BY <1>1, <1>2

\* Every step keeps it, if the program dies over a source that is not sound.
LEMMA OfferedByNowStep ==
  ASSUME Mode = "storage", ~alive => ~Sound(current), TypeOK, Counts, SendersJoined, LedgerHolds,
         NoteOnce, OfferedByNow, [Next]_vars
  PROVE  OfferedByNow'
<1>0. /\ StoreTypeOK /\ 0 \in Threads /\ Senders = {1} /\ 1 \in Threads
      /\ current \in Sources /\ Files \subseteq Sources
  BY ConstantFacts DEF TypeOK, Sources
<1>a. ASSUME UNCHANGED <<fate, current>>, recorded \subseteq recorded',
             pc' \notin {"scan", "next"} => pc \notin {"scan", "next"},
             pc = "join" => pc' = "join",
             \A t \in Senders : sender'[t].pc = "send" =>
                                  pc # "join" \/ sender' = sender
      PROVE  OfferedByNow'
  BY <1>a DEF OfferedByNow
<1>1. CASE Scan \/ Scanned
  <2>1. UNCHANGED <<recorded, sender, fate, current>> /\ pc = "scan"
        /\ pc' \in {"scan", "next"}
    BY <1>0, <1>1, OwnCallOnly DEF Scan, Scanned, mainVars, senderVars
  <2> QED
    BY <1>a, <2>1
<1>2. CASE NextFile
  <2>1. UNCHANGED <<recorded, fate>> /\ pc = "next" /\ current' \in Files
    BY <1>2 DEF NextFile, TypeOK, storeVars, senderVars
  <2> QED
    BY <2>1 DEF OfferedByNow
<1>3. CASE Rescan \/ NextRun
  BY <1>3, <1>a DEF Rescan, NextRun, storeVars, senderVars
<1>4. CASE AddCallback \/ HandshakeDone \/ RemoveCallback
  BY <1>4, <1>a
  DEF AddCallback, HandshakeDone, RemoveCallback, storeVars, senderVars
<1>5. CASE OpenFile \/ OpenFails \/ Announce \/ SpawnSenders
  BY <1>5, <1>a
  DEF OpenFile, OpenFails, Announce, SpawnSenders, storeVars, mainVars,
      senderVars
<1>6. CASE JoinSenders
  <2>1. /\ UNCHANGED <<recorded, fate, current>> /\ pc = "join" /\ pc' = "next"
        /\ Joined
    BY <1>6 DEF JoinSenders, storeVars
  <2>2. sender[1].pc = "done" /\ current \in Files
    <3>1. trdispatchers = 1
      BY <2>1 DEF Counts
    <3> QED
      BY <2>1, <3>1 DEF Joined, OfferedByNow
  <2>3. current \in recorded
    BY <1>0, <2>2 DEF NoteOnce, HasName, LedgerHolds
  <2> QED
    BY <2>1, <2>3 DEF OfferedByNow
<1>7. ASSUME NEW t \in Senders,
             NEW result \in {"accepted", "timeout"}, SendRecord(t, result)
      PROVE  OfferedByNow'
  <2>1. /\ UNCHANGED <<pc, current, recorded>> /\ pc = "join" /\ t = 1
        /\ fate' = [fate EXCEPT ![<<current, sender[1].next>>] =
                      IF @ = "accepted" THEN @ ELSE result]
        /\ sender[1].pc = "send"
    BY <1>0, <1>7 DEF SendRecord, Sending, storeVars, mainVars
  <2>2. /\ sender[1].next \in Nat /\ sender'[1].next = sender[1].next + 1
    BY <1>0, <1>7, <2>1 DEF SendRecord, TypeOK, SenderStates
  <2>3. ASSUME NEW s \in Sources, NEW r \in 1..Records[s],
               fate'[<<s, r>>] # "unsent", s \notin recorded, Sound(s)
        PROVE  s = current /\ r < sender'[1].next
    <3>1. <<s, r>> \in RecordIds
      BY RecordIdFacts, ConstantFacts
    <3>2. CASE <<s, r>> = <<current, sender[1].next>>
      BY <2>2, <3>2
    <3>3. CASE <<s, r>> # <<current, sender[1].next>>
      <4>1. fate[<<s, r>>] # "unsent"
        BY <2>1, <2>3, <3>1, <3>3 DEF TypeOK
      <4>2. s = current /\ r < sender[1].next
        BY <1>0, <2>1, <2>3, <4>1 DEF OfferedByNow
      <4>3. r \in Nat
        BY ConstantFacts
      <4> QED
        BY <2>2, <4>2, <4>3
    <3> QED
      BY <3>2, <3>3
  <2> QED
    BY <1>0, <2>1, <2>3 DEF OfferedByNow
<1>8. ASSUME NEW t \in Senders, ReadFails(t) \/ SendNothing(t) PROVE OfferedByNow'
  BY <1>8, <1>a DEF ReadFails, SendNothing, storeVars, mainVars, senderVars
<1>9. ASSUME NEW t \in Senders, SentAll(t) \/ SendBookkeeping(t)
      PROVE  OfferedByNow'
  <2>1. UNCHANGED <<recorded, fate, pc, current>>
    BY <1>9 DEF SentAll, SendBookkeeping, storeVars, mainVars
  <2>2. sender'[1].pc # "send"
    BY <1>0, <1>9 DEF SentAll, SendBookkeeping, TypeOK, SenderStates
  <2> QED
    BY <1>0, <1>a, <2>1, <2>2
<1>10. ASSUME NEW t \in Senders, NoteInLedger(t) PROVE OfferedByNow'
  <2>1. recorded \subseteq recorded'
    BY <1>0, <1>10, RecordedStays DEF NoteInLedger, SendersJoined
  <2> QED
    BY <1>10, <1>a, <2>1 DEF NoteInLedger, mainVars, senderVars
<1>11. ASSUME NEW m \in MsgIds, Callback(m) PROVE OfferedByNow'
  BY <1>11, <1>a DEF Callback, storeVars, mainVars, senderVars
<1>12. CASE Terminate \/ Race \/ Crash \/ Request \/ Chatter
  BY <1>12, <1>a
  DEF Terminate, Race, Crash, Request, Chatter, storeVars, mainVars, senderVars
<1>13. CASE Restart
  <2>1. UNCHANGED <<recorded, fate>> /\ pc' = "scan" /\ ~Sound(current)
    BY <1>13 DEF Restart, StartPC
  <2> QED
    BY <2>1 DEF OfferedByNow, Sound
<1>14. CASE Age \/ UNCHANGED vars
  BY <1>14, <1>a
  DEF Age, StorageStep, vars, storeVars, mainVars, senderVars
<1> QED
  BY <1>1, <1>2, <1>3, <1>4, <1>5, <1>6, <1>7, <1>8, <1>9, <1>10, <1>11,
     <1>12, <1>13, <1>14
  DEF Next, Main, ChooseSource, Sender

\* Run from storage with nothing from outside that ends it but its data files,
\* the program dies only over a file that is damaged or has no records, and it
\* offers each record of every other file once, over any number of such deaths
\* and restarts: such a file comes to its sender with none of its records
\* offered, and leaves it recorded.
THEOREM SoundFilesOfferedOnce ==
  ASSUME Mode = "storage", Undisturbed
  PROVE  Spec => [](SoundOfferedOnce /\ (~alive => ~Sound(current)))
<1>1. Init => OfferedByNow
  <2> SUFFICES ASSUME Init PROVE OfferedByNow
    OBVIOUS
  <2>1. ASSUME NEW s \in Sources, NEW r \in 1..Records[s]
        PROVE  fate[<<s, r>>] = "unsent"
    <3>1. <<s, r>> \in RecordIds
      BY DEF RecordIds
    <3> QED
      BY <3>1 DEF Init
  <2> QED
    BY <2>1 DEF Init, StartPC, OfferedByNow
<1>2. (~alive => ~Sound(current)) /\ TypeOK /\ Counts /\ SendersJoined
        /\ LedgerHolds /\ NoteOnce /\ OfferedByNow /\ [Next]_vars
        => OfferedByNow'
  BY OfferedByNowStep
<1>3. TypeOK /\ ReadableUnlessWriting => (~alive => ~Sound(current))
  BY ConstantFacts DEF TypeOK, ReadableUnlessWriting
<1>4. TypeOK /\ SendersJoined /\ NoResendOfRecorded /\ OfferedByNow
        => SoundOfferedOnce
  <2> SUFFICES ASSUME TypeOK, SendersJoined, NoResendOfRecorded, OfferedByNow,
                      NEW t \in Senders, sender[t].pc = "send",
                      Sound(current),
                      NEW r \in 1..Records[current], r >= sender[t].next
               PROVE  fate[<<current, r>>] = "unsent"
    BY DEF SoundOfferedOnce
  <2>1. current \notin recorded /\ current \in Sources
    BY DEF NoResendOfRecorded, TypeOK
  <2>2. sender[t].next \in Nat /\ r \in Nat
    BY ConstantFacts DEF TypeOK, SenderStates
  <2> QED
    BY <2>1, <2>2 DEF OfferedByNow
<1> QED
  BY <1>1, <1>2, <1>3, <1>4, TypeCorrect, NoteOnceAlways,
     RecordedNotResent, ReadableUnlessWritingAlways, PTL
  DEF Spec

-----------------------------------------------------------------------------
(* From storage, a file that cannot be sent bars the way for good. *)

\* The lists of the files to send hold files that are old enough, and a file
\* stays old.
OldLists ==
  /\ \A f \in files : storage[f] = "old"
  /\ obj[0].pc = "built" => \A f \in obj[0].to_transfer : storage[f] = "old"

LEMMA OldListsStep ==
  ASSUME TypeOK, SendersJoined, OldLists, [Next]_vars
  PROVE  OldLists'
<1>0. /\ StoreTypeOK /\ Senders \in SUBSET Threads /\ 0 \in Threads
      /\ 0 \notin Senders /\ obj[0] \in Calls /\ DOMAIN obj = Threads
  BY ConstantFacts DEF TypeOK, StoreTypeOK, Senders
<1>a. ASSUME files' \subseteq files, UNCHANGED <<obj, storage>> PROVE OldLists'
  BY <1>a DEF OldLists
<1>b. ASSUME UNCHANGED <<files, storage>>, obj'[0] = obj[0] PROVE OldLists'
  BY <1>b DEF OldLists
<1>1. CASE Scan
  <2>1. UNCHANGED <<files, storage>>
    BY <1>1
    DEF Scan, mainVars, ConstructorStep, ReadJSONStep, Construct, CheckMissing,
        CheckEmpty, CheckReady, ParseLedger, HDF5Find, HDF5FindNoStorage
  <2>2. CASE HDF5Find(0)
    <3>1. obj'[0].to_transfer \subseteq {f \in Files : storage[f] = "old"}
      BY <1>0, <2>2 DEF HDF5Find, Calls
    <3> QED
      BY <2>1, <3>1 DEF OldLists
  <2>3. CASE ConstructorStep(0) /\ ~HDF5Find(0)
    <3>1. CASE Throw(0)
      BY <1>0, <2>1, <3>1 DEF Throw, Idle, OldLists
    <3>2. CASE Construct(0) \/ CheckReady(0)
      BY <1>0, <2>1, <3>2 DEF Construct, CheckReady, Calls, OldLists
    <3>3. CASE CheckEmpty(0) /\ ~Throw(0)
      BY <1>0, <2>1, <3>3 DEF CheckEmpty, Calls, OldLists
    <3>4. CASE ParseLedger(0) /\ ~Throw(0)
      BY <1>0, <2>1, <3>4 DEF ParseLedger, Calls, OldLists
    <3> QED
      BY <2>3, <3>1, <3>2, <3>3, <3>4
      DEF ConstructorStep, ReadJSONStep, CheckMissing, HDF5FindNoStorage
  <2> QED
    BY <1>1, <2>2, <2>3 DEF Scan
<1>2. CASE Scanned
  BY <1>0, <1>2 DEF Scanned, Forget, Idle, OldLists
<1>3. CASE NextFile \/ Rescan \/ NextRun
  BY <1>3, <1>a DEF NextFile, Rescan, NextRun, storeVars
<1>4. CASE \/ AddCallback \/ HandshakeDone \/ RemoveCallback
           \/ OpenFile \/ OpenFails \/ Announce \/ SpawnSenders \/ JoinSenders
  BY <1>4, <1>a
  DEF AddCallback, HandshakeDone, RemoveCallback, OpenFile, OpenFails,
      Announce, SpawnSenders, JoinSenders, storeVars, mainVars
<1>5. ASSUME NEW t \in Senders,
             \/ \E result \in {"accepted", "timeout"} : SendRecord(t, result)
             \/ ReadFails(t) \/ SendNothing(t) \/ SentAll(t)
      PROVE  OldLists'
  BY <1>5, <1>a
  DEF SendRecord, ReadFails, SendNothing, SentAll, storeVars, mainVars
<1>6. ASSUME NEW t \in Senders, NoteInLedger(t) \/ SendBookkeeping(t)
      PROVE  OldLists'
  <2>1. obj'[0] = obj[0]
    BY <1>0, <1>6, OwnCallOnly
    DEF NoteInLedger, SendBookkeeping, SendersJoined
  <2>2. UNCHANGED <<files, storage>>
    BY <1>6
    DEF NoteInLedger, SendBookkeeping, mainVars, ConstructorStep, ReadJSONStep,
        Construct, CheckMissing, CheckEmpty, CheckReady, ParseLedger, HDF5Find,
        HDF5FindNoStorage, WriteJSON, WriterStep, ReadForWrite, Truncate,
        FlushHead, Flush, Put
  <2> QED
    BY <1>b, <2>1, <2>2
<1>7. ASSUME NEW m \in MsgIds, Callback(m) PROVE OldLists'
  BY <1>7, <1>a DEF Callback, storeVars, mainVars
<1>8. CASE Terminate \/ Race \/ Crash \/ Request \/ Chatter
  BY <1>8, <1>a
  DEF Terminate, Race, Crash, Request, Chatter, storeVars, mainVars
<1>9. CASE Restart
  BY <1>0, <1>9 DEF Restart, OldLists, Idle
<1>10. CASE Age
  <2>1. /\ UNCHANGED <<files, obj>>
        /\ \A f \in Files : storage[f] = "old" => storage'[f] = "old"
    BY <1>0, <1>10 DEF Age, StorageStep, mainVars, StoreTypeOK
  <2>2. files \subseteq Files /\ obj[0].to_transfer \subseteq Files
    BY <1>0 DEF TypeOK, Calls
  <2> QED
    BY <2>1, <2>2 DEF OldLists
<1>11. CASE UNCHANGED vars
  BY <1>11, <1>a DEF vars, storeVars, mainVars
<1> QED
  BY <1>1, <1>2, <1>3, <1>4, <1>5, <1>6, <1>7, <1>8, <1>9, <1>10, <1>11
  DEF Next, Main, ChooseSource, Sender

\* File f waits in the directory and in every list, or is the one at work, and
\* no later file comes before it.
Bars(f) ==
  /\ storage[f] = "old" /\ f \notin recorded
  /\ current <= f
  /\ pc = "scan" /\ obj[0].pc = "find" => f \notin obj[0].already
  /\ pc = "scan" /\ obj[0].pc = "built" => f \in obj[0].to_transfer
  /\ pc = "next" => f \in files
  /\ pc \notin {"scan", "next"} => f = current \/ f \in files
  /\ current = f => \A t \in Senders : sender[t].pc \in {"none", "send"}

\* Once a file that is not sound bars the way, it does so for ever.
LEMMA BarsStep ==
  ASSUME Mode = "storage", TypeOK, Counts, SendersJoined, LedgerHolds,
         WritersAgree(Senders, current), [Next]_vars,
         NEW f \in Files, ~Sound(f), Bars(f)
  PROVE  Bars(f)'
<1>0. /\ StoreTypeOK /\ Senders = {1} /\ 1 \in Threads /\ 0 \in Threads
      /\ obj[0] \in Calls /\ DOMAIN obj = Threads
  BY ConstantFacts DEF TypeOK, StoreTypeOK
<1>s. pc # "join" => \A t \in Senders : sender[t].pc = "none"
  BY DEF SendersJoined, NotStarted
<1>a. ASSUME UNCHANGED <<storage, obj, recorded, pc, files, current>>,
             current = f => \A t \in Senders : sender'[t].pc \in {"none", "send"}
      PROVE  Bars(f)'
  BY <1>a DEF Bars
<1>1. CASE Scan
  <2>1. UNCHANGED <<storage, recorded, pc, files, current, sender>>
    BY <1>0, <1>1, OwnCallOnly
    DEF Scan, mainVars, senderVars, ConstructorStep, ReadJSONStep, Construct,
        CheckMissing, CheckEmpty, CheckReady, ParseLedger, HDF5Find,
        HDF5FindNoStorage
  <2>2. /\ obj'[0].pc = "find" => f \notin obj'[0].already
        /\ obj'[0].pc = "built" => f \in obj'[0].to_transfer
    <3>1. CASE HDF5Find(0)
      <4>1. f \notin obj[0].already
        BY <1>1, <3>1 DEF HDF5Find, Bars, Scan
      <4> QED
        BY <1>0, <3>1, <4>1 DEF HDF5Find, Calls, Bars
    <3>2. CASE ParseLedger(0) /\ ~Throw(0)
      BY <1>0, <3>2 DEF ParseLedger, Calls, Bars, LedgerHolds
    <3>3. CASE Throw(0)
      BY <1>0, <3>3 DEF Throw, Idle
    <3>4. CASE Construct(0) \/ CheckReady(0)
      BY <1>0, <3>4 DEF Construct, CheckReady, Calls
    <3>5. CASE CheckEmpty(0) /\ ~Throw(0)
      BY <1>0, <3>5 DEF CheckEmpty, Calls
    <3> QED
      BY <1>1, <3>1, <3>2, <3>3, <3>4, <3>5
      DEF Scan, ConstructorStep, ReadJSONStep, CheckMissing, HDF5FindNoStorage
  <2> QED
    BY <2>1, <2>2 DEF Bars
<1>2. CASE Scanned
  <2>1. /\ f \in files' /\ pc' = "next"
        /\ UNCHANGED <<storage, recorded, current, sender>>
    BY <1>2 DEF Scanned, Bars, senderVars
  <2> QED
    BY <2>1 DEF Bars
<1>3. CASE NextFile
  <2>1. /\ f \in files /\ current' <= f /\ pc' = "receive"
        /\ f = current' \/ f \in files'
        /\ UNCHANGED <<storage, recorded, sender>> /\ pc = "next"
    BY <1>3 DEF NextFile, Bars, storeVars, senderVars
  <2> QED
    BY <1>s, <2>1 DEF Bars
<1>4. ~Rescan /\ ~NextRun
  BY DEF Rescan, NextRun, Bars
<1>5. CASE \/ AddCallback \/ HandshakeDone \/ RemoveCallback
           \/ OpenFile \/ OpenFails \/ Announce
  <2>1. /\ UNCHANGED <<storage, recorded, files, current, sender>>
        /\ pc \notin {"scan", "next"} /\ pc' \notin {"scan", "next"}
    BY <1>5
    DEF AddCallback, HandshakeDone, RemoveCallback, OpenFile, OpenFails,
        Announce, storeVars, mainVars, senderVars
  <2> QED
    BY <2>1 DEF Bars
<1>6. CASE SpawnSenders
  <2>1. /\ UNCHANGED <<storage, recorded, files, current>>
        /\ pc = "spawn" /\ pc' = "join"
        /\ \A t \in Senders : sender'[t].pc \in {"none", "send"}
    BY <1>6, <1>s DEF SpawnSenders, storeVars
  <2> QED
    BY <2>1 DEF Bars
<1>7. CASE JoinSenders
  <2>1. /\ UNCHANGED <<storage, recorded, files, current>>
        /\ pc = "join" /\ pc' = "next"
        /\ \A t \in Senders : sender'[t].pc = "none"
    BY <1>7 DEF JoinSenders, storeVars, NotStarted
  <2>2. sender[1].pc = "done"
    BY <1>7, <2>1 DEF JoinSenders, Joined, Counts
  <2> QED
    BY <1>0, <2>1, <2>2 DEF Bars
<1>8. ASSUME NEW t \in Senders,
             \/ \E result \in {"accepted", "timeout"} : SendRecord(t, result)
             \/ ReadFails(t) \/ SendNothing(t)
      PROVE  Bars(f)'
  <2>1. \A u \in Senders : sender'[u].pc = sender[u].pc
    BY <1>8
    DEF SendRecord, ReadFails, SendNothing, senderVars, TypeOK, SenderStates
  <2> QED
    BY <1>8, <1>a, <2>1
    DEF SendRecord, ReadFails, SendNothing, storeVars, mainVars, Bars
<1>9. ASSUME NEW t \in Senders, SentAll(t) PROVE Bars(f)'
  BY <1>9, <1>a DEF SentAll, Sound, storeVars, mainVars
<1>10. ASSUME NEW t \in Senders, NoteInLedger(t) \/ SendBookkeeping(t)
       PROVE  Bars(f)'
  <2>1. /\ t \in Threads \ {0} /\ sender[t].pc = "ledger" /\ current # f
        /\ current \in Files /\ UNCHANGED <<pc, files, current>>
    BY <1>0, <1>10
    DEF NoteInLedger, SendBookkeeping, Bars, SendersJoined, mainVars
  <2>2. recorded' \subseteq recorded \cup {current}
    BY <1>0, <1>10, <2>1, OnlyNameRecorded DEF NoteInLedger, SendBookkeeping
  <2>3. obj'[0] = obj[0]
    BY <1>0, <1>10, <2>1, OwnCallOnly DEF NoteInLedger, SendBookkeeping
  <2>4. UNCHANGED storage
    BY <1>10
    DEF NoteInLedger, SendBookkeeping, ConstructorStep, ReadJSONStep, Construct,
        CheckMissing, CheckEmpty, CheckReady, ParseLedger, HDF5Find,
        HDF5FindNoStorage, WriteJSON, WriterStep, ReadForWrite, Truncate,
        FlushHead, Flush, Put
  <2> QED
    BY <2>1, <2>2, <2>3, <2>4 DEF Bars
<1>11. ASSUME NEW m \in MsgIds, Callback(m) PROVE Bars(f)'
  BY <1>11, <1>a DEF Callback, storeVars, mainVars, senderVars, Bars
<1>12. CASE Terminate \/ Race \/ Crash \/ Request \/ Chatter
  BY <1>12, <1>a
  DEF Terminate, Race, Crash, Request, Chatter, storeVars, mainVars,
      senderVars, Bars
<1>13. CASE Restart
  <2>1. /\ UNCHANGED <<storage, recorded>> /\ pc' = "scan" /\ current' = Dummy
        /\ obj'[0] = Idle /\ \A t \in Senders : sender'[t].pc = "none"
    BY <1>0, <1>13 DEF Restart, StartPC, NotStarted
  <2>2. Dummy <= f
    BY ConstantFacts DEF Dummy
  <2> QED
    BY <2>1, <2>2 DEF Bars, Idle
<1>14. CASE Age
  <2>1. /\ UNCHANGED <<obj, recorded, pc, files, current, sender>>
        /\ storage'[f] = "old"
    BY <1>0, <1>14 DEF Age, StorageStep, mainVars, senderVars, StoreTypeOK, Bars
  <2> QED
    BY <2>1 DEF Bars
<1>15. CASE UNCHANGED vars
  BY <1>15, <1>a DEF vars, storeVars, mainVars, senderVars, Bars
<1> QED
  BY <1>1, <1>2, <1>3, <1>4, <1>5, <1>6, <1>7, <1>8, <1>9, <1>10, <1>11, <1>12,
     <1>13, <1>14, <1>15
  DEF Next, Main, ChooseSource, Sender

\* A file that is taken up bars the way from then on.
LEMMA TakenUpBars ==
  ASSUME Mode = "storage", TypeOK, Counts, SendersJoined, LedgerHolds,
         WritersAgree(Senders, current), NothingRecordedToSend, OldLists,
         [Next]_vars, NEW f \in Files, ~Sound(f), current = f => Bars(f)
  PROVE  (current = f => Bars(f))'
<1>1. CASE current = f
  BY <1>1, BarsStep
<1>2. CASE current # f /\ NextFile
  <2>1. /\ pc = "next" /\ pc' = "receive" /\ current' \in files
        /\ UNCHANGED <<storage, recorded, sender>>
    BY <1>2 DEF NextFile, storeVars, senderVars
  <2>2. \A t \in Senders : sender'[t].pc = "none"
    BY <2>1 DEF SendersJoined, NotStarted
  <2> QED
    BY <2>1, <2>2, ConstantFacts DEF NothingRecordedToSend, OldLists, Bars
<1>3. CASE current # f /\ ~NextFile
  <2>1. current' \in {current, Dummy}
    BY <1>3
    DEF Next, Main, ChooseSource, Scan, Scanned, Rescan, NextRun, AddCallback,
        HandshakeDone, RemoveCallback, OpenFile, OpenFails, Announce,
        SpawnSenders, JoinSenders, Sender, SendRecord, ReadFails, SendNothing,
        SentAll, NoteInLedger, SendBookkeeping, Callback, Terminate, Race,
        Crash, Restart, Request, Chatter, Age, mainVars, vars
  <2> QED
    BY <1>3, <2>1, ConstantFacts
<1> QED
  BY <1>1, <1>2, <1>3

\* Run from storage, with any set of files and whatever else ends the program:
\* once a file that is damaged or has no records was taken up, no file with a
\* later name ever is.
THEOREM BadFileBarsTheWay ==
  ASSUME Mode = "storage" PROVE Spec => BadFileStopsLater
<1>1. Init => OldLists
  <2>1. Init => files = {} /\ obj[0] = Idle
    BY ConstantFacts DEF Init, InitStore
  <2> QED
    BY <2>1 DEF OldLists, Idle
<1>2. TypeOK /\ SendersJoined /\ OldLists /\ [Next]_vars => OldLists'
  BY OldListsStep
<1>3. ASSUME NEW f \in Files, ~Sound(f)
      PROVE  Spec => [](current = f => [](current <= f))
  <2>1. Init => (current = f => Bars(f))
    BY ConstantFacts DEF Init
  <2>2. /\ TypeOK /\ Counts /\ SendersJoined /\ LedgerHolds
        /\ WritersAgree(Senders, current) /\ NothingRecordedToSend /\ OldLists
        /\ [Next]_vars /\ (current = f => Bars(f))
        => (current = f => Bars(f))'
    BY <1>3, TakenUpBars
  <2>3. /\ TypeOK /\ Counts /\ SendersJoined /\ LedgerHolds
        /\ WritersAgree(Senders, current) /\ [Next]_vars /\ Bars(f)
        => Bars(f)'
    BY <1>3, BarsStep
  <2>4. Bars(f) => current <= f
    BY DEF Bars
  <2> QED
    BY <1>1, <1>2, <2>1, <2>2, <2>3, <2>4, TypeCorrect, NoteOnceAlways,
       NothingRecordedAlways, PTL DEF Spec
<1> QED
  BY <1>3 DEF BadFileStopsLater
=============================================================================
