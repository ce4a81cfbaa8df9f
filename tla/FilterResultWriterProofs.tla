---------------------- MODULE FilterResultWriterProofs ----------------------
(***************************************************************************)
(* Proofs about FilterResultWriter, for every stream of records, paced or  *)
(* not, with writes that fail and with the race that ends the program.     *)
(***************************************************************************)
EXTENDS FilterResultWriter, TLAPS

-----------------------------------------------------------------------------
(* Types. *)

\* The records that were sent are those handed over and those in the queue.
Conserved == taken + Len(trs) = Len(sent)

Types == TypeOK /\ Conserved

LEMMA PathnameType ==
  ASSUME NEW record \in TriggerRecords, NEW index \in Indices
  PROVE  Pathname(record, index) \in Paths
<1>1. record.trigger \in Nat
  BY DEF TriggerRecords
<1>2. record.trigger % TriggerRange \in 0..TriggerRange - 1
  BY <1>1, FRWAssumption
<1> QED
  BY <1>2 DEF Pathname, Paths

LEMMA InitTypes == Init => Types
<1> SUFFICES ASSUME Init PROVE Types
  OBVIOUS
<1>1. TypeOK
  <2>1. /\ trs \in Seq(TriggerRecords) /\ sent \in Seq(TriggerRecords)
        /\ bookkeeping1 \in Seq(Indices) /\ announced \in Seq(Indices)
        /\ written \in Seq(TriggerRecords \X Indices)
    BY DEF Init
  <2>2. Len(sent) = 0
    BY DEF Init
  <2>3. /\ taken \in 0..Len(sent) /\ instructed \in 0..MaxInstructions
        /\ acks \in Nat /\ received_cnt \in Nat /\ attrs_cnt \in Nat
        /\ trwriter0 \in [MsgIds -> Nat]
        /\ m_file_index \in Indices
    BY <2>2, FRWAssumption DEF Init, Indices
  <2>4. /\ pc \in PCs /\ failed \in {<<>>} \cup (TriggerRecords \X Indices)
        /\ attrs \in {"register", "poll", "remove", "ended"}
        /\ writing \in {<<>>} \cup (TriggerRecords \X Indices)
        /\ ofile_pathname \in Paths \cup {NoPath}
        /\ named \in Paths \cup {NoPath, TornPath}
    BY DEF Init, PCs
  <2>5. /\ sub \in [msgs_received : Nat, complete : BOOLEAN]
        /\ disk \in [Paths -> TriggerRecords \cup {NoRecord, HalfWritten}]
    BY DEF Init, NewSubscriber
  <2> QED
    BY <2>1, <2>3, <2>4, <2>5 DEF TypeOK
<1>2. Conserved
  BY DEF Init, Conserved
<1> QED
  BY <1>1, <1>2 DEF Types

\* The steps of the main thread.
LEMMA MainTypes == Types /\ Main => Types'
<1> SUFFICES ASSUME TypeOK, Conserved, Main PROVE TypeOK' /\ Conserved'
  BY DEF Types
<1> USE DEF vars, ackVars, handshakeVars, attrsVars, recordVars, fileVars
<1>1. CASE AddCallback
  BY <1>1 DEF AddCallback, TypeOK, Conserved, PCs
<1>2. CASE HandshakeDone
  BY <1>2 DEF HandshakeDone, TypeOK, Conserved, PCs
<1>3. CASE Subscribe
  BY <1>3 DEF Subscribe, TypeOK, Conserved, PCs, NewSubscriber
<1>4. CASE SendAck
  <2>1. named' \in Paths \cup {NoPath, TornPath}
    BY <1>4 DEF SendAck, TypeOK
  <2> QED
    BY <1>4, <2>1 DEF SendAck, TypeOK, Conserved, PCs
<1>5. CASE AllDone
  BY <1>5 DEF AllDone, TypeOK, Conserved, PCs
<1>6. CASE RemoveRecordCallback
  BY <1>6 DEF RemoveRecordCallback, TypeOK, Conserved, PCs
<1>7. CASE RemoveCallback
  BY <1>7 DEF RemoveCallback, TypeOK, Conserved, PCs
<1> QED
  BY <1>1, <1>2, <1>3, <1>4, <1>5, <1>6, <1>7 DEF Main

\* The steps of the record callback.
LEMMA RecordTypes == Types /\ (RecvTR \/ WriteTR \/ FailWrite) => Types'
<1> SUFFICES ASSUME TypeOK, Conserved, RecvTR \/ WriteTR \/ FailWrite
             PROVE  TypeOK' /\ Conserved'
  BY DEF Types
<1> USE DEF ackVars, handshakeVars, attrsVars
<1>1. CASE RecvTR
  <2>0. TakeTR
    BY <1>1 DEF RecvTR
  <2>1. /\ Head(trs) \in TriggerRecords /\ Tail(trs) \in Seq(TriggerRecords)
        /\ Len(Tail(trs)) = Len(trs) - 1 /\ Len(trs) \in Nat /\ Len(sent) \in Nat
        /\ Len(trs) > 0
    BY <2>0 DEF TakeTR, TypeOK
  <2>2. Conserved' /\ taken' \in 0..Len(sent')
    BY <2>0, <2>1 DEF TakeTR, TypeOK, Conserved
  <2>3. sub' \in [msgs_received : Nat, complete : BOOLEAN]
    <3>1. sub' = [sub EXCEPT !.msgs_received = @ + 1]
      BY <2>0 DEF TakeTR
    <3>2. sub \in [msgs_received : Nat, complete : BOOLEAN]
      BY DEF TypeOK
    <3> QED
      BY <3>1, <3>2
  <2>4. /\ writing' \in {<<>>} \cup (TriggerRecords \X Indices)
        /\ ofile_pathname' \in Paths \cup {NoPath}
    <3>1. CASE StartWriting(Head(trs))
      BY <2>1, <3>1, PathnameType DEF StartWriting, TypeOK
    <3>2. CASE UNCHANGED <<writing, ofile_pathname>>
      BY <3>2 DEF TypeOK
    <3> QED
      BY <1>1, <3>1, <3>2 DEF RecvTR
  <2>5. UNCHANGED <<pc, ackVars, handshakeVars, attrsVars, sent, disk, written,
                    failed>>
    BY <2>0 DEF TakeTR
  <2>6. trs' \in Seq(TriggerRecords)
    BY <2>0, <2>1 DEF TakeTR
  <2>7. /\ trwriter0' \in [MsgIds -> Nat] /\ bookkeeping1' \in Seq(Indices)
        /\ pc' \in PCs /\ received_cnt' \in Nat
        /\ attrs' \in {"register", "poll", "remove", "ended"}
        /\ attrs_cnt' \in Nat /\ m_file_index' \in Indices
        /\ instructed' \in 0..MaxInstructions
    BY <2>5 DEF TypeOK
  <2>8. /\ disk' \in [Paths -> TriggerRecords \cup {NoRecord, HalfWritten}]
        /\ sent' \in Seq(TriggerRecords) /\ announced' \in Seq(Indices)
        /\ acks' \in Nat /\ named' \in Paths \cup {NoPath, TornPath}
        /\ written' \in Seq(TriggerRecords \X Indices)
        /\ failed' \in {<<>>} \cup (TriggerRecords \X Indices)
    BY <2>5 DEF TypeOK
  <2> QED
    BY <2>2, <2>3, <2>4, <2>6, <2>7, <2>8 DEF TypeOK
<1>2. CASE WriteTR
  <2>1. writing \in TriggerRecords \X Indices
    BY <1>2 DEF WriteTR, TypeOK
  <2>2. writing[1] \in TriggerRecords /\ writing[2] \in Indices
    BY <2>1
  <2>3. written' \in Seq(TriggerRecords \X Indices)
    BY <1>2, <2>1 DEF WriteTR, TypeOK
  <2>4. disk' \in [Paths -> TriggerRecords \cup {NoRecord, HalfWritten}]
    BY <1>2, <2>2 DEF WriteTR, TypeOK
  <2>5. sub' \in [msgs_received : Nat, complete : BOOLEAN]
    BY <1>2 DEF WriteTR, TypeOK
  <2> QED
    BY <1>2, <2>3, <2>4, <2>5 DEF WriteTR, TypeOK, Conserved
<1>3. CASE FailWrite
  <2>1. writing \in TriggerRecords \X Indices
    BY <1>3 DEF FailWrite, TypeOK
  <2>2. failed' \in {<<>>} \cup (TriggerRecords \X Indices)
    BY <1>3, <2>1 DEF FailWrite
  <2>3. disk' \in [Paths -> TriggerRecords \cup {NoRecord, HalfWritten}]
    BY <1>3 DEF FailWrite, TypeOK
  <2>4. pc' \in PCs
    BY <1>3 DEF FailWrite, TypeOK, PCs
  <2> QED
    BY <1>3, <2>2, <2>3, <2>4 DEF FailWrite, TypeOK, Conserved
<1> QED
  BY <1>1, <1>2, <1>3

\* Whatever the peer sends.
LEMMA DeliverTypes ==
  ASSUME Types, NEW record \in TriggerRecords, Deliver(record) PROVE Types'
<1> USE DEF Types, ackVars, handshakeVars, attrsVars, fileVars
<1>1. /\ Append(trs, record) \in Seq(TriggerRecords)
      /\ Append(sent, record) \in Seq(TriggerRecords)
      /\ Len(Append(trs, record)) = Len(trs) + 1
      /\ Len(Append(sent, record)) = Len(sent) + 1
      /\ Len(trs) \in Nat /\ Len(sent) \in Nat
  BY DEF TypeOK
<1>2. /\ trs' = Append(trs, record) /\ sent' = Append(sent, record)
      /\ UNCHANGED <<pc, ackVars, handshakeVars, attrsVars, sub, taken, fileVars>>
  BY DEF Deliver
<1>3. Conserved'
  BY <1>1, <1>2 DEF TypeOK, Conserved
<1>4. taken' \in 0..Len(sent')
  BY <1>1, <1>2 DEF TypeOK
<1> QED
  BY <1>1, <1>2, <1>3, <1>4 DEF TypeOK

LEMMA AnnounceTypes ==
  ASSUME Types, NEW index \in Indices, Announce(index) PROVE Types'
  BY DEF Announce, Types, TypeOK, Conserved, ackVars, handshakeVars, recordVars,
         fileVars

\* All other steps.
LEMMA OtherTypes ==
  ASSUME Types,
         \/ \E m \in MsgIds : Callback(m)
         \/ Race \/ Attrs \/ AttrsCallback
         \/ Instruct \/ SendTR \/ SendAttrs \/ Chatter
  PROVE  Types'
<1> USE DEF vars, ackVars, handshakeVars, attrsVars, recordVars, fileVars, Types
<1>1. ASSUME NEW m \in MsgIds, Callback(m) PROVE Types'
  BY <1>1 DEF Callback, TypeOK, Conserved
<1>2. CASE Race
  BY <1>2 DEF Race, TypeOK, Conserved, PCs
<1>3. CASE Attrs
  BY <1>3 DEF Attrs, AddAttrsCallback, AttrsDone, RemoveAttrsCallback, TypeOK,
              Conserved
<1>4. CASE AttrsCallback
  <2>1. Head(bookkeeping1) \in Indices /\ Tail(bookkeeping1) \in Seq(Indices)
    BY <1>4 DEF AttrsCallback, TypeOK
  <2> QED
    BY <1>4, <2>1 DEF AttrsCallback, TypeOK, Conserved
<1>5. CASE Instruct
  BY <1>5, FRWAssumption DEF Instruct, TypeOK, Conserved, MsgIds
<1>6. CASE SendTR
  <2>1. NextTR \in TriggerRecords
    BY <1>6, FRWAssumption DEF SendTR, MoreToSend, NextTR, TypeOK
  <2> QED
    BY <1>6, <2>1, DeliverTypes DEF SendTR
<1>7. CASE SendAttrs
  BY <1>7, AnnounceTypes DEF SendAttrs
<1>8. CASE Chatter
  BY <1>8 DEF Chatter, TypeOK, Conserved, MsgIds
<1> QED
  BY <1>1, <1>2, <1>3, <1>4, <1>5, <1>6, <1>7, <1>8

LEMMA StepTypes == Types /\ [Next]_vars => Types'
<1> SUFFICES ASSUME Types, [Next]_vars PROVE Types'
  OBVIOUS
<1>1. CASE UNCHANGED vars
  BY <1>1 DEF vars, ackVars, handshakeVars, attrsVars, recordVars, fileVars,
              Types, TypeOK, Conserved
<1>2. CASE Next
  BY <1>2, MainTypes, RecordTypes, OtherTypes DEF Next
<1> QED
  BY <1>1, <1>2

LEMMA AlwaysTypes == Spec => []Types
BY InitTypes, StepTypes, PTL DEF Spec

\* Every variable stays in its range, and the records sent are those handed to
\* the callback and those in the queue, whatever arrives in whatever order.
THEOREM TypeCorrect == Spec => [](TypeOK /\ Conserved)
BY AlwaysTypes, PTL DEF Types

-----------------------------------------------------------------------------
(* One write per instruction. *)

\* Records written or being written, and the writes still to come that the
\* instructions counted so far allow.
Writes == Len(written) + (IF writing = <<>> THEN 0 ELSE 1)

Credit ==
  IF pc = "poll" THEN received_cnt
  ELSE IF pc = "subscribe" THEN 1
  ELSE IF pc \in {"ack", "wait", "removetr"} /\ sub.msgs_received < NumMessages
    THEN 1 ELSE 0

Covered == Writes + Credit <= instructed - trwriter0["write_tr"]

LEMMA BalanceType ==
  ASSUME TypeOK
  PROVE  Writes \in Nat /\ Credit \in Nat
<1>1. Len(written) \in Nat /\ received_cnt \in Nat
  BY DEF TypeOK
<1>2. Writes = Len(written) \/ Writes = Len(written) + 1
  BY <1>1 DEF Writes
<1>3. Credit = received_cnt \/ Credit = 1 \/ Credit = 0
  BY DEF Credit
<1> QED
  BY <1>1, <1>2, <1>3

LEMMA InitCovered == Init => Covered
BY FRWAssumption DEF Init, Covered, Writes, Credit, MsgIds

LEMMA MainCovered == ASSUME TypeOK, Covered, Main PROVE Covered'
<1> USE DEF ackVars, handshakeVars, attrsVars, recordVars, fileVars
<1>0. /\ Len(written) \in Nat /\ received_cnt \in Nat /\ instructed \in Nat
      /\ trwriter0["write_tr"] \in Nat /\ NumMessages \in Nat \ {0}
      /\ sub.msgs_received \in Nat
  BY FRWAssumption DEF TypeOK, MsgIds
<1>1. CASE AddCallback
  BY <1>0, <1>1 DEF AddCallback, Covered, Writes, Credit
<1>2. CASE HandshakeDone
  <2>1. /\ pc = "poll" /\ pc' = "subscribe" /\ received_cnt = 1
        /\ UNCHANGED <<writing, written, instructed, trwriter0>>
    BY <1>2 DEF HandshakeDone
  <2>2. Writes' = Writes /\ Credit' = Credit
    BY <2>1 DEF Writes, Credit
  <2> QED
    BY <2>1, <2>2 DEF Covered
<1>3. CASE Subscribe
  <2>1. /\ pc = "subscribe" /\ pc' = "ack" /\ sub' = NewSubscriber
        /\ UNCHANGED <<writing, written, instructed, trwriter0>>
    BY <1>3 DEF Subscribe
  <2>2. sub'.msgs_received = 0
    BY <2>1 DEF NewSubscriber
  <2>3. Writes' = Writes /\ Credit' = Credit
    BY <1>0, <2>1, <2>2 DEF Writes, Credit
  <2> QED
    BY <2>1, <2>3 DEF Covered
<1>4. CASE SendAck
  <2>1. UNCHANGED <<received_cnt, sub, writing, written, instructed, trwriter0>>
    BY <1>4 DEF SendAck
  <2>2. pc = "ack" /\ pc' = "wait"
    BY <1>4 DEF SendAck
  <2>3. Writes' = Writes /\ Credit' = Credit
    BY <2>1, <2>2 DEF Writes, Credit
  <2> QED
    BY <2>1, <2>3 DEF Covered
<1>5. CASE AllDone
  BY <1>0, <1>5 DEF AllDone, Covered, Writes, Credit
<1>6. CASE RemoveRecordCallback
  BY <1>0, <1>6 DEF RemoveRecordCallback, Covered, Writes, Credit
<1>7. CASE RemoveCallback
  BY <1>0, <1>7 DEF RemoveCallback, Covered, Writes, Credit
<1> QED
  BY <1>1, <1>2, <1>3, <1>4, <1>5, <1>6, <1>7 DEF Main

LEMMA RecordCovered ==
  ASSUME TypeOK, Covered, RecvTR \/ WriteTR \/ FailWrite
  PROVE  Covered'
<1> USE DEF ackVars, handshakeVars, attrsVars
<1>0. /\ Len(written) \in Nat /\ received_cnt \in Nat /\ instructed \in Nat
      /\ trwriter0["write_tr"] \in Nat /\ NumMessages \in Nat \ {0}
      /\ sub.msgs_received \in Nat
  BY FRWAssumption DEF TypeOK, MsgIds
<1>1. CASE RecvTR
  <2>1. /\ pc \in {"ack", "wait", "removetr"} /\ writing = <<>>
        /\ UNCHANGED <<pc, written, instructed, trwriter0, received_cnt>>
    BY <1>1 DEF RecvTR, TakeTR
  <2>2. sub'.msgs_received = sub.msgs_received + 1
    <3>1. sub' = [sub EXCEPT !.msgs_received = @ + 1]
      BY <1>1 DEF RecvTR, TakeTR
    <3>2. sub \in [msgs_received : Nat, complete : BOOLEAN]
      BY DEF TypeOK
    <3> QED
      BY <3>1, <3>2
  <2>3. CASE sub'.msgs_received = NumMessages
    <3>1. Credit = 1 /\ Credit' = 0
      BY <1>0, <2>1, <2>2, <2>3 DEF Credit
    <3>2. Writes = Len(written) /\ (Writes' = Writes \/ Writes' = Writes + 1)
      BY <1>0, <2>1 DEF Writes
    <3> QED
      BY <1>0, <2>1, <3>1, <3>2, BalanceType DEF Covered
  <2>4. CASE sub'.msgs_received # NumMessages
    <3>1. writing' = writing
      BY <1>1, <2>4 DEF RecvTR
    <3> QED
      BY <1>0, <2>1, <2>2, <2>4, <3>1 DEF Covered, Writes, Credit
  <2> QED
    BY <2>3, <2>4
<1>2. CASE WriteTR
  <2>1. /\ writing # <<>> /\ writing' = <<>>
        /\ UNCHANGED <<pc, instructed, trwriter0, received_cnt>>
    BY <1>2 DEF WriteTR
  <2>2. Len(written') = Len(written) + 1
    BY <1>2 DEF WriteTR, TypeOK
  <2>3. sub'.msgs_received = sub.msgs_received
    BY <1>2 DEF WriteTR, TypeOK
  <2> QED
    BY <1>0, <2>1, <2>2, <2>3 DEF Covered, Writes, Credit
<1>3. CASE FailWrite
  BY <1>0, <1>3 DEF FailWrite, Covered, Writes, Credit
<1> QED
  BY <1>1, <1>2, <1>3

LEMMA OtherCovered ==
  ASSUME TypeOK, Covered,
         \/ \E m \in MsgIds : Callback(m)
         \/ Race \/ Attrs \/ AttrsCallback
         \/ Instruct \/ SendTR \/ SendAttrs \/ Chatter
  PROVE  Covered'
<1> USE DEF ackVars, handshakeVars, attrsVars, recordVars, fileVars
<1>0. /\ Len(written) \in Nat /\ received_cnt \in Nat /\ instructed \in Nat
      /\ trwriter0["write_tr"] \in Nat /\ trwriter0 \in [MsgIds -> Nat]
      /\ "write_tr" \in MsgIds
  BY DEF TypeOK, MsgIds
<1>c. /\ Writes \in Nat /\ Credit \in Nat
      /\ Writes + Credit <= instructed - trwriter0["write_tr"]
  BY BalanceType DEF Covered
<1>1. ASSUME NEW m \in MsgIds, Callback(m) PROVE Covered'
  <2>0. /\ trwriter0' = [trwriter0 EXCEPT ![m] = @ - 1]
        /\ received_cnt' = IF m = "write_tr" THEN received_cnt + 1
                                             ELSE received_cnt
        /\ UNCHANGED <<pc, sub, writing, written, instructed>>
    BY <1>1 DEF Callback
  <2>1. CASE m = "write_tr"
    <3>1. trwriter0'["write_tr"] = trwriter0["write_tr"] - 1
      BY <1>0, <2>0, <2>1
    <3>2. Writes' = Writes
      BY <2>0 DEF Writes
    <3>3. Credit' = Credit \/ Credit' = Credit + 1
      BY <1>0, <2>0, <2>1 DEF Credit
    <3> QED
      BY <1>0, <1>c, <2>0, <3>1, <3>2, <3>3 DEF Covered
  <2>2. CASE m # "write_tr"
    <3>1. trwriter0'["write_tr"] = trwriter0["write_tr"]
      BY <1>0, <2>0, <2>2
    <3>2. Writes' = Writes /\ Credit' = Credit
      BY <2>0, <2>2 DEF Writes, Credit
    <3> QED
      BY <1>c, <2>0, <3>1, <3>2 DEF Covered
  <2> QED
    BY <2>1, <2>2
<1>2. CASE Race
  BY <1>0, <1>2 DEF Race, Covered, Writes, Credit
<1>3. CASE Attrs \/ AttrsCallback
  BY <1>3 DEF Attrs, AddAttrsCallback, AttrsDone, RemoveAttrsCallback,
              AttrsCallback, Covered, Writes, Credit
<1>4. CASE Instruct
  <2>0. /\ trwriter0' = [trwriter0 EXCEPT !["write_tr"] = @ + 1]
        /\ instructed' = instructed + 1
        /\ UNCHANGED <<pc, sub, writing, written, received_cnt>>
    BY <1>4 DEF Instruct
  <2>1. trwriter0'["write_tr"] = trwriter0["write_tr"] + 1
    BY <1>0, <2>0
  <2>2. Writes' = Writes /\ Credit' = Credit
    BY <2>0 DEF Writes, Credit
  <2> QED
    BY <1>0, <1>c, <2>0, <2>1, <2>2 DEF Covered
<1>5. CASE SendTR \/ SendAttrs
  BY <1>5 DEF SendTR, SendAttrs, Deliver, Announce, Covered, Writes, Credit
<1>6. CASE Chatter
  <2>0. /\ trwriter0' = [trwriter0 EXCEPT !["other"] = @ + 1]
        /\ UNCHANGED <<pc, sub, writing, written, received_cnt, instructed>>
    BY <1>6 DEF Chatter
  <2>1. trwriter0'["write_tr"] = trwriter0["write_tr"]
    BY <1>0, <2>0
  <2> QED
    BY <2>0, <2>1 DEF Covered, Writes, Credit
<1> QED
  BY <1>1, <1>2, <1>3, <1>4, <1>5, <1>6

\* Every record that is written has a received instruction of its own, for
\* every stream and however the instructions pile up in a round: a surplus is
\* counted by the round it comes in and never by the next.
THEOREM WritesAreInstructed == Spec => []OneWritePerInstruction
<1>1. TypeOK /\ Covered /\ [Next]_vars => Covered'
  <2> SUFFICES ASSUME TypeOK, Covered, [Next]_vars PROVE Covered'
    OBVIOUS
  <2>1. CASE UNCHANGED vars
    BY <2>1 DEF vars, ackVars, handshakeVars, attrsVars, recordVars, fileVars,
                Covered, Writes, Credit
  <2>2. CASE Next
    BY <2>2, MainCovered, RecordCovered, OtherCovered DEF Next
  <2> QED
    BY <2>1, <2>2
<1>2. TypeOK /\ Covered => OneWritePerInstruction
  <2>1. TypeOK => /\ received_cnt \in Nat /\ instructed \in Nat
                  /\ trwriter0["write_tr"] \in Nat /\ Len(written) \in Nat
    BY DEF TypeOK, MsgIds
  <2> QED
    BY <2>1 DEF Covered, Writes, Credit, OneWritePerInstruction
<1> QED
  BY <1>1, <1>2, InitCovered, TypeCorrect, PTL DEF Spec

\* With any peer and any failure the writer is a relay in the sense of
\* RequestRelay, as far as safety goes: each record that it writes answers an
\* instruction that no earlier record has answered.
THEOREM ImplementsRelay == Spec => Relay!SafeSpec
<1>1. Init => Relay!Init
  BY DEF Init, Relay!Init
<1>2. TypeOK /\ OneWritePerInstruction /\ [Next]_vars
        => [Relay!Next]_<<instructed, Len(written)>>
  <2> SUFFICES ASSUME TypeOK, OneWritePerInstruction, [Next]_vars
               PROVE  Relay!Next \/ UNCHANGED <<instructed, Len(written)>>
    OBVIOUS
  <2> USE DEF ackVars, handshakeVars, attrsVars, recordVars, fileVars
  <2>1. CASE Instruct
    BY <2>1 DEF Instruct, Relay!Next, Relay!Ask
  <2>2. CASE WriteTR
    <3>1. /\ writing # <<>> /\ written' = Append(written, writing)
          /\ UNCHANGED instructed
      BY <2>2 DEF WriteTR
    <3>2. Len(written') = Len(written) + 1 /\ Len(written) \in Nat
      BY <3>1 DEF TypeOK
    <3>3. Len(written) < instructed
      <4>1. Len(written) + 1 <= instructed - trwriter0["write_tr"]
        BY <3>1 DEF OneWritePerInstruction
      <4>2. instructed \in Nat /\ trwriter0["write_tr"] \in Nat
        BY FRWAssumption DEF TypeOK, MsgIds
      <4> QED
        BY <3>2, <4>1, <4>2
    <3> QED
      BY <3>1, <3>2, <3>3 DEF Relay!Next, Relay!Answer
  <2>3. ~Instruct /\ ~WriteTR => UNCHANGED <<instructed, written>>
    BY DEF Next, vars, Main, AddCallback, HandshakeDone, Subscribe, SendAck,
           AllDone, RemoveRecordCallback, RemoveCallback, Attrs,
           AddAttrsCallback, AttrsDone, RemoveAttrsCallback, AttrsCallback,
           Callback, RecvTR, TakeTR, FailWrite, Race, SendTR, Deliver,
           SendAttrs, Announce, Chatter
  <2> QED
    BY <2>1, <2>2, <2>3
<1> QED
  BY <1>1, <1>2, TypeCorrect, WritesAreInstructed, PTL DEF Spec, Relay!SafeSpec

-----------------------------------------------------------------------------
(* A failed write ends the program's work. *)

\* The round in which a record is written, or failed to be written, has passed
\* num_messages, is not complete and is not over.
Stuck ==
  sub.msgs_received >= NumMessages /\ ~sub.complete /\ pc \in {"ack", "wait", "dead"}

Ending ==
  /\ failed # <<>> => writing = <<>> /\ Stuck
  /\ writing # <<>> => Stuck
  /\ sub.complete => sub.msgs_received >= NumMessages
  /\ pc = "removetr" => sub.complete

LEMMA InitEnding == Init => Ending
BY DEF Init, Ending, NewSubscriber

LEMMA StepEnding == TypeOK /\ Ending /\ [Next]_vars => Ending'
<1> SUFFICES ASSUME TypeOK, Ending, [Next]_vars PROVE Ending'
  OBVIOUS
<1> USE DEF ackVars, handshakeVars, attrsVars, recordVars, fileVars
<1>0. /\ NumMessages \in Nat \ {0} /\ sub.msgs_received \in Nat
      /\ sub \in [msgs_received : Nat, complete : BOOLEAN]
  BY FRWAssumption DEF TypeOK
<1>1. CASE UNCHANGED <<pc, sub, writing, failed>>
  BY <1>1 DEF Ending, Stuck
<1>2. CASE Main
  <2>1. CASE AddCallback
    BY <2>1 DEF AddCallback, Ending, Stuck
  <2>2. CASE HandshakeDone
    BY <2>2 DEF HandshakeDone, Ending, Stuck
  <2>3. CASE Subscribe
    BY <2>3 DEF Subscribe, Ending, Stuck, NewSubscriber
  <2>4. CASE SendAck
    BY <2>4 DEF SendAck, Ending, Stuck
  <2>5. CASE AllDone
    BY <2>5 DEF AllDone, Ending, Stuck
  <2>6. CASE RemoveRecordCallback
    BY <2>6 DEF RemoveRecordCallback, Ending, Stuck
  <2>7. CASE RemoveCallback
    BY <2>7 DEF RemoveCallback, Ending, Stuck
  <2> QED
    BY <1>2, <2>1, <2>2, <2>3, <2>4, <2>5, <2>6, <2>7 DEF Main
<1>3. CASE RecvTR
  <2>1. /\ pc \in {"ack", "wait", "removetr"} /\ writing = <<>>
        /\ UNCHANGED <<pc, failed>>
        /\ sub' = [sub EXCEPT !.msgs_received = @ + 1]
    BY <1>3 DEF RecvTR, TakeTR
  <2>2. /\ sub'.msgs_received = sub.msgs_received + 1
        /\ sub'.complete = sub.complete
    BY <1>0, <2>1
  <2>3. CASE sub'.msgs_received = NumMessages
    <3>1. ~sub.complete /\ failed = <<>> /\ pc # "removetr"
      BY <1>0, <2>2, <2>3 DEF Ending, Stuck
    <3> QED
      BY <1>0, <2>1, <2>2, <2>3, <3>1 DEF Ending, Stuck
  <2>4. CASE sub'.msgs_received # NumMessages
    <3>1. writing' = writing
      BY <1>3, <2>4 DEF RecvTR
    <3> QED
      BY <1>0, <2>1, <2>2, <3>1 DEF Ending, Stuck
  <2> QED
    BY <2>3, <2>4
<1>4. CASE WriteTR
  <2>1. /\ writing # <<>> /\ writing' = <<>> /\ UNCHANGED <<pc, failed>>
        /\ sub' = [sub EXCEPT !.complete = TRUE]
    BY <1>4 DEF WriteTR
  <2>2. sub'.msgs_received = sub.msgs_received /\ sub'.complete
    BY <1>0, <2>1
  <2> QED
    BY <2>1, <2>2 DEF Ending, Stuck
<1>5. CASE FailWrite
  BY <1>5 DEF FailWrite, Ending, Stuck
<1>6. CASE Race
  BY <1>6 DEF Race, Ending, Stuck
<1>7. Next => \/ Main \/ RecvTR \/ WriteTR \/ FailWrite \/ Race
              \/ UNCHANGED <<pc, sub, writing, failed>>
  BY DEF Next, Attrs, AddAttrsCallback, AttrsDone, RemoveAttrsCallback,
         Callback, AttrsCallback, Instruct, SendTR, Deliver, SendAttrs,
         Announce, Chatter
<1> QED
  BY <1>1, <1>2, <1>3, <1>4, <1>5, <1>6, <1>7 DEF vars

LEMMA AlwaysEnding == Spec => []Ending
<1>1. TypeOK /\ Ending /\ [Next]_vars => Ending'
  BY StepEnding
<1> QED
  BY <1>1, InitEnding, TypeCorrect, PTL DEF Spec

\* After a write that failed nothing is written and no round ends, for every
\* stream and num_messages: the callback left before it set complete, and no
\* later record can make the count equal num_messages.
THEOREM FailureIsFinal == Spec => FailedWriteIsFinal
<1>1. TypeOK /\ Ending /\ [Next]_vars
        => [failed # <<>> => written' = written /\ pc' # "receive"]_vars
  <2> SUFFICES ASSUME TypeOK, Ending, Next, failed # <<>>
               PROVE  written' = written /\ pc' # "receive"
    OBVIOUS
  <2> USE DEF ackVars, handshakeVars, attrsVars, recordVars, fileVars
  <2>1. writing = <<>> /\ pc \in {"ack", "wait", "dead"}
    BY DEF Ending, Stuck
  <2>2. ~WriteTR /\ ~RemoveCallback
    BY <2>1 DEF WriteTR, RemoveCallback
  <2>3. Main => written' = written /\ pc' # "receive"
    BY <2>1 DEF Main, AddCallback, HandshakeDone, Subscribe, SendAck, AllDone,
                RemoveRecordCallback, RemoveCallback
  <2>4. ~Main => written' = written /\ pc' \in {pc, "dead"}
    BY <2>2 DEF Next, Attrs, AddAttrsCallback, AttrsDone, RemoveAttrsCallback,
                Callback, AttrsCallback, Instruct, SendTR, Deliver, SendAttrs,
                Announce, Chatter, RecvTR, TakeTR, FailWrite, Race
  <2> QED
    BY <2>1, <2>3, <2>4
<1> QED
  BY <1>1, AlwaysEnding, TypeCorrect, PTL DEF Spec, FailedWriteIsFinal

-----------------------------------------------------------------------------
(* The file index. *)

\* The callback has taken the first attrs_cnt messages.
Queued ==
  /\ Len(announced) = attrs_cnt + Len(bookkeeping1)
  /\ \A n \in 1..Len(bookkeeping1) : bookkeeping1[n] = announced[attrs_cnt + n]

\* An index in use is that of the first message, which was taken.
IsFirst(index) == index # NoIndex => attrs_cnt >= 1 /\ index = announced[1]

FirstIndex ==
  /\ IsFirst(m_file_index)
  /\ writing # <<>> => IsFirst(writing[2])
  /\ \A n \in 1..Len(written) : IsFirst(written[n][2])

LEMMA InitIndex == Init => Queued /\ FirstIndex
BY DEF Init, Queued, FirstIndex, IsFirst

LEMMA StepQueued == TypeOK /\ Queued /\ [Next]_vars => Queued'
<1> SUFFICES ASSUME TypeOK, Queued, [Next]_vars PROVE Queued'
  OBVIOUS
<1> USE DEF ackVars, handshakeVars, attrsVars, recordVars, fileVars
<1>0. /\ bookkeeping1 \in Seq(Indices) /\ announced \in Seq(Indices)
      /\ attrs_cnt \in Nat /\ Len(announced) \in Nat /\ Len(bookkeeping1) \in Nat
  BY DEF TypeOK
<1>1. CASE UNCHANGED <<bookkeeping1, announced, attrs_cnt>>
  BY <1>1 DEF Queued
<1>2. CASE AttrsCallback
  <2>1. /\ bookkeeping1 # <<>> /\ bookkeeping1' = Tail(bookkeeping1)
        /\ attrs_cnt' = attrs_cnt + 1 /\ announced' = announced
    BY <1>2 DEF AttrsCallback
  <2>2. /\ Len(bookkeeping1') = Len(bookkeeping1) - 1
        /\ \A n \in 1..Len(bookkeeping1') :
             bookkeeping1'[n] = bookkeeping1[n + 1]
    BY <1>0, <2>1
  <2>3. ASSUME NEW n \in 1..Len(bookkeeping1')
        PROVE  bookkeeping1'[n] = announced'[attrs_cnt' + n]
    <3>1. n + 1 \in 1..Len(bookkeeping1) /\ n \in Nat
      BY <1>0, <2>2
    <3>2. attrs_cnt + (n + 1) = attrs_cnt' + n
      BY <1>0, <2>1, <3>1
    <3> QED
      BY <2>1, <2>2, <3>1, <3>2 DEF Queued
  <2> QED
    BY <1>0, <2>1, <2>2, <2>3 DEF Queued
<1>3. CASE SendAttrs
  <2>1. PICK i \in Indices : Announce(i)
    BY <1>3 DEF SendAttrs
  <2>2. /\ bookkeeping1' = Append(bookkeeping1, i)
        /\ announced' = Append(announced, i) /\ attrs_cnt' = attrs_cnt
    BY <2>1 DEF Announce
  <2>3. /\ Len(bookkeeping1') = Len(bookkeeping1) + 1
        /\ Len(announced') = Len(announced) + 1
        /\ bookkeeping1'[Len(bookkeeping1) + 1] = i
        /\ announced'[Len(announced) + 1] = i
        /\ \A n \in 1..Len(bookkeeping1) : bookkeeping1'[n] = bookkeeping1[n]
        /\ \A n \in 1..Len(announced) : announced'[n] = announced[n]
    BY <1>0, <2>2
  <2>4. ASSUME NEW n \in 1..Len(bookkeeping1')
        PROVE  bookkeeping1'[n] = announced'[attrs_cnt' + n]
    <3>1. CASE n = Len(bookkeeping1) + 1
      BY <1>0, <2>2, <2>3, <3>1 DEF Queued
    <3>2. CASE n # Len(bookkeeping1) + 1
      <4>1. n \in 1..Len(bookkeeping1) /\ attrs_cnt + n \in 1..Len(announced)
        BY <1>0, <2>3, <3>2 DEF Queued
      <4> QED
        BY <2>2, <2>3, <4>1 DEF Queued
    <3> QED
      BY <3>1, <3>2
  <2> QED
    BY <1>0, <2>2, <2>3, <2>4 DEF Queued
<1>4. Next => \/ AttrsCallback \/ SendAttrs
              \/ UNCHANGED <<bookkeeping1, announced, attrs_cnt>>
  BY DEF Next, Main, AddCallback, HandshakeDone, Subscribe, SendAck, AllDone,
         RemoveRecordCallback, RemoveCallback, Attrs, AddAttrsCallback,
         AttrsDone, RemoveAttrsCallback, Callback, RecvTR, TakeTR, WriteTR,
         FailWrite, Race, Instruct, SendTR, Deliver, Chatter
<1> QED
  BY <1>1, <1>2, <1>3, <1>4 DEF vars

\* What was the first index stays it.
LEMMA FirstStays ==
  ASSUME TypeOK, Queued, [Next]_vars, NEW index \in Indices, IsFirst(index),
         index # NoIndex
  PROVE  attrs_cnt' >= 1 /\ index = announced'[1]
<1> USE DEF ackVars, handshakeVars, attrsVars, recordVars, fileVars
<1>0. /\ announced \in Seq(Indices) /\ attrs_cnt \in Nat /\ attrs_cnt >= 1
      /\ index = announced[1] /\ Len(announced) >= 1 /\ Len(announced) \in Nat
  BY DEF TypeOK, Queued, IsFirst
<1>1. CASE UNCHANGED <<announced, attrs_cnt>>
  BY <1>0, <1>1
<1>2. CASE AttrsCallback
  BY <1>0, <1>2 DEF AttrsCallback
<1>3. CASE SendAttrs
  <2>1. PICK i \in Indices : Announce(i)
    BY <1>3 DEF SendAttrs
  <2>2. announced' = Append(announced, i) /\ attrs_cnt' = attrs_cnt
    BY <2>1 DEF Announce
  <2> QED
    BY <1>0, <2>2
<1>4. Next => \/ AttrsCallback \/ SendAttrs \/ UNCHANGED <<announced, attrs_cnt>>
  BY DEF Next, Main, AddCallback, HandshakeDone, Subscribe, SendAck, AllDone,
         RemoveRecordCallback, RemoveCallback, Attrs, AddAttrsCallback,
         AttrsDone, RemoveAttrsCallback, Callback, RecvTR, TakeTR, WriteTR,
         FailWrite, Race, Instruct, SendTR, Deliver, Chatter
<1> QED
  BY <1>1, <1>2, <1>3, <1>4 DEF vars

LEMMA StepFirst ==
  TypeOK /\ Queued /\ FirstIndex /\ [Next]_vars => FirstIndex'
<1> SUFFICES ASSUME TypeOK, Queued, FirstIndex, [Next]_vars PROVE FirstIndex'
  OBVIOUS
<1> DEFINE First(index) ==
             index # NoIndex => attrs_cnt' >= 1 /\ index = announced'[1]
<1>1. /\ written \in Seq(TriggerRecords \X Indices) /\ m_file_index \in Indices
      /\ writing \in {<<>>} \cup (TriggerRecords \X Indices)
      /\ Len(written) \in Nat
  BY DEF TypeOK
<1>2. \A index \in Indices : IsFirst(index) => First(index)
  BY FirstStays
<1>3. /\ First(m_file_index)
      /\ writing # <<>> => First(writing[2])
      /\ \A n \in 1..Len(written) : First(written[n][2])
  <2>1. writing # <<>> => writing[2] \in Indices
    BY <1>1
  <2>2. \A n \in 1..Len(written) : written[n][2] \in Indices
    BY <1>1
  <2> QED
    BY <1>1, <1>2, <2>1, <2>2 DEF FirstIndex
<1> HIDE DEF First
<1> USE DEF ackVars, handshakeVars, attrsVars, recordVars, fileVars
<1>4. First(m_file_index')
  <2>1. CASE m_file_index' = m_file_index
    BY <1>3, <2>1
  <2>2. CASE AttrsCallback /\ m_file_index' # m_file_index
    <3>1. /\ bookkeeping1 # <<>> /\ attrs_cnt' = attrs_cnt + 1 /\ attrs_cnt' = 1
          /\ m_file_index' = Head(bookkeeping1) /\ announced' = announced
      BY <2>2 DEF AttrsCallback
    <3>2. attrs_cnt = 0 /\ 1 \in 1..Len(bookkeeping1)
      BY <3>1 DEF TypeOK
    <3>3. Head(bookkeeping1) = announced[1]
      BY <3>1, <3>2 DEF TypeOK, Queued
    <3> QED
      BY <3>1, <3>3 DEF First
  <2>3. Next => AttrsCallback \/ m_file_index' = m_file_index
    BY DEF Next, Main, AddCallback, HandshakeDone, Subscribe, SendAck, AllDone,
           RemoveRecordCallback, RemoveCallback, Attrs, AddAttrsCallback,
           AttrsDone, RemoveAttrsCallback, Callback, RecvTR, TakeTR, WriteTR,
           FailWrite, Race, Instruct, SendTR, Deliver, SendAttrs, Announce,
           Chatter
  <2> QED
    BY <2>1, <2>2, <2>3 DEF vars
<1>5. /\ \/ writing' = <<>> \/ writing' = writing
         \/ writing'[2] = m_file_index
      /\ \/ written' = written
         \/ writing # <<>> /\ written' = Append(written, writing)
  <2>1. CASE Next
    <3>1. RecvTR => /\ written' = written
                    /\ writing' = writing \/ writing'[2] = m_file_index
      BY DEF RecvTR, TakeTR, StartWriting
    <3> QED
      BY <2>1, <3>1
      DEF Next, Main, AddCallback, HandshakeDone, Subscribe, SendAck, AllDone,
          RemoveRecordCallback, RemoveCallback, Attrs, AddAttrsCallback,
          AttrsDone, RemoveAttrsCallback, Callback, AttrsCallback, WriteTR,
          FailWrite, Race, Instruct, SendTR, Deliver, SendAttrs, Announce,
          Chatter
  <2> QED
    BY <2>1 DEF vars
<1>6. writing' # <<>> => First(writing'[2])
  BY <1>3, <1>5
<1>7. ASSUME NEW n \in 1..Len(written') PROVE First(written'[n][2])
  <2>1. CASE written' = written
    BY <1>3, <2>1
  <2>2. CASE writing # <<>> /\ written' = Append(written, writing)
    <3>1. CASE n = Len(written) + 1
      <4>1. written'[n] = writing
        BY <1>1, <2>2, <3>1
      <4> QED
        BY <1>3, <2>2, <4>1
    <3>2. CASE n # Len(written) + 1
      <4>1. n \in 1..Len(written) /\ written'[n] = written[n]
        BY <1>1, <2>2, <3>2
      <4> QED
        BY <1>3, <4>1
    <3> QED
      BY <3>1, <3>2
  <2> QED
    BY <1>5, <2>1, <2>2
<1> QED
  BY <1>4, <1>6, <1>7 DEF First, FirstIndex, IsFirst

\* Every file of the life of the program is named with the index of the first
\* message or with none, for every sequence of messages and every order of the
\* thread of receive_attrs() and the record callback.
THEOREM IndexIsOfFirst == Spec => []IndexOfFirstMessage
<1>1. /\ TypeOK /\ Queued /\ [Next]_vars => Queued'
      /\ TypeOK /\ Queued /\ FirstIndex /\ [Next]_vars => FirstIndex'
  BY StepQueued, StepFirst
<1>2. FirstIndex => IndexOfFirstMessage
  BY DEF FirstIndex, IsFirst, IndexOfFirstMessage
<1> QED
  BY <1>1, <1>2, InitIndex, TypeCorrect, PTL DEF Spec

-----------------------------------------------------------------------------
(* The files on the disk. *)

\* The n-th record written has its file, lost it to a later one of its name, or
\* to one whose writing broke off.
Kept(n) == disk[NameOf(written[n])] = written[n][1]

Replaced(n) ==
  \E m \in n + 1..Len(written) : NameOf(written[m]) = NameOf(written[n])

Spoilt(n) == failed # <<>> /\ NameOf(failed) = NameOf(written[n])

LEMMA NameOfPath ==
  ASSUME NEW write \in TriggerRecords \X Indices
  PROVE  /\ NameOf(write) = Pathname(write[1], write[2])
         /\ NameOf(write) \in Paths
<1>1. write[1] \in TriggerRecords /\ write[2] \in Indices
  OBVIOUS
<1> QED
  BY <1>1, PathnameType DEF NameOf, Pathname

LEMMA WriteKeeps ==
  ASSUME TypeOK, ReplacedOnlyByNamesake, WriteTR
  PROVE  ReplacedOnlyByNamesake'
<1>0. PICK last \in Nat : last = Len(written) + 1
  BY DEF TypeOK
<1>1. /\ writing \in TriggerRecords \X Indices
      /\ written' = Append(written, writing)
      /\ disk' = [disk EXCEPT ![Pathname(writing[1], writing[2])] = writing[1]]
      /\ failed' = failed
  BY DEF WriteTR, TypeOK
<1>2. /\ written \in Seq(TriggerRecords \X Indices) /\ Len(written) \in Nat
      /\ Len(written') = last /\ written'[last] = writing
      /\ \A n \in 1..Len(written) : written'[n] = written[n]
  BY <1>0, <1>1 DEF TypeOK
<1>3. /\ NameOf(writing) = Pathname(writing[1], writing[2])
      /\ NameOf(writing) \in DOMAIN disk
  BY <1>1, NameOfPath DEF TypeOK
<1>4. Kept(last)'
  BY <1>1, <1>2, <1>3 DEF Kept, NameOf
<1>5. ASSUME NEW n \in 1..Len(written)
      PROVE  (Kept(n) \/ Replaced(n) \/ Spoilt(n))'
  <2>0. /\ last \in n + 1..last /\ n \in Nat
        /\ written[n] \in TriggerRecords \X Indices
        /\ NameOf(written[n]) \in DOMAIN disk
    BY <1>0, <1>2, NameOfPath DEF TypeOK
  <2>1. CASE NameOf(written[n]) = NameOf(writing)
    <3>1. NameOf(written'[last]) = NameOf(written'[n])
      BY <1>2, <2>1
    <3> QED
      BY <1>2, <2>0, <3>1 DEF Replaced, NameOf
  <2>2. CASE Kept(n) /\ NameOf(written[n]) # NameOf(writing)
    <3>1. disk'[NameOf(written[n])] = disk[NameOf(written[n])]
      BY <1>1, <1>3, <2>0, <2>2
    <3> QED
      BY <1>2, <2>2, <3>1 DEF Kept, NameOf
  <2>3. CASE Replaced(n)
    <3>1. PICK m \in n + 1..Len(written) :
            NameOf(written[m]) = NameOf(written[n])
      BY <2>3 DEF Replaced
    <3>2. m \in 1..Len(written) /\ m \in n + 1..last
      BY <1>0, <1>2, <2>0
    <3>3. NameOf(written'[m]) = NameOf(written'[n])
      BY <1>2, <3>1, <3>2
    <3> QED
      BY <1>2, <3>2, <3>3 DEF Replaced, NameOf
  <2>4. CASE Spoilt(n)
    BY <1>1, <1>2, <2>4 DEF Spoilt, NameOf
  <2>5. Kept(n) \/ Replaced(n) \/ Spoilt(n)
    BY DEF ReplacedOnlyByNamesake, Kept, Replaced, Spoilt
  <2> QED
    BY <2>1, <2>2, <2>3, <2>4, <2>5
<1>6. ASSUME NEW n \in 1..Len(written')
      PROVE  (Kept(n) \/ Replaced(n) \/ Spoilt(n))'
  <2>1. n = last \/ n \in 1..Len(written)
    BY <1>0, <1>2
  <2> QED
    BY <1>4, <1>5, <2>1
<1> QED
  BY <1>6 DEF ReplacedOnlyByNamesake, Kept, Replaced, Spoilt

\* A write that fails may spoil the file of its name, and no other: the one
\* that failed before it, if any, was the last (Ending).
LEMMA FailKeeps ==
  ASSUME TypeOK, Ending, ReplacedOnlyByNamesake, FailWrite
  PROVE  ReplacedOnlyByNamesake'
<1>1. /\ writing \in TriggerRecords \X Indices /\ writing # <<>>
      /\ failed = <<>> /\ failed' = writing /\ written' = written
      /\ disk' = disk \/ disk' = [disk EXCEPT
                   ![Pathname(writing[1], writing[2])] = HalfWritten]
  BY DEF FailWrite, TypeOK, Ending, fileVars
<1>2. NameOf(writing) = Pathname(writing[1], writing[2])
  BY <1>1, NameOfPath
<1>3. ASSUME NEW n \in 1..Len(written)
      PROVE  (Kept(n) \/ Replaced(n) \/ Spoilt(n))'
  <2>1. /\ written[n] \in TriggerRecords \X Indices
        /\ NameOf(written[n]) \in DOMAIN disk
    BY NameOfPath DEF TypeOK
  <2>2. CASE NameOf(written[n]) = NameOf(writing)
    BY <1>1, <2>2 DEF Spoilt, NameOf
  <2>3. CASE Kept(n) /\ NameOf(written[n]) # NameOf(writing)
    <3>1. disk'[NameOf(written[n])] = disk[NameOf(written[n])]
      BY <1>1, <1>2, <2>1, <2>3
    <3> QED
      BY <1>1, <2>3, <3>1 DEF Kept, NameOf
  <2>4. CASE Replaced(n)
    BY <1>1, <2>4 DEF Replaced, NameOf
  <2>5. Kept(n) \/ Replaced(n)
    BY <1>1 DEF ReplacedOnlyByNamesake, Kept, Replaced
  <2> QED
    BY <2>2, <2>3, <2>4, <2>5
<1> QED
  BY <1>1, <1>3 DEF ReplacedOnlyByNamesake, Kept, Replaced, Spoilt

\* Nothing but another record of the same file index and trigger number, as
\* far as an int can tell, written or not written to its end, takes the name of
\* a file that was written, for every stream and every width of the int.
THEOREM OnlyNamesakesReplace == Spec => []ReplacedOnlyByNamesake
<1> USE DEF ackVars, handshakeVars, attrsVars, recordVars, fileVars
<1>1. Init => ReplacedOnlyByNamesake
  BY DEF Init, ReplacedOnlyByNamesake
<1>2. TypeOK /\ Ending /\ ReplacedOnlyByNamesake /\ [Next]_vars
        => ReplacedOnlyByNamesake'
  <2> SUFFICES ASSUME TypeOK, Ending, ReplacedOnlyByNamesake, [Next]_vars
               PROVE  ReplacedOnlyByNamesake'
    OBVIOUS
  <2>1. CASE UNCHANGED <<disk, written, failed>>
    BY <2>1 DEF ReplacedOnlyByNamesake, NameOf
  <2>2. Next => WriteTR \/ FailWrite \/ UNCHANGED <<disk, written, failed>>
    BY DEF Next, Main, AddCallback, HandshakeDone, Subscribe, SendAck, AllDone,
           RemoveRecordCallback, RemoveCallback, Attrs, AddAttrsCallback,
           AttrsDone, RemoveAttrsCallback, Callback, AttrsCallback, RecvTR,
           TakeTR, Race, Instruct, SendTR, Deliver, SendAttrs, Announce,
           Chatter
  <2> QED
    BY <2>1, <2>2, WriteKeeps, FailKeeps DEF vars
<1> QED
  BY <1>1, <1>2, TypeCorrect, AlwaysEnding, PTL DEF Spec

-----------------------------------------------------------------------------
(* A record for each answer: every record in order. *)

\* The round has its instruction and is not complete.
InRound == pc \in {"subscribe", "ack"} \/ (pc = "wait" /\ ~sub.complete)

\* A peer that sends a record for each "received": one answer and one record at
\* most are on their way, each at its place in the round.
RecordRound ==
  /\ pc # "dead"
  /\ acks = Len(written) + (IF pc = "wait" /\ ~sub.complete THEN 1 ELSE 0)
  /\ Len(sent) <= acks
  /\ taken = Len(written) + (IF writing = <<>> THEN 0 ELSE 1)
  /\ writing # <<>> => pc = "wait" /\ ~sub.complete /\ sub.msgs_received = 1
  /\ InRound /\ pc # "subscribe" /\ writing = <<>>
       => sub.msgs_received = 0 /\ ~sub.complete

\* The records leave the queue in the order of sending.
InOrder ==
  /\ \A n \in 1..Len(written) : written[n][1] = sent[n]
  /\ writing # <<>> => writing[1] = sent[Len(written) + 1]
  /\ trs # <<>> => trs[1] = sent[taken + 1]

RecordInv == RecordRound /\ InOrder

LEMMA InitRecords == Init => RecordInv
  BY DEF Init, RecordInv, RecordRound, InRound, InOrder

\* The numbers that the steps below count with, and the sequences.
Numbers ==
  /\ Len(written) \in Nat /\ Len(sent) \in Nat /\ Len(trs) \in Nat
  /\ taken + Len(trs) = Len(sent) /\ taken \in Nat /\ acks \in Nat
  /\ sub.msgs_received \in Nat /\ sub.complete \in BOOLEAN

Shapes ==
  /\ sub \in [msgs_received : Nat, complete : BOOLEAN]
  /\ written \in Seq(TriggerRecords \X Indices)
  /\ sent \in Seq(TriggerRecords) /\ trs \in Seq(TriggerRecords)
  /\ trs = <<>> <=> Len(trs) = 0

LEMMA RecordFacts == Types => Numbers /\ Shapes
  BY DEF Types, Conserved, TypeOK, Numbers, Shapes

\* The main thread's steps: it leaves "wait" only after its own record.
LEMMA MainRecords ==
  ASSUME Types, RecordInv, Main PROVE RecordInv'
<1>0. Numbers /\ Shapes
  BY RecordFacts
<1> USE DEF RecordInv, recordVars, fileVars
<1>1. UNCHANGED <<written, writing, trs, sent, taken>>
  BY DEF Main, AddCallback, HandshakeDone, Subscribe, SendAck, AllDone,
         RemoveRecordCallback, RemoveCallback
<1>2. InOrder'
  BY <1>1 DEF InOrder
<1>3. RecordRound'
  <2> USE <1>0, <1>1 DEF RecordRound, InRound, Numbers, ackVars
  <2>1. CASE AddCallback
    BY <2>1 DEF AddCallback
  <2>2. CASE HandshakeDone
    BY <2>2 DEF HandshakeDone
  <2>3. CASE Subscribe
    BY <2>3 DEF Subscribe, NewSubscriber
  <2>4. CASE SendAck
    BY <2>4 DEF SendAck
  <2>5. CASE AllDone
    BY <2>5 DEF AllDone
  <2>6. CASE RemoveRecordCallback
    BY <2>6 DEF RemoveRecordCallback
  <2>7. CASE RemoveCallback
    BY <2>7 DEF RemoveCallback
  <2> QED
    BY <2>1, <2>2, <2>3, <2>4, <2>5, <2>6, <2>7 DEF Main
<1> QED
  BY <1>2, <1>3

\* A record is taken in the round it was sent in, and is the one to be written.
LEMMA RecvStarts ==
  ASSUME NumMessages = 1, Types, RecordInv, RecvTR
  PROVE  /\ StartWriting(Head(trs)) /\ writing = <<>>
         /\ trs # <<>> /\ trs' = <<>>
<1>0. Numbers /\ Shapes
  BY RecordFacts
<1>1. /\ pc \in {"ack", "wait", "removetr"} /\ writing = <<>> /\ trs # <<>>
      /\ trs' = Tail(trs) /\ sub' = [sub EXCEPT !.msgs_received = @ + 1]
  BY DEF RecvTR, TakeTR
<1>2. taken = Len(written) /\ Len(trs) > 0
  BY <1>0, <1>1 DEF RecordInv, RecordRound, Numbers, Shapes
<1>3. Len(sent) > Len(written) /\ Len(sent) <= acks
  BY <1>0, <1>2 DEF RecordInv, RecordRound, Numbers
<1>4. /\ pc = "wait" /\ ~sub.complete /\ acks = Len(written) + 1
      /\ Len(sent) = Len(written) + 1
  BY <1>0, <1>3 DEF RecordInv, RecordRound, Numbers
<1>5. sub.msgs_received = 0
  BY <1>1, <1>4 DEF RecordInv, RecordRound, InRound
<1>6. sub'.msgs_received = 1
  BY <1>0, <1>1, <1>5 DEF Shapes
<1>7. StartWriting(Head(trs))
  BY <1>6 DEF RecvTR
<1>8. Len(trs) = 1
  <2>1. \A k, l, m \in Nat : k + l = m /\ m = k + 1 => l = 1
    OBVIOUS
  <2>2. taken + Len(trs) = Len(sent) /\ Len(sent) = taken + 1
    BY <1>0, <1>2, <1>4 DEF Numbers
  <2> QED
    BY <1>0, <2>1, <2>2, Zenon DEF Numbers
<1>9. trs' = <<>>
  <2>1. \A q \in Seq(TriggerRecords) : Len(q) = 1 => Len(Tail(q)) = 0
    OBVIOUS
  <2>2. trs' \in Seq(TriggerRecords) /\ Len(trs') = 0
    BY <1>0, <1>1, <1>8, <2>1 DEF Shapes
  <2> QED
    BY <2>2
<1> QED
  BY <1>1, <1>7, <1>9

LEMMA RecvRecords ==
  ASSUME NumMessages = 1, Types, RecordInv, RecvTR PROVE RecordInv'
<1>0. Numbers /\ Shapes
  BY RecordFacts
<1>1. /\ pc \in {"ack", "wait", "removetr"} /\ writing = <<>> /\ trs # <<>>
      /\ taken' = taken + 1
      /\ sub' = [sub EXCEPT !.msgs_received = @ + 1]
      /\ UNCHANGED <<pc, acks, sent, written>>
  BY DEF RecvTR, TakeTR, ackVars
<1>2. /\ writing' # <<>> /\ writing'[1] = Head(trs) /\ trs' = <<>>
  BY RecvStarts DEF StartWriting
<1>3. taken = Len(written) /\ Len(trs) > 0
  BY <1>0, <1>1 DEF RecordInv, RecordRound, Numbers, Shapes
<1>4. pc = "wait" /\ ~sub.complete
  <2>1. Len(sent) > Len(written) /\ Len(sent) <= acks
    BY <1>0, <1>3 DEF RecordInv, RecordRound, Numbers
  <2> QED
    BY <1>0, <2>1 DEF RecordInv, RecordRound, Numbers
<1>5. sub'.msgs_received = 1 /\ ~sub'.complete
  <2>1. sub.msgs_received = 0
    BY <1>1, <1>4 DEF RecordInv, RecordRound, InRound
  <2> QED
    BY <1>0, <1>1, <1>4, <2>1 DEF Shapes
<1>6. Head(trs) = sent[Len(written) + 1]
  BY <1>1, <1>3 DEF RecordInv, InOrder
<1>7. RecordRound'
  BY <1>0, <1>1, <1>2, <1>3, <1>4, <1>5
  DEF RecordInv, RecordRound, InRound, Numbers
<1>8. InOrder'
  BY <1>1, <1>2, <1>6 DEF RecordInv, InOrder
<1> QED
  BY <1>7, <1>8 DEF RecordInv

\* The written record is the next in order, and ends the round.
LEMMA WriteRecords ==
  ASSUME Types, RecordInv, WriteTR PROVE RecordInv'
<1>0. Numbers /\ Shapes
  BY RecordFacts
<1>1. /\ writing # <<>> /\ writing' = <<>>
      /\ written' = Append(written, writing)
      /\ sub' = [sub EXCEPT !.complete = TRUE]
      /\ UNCHANGED <<pc, acks, sent, taken, trs>>
  BY DEF WriteTR, ackVars
<1>2. /\ pc = "wait" /\ ~sub.complete /\ taken = Len(written) + 1
      /\ acks = Len(written) + 1
  BY <1>1 DEF RecordInv, RecordRound
<1>3. sub'.complete
  BY <1>0, <1>1 DEF Shapes
<1>w. writing \in TriggerRecords \X Indices
  BY <1>1 DEF Types, TypeOK
<1>4. /\ Len(written') = Len(written) + 1
      /\ \A n \in 1..Len(written) : written'[n] = written[n]
      /\ written'[Len(written) + 1] = writing
  BY <1>0, <1>1, <1>w DEF Shapes
<1>5. RecordRound'
  BY <1>0, <1>1, <1>2, <1>3, <1>4 DEF RecordInv, RecordRound, InRound, Numbers
<1>6. InOrder'
  <2>1. ASSUME NEW n \in 1..Len(written') PROVE written'[n][1] = sent'[n]
    <3>1. CASE n \in 1..Len(written)
      BY <1>1, <1>4, <3>1 DEF RecordInv, InOrder
    <3>2. CASE n = Len(written) + 1
      BY <1>1, <1>4, <3>2 DEF RecordInv, InOrder
    <3> QED
      BY <1>0, <1>4, <3>1, <3>2 DEF Numbers
  <2> QED
    BY <1>1, <1>2, <1>4, <2>1 DEF RecordInv, InOrder
<1> QED
  BY <1>5, <1>6 DEF RecordInv

\* A record that the peer sends after "received".
LEMMA DeliverRecords ==
  ASSUME Types, RecordInv, NEW record \in TriggerRecords,
         Len(sent) < acks, Deliver(record)
  PROVE  RecordInv'
<1>0. Numbers /\ Shapes
  BY RecordFacts
<1>1. /\ trs' = Append(trs, record) /\ sent' = Append(sent, record)
      /\ UNCHANGED <<pc, acks, written, writing, taken, sub>>
  BY DEF Deliver, ackVars, fileVars
<1>2. /\ Len(sent) = Len(written) /\ taken = Len(written)
      /\ writing = <<>> /\ trs = <<>>
  <2>1. Len(sent) = Len(written) /\ taken = Len(written) /\ writing = <<>>
    BY <1>0 DEF RecordInv, RecordRound, Numbers
  <2>2. \A k, l, m \in Nat : k + l = m /\ m = k => l = 0
    OBVIOUS
  <2>3. Len(trs) = 0
    BY <1>0, <2>1, <2>2, Zenon DEF Numbers
  <2> QED
    BY <1>0, <2>1, <2>3 DEF Shapes
<1>3. /\ Len(sent') = Len(sent) + 1
      /\ sent'[Len(sent) + 1] = record
      /\ \A n \in 1..Len(sent) : sent'[n] = sent[n]
      /\ trs'[1] = record
  BY <1>0, <1>1, <1>2 DEF Shapes
<1>4. RecordRound'
  BY <1>0, <1>1, <1>3 DEF RecordInv, RecordRound, InRound, Numbers
<1>5. InOrder'
  BY <1>0, <1>1, <1>2, <1>3 DEF RecordInv, InOrder, Numbers
<1> QED
  BY <1>4, <1>5 DEF RecordInv

\* No other step has to do with records.
LEMMA OtherRecords ==
  ASSUME RecordInv,
         \/ \E m \in MsgIds : Callback(m)
         \/ Attrs \/ AttrsCallback \/ Instruct \/ Chatter
         \/ \E index \in Indices : Announce(index)
         \/ UNCHANGED vars
  PROVE  RecordInv'
<1>1. UNCHANGED <<pc, acks, written, writing, trs, sent, taken, sub>>
  BY DEF Callback, Attrs, AddAttrsCallback, AttrsDone, RemoveAttrsCallback,
         AttrsCallback, Instruct, Chatter, Announce,
         vars, ackVars, recordVars, fileVars
<1> QED
  BY <1>1 DEF RecordInv, RecordRound, InRound, InOrder

-----------------------------------------------------------------------------
(* A paced peer: an instruction for each round. *)

\* The peer awaits the end of a round, a round is of one record, as in the
\* program, and no write fails.
PacedPeer == Paced /\ NumMessages = 1 /\ ~MayFail

\* The instructions in the queue.
Pending == trwriter0["write_tr"]

\* The instructions that the current round has counted.
Counted == IF pc = "poll" THEN received_cnt ELSE IF InRound THEN 1 ELSE 0

\* One instruction at most is on its way.
InstructionRound ==
  /\ instructed = Len(written) + Pending + Counted
  /\ instructed <= Len(written) + 1
  /\ pc \notin {"receive", "poll"} => Pending = 0

\* config.ofile_pathname is the name of the record that is being written, or
\* else of the last one.
LastPathname ==
  IF written = <<>> THEN NoPath
  ELSE LET last == written[Len(written)] IN Pathname(last[1], last[2])

FileNamed ==
  ofile_pathname = IF writing = <<>> THEN LastPathname
                   ELSE Pathname(writing[1], writing[2])

PacedInv == RecordInv /\ InstructionRound /\ FileNamed

LEMMA InitPaced == Init => PacedInv
<1> SUFFICES ASSUME Init PROVE InstructionRound /\ FileNamed
  BY InitRecords DEF PacedInv
<1>1. InstructionRound
  BY DEF Init, InstructionRound, Counted, InRound, MsgIds, Pending
<1>2. FileNamed
  BY DEF Init, FileNamed, LastPathname
<1> QED
  BY <1>1, <1>2

\* The numbers of the instructions.
LEMMA InstructionFacts ==
  ASSUME Types
  PROVE  /\ instructed \in Nat /\ received_cnt \in Nat /\ Pending \in Nat
         /\ trwriter0 \in [MsgIds -> Nat] /\ Len(written) \in Nat
  BY DEF Types, TypeOK, MsgIds, Pending

\* The peer sends a record only after "received".
LEMMA PacedSends ==
  ASSUME PacedPeer, Types, RecordInv, SendTR
  PROVE  RecordInv'
<1>1. Deliver(NextTR) /\ NextTR \in TriggerRecords
  BY FRWAssumption DEF SendTR, MoreToSend, NextTR, Types, TypeOK
<1>2. Len(sent) < acks * NumMessages
  BY DEF SendTR, PacedPeer
<1>3. Len(sent) < acks
  BY <1>2, RecordFacts DEF PacedPeer, Numbers
<1> QED
  BY <1>1, <1>3, DeliverRecords

\* The main thread counts its next instruction from nothing.
LEMMA MainPaced ==
  ASSUME Types, PacedInv, Main PROVE InstructionRound' /\ FileNamed'
<1>1. UNCHANGED <<written, writing, ofile_pathname, Pending, instructed>>
  BY DEF Pending, Main, AddCallback, HandshakeDone, Subscribe, SendAck, AllDone,
         RemoveRecordCallback, RemoveCallback, handshakeVars, recordVars,
         fileVars
<1>2. FileNamed'
  BY <1>1 DEF PacedInv, FileNamed, LastPathname, Pathname
<1>3. InstructionRound'
  <2> USE <1>1, InstructionFacts, RecordFacts
      DEF PacedInv, InstructionRound, RecordInv, RecordRound, Counted, InRound,
          Numbers, handshakeVars, recordVars
  <2>1. CASE AddCallback
    BY <2>1 DEF AddCallback
  <2>2. CASE HandshakeDone
    BY <2>2 DEF HandshakeDone
  <2>3. CASE Subscribe
    BY <2>3 DEF Subscribe, NewSubscriber
  <2>4. CASE SendAck
    BY <2>4 DEF SendAck
  <2>5. CASE AllDone
    BY <2>5 DEF AllDone
  <2>6. CASE RemoveRecordCallback
    BY <2>6 DEF RemoveRecordCallback
  <2>7. CASE RemoveCallback
    BY <2>7 DEF RemoveCallback
  <2> QED
    BY <2>1, <2>2, <2>3, <2>4, <2>5, <2>6, <2>7 DEF Main
<1> QED
  BY <1>2, <1>3

\* A record that is taken names its file, and its writing ends the round.
LEMMA RecvPaced ==
  ASSUME PacedPeer, Types, PacedInv, RecvTR
  PROVE  InstructionRound' /\ FileNamed'
<1>1. /\ writing' = <<Head(trs), m_file_index>>
      /\ ofile_pathname' = Pathname(Head(trs), m_file_index)
  BY RecvStarts DEF PacedPeer, PacedInv, StartWriting
<1>2. writing' # <<>> /\ writing'[1] = Head(trs) /\ writing'[2] = m_file_index
  BY <1>1
<1>3. FileNamed'
  BY <1>1, <1>2 DEF FileNamed
<1>4. UNCHANGED <<pc, Pending, received_cnt, instructed, written>>
  BY DEF Pending, RecvTR, TakeTR, handshakeVars
<1>5. sub'.complete = sub.complete
  <2>1. sub' = [sub EXCEPT !.msgs_received = @ + 1]
    BY DEF RecvTR, TakeTR
  <2> QED
    BY <2>1, RecordFacts DEF Shapes
<1>6. InstructionRound'
  BY <1>4, <1>5 DEF PacedInv, InstructionRound, Counted, InRound
<1> QED
  BY <1>3, <1>6

LEMMA WritePaced ==
  ASSUME Types, PacedInv, WriteTR PROVE InstructionRound' /\ FileNamed'
<1>0. Numbers /\ Shapes
  BY RecordFacts
<1>1. /\ writing # <<>> /\ writing' = <<>>
      /\ written' = Append(written, writing)
      /\ sub' = [sub EXCEPT !.complete = TRUE]
      /\ UNCHANGED <<pc, Pending, received_cnt, instructed, ofile_pathname>>
  BY DEF Pending, WriteTR, handshakeVars
<1>2. pc = "wait" /\ ~sub.complete
  BY <1>1 DEF PacedInv, RecordInv, RecordRound
<1>3. sub'.complete
  BY <1>0, <1>1 DEF Shapes
<1>4. writing \in TriggerRecords \X Indices
  BY <1>1 DEF Types, TypeOK
<1>5. /\ Len(written') = Len(written) + 1 /\ written' # <<>>
      /\ written'[Len(written')] = writing
  BY <1>0, <1>1, <1>4 DEF Shapes
<1>6. InstructionRound'
  BY <1>1, <1>2, <1>3, <1>5, InstructionFacts
  DEF PacedInv, InstructionRound, Counted, InRound
<1>7. FileNamed'
  <2>1. ofile_pathname' = Pathname(writing[1], writing[2])
    BY <1>1 DEF PacedInv, FileNamed
  <2> QED
    BY <1>1, <1>5, <2>1 DEF FileNamed, LastPathname, Pathname
<1> QED
  BY <1>6, <1>7

\* The event loop of "trwriter0" only counts while the main thread polls.
LEMMA CountPaced ==
  ASSUME Types, PacedInv, NEW m \in MsgIds, Callback(m)
  PROVE  InstructionRound'
<1>0. /\ instructed \in Nat /\ received_cnt \in Nat /\ Pending \in Nat
      /\ trwriter0 \in [MsgIds -> Nat] /\ Len(written) \in Nat
  BY InstructionFacts
<1>1. UNCHANGED <<pc, instructed, written, sub>>
  BY DEF Callback, recordVars, fileVars
<1>2. \/ /\ pc = "poll" /\ received_cnt' = received_cnt + 1
         /\ Pending > 0 /\ Pending' = Pending - 1
      \/ /\ received_cnt' = received_cnt
         /\ Pending' = Pending
  <2>1. CASE m = "write_tr"
    <3>1. Pending > 0 /\ pc # "receive"
      BY <2>1 DEF Callback, Pending
    <3>2. pc = "poll"
      BY <1>0, <3>1 DEF PacedInv, InstructionRound
    <3> QED
      BY <1>0, <2>1, <3>1, <3>2 DEF Callback, Pending
  <2>2. CASE m # "write_tr"
    BY <1>0, <2>2 DEF Callback, MsgIds, Pending
  <2> QED
    BY <2>1, <2>2
<1>3. /\ Pending' + Counted' = Pending + Counted
      /\ Counted \in Nat /\ Counted' \in Nat /\ Pending' \in Nat
  BY <1>0, <1>1, <1>2 DEF Counted, InRound
<1>4. instructed' = Len(written)' + Pending' + Counted'
  <2> DEFINE k == Len(written)
  <2> DEFINE p == Pending
  <2> DEFINE q == Counted
  <2> DEFINE x == Pending'
  <2> DEFINE y == Counted'
  <2>1. k \in Nat /\ p \in Nat /\ q \in Nat /\ x \in Nat /\ y \in Nat
    BY <1>0, <1>3
  <2>2. x + y = p + q
    BY <1>3
  <2>3. k + x + y = k + p + q
    <3> HIDE DEF k, p, q, x, y
    <3> QED
      BY <2>1, <2>2
  <2> QED
    BY <1>1, <2>3 DEF PacedInv, InstructionRound
<1>5. pc \notin {"receive", "poll"} => Pending' = 0
  BY <1>2 DEF PacedInv, InstructionRound
<1> QED
  BY <1>1, <1>4, <1>5 DEF PacedInv, InstructionRound

\* The paced peer instructs when the round before is over.
LEMMA InstructPaced ==
  ASSUME PacedPeer, Types, PacedInv, Instruct PROVE InstructionRound'
<1>1. /\ pc = "receive" /\ Len(written) = instructed
      /\ instructed' = instructed + 1
      /\ Pending' = Pending + 1
      /\ UNCHANGED <<pc, received_cnt, written, sub>>
  BY InstructionFacts
  DEF Instruct, PacedPeer, MsgIds, Pending, recordVars, fileVars
<1>2. Counted = 0 /\ Counted' = 0
  BY <1>1 DEF Counted, InRound
<1>3. instructed' = Len(written)' + Pending' + Counted'
  BY <1>1, <1>2, InstructionFacts DEF PacedInv, InstructionRound
<1>4. instructed' <= Len(written)' + 1
  BY <1>1, InstructionFacts
<1> QED
  BY <1>1, <1>3, <1>4 DEF InstructionRound

LEMMA StepPaced ==
  ASSUME PacedPeer, Types, PacedInv, [Next]_vars PROVE PacedInv'
<1> USE DEF recordVars, fileVars
<1>1. RecordInv'
  <2>1. ~FailWrite /\ ~Race
    BY DEF PacedPeer, FailWrite, Race, PacedInv, RecordInv, RecordRound
  <2>2. CASE SendAttrs
    BY <2>2, OtherRecords DEF SendAttrs, PacedInv
  <2> QED
    BY <2>1, <2>2, MainRecords, RecvRecords, WriteRecords, PacedSends,
       OtherRecords
    DEF Next, PacedInv, PacedPeer
<1>a. ASSUME UNCHANGED <<written, writing, ofile_pathname>> PROVE FileNamed'
  BY <1>a DEF PacedInv, FileNamed, LastPathname, Pathname
<1>b. ASSUME UNCHANGED <<pc, trwriter0, received_cnt, instructed, written, sub>>
      PROVE  InstructionRound'
  BY <1>b DEF PacedInv, InstructionRound, Counted, InRound, Pending
<1>2. CASE Attrs \/ AttrsCallback \/ SendAttrs \/ SendTR \/ UNCHANGED vars
  <2>1. UNCHANGED <<pc, trwriter0, received_cnt, instructed, written, writing,
                    ofile_pathname, sub>>
    BY <1>2
    DEF Attrs, AddAttrsCallback, AttrsDone, RemoveAttrsCallback, AttrsCallback,
        SendAttrs, Announce, SendTR, Deliver, vars, handshakeVars
  <2> QED
    BY <1>1, <1>a, <1>b, <2>1 DEF PacedInv
<1>3. ASSUME NEW m \in MsgIds, Callback(m) PROVE PacedInv'
  BY <1>1, <1>3, <1>a, CountPaced DEF PacedInv, Callback
<1>4. CASE Instruct
  BY <1>1, <1>4, <1>a, InstructPaced DEF PacedInv, Instruct
<1>5. CASE Chatter
  <2>1. Pending' = Pending
    BY <1>5, InstructionFacts DEF Chatter, Pending, MsgIds
  <2>2. InstructionRound'
    BY <1>5, <2>1
    DEF PacedInv, InstructionRound, Counted, InRound, Chatter
  <2> QED
    BY <1>1, <1>5, <1>a, <2>2 DEF PacedInv, Chatter
<1>6. ~FailWrite /\ ~Race
  BY DEF PacedPeer, FailWrite, Race, PacedInv, RecordInv, RecordRound
<1> QED
  BY <1>1, <1>2, <1>3, <1>4, <1>5, <1>6, MainPaced, RecvPaced, WritePaced
  DEF Next, PacedInv

LEMMA AlwaysPaced == ASSUME PacedPeer PROVE Spec => []PacedInv
<1>1. Types /\ PacedInv /\ [Next]_vars => PacedInv'
  BY StepPaced
<1> QED
  BY <1>1, InitPaced, AlwaysTypes, PTL DEF Spec

\* With a paced peer every record is written in the order of sending, for
\* every stream of records: none falls between two rounds.
THEOREM RecordsInOrder ==
  ASSUME PacedPeer PROVE Spec => []EveryRecordInOrder
<1>1. PacedInv => EveryRecordInOrder
  BY DEF PacedInv, RecordInv, RecordRound, InOrder, EveryRecordInOrder
<1> QED
  BY <1>1, AlwaysPaced, PTL

\* With a paced peer the message "received" of a round names the file of the
\* round before it, for every stream of records.
THEOREM AckNamesBefore ==
  ASSUME PacedPeer PROVE Spec => AckNamesFileBefore
<1>1. Types /\ PacedInv /\ [Next]_vars
        => [acks' # acks => acks' = Len(written) + 1 /\ named' = LastPathname]_vars
  <2> SUFFICES ASSUME Types, PacedInv, Next, acks' # acks
               PROVE  acks' = Len(written) + 1 /\ named' = LastPathname
    OBVIOUS
  <2>1. SendAck
    BY DEF Next, Main, AddCallback, HandshakeDone, Subscribe, AllDone,
           RemoveRecordCallback, RemoveCallback, Attrs, AddAttrsCallback,
           AttrsDone, RemoveAttrsCallback, AttrsCallback, Callback, RecvTR,
           TakeTR, WriteTR, FailWrite, Race, Instruct, SendTR, Deliver,
           SendAttrs, Announce, Chatter, ackVars
  <2>2. pc = "ack" /\ writing = <<>>
    BY <2>1 DEF SendAck, PacedInv, RecordInv, RecordRound
  <2> QED
    BY <2>1, <2>2 DEF SendAck, PacedInv, RecordInv, RecordRound, FileNamed
<1> QED
  BY <1>1, AlwaysPaced, AlwaysTypes, PTL
  DEF Spec, AckNamesFileBefore, LastPathname
=============================================================================
