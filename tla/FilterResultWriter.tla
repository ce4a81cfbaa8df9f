------------------------- MODULE FilterResultWriter -------------------------
(***************************************************************************)
(* The filter result writer program.  Its main thread calls receive_tr()   *)
(* for ever: wait for a "write_tr" instruction on "trwriter0", register    *)
(* the callback of the trigger record connection, send the bookkeeping     *)
(* message "received", wait until the callback has written a record, and   *)
(* remove both callbacks.  A second thread, receive_attrs(), learns the    *)
(* file index from the first message on "bookkeeping1" and ends.           *)
(*                                                                         *)
(* Every connection has an event loop of its own, which runs the callback  *)
(* for one message after the other while one is registered; removing a     *)
(* callback waits for the call in progress.                                *)
(***************************************************************************)
EXTENDS Naturals, Sequences

CONSTANTS
  Files,            \* data files of a run, each named by its file index
  Stream,           \* the trigger records that are sent, in order
  NumMessages,      \* num_messages
  MaxInstructions,  \* bound: "write_tr" instructions ever sent
  MaxAttrs,         \* bound: bookkeeping messages ever sent
  TriggerRange,     \* 2^w for the w bits of the int of a trigger number in a
                    \* path name
  MayFail,          \* whether a file may not be created or written
  Paced             \* whether the peer awaits the end of each round, and
                    \* sends a record after "received" and after it has
                    \* announced the file of the record

TriggerRecords == [file : Files, trigger : Nat, seq : Nat]

ASSUME FRWAssumption ==
  /\ Files \subseteq Nat \ {0}
  /\ Stream \in Seq(TriggerRecords)
  /\ NumMessages \in Nat \ {0}
  /\ MaxInstructions \in Nat /\ MaxAttrs \in Nat
  /\ TriggerRange \in Nat \ {0}
  /\ MayFail \in BOOLEAN /\ Paced \in BOOLEAN

VARIABLES
  trwriter0,      \* queued messages by id
  trs,            \* queued trigger records
  bookkeeping1,   \* queued bookkeeping messages, each with the file index of
                  \* its attributes, or NoIndex
  pc,             \* where the main thread is in receive_tr()
  received_cnt,   \* write_tr instructions counted by the callback
  sub,            \* the one entry of subscribers
  writing,        \* the record that recv_proc is writing, with its index
  ofile_pathname, \* config.ofile_pathname
  disk,           \* the output files, by path name
  attrs,          \* where the thread of receive_attrs() is
  attrs_cnt,      \* messages counted by its callback
  m_file_index,   \* the index used in file names
  instructed,     \* history: instructions sent
  sent,           \* history: records sent, in order
  announced,      \* history: bookkeeping messages sent
  acks,           \* history: "received" messages sent to bookkeeping0
  named,          \* tr_writer_pathname of the last of them
  taken,          \* history: records handed to recv_proc
  written,        \* history: records written, each with the index of its file
  failed          \* history: the record that could not be written, with the
                  \* index of its file, if there was one

handshakeVars == <<trwriter0, received_cnt, instructed>>
attrsVars == <<bookkeeping1, attrs, attrs_cnt, m_file_index, announced>>
fileVars == <<writing, ofile_pathname, disk, written, failed>>
recordVars == <<trs, sub, sent, taken, fileVars>>
ackVars == <<acks, named>>
vars == <<pc, ackVars, handshakeVars, attrsVars, recordVars>>

MsgIds == {"write_tr", "other"}
NoIndex == 0
Indices == Files \cup {NoIndex}
\* generate_hdf5file_pathname() of one run: the index and the trigger number,
\* narrowed to an int; the sequence number is not in it.
Paths == Indices \X (0..TriggerRange - 1)
NoPath == <<>>
TornPath == <<"torn">>

\* Mutant: the name has the sequence number instead of the trigger number.
PathnameOfSequence(record, index) == <<index, record.seq % TriggerRange>>

Pathname(record, index) == <<index, record.trigger % TriggerRange>>

NoRecord == [file |-> NoIndex, trigger |-> 0, seq |-> 0]
\* A file that was closed in the middle of its record.
HalfWritten == [NoRecord EXCEPT !.seq = 1]
NewSubscriber == [msgs_received |-> 0, complete |-> FALSE]
PCs == {"receive", "poll", "subscribe", "ack", "wait", "removetr", "remove",
        "dead"}
Running == pc # "dead"

Init ==
  /\ trwriter0 = [m \in MsgIds |-> 0]
  /\ trs = <<>>
  /\ bookkeeping1 = <<>>
  /\ pc = "receive"
  /\ received_cnt = 0
  /\ sub = NewSubscriber
  /\ writing = <<>>
  /\ ofile_pathname = NoPath
  /\ disk = [p \in Paths |-> NoRecord]
  /\ attrs = "register"
  /\ attrs_cnt = 0
  /\ m_file_index = NoIndex
  /\ instructed = 0 /\ sent = <<>> /\ announced = <<>>
  /\ acks = 0 /\ named = NoPath /\ taken = 0 /\ written = <<>> /\ failed = <<>>

-----------------------------------------------------------------------------
(* The main thread: receive_tr(). *)

AddCallback ==
  /\ pc = "receive"
  /\ pc' = "poll"
  /\ received_cnt' = 0
  /\ UNCHANGED <<ackVars, trwriter0, instructed, attrsVars, recordVars>>

HandshakeDone ==
  /\ pc = "poll"
  /\ received_cnt = 1
  /\ pc' = "subscribe"
  /\ UNCHANGED <<ackVars, handshakeVars, attrsVars, recordVars>>

\* Mutant: the entry of the last round is used again.
SubscribeAgain ==
  /\ pc = "subscribe"
  /\ pc' = "ack"
  /\ UNCHANGED <<ackVars, handshakeVars, attrsVars, recordVars>>

\* A new SubscriberInfo, and its callback on the record connection.
Subscribe ==
  /\ pc = "subscribe"
  /\ pc' = "ack"
  /\ sub' = NewSubscriber
  /\ UNCHANGED <<ackVars, handshakeVars, attrsVars, trs, sent, taken, fileVars>>

\* The message "received" leaves before the wait for the record.  It copies the
\* path name while recv_proc may be assigning it, without a lock.
SendAck ==
  /\ pc = "ack"
  /\ pc' = "wait"
  /\ acks' = acks + 1
  /\ \/ named' = ofile_pathname
     \/ writing # <<>> /\ named' = TornPath
  /\ UNCHANGED <<handshakeVars, attrsVars, recordVars>>

AllDone ==
  /\ pc = "wait"
  /\ sub.complete
  /\ pc' = "removetr"
  /\ UNCHANGED <<ackVars, handshakeVars, attrsVars, recordVars>>

RemoveRecordCallback ==
  /\ pc = "removetr"
  /\ writing = <<>>
  /\ pc' = "remove"
  /\ UNCHANGED <<ackVars, handshakeVars, attrsVars, recordVars>>

\* The instruction callback was registered all the time until here.
RemoveCallback ==
  /\ pc = "remove"
  /\ pc' = "receive"
  /\ UNCHANGED <<ackVars, handshakeVars, attrsVars, recordVars>>

-----------------------------------------------------------------------------
(* The event loops of "trwriter0" and of the record connection. *)

Callback(m) ==
  /\ Running /\ pc # "receive"
  /\ trwriter0[m] > 0
  /\ trwriter0' = [trwriter0 EXCEPT ![m] = @ - 1]
  /\ received_cnt' = IF m = "write_tr" THEN received_cnt + 1 ELSE received_cnt
  /\ UNCHANGED <<pc, ackVars, instructed, attrsVars, recordVars>>

\* recv_proc takes a record from the queue and counts it.
TakeTR ==
  /\ pc \in {"ack", "wait", "removetr"}
  /\ writing = <<>>
  /\ trs # <<>>
  /\ trs' = Tail(trs)
  /\ taken' = taken + 1
  /\ sub' = [sub EXCEPT !.msgs_received = @ + 1]
  /\ UNCHANGED <<pc, ackVars, handshakeVars, attrsVars, sent,
                 disk, written, failed>>

\* Mutant: the path name is made once.
StartWritingNamesOnce(record) ==
  /\ writing' = <<record, m_file_index>>
  /\ ofile_pathname' = IF ofile_pathname = NoPath
                         THEN Pathname(record, m_file_index)
                         ELSE ofile_pathname

StartWriting(record) ==
  /\ writing' = <<record, m_file_index>>
  /\ ofile_pathname' = Pathname(record, m_file_index)

\* Mutant: every record is written.
RecvEveryTR ==
  TakeTR /\ StartWriting(Head(trs))

\* Mutant: one record more is awaited.
RecvOneTRMore ==
  /\ TakeTR
  /\ IF sub'.msgs_received = NumMessages + 1
       THEN StartWriting(Head(trs))
       ELSE UNCHANGED <<writing, ofile_pathname>>

\* Only the record that makes the count equal num_messages is written; a
\* record before or after it in the same round is let go.
RecvTR ==
  /\ TakeTR
  /\ IF sub'.msgs_received = NumMessages
       THEN StartWriting(Head(trs))
       ELSE UNCHANGED <<writing, ofile_pathname>>

\* The file is written next to an old one of that name, takes its place when
\* it is closed, and completes the round.
WriteTR ==
  /\ Running
  /\ writing # <<>>
  /\ disk' = [disk EXCEPT ![Pathname(writing[1], writing[2])] = writing[1]]
  /\ written' = Append(written, writing)
  /\ writing' = <<>>
  /\ sub' = [sub EXCEPT !.complete = TRUE]
  /\ UNCHANGED <<pc, ackVars, handshakeVars, attrsVars, trs, sent, taken,
                 ofile_pathname, failed>>

\* Mutant: a write that failed completes the round as well.
FailedWriteCompletes ==
  /\ MayFail
  /\ Running
  /\ writing # <<>>
  /\ writing' = <<>>
  /\ sub' = [sub EXCEPT !.complete = TRUE]
  /\ failed' = writing
  /\ UNCHANGED <<pc, ackVars, handshakeVars, attrsVars, trs, sent, taken,
                 ofile_pathname, disk, written>>

\* The exception leaves the callback before complete is set: the event loop
\* drops it or the program ends, depending on its class.  If the file had been
\* created, its destructor closes it on the way, and the half-written file
\* takes the place of an old one of that name.
FailWrite ==
  /\ MayFail
  /\ Running
  /\ writing # <<>>
  /\ writing' = <<>>
  /\ failed' = writing
  /\ disk' \in {disk, [disk EXCEPT
                       ![Pathname(writing[1], writing[2])] = HalfWritten]}
  /\ pc' \in {pc, "dead"}
  /\ UNCHANGED <<ackVars, handshakeVars, attrsVars, trs, sub, sent, taken,
                 ofile_pathname, written>>

\* The copy of SendAck may also end the program by a bad access.
Race ==
  /\ pc = "ack"
  /\ writing # <<>>
  /\ pc' = "dead"
  /\ UNCHANGED <<ackVars, handshakeVars, attrsVars, recordVars>>

-----------------------------------------------------------------------------
(* The thread of receive_attrs() and the event loop of "bookkeeping1". *)

AddAttrsCallback ==
  /\ Running
  /\ attrs = "register"
  /\ attrs' = "poll"
  /\ UNCHANGED <<pc, ackVars, handshakeVars, recordVars,
                 bookkeeping1, attrs_cnt, m_file_index, announced>>

\* Mutant: every message sets the index.
AttrsCallbackEveryTime ==
  /\ Running
  /\ attrs \in {"poll", "remove"}
  /\ bookkeeping1 # <<>>
  /\ bookkeeping1' = Tail(bookkeeping1)
  /\ attrs_cnt' = attrs_cnt + 1
  /\ m_file_index' = IF Head(bookkeeping1) # NoIndex
                       THEN Head(bookkeeping1) ELSE m_file_index
  /\ UNCHANGED <<pc, ackVars, handshakeVars, recordVars, attrs, announced>>

\* Mutant: the index is counted from one.
AttrsCallbackOffByOne ==
  /\ Running
  /\ attrs \in {"poll", "remove"}
  /\ bookkeeping1 # <<>>
  /\ bookkeeping1' = Tail(bookkeeping1)
  /\ attrs_cnt' = attrs_cnt + 1
  /\ m_file_index' = IF attrs_cnt' = 1 /\ Head(bookkeeping1) # NoIndex
                       THEN Head(bookkeeping1) + 1 ELSE m_file_index
  /\ UNCHANGED <<pc, ackVars, handshakeVars, recordVars, attrs, announced>>

\* Only the first message counts, and only if it names an index.
AttrsCallback ==
  /\ Running
  /\ attrs \in {"poll", "remove"}
  /\ bookkeeping1 # <<>>
  /\ bookkeeping1' = Tail(bookkeeping1)
  /\ attrs_cnt' = attrs_cnt + 1
  /\ m_file_index' = IF attrs_cnt' = 1 /\ Head(bookkeeping1) # NoIndex
                       THEN Head(bookkeeping1) ELSE m_file_index
  /\ UNCHANGED <<pc, ackVars, handshakeVars, recordVars, attrs, announced>>

AttrsDone ==
  /\ Running
  /\ attrs = "poll"
  /\ attrs_cnt = 1
  /\ attrs' = "remove"
  /\ UNCHANGED <<pc, ackVars, handshakeVars, recordVars,
                 bookkeeping1, attrs_cnt, m_file_index, announced>>

RemoveAttrsCallback ==
  /\ Running
  /\ attrs = "remove"
  /\ attrs' = "ended"
  /\ UNCHANGED <<pc, ackVars, handshakeVars, recordVars,
                 bookkeeping1, attrs_cnt, m_file_index, announced>>

-----------------------------------------------------------------------------
(* The peer, a program of another repository. *)

\* A paced peer instructs again when the round before it is over.
Instruct ==
  /\ instructed < MaxInstructions
  /\ Paced => pc = "receive" /\ Len(written) = instructed
  /\ trwriter0' = [trwriter0 EXCEPT !["write_tr"] = @ + 1]
  /\ instructed' = instructed + 1
  /\ UNCHANGED <<pc, ackVars, received_cnt, attrsVars, recordVars>>

Deliver(record) ==
  /\ trs' = Append(trs, record)
  /\ sent' = Append(sent, record)
  /\ UNCHANGED <<pc, ackVars, handshakeVars, attrsVars, sub, taken, fileVars>>

\* The attributes of a file, or a message that carries none.
Announce(index) ==
  /\ bookkeeping1' = Append(bookkeeping1, index)
  /\ announced' = Append(announced, index)
  /\ UNCHANGED <<pc, ackVars, handshakeVars, recordVars,
                 attrs, attrs_cnt, m_file_index>>

MoreToSend == Len(sent) < Len(Stream)
NextTR == Stream[Len(sent) + 1]
NextFileAnnounced ==
  announced # <<>> /\ announced[Len(announced)] = NextTR.file

SendTR ==
  /\ MoreToSend
  /\ Paced => Len(sent) < acks * NumMessages /\ NextFileAnnounced
  /\ Deliver(NextTR)

SendAttrs ==
  /\ Len(announced) < MaxAttrs
  /\ \E i \in Indices :
       /\ Paced => MoreToSend /\ ~NextFileAnnounced /\ i = NextTR.file
       /\ Announce(i)

Chatter ==
  /\ trwriter0["other"] = 0
  /\ trwriter0' = [trwriter0 EXCEPT !["other"] = @ + 1]
  /\ UNCHANGED <<pc, ackVars, received_cnt, instructed, attrsVars, recordVars>>

-----------------------------------------------------------------------------
Main ==
  \/ AddCallback \/ HandshakeDone \/ Subscribe \/ SendAck
  \/ AllDone \/ RemoveRecordCallback \/ RemoveCallback

Attrs == AddAttrsCallback \/ AttrsDone \/ RemoveAttrsCallback

Next ==
  \/ Main \/ Attrs
  \/ \E m \in MsgIds : Callback(m)
  \/ RecvTR \/ WriteTR \/ FailWrite \/ Race \/ AttrsCallback
  \/ Instruct \/ SendTR \/ SendAttrs \/ Chatter

\* The threads and the event loops run on; a peer sends the records it has
\* announced with an instruction.
Fairness ==
  /\ WF_vars(Main) /\ WF_vars(Attrs)
  /\ WF_vars(Callback("write_tr")) /\ WF_vars(RecvTR \/ WriteTR \/ FailWrite)
  /\ WF_vars(AttrsCallback)
  /\ WF_vars(SendTR) /\ WF_vars(SendAttrs)

Spec == Init /\ [][Next]_vars
FairSpec == Spec /\ Fairness

-----------------------------------------------------------------------------
(* Properties. *)

\* Every variable stays in its range.
TypeOK ==
  /\ trwriter0 \in [MsgIds -> Nat]
  /\ trs \in Seq(TriggerRecords)
  /\ bookkeeping1 \in Seq(Indices)
  /\ pc \in PCs
  /\ received_cnt \in Nat
  /\ sub \in [msgs_received : Nat, complete : BOOLEAN]
  /\ writing \in {<<>>} \cup (TriggerRecords \X Indices)
  /\ attrs \in {"register", "poll", "remove", "ended"}
  /\ attrs_cnt \in Nat
  /\ m_file_index \in Indices
  /\ instructed \in 0..MaxInstructions
  /\ ofile_pathname \in Paths \cup {NoPath}
  /\ disk \in [Paths -> TriggerRecords \cup {NoRecord, HalfWritten}]
  /\ sent \in Seq(TriggerRecords)
  /\ announced \in Seq(Indices)
  /\ acks \in Nat
  /\ named \in Paths \cup {NoPath, TornPath}
  /\ taken \in 0..Len(sent)
  /\ written \in Seq(TriggerRecords \X Indices)
  /\ failed \in {<<>>} \cup (TriggerRecords \X Indices)

\* Every record that is written has a "write_tr" instruction of its own that
\* was received, however many records and instructions pile up.
OneWritePerInstruction ==
  Len(written) + (IF writing = <<>> THEN 0 ELSE 1)
    <= instructed - trwriter0["write_tr"]

\* A round that waits for its record ends when one arrives, unless a write
\* fails: the callback and the loop of receive_tr() agree on the subscriber
\* entry of this round.
RoundEnds == (pc = "wait" /\ trs # <<>>) ~> (pc = "receive" \/ failed # <<>>)

\* After a write that failed the program never writes again nor begins another
\* round, however many instructions and records still come: the count has
\* passed num_messages and complete is never set.
FailedWriteIsFinal ==
  [][failed # <<>> => written' = written /\ pc' # "receive"]_vars

\* The name a record is written under: its index and its trigger number, as far
\* as an int can tell.
NameOf(write) == <<write[2], write[1].trigger % TriggerRange>>

\* A record that is written stays on the disk, under the file index as it was
\* known, until another of the same index and trigger number is written or is
\* not written to its end: nothing else ever gets its name.
ReplacedOnlyByNamesake ==
  \A n \in 1..Len(written) :
    \/ disk[NameOf(written[n])] = written[n][1]
    \/ \E m \in n + 1..Len(written) : NameOf(written[m]) = NameOf(written[n])
    \/ failed # <<>> /\ NameOf(failed) = NameOf(written[n])

\* Whatever bookkeeping arrives later, the names of all files written in the
\* life of the program use the index of the first message, or none.
IndexOfFirstMessage ==
  \A n \in 1..Len(written) :
    written[n][2] # NoIndex => written[n][2] = announced[1]

\* With a paced peer every record sent is written, in the order of sending:
\* no record falls between two rounds and none is let go in a round.
EveryRecordInOrder ==
  /\ taken = Len(written) + (IF writing = <<>> THEN 0 ELSE 1)
  /\ \A n \in 1..Len(written) : written[n][1] = sent[n]

\* With a paced peer the n-th message "received" names the file of the record
\* BEFORE the n-th, or none: no message names a file that is not there, none
\* names the file of its own round, and that of the last record is never named.
AckNamesFileBefore ==
  [][acks' # acks =>
       /\ acks' = Len(written) + 1
       /\ named' = IF written = <<>> THEN NoPath
                   ELSE LET last == written[Len(written)]
                        IN  Pathname(last[1], last[2])]_vars

\* With a paced peer each instruction leads to one written record: the
\* program is a relay in the sense of RequestRelay.
Relay == INSTANCE RequestRelay WITH
  asked <- instructed, answered <- Len(written)
RelaySpec == Relay!Spec

\* The message "received" says that the record was received (the comment at
\* FilterResultWriter.hpp:625).
AckMeansReceived == acks <= taken

\* The file index is known before the record is written (the comment at
\* trdispatcher.hpp:586-588), so the output names the file it came from.
IndexKnownWhenWritten ==
  \A n \in 1..Len(written) : written[n][2] = written[n][1].file
=============================================================================
