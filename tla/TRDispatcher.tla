---------------------------- MODULE TRDispatcher ----------------------------
(***************************************************************************)
(* The trigger record dispatcher program.  The main thread picks a data    *)
(* file, waits in receive() for one request on "trdispatcher0", announces  *)
(* the file and starts one sender thread per entry of its vector           *)
(* trdispatchers.  A sender tries to hand every record to the connection   *)
(* "conn_A0_G0_C0_", notes the file in the ledger and sends the            *)
(* bookkeeping message "send".  The main thread joins the senders.         *)
(*                                                                         *)
(* Mode is the command line: "storage" (--from_storage) loops for ever     *)
(* over the files of the storage directory, "hdf5" (--hdf5) sends Input    *)
(* once per run, "generated" sends one made-up record per run.             *)
(***************************************************************************)
EXTENDS HDF5FromStorage

CONSTANTS
  Mode,          \* "storage", "hdf5" or "generated"
  Input,         \* --ifilename, the file sent in mode "hdf5"
  NumRuns,       \* --num_runs
  Records,       \* number of trigger records of each file
  Damaged,       \* files that cannot be read to their end: the constructor,
                 \* an attribute or some record throws, each time
  MaxRequests,   \* bound: requests ever sent to this program
  Window,        \* bound: requests that may wait for this program at once
  MayCrash       \* whether the process can be killed

\* A record made by create_trigger_record() is a source of its own.
Dummy == 0
Sources == Files \cup {Dummy}
RecordIds == UNION {{s} \X (1..Records[s]) : s \in Sources}

\* Thread 0 is the main thread, the others are the senders of the entries of
\* trdispatchers: there can be one more of them in each run.
Senders == Threads \ {0}

ASSUME TRDispatcherAssumption ==
  /\ Files \subseteq Nat \ {Dummy}
  /\ Threads = 0..(IF Mode = "storage" THEN 1 ELSE NumRuns)
  /\ Mode \in {"storage", "hdf5", "generated"}
  /\ Input \in Files
  /\ NumRuns \in Nat \ {0}
  /\ Records \in [Sources -> Nat] /\ Records[Dummy] = 1
  /\ Damaged \subseteq Files
  /\ MaxRequests \in Nat
  /\ Window \in Nat \ {0}
  /\ MayCrash \in BOOLEAN

VARIABLES
  alive,          \* the process runs
  pc,             \* where the main thread is
  run,            \* completed runs (modes "hdf5" and "generated")
  files,          \* what is left of the last scan
  current,        \* config.input_h5_filename, or Dummy
  trdispatcher0,  \* queued messages by id
  received_cnt,   \* the counter captured by the callback of receive()
  trdispatchers,  \* number of entries of the vector
  sender,         \* per sender thread: where it is, and its next record
  fate,           \* history, per record: what became of it
  booked,         \* history: files whose bookkeeping message "send" has left
  requested,      \* history: requests sent to this program
  rounds          \* history: requests taken by receive()

mainVars == <<pc, run, files, current>>
requestVars == <<trdispatcher0, received_cnt, requested, rounds>>
senderVars == <<trdispatchers, sender, fate, booked>>
vars == <<storeVars, alive, mainVars, requestVars, senderVars>>

MsgIds == {"trdispatcher0", "other"}
PCs == {"scan", "next", "receive", "poll", "remove",
        "open", "announce", "spawn", "join", "finished"}
NotStarted == [pc |-> "none", next |-> 1]
SenderStates ==
  [pc : {"none", "send", "ledger", "done"}, next : Nat \ {0}]
Fates == {"unsent", "timeout", "accepted"}

StartPC == IF Mode = "storage" THEN "scan" ELSE "next"

Init ==
  /\ InitStore
  /\ alive = TRUE
  /\ pc = StartPC
  /\ run = 0
  /\ files = {}
  /\ current = Dummy
  /\ trdispatcher0 = [m \in MsgIds |-> 0]
  /\ received_cnt = 0
  /\ trdispatchers = 0
  /\ sender = [t \in Senders |-> NotStarted]
  /\ fate = [id \in RecordIds |-> "unsent"]
  /\ booked = {}
  /\ requested = 0
  /\ rounds = 0

-----------------------------------------------------------------------------
(* main(): the choice of the next source. *)

\* get_hdf5files_from_storage() constructs an HDF5FromStorage object.
Scan ==
  /\ alive /\ pc = "scan"
  /\ ConstructorStep(0)
  /\ UNCHANGED <<alive, mainVars, requestVars, senderVars>>

Scanned ==
  /\ alive /\ pc = "scan"
  /\ obj[0].pc = "built"
  /\ files' = obj[0].to_transfer
  /\ pc' = "next"
  /\ Forget(0)
  /\ UNCHANGED <<json, storage, recorded, alive, run, current,
                 requestVars, senderVars>>

\* Mutant: the files come in any order.
NextFileUnsorted ==
  /\ alive /\ pc = "next" /\ Mode = "storage"
  /\ \E f \in files : current' = f /\ files' = files \ {f}
  /\ pc' = "receive"
  /\ UNCHANGED <<storeVars, alive, run, requestVars, senderVars>>

\* The files were sorted by name.
NextFile ==
  /\ alive /\ pc = "next" /\ Mode = "storage"
  /\ \E f \in files :
       /\ \A g \in files : f <= g
       /\ current' = f
       /\ files' = files \ {f}
  /\ pc' = "receive"
  /\ UNCHANGED <<storeVars, alive, run, requestVars, senderVars>>

Rescan ==
  /\ alive /\ pc = "next" /\ Mode = "storage"
  /\ files = {}
  /\ pc' = "scan"
  /\ UNCHANGED <<storeVars, alive, run, files, current,
                 requestVars, senderVars>>

NextRun ==
  /\ alive /\ pc = "next" /\ Mode # "storage"
  /\ IF run < NumRuns
       THEN /\ current' = IF Mode = "hdf5" THEN Input ELSE Dummy
            /\ pc' = "receive"
       ELSE pc' = "finished" /\ UNCHANGED current
  /\ UNCHANGED <<storeVars, alive, run, files, requestVars, senderVars>>

-----------------------------------------------------------------------------
(* receive(): wait for one request. *)

\* Mutant: the counter of the last call is kept.
AddCallbackKeepsCount ==
  /\ alive /\ pc = "receive"
  /\ pc' = "poll"
  /\ UNCHANGED <<storeVars, alive, run, files, current,
                 requestVars, senderVars>>

AddCallback ==
  /\ alive /\ pc = "receive"
  /\ pc' = "poll"
  /\ received_cnt' = 0
  /\ UNCHANGED <<storeVars, alive, run, files, current,
                 trdispatcher0, requested, rounds, senderVars>>

Callback(m) ==
  /\ alive /\ pc \in {"poll", "remove"}
  /\ trdispatcher0[m] > 0
  /\ trdispatcher0' = [trdispatcher0 EXCEPT ![m] = @ - 1]
  /\ received_cnt' = IF m = "trdispatcher0" THEN received_cnt + 1
                                            ELSE received_cnt
  /\ UNCHANGED <<storeVars, alive, mainVars, requested, rounds, senderVars>>

\* Mutant: the loop waits for two.
HandshakeDoneAtTwo ==
  /\ alive /\ pc = "poll"
  /\ received_cnt = 2
  /\ pc' = "remove"
  /\ rounds' = rounds + 1
  /\ UNCHANGED <<storeVars, alive, run, files, current,
                 trdispatcher0, received_cnt, requested, senderVars>>

HandshakeDone ==
  /\ alive /\ pc = "poll"
  /\ received_cnt = 1
  /\ pc' = "remove"
  /\ rounds' = rounds + 1
  /\ UNCHANGED <<storeVars, alive, run, files, current,
                 trdispatcher0, received_cnt, requested, senderVars>>

RemoveCallback ==
  /\ alive /\ pc = "remove"
  /\ pc' = "open"
  /\ UNCHANGED <<storeVars, alive, run, files, current,
                 requestVars, senderVars>>

-----------------------------------------------------------------------------
(* send_tr_from_hdf5file() and send_tr(): the main thread. *)

\* The last record is looked up before the test for an empty file: that is
\* std::next(begin, -1) of an empty set, which may end the process or may
\* yield a value that is only logged.  Then the bookkeeping message with the
\* file attributes leaves.  The damage of a file may lie behind all this.
OpenFile ==
  /\ alive /\ pc = "open"
  /\ pc' = "announce"
  /\ UNCHANGED <<storeVars, alive, run, files, current,
                 requestVars, senderVars>>

\* What the constructor or get_attribute() throws is caught by nobody.
OpenFails ==
  /\ alive /\ pc = "open"
  /\ Records[current] = 0 \/ current \in Damaged
  /\ alive' = FALSE
  /\ UNCHANGED <<storeVars, mainVars, requestVars, senderVars>>

\* The handshake "next_tr" leaves on "TR_tracking2".
Announce ==
  /\ alive /\ pc = "announce"
  /\ pc' = "spawn"
  /\ UNCHANGED <<storeVars, alive, run, files, current,
                 requestVars, senderVars>>

\* Mutant: the first record is skipped.
SpawnSendersAtSecond ==
  /\ alive /\ pc = "spawn"
  /\ trdispatchers' = trdispatchers + 1
  /\ sender' = [t \in Senders |-> IF t <= trdispatchers'
                                    THEN [pc |-> "send", next |-> 2]
                                    ELSE sender[t]]
  /\ pc' = "join"
  /\ UNCHANGED <<storeVars, alive, run, files, current,
                 requestVars, fate, booked>>

\* A new entry is appended and EVERY entry gets a thread.
SpawnSenders ==
  /\ alive /\ pc = "spawn"
  /\ trdispatchers' = trdispatchers + 1
  /\ sender' = [t \in Senders |-> IF t <= trdispatchers'
                                    THEN [pc |-> "send", next |-> 1]
                                    ELSE sender[t]]
  /\ pc' = "join"
  /\ UNCHANGED <<storeVars, alive, run, files, current,
                 requestVars, fate, booked>>

Joined == \A t \in 1..trdispatchers : sender[t].pc = "done"

\* Mutant: the entry is never taken out.
JoinSendersKeeps ==
  /\ alive /\ pc = "join"
  /\ Joined
  /\ pc' = "next"
  /\ run' = IF Mode = "storage" THEN run ELSE run + 1
  /\ sender' = [t \in Senders |-> NotStarted]
  /\ UNCHANGED <<storeVars, alive, files, current, requestVars,
                 trdispatchers, fate, booked>>

\* Only the storage loop pops the entry again; send_tr() clears the vector.
JoinSenders ==
  /\ alive /\ pc = "join"
  /\ Joined
  /\ pc' = "next"
  /\ run' = IF Mode = "storage" THEN run ELSE run + 1
  /\ trdispatchers' = CASE Mode = "storage" -> trdispatchers - 1
                        [] Mode = "hdf5" -> trdispatchers
                        [] OTHER -> 0
  /\ sender' = [t \in Senders |-> NotStarted]
  /\ UNCHANGED <<storeVars, alive, files, current, requestVars, fate, booked>>

-----------------------------------------------------------------------------
(* The sender threads. *)

Sound(s) == s \notin Damaged /\ Records[s] > 0

Sending(t) ==
  /\ alive /\ pc = "join"
  /\ sender[t].pc = "send"

\* Not the record at which a damaged file breaks off, the last at the latest.
Readable(t) ==
  IF current \in Damaged THEN sender[t].next < Records[current]
                        ELSE sender[t].next <= Records[current]

\* try_send() gives up after its timeout and nobody looks at the result.  A
\* record counts as accepted once any attempt was.
SendRecord(t, result) ==
  /\ Sending(t)
  /\ Readable(t)
  /\ fate' = [fate EXCEPT ![<<current, sender[t].next>>] =
                IF @ = "accepted" THEN @ ELSE result]
  /\ sender' = [sender EXCEPT ![t].next = @ + 1]
  /\ UNCHANGED <<storeVars, alive, mainVars, requestVars,
                 trdispatchers, booked>>

\* get_trigger_record(), or at(0) of a record without fragments, throws out of
\* the thread: std::terminate().
ReadFails(t) ==
  /\ Sending(t)
  /\ current \in Damaged
  /\ sender[t].next <= Records[current]
  /\ alive' = FALSE
  /\ UNCHANGED <<storeVars, mainVars, requestVars, senderVars>>

\* "NO TRIGGER RECORDS FOUND": exit(0).
SendNothing(t) ==
  /\ Sending(t)
  /\ Records[current] = 0
  /\ alive' = FALSE
  /\ UNCHANGED <<storeVars, mainVars, requestVars, senderVars>>

\* Mutant: the loop ends before the last record.
SentAllButOne(t) ==
  /\ Sending(t)
  /\ Sound(current)
  /\ sender[t].next >= Records[current]
  /\ sender' = [sender EXCEPT ![t].pc =
                  IF current = Dummy THEN "done" ELSE "ledger"]
  /\ UNCHANGED <<storeVars, alive, mainVars, requestVars,
                 trdispatchers, fate, booked>>

\* The sender of a file goes on to the ledger.
SentAll(t) ==
  /\ Sending(t)
  /\ Sound(current)
  /\ sender[t].next > Records[current]
  /\ sender' = [sender EXCEPT ![t].pc =
                  IF current = Dummy THEN "done" ELSE "ledger"]
  /\ UNCHANGED <<storeVars, alive, mainVars, requestVars,
                 trdispatchers, fate, booked>>

NoteInLedger(t) ==
  /\ alive /\ sender[t].pc = "ledger"
  /\ ConstructorStep(t) \/ WriteJSON(t, current) \/ WriterStep(t)
  /\ UNCHANGED <<alive, mainVars, requestVars, senderVars>>

SendBookkeeping(t) ==
  /\ alive /\ sender[t].pc = "ledger"
  /\ obj[t].pc = "written"
  /\ booked' = booked \cup {current}
  /\ sender' = [sender EXCEPT ![t].pc = "done"]
  /\ Forget(t)
  /\ UNCHANGED <<json, storage, recorded, alive, mainVars, requestVars,
                 trdispatchers, fate>>

-----------------------------------------------------------------------------
(* The process and its surroundings. *)

\* Nothing catches what the class throws, in no thread: std::terminate().
Terminate ==
  /\ alive
  /\ \E t \in Threads : obj[t].pc = "threw"
  /\ alive' = FALSE
  /\ UNCHANGED <<storeVars, mainVars, requestVars, senderVars>>

\* Two senders use the open file, config and bk_info without a lock, and one
\* moves from bk_info while the other appends to it: the program may well go
\* on, and it may be ended by a bad access.
Race ==
  /\ alive
  /\ \E t, u \in Senders : t # u /\ {sender[t].pc, sender[u].pc}
                                      \subseteq {"send", "ledger"}
  /\ alive' = FALSE
  /\ UNCHANGED <<storeVars, mainVars, requestVars, senderVars>>

\* A kill, or an I/O error of a file that is sound.
Crash ==
  /\ MayCrash
  /\ alive /\ pc # "finished"
  /\ alive' = FALSE
  /\ UNCHANGED <<storeVars, mainVars, requestVars, senderVars>>

\* The ledger and the storage survive; queued messages may or may not.
Restart ==
  /\ ~alive
  /\ alive' = TRUE
  /\ pc' = StartPC
  /\ run' = 0
  /\ files' = {}
  /\ current' = Dummy
  /\ trdispatcher0' \in {trdispatcher0, [m \in MsgIds |-> 0]}
  /\ received_cnt' = 0
  /\ trdispatchers' = 0
  /\ sender' = [t \in Senders |-> NotStarted]
  /\ obj' = [t \in Threads |-> Idle]
  /\ UNCHANGED <<json, storage, recorded, fate, booked, requested, rounds>>

\* Requests that the callback has counted in this receive(): one more would be
\* merged with them.
InHand == IF pc \in {"poll", "remove"} THEN received_cnt ELSE 0

\* The filter orchestrator's request_next_tr().
Request ==
  /\ requested < MaxRequests
  /\ trdispatcher0["trdispatcher0"] + InHand < Window
  /\ trdispatcher0' = [trdispatcher0 EXCEPT !["trdispatcher0"] = @ + 1]
  /\ requested' = requested + 1
  /\ UNCHANGED <<storeVars, alive, mainVars, received_cnt, rounds, senderVars>>

\* Its init() sends other ids on the same connection; one is queued at most.
Chatter ==
  /\ trdispatcher0["other"] = 0
  /\ trdispatcher0' = [trdispatcher0 EXCEPT !["other"] = @ + 1]
  /\ UNCHANGED <<storeVars, alive, mainVars, received_cnt, requested, rounds,
                 senderVars>>

Age == StorageStep /\ UNCHANGED <<alive, mainVars, requestVars, senderVars>>

-----------------------------------------------------------------------------
ChooseSource == Scan \/ Scanned \/ NextFile \/ Rescan \/ NextRun

Main ==
  \/ ChooseSource
  \/ AddCallback \/ HandshakeDone \/ RemoveCallback
  \/ OpenFile \/ OpenFails \/ Announce \/ SpawnSenders \/ JoinSenders

Sender(t) ==
  \/ \E result \in {"accepted", "timeout"} : SendRecord(t, result)
  \/ ReadFails(t) \/ SendNothing(t) \/ SentAll(t)
  \/ NoteInLedger(t) \/ SendBookkeeping(t)

Next ==
  \/ Main
  \/ \E t \in Senders : Sender(t)
  \/ \E m \in MsgIds : Callback(m)
  \/ Terminate \/ Race \/ Crash \/ Restart
  \/ Request \/ Chatter \/ Age

\* Every thread goes on running and a queued request reaches the callback;
\* for liveness the peer also goes on asking.
Fairness ==
  /\ WF_vars(Main) /\ WF_vars(Callback("trdispatcher0"))
  /\ \A t \in Senders : WF_vars(Sender(t))
  /\ WF_vars(Request)

Spec == Init /\ [][Next]_vars
FairSpec == Spec /\ Fairness

-----------------------------------------------------------------------------
(* Properties. *)

\* Every variable stays in its range.
TypeOK ==
  /\ StoreTypeOK
  /\ alive \in BOOLEAN
  /\ pc \in PCs
  /\ run \in 0..NumRuns
  /\ files \in SUBSET Files
  /\ current \in Sources
  /\ trdispatcher0 \in [MsgIds -> Nat]
  /\ received_cnt \in Nat
  /\ trdispatchers \in Threads
  /\ sender \in [Senders -> SenderStates]
  /\ fate \in [RecordIds -> Fates]
  /\ booked \in SUBSET Files
  /\ requested \in 0..MaxRequests
  /\ rounds \in Nat

WholeFileOffered(f) ==
  /\ Records[f] > 0
  /\ \A r \in 1..Records[f] : fate[<<f, r>>] # "unsent"

\* A file name gets into the ledger only after a send was attempted for every
\* record of the file, whichever steps the process dies between, and a file
\* without records never gets there.
RecordedWasOffered == \A f \in recorded \ FirstNames : WholeFileOffered(f)

\* Run from storage, the program never sends again a file that was once
\* recorded: neither a restart nor a list scanned before the file was
\* recorded brings it back.
NoResendOfRecorded ==
  \A t \in Senders : sender[t].pc = "send" => current \notin recorded

\* Each request gives at most one round of sending; neither a counter kept
\* from the last call of receive() nor a restart makes a second one.
NoUnaskedRound ==
  rounds + trdispatcher0["trdispatcher0"]
    + (IF pc = "poll" THEN received_cnt ELSE 0) <= requested

Writing == alive /\ \E t \in Threads : Rewriting(t)
Torn == json.kind \in {"empty", "head", "tail"} /\ ~Writing

\* If the process dies between the truncation of the ledger and the end of the
\* write, the ledger stays empty or half written and no program start sends
\* any record again: the dispatcher then waits for a person, it does not
\* resend everything, nor what the second half of the ledger held.
TornLedgerStopsDispatch == [][Torn => Torn' /\ fate' = fate]_vars

\* While the ledger is readable at first, the storage stays and nobody kills
\* the program, the ledger never ends it: the class does not throw in any
\* thread, although a stale sender may construct an object while another
\* thread could truncate the file; and whatever else ends the program, two
\* senders at one file or a file that cannot be read, leaves no half-written
\* ledger for the next start.
LedgerNotFatal ==
  /\ \A t \in Threads : obj[t].pc # "threw"
  /\ ~alive => ~Torn

\* Although every entry of trdispatchers gets a thread that calls WriteJSON,
\* and the class has no lock, no two threads are ever at work on the ledger:
\* only the sender of a first run finds the name missing.
AtLedger(t) == obj[t].pc \in {"wtrunc", "wflush", "wrest"}
OneWriterOfLedger == \A t, u \in Threads : AtLedger(t) /\ AtLedger(u) => t = u

\* No rewriting makes the ledger forget a name: whenever it can be read, every
\* name ever recorded is in it.
LedgerForgetsNothing == json.kind = "list" => json.names = recorded

\* All runs of the command line come to their end, those with a stale sender
\* too, unless the process dies on the way.
FinishesOrDies == <>(pc = "finished" \/ ~alive)

\* Each record of a file that can be read is offered once, although other files
\* end the program in the middle, any number of times: a death over a bad file
\* never catches a sound one half sent.
SoundOfferedOnce ==
  \A t \in Senders : sender[t].pc = "send" /\ Sound(current) =>
    \A r \in 1..Records[current] :
      r >= sender[t].next => fate[<<current, r>>] = "unsent"

\* Run from storage, one file that is damaged or has no records stops all files
\* with a later name, over every restart: no start gets past it, for nothing
\* notes it in the ledger and the files are taken in the order of their names.
BadFileStopsLater ==
  \A f \in Files : ~Sound(f) => [](current = f => [](current <= f))

\* The final bookkeeping message says that the records were transferred (the
\* comment at trdispatcher.hpp:720); the result of try_send is not looked at.
BookedMeansTransferred ==
  \A f \in booked : \A r \in 1..Records[f] : fate[<<f, r>>] = "accepted"

\* Run from storage, the program keeps the promise of TransferLedger.
Promise == INSTANCE TransferLedger WITH
  Already <- FirstNames,
  offered <- {f \in Files : WholeFileOffered(f)},
  ledger <- recorded,
  torn <- Torn
LedgerPromise == Promise!Spec
=============================================================================
