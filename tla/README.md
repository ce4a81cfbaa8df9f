# dfbackend in TLA+

A verification development of the data filter back end: TLA+ modules of its
three programs, of the ledger they keep and of the three together, TLC
configurations that check them on small instances, and TLAPS proofs of what
matters most for every value of the constants. The reference is the C++ code;
line numbers below are of the files in `include/dfbackend/` and `apps/`.

## 1. The system

Three programs move trigger records from the data acquisition to a filter and
the filter's results to disk. A fourth, the datafilter server, is not in this
repository; it sits between them.

    filter orchestrator --"trdispatcher0"--> dispatcher --records--> datafilter
            ^                                    |  "next_tr", bookkeeping   |
            +-----------"next_tr"----------------|---------------------------+
                                             ledger        records, "write_tr"
                                          (JSON file)                |
                                                                     v
                                                       filter result writer

All connections are `kSendRecv` connections of iomanager: a queue per
connection, one receiver. A receiver with a callback has a thread that hands
over one message after the other; messages wait while there is no callback,
and removing a callback joins the thread.

| component | state it keeps | operations |
|---|---|---|
| filter orchestrator (`FilterOrchestrator.hpp`, `apps/filterorchestrator.cxx`) | the counter of the current `receive()` | `receive`, `request_next_tr`; `init`; `send` (not called) |
| trigger record dispatcher (`trdispatcher.hpp`, `apps/trdispatcher.cxx`) | `trdispatchers`, `config`, the list of files, the counter of `receive()` | `receive`, `send_tr`, `send_tr_from_hdf5file`, `get_hdf5files_from_storage`, `create_trigger_record`, `init` |
| transfer ledger (`HDF5FromStorage.hpp`) | the JSON file, per object the names already in it and the files to send | the constructor (`ReadJSON`, `HDF5Find`), `WriteJSON`; `save`, `print` (not called) |
| filter result writer (`FilterResultWriter.hpp`, `apps/filterresultwriter.cxx`) | `subscribers`, `m_file_index`, `config` | `receive_tr`, `receive_attrs`, `generate_hdf5file_pathname`, `init`; `create_srcid_geoid_map`, `send_next_tr` (not called) |
| connection configuration (the three `*Config` structs) | none at run time | `configure_iomanager`; `get_connection_ip` (not called) |
| DAQ module, Python bindings, schemas, scripts, placeholder test | templates, declarations | none used by the programs |

What is hard here, and what makes each component correct:

* **Orchestrator.** The main thread spins until the counter that the callback
  thread increments *equals* one. Correct: no request without an instruction
  of its own; each instruction answered; nothing counted twice or lost.
* **Dispatcher.** A list of files from one scan is worked off over many rounds
  while the ledger changes; the process may die between sending a file and
  noting it, or inside the rewrite of the ledger; entries of `trdispatchers`
  can outlive their run; `try_send` may time out. Correct: a file in the
  ledger was offered in full; it is not offered again; nothing is forgotten;
  one sender per file; every old file gets its turn, unless a file before it
  cannot be sent.
* **Ledger.** Read, truncated and rewritten as a whole, without a lock, by
  every sender thread; it may be missing, empty, unparsable, cut in the middle
  or without its array. Correct: it never loses a name while it can be read; a
  wait for it is bounded.
* **Result writer.** Instruction, record, file attributes arrive on three
  connections with a thread each, and callbacks come and go with each round; a
  write may fail; a file may replace another of its name. Correct: one record
  per instruction, in order, none lost between rounds, each under the index of
  its file.
* **The programs together.** Each takes part in a round of its own length;
  what one assumes of its peer is a matter of the two others and the server.
  Correct: no record is lost or written twice between the programs, and none
  waits for a message that nobody will send.
* **Start-up.** Three programs declare the connections they share each with
  its own literals and compute some names; `init()` waits once, for an answer
  that does not say whom it is for. Correct: names agree, addresses do not
  collide, answers and waits balance.

The full list of hazards, with the line of each and the properties that watch
it, is in `PROJECT.json`.

## 2. Modules

| module | models | built on |
|---|---|---|
| `RequestRelay` | abstract: instructions in, as many answers out | |
| `FilterOrchestrator` | the orchestrator | refines `RequestRelay` |
| `HDF5FromStorage` | the ledger class, one action per point where another thread or a death can come in between | |
| `StoreClient` | sender threads at work with the class, deaths, a person who restores the ledger | `HDF5FromStorage` |
| `TransferLedger` | abstract: what the dispatcher promises about the ledger | |
| `TRDispatcher` | the dispatcher in its three modes, its senders, restarts | extends `HDF5FromStorage`, refines `TransferLedger` |
| `FilterResultWriter` | the result writer | refines `RequestRelay` |
| `DFBackend` | the three programs and the server between them | instantiates `FilterOrchestrator`, `TRDispatcher` and `FilterResultWriter` |
| `Connections` | `configure_iomanager` of the three programs, the names that their operations look up, `get_connection_ip` | |
| `Startup` | the three programs from their command line to their operations, with `init()` | `Connections` |
| `TriggerRecords` | `create_trigger_record` and `create_srcid_geoid_map`, pure | |
| `MC*` | the values of the constants for TLC | |
| `*Proofs` | the theorems | the module they are about |

**FilterOrchestrator.** `AddCallback`, `HandshakeDone`, `RemoveCallback` and
`RequestNextTr` are the four steps of `receive()` that other threads can see
(:369, :371, :374, :376), `Callback(m)` is the body of the callback for a
message with id `m`. `Instruct` and `Chatter` are the peer. `instructed` and
`requested` only record history; `window` is how far the peer runs ahead.

**HDF5FromStorage.** `obj[t]` is the object of thread `t` and where its call
is. The ledger `json` is a kind and a set of names: `absent`; `empty` (also
right after the truncation); `head` (breaks off, or is any other text that is
not JSON) and `tail` (the second part of a document alone); `nokey` (an object without `hdf5_files`, or
`null`); `notarray` (`hdf5_files`, or the document itself, has the wrong type);
`list`. The differences matter: the constructor accepts `notarray` as "nothing
transferred yet", `WriteJSON` throws at it (:142 against :210). A document of
at most `BufferNames` names is written by one `Flush`; a longer one by
`FlushHead` and `Flush`, with room for a reader, another writer or a death in
between. Threads write the same document, so that parts of the same place are
laid over each other (`Overlay`). `storage` gives each file its stage; a file
counts from the age of one hour. `recorded` is history: every name ever in the
ledger.

**TRDispatcher.** Thread 0 is the main thread, thread `t > 0` the sender of
entry `t` of `trdispatchers`. `Scan`/`Scanned` are
`get_hdf5files_from_storage`; `NextFile`, `Rescan`, `NextRun` the loops of
`main`; `AddCallback` to `RemoveCallback` the wait in `receive`; `OpenFile`,
`Announce`, `SpawnSenders`, `JoinSenders` the main thread's part of the two
send functions; `SendRecord`, `ReadFails`, `SendNothing`, `SentAll`,
`NoteInLedger`, `SendBookkeeping` the thread's. A generated record is a source `Dummy` with
one record; its sender neither touches the ledger nor keeps books, and
`send_tr` clears the vector, so the actions of both functions are shared. Two
outcomes of undefined behaviour are choices: the look at the last record of an
empty file (:559, `OpenFile` or `OpenFails`) and two senders on one file
(`Race`). An exception of the ledger class is caught nowhere (`Terminate`), nor
is one of reading a data file: the files of `Damaged` end the program where they
are opened or their attributes are read (:556, :579, :581, `OpenFails`), or at
one of their records (:674, :678, `ReadFails`), at the last one at the latest.
A file is `Sound` if it has records and is not damaged. An I/O error of a sound
file is the same step as a kill (`Crash`).
After any death `Restart` starts the program anew; the ledger and the storage
survive, messages in flight may or may not.

**FilterResultWriter.** `AddCallback` to `RemoveCallback` are the steps of
`receive_tr`; `RecvTR`, `WriteTR` and `FailWrite` are the record callback,
split because the write takes time, can throw, and a callback cannot be
removed during it. A write that fails leaves the disk alone, or, when the file
was created and `write()` throws (:604), the destructor gives the half-written
file its final name (`HalfWritten`). `AddAttrsCallback` to `RemoveAttrsCallback` and
`AttrsCallback` are `receive_attrs`. `SendAck` sends the path name that
`config` holds at that moment; its copy at :591 is not synchronised with the
assignment at :634, which gives the outcomes `TornPath` and `Race`. `Pathname`
is `generate_hdf5file_pathname`: the index and the trigger number, narrowed to
an `int` of `TriggerRange` values, without the sequence number. `disk` holds
the output files by path name.

**DFBackend.** The variables of the three programs stand side by side; the
orchestrator's requests *are* the dispatcher's queue, and the server's steps
are the peers' actions of the three modules (`Instruct`, `Deliver`,
`Announce`), so that every handler is the one of its own module. The server is
modelled from what the programs expect of it: one question per "send", the
"open" message forwarded to the writer, each record preceded by a "write_tr"
and its answer. The dispatcher runs from storage; nothing dies.

**Startup.** `LookUp` declares the program's connections and looks up the names
of its operation; a name that was not declared is an exception
(`unknown_name`). `SendStart`, `Answered` and `TimedOut` are `init()`: the loop
around it leaves by `break` after its first turn. `Relaunch` starts a program
again; unread messages outlive it. `init()` runs with `num_apps > 1` only, and
no option of the programs sets it, so this half describes code that is built
but not reached; the run covers both values. The port of "bookkeeping" is
83000, of which the transport keeps 16 bits (`Port`).

## 3. What TLC checks

| run | question | distinct states |
|---|---|---|
| `orchestrator` | a peer that awaits each request and peers two and three ahead; where an instruction can be lost | 950 |
| `store_crash` | two threads rewriting the ledger, all kinds of ledger, deaths | 77 thousand |
| `store_missing` | no ledger: violation | |
| `storage_crash` | three files (one empty, one damaged), any ledger, deaths, restarts, scans of any age; refinement of `TransferLedger` | 736 thousand |
| `hdf5_runs` | one file in two runs, two senders at once, one at the ledger; the end of the runs | 61 thousand |
| `booked_not_sent` | a record dropped by `try_send`: violation | |
| `writer_burst` | three records, instructions and bookkeeping in any order, writes that fail, half-written files | 655 thousand |
| `writer_paced` | six records of two files, two pairs of one path name | 6 thousand |
| `ack_before_record`, `stale_file_index` | violations | |
| `backend` | the three programs and the server, two files to the end; the ledger against the disk | 208 thousand |
| `startup` | every command line over two hosts, with and without `init()` | 328 thousand |

**Bounds.** `MaxInstructions`, `MaxRequests`, `MaxAttrs`, `MaxAsks` and
`Stream` bound what the environment ever sends, `Windows` and `Window` how far
it runs ahead. Three instructions ahead are enough for one to be counted before
the sample, one between the sample and the removal, and one to stay queued;
seven in all let that happen in more than one round. Three files give a list
that grows old while its first file is sent: in `storage_crash` one without
records, which bars the way of the others once it is old, a sound one, which may
be old before it, and a damaged one, which some first ledgers hold already; two
records in a file tell "some" from "all"; two runs over one file are enough for a stale entry. `MaxRetries` (10 in the code)
is 2 or 3, which tells the first, a middle and the last attempt apart; in
`backend`, where the ledger is always there, it is 1. `BufferNames = 1` makes
every second name overflow the output buffer (about seventy names in the
code). `TriggerRange = 16` is an `int` of four bits: the stream has trigger
numbers 7 and 23. `MaxTimeouts` is the number of timeouts after which no
program of `startup` is started again. In `backend` a file ages only while the
scan is about to look at it: no other step reads the age. There `MaxAsks`
bounds the files asked for and `MaxSelects` the records the server selects; two
files of one record each need no more than two, so that four never bind. One
message of another id is queued at most, since such messages only move the
callback.

**Fairness.** Each thread of each program keeps running (weak fairness of its
steps); a queued message that counts is handed over in the end, however many
others arrive. In `hdf5_runs` the peer also keeps asking, in `writer_*` it
sends what it has announced: without it waiting for ever is correct. In
`backend` the same is asked of the server, and the threads of a program other
than the dispatcher's main thread share one condition, since none of them has
endless steps of its own that could starve another. Nothing is assumed of
deaths, restarts and lost writes.

**Pacing.** A window of one and `Paced = TRUE` describe a peer that awaits the
answer to its last message. The protocol of the datafilter server is not in
the repository, so each program is checked with a paced peer and with one that
is not. `backend` shows what the programs make of each other: with a server
that asks again after "send", the orchestrator and the dispatcher do meet
paced peers (`PeersAsAssumed`, which is also proved, and with it that they run
there as their own modules describe them). The result writer does not, see
below.

**Deadlock** is checked, except where the program ends after its last run
(`hdf5_runs`), may be ended by a race or stuck after a failed write
(`writer_burst`), or is not started again (`startup`).

**Replaced files.** `ReplacedOnlyByNamesake` says which output files survive:
a file is replaced only by a record of the same index and narrowed trigger
number. It is what the name generator gives, and it *is* an overwrite for two
sequences of one trigger, and for triggers 2^32 apart. The later record need not
be written to its end: one that fails in `write()` takes the place of a good
file as well. This happens once at most, for a failed write is the last
(`FailedWriteIsFinal`).

### Disagreements found

* `store_missing`: `exists || file_size > 0` throws for a missing ledger
  (`HDF5FromStorage.hpp:98`); the comments (:96, :106) and the retry loop mean
  to wait.
* `ack_before_record`: "ACK ... that we succefully received the TR"
  (`FilterResultWriter.hpp:625`) is sent before the record is received.
* `stale_file_index`: the index is to be known "before receiving the trigger
  record" (`trdispatcher.hpp:586`); only the first message of the writer's
  life is used (`FilterResultWriter.hpp:465`), and nothing orders it before
  the record.
* `booked_not_sent`: books are kept "after the TR is tranfered"
  (`trdispatcher.hpp:720`), but `try_send` may have dropped it (:694).

Worth knowing, although no comment denies it:

* The test `received_cnt == 1` makes the orchestrator silent for ever once two
  instructions are counted in one round (`OverrunIsPermanent`). One that is
  counted between the sample and `remove_callback` (:371, :374) is lost without
  that (`LostOnlyAfterSample`).
* A data file that is damaged or empty ends the dispatcher, and is not noted in
  the ledger: the next start takes it up again, and no file with a later name is
  ever sent (`BadFileStopsLater`), until a person takes the file away.
* A death between the truncation of the ledger and the end of the write leaves
  an empty or half written one with which the dispatcher never starts sending
  again (`TornLedgerStopsDispatch`).
* The storage loop pops the entry of `trdispatchers` to "make sure no
  duplicate" (`apps/trdispatcher.cxx:108`); the `--hdf5` branch (:116) does
  not, so run n sends the file with n threads (`hdf5_runs`).
* The writer sends "received" before the record and nothing at the end of a
  round. A server that sends the next "write_tr" when it has delivered a record
  may meet the callback of the last round, which counts the instruction and is
  removed. `Swallowed` of `DFBackend` describes that state;
  `AcceptedIsSettled` shows that it is the only way for an accepted record to
  stay unwritten.
* After a write that failed the writer is alive and never writes again
  (`FailedWriteIsFinal`).
* With `init()`, the orchestrator and the writer wait for their answer on the
  same connection (`OneReceiver` states the exception).

The mode that sends generated records has no run of its own: it shares every
action but one branch of `JoinSenders` with the other two, and the theorems
cover it.

## 4. What is proved

Every theorem holds for all values of the constants that the named assumptions
allow (`FOAssumption`, `StoreAssumption`, `TRDispatcherAssumption`,
`FRWAssumption`, `StartupAssumption`, `DFBAssumption`); TLC evaluates these on
every run. `DFBAssumption` asks more than the types: a ledger that can be read
and sound files with records, without which the dispatcher of `DFBackend` ends.

* **FilterOrchestratorProofs.** `NoUnaskedRequest` is inductive together with
  `TypeOK`: a request uses up at least one counted instruction. For a window of
  one the equality `NothingMerged` needs more: an instruction is open in one
  place only, counted exactly while the thread is past the sample.
  `OnlyLateOnesLost` splits each step by what it does to the number of
  instructions that are neither queued, nor counted for a request, nor answered.
  `ImplementsRelay` (the safety half of `RequestRelay`, for any window) maps
  `RequestNextTr` to `Answer`, `Instruct` to `Ask`, all else to a stutter.
* **HDF5FromStorageProofs.** What one step of the class changes: types are
  kept, other threads' calls are not touched, no name enters but the one that
  is added. `WritersAgree` is the reason why rewriting without a lock loses
  nothing: all concurrent writers add the *same* name, and each that has read
  the ledger holds every recorded name. `WriterKeepsLedger` preserves it,
  through the writing of parts; it would break as soon as two senders worked on
  different files.
* **StoreClientProofs.** `LedgerComplete` puts deaths, a first ledger of any
  kind and a restored ledger around that lemma, for any number of threads. The
  strengthening `InUse` is needed for the restored one: while a thread has read
  the ledger but not yet truncated it, it is not a ledger that a person would
  replace.
* **TRDispatcherProofs.** The inductive invariant in parts: `Counts` (how many
  senders there are in which mode), `SendersJoined` (senders and their calls
  exist only while they are joined, and a sender that is not at the ledger has
  no call), `OfferedNames` and `SendersOffered` (every name in the ledger, or in
  a buffer on its way there, was offered; a sender has offered all records
  before its next one). They give `TypeOK` with the number of senders of each
  mode (one, outside "hdf5") and `RecordedWasOffered` in every mode. `NoUnaskedRound` is inductive
  with `TypeOK`: a round uses up a counted request, in every mode and across
  restarts.

  With `WritersAgree`, `LedgerForgetsNothing` for any number of senders.
  `NothingRecordedToSend` follows a file name from the scan over the list to
  the round: only the file in hand is recorded, and it has left the list; hence
  `NoResendOfRecorded`. `LedgerReadable` adds that past a scan the ledger can be
  read or is about to be filled, and completes the refinement of
  `TransferLedger` (`KeepsPromise`). It also carries `TornStops`: with a torn
  ledger that nobody is writing the program is dead or at its scan, and does
  not get past it.

  *One writer of the ledger* (`OneAtLedger`). Where several senders work the
  file has been recorded by the first run, so that none of them finds its name
  missing. `NoteOnce` says so: whoever is through with the ledger leaves the
  name of the file in it, from the second run on it is there, and a thread that
  is adding it is the sender of the only entry of `trdispatchers`.

  *What the ledger does to the program* (`LedgerHarmless`,
  `SoundFilesOfferedOnce`). Both have the hypothesis `Undisturbed`: a ledger
  that can be read at first, no kill, a storage that stays; files may be damaged
  or empty. `ReadableUnlessWriting` then says that the ledger can be read unless
  a sender, alone, is rewriting it, and that no thread has thrown; a death needs
  two senders or a file that is not sound, and so leaves a readable ledger,
  which is why the program can be started again any number of times. From
  storage there is one sender, so that only a bad file ends the program;
  `OfferedByNow` says which records of sound files have been offered while a
  file waits, is in hand, and is done, hence none is offered twice
  (`SoundOfferedOnce`, which no run has as a property of its own; in `backend`,
  a record offered twice would break `NoRecordLost`).

  *A bad file* (`BadFileBarsTheWay`). `Bars(f)` says that an unsound file that
  was once in hand is old enough, is not recorded, and is in every list until
  its turn comes, with nothing of a later name before it. It holds from the
  moment the file is taken up, for the lists hold old files only (`OldLists`)
  and none that is recorded (`NothingRecordedToSend`), and every step of the
  program, a restart included, keeps it.
* **FilterResultWriterProofs.** `Covered` strengthens `OneWritePerInstruction`:
  written records and the `Credit` of the round in progress (an instruction it
  has counted and not yet written for) never exceed the instructions received.
  `ImplementsRelay` maps the end of a write to `Answer`, `Instruct` to `Ask`.
  `Ending` says where the main thread may be while its entry is complete, and
  `Stuck` where it stays after a failed write, for `FailedWriteIsFinal`.
  `Queued` relates the bookkeeping queue to all messages ever sent, so that
  `FirstIndex` can name the first. `TypeCorrect` also says that the records
  sent are those handed over and those queued. `ReplacedOnlyByNamesake` is
  inductive with `Ending`: a write can fail only if none failed before. `RecordRound` and `InOrder` (`RecordInv`) need only a peer that
  sends a record in the round that is waiting for it: at most one record is
  under way, and what is written is what was sent, in order. For a peer that
  awaits each round, with rounds of one record as in the program and writes
  that succeed (`PacedPeer`), that gives `EveryRecordInOrder`;
  `InstructionRound`, which counts instructions and "received" messages under
  way, and `FileNamed` (what `config.ofile_pathname` is) give
  `AckNamesFileBefore`. Both hold for streams of any length.
* **DFBackendProofs.** About the three programs and the server, for any number
  of files, records and requests. The modules' invariants are used as they
  stand: the `Same*` lemmas show that an operator of `OP`, `DP` and `WP` (the
  instances of the proof modules) and the one of `O`, `D` and `W` are one.
  - *Pacing* (`PeersKeepInStep`). `OneFileAsked` is a count of one: the
    instruction under way, the request under way, the one counted in the
    dispatcher's round, the file in hand and the report "send" on its way to
    the server are together never more than one. With the modules' own
    invariants (`OrchestratorInv`, `DispatcherInv`) it is inductive: no
    instruction is sent while a request is open, and each file is reported once.
  - *Composition* (`RunsTheOrchestrator`, `RunsTheDispatcher`). From that
    count, every step of the whole is a step of `FilterOrchestrator` with window
    1 or leaves it alone, and the same for `TRDispatcher`: the guards with which
    the modules restrain their peers hold by themselves. The dispatcher's
    theorems are thereby theorems about the whole.
  - *No record lost* (`NoneLost`). `SoundOfferedOnce`, which comes over with the
    refinement (here every file is sound), says that no record enters the connection twice. `Selected`
    says that the server has a record for each instruction it sent, and
    `WriterInv` is `RecordInv` of the writer, which holds here although the
    server does not pace the instructions. `PipelineIsSent` puts the written
    records, the one being written and the one that waits together into the
    sequence `sent`; `AcceptedOnce` says that `sent` and the server's queue
    are the accepted records, each once.
  - *The ledger and the disk* (`RecordedArrives`). `RecordedWasOffered` comes
    over as well; with `NoRecordLost` each record of a file in the ledger is
    one that the connection refused, or on its way to the disk, or there.
* **StartupProofs.** `DistinctAddresses` holds for all servers: connections lie
  in disjoint blocks of ports, the 17th bit of 83000 included. `TypeCorrect`
  bounds the answers from below, `NamesFound`, `ReceiversApart` and
  `LateAnswers` follow with an invariant on who holds which receiver. Two
  theorems about code that is not called: the relay of `send()` would look up
  a record connection that the orchestrator does not declare
  (`RelayHasNoConnection`), and loopback addresses of different identifiers
  differ (`LoopbackAddresses`).
* **TriggerRecordProofs.** For all element counts the fragments of a generated
  record have distinct sources and number `num_requested_components`
  (`SourcesAreDistinct`); in the table of detector channels source 2 has none
  and source 4 two of different detectors (`GeoIdsOfReadout`).

Only model-checked, since fairness and ENABLED are out of the prover's reach:
the liveness properties (`AnsweredOrOverrun`, `WaitIsBounded`, `FinishesOrDies`,
`RoundEnds`, `EveryOldFileRecorded`, `AcceptedIsSettled`) and the liveness half
of `RelaySpec`. Every invariant and every action property of the passing runs
is a theorem; `LedgerNotFatal` under the hypothesis `Undisturbed`,
`EveryRecordInOrder` and `AckNamesFileBefore` under `PacedPeer`,
`NoResendOfRecorded`, `LedgerPromise`, `TornLedgerStopsDispatch` and
`BadFileStopsLater` for the mode "storage". Their runs set these; without them the properties need not hold.

## 5. Abstractions, and what is not modelled

* Names of data files are file names without directories; two files with one
  name in two directories do not occur, the scan is not recursive.
* Contents of records, wording of messages, node information and timestamps
  are left out. A record has its file, trigger and sequence number, a
  bookkeeping message a file index.
* The output stream of the ledger is not tested by the code (:242). A write
  that fails while the program lives, on a full disk, is not modelled; deaths
  inside the write are.
* A damaged file stays damaged and stays where it is; that a person takes it
  away is not modelled.
* A directory scan is one step: files only get older, so a slower scan finds
  what a later one would.
* The output path of the writer is the directory, the index and the trigger
  number. That the default directory is itself the name of an input file, and
  the file layout parameters, which decide nothing, are left out.
* `send()` of the orchestrator and `send_next_tr()` of the writer, which nobody
  calls, are modelled by the names they look up. `get_connection_ip` is modelled
  (the writer's returns an empty string for the loopback server), but no
  program uses its result.
* Groups have one connection each (`num_connections_per_group = 1`, which no
  option changes), so the wait loop over several subscribers has one entry.
* The datafilter server is external: `DFBackend` has one server, which does what
  the three programs expect of it. No program of `DFBackend` dies; deaths are
  checked in the modules of the programs.
* The DAQ module is the unchanged template, the bindings are empty, the schemas
  and the generator describe configuration, the test is a placeholder that fails
  on purpose: none of them has behaviour of its own.

## 6. Plan

In order of importance. Done:

1. `FilterOrchestrator` with `RequestRelay`, and its proofs.
2. `HDF5FromStorage` and `StoreClient`, and their proofs; documents longer than
   the buffer.
3. `TRDispatcher` with `TransferLedger`, and the proofs about the ledger.
4. `FilterResultWriter`, with path names, failing writes and its proofs, those
   for a paced peer among them.
5. `Connections` and `Startup`, with proofs.
6. `DFBackend`, the three programs together, and its proofs on those of its
   parts.
7. `TriggerRecords`, with proofs.

Left:

8. A proof of `EveryRecordInOrder` for rounds of several records.
9. Deaths and restarts in `DFBackend`: what the server and the writer make of
   a file that is sent again.
10. Several connections per group, and the wait over all of their entries.
