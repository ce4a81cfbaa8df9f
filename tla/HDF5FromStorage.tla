-------------------------- MODULE HDF5FromStorage --------------------------
(***************************************************************************)
(* HDF5FromStorage: the scan of the storage directory against the ledger,  *)
(* a JSON file with the names of the files already transferred.  The class *)
(* has no lock: every thread that constructs an object reads the ledger,   *)
(* and every thread that calls WriteJSON reads it, truncates it and writes *)
(* it anew.  The steps below are the points at which another thread, or    *)
(* the death of the process, can come in between.                          *)
(*                                                                         *)
(* A ledger that fits into the output buffer is written in one go, when    *)
(* the stream is flushed; a larger one leaves in parts, of which the model *)
(* has two, the head when the buffer is full and the tail at the end.      *)
(***************************************************************************)
EXTENDS Naturals, FiniteSets

CONSTANTS
  Threads,     \* threads that may use an object of the class
  Files,       \* names of data files
  MaxRetries,  \* max_retries of ReadJSON
  FirstLedger, \* what the ledger may be when the program is first started
  FirstNames,  \* the names it holds then, if it is a list
  BufferNames, \* names that fit into the buffer of the output stream
  StorageMayVanish \* whether the storage directory can be missing in a scan

\* "head" is a document that breaks off, or any other text that is not JSON;
\* "tail" is the end of a document behind a hole.
Kinds == {"absent", "empty", "head", "tail", "nokey", "notarray", "list"}
Stages == {"none", "writing", "recent", "old"}

ASSUME StoreAssumption ==
  /\ MaxRetries \in Nat \ {0}
  /\ FirstLedger \subseteq Kinds
  /\ FirstNames \subseteq Files
  /\ BufferNames \in Nat
  /\ StorageMayVanish \in BOOLEAN

VARIABLES
  json,     \* the ledger: its kind, and its names when it is a list
  storage,  \* stage of each file: ".writing", ".hdf5" for less than an hour,
            \* ".hdf5" for more than an hour
  obj,      \* per thread, the call in progress and the object it works on
  recorded  \* history: every name that was ever in the ledger

storeVars == <<json, storage, obj, recorded>>

\* "check" to "find" are the constructor, "wread" to "wrest" WriteJSON;
\* already and to_transfer are members of the object, adding and data are the
\* filename and the json_data of WriteJSON.
CallPCs == {"idle", "check", "parse", "find", "built",
            "wread", "wtrunc", "wflush", "wrest", "written", "threw"}

Idle == [pc |-> "idle", attempts |-> 0,
         already |-> {}, to_transfer |-> {}, adding |-> {}, data |-> {}]

Ledger(kind, names) == [kind |-> kind, names |-> names]

InitStore ==
  /\ json \in {Ledger(k, IF k = "list" THEN FirstNames ELSE {}) :
                 k \in FirstLedger}
  /\ storage = [f \in Files |-> "none"]
  /\ obj = [t \in Threads |-> Idle]
  /\ recorded = json.names

Calls ==
  [pc : CallPCs, attempts : 0..MaxRetries - 1, already : SUBSET Files,
   to_transfer : SUBSET Files, adding : SUBSET Files, data : SUBSET Files]

\* The range of each variable of the store.
StoreTypeOK ==
  /\ json \in [kind : Kinds, names : SUBSET Files]
  /\ storage \in [Files -> Stages]
  /\ obj \in [Threads -> Calls]
  /\ recorded \in SUBSET Files

Throw(t) == obj' = [obj EXCEPT ![t] = [Idle EXCEPT !.pc = "threw"]]

-----------------------------------------------------------------------------
(* The constructor: ReadJSON, then HDF5Find. *)

Construct(t) ==
  /\ obj[t].pc = "idle"
  /\ obj' = [obj EXCEPT ![t].pc = "check"]
  /\ UNCHANGED <<json, storage, recorded>>

\* exists() || file_size() > 0 is evaluated outside the try block, so for a
\* file that is not there file_size() throws out of ReadJSON.
CheckMissing(t) ==
  /\ obj[t].pc = "check"
  /\ json.kind = "absent"
  /\ Throw(t)
  /\ UNCHANGED <<json, storage, recorded>>

\* Mutant: the attempt is not counted.
CheckEmptyForEver(t) ==
  /\ obj[t].pc = "check"
  /\ json.kind = "empty"
  /\ UNCHANGED storeVars

\* Mutant: the attempts have no limit.
CheckEmptyNoLimit(t) ==
  /\ obj[t].pc = "check"
  /\ json.kind = "empty"
  /\ obj' = [obj EXCEPT ![t].attempts = @ + 1]
  /\ UNCHANGED <<json, storage, recorded>>

\* Mutant: a ledger that stays empty is taken for "nothing transferred yet".
CheckEmptyThenGoOn(t) ==
  /\ obj[t].pc = "check"
  /\ json.kind = "empty"
  /\ IF obj[t].attempts + 1 = MaxRetries
       THEN obj' = [obj EXCEPT ![t].pc = "find"]
       ELSE obj' = [obj EXCEPT ![t].attempts = @ + 1]
  /\ UNCHANGED <<json, storage, recorded>>

\* An empty file is looked at again, MaxRetries times in all.
CheckEmpty(t) ==
  /\ obj[t].pc = "check"
  /\ json.kind = "empty"
  /\ IF obj[t].attempts + 1 = MaxRetries
       THEN Throw(t)
       ELSE obj' = [obj EXCEPT ![t].attempts = @ + 1]
  /\ UNCHANGED <<json, storage, recorded>>

CheckReady(t) ==
  /\ obj[t].pc = "check"
  /\ json.kind \notin {"absent", "empty"}
  /\ obj' = [obj EXCEPT ![t].pc = "parse"]
  /\ UNCHANGED <<json, storage, recorded>>

\* Half a second later.  A document without the array is taken as "nothing
\* transferred yet"; one that does not parse is an error.
ParseLedger(t) ==
  /\ obj[t].pc = "parse"
  /\ IF json.kind \in {"list", "nokey", "notarray"}
       THEN obj' = [obj EXCEPT ![t] =
                      [@ EXCEPT !.pc = "find", !.already = json.names]]
       ELSE Throw(t)
  /\ UNCHANGED <<json, storage, recorded>>

\* Mutant: the names of the ledger are not left out.
HDF5FindAll(t) ==
  /\ obj[t].pc = "find"
  /\ obj' = [obj EXCEPT ![t] =
                [@ EXCEPT !.pc = "built",
                          !.to_transfer = {f \in Files : storage[f] = "old"}]]
  /\ UNCHANGED <<json, storage, recorded>>

HDF5Find(t) ==
  /\ obj[t].pc = "find"
  /\ LET old == {f \in Files : storage[f] = "old"}
     IN  obj' = [obj EXCEPT ![t] =
                   [@ EXCEPT !.pc = "built",
                             !.to_transfer = old \ obj[t].already]]
  /\ UNCHANGED <<json, storage, recorded>>

\* The storage directory does not exist (any more).
HDF5FindNoStorage(t) ==
  /\ StorageMayVanish
  /\ obj[t].pc = "find"
  /\ Throw(t)
  /\ UNCHANGED <<json, storage, recorded>>

-----------------------------------------------------------------------------
(* WriteJSON(f). *)

WriteJSON(t, f) ==
  /\ obj[t].pc = "built"
  /\ obj' = [obj EXCEPT ![t] = [@ EXCEPT !.pc = "wread", !.adding = {f}]]
  /\ UNCHANGED <<json, storage, recorded>>

\* Mutant: only the new name is written back.
ReadForWriteForgets(t) ==
  /\ obj[t].pc = "wread"
  /\ IF json.kind \notin {"list", "nokey"}
       THEN Throw(t)
       ELSE IF obj[t].adding \subseteq json.names
         THEN obj' = [obj EXCEPT ![t].pc = "written"]
         ELSE obj' = [obj EXCEPT ![t] =
                        [@ EXCEPT !.pc = "wtrunc", !.data = obj[t].adding]]
  /\ UNCHANGED <<json, storage, recorded>>

\* Unlike the constructor, WriteJSON refuses a key that is not an array.
\* Mutant: the list is written again whether or not the name is in it.
ReadForWriteAlways(t) ==
  /\ obj[t].pc = "wread"
  /\ IF json.kind \notin {"list", "nokey"}
       THEN Throw(t)
       ELSE obj' = [obj EXCEPT ![t] =
                      [@ EXCEPT !.pc = "wtrunc",
                                !.data = json.names \cup obj[t].adding]]
  /\ UNCHANGED <<json, storage, recorded>>

ReadForWrite(t) ==
  /\ obj[t].pc = "wread"
  /\ IF json.kind \notin {"list", "nokey"}
       THEN Throw(t)
       ELSE IF obj[t].adding \subseteq json.names
         THEN obj' = [obj EXCEPT ![t].pc = "written"]
         ELSE obj' = [obj EXCEPT ![t] =
                        [@ EXCEPT !.pc = "wtrunc",
                                  !.data = json.names \cup obj[t].adding]]
  /\ UNCHANGED <<json, storage, recorded>>

\* Opening the output stream empties the file.
Truncate(t) ==
  /\ obj[t].pc = "wtrunc"
  /\ json' = Ledger("empty", {})
  /\ obj' = [obj EXCEPT ![t].pc = "wflush"]
  /\ UNCHANGED <<storage, recorded>>

Fits(names) == Cardinality(names) <= BufferNames

\* What the file is once a part of a document was written over it.  Threads
\* that write at the same time write the same document at the same places.
Overlay(kind, part, names) ==
  IF kind = "list" \/ part = "list" \/ {kind, part} = {"head", "tail"}
    THEN Ledger("list", names)
    ELSE Ledger(part, {})

Put(t, part) ==
  /\ json' = Overlay(json.kind, part, obj[t].data)
  /\ recorded' = recorded \cup json'.names
  /\ UNCHANGED storage

\* The buffer is full before the document ends.
FlushHead(t) ==
  /\ obj[t].pc = "wflush"
  /\ ~Fits(obj[t].data)
  /\ Put(t, "head")
  /\ obj' = [obj EXCEPT ![t].pc = "wrest"]

Flush(t) ==
  /\ \/ obj[t].pc = "wflush" /\ Fits(obj[t].data) /\ Put(t, "list")
     \/ obj[t].pc = "wrest" /\ Put(t, "tail")
  /\ obj' = [obj EXCEPT ![t] =
                [@ EXCEPT !.pc = "written",
                          !.already = obj[t].already \cup obj[t].adding]]

\* Between the truncation and the last flush.
Rewriting(t) == obj[t].pc \in {"wflush", "wrest"}

Forget(t) == obj' = [obj EXCEPT ![t] = Idle]

ReadJSONStep(t) ==
  CheckMissing(t) \/ CheckEmpty(t) \/ CheckReady(t) \/ ParseLedger(t)

ConstructorStep(t) ==
  Construct(t) \/ ReadJSONStep(t) \/ HDF5Find(t) \/ HDF5FindNoStorage(t)

\* WriteJSON after its call.
WriterStep(t) ==
  ReadForWrite(t) \/ Truncate(t) \/ FlushHead(t) \/ Flush(t)

-----------------------------------------------------------------------------
(* The data acquisition: a file is written, closed, and ages. *)

StorageStep ==
  \E f \in Files, step \in {<<"none", "writing">>, <<"writing", "recent">>,
                            <<"recent", "old">>} :
    /\ storage[f] = step[1]
    /\ storage' = [storage EXCEPT ![f] = step[2]]
    /\ UNCHANGED <<json, obj, recorded>>
=============================================================================
