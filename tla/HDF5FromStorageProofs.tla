----------------------- MODULE HDF5FromStorageProofs -----------------------
(***************************************************************************)
(* Lemmas about the steps of HDF5FromStorage, for every set of threads and *)
(* files and every number of attempts.                                     *)
(***************************************************************************)
EXTENDS HDF5FromStorage, TLAPS

\* A call keeps its type under each of the updates that the steps make.
LEMMA CallUpdates ==
  /\ Idle \in Calls
  /\ [Idle EXCEPT !.pc = "threw"] \in Calls
  /\ \A c \in Calls, p \in CallPCs : [c EXCEPT !.pc = p] \in Calls
  /\ \A c \in Calls, n \in 0..MaxRetries - 1 :
       [c EXCEPT !.attempts = n] \in Calls
  /\ \A c \in Calls, s \in SUBSET Files :
       /\ [c EXCEPT !.already = s] \in Calls
       /\ [c EXCEPT !.to_transfer = s] \in Calls
       /\ [c EXCEPT !.adding = s] \in Calls
       /\ [c EXCEPT !.data = s] \in Calls
<1>1. /\ Idle \in Calls
      /\ [Idle EXCEPT !.pc = "threw"] \in Calls
  BY StoreAssumption DEF Calls, CallPCs, Idle
<1>2. \A c \in Calls, p \in CallPCs : [c EXCEPT !.pc = p] \in Calls
  BY DEF Calls
<1>3. \A c \in Calls, n \in 0..MaxRetries - 1 :
        [c EXCEPT !.attempts = n] \in Calls
  BY DEF Calls
<1>4. ASSUME NEW c \in Calls, NEW s \in SUBSET Files
      PROVE  /\ [c EXCEPT !.already = s] \in Calls
             /\ [c EXCEPT !.to_transfer = s] \in Calls
             /\ [c EXCEPT !.adding = s] \in Calls
             /\ [c EXCEPT !.data = s] \in Calls
  BY DEF Calls
<1> QED
  BY <1>1, <1>2, <1>3, <1>4

\* A fresh store has its types.
LEMMA InitStoreType == InitStore => StoreTypeOK
  BY StoreAssumption, CallUpdates
  DEF InitStore, StoreTypeOK, Ledger, Kinds, Stages

\* A step that gives one thread a well typed call and leaves the files alone.
LEMMA ObjUpdate ==
  ASSUME StoreTypeOK, NEW t \in Threads, NEW c \in Calls,
         obj' = [obj EXCEPT ![t] = c], UNCHANGED <<json, storage, recorded>>
  PROVE  StoreTypeOK'
  BY DEF StoreTypeOK

\* Each step of the constructor, of WriteJSON, of the storage directory and
\* the end of an object keeps the types of the store: the attempts stay below
\* MaxRetries and only names of files get into the sets.
LEMMA StoreTypeStep ==
  ASSUME StoreTypeOK, NEW t \in Threads,
         \/ ConstructorStep(t)
         \/ \E f \in Files : WriteJSON(t, f)
         \/ WriterStep(t)
         \/ StorageStep
         \/ Forget(t) /\ UNCHANGED <<json, storage, recorded>>
  PROVE  StoreTypeOK'
<1> DEFINE c == obj[t]
<1>c. c \in Calls /\ json.names \in SUBSET Files /\ recorded \in SUBSET Files
  BY DEF StoreTypeOK
<1>f. /\ c.attempts \in 0..MaxRetries - 1
      /\ c.already \in SUBSET Files /\ c.adding \in SUBSET Files
      /\ c.data \in SUBSET Files
  BY <1>c DEF Calls
<1>1. CASE Construct(t)
  <2>1. [c EXCEPT !.pc = "check"] \in Calls
    BY <1>c, CallUpdates DEF CallPCs
  <2> QED
    BY <1>1, <2>1, ObjUpdate DEF Construct
<1>2. CASE CheckMissing(t) \/ HDF5FindNoStorage(t)
  BY <1>2, CallUpdates, ObjUpdate DEF CheckMissing, HDF5FindNoStorage, Throw
<1>3. CASE CheckEmpty(t)
  <2>1. CASE c.attempts + 1 = MaxRetries
    BY <1>3, <2>1, CallUpdates, ObjUpdate DEF CheckEmpty, Throw
  <2>2. CASE c.attempts + 1 # MaxRetries
    <3>1. c.attempts + 1 \in 0..MaxRetries - 1
      BY <1>f, <2>2, StoreAssumption
    <3>2. [c EXCEPT !.attempts = c.attempts + 1] \in Calls
      BY <1>c, <3>1, CallUpdates
    <3> QED
      BY <1>3, <2>2, <3>2, ObjUpdate DEF CheckEmpty
  <2> QED
    BY <2>1, <2>2
<1>4. CASE CheckReady(t)
  <2>1. [c EXCEPT !.pc = "parse"] \in Calls
    BY <1>c, CallUpdates DEF CallPCs
  <2> QED
    BY <1>4, <2>1, ObjUpdate DEF CheckReady
<1>5. CASE ParseLedger(t)
  <2>1. [c EXCEPT !.pc = "find"] \in Calls
    BY <1>c, CallUpdates DEF CallPCs
  <2>2. [c EXCEPT !.pc = "find", !.already = json.names] \in Calls
    BY <1>c, <2>1, CallUpdates
  <2> QED
    BY <1>5, <2>2, CallUpdates, ObjUpdate DEF ParseLedger, Throw
<1>6. CASE HDF5Find(t)
  <2> DEFINE found == {f \in Files : storage[f] = "old"} \ c.already
  <2>1. [c EXCEPT !.pc = "built"] \in Calls
    BY <1>c, CallUpdates DEF CallPCs
  <2>2. [c EXCEPT !.pc = "built", !.to_transfer = found] \in Calls
    BY <2>1, CallUpdates
  <2> QED
    BY <1>6, <2>2, ObjUpdate DEF HDF5Find
<1>7. ASSUME NEW f \in Files, WriteJSON(t, f) PROVE StoreTypeOK'
  <2>1. [c EXCEPT !.pc = "wread"] \in Calls
    BY <1>c, CallUpdates DEF CallPCs
  <2>2. [c EXCEPT !.pc = "wread", !.adding = {f}] \in Calls
    BY <2>1, CallUpdates
  <2> QED
    BY <1>7, <2>2, ObjUpdate DEF WriteJSON
<1>8. CASE ReadForWrite(t)
  <2>1. /\ [c EXCEPT !.pc = "written"] \in Calls
        /\ [c EXCEPT !.pc = "wtrunc"] \in Calls
    BY <1>c, CallUpdates DEF CallPCs
  <2>2. [c EXCEPT !.pc = "wtrunc", !.data = json.names \cup c.adding] \in Calls
    BY <1>c, <1>f, <2>1, CallUpdates
  <2> QED
    BY <1>8, <2>1, <2>2, CallUpdates, ObjUpdate DEF ReadForWrite, Throw
<1>9. CASE Truncate(t)
  <2>1. [c EXCEPT !.pc = "wflush"] \in Calls
    BY <1>c, CallUpdates DEF CallPCs
  <2>2. Ledger("empty", {}) \in [kind : Kinds, names : SUBSET Files]
    BY DEF Ledger, Kinds
  <2> QED
    BY <1>9, <2>1, <2>2 DEF Truncate, StoreTypeOK
<1>p. ASSUME NEW part \in {"head", "tail", "list"}, Put(t, part)
      PROVE  /\ json' \in [kind : Kinds, names : SUBSET Files]
             /\ recorded' \in SUBSET Files /\ UNCHANGED storage
  <2>1. json' \in [kind : Kinds, names : SUBSET Files]
    BY <1>f, <1>p DEF Put, Overlay, Ledger, Kinds
  <2> QED
    BY <1>c, <1>p, <2>1 DEF Put
<1>10. CASE FlushHead(t) \/ Flush(t)
  <2>1. /\ [c EXCEPT !.pc = "written"] \in Calls
        /\ [c EXCEPT !.pc = "wrest"] \in Calls
    BY <1>c, CallUpdates DEF CallPCs
  <2>2. [c EXCEPT !.pc = "written", !.already = c.already \cup c.adding]
          \in Calls
    BY <1>f, <2>1, CallUpdates
  <2>3. obj' \in [Threads -> Calls]
    BY <1>10, <2>1, <2>2 DEF FlushHead, Flush, StoreTypeOK
  <2>4. \E part \in {"head", "tail", "list"} : Put(t, part)
    BY <1>10 DEF FlushHead, Flush
  <2> QED
    BY <1>p, <2>3, <2>4 DEF StoreTypeOK
<1>11. CASE StorageStep
  BY <1>11 DEF StorageStep, StoreTypeOK, Stages
<1>12. CASE Forget(t) /\ UNCHANGED <<json, storage, recorded>>
  BY <1>12, CallUpdates, ObjUpdate DEF Forget
<1> QED
  BY <1>1, <1>2, <1>3, <1>4, <1>5, <1>6, <1>7, <1>8, <1>9, <1>10, <1>11, <1>12
  DEF ConstructorStep, ReadJSONStep, WriterStep

\* A step of one thread leaves the calls of the others alone, and only the
\* steps of WriteJSON change the ledger.
LEMMA OwnCallOnly ==
  ASSUME StoreTypeOK, NEW t \in Threads,
         \/ ConstructorStep(t)
         \/ \E f \in Files : WriteJSON(t, f)
         \/ WriterStep(t)
         \/ Forget(t)
  PROVE  /\ \A u \in Threads \ {t} : obj'[u] = obj[u]
         /\ DOMAIN obj' = Threads
         /\ ConstructorStep(t) \/ (\E f \in Files : WriteJSON(t, f))
              => UNCHANGED <<json, recorded>>
<1>1. \E c : obj' = [obj EXCEPT ![t] = c]
  BY DEF ConstructorStep, ReadJSONStep, WriterStep, Construct, CheckMissing,
         CheckEmpty, CheckReady, ParseLedger, HDF5Find, HDF5FindNoStorage,
         WriteJSON, ReadForWrite, Truncate, FlushHead, Flush, Forget, Throw
<1>2. DOMAIN obj = Threads
  BY DEF StoreTypeOK
<1>3. ConstructorStep(t) => UNCHANGED <<json, recorded>>
  BY DEF ConstructorStep, ReadJSONStep, Construct, CheckMissing,
         CheckEmpty, CheckReady, ParseLedger, HDF5Find, HDF5FindNoStorage
<1>4. (\E f \in Files : WriteJSON(t, f)) => UNCHANGED <<json, recorded>>
  BY DEF WriteJSON
<1> QED
  BY <1>1, <1>2, <1>3, <1>4

\* No name gets into the ledger, or on its way there, but the one WriteJSON is
\* called with: if all names are in S and f is, they are after the step.
LEMMA NamesWithin ==
  ASSUME StoreTypeOK, NEW t \in Threads, NEW S,
         json.names \subseteq S, recorded \subseteq S,
         \A u \in Threads : obj[u].adding \cup obj[u].data \subseteq S,
         \/ ConstructorStep(t)
         \/ \E f \in Files \cap S : WriteJSON(t, f)
         \/ WriterStep(t)
         \/ Forget(t) /\ UNCHANGED <<json, recorded>>
  PROVE  /\ json'.names \subseteq S
         /\ recorded' \subseteq S
         /\ \A u \in Threads : obj'[u].adding \cup obj'[u].data \subseteq S
<1> DEFINE c == obj[t]
           In(x) == x.adding \cup x.data \subseteq S
<1>1. c \in Calls /\ In(c)
  BY DEF StoreTypeOK
<1>2. \A p \in CallPCs : In([c EXCEPT !.pc = p])
  BY <1>1 DEF Calls
<1>3. ASSUME NEW d, obj' = [obj EXCEPT ![t] = d], In(d)
      PROVE  \A u \in Threads : In(obj'[u])
  BY <1>3 DEF StoreTypeOK
<1>4. In(Idle) /\ In([Idle EXCEPT !.pc = "threw"])
  BY DEF Idle
<1>5. CASE Throw(t) /\ UNCHANGED <<json, recorded>>
  BY <1>3, <1>4, <1>5 DEF Throw
<1>6. ASSUME NEW p \in CallPCs, obj' = [obj EXCEPT ![t].pc = p]
      PROVE  \A u \in Threads : In(obj'[u])
  BY <1>2, <1>3, <1>6
<1>7. CASE ConstructorStep(t)
  <2>1. UNCHANGED <<json, recorded>>
    BY <1>7, OwnCallOnly
  <2>2. CASE CheckEmpty(t) /\ ~Throw(t)
    <3>1. In([c EXCEPT !.attempts = c.attempts + 1])
      BY <1>1 DEF Calls
    <3> QED
      BY <2>1, <2>2, <3>1, <1>3 DEF CheckEmpty
  <2>3. CASE ParseLedger(t) /\ ~Throw(t)
    <3>1. In([c EXCEPT !.pc = "find", !.already = json.names])
      BY <1>1 DEF Calls
    <3> QED
      BY <2>1, <2>3, <3>1, <1>3 DEF ParseLedger
  <2>4. CASE HDF5Find(t)
    <3>1. \A x : In([c EXCEPT !.pc = "built", !.to_transfer = x])
      BY <1>1 DEF Calls
    <3> QED
      BY <2>1, <2>4, <3>1, <1>3 DEF HDF5Find
  <2>5. CASE Construct(t) \/ CheckReady(t)
    BY <2>1, <2>5, <1>6 DEF Construct, CheckReady, CallPCs
  <2> QED
    BY <1>5, <1>7, <2>1, <2>2, <2>3, <2>4, <2>5
    DEF ConstructorStep, ReadJSONStep, CheckMissing, HDF5FindNoStorage
<1>8. ASSUME NEW f \in Files \cap S, WriteJSON(t, f)
      PROVE  \A u \in Threads : In(obj'[u])
  <2>1. In([c EXCEPT !.pc = "wread", !.adding = {f}])
    BY <1>1 DEF Calls
  <2> QED
    BY <1>8, <2>1, <1>3 DEF WriteJSON
<1>9. CASE ReadForWrite(t)
  <2>1. In([c EXCEPT !.pc = "wtrunc", !.data = json.names \cup c.adding])
    BY <1>1 DEF Calls
  <2> QED
    BY <1>9, <2>1, <1>3, <1>5, <1>6 DEF ReadForWrite, CallPCs
<1>10. CASE Truncate(t)
  <2>1. \A u \in Threads : In(obj'[u])
    BY <1>10, <1>6 DEF Truncate, CallPCs
  <2> QED
    BY <1>10, <2>1 DEF Truncate, Ledger
<1>11. CASE FlushHead(t) \/ Flush(t)
  <2>1. In([c EXCEPT !.pc = "written", !.already = c.already \cup c.adding])
    BY <1>1 DEF Calls
  <2>2. \A u \in Threads : In(obj'[u])
    <3>1. CASE FlushHead(t)
      BY <1>6, <3>1 DEF FlushHead, CallPCs
    <3>2. CASE Flush(t)
      BY <2>1, <1>3, <3>2 DEF Flush
    <3> QED
      BY <1>11, <3>1, <3>2
  <2>3. \E part : Put(t, part)
    BY <1>11 DEF FlushHead, Flush
  <2> QED
    BY <1>1, <2>2, <2>3 DEF Put, Overlay, Ledger
<1>12. CASE Forget(t) /\ UNCHANGED <<json, recorded>>
  BY <1>3, <1>4, <1>12 DEF Forget
<1> QED
  BY <1>7, <1>8, <1>9, <1>10, <1>11, <1>12, OwnCallOnly
  DEF WriterStep

-----------------------------------------------------------------------------
(* What the ledger and the threads that rewrite it hold. *)

\* What the ledger holds, by its kind.
LedgerHolds ==
  /\ json.kind = "list" => json.names = recorded
  /\ json.kind # "list" => json.names = {}
  /\ json.kind \in {"nokey", "notarray"} => recorded = {}

\* Where a call is once it has a name to add, and once it has read the ledger.
HasRead == {"wtrunc", "wflush", "wrest"}
Adding == HasRead \cup {"wread"}

\* The threads in S add the same name, and those that have read the ledger
\* have every recorded name in hand.
WritersAgree(S, name) ==
  \A t \in S :
    /\ obj[t].pc \in Adding => obj[t].adding = {name}
    /\ obj[t].pc \in HasRead => obj[t].data = recorded \cup {name}

\* A step of the class keeps both facts, whichever thread takes it: it may
\* construct an object, but only a thread in S adds the name.
LEMMA WriterKeepsLedger ==
  ASSUME StoreTypeOK, NEW S \in SUBSET Threads, NEW name,
         LedgerHolds, WritersAgree(S, name),
         NEW t \in Threads,
         \/ ConstructorStep(t)
         \/ t \in S /\ (WriteJSON(t, name) \/ WriterStep(t))
         \/ Forget(t) /\ UNCHANGED <<json, recorded>>
  PROVE  LedgerHolds' /\ WritersAgree(S, name)'
<1>t. obj[t] \in Calls /\ DOMAIN obj = Threads
  BY DEF StoreTypeOK
<1> USE DEF Adding, HasRead
<1>1. ASSUME UNCHANGED <<json, recorded>>,
             NEW c, obj' = [obj EXCEPT ![t] = c],
             t \in S =>
               /\ c.pc \in Adding => c.adding = {name}
               /\ c.pc \in HasRead =>
                    c.data = recorded \cup {name}
      PROVE  LedgerHolds' /\ WritersAgree(S, name)'
  BY <1>1, <1>t DEF LedgerHolds, WritersAgree
<1>2. CASE ConstructorStep(t)
  <2>1. UNCHANGED <<json, recorded>>
    BY <1>2, OwnCallOnly
  <2>2. ASSUME NEW c, obj' = [obj EXCEPT ![t] = c],
               c.pc \notin Adding
        PROVE  LedgerHolds' /\ WritersAgree(S, name)'
    BY <1>1, <2>1, <2>2
  <2>3. CASE Throw(t)
    BY <2>2, <2>3 DEF Throw, Idle
  <2>4. ASSUME NEW p \in CallPCs \ Adding,
               obj' = [obj EXCEPT ![t].pc = p]
        PROVE  LedgerHolds' /\ WritersAgree(S, name)'
    <3>1. [obj[t] EXCEPT !.pc = p].pc = p
      BY <1>t DEF Calls
    <3> QED
      BY <2>2, <2>4, <3>1
  <2>5. CASE CheckEmpty(t) /\ ~Throw(t)
    <3>1. [obj[t] EXCEPT !.attempts = obj[t].attempts + 1].pc = "check"
      BY <2>5, <1>t DEF CheckEmpty, Calls
    <3>2. obj' = [obj EXCEPT ![t] =
                    [obj[t] EXCEPT !.attempts = obj[t].attempts + 1]]
      BY <2>5 DEF CheckEmpty
    <3> QED
      BY <2>2, <3>1, <3>2
  <2>6. CASE ParseLedger(t) /\ ~Throw(t)
    <3>1. [obj[t] EXCEPT !.pc = "find", !.already = json.names].pc = "find"
      BY <1>t DEF Calls
    <3> QED
      BY <2>2, <2>6, <3>1 DEF ParseLedger
  <2>7. CASE HDF5Find(t)
    <3>1. \A x : [obj[t] EXCEPT !.pc = "built", !.to_transfer = x].pc = "built"
      BY <1>t DEF Calls
    <3> QED
      BY <2>2, <2>7, <3>1 DEF HDF5Find
  <2>8. CASE Construct(t) \/ CheckReady(t)
    BY <2>4, <2>8 DEF Construct, CheckReady, CallPCs
  <2> QED
    BY <1>2, <2>3, <2>5, <2>6, <2>7, <2>8
    DEF ConstructorStep, ReadJSONStep, CheckMissing, HDF5FindNoStorage
<1>3. CASE t \in S /\ WriteJSON(t, name)
  <2> DEFINE c == [obj[t] EXCEPT !.pc = "wread", !.adding = {name}]
  <2>1. c.pc = "wread" /\ c.adding = {name}
    BY <1>t DEF Calls
  <2>2. obj' = [obj EXCEPT ![t] = c] /\ UNCHANGED <<json, recorded>>
    BY <1>3 DEF WriteJSON
  <2> QED
    BY <1>1, <2>1, <2>2
<1>4. CASE t \in S /\ ReadForWrite(t)
  <2>1. UNCHANGED <<json, recorded>> /\ obj[t].adding = {name}
    BY <1>4 DEF ReadForWrite, WritersAgree
  <2>2. CASE Throw(t)
    BY <1>1, <2>1, <2>2 DEF Throw, Idle
  <2>3. CASE obj' = [obj EXCEPT ![t].pc = "written"]
    <3>1. [obj[t] EXCEPT !.pc = "written"].pc = "written"
      BY <1>t DEF Calls
    <3> QED
      BY <1>1, <2>1, <2>3, <3>1
  <2>4. CASE /\ json.kind \in {"list", "nokey"}
             /\ obj' = [obj EXCEPT ![t] =
                          [@ EXCEPT !.pc = "wtrunc",
                                    !.data = json.names \cup obj[t].adding]]
    <3> DEFINE c == [obj[t] EXCEPT !.pc = "wtrunc",
                                   !.data = json.names \cup obj[t].adding]
    <3>1. c.adding = {name} /\ c.data = json.names \cup {name}
      BY <1>t, <2>1 DEF Calls
    <3>2. json.names = recorded
      BY <2>4 DEF LedgerHolds
    <3>3. obj' = [obj EXCEPT ![t] = c]
      BY <2>4
    <3> QED
      BY <1>1, <2>1, <3>1, <3>2, <3>3
  <2> QED
    BY <1>4, <2>2, <2>3, <2>4 DEF ReadForWrite
<1>5. CASE t \in S /\ Truncate(t)
  <2>1. /\ obj' = [obj EXCEPT ![t].pc = "wflush"] /\ obj[t].pc = "wtrunc"
        /\ json' = [kind |-> "empty", names |-> {}]
        /\ UNCHANGED recorded
    BY <1>5 DEF Truncate, Ledger
  <2>2. obj'[t].adding = obj[t].adding /\ obj'[t].data = obj[t].data
    BY <2>1, <1>t DEF Calls
  <2>3. \A u \in S \ {t} : obj'[u] = obj[u]
    BY <2>1
  <2>4. LedgerHolds'
    BY <2>1 DEF LedgerHolds
  <2>5. obj[t].adding = {name} /\ obj[t].data = recorded \cup {name}
    BY <1>5, <2>1 DEF WritersAgree
  <2> QED
    BY <2>1, <2>2, <2>3, <2>4, <2>5 DEF WritersAgree
<1>p. ASSUME NEW part \in {"head", "tail", "list"}, Put(t, part),
             obj[t].data = recorded \cup {name}
      PROVE  /\ LedgerHolds'
             /\ recorded' \in {recorded, recorded \cup {name}}
  <2>1. CASE json'.kind = "list"
    <3>1. json'.names = recorded \cup {name}
      BY <1>p, <2>1 DEF Put, Overlay, Ledger
    <3> QED
      BY <1>p, <2>1, <3>1 DEF Put, LedgerHolds
  <2>2. CASE json'.kind # "list"
    <3>1. json'.names = {} /\ json'.kind \in {"head", "tail"}
      BY <1>p, <2>2 DEF Put, Overlay, Ledger
    <3> QED
      BY <1>p, <3>1 DEF Put, LedgerHolds
  <2> QED
    BY <2>1, <2>2
<1>6. CASE t \in S /\ (FlushHead(t) \/ Flush(t))
  <2>1. obj[t].adding = {name} /\ obj[t].data = recorded \cup {name}
    BY <1>6 DEF FlushHead, Flush, WritersAgree
  <2>2. PICK part \in {"head", "tail", "list"} : Put(t, part)
    BY <1>6 DEF FlushHead, Flush
  <2>3. LedgerHolds'
    BY <2>1, <2>2, <1>p
  <2>4. recorded' \in {recorded, recorded \cup {name}}
    BY <2>1, <2>2, <1>p
  <2>5. \A u \in S \ {t} : obj'[u] = obj[u]
    <3>1. \E c : obj' = [obj EXCEPT ![t] = c]
      BY <1>6 DEF FlushHead, Flush
    <3> QED
      BY <1>t, <3>1
  <2>6. /\ obj'[t].adding = {name}
        /\ obj'[t].pc # "written" => obj'[t].data = recorded \cup {name}
    BY <1>6, <1>t, <2>1 DEF FlushHead, Flush, Calls
  <2>7. \A u \in S : /\ obj'[u].pc \in Adding => obj'[u].adding = {name}
                     /\ obj'[u].pc \in HasRead =>
                          obj'[u].data = recorded \cup {name}
    BY <2>5, <2>6 DEF WritersAgree
  <2> QED
    BY <2>3, <2>4, <2>7 DEF WritersAgree
<1>7. CASE Forget(t) /\ UNCHANGED <<json, recorded>>
  BY <1>1, <1>7 DEF Forget, Idle
<1> QED
  BY <1>2, <1>3, <1>4, <1>5, <1>6, <1>7 DEF WriterStep
=============================================================================
