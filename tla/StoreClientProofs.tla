-------------------------- MODULE StoreClientProofs --------------------------
(***************************************************************************)
(* Proofs about StoreClient, for every number of threads that rewrite the  *)
(* ledger at once, every ledger to begin with, and deaths anywhere.        *)
(***************************************************************************)
EXTENDS StoreClient, HDF5FromStorageProofs

-----------------------------------------------------------------------------
(* Types. *)

LEMMA TypeStep == TypeOK /\ [Next]_storeVars => TypeOK'
<1> SUFFICES ASSUME TypeOK, [Next]_storeVars PROVE TypeOK'
  OBVIOUS
<1> USE DEF TypeOK
<1>1. ASSUME NEW t \in Threads, ConstructorStep(t) \/ WriteStep(t) \/ Drop(t)
      PROVE  StoreTypeOK'
  BY <1>1, StoreTypeStep DEF WriteStep, Drop
<1>2. CASE Die
  BY <1>2, CallUpdates DEF Die, StoreTypeOK
<1>3. CASE ProvideLedger
  <2>1. FirstNames \in SUBSET Files
    BY StoreAssumption
  <2> QED
    BY <1>3, <2>1 DEF ProvideLedger, Ledger, Kinds, StoreTypeOK
<1>4. CASE StorageStep
  BY <1>4 DEF StorageStep, StoreTypeOK, Stages
<1>5. CASE UNCHANGED storeVars
  BY <1>5 DEF storeVars, StoreTypeOK
<1> QED
  BY <1>1, <1>2, <1>3, <1>4, <1>5 DEF Next

\* Every variable stays in its range, with any number of threads.
THEOREM TypeCorrect == Spec => []TypeOK
<1>1. Init => TypeOK
  BY InitStoreType DEF Init, TypeOK
<1> QED
  BY <1>1, TypeStep, PTL DEF Spec

-----------------------------------------------------------------------------
(* The ledger is complete. *)

\* The threads at work add one name.
OneName(name) ==
  /\ \A t \in Threads : obj[t].adding \subseteq {name}
  /\ WritersAgree(Threads, name)

\* While a thread has read the ledger, it is not one that a person would
\* replace, unless a thread is about to fill it.
InUse ==
  (\E t \in Threads : obj[t].pc = "wtrunc")
    => \/ json.kind \notin {"absent", "empty", "head"}
       \/ \E t \in Threads : Rewriting(t)

Complete == LedgerHolds /\ InUse /\ \E name : OneName(name)

LEMMA InitComplete == Init => Complete
<1> SUFFICES ASSUME Init PROVE Complete
  OBVIOUS
<1>1. \A t \in Threads : obj[t].pc = "idle" /\ obj[t].adding = {}
  BY DEF Init, InitStore, Idle
<1>2. LedgerHolds /\ InUse
  BY <1>1 DEF Init, InitStore, Ledger, LedgerHolds, InUse
<1>3. \A name : OneName(name)
  BY <1>1 DEF OneName, WritersAgree, Adding, HasRead
<1> QED
  BY <1>2, <1>3 DEF Complete

\* A step of one thread.  When it calls WriteJSON, all others add that name.
LEMMA ThreadComplete ==
  ASSUME TypeOK, Complete, NEW t \in Threads,
         ConstructorStep(t) \/ WriteStep(t) \/ Drop(t)
  PROVE  Complete'
<1>0. StoreTypeOK /\ DOMAIN obj = Threads /\ obj[t] \in Calls
  BY DEF TypeOK, StoreTypeOK
<1>1. PICK name :
        /\ OneName(name)
        /\ \/ ConstructorStep(t) \/ WriteJSON(t, name) \/ WriterStep(t)
           \/ Forget(t) /\ UNCHANGED <<json, recorded>>
  <2>1. PICK m : OneName(m)
    BY DEF Complete
  <2>2. CASE \E f \in Files : /\ \A u \in Threads : obj[u].adding \subseteq {f}
                              /\ WriteJSON(t, f)
    <3>1. PICK f \in Files : /\ \A u \in Threads : obj[u].adding \subseteq {f}
                             /\ WriteJSON(t, f)
      BY <2>2
    <3>2. ASSUME NEW u \in Threads, obj[u].pc \in Adding
          PROVE  m = f
      <4>1. obj[u].adding = {m} /\ obj[u].adding \subseteq {f}
        BY <2>1, <3>1, <3>2 DEF OneName, WritersAgree
      <4> QED
        BY <4>1
    <3>3. OneName(f)
      BY <2>1, <3>1, <3>2 DEF OneName, WritersAgree, Adding
    <3> QED
      BY <3>1, <3>3
  <2> QED
    BY <2>1, <2>2 DEF WriteStep, Drop
<1>2. LedgerHolds' /\ WritersAgree(Threads, name)'
  BY <1>0, <1>1, WriterKeepsLedger DEF OneName, Complete
<1>3. /\ \A u \in Threads \ {t} : obj'[u] = obj[u]
      /\ obj'[t].adding \in {obj[t].adding, {}, {name}}
  <2>1. \A u \in Threads \ {t} : obj'[u] = obj[u]
    <3>1. \E c : obj' = [obj EXCEPT ![t] = c]
      BY <1>1 DEF ConstructorStep, ReadJSONStep, WriterStep, Construct,
         CheckMissing, CheckEmpty, CheckReady, ParseLedger, HDF5Find,
         HDF5FindNoStorage, WriteJSON, ReadForWrite, Truncate, FlushHead, Flush,
         Forget, Throw
    <3> QED
      BY <1>0, <3>1
  <2>2. CASE ConstructorStep(t) \/ Forget(t)
    <3>1. CASE ParseLedger(t)
      BY <1>0, <3>1 DEF ParseLedger, Throw, Idle, Calls
    <3>2. CASE HDF5Find(t)
      BY <1>0, <3>2 DEF HDF5Find, Calls
    <3>3. CASE Construct(t) \/ CheckReady(t)
      BY <1>0, <3>3 DEF Construct, CheckReady, Calls
    <3>4. CASE CheckEmpty(t)
      BY <1>0, <3>4 DEF CheckEmpty, Throw, Idle, Calls
    <3>5. CASE CheckMissing(t) \/ HDF5FindNoStorage(t) \/ Forget(t)
      BY <1>0, <3>5 DEF CheckMissing, HDF5FindNoStorage, Throw, Forget, Idle
    <3> QED
      BY <2>2, <3>1, <3>2, <3>3, <3>4, <3>5 DEF ConstructorStep, ReadJSONStep
  <2>3. CASE WriteJSON(t, name)
    BY <1>0, <2>3 DEF WriteJSON, Calls
  <2>4. CASE ReadForWrite(t)
    <3>1. CASE json.kind \notin {"list", "nokey"}
      <4>1. obj' = [obj EXCEPT ![t] = [Idle EXCEPT !.pc = "threw"]]
        BY <2>4, <3>1 DEF ReadForWrite, Throw
      <4> QED
        BY <1>0, <2>1, <4>1 DEF Idle
    <3>2. CASE json.kind \in {"list", "nokey"} /\ obj[t].adding \subseteq json.names
      BY <1>0, <2>4, <3>2 DEF ReadForWrite, Calls
    <3>3. CASE json.kind \in {"list", "nokey"} /\ ~(obj[t].adding \subseteq json.names)
      BY <1>0, <2>4, <3>3 DEF ReadForWrite, Calls
    <3> QED
      BY <3>1, <3>2, <3>3
  <2>5. CASE Truncate(t) \/ FlushHead(t)
    BY <1>0, <2>5 DEF Truncate, FlushHead, Calls
  <2>6. CASE Flush(t)
    BY <1>0, <2>6 DEF Flush, Calls
  <2> QED
    BY <1>1, <2>1, <2>2, <2>3, <2>4, <2>5, <2>6 DEF WriterStep
<1>4. \A u \in Threads : obj'[u].adding \subseteq {name}
  BY <1>1, <1>3 DEF OneName
<1>5. InUse'
  <2>1. CASE Truncate(t) \/ FlushHead(t)
    <3>1. obj'[t].pc \in {"wflush", "wrest"}
      BY <1>0, <2>1 DEF Truncate, FlushHead, Calls
    <3> QED
      BY <3>1 DEF InUse, Rewriting
  <2>2. CASE Flush(t)
    <3>1. json'.kind \in {"list", "tail"}
      BY <2>2 DEF Flush, Put, Overlay, Ledger
    <3> QED
      BY <3>1 DEF InUse
  <2>3. CASE ReadForWrite(t) /\ json.kind \in {"list", "nokey"}
    BY <2>3 DEF ReadForWrite, InUse
  <2>4. ASSUME UNCHANGED json, obj[t].pc \notin HasRead,
               obj'[t].pc \notin HasRead
        PROVE  InUse'
    <3>1. /\ \A u \in Threads : obj'[u].pc = "wtrunc" <=> obj[u].pc = "wtrunc"
          /\ \A u \in Threads : Rewriting(u)' <=> Rewriting(u)
      BY <1>3, <2>4 DEF HasRead, Rewriting
    <3> QED
      BY <2>4, <3>1 DEF Complete, InUse
  <2>5. CASE ConstructorStep(t)
    <3>1. obj'[t].pc \in {"check", "parse", "find", "built", "threw"}
      BY <1>0, <2>5
      DEF ConstructorStep, ReadJSONStep, Construct, CheckMissing, CheckEmpty,
          CheckReady, ParseLedger, HDF5Find, HDF5FindNoStorage, Throw, Calls,
          Idle
    <3>2. obj[t].pc \in {"idle", "check", "parse", "find"}
      BY <2>5
      DEF ConstructorStep, ReadJSONStep, Construct, CheckMissing, CheckEmpty,
          CheckReady, ParseLedger, HDF5Find, HDF5FindNoStorage
    <3>3. UNCHANGED json
      BY <1>0, <2>5, OwnCallOnly
    <3> QED
      BY <2>4, <3>1, <3>2, <3>3 DEF HasRead
  <2>6. CASE \E f \in Files : WriteJSON(t, f)
    <3>1. obj[t].pc = "built" /\ obj'[t].pc = "wread" /\ UNCHANGED json
      BY <1>0, <2>6 DEF WriteJSON, Calls
    <3> QED
      BY <2>4, <3>1 DEF HasRead
  <2>7. CASE ReadForWrite(t) /\ json.kind \notin {"list", "nokey"}
    <3>1. obj[t].pc = "wread" /\ obj'[t].pc = "threw" /\ UNCHANGED json
      <4>1. obj' = [obj EXCEPT ![t] = [Idle EXCEPT !.pc = "threw"]]
        BY <2>7 DEF ReadForWrite, Throw
      <4>2. obj[t].pc = "wread" /\ UNCHANGED json
        BY <2>7 DEF ReadForWrite
      <4> QED
        BY <1>0, <4>1, <4>2 DEF Idle
    <3> QED
      BY <2>4, <3>1 DEF HasRead
  <2>8. CASE Drop(t)
    <3>1. /\ obj[t].pc \in {"built", "written", "threw"}
          /\ obj'[t].pc = "idle" /\ UNCHANGED json
      BY <1>0, <2>8 DEF Drop, Forget, Idle
    <3> QED
      BY <2>4, <3>1 DEF HasRead
  <2> QED
    BY <2>1, <2>2, <2>3, <2>5, <2>6, <2>7, <2>8 DEF WriteStep, WriterStep
<1> QED
  BY <1>2, <1>4, <1>5 DEF Complete, OneName

LEMMA StepComplete == TypeOK /\ Complete /\ [Next]_storeVars => Complete'
<1> SUFFICES ASSUME TypeOK, Complete, [Next]_storeVars PROVE Complete'
  OBVIOUS
<1>1. ASSUME NEW t \in Threads, ConstructorStep(t) \/ WriteStep(t) \/ Drop(t)
      PROVE  Complete'
  BY <1>1, ThreadComplete
<1>2. CASE Die
  <2>1. \A t \in Threads : obj'[t] = Idle
    BY <1>2 DEF Die
  <2>2. LedgerHolds' /\ InUse'
    BY <1>2, <2>1 DEF Die, Complete, LedgerHolds, InUse, Idle
  <2>3. \A name : OneName(name)'
    BY <2>1 DEF OneName, WritersAgree, Adding, HasRead, Idle
  <2> QED
    BY <2>2, <2>3 DEF Complete
<1>3. CASE ProvideLedger
  <2>1. /\ json' = [kind |-> "list", names |-> FirstNames]
        /\ recorded' = FirstNames /\ obj' = obj
    BY <1>3 DEF ProvideLedger, Ledger
  <2>2. \A t \in Threads : obj[t].pc \notin HasRead
    BY <1>3 DEF ProvideLedger, Complete, InUse, Rewriting, HasRead
  <2>3. LedgerHolds' /\ InUse'
    BY <2>1 DEF LedgerHolds, InUse
  <2>4. \E name : OneName(name)'
    BY <2>1, <2>2 DEF Complete, OneName, WritersAgree
  <2> QED
    BY <2>3, <2>4 DEF Complete
<1>4. CASE StorageStep \/ UNCHANGED storeVars
  BY <1>4 DEF StorageStep, storeVars, Complete, LedgerHolds, InUse, Rewriting,
              OneName, WritersAgree
<1> QED
  BY <1>1, <1>2, <1>3, <1>4 DEF Next

\* A ledger that can be read holds every name ever put in it, and a thread that
\* is to fill it has them all, for every number of threads that rewrite it at
\* once and for deaths anywhere: what one thread has read stays complete until
\* it is written, since all of them add the same name.
THEOREM LedgerComplete == Spec => []ReadableLedgerIsComplete
<1>1. TypeOK /\ Complete => ReadableLedgerIsComplete
  BY DEF Complete, LedgerHolds, OneName, WritersAgree, HasRead, Rewriting,
         ReadableLedgerIsComplete
<1> QED
  BY <1>1, InitComplete, StepComplete, TypeCorrect, PTL DEF Spec
=============================================================================
