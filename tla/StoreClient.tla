---------------------------- MODULE StoreClient ----------------------------
(***************************************************************************)
(* HDF5FromStorage used the way the sender threads use it: construct an    *)
(* object, call WriteJSON with the name of the file that all of them send, *)
(* drop the object.  The process may die at any step and start again, and  *)
(* a person may put a usable ledger where there is none or one that was    *)
(* cut short.                                                              *)
(***************************************************************************)
EXTENDS HDF5FromStorage

Init == InitStore

\* The senders at work are those of one file.
WriteStep(t) ==
  \/ WriterStep(t)
  \/ \E f \in Files :
       /\ \A u \in Threads : obj[u].adding \subseteq {f}
       /\ WriteJSON(t, f)

Drop(t) ==
  /\ obj[t].pc \in {"built", "written", "threw"}
  /\ Forget(t)
  /\ UNCHANGED <<json, storage, recorded>>

Die ==
  /\ \E t \in Threads : obj[t].pc # "idle"
  /\ obj' = [t \in Threads |-> Idle]
  /\ UNCHANGED <<json, storage, recorded>>

\* Somebody copies a ledger back; its names are what is on record from now.
ProvideLedger ==
  /\ json.kind \in {"absent", "empty", "head"}
  /\ \A t \in Threads : ~Rewriting(t)
  /\ json' = Ledger("list", FirstNames)
  /\ recorded' = FirstNames
  /\ UNCHANGED <<storage, obj>>

Next ==
  \/ \E t \in Threads :
       ConstructorStep(t) \/ WriteStep(t) \/ Drop(t)
  \/ Die \/ ProvideLedger \/ StorageStep

Spec == Init /\ [][Next]_storeVars

\* A thread inside ReadJSON goes on running; nothing is assumed of the rest.
FairSpec == Spec /\ \A t \in Threads : WF_storeVars(ReadJSONStep(t))

-----------------------------------------------------------------------------
(* Properties. *)

\* Every variable stays in its range.
TypeOK == StoreTypeOK

\* Whenever the ledger can be read it holds every name that was ever put in
\* it, and while it is empty or half written the thread that fills it again has
\* them all: rewriting the whole file to add one name never loses another, although
\* the process may die between the truncation and the write.
ReadableLedgerIsComplete ==
  /\ json.kind = "list" => json.names = recorded
  /\ \A t \in Threads : Rewriting(t) => recorded \subseteq obj[t].data

\* ReadJSON gives up on a ledger, missing or empty, only after all its attempts,
\* as its comments say.
GivesUpOnlyAfterRetries ==
  [][\A t \in Threads :
       obj[t].pc = "check" /\ obj'[t].pc = "threw"
         => obj[t].attempts = MaxRetries - 1]_storeVars

\* The wait for a ledger that stays empty is bounded: the constructor always
\* gets past it, with an object or with an exception.
WaitIsBounded == \A t \in Threads : obj[t].pc = "check" ~> obj[t].pc # "check"
=============================================================================
