---------------------- MODULE FilterOrchestratorProofs ----------------------
(***************************************************************************)
(* Proofs about FilterOrchestrator, for every MaxInstructions and Windows. *)
(***************************************************************************)
EXTENDS FilterOrchestrator, TLAPS

\* Every step of the program and of its peer keeps the variables in range.
LEMMA TypeStep == TypeOK /\ [Next]_vars => TypeOK'
<1> SUFFICES ASSUME TypeOK, [Next]_vars PROVE TypeOK'
  OBVIOUS
<1> USE FOAssumption DEF TypeOK, PCs, MsgIds
<1>1. CASE AddCallback
  BY <1>1 DEF AddCallback
<1>2. CASE HandshakeDone
  BY <1>2 DEF HandshakeDone
<1>3. CASE RemoveCallback
  BY <1>3 DEF RemoveCallback
<1>4. CASE RequestNextTr
  BY <1>4 DEF RequestNextTr
<1>5. ASSUME NEW m \in MsgIds, Callback(m) PROVE TypeOK'
  BY <1>5 DEF Callback
<1>6. CASE Instruct
  BY <1>6 DEF Instruct
<1>7. CASE Chatter
  BY <1>7 DEF Chatter
<1>8. CASE UNCHANGED vars
  BY <1>8 DEF vars
<1> QED
  BY <1>1, <1>2, <1>3, <1>4, <1>5, <1>6, <1>7, <1>8
  DEF Next, Main, EventLoop

\* The variables of the orchestrator stay in range, whatever the bounds.
THEOREM TypeCorrect == Spec => []TypeOK
<1>1. Init => TypeOK
  BY FOAssumption DEF Init, TypeOK, PCs, MsgIds
<1> QED
  BY <1>1, TypeStep, PTL DEF Spec

\* The counter of receive() and the requests stay within the instructions: the
\* types and NoUnaskedRequest are inductive together.
LEMMA AskedStep ==
  TypeOK /\ NoUnaskedRequest /\ [Next]_vars => NoUnaskedRequest'
<1> SUFFICES ASSUME TypeOK, NoUnaskedRequest, [Next]_vars
             PROVE NoUnaskedRequest'
  OBVIOUS
<1> USE FOAssumption DEF TypeOK, PCs, MsgIds, NoUnaskedRequest, Counted
<1>1. CASE AddCallback
  BY <1>1 DEF AddCallback
<1>2. CASE HandshakeDone
  BY <1>2 DEF HandshakeDone
<1>3. CASE RemoveCallback
  BY <1>3 DEF RemoveCallback
<1>4. CASE RequestNextTr
  BY <1>4 DEF RequestNextTr
<1>5. ASSUME NEW m \in MsgIds, Callback(m) PROVE NoUnaskedRequest'
  <2>1. CASE m = "next_tr"
    BY <1>5, <2>1 DEF Callback, CallbackRegistered
  <2>2. CASE m = "other"
    BY <1>5, <2>2 DEF Callback, CallbackRegistered
  <2> QED
    BY <2>1, <2>2
<1>6. CASE Instruct
  BY <1>6 DEF Instruct
<1>7. CASE Chatter
  BY <1>7 DEF Chatter
<1>8. CASE UNCHANGED vars
  BY <1>8 DEF vars
<1> QED
  BY <1>1, <1>2, <1>3, <1>4, <1>5, <1>6, <1>7, <1>8
  DEF Next, Main, EventLoop

\* receive() never sends a request that no "next_tr" of its own round asked
\* for, for any number of instructions and however they are bunched.
THEOREM NoRequestUnasked == Spec => []NoUnaskedRequest
<1>1. Init => NoUnaskedRequest
  BY FOAssumption DEF Init, NoUnaskedRequest, Counted, MsgIds
<1> QED
  BY <1>1, TypeCorrect, AskedStep, PTL DEF Spec

\* Once two instructions were counted in one round, the test for equality with
\* one never succeeds again and the requests stop.
THEOREM OverrunStays == Spec => OverrunIsPermanent
<1>1. TypeOK /\ [Next]_vars
        => [Overrun => Overrun' /\ requested' = requested]_vars
  <2> SUFFICES ASSUME TypeOK, [Next]_vars, Overrun
               PROVE Overrun' /\ requested' = requested
    OBVIOUS
  <2> USE DEF TypeOK, MsgIds, Overrun
  <2>1. CASE Main
    BY <2>1 DEF Main, AddCallback, HandshakeDone, RemoveCallback, RequestNextTr
  <2>2. ASSUME NEW m \in MsgIds, Callback(m)
        PROVE Overrun' /\ requested' = requested
    BY <2>2 DEF Callback
  <2>3. CASE Instruct \/ Chatter
    BY <2>3 DEF Instruct, Chatter
  <2>4. CASE UNCHANGED vars
    BY <2>4 DEF vars
  <2> QED
    BY <2>1, <2>2, <2>3, <2>4 DEF Next, EventLoop
<1> QED
  BY <1>1, TypeCorrect, PTL DEF Spec, OverrunIsPermanent

\* An instruction is lost only to the callback that runs between the sample of
\* the spin loop and remove_callback(), for any peer and any number of them.
THEOREM OnlyLateOnesLost == Spec => LostOnlyAfterSample
<1> DEFINE LostLate ==
             /\ pc = "remove"
             /\ Lost' = Lost + 1
             /\ trdispatcher1'["next_tr"] = trdispatcher1["next_tr"] - 1
<1>1. TypeOK /\ NoUnaskedRequest /\ [Next]_vars => [Lost' # Lost => LostLate]_vars
  <2> SUFFICES ASSUME TypeOK, NoUnaskedRequest, [Next]_vars
               PROVE Lost' = Lost \/ LostLate
    OBVIOUS
  <2> USE DEF TypeOK, PCs, MsgIds, NoUnaskedRequest, Counted, Lost, Answering
  <2>1. CASE AddCallback
    BY <2>1 DEF AddCallback
  <2>2. CASE HandshakeDone
    BY <2>2 DEF HandshakeDone
  <2>3. CASE RemoveCallback
    BY <2>3 DEF RemoveCallback
  <2>4. CASE RequestNextTr
    BY <2>4 DEF RequestNextTr
  <2>5. ASSUME NEW m \in MsgIds, Callback(m) PROVE Lost' = Lost \/ LostLate
    <3>1. CASE m = "next_tr"
      BY <2>5, <3>1 DEF Callback, CallbackRegistered
    <3>2. CASE m = "other"
      BY <2>5, <3>2 DEF Callback, CallbackRegistered
    <3> QED
      BY <3>1, <3>2
  <2>6. CASE Instruct
    BY <2>6, FOAssumption DEF Instruct
  <2>7. CASE Chatter
    BY <2>7 DEF Chatter
  <2>8. CASE UNCHANGED vars
    BY <2>8 DEF vars
  <2> QED
    BY <2>1, <2>2, <2>3, <2>4, <2>5, <2>6, <2>7, <2>8
    DEF Next, Main, EventLoop
<1> QED
  BY <1>1, TypeCorrect, NoRequestUnasked, PTL DEF Spec, LostOnlyAfterSample

\* With a peer that awaits each request, at most one instruction is ever
\* without its request; this is what keeps the count from passing one.
Paced == window = 1 => instructed <= requested + 1

LEMMA PacedStep ==
  TypeOK /\ NoUnaskedRequest /\ NothingMerged /\ Paced /\ [Next]_vars
    => (NothingMerged /\ Paced)'
<1> SUFFICES ASSUME TypeOK, NoUnaskedRequest, NothingMerged, Paced, [Next]_vars
             PROVE (NothingMerged /\ Paced)'
  OBVIOUS
<1> USE FOAssumption
    DEF TypeOK, MsgIds, NoUnaskedRequest, NothingMerged, Paced, Counted, Overrun
<1>1. CASE AddCallback
  BY <1>1 DEF AddCallback
<1>2. CASE HandshakeDone
  BY <1>2 DEF HandshakeDone
<1>3. CASE RemoveCallback
  BY <1>3 DEF RemoveCallback
<1>4. CASE RequestNextTr
  BY <1>4 DEF RequestNextTr
<1>5. ASSUME NEW m \in MsgIds, Callback(m) PROVE (NothingMerged /\ Paced)'
  <2>1. CASE m = "next_tr"
    BY <1>5, <2>1 DEF Callback, CallbackRegistered
  <2>2. CASE m = "other"
    BY <1>5, <2>2 DEF Callback, CallbackRegistered
  <2> QED
    BY <2>1, <2>2
<1>6. CASE Instruct
  BY <1>6 DEF Instruct
<1>7. CASE Chatter
  BY <1>7 DEF Chatter
<1>8. CASE UNCHANGED vars
  BY <1>8 DEF vars
<1> QED
  BY <1>1, <1>2, <1>3, <1>4, <1>5, <1>6, <1>7, <1>8
  DEF Next, Main, EventLoop

\* With such a peer no two instructions are merged and none disappears, for
\* any number of them.
THEOREM PacedNothingMerged == Spec => []NothingMerged
<1>1. Init => NothingMerged /\ Paced
  BY DEF Init, NothingMerged, Paced, Counted, Overrun, MsgIds
<1> QED
  BY <1>1, PacedStep, TypeCorrect, NoRequestUnasked, PTL DEF Spec

\* The orchestrator is a relay, with any peer: each of its requests follows an
\* instruction that no earlier request has answered.
THEOREM ImplementsRelay == Spec => Relay!SafeSpec
<1>1. Init => Relay!Init
  BY DEF Init, Relay!Init
<1>2. TypeOK /\ NoUnaskedRequest /\ [Next]_vars
        => [Relay!Next]_<<instructed, requested>>
  <2> SUFFICES ASSUME TypeOK, NoUnaskedRequest, [Next]_vars
               PROVE Relay!Next \/ UNCHANGED <<instructed, requested>>
    OBVIOUS
  <2>1. CASE RequestNextTr
    <3>1. requested < instructed
      BY <2>1 DEF RequestNextTr, TypeOK, MsgIds, NoUnaskedRequest, Counted
    <3> QED
      BY <2>1, <3>1 DEF RequestNextTr, Relay!Next, Relay!Answer
  <2>2. CASE Instruct
    BY <2>2 DEF Instruct, Relay!Next, Relay!Ask
  <2>3. CASE AddCallback \/ HandshakeDone \/ RemoveCallback \/ Chatter
    BY <2>3 DEF AddCallback, HandshakeDone, RemoveCallback, Chatter
  <2>4. ASSUME NEW m \in MsgIds, Callback(m)
        PROVE UNCHANGED <<instructed, requested>>
    BY <2>4 DEF Callback
  <2>5. CASE UNCHANGED vars
    BY <2>5 DEF vars
  <2> QED
    BY <2>1, <2>2, <2>3, <2>4, <2>5 DEF Next, Main, EventLoop
<1> QED
  BY <1>1, <1>2, TypeCorrect, NoRequestUnasked, PTL
  DEF Spec, Relay!SafeSpec
=============================================================================
