--------------------------- MODULE StartupProofs ---------------------------
(***************************************************************************)
(* Proofs about Startup, for every set of hosts and all values of num_apps. *)
(***************************************************************************)
EXTENDS Startup, TLAPS, FiniteSetTheorems

\* The connections of a row, one by one.
LEMMA RowsOfThree ==
  ASSUME NEW stem, NEW host, NEW port \in Nat
  PROVE  Row(stem, 3, host, port) =
           {[name |-> <<stem, 0>>, host |-> host, port |-> Port(port)],
            [name |-> <<stem, 1>>, host |-> host, port |-> Port(port + 1)],
            [name |-> <<stem, 2>>, host |-> host, port |-> Port(port + 2)]}
<1>1. 0..3 - 1 = {0, 1, 2}
  OBVIOUS
<1>2. port + 0 = port
  OBVIOUS
<1> QED
  BY <1>1, <1>2 DEF Row, Numbered

LEMMA RowsOfTwo ==
  ASSUME NEW stem, NEW host, NEW port \in Nat
  PROVE  Row(stem, 2, host, port) =
           {[name |-> <<stem, 0>>, host |-> host, port |-> Port(port)],
            [name |-> <<stem, 1>>, host |-> host, port |-> Port(port + 1)]}
<1>1. 0..2 - 1 = {0, 1}
  OBVIOUS
<1>2. port + 0 = port
  OBVIOUS
<1> QED
  BY <1>1, <1>2 DEF Row, Numbered

LEMMA RowsOfOne ==
  ASSUME NEW stem, NEW host, NEW port \in Nat
  PROVE  Row(stem, 1, host, port) =
           {[name |-> <<stem, 0>>, host |-> host, port |-> Port(port)]}
<1>1. 0..1 - 1 = {0}
  OBVIOUS
<1>2. port + 0 = port
  OBVIOUS
<1> QED
  BY <1>1, <1>2 DEF Row, Numbered

\* The port of each name, on every host and in every program.
PortOf ==
  {<<<<"TR_tracking", 0>>, 13000>>, <<<<"TR_tracking", 1>>, 13001>>,
   <<<<"TR_tracking", 2>>, 13002>>, <<<<"trdispatcher", 0>>, 23000>>,
   <<<<"trdispatcher", 1>>, 23001>>, <<<<"trdispatcher", 2>>, 23002>>,
   <<<<"trwriter", 0>>, 33000>>, <<<<"trwriter", 1>>, 33001>>,
   <<<<"trwriter", 2>>, 33002>>, <<<<"bookkeeping", 0>>, 17464>>,
   <<<<"bookkeeping", 1>>, 17465>>, <<<<"conn", 0, 0, 0>>, 15500>>,
   <<<<"conn", 1, 0, 0>>, 15501>>}

LEMMA PortsOfConnections ==
  ASSUME NEW p \in Programs, NEW o, NEW c \in configure_iomanager(p, o)
  PROVE  <<c.name, c.port>> \in PortOf
<1>1. ASSUME c \in Tracking(o) PROVE <<c.name, c.port>> \in PortOf
  BY <1>1, RowsOfThree DEF Tracking, Port, PortOf
<1>2. ASSUME c \in Requests(o) PROVE <<c.name, c.port>> \in PortOf
  BY <1>2, RowsOfThree DEF Requests, Port, PortOf
<1>3. ASSUME c \in Instructions(o) PROVE <<c.name, c.port>> \in PortOf
  BY <1>3, RowsOfThree DEF Instructions, Port, PortOf
<1>4. ASSUME c \in Bookkeeping(1, o) PROVE <<c.name, c.port>> \in PortOf
  BY <1>4, RowsOfOne DEF Bookkeeping, Port, PortOf
<1>5. ASSUME c \in Bookkeeping(2, o) PROVE <<c.name, c.port>> \in PortOf
  BY <1>5, RowsOfTwo DEF Bookkeeping, Port, PortOf
<1>6. ASSUME c \in RecordConnection(0, o.server, 15500)
      PROVE  <<c.name, c.port>> \in PortOf
  BY <1>6 DEF RecordConnection, get_connection_name, Port, PortOf
<1>7. ASSUME c \in WriterRecords(o) PROVE <<c.name, c.port>> \in PortOf
  BY <1>7 DEF WriterRecords, RecordConnection, get_connection_name, Port, PortOf
<1> QED
  BY <1>1, <1>2, <1>3, <1>4, <1>5, <1>6, <1>7
     DEF configure_iomanager, Own, Programs

\* No two names have one port.
LEMMA PortsTellNames ==
  ASSUME NEW x \in PortOf, NEW y \in PortOf, x[2] = y[2]
  PROVE  x[1] = y[1]
BY DEF PortOf

\* Whatever the hosts, two connections of different names never share an
\* address: the ports of configure_iomanager() are distinct in 16 bits.
THEOREM DistinctAddresses == Spec => []AddressesAreDistinct
<1>1. AddressesAreDistinct
  <2> SUFFICES ASSUME NEW p \in Programs, NEW q \in Programs,
                      NEW c \in Declared(p), NEW d \in Declared(q),
                      c.port = d.port
               PROVE  c.name = d.name
    BY DEF AddressesAreDistinct
  <2>1. <<c.name, c.port>> \in PortOf /\ <<d.name, d.port>> \in PortOf
    BY PortsOfConnections DEF Declared
  <2> QED
    BY <2>1, PortsTellNames
<1> QED
  BY <1>1, PTL

-----------------------------------------------------------------------------
(* The names that are looked up. *)

Names(p, o) == {c.name : c \in configure_iomanager(p, o)}

LEMMA RowNames ==
  ASSUME NEW stem, NEW count, NEW host, NEW port, NEW sub \in 0..count - 1
  PROVE  \E c \in Row(stem, count, host, port) : c.name = Numbered(stem, sub)
<1> DEFINE c == [name |-> Numbered(stem, sub), host |-> host,
                 port |-> Port(port + sub)]
<1>1. c \in Row(stem, count, host, port)
  BY DEF Row
<1>2. c.name = Numbered(stem, sub)
  OBVIOUS
<1> QED
  BY <1>1, <1>2

LEMMA SharedNames ==
  ASSUME NEW p, NEW o, NEW sub \in 0..2
  PROVE  Numbered("TR_tracking", sub) \in Names(p, o)
         /\ Numbered("trdispatcher", sub) \in Names(p, o)
<1> sub \in 0..3 - 1
  OBVIOUS
<1>1. \E c \in Tracking(o) : c.name = Numbered("TR_tracking", sub)
  BY RowNames DEF Tracking
<1>2. \E c \in Requests(o) : c.name = Numbered("trdispatcher", sub)
  BY RowNames DEF Requests
<1> QED
  BY <1>1, <1>2 DEF Names, configure_iomanager

LEMMA OwnNames ==
  ASSUME NEW o
  PROVE  /\ {get_connection_name(0, 0, 0), Numbered("bookkeeping", 0)}
              \subseteq Names("trdispatcher", o)
         /\ {get_connection_name(1, 0, 0), Numbered("bookkeeping", 0), Numbered("bookkeeping", 1),
             Numbered("trwriter", 0), Numbered("trwriter", 1)}
              \subseteq Names("filterresultwriter", o)
<1> /\ 0 \in 0..1 - 1 /\ 0 \in 0..2 - 1 /\ 1 \in 0..2 - 1
    /\ 0 \in 0..3 - 1 /\ 1 \in 0..3 - 1
  OBVIOUS
<1>1. \E c \in RecordConnection(0, o.server, 15500) : c.name = get_connection_name(0, 0, 0)
  BY DEF RecordConnection
<1>2. \E c \in WriterRecords(o) : c.name = get_connection_name(1, 0, 0)
  BY DEF WriterRecords, RecordConnection
<1>3. \E c \in Bookkeeping(1, o) : c.name = Numbered("bookkeeping", 0)
  BY RowNames DEF Bookkeeping
<1>4. /\ \E c \in Bookkeeping(2, o) : c.name = Numbered("bookkeeping", 0)
      /\ \E c \in Bookkeeping(2, o) : c.name = Numbered("bookkeeping", 1)
  BY RowNames DEF Bookkeeping
<1>5. /\ \E c \in Instructions(o) : c.name = Numbered("trwriter", 0)
      /\ \E c \in Instructions(o) : c.name = Numbered("trwriter", 1)
  BY RowNames DEF Instructions
<1>6. {get_connection_name(0, 0, 0), Numbered("bookkeeping", 0)} \subseteq Names("trdispatcher", o)
  BY <1>1, <1>3 DEF Names, configure_iomanager, Own
<1>7. {get_connection_name(1, 0, 0), Numbered("bookkeeping", 0), Numbered("bookkeeping", 1),
       Numbered("trwriter", 0), Numbered("trwriter", 1)}
        \subseteq Names("filterresultwriter", o)
  BY <1>2, <1>4, <1>5 DEF Names, configure_iomanager, Own
<1> QED
  BY <1>6, <1>7

\* What init() and the operations look up was declared.
LEMMA LookedUpIsDeclared ==
  ASSUME NEW p \in Programs, NEW o
  PROVE  Receivers(p) \cup Senders(p) \cup InitReceivers(p) \cup InitSenders(p)
           \subseteq Names(p, o)
<1>1. CASE p = "filterorchestrator"
  BY <1>1, SharedNames
     DEF Numbered, Receivers, Senders, InitReceivers, InitSenders, SecondSender,
         AnswerReceiver
<1>2. CASE p = "trdispatcher"
  BY <1>2, SharedNames, OwnNames
     DEF Numbered, Receivers, Senders, InitReceivers, InitSenders, SecondSender,
         AnswerReceiver, Records, MyId
<1>3. CASE p = "filterresultwriter"
  BY <1>3, SharedNames, OwnNames
     DEF Numbered, Receivers, WriterReceivers, Senders, InitReceivers, InitSenders,
         SecondSender, AnswerReceiver, Records, MyId
<1> QED
  BY <1>1, <1>2, <1>3 DEF Programs

LEMMA LookUpFinds ==
  ASSUME NEW p \in Programs, NEW R, NEW S, NEW goal,
         R \cup S \subseteq Names(p, options[p]),
         LookUp(p, R, S, goal)
  PROVE  /\ pc' = [pc EXCEPT ![p] = goal]
         /\ receivers' = receivers \cup ({p} \X R)
<1> DEFINE names == {connection.name : connection \in Declared(p)}
<1>1. names = Names(p, options[p])
  BY DEF Names, Declared
<1>2. R \cup S \subseteq names /\ R \cap names = R
  BY <1>1
<1>3. /\ pc' = [pc EXCEPT ![p] = IF R \cup S \subseteq names
                                   THEN goal ELSE "unknown_name"]
      /\ receivers' = receivers \cup ({p} \X (R \cap names))
  BY DEF LookUp
<1> QED
  BY <1>2, <1>3

-----------------------------------------------------------------------------
(* The invariant. *)

\* A program holds no receivers but those of init() and of its operations.
Held == \A r \in receivers : r[2] \in InitReceivers(r[1]) \cup Receivers(r[1])

IInv == TypeOK /\ NamesAreDeclared /\ Held

LEMMA InitIInv == Init => IInv
<1> SUFFICES ASSUME Init PROVE IInv
  OBVIOUS
<1>1. TypeOK
  BY DEF Init, TypeOK, PCs
<1>2. NamesAreDeclared
  BY DEF Init, NamesAreDeclared
<1>3. Held
  BY DEF Init, Held
<1> QED
  BY <1>1, <1>2, <1>3 DEF IInv

\* What a look-up adds.
LEMMA LookUpKeeps ==
  ASSUME IInv, NEW p \in Programs, NEW R, NEW S, NEW goal \in {"await", "run"},
         R \subseteq InitReceivers(p) \cup Receivers(p),
         S \subseteq InitSenders(p) \cup Senders(p),
         LookUp(p, R, S, goal)
  PROVE  /\ pc' = [pc EXCEPT ![p] = goal]
         /\ pc' \in [Programs -> PCs]
         /\ receivers' \subseteq
              Programs \X UNION {InitReceivers(q) \cup Receivers(q) : q \in Programs}
         /\ NamesAreDeclared'
         /\ Held'
<1>1. R \cup S \subseteq Names(p, options[p])
  BY LookedUpIsDeclared
<1>2. pc' = [pc EXCEPT ![p] = goal] /\ receivers' = receivers \cup ({p} \X R)
  BY <1>1, LookUpFinds
<1>3. pc \in [Programs -> PCs]
  BY DEF IInv, TypeOK
<1>4. pc' \in [Programs -> PCs]
  BY <1>2, <1>3 DEF PCs
<1>5. NamesAreDeclared'
  BY <1>2, <1>3 DEF IInv, NamesAreDeclared
<1>6. \A r \in {p} \X R : /\ r[1] = p /\ r[2] \in R
                          /\ r \in Programs \X UNION {InitReceivers(q) \cup Receivers(q)
                                                       : q \in Programs}
  OBVIOUS
<1>7. receivers' \subseteq
        Programs \X UNION {InitReceivers(q) \cup Receivers(q) : q \in Programs}
  BY <1>2, <1>6 DEF IInv, TypeOK
<1>8. Held'
  BY <1>2, <1>6 DEF IInv, Held
<1> QED
  BY <1>2, <1>4, <1>5, <1>7, <1>8

LEMMA StepIInv == IInv /\ [Next]_vars => IInv'
<1> SUFFICES ASSUME IInv, [Next]_vars PROVE IInv'
  OBVIOUS
<1> USE DEF IInv
<1>1. ASSUME NEW p \in Programs, SendStart(p) PROVE IInv'
  <2>1. LookUp(p, InitReceivers(p), InitSenders(p), "await")
    BY <1>1 DEF SendStart
  <2>2. /\ pc' \in [Programs -> PCs] /\ NamesAreDeclared' /\ Held'
        /\ receivers' \subseteq
             Programs \X UNION {InitReceivers(q) \cup Receivers(q) : q \in Programs}
    BY <2>1, LookUpKeeps
  <2> QED
    BY <1>1, <2>2 DEF SendStart, TypeOK
<1>2. ASSUME NEW p \in Programs, Answered(p) PROVE IInv'
  <2>1. AnswerReceiver(p) \in AnswerNames
    BY DEF AnswerNames
  <2>2. answers[AnswerReceiver(p)] - 1 \in Nat
    BY <1>2, <2>1 DEF Answered, TypeOK
  <2>3. TypeOK'
    BY <1>2, <2>1, <2>2 DEF Answered, TypeOK, PCs
  <2> QED
    BY <1>2, <2>3 DEF Answered, TypeOK, NamesAreDeclared, Held
<1>3. ASSUME NEW p \in Programs, TimedOut(p) PROVE IInv'
  <2>1. TypeOK'
    BY <1>3 DEF TimedOut, TypeOK, PCs
  <2> QED
    BY <1>3, <2>1 DEF TimedOut, TypeOK, NamesAreDeclared, Held
<1>4. ASSUME NEW p \in Programs, Run(p) PROVE IInv'
  <2>1. LookUp(p, Receivers(p), Senders(p), "run")
    BY <1>4 DEF Run
  <2>2. /\ pc' \in [Programs -> PCs] /\ NamesAreDeclared' /\ Held'
        /\ receivers' \subseteq
             Programs \X UNION {InitReceivers(q) \cup Receivers(q) : q \in Programs}
    BY <2>1, LookUpKeeps
  <2> QED
    BY <1>4, <2>2 DEF Run, TypeOK
<1>5. ASSUME NEW p \in Programs, Relaunch(p) PROVE IInv'
  <2>1. TypeOK'
    BY <1>5 DEF Relaunch, TypeOK, PCs
  <2> QED
    BY <1>5, <2>1 DEF Relaunch, TypeOK, NamesAreDeclared, Held
<1>6. ASSUME NextRun PROVE IInv'
  <2>1. TypeOK'
    BY <1>6 DEF NextRun, TypeOK, PCs
  <2> QED
    BY <1>6, <2>1 DEF NextRun, TypeOK, NamesAreDeclared, Held
<1>7. ASSUME NEW c \in AnswerNames, Answer(c) PROVE IInv'
  <2>1. starts' \in Nat /\ answers' \in [AnswerNames -> Nat]
    BY <1>7 DEF Answer, TypeOK
  <2> QED
    BY <1>7, <2>1 DEF Answer, TypeOK, NamesAreDeclared, Held
<1>8. ASSUME UNCHANGED vars PROVE IInv'
  BY <1>8 DEF vars, TypeOK, NamesAreDeclared, Held
<1> QED
  BY <1>1, <1>2, <1>3, <1>4, <1>5, <1>6, <1>7, <1>8 DEF Next, Program

LEMMA AlwaysIInv == Spec => []IInv
BY InitIInv, StepIInv, PTL DEF Spec

\* Queues and counts stay natural numbers and every program is at one of the
\* places of PCs.
THEOREM TypeCorrect == Spec => []TypeOK
BY AlwaysIInv, PTL DEF IInv

\* Whatever the options, no program looks up a connection that it has not
\* declared.
THEOREM NamesFound == Spec => []NamesAreDeclared
BY AlwaysIInv, PTL DEF IInv

\* In every state, two programs hold receivers of one connection only if it is
\* the one on which the orchestrator and the writer await their answers.
THEOREM ReceiversApart == Spec => []OneReceiver
<1>1. IInv => OneReceiver
  <2> SUFFICES ASSUME IInv, NEW r \in receivers, NEW s \in receivers,
                      r[2] = s[2], r[1] # s[1]
               PROVE  r[2] = AnswerReceiver("filterorchestrator")
    BY DEF OneReceiver
  <2>1. r[1] \in Programs /\ s[1] \in Programs
    BY DEF IInv, TypeOK
  <2>2. r[2] \in InitReceivers(r[1]) \cup Receivers(r[1])
        /\ s[2] \in InitReceivers(s[1]) \cup Receivers(s[1])
    BY DEF IInv, Held
  <2>3. /\ InitReceivers("filterorchestrator") \cup Receivers("filterorchestrator")
             = {<<"TR_tracking", 1>>, <<"trdispatcher", 1>>}
        /\ InitReceivers("trdispatcher") \cup Receivers("trdispatcher")
             = {<<"TR_tracking", 2>>, <<"trdispatcher", 0>>}
        /\ InitReceivers("filterresultwriter") \cup Receivers("filterresultwriter")
             = {<<"TR_tracking", 1>>, <<"trwriter", 1>>, <<"trwriter", 0>>,
                <<"bookkeeping", 1>>, <<"conn", 1, 0, 0>>}
    BY DEF InitReceivers, Receivers, WriterReceivers, AnswerReceiver, Records,
           MyId, get_connection_name
  <2> QED
    BY <2>1, <2>2, <2>3 DEF Programs, AnswerReceiver
<1> QED
  BY <1>1, AlwaysIInv, PTL

-----------------------------------------------------------------------------
(* Late answers. *)

Waiting == {p \in Programs : pc[p] = "await"}

LEMMA WaitingIsFinite == IsFiniteSet(Waiting) /\ Cardinality(Waiting) \in Nat
<1>1. /\ IsFiniteSet({"filterorchestrator"}) /\ IsFiniteSet({"trdispatcher"})
      /\ IsFiniteSet({"filterresultwriter"})
  BY FS_Singleton
<1>2. IsFiniteSet({"filterorchestrator"} \cup {"trdispatcher"})
  BY <1>1, FS_Union
<1>3. IsFiniteSet(({"filterorchestrator"} \cup {"trdispatcher"})
                    \cup {"filterresultwriter"})
  BY <1>1, <1>2, FS_Union
<1>4. Waiting \subseteq ({"filterorchestrator"} \cup {"trdispatcher"})
                          \cup {"filterresultwriter"}
  BY DEF Waiting, Programs
<1>5. IsFiniteSet(Waiting)
  BY <1>3, <1>4, FS_Subset
<1> QED
  BY <1>5, FS_CardinalityType

\* A program that begins to wait, one that ends its wait, and the others.
LEMMA WaitingChanges ==
  ASSUME NEW p \in Programs, \A q \in Programs : q # p => pc'[q] = pc[q]
  PROVE  /\ pc[p] # "await" /\ pc'[p] = "await" =>
              Cardinality(Waiting') = Cardinality(Waiting) + 1
         /\ pc[p] = "await" /\ pc'[p] # "await" =>
              Cardinality(Waiting') = Cardinality(Waiting) - 1
         /\ pc[p] # "await" /\ pc'[p] # "await" =>
              Cardinality(Waiting') = Cardinality(Waiting)
<1>2. CASE pc[p] # "await" /\ pc'[p] = "await"
  <2>1. p \notin Waiting /\ Waiting' = Waiting \cup {p}
    BY <1>2 DEF Waiting
  <2> QED
    BY <1>2, <2>1, WaitingIsFinite, FS_AddElement
<1>3. CASE pc[p] = "await" /\ pc'[p] # "await"
  <2>1. p \in Waiting /\ Waiting' = Waiting \ {p}
    BY <1>3 DEF Waiting
  <2> QED
    BY <1>3, <2>1, WaitingIsFinite, FS_RemoveElement
<1>4. CASE pc[p] # "await" /\ pc'[p] # "await"
  <2>1. Waiting' = Waiting
    BY <1>4 DEF Waiting
  <2> QED
    BY <1>4, <2>1
<1>5. CASE pc[p] = "await" /\ pc'[p] = "await"
  BY <1>5
<1> QED
  BY <1>2, <1>3, <1>4, <1>5

LEMMA AnswersOneMore ==
  ASSUME TypeOK, NEW c \in AnswerNames, NEW n \in {1, -1},
         answers' = [answers EXCEPT ![c] = @ + n]
  PROVE  AllAnswers' = AllAnswers + n
<1>1. AnswerNames = {<<"TR_tracking", 1>>, <<"TR_tracking", 2>>}
  BY DEF AnswerNames, AnswerReceiver, Programs
<1>2. /\ answers \in [AnswerNames -> Nat]
      /\ \A d \in AnswerNames : answers'[d] = IF d = c THEN answers[d] + n
                                                       ELSE answers[d]
  BY DEF TypeOK
<1> QED
  BY <1>1, <1>2 DEF AllAnswers

LEMMA InitLate == Init => LateOnlyAfterTimeout
<1> SUFFICES ASSUME Init PROVE LateOnlyAfterTimeout
  OBVIOUS
<1>1. Waiting = {}
  BY DEF Init, Waiting
<1>2. AllAnswers = 0
  BY DEF Init, AllAnswers, AnswerNames, AnswerReceiver, Programs
<1> QED
  BY <1>1, <1>2, FS_EmptySet DEF Init, LateOnlyAfterTimeout, Waiting

LEMMA StepLate ==
  IInv /\ LateOnlyAfterTimeout /\ [Next]_vars => LateOnlyAfterTimeout'
<1> SUFFICES ASSUME IInv, LateOnlyAfterTimeout, [Next]_vars
             PROVE  LateOnlyAfterTimeout'
  OBVIOUS
<1>a. TypeOK /\ starts \in Nat /\ timeouts \in Nat
  BY DEF IInv, TypeOK
<1>b. AllAnswers \in Nat /\ Cardinality(Waiting) \in Nat
  <2>1. AllAnswers \in Nat
    BY <1>a DEF TypeOK, AllAnswers, AnswerNames, AnswerReceiver, Programs
  <2> QED
    BY <2>1, WaitingIsFinite
<1>c. starts + AllAnswers = Cardinality(Waiting) + timeouts
  BY DEF LateOnlyAfterTimeout, Waiting
<1> SUFFICES starts' + AllAnswers' = Cardinality(Waiting') + timeouts'
  BY DEF LateOnlyAfterTimeout, Waiting
<1>1. ASSUME NEW p \in Programs, SendStart(p)
      PROVE  starts' + AllAnswers' = Cardinality(Waiting') + timeouts'
  <2>1. LookUp(p, InitReceivers(p), InitSenders(p), "await")
    BY <1>1 DEF SendStart
  <2>2. pc' = [pc EXCEPT ![p] = "await"]
    BY <2>1, LookUpKeeps
  <2>3. /\ pc[p] # "await" /\ pc'[p] = "await"
        /\ \A q \in Programs : q # p => pc'[q] = pc[q]
    BY <1>1, <1>a, <2>2 DEF SendStart, TypeOK
  <2>4. Cardinality(Waiting') = Cardinality(Waiting) + 1
    BY <2>3, WaitingChanges
  <2> QED
    BY <1>1, <1>a, <1>b, <1>c, <2>4 DEF SendStart, AllAnswers
<1>2. ASSUME NEW p \in Programs, Answered(p)
      PROVE  starts' + AllAnswers' = Cardinality(Waiting') + timeouts'
  <2>0. /\ pc[p] = "await" /\ pc'[p] # "await"
        /\ \A q \in Programs : q # p => pc'[q] = pc[q]
    BY <1>2, <1>a DEF Answered, TypeOK
  <2>1. Cardinality(Waiting') = Cardinality(Waiting) - 1
    BY <2>0, WaitingChanges
  <2>2. AnswerReceiver(p) \in AnswerNames
    BY DEF AnswerNames
  <2>3. answers' = [answers EXCEPT ![AnswerReceiver(p)] = @ + (-1)]
    BY <1>2, <1>a, <2>2 DEF Answered, TypeOK
  <2>4. AllAnswers' = AllAnswers + (-1)
    BY <1>a, <2>2, <2>3, AnswersOneMore
  <2> QED
    BY <1>2, <1>a, <1>b, <1>c, <2>1, <2>4 DEF Answered
<1>3. ASSUME NEW p \in Programs, TimedOut(p)
      PROVE  starts' + AllAnswers' = Cardinality(Waiting') + timeouts'
  <2>0. /\ pc[p] = "await" /\ pc'[p] # "await"
        /\ \A q \in Programs : q # p => pc'[q] = pc[q]
    BY <1>3, <1>a DEF TimedOut, TypeOK
  <2>1. Cardinality(Waiting') = Cardinality(Waiting) - 1
    BY <2>0, WaitingChanges
  <2> QED
    BY <1>3, <1>a, <1>b, <1>c, <2>1 DEF TimedOut, AllAnswers
<1>4. ASSUME NEW p \in Programs, Run(p)
      PROVE  starts' + AllAnswers' = Cardinality(Waiting') + timeouts'
  <2>1. LookUp(p, Receivers(p), Senders(p), "run")
    BY <1>4 DEF Run
  <2>2. pc' = [pc EXCEPT ![p] = "run"]
    BY <2>1, LookUpKeeps
  <2>3. Cardinality(Waiting') = Cardinality(Waiting)
    <3>1. /\ pc[p] # "await" /\ pc'[p] # "await"
          /\ \A q \in Programs : q # p => pc'[q] = pc[q]
      BY <1>4, <1>a, <2>2 DEF Run, TypeOK
    <3> QED
      BY <3>1, WaitingChanges
  <2> QED
    BY <1>4, <1>c, <2>3 DEF Run, AllAnswers
<1>5. ASSUME NEW p \in Programs, Relaunch(p)
      PROVE  starts' + AllAnswers' = Cardinality(Waiting') + timeouts'
  <2>0. /\ pc[p] # "await" /\ pc'[p] # "await"
        /\ \A q \in Programs : q # p => pc'[q] = pc[q]
    BY <1>5, <1>a DEF Relaunch, TypeOK
  <2>1. Cardinality(Waiting') = Cardinality(Waiting)
    BY <2>0, WaitingChanges
  <2> QED
    BY <1>5, <1>c, <2>1 DEF Relaunch, AllAnswers
<1>6. ASSUME NextRun
      PROVE  starts' + AllAnswers' = Cardinality(Waiting') + timeouts'
  <2> DEFINE p == "trdispatcher"
  <2>0. /\ p \in Programs /\ pc[p] # "await" /\ pc'[p] # "await"
        /\ \A q \in Programs : q # p => pc'[q] = pc[q]
    BY <1>6, <1>a DEF NextRun, TypeOK, Programs
  <2>1. Cardinality(Waiting') = Cardinality(Waiting)
    BY <2>0, WaitingChanges
  <2> QED
    BY <1>6, <1>c, <2>1 DEF NextRun, AllAnswers
<1>7. ASSUME NEW c \in AnswerNames, Answer(c)
      PROVE  starts' + AllAnswers' = Cardinality(Waiting') + timeouts'
  <2>1. AllAnswers' = AllAnswers + 1
    BY <1>7, <1>a, AnswersOneMore DEF Answer
  <2>2. Waiting' = Waiting
    BY <1>7 DEF Answer, Waiting
  <2> QED
    BY <1>7, <1>a, <1>b, <1>c, <2>1, <2>2 DEF Answer
<1>8. ASSUME UNCHANGED vars
      PROVE  starts' + AllAnswers' = Cardinality(Waiting') + timeouts'
  BY <1>8, <1>c DEF vars, AllAnswers, Waiting
<1> QED
  BY <1>1, <1>2, <1>3, <1>4, <1>5, <1>6, <1>7, <1>8 DEF Next, Program

\* However often the programs time out and are started again, an answer that
\* was not awaited goes with each wait that ended without one, and with no
\* other.
THEOREM LateAnswers == Spec => []LateOnlyAfterTimeout
<1>1. Init => LateOnlyAfterTimeout
  BY InitLate
<1>2. IInv /\ LateOnlyAfterTimeout /\ [Next]_vars => LateOnlyAfterTimeout'
  BY StepLate
<1> QED
  BY <1>1, <1>2, AlwaysIInv, PTL DEF Spec

-----------------------------------------------------------------------------
(* The operations that are not called. *)

\* send_next_tr() of the writer would find its connection; the relay of the
\* orchestrator, send(), would not find the last of its three: no options make
\* configure_iomanager() declare a connection for records there.
THEOREM RelayHasNoConnection ==
  ASSUME NEW o
  PROVE  /\ SendNextTrNames \subseteq Names("filterresultwriter", o)
         /\ RelayNames \ Names("filterorchestrator", o)
              = {Records("filterorchestrator")}
<1> DEFINE fo == "filterorchestrator"
<1> fo \in Programs /\ 1 \in 0..2 /\ 2 \in 0..2
  BY DEF Programs
<1>1. Numbered("trdispatcher", 1) \in Names("filterresultwriter", o)
  BY SharedNames
<1>2. Numbered("TR_tracking", 2) \in Names(fo, o)
      /\ Numbered("trdispatcher", 2) \in Names(fo, o)
  BY SharedNames
<1>3. Records(fo) \notin Names(fo, o)
  <2> SUFFICES ASSUME NEW c \in configure_iomanager(fo, o)
               PROVE  c.name # Records(fo)
    BY DEF Names
  <2>1. c \in Tracking(o) \/ c \in Requests(o)
    BY DEF configure_iomanager, Own
  <2>2. \E n \in 0..2 : c.name = <<"TR_tracking", n>> \/ c.name = <<"trdispatcher", n>>
    BY <2>1, RowsOfThree DEF Tracking, Requests
  <2> QED
    BY <2>2 DEF Records, MyId, get_connection_name
<1> QED
  BY <1>1, <1>2, <1>3 DEF SendNextTrNames, RelayNames, Numbered

\* On a loopback server the addresses of get_connection_ip() are distinct and
\* its bytes are those its comments promise, for every number of programs,
\* groups and connections that its assertions admit.
THEOREM LoopbackAddresses ==
  ASSUME NEW p \in Programs \ {"filterresultwriter"},
         NEW a \in AppIds, NEW g \in GroupIds, NEW c \in ConnIds,
         NEW b \in AppIds, NEW h \in GroupIds, NEW d \in ConnIds
  PROVE  /\ get_connection_ip(p, Loopback, a, g, c)
              \in {127} \X (1..254) \X (1..254) \X (2..254)
         /\ get_connection_ip(p, Loopback, a, g, c)
              = get_connection_ip(p, Loopback, b, h, d) => <<a, g, c>> = <<b, h, d>>
BY DEF get_connection_ip, Loopback, AppIds, GroupIds, ConnIds
=============================================================================
