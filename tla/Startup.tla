------------------------------ MODULE Startup ------------------------------
(***************************************************************************)
(* The start of the three programs: each has configured its connections,   *)
(* calls init() if num_apps is more than one, and looks up the connections *)
(* of its operations.  init() sends "start" on "TR_tracking0" and waits    *)
(* 100 ms for an answer, whatever its id.  No answer in time is an         *)
(* exception that nothing catches; a late answer stays in its queue.  The  *)
(* second message of init(), made from the moved-from "start", is the      *)
(* Chatter of FilterOrchestrator, TRDispatcher and FilterResultWriter.     *)
(*                                                                         *)
(* No option of the programs sets num_apps, so that init() does not run in *)
(* the programs as they are built.                                         *)
(***************************************************************************)
EXTENDS Connections, FiniteSets

CONSTANTS
  Hosts,       \* what --server and --server_trdispatcher may be
  NumApps,     \* values of num_apps
  MaxTimeouts  \* bound: timeouts after which a program is started again

ASSUME StartupAssumption ==
  NumApps \subseteq Nat \ {0} /\ MaxTimeouts \in Nat

VARIABLES
  options,    \* per program, its command line
  num_apps,
  pc,         \* per program, where it is
  receivers,  \* <<program, name>> of the receivers that it holds
  starts,     \* "start" messages that the server has not read
  answers,    \* per connection of an answer, the messages in its queue
  timeouts    \* history: waits that ended without an answer

vars == <<options, num_apps, pc, receivers, starts, answers, timeouts>>

PCs == {"constructed", "await", "answered", "run", "dead", "unknown_name"}
AnswerNames == {AnswerReceiver(p) : p \in Programs}

Init ==
  /\ options \in [Programs -> [server : Hosts, server_trdispatcher : Hosts]]
  /\ num_apps \in NumApps
  /\ pc = [p \in Programs |-> "constructed"]
  /\ receivers = {}
  /\ starts = 0
  /\ answers = [c \in AnswerNames |-> 0]
  /\ timeouts = 0

Declared(p) == configure_iomanager(p, options[p])

\* get_iom_receiver() and get_iom_sender(): a name that was not declared is an
\* exception.
LookUp(p, receiving, sending, goal) ==
  LET names == {connection.name : connection \in Declared(p)}
      known == receiving \cup sending \subseteq names
  IN  /\ pc' = [pc EXCEPT ![p] = IF known THEN goal ELSE "unknown_name"]
      /\ receivers' = receivers \cup ({p} \X (receiving \cap names))

\* Mutant: the loop of init() sends "start" once more before the wait.
SendStartTwice(p) ==
  /\ num_apps > 1
  /\ pc[p] = "constructed"
  /\ LookUp(p, InitReceivers(p), InitSenders(p), "await")
  /\ starts' = starts + 2
  /\ UNCHANGED <<options, num_apps, answers, timeouts>>

\* init() up to its wait.
SendStart(p) ==
  /\ num_apps > 1
  /\ pc[p] = "constructed"
  /\ LookUp(p, InitReceivers(p), InitSenders(p), "await")
  /\ starts' = starts + 1
  /\ UNCHANGED <<options, num_apps, answers, timeouts>>

\* Mutant: init() takes the answer without waiting for it.
AnsweredAtOnce(p) ==
  /\ pc[p] = "await"
  /\ answers' = [answers EXCEPT ![AnswerReceiver(p)] = @ - 1]
  /\ pc' = [pc EXCEPT ![p] = "answered"]
  /\ UNCHANGED <<options, num_apps, receivers, starts, timeouts>>

Answered(p) ==
  /\ pc[p] = "await"
  /\ answers[AnswerReceiver(p)] > 0
  /\ answers' = [answers EXCEPT ![AnswerReceiver(p)] = @ - 1]
  /\ pc' = [pc EXCEPT ![p] = "answered"]
  /\ UNCHANGED <<options, num_apps, receivers, starts, timeouts>>

TimedOut(p) ==
  /\ pc[p] = "await"
  /\ timeouts' = timeouts + 1
  /\ pc' = [pc EXCEPT ![p] = "dead"]
  /\ UNCHANGED <<options, num_apps, receivers, starts, answers>>

Run(p) ==
  /\ pc[p] = "answered" \/ (pc[p] = "constructed" /\ num_apps = 1)
  /\ LookUp(p, Receivers(p), Senders(p), "run")
  /\ UNCHANGED <<options, num_apps, starts, answers, timeouts>>

\* The dispatcher calls init() before each of its runs.
NextRun ==
  /\ pc["trdispatcher"] = "run"
  /\ pc' = [pc EXCEPT !["trdispatcher"] = "constructed"]
  /\ UNCHANGED <<options, num_apps, receivers, starts, answers, timeouts>>

Relaunch(p) ==
  /\ pc[p] = "dead"
  /\ timeouts <= MaxTimeouts
  /\ pc' = [pc EXCEPT ![p] = "constructed"]
  /\ receivers' = {r \in receivers : r[1] # p}
  /\ UNCHANGED <<options, num_apps, starts, answers, timeouts>>

\* The server answers "gotit" sooner or later.  "start" does not say who sent
\* it, and two of the programs wait on the same connection.
Answer(c) ==
  /\ starts > 0
  /\ starts' = starts - 1
  /\ answers' = [answers EXCEPT ![c] = @ + 1]
  /\ UNCHANGED <<options, num_apps, pc, receivers, timeouts>>

Program(p) ==
  SendStart(p) \/ Answered(p) \/ TimedOut(p) \/ Run(p) \/ Relaunch(p)

Next ==
  \/ \E p \in Programs : Program(p)
  \/ NextRun
  \/ \E c \in AnswerNames : Answer(c)

Spec == Init /\ [][Next]_vars

-----------------------------------------------------------------------------
(* Properties. *)

\* Queues and counts are natural numbers: init() never goes on with an answer
\* that nobody sent.
TypeOK ==
  /\ options \in [Programs -> [server : Hosts, server_trdispatcher : Hosts]]
  /\ num_apps \in NumApps
  /\ pc \in [Programs -> PCs]
  /\ receivers \subseteq
       Programs \X UNION {InitReceivers(p) \cup Receivers(p) : p \in Programs}
  /\ starts \in Nat
  /\ answers \in [AnswerNames -> Nat]
  /\ timeouts \in Nat

\* Every name that a program looks up is one that it has declared: the literals
\* of configure_iomanager() agree with the names that are computed from my_id,
\* in programs that share no code for them.
NamesAreDeclared == \A p \in Programs : pc[p] # "unknown_name"

\* Whatever servers the three programs are given, two connections of different
\* names never share an address, in one program or in two, although ports are
\* made by adding to literals and two of them lose their 17th bit.
AddressesAreDistinct ==
  \A p, q \in Programs :
    \A c \in Declared(p), d \in Declared(q) :
      c.host = d.host /\ c.port = d.port => c.name = d.name

\* Each connection has one receiving program, except for the answers to init(),
\* where the orchestrator and the writer can take each other's.
OneReceiver ==
  \A r, s \in receivers :
    r[2] = s[2] => r[1] = s[1] \/ r[2] = AnswerReceiver("filterorchestrator")

AllAnswers == answers[<<"TR_tracking", 1>>] + answers[<<"TR_tracking", 2>>]

\* Each "start" that is not answered and each answer that is not read goes with a
\* program that waits or with a wait that timed out: an answer stays behind, for
\* another program or for the next life of this one, after each timeout and
\* never otherwise, whoever reads whose answer.
LateOnlyAfterTimeout ==
  starts + AllAnswers
    = Cardinality({p \in Programs : pc[p] = "await"}) + timeouts
=============================================================================
