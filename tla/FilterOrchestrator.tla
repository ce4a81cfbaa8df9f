------------------------- MODULE FilterOrchestrator -------------------------
(***************************************************************************)
(* The filter orchestrator program: an endless loop around receive().      *)
(* receive() registers a callback on the connection "trdispatcher1" that   *)
(* counts the "next_tr" instructions, spins until the count EQUALS one,    *)
(* removes the callback and sends one request on "trdispatcher0".          *)
(*                                                                         *)
(* Two threads take part: the main thread and the event loop of the        *)
(* connection, which runs the callback for one message after the other     *)
(* while the callback is registered.  Messages that arrive while no        *)
(* callback is registered stay queued.                                     *)
(***************************************************************************)
EXTENDS Naturals

CONSTANTS
  MaxInstructions,  \* bound: how many "next_tr" the peer ever sends
  Windows           \* kinds of peer: how many instructions it may have
                    \* without a request

ASSUME FOAssumption ==
  /\ MaxInstructions \in Nat
  /\ Windows \subseteq Nat \ {0}

VARIABLES
  trdispatcher1,  \* queued messages by id; only "next_tr" is counted, so
                  \* the order of the two kinds has no effect
  pc,             \* where the main thread is in receive()
  received_cnt,   \* the counter captured by the callback
  requested,      \* requests handed to "trdispatcher0"
  instructed,     \* history: "next_tr" instructions the peer has sent
  window          \* the kind of peer

vars == <<trdispatcher1, pc, received_cnt, requested, instructed, window>>

MsgIds == {"next_tr", "other"}
PCs == {"receive", "poll", "remove", "request"}

Init ==
  /\ trdispatcher1 = [m \in MsgIds |-> 0]
  /\ pc = "receive"
  /\ received_cnt = 0
  /\ requested = 0
  /\ instructed = 0
  /\ window \in Windows

-----------------------------------------------------------------------------
(* The main thread. *)

\* Mutant: the counter of the last round is kept.
AddCallbackKeepsCount ==
  /\ pc = "receive"
  /\ pc' = "poll"
  /\ UNCHANGED <<trdispatcher1, received_cnt, requested, instructed, window>>

AddCallback ==
  /\ pc = "receive"
  /\ pc' = "poll"
  /\ received_cnt' = 0
  /\ UNCHANGED <<trdispatcher1, requested, instructed, window>>

\* Mutant: the loop leaves on any count but zero.
HandshakeDoneAtLeastOne ==
  /\ pc = "poll"
  /\ received_cnt >= 1
  /\ pc' = "remove"
  /\ UNCHANGED <<trdispatcher1, received_cnt, requested, instructed, window>>

\* Mutant: the loop waits for two.
HandshakeDoneAtTwo ==
  /\ pc = "poll"
  /\ received_cnt = 2
  /\ pc' = "remove"
  /\ UNCHANGED <<trdispatcher1, received_cnt, requested, instructed, window>>

\* Mutant: the loop does not wait.
HandshakeDoneAtOnce ==
  /\ pc = "poll"
  /\ pc' = "remove"
  /\ UNCHANGED <<trdispatcher1, received_cnt, requested, instructed, window>>

\* The spin loop leaves only when it samples exactly one.
HandshakeDone ==
  /\ pc = "poll"
  /\ received_cnt = 1
  /\ pc' = "remove"
  /\ UNCHANGED <<trdispatcher1, received_cnt, requested, instructed, window>>

RemoveCallback ==
  /\ pc = "remove"
  /\ pc' = "request"
  /\ UNCHANGED <<trdispatcher1, received_cnt, requested, instructed, window>>

RequestNextTr ==
  /\ pc = "request"
  /\ pc' = "receive"
  /\ requested' = requested + 1
  /\ UNCHANGED <<trdispatcher1, received_cnt, instructed, window>>

-----------------------------------------------------------------------------
(* The event loop of "trdispatcher1": one message, one call. *)

CallbackRegistered == pc \in {"poll", "remove"}

\* Mutant: the callback runs for a message that is not there.
CallbackUnguarded(m) ==
  /\ CallbackRegistered
  /\ trdispatcher1' = [trdispatcher1 EXCEPT ![m] = @ - 1]
  /\ received_cnt' = IF m = "next_tr" THEN received_cnt + 1 ELSE received_cnt
  /\ UNCHANGED <<pc, requested, instructed, window>>

\* Mutant: the callback counts every message, whatever its id.
CallbackCountsAll(m) ==
  /\ CallbackRegistered
  /\ trdispatcher1[m] > 0
  /\ trdispatcher1' = [trdispatcher1 EXCEPT ![m] = @ - 1]
  /\ received_cnt' = received_cnt + 1
  /\ UNCHANGED <<pc, requested, instructed, window>>

Callback(m) ==
  /\ CallbackRegistered
  /\ trdispatcher1[m] > 0
  /\ trdispatcher1' = [trdispatcher1 EXCEPT ![m] = @ - 1]
  /\ received_cnt' = IF m = "next_tr" THEN received_cnt + 1 ELSE received_cnt
  /\ UNCHANGED <<pc, requested, instructed, window>>

-----------------------------------------------------------------------------
(* The peer, a program of another repository. *)

Instruct ==
  /\ instructed < MaxInstructions
  /\ instructed < requested + window
  /\ trdispatcher1' = [trdispatcher1 EXCEPT !["next_tr"] = @ + 1]
  /\ instructed' = instructed + 1
  /\ UNCHANGED <<pc, received_cnt, requested, window>>

\* Any other id, for instance the "trdispatcher1" of send_next_tr(); at most
\* one is queued at a time.
Chatter ==
  /\ trdispatcher1["other"] = 0
  /\ trdispatcher1' = [trdispatcher1 EXCEPT !["other"] = @ + 1]
  /\ UNCHANGED <<pc, received_cnt, requested, instructed, window>>

-----------------------------------------------------------------------------
Main == AddCallback \/ HandshakeDone \/ RemoveCallback \/ RequestNextTr

EventLoop == \E m \in MsgIds : Callback(m)

Next == Main \/ EventLoop \/ Instruct \/ Chatter

\* Both threads run for ever and the operating system schedules them; the
\* event loop hands over a queued instruction however much else arrives.
Fairness == WF_vars(Main) /\ WF_vars(Callback("next_tr"))

Spec == Init /\ [][Next]_vars
FairSpec == Spec /\ Fairness

-----------------------------------------------------------------------------
(* Properties. *)

\* Every variable stays in its range.
TypeOK ==
  /\ trdispatcher1 \in [MsgIds -> Nat]
  /\ pc \in PCs
  /\ received_cnt \in Nat
  /\ requested \in Nat
  /\ instructed \in 0..MaxInstructions
  /\ window \in Windows

\* Instructions counted in this round of receive() and not yet answered.
Counted == IF pc = "receive" THEN 0 ELSE received_cnt

Overrun == pc = "poll" /\ received_cnt > 1

\* The counter that ends the spin loop belongs to this round alone: a request
\* never leaves on an instruction an earlier request has answered, and what
\* is still queued or counted is not lost to a request either.  Breaks if
\* receive() inherited a count, or counted ids other than "next_tr".
NoUnaskedRequest ==
  /\ requested + Counted + trdispatcher1["next_tr"] <= instructed
  /\ pc \in {"remove", "request"} => received_cnt >= 1

\* With a peer that awaits the request before it instructs again, no two
\* instructions are ever merged into one request and none disappears.
NothingMerged ==
  window = 1 =>
    /\ instructed = requested + Counted + trdispatcher1["next_tr"]
    /\ ~Overrun

\* If two instructions are counted before the spin loop samples the counter,
\* the equality test never holds again: the program sends nothing any more.
\* This is what "received_cnt == 1" does; a test for "at least one" would not.
OverrunIsPermanent == [][Overrun => Overrun' /\ requested' = requested]_vars

\* Instructions whose request is still to come: those in the counter while it
\* is being polled, and the one the spin loop sampled until its request left.
Answering == CASE pc = "poll" -> received_cnt
               [] pc \in {"remove", "request"} -> 1
               [] OTHER -> 0

\* Instructions of the peer that are neither queued, nor being answered, nor
\* answered: no request will ever follow them.
Lost ==
  instructed - (requested + Answering + trdispatcher1["next_tr"])

\* There is one way to lose an instruction, and it takes one at a time: the
\* callback, registered until remove_callback(), counts it after the spin loop
\* has sampled the counter for the last time.  Neither the next registration,
\* which starts from zero, nor the sample itself, however many callbacks went
\* before it, forgets any.
LostOnlyAfterSample ==
  [][Lost' # Lost =>
       /\ pc = "remove"
       /\ Lost' = Lost + 1
       /\ trdispatcher1'["next_tr"] = trdispatcher1["next_tr"] - 1]_vars

\* While an instruction is queued the program does not come to rest: one more
\* request leaves, unless the overrun above stops it first.  That request may
\* belong to another instruction, and the queued one may be lost on the way
\* (LostOnlyAfterSample); this says that the relay goes on, not that each
\* instruction has its answer.
AnsweredOrOverrun ==
  \A n \in 0..MaxInstructions :
    (requested = n /\ trdispatcher1["next_tr"] > 0)
      ~> (requested > n \/ Overrun)

\* The program as a relay in the sense of RequestRelay, with any peer: no
\* request without its instruction (proved as ImplementsRelay).  That a paced
\* peer gets every answer is NothingMerged with AnsweredOrOverrun.
Relay == INSTANCE RequestRelay WITH asked <- instructed, answered <- requested
=============================================================================
