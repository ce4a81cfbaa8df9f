---------------------------- MODULE RequestRelay ----------------------------
(***************************************************************************)
(* What the filter orchestrator promises to its peers: it turns "next_tr"  *)
(* instructions into requests to the dispatcher, never more requests than  *)
(* it was given instructions, and every instruction in its turn.           *)
(***************************************************************************)
EXTENDS Naturals

CONSTANT MaxInstructions  \* bound: how many instructions are ever given

VARIABLES asked, answered

Init == asked = 0 /\ answered = 0

Ask == asked < MaxInstructions /\ asked' = asked + 1 /\ UNCHANGED answered

Answer == answered < asked /\ answered' = answered + 1 /\ UNCHANGED asked

Next == Ask \/ Answer

SafeSpec == Init /\ [][Next]_<<asked, answered>>
Spec == SafeSpec /\ WF_<<asked, answered>>(Answer)
=============================================================================
