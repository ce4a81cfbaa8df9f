----------------------------- MODULE MCStartup -----------------------------
(***************************************************************************)
(* Model checking of Startup: two hosts, every distribution of them.       *)
(***************************************************************************)
EXTENDS Startup

TwoHosts == {"h1", "h2"}
OneOrMore == {1, 2}
=============================================================================
