------------------------------ MODULE MCReactor ------------------------------
(* A host with one flow, a client that may add another, and room for one   *)
(* outcome.                                                                *)
EXTENDS Reactor
=============================================================================
