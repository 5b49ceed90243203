---------------------------- MODULE MCNatService ----------------------------
(* Model values for NatService: two addresses, each admitted by one of two  *)
(* egress allow-lists, so that a script can tell whose policy it was built  *)
(* under.                                                                   *)
EXTENDS NatService

CONSTANTS a1, a2

MCAllowLists == {{a1}, {a2}}
=============================================================================
