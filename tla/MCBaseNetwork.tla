---------------------------- MODULE MCBaseNetwork ----------------------------
(* Instances of BaseNetwork for TLC.                                                               *)
EXTENDS BaseNetwork

CONSTANTS a, b, k1, k2, t1, t2

(* One node for each of two accounts.                                                              *)
Accounts == [n \in Nodes |-> IF n = a THEN k1 ELSE k2]

BothNodes == {{a, b}}
EitherNetwork == {{a, b}, {b}}

==============================================================================
