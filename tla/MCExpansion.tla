---------------------------- MODULE MCExpansion ----------------------------
(* Four bases, none of them taken, and three that the goal asks for.        *)
EXTENDS Expansion

MCSites == <<"main", "natural", "third", "fourth">>
=============================================================================
