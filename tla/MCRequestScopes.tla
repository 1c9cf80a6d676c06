--------------------------- MODULE MCRequestScopes ---------------------------
(* Instances of RequestScopes for TLC.                                     *)
EXTENDS RequestScopes

CONSTANTS c1, c2, u1, s1

(* A newcomer who creates a salon twice and changes it; a member who tries *)
(* to create another one; a member's stream.                               *)
SomeTraffic == {[home |-> FALSE, requests |-> {c1, c2, u1}],
                [home |-> TRUE, requests |-> {c1}],
                [home |-> TRUE, requests |-> {s1}]}
=============================================================================
