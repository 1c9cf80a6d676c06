----------------------------- MODULE Timestamps -----------------------------
(***************************************************************************)
(* What becomes of a database timestamp in the program: PostgreSQL keeps   *)
(* microseconds, a Date and the id of a server-sent event milliseconds.    *)
(***************************************************************************)
EXTENDS Integers

CONSTANT PerMs      \* clock steps in a millisecond

ASSUME TimestampsAssumption == PerMs \in Nat \ {0}

(* getTime() of the Date that a timestamptz is read as.                    *)
Millis(t) == t \div PerMs
=============================================================================
