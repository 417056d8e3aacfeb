--------------------------- MODULE CircuitPromise ----------------------------
(***************************************************************************)
(* What a circuit promises to those who call through it, without counting   *)
(* failures and without deadlines: calls run while it is closed or probed,  *)
(* it is probed no sooner than a recovery timeout after it opened, and it   *)
(* leaves OPEN only through a probe, unless all it knows is erased.         *)
(* CircuitBreaker implements it.                                           *)
(***************************************************************************)
EXTENDS Naturals

CONSTANTS Callers, RecoveryTimeout

VARIABLES
    phase,      \* "CLOSED", "OPEN" or "HALF_OPEN"
    running,    \* calls that were let through and have not settled
    openFor,    \* time since it last opened, up to RecoveryTimeout
    blank       \* nothing is known of failures

vars == <<phase, running, openFor, blank>>

Init == phase = "CLOSED" /\ running = {} /\ openFor = 0 /\ blank = TRUE

Open == phase' = "OPEN" /\ openFor' = 0 /\ blank' = FALSE

Admit(c) ==
    /\ c \notin running /\ running' = running \cup {c}
    /\ \/ phase # "OPEN" /\ UNCHANGED phase
       \/ phase = "OPEN" /\ openFor = RecoveryTimeout /\ phase' = "HALF_OPEN"
    /\ UNCHANGED <<openFor, blank>>

(* A call that settles closes a circuit that is probed, opens any, or       *)
(* leaves it; what was known of failures is not all forgotten by it.        *)
Settle(c) ==
    /\ c \in running /\ running' = running \ {c}
    /\ \/ Open
       \/ /\ \/ UNCHANGED phase
             \/ phase = "HALF_OPEN" /\ phase' = "CLOSED"
          /\ blank' => blank
          /\ UNCHANGED openFor

Erase ==
    /\ phase' = "CLOSED" /\ blank' = TRUE
    /\ running' \in {running, {}}
    /\ UNCHANGED openFor

Force == Open /\ UNCHANGED running

Pass ==
    /\ openFor' = IF openFor < RecoveryTimeout THEN openFor + 1 ELSE openFor
    /\ UNCHANGED <<phase, running, blank>>

Next ==
    \/ \E c \in Callers : Admit(c) \/ Settle(c)
    \/ Erase \/ Force \/ Pass

Spec == Init /\ [][Next]_vars
=============================================================================
