-------------------------- MODULE MCProfileOutbox --------------------------
(***************************************************************************)
(* Instances of ProfileOutbox for TLC.  Event 2 of the first user is       *)
(* appended with an older occurred_at than event 1.                        *)
(***************************************************************************)
EXTENDS ProfileOutbox

CONSTANTS u1, u2, w1, w2

MCUserOf == [e \in Events |-> IF e = 3 THEN u2 ELSE u1]
MCTimeOf == [e \in Events |-> IF e = 2 THEN 1 ELSE 2]
============================================================================
