---------------------------- MODULE QueryService ----------------------------
(***************************************************************************)
(* What the gateway relies on when it writes send_query_async(...).get():  *)
(* a query gets at most one answer, and gets it as long as the service is  *)
(* sound.                                                                  *)
(***************************************************************************)
CONSTANT Queries

VARIABLES
    asked,     \* queries whose promise has been made
    answered,  \* queries whose promise has its value
    sound      \* the process runs and nothing has corrupted it

vars == <<asked, answered, sound>>

Init == asked = {} /\ answered = {} /\ sound = TRUE

Ask(q) ==
    /\ q \in Queries \ asked
    /\ asked' = asked \cup {q}
    /\ UNCHANGED <<answered, sound>>

Answer(q) ==
    /\ q \in asked \ answered
    /\ answered' = answered \cup {q}
    /\ UNCHANGED <<asked, sound>>

(* The promise is over: by the end of the process or a broken table; the   *)
(* step that breaks it may be one that asks.                               *)
Fail ==
    /\ sound /\ sound' = FALSE
    /\ answered' = answered
    /\ asked \subseteq asked' /\ asked' \subseteq Queries

Next == Fail \/ \E q \in Queries : Ask(q) \/ Answer(q)

Spec == Init /\ [][Next]_vars
LiveSpec == Spec /\ \A q \in Queries : WF_vars(sound /\ Answer(q))
=============================================================================
