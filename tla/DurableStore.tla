---------------------------- MODULE DurableStore ----------------------------
(* What root/durablefs promises its callers, without files, directories or  *)
(* fsync: a store of whole values.  Each name has the value a reader finds, *)
(* and the values power loss may leave there.  A call gives one value to    *)
(* the names it is about, each at once and as a whole, and ends well, badly *)
(* or not at all.  When it ends well power loss can no longer undo it,      *)
(* unless an earlier call was cut short at a bad moment, of which `cut`     *)
(* tells.                                                                   *)
CONSTANTS Names, Data, None

Value == Data \cup {None}

VARIABLES
    value,      \* what a reader finds under each name
    floor,      \* what power loss may leave under each name
    scope,      \* the names the current call is about
    goal,       \* the value it gives them
    cut         \* a call left something undone that a later one may miss

vars == <<value, floor, scope, goal, cut>>

Init ==
    /\ value = [n \in Names |-> None]
    /\ floor = [n \in Names |-> {None}]
    /\ scope = {} /\ goal = None
    /\ cut = FALSE

Begin ==
    /\ scope = {}
    /\ scope' \in (SUBSET Names) \ {{}}
    /\ goal' \in Value
    /\ UNCHANGED <<value, floor, cut>>

\* A name changes at once and as a whole.
Apply(n) ==
    /\ n \in scope
    /\ value' = [value EXCEPT ![n] = goal]
    /\ floor' = [floor EXCEPT ![n] = @ \cup {goal}]
    /\ UNCHANGED <<scope, goal, cut>>

\* The disk catches up with what a reader finds.
Settle ==
    /\ floor' \in [Names -> SUBSET Value]
    /\ \A n \in Names : value[n] \in floor'[n] /\ floor'[n] \subseteq floor[n]
    /\ cut' \in {cut, FALSE}
    /\ UNCHANGED <<value, scope, goal>>

\* Success: every name the call is about has the value, for good.
Succeed ==
    /\ scope # {}
    /\ \A n \in scope : value[n] = goal /\ (~cut => floor[n] = {goal})
    /\ scope' = {} /\ goal' = None
    /\ UNCHANGED <<value, floor, cut>>

\* Failure, or the death of the caller: what was applied stays.
GiveUp ==
    /\ scope' = {} /\ goal' = None
    /\ cut' \in {cut, TRUE}
    /\ UNCHANGED <<value, floor>>

PowerLoss ==
    /\ value' \in [Names -> Value]
    /\ \A n \in Names : value'[n] \in floor[n]
    /\ floor' = [n \in Names |-> {value'[n]}]
    /\ scope' = {} /\ goal' = None
    /\ cut' = FALSE

Next ==
    \/ Begin
    \/ \E n \in Names : Apply(n)
    \/ Settle
    \/ Succeed
    \/ GiveUp
    \/ PowerLoss

Spec == Init /\ [][Next]_vars
=============================================================================
