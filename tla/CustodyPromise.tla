---------------------------- MODULE CustodyPromise ----------------------------
(***************************************************************************)
(* What a custody store promises (CustodyStore, evidence/admission.py): an *)
(* object is written whole and once; it may be lost until a caller has     *)
(* been told it is held, and never after; the caller is told of exactly    *)
(* the payload that is held.                                               *)
(***************************************************************************)

VARIABLES held,    \* the objects held, each with its payload
          told     \* the objects and payloads callers have a reference for

Init == held = {} /\ told = {}

Store ==
    /\ \E entry \in held' :
          /\ held' = held \cup {entry}
          /\ \A other \in held : other[1] # entry[1]
    /\ UNCHANGED told

Tell ==
    /\ \E entry \in held : told' = told \cup {entry}
    /\ UNCHANGED held

Lose ==
    /\ told \subseteq held'
    /\ held' \subseteq held
    /\ UNCHANGED told

Next == Lose \/ Tell \/ Store

Spec == Init /\ [][Next]_<<held, told>>
===============================================================================
