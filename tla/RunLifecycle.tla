---------------------------- MODULE RunLifecycle ----------------------------
(***************************************************************************)
(* What the researcher API promises about an experiment run: it is         *)
(* launched from draft, may be paused and resumed, is closed for good, and *)
(* admits participants only while it is active.                            *)
(***************************************************************************)

CONSTANT Ids  \* sessions that can be admitted

VARIABLES status, admitted

vars == <<status, admitted>>

Init == status = "draft" /\ admitted = {}

Move(from, to) == status = from /\ status' = to /\ UNCHANGED admitted

Activate == Move("draft", "active") \/ Move("paused", "active")
Pause == Move("active", "paused")
Close == Move("active", "closed") \/ Move("paused", "closed")

Admit ==
    /\ status = "active"
    /\ \E id \in Ids \ admitted : admitted' = admitted \cup {id}
    /\ UNCHANGED status

Next == Activate \/ Pause \/ Close \/ Admit

Spec == Init /\ [][Next]_vars
=============================================================================
