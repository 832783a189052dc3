----------------------------- MODULE Residence -----------------------------
(***************************************************************************)
(* The memberships as the rest of the program sees them: a user is in one  *)
(* household or in none, may be in another one at any time, and is never   *)
(* put out of his own without being in another.  Nobody is moved along.    *)
(***************************************************************************)

CONSTANTS Users, Houses, None

VARIABLE home   \* household_members: the household each user is in

Init == home \in [Users -> Houses \cup {None}]

Moves(u) == \E h \in Houses \ {home[u]} : home' = [home EXCEPT ![u] = h]

Spec == Init /\ [][\E u \in Users : Moves(u)]_home
=============================================================================
