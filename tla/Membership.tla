---------------------------- MODULE Membership ----------------------------
(***************************************************************************)
(* Households as a client of the API sees them: who is in which, and what  *)
(* is known of each.  Every operation is one step.  Nothing is seen of a   *)
(* household whose create is still under way, nor of one that is cleaned   *)
(* up because its create came second.                                      *)
(***************************************************************************)

CONSTANTS Users, Houses, None

VARIABLES
    member,     \* the household each user is in
    row         \* the households; NoRow when there is none

NoRow == [personal |-> FALSE, owner |-> None, name |-> None]

Joinable(u) == [personal |-> FALSE, owner |-> None, name |-> u]
Personal(u) == [personal |-> TRUE, owner |-> u, name |-> u]

Init ==
    /\ member = [u \in Users |-> None]
    /\ row = [h \in Houses |-> NoRow]

HasPersonal(u) == \E h \in Houses : row[h].personal /\ row[h].owner = u

(* Only who is in no household gets one of his own.                         *)
Create(u, h) ==
    /\ member[u] = None
    /\ member' = [member EXCEPT ![u] = h]
    /\ row[h] = NoRow
    /\ row' = [row EXCEPT ![h] = Joinable(u)]

(* Who has become a member elsewhere while he asked for his personal        *)
(* household stays there.                                                   *)
CreatePersonal(u, h) ==
    /\ member' = IF member[u] = None THEN [member EXCEPT ![u] = h] ELSE member
    /\ row[h] = NoRow
    /\ ~HasPersonal(u)
    /\ row' = [row EXCEPT ![h] = Personal(u)]

Join(u, h) ==
    /\ member[u] # h
    /\ member' = [member EXCEPT ![u] = h]
    /\ row[h] # NoRow
    /\ ~row[h].personal
    /\ UNCHANGED row

(* From a joinable household to the personal one, which is made if need be. *)
Leave(u, h) ==
    /\ member[u] \notin {None, h}
    /\ member' = [member EXCEPT ![u] = h]
    /\ ~row[member[u]].personal
    /\ \/ row[h].personal /\ row[h].owner = u /\ UNCHANGED row
       \/ ~HasPersonal(u) /\ row[h] = NoRow /\ row' = [row EXCEPT ![h] = Personal(u)]

(* By its owner, who may give it a name.                                    *)
Convert(u, h) ==
    /\ UNCHANGED member
    /\ row[h].owner = u
    /\ \E name \in {row[h].name, u} :
          row' = [row EXCEPT ![h] = [personal |-> FALSE, owner |-> u, name |-> name]]

(* Not necessarily by one who is still in it.                               *)
Rename(u, h) ==
    /\ UNCHANGED member
    /\ row[h] # NoRow
    /\ row[h].personal => row[h].owner = u
    /\ row' = [row EXCEPT ![h].name = u]

(* A create that is cut short leaves a household without a member.          *)
Abandon(u, h) ==
    /\ UNCHANGED member
    /\ row[h] = NoRow
    /\ row' = [row EXCEPT ![h] = Joinable(u)]

(* Of most calls that an operation makes nothing is seen.                   *)
Unseen == UNCHANGED <<member, row>>

Next ==
    \/ Unseen
    \/ \E u \in Users, h \in Houses :
          \/ Create(u, h) \/ CreatePersonal(u, h) \/ Join(u, h) \/ Leave(u, h)
          \/ Convert(u, h) \/ Rename(u, h) \/ Abandon(u, h)

Spec == Init /\ [][Next]_<<member, row>>
=============================================================================
