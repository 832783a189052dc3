------------------------ MODULE HouseholdMembership ------------------------
(***************************************************************************)
(* Households and who is in them: HouseholdService over the tables         *)
(* households and household_members.  A request is a sequence of database  *)
(* calls without a transaction around them; requests of the same user and  *)
(* of others overlap between any two calls, and a request may end at any   *)
(* of them (an error that is not handled, a lost response, a crash).  Join *)
(* and the last step of leave are functions of the database, which are     *)
(* known by how the service calls them and by the errors it expects.       *)
(*                                                                         *)
(* A household's name is identified with the user who gave it.             *)
(***************************************************************************)
EXTENDS Naturals, FiniteSets

CONSTANTS
    Users,
    Houses,     \* household ids; a uuid is used for one insert only
    Requests,   \* requests in progress at the same time
    None        \* no household, no owner

VARIABLES
    home,       \* household_members: the household each user is in
    house,      \* the households table
    req,        \* the requests in progress
    known,      \* history: households whose invite code a client was sent
    made,       \* history: joinable households each user was answered 200 for
    kept        \* history: households that came to stay: with a member, as a
                \* personal one, or because their create was cut short

vars == <<home, house, req, known, made, kept>>

ASSUME HouseholdAssumption == None \notin Users \cup Houses

-----------------------------------------------------------------------------
NoHouse == [there |-> FALSE, used |-> FALSE, personal |-> FALSE, owner |-> None, name |-> None]

Idle == [pc |-> "idle", op |-> "none", user |-> None, house |-> None]

Init ==
    /\ home = [u \in Users |-> None]
    /\ house = [h \in Houses |-> NoHouse]
    /\ req = [r \in Requests |-> Idle]
    /\ known = {}
    /\ made = [u \in Users |-> 0]
    /\ kept = {}

Members(h) == {u \in Users : home[u] = h}

PersonalOf(u) == {h \in Houses : house[h].there /\ house[h].personal /\ house[h].owner = u}

NewIds == {h \in Houses : ~house[h].used}

NewRowWithoutOwner(u, personal) ==
    [there |-> TRUE, used |-> TRUE, personal |-> personal, owner |-> None, name |-> u]

NewRow(u, personal) ==
    [there |-> TRUE, used |-> TRUE, personal |-> personal,
     owner |-> IF personal THEN u ELSE None, name |-> u]

Goto(r, pc) == req' = [req EXCEPT ![r].pc = pc]
AnswerWith(r, h) == req' = [req EXCEPT ![r].pc = "answer", ![r].house = h]
End(r) == req' = [req EXCEPT ![r] = Idle]

-----------------------------------------------------------------------------
(* create_household.  A user who is a member somewhere gets a 400.          *)
BeginCreate(r) == \E u \in Users, op \in {"create", "createPersonal"} :
    /\ req[r].pc = "idle"
    /\ home[u] = None
    /\ req' = [req EXCEPT ![r] =
                  [pc |-> IF op = "create" THEN "insert" ELSE "find",
                   op |-> op, user |-> u, house |-> None]]
    /\ UNCHANGED <<home, house, known, made, kept>>

(* The personal household the user has already is the answer.               *)
FindPersonal(r) ==
    /\ req[r].pc = "find"
    /\ \/ \E h \in PersonalOf(req[r].user) : AnswerWith(r, h)
       \/ PersonalOf(req[r].user) = {} /\ Goto(r, "insert")
    /\ UNCHANGED <<home, house, known, made, kept>>

InsertJoinable(r) == \E h \in NewIds :
    /\ req[r].pc = "insert"
    /\ req[r].op = "create"
    /\ house' = [house EXCEPT ![h] = NewRow(req[r].user, FALSE)]
    /\ req' = [req EXCEPT ![r].pc = "addMember", ![r].house = h]
    /\ UNCHANGED <<home, known, made, kept>>

(* The insert of a personal household fires sync_household_owner_membership,*)
(* which makes the owner a member.  When he has meanwhile become one of     *)
(* another household, the trigger fails the insert or lets it pass.  The    *)
(* index on personal households allows one for each owner.                  *)
InsertPersonal(r) == \E h \in NewIds :
    LET u == req[r].user
    IN  /\ req[r].pc = "insert"
        /\ req[r].op = "createPersonal"
        /\ PersonalOf(u) = {}
        /\ house' = [house EXCEPT ![h] = NewRow(u, TRUE)]
        /\ home' = IF home[u] = None THEN [home EXCEPT ![u] = h] ELSE home
        /\ kept' = kept \cup {h}
        /\ AnswerWith(r, h)
        /\ UNCHANGED <<known, made>>

InsertPersonalRefused(r) ==
    LET u == req[r].user
    IN  /\ req[r].pc = "insert"
        /\ req[r].op = "createPersonal"
        /\ PersonalOf(u) # {} \/ home[u] # None
        /\ Goto(r, "findAgain")
        /\ UNCHANGED <<home, house, known, made, kept>>

(* After a unique violation: the household of the request that was faster.  *)
AssumesTheHouseholdIsThere(r) ==
    /\ req[r].pc = "findAgain"
    /\ AnswerWith(r, CHOOSE h \in PersonalOf(req[r].user) \cup {None} :
                         h # None \/ PersonalOf(req[r].user) = {})
    /\ UNCHANGED <<home, house, known, made, kept>>

FindPersonalAgain(r) ==
    /\ req[r].pc = "findAgain"
    /\ \/ \E h \in PersonalOf(req[r].user) : AnswerWith(r, h)
       \/ PersonalOf(req[r].user) = {} /\ End(r)
    /\ UNCHANGED <<home, house, known, made, kept>>

(* household_members_user_id_key: a user has one membership.                *)
MovesTheMember(u) == TRUE

MayBeAdded(u) == home[u] = None

AddMember(r) ==
    LET u == req[r].user
    IN  /\ req[r].pc = "addMember"
        /\ IF MayBeAdded(u)
           THEN /\ home' = [home EXCEPT ![u] = req[r].house]
                /\ kept' = kept \cup {req[r].house}
                /\ Goto(r, "answer")
           ELSE Goto(r, "cleanup") /\ UNCHANGED <<home, kept>>
        /\ UNCHANGED <<house, known, made>>

(* The delete of a household cascades to its memberships.                   *)
DeleteHouse(h) ==
    /\ house' = [house EXCEPT ![h] = [NoHouse EXCEPT !.used = TRUE]]
    /\ home' = [u \in Users |-> IF home[u] = h THEN None ELSE home[u]]

CleanupUsersHousehold(r) ==
    /\ req[r].pc = "cleanup"
    /\ DeleteHouse(home[req[r].user])
    /\ End(r)
    /\ UNCHANGED <<known, made, kept>>

CleanupForgotten(r) ==
    /\ req[r].pc = "cleanup"
    /\ End(r)
    /\ UNCHANGED <<home, house, known, made, kept>>

(* The household that was just inserted is removed; the answer is 400.      *)
Cleanup(r) ==
    /\ req[r].pc = "cleanup"
    /\ DeleteHouse(req[r].house)
    /\ End(r)
    /\ UNCHANGED <<known, made, kept>>

-----------------------------------------------------------------------------
(* join_household_by_invite_rpc: one transaction, which knows a household   *)
(* by its invite code and refuses a personal one.                           *)
Join(u) == \E h \in known :
    /\ house[h].there
    /\ ~house[h].personal
    /\ home[u] # h
    /\ home' = [home EXCEPT ![u] = h]
    /\ UNCHANGED <<house, req, known, made, kept>>

(* leave, convert-to-joinable and rename read the membership, then look at  *)
(* the household it names, then act on what they saw.                       *)
ReadMembership(r) == \E u \in Users, op \in {"leave", "convert", "rename"} :
    /\ req[r].pc = "idle"
    /\ home[u] # None
    /\ req' = [req EXCEPT ![r] = [pc |-> "look", op |-> op, user |-> u, house |-> home[u]]]
    /\ UNCHANGED <<home, house, known, made, kept>>

Allowed(op, u, row) ==
    \/ op = "leave"   /\ ~row.personal
    \/ op = "convert" /\ row.personal /\ row.owner = u
    \/ op = "rename"  /\ (row.personal => row.owner = u)

Look(r) ==
    LET row == house[req[r].house]
    IN  /\ req[r].pc = "look"
        /\ IF row.there /\ Allowed(req[r].op, req[r].user, row)
           THEN Goto(r, "act")
           ELSE End(r)
        /\ UNCHANGED <<home, house, known, made, kept>>

(* leave_household_rpc: one transaction, which checks the membership that   *)
(* the user has by now and moves it to his personal household.              *)
CanLeave(u) == home[u] # None /\ ~house[home[u]].personal

Leave(r) ==
    LET u == req[r].user
    IN  /\ req[r].pc = "act"
        /\ req[r].op = "leave"
        /\ CanLeave(u)
        /\ \/ \E h \in PersonalOf(u) :
                 home' = [home EXCEPT ![u] = h] /\ UNCHANGED <<house, kept>>
           \/ \E h \in NewIds :
                 /\ PersonalOf(u) = {}
                 /\ home' = [home EXCEPT ![u] = h]
                 /\ house' = [house EXCEPT ![h] = NewRow(u, TRUE)]
                 /\ kept' = kept \cup {h}
        /\ End(r)
        /\ UNCHANGED <<known, made>>

LeaveRefused(r) ==
    /\ req[r].pc = "act"
    /\ req[r].op = "leave"
    /\ ~CanLeave(req[r].user)
    /\ End(r)
    /\ UNCHANGED <<home, house, known, made, kept>>

(* The update to is_personal false, with a new name or without.  An update  *)
(* that matches no row is answered with 500.                                *)
Convert(r) == \E named \in BOOLEAN :
    LET h == req[r].house
    IN  /\ req[r].pc = "act"
        /\ req[r].op = "convert"
        /\ house[h].there
        /\ house' = [house EXCEPT ![h].personal = FALSE,
                                  ![h].name = IF named THEN req[r].user ELSE @]
        /\ Goto(r, "answer")
        /\ UNCHANGED <<home, known, made, kept>>

Rename(r) ==
    LET h == req[r].house
    IN  /\ req[r].pc = "act"
        /\ req[r].op = "rename"
        /\ house[h].there
        /\ house' = [house EXCEPT ![h].name = req[r].user]
        /\ Goto(r, "answer")
        /\ UNCHANGED <<home, known, made, kept>>

-----------------------------------------------------------------------------
(* The response of create, convert and rename carries the invite code.      *)
Answer(r) ==
    /\ req[r].pc = "answer"
    /\ known' = known \cup {req[r].house}
    /\ made' = IF req[r].op = "create"
               THEN [made EXCEPT ![req[r].user] = @ + 1]
               ELSE made
    /\ End(r)
    /\ UNCHANGED <<home, house, kept>>

(* A call raises what the service does not handle, its response is lost, or *)
(* the process ends: a household that was inserted stays as it is.          *)
Abort(r) ==
    /\ req[r].pc # "idle"
    /\ End(r)
    /\ kept' = IF req[r].pc \in {"addMember", "cleanup"}
               THEN kept \cup {req[r].house}
               ELSE kept
    /\ UNCHANGED <<home, house, known, made>>

Next ==
    \/ \E r \in Requests :
          \/ BeginCreate(r) \/ FindPersonal(r) \/ InsertJoinable(r) \/ InsertPersonal(r)
          \/ InsertPersonalRefused(r) \/ FindPersonalAgain(r) \/ AddMember(r) \/ Cleanup(r)
          \/ ReadMembership(r) \/ Look(r) \/ Leave(r) \/ LeaveRefused(r)
          \/ Convert(r) \/ Rename(r) \/ Answer(r) \/ Abort(r)
    \/ \E u \in Users : Join(u)

Spec == Init /\ [][Next]_vars

-----------------------------------------------------------------------------
HouseRow == [there : BOOLEAN, used : BOOLEAN, personal : BOOLEAN,
             owner : Users \cup {None}, name : Users \cup {None}]

Steps == {"idle", "find", "insert", "findAgain", "addMember", "cleanup", "look", "act", "answer"}

RequestState ==
    [pc : Steps, op : {"none", "create", "createPersonal", "leave", "convert", "rename"},
     user : Users \cup {None}, house : Houses \cup {None}]

(* Every variable has its type; a membership refers to a household that is  *)
(* there, and so does a request that has one to write to or to answer with. *)
TypeOK ==
    /\ home \in [Users -> Houses \cup {None}]
    /\ house \in [Houses -> HouseRow]
    /\ req \in [Requests -> RequestState]
    /\ known \in SUBSET Houses
    /\ made \in [Users -> Nat]
    /\ kept \in SUBSET Houses
    /\ \A u \in Users : home[u] # None => house[home[u]].there
    /\ \A r \in Requests :
          req[r].pc \in {"addMember", "cleanup", "look", "act", "answer"} =>
              req[r].house \in Houses /\ house[req[r].house].there

(* Once in a household a user always is in one, and a step moves one user   *)
(* at most: the clean-up of a create that came second, whose delete         *)
(* cascades, evicts nobody.  It is what the models of the requests assume   *)
(* of the memberships they read (get_current_household_id).                 *)
Homes == INSTANCE Residence

NobodyStranded == Homes!Spec

(* Of all the creates of joinable households of one user, concurrent with   *)
(* each other, with joins and with leaves, one at most is answered 200      *)
(* (test_concurrent_non_personal_creates_single_membership_stable_statuses).*)
CreatedOnce == \A u \in Users : made[u] <= 1

(* Nobody but its owner is in a personal household or has named it, however *)
(* its conversion to a joinable one overlaps with joins and renames.        *)
PersonalIsPrivate == \A h \in Houses :
    house[h].there /\ house[h].personal =>
        Members(h) \subseteq {house[h].owner} /\ house[h].name = house[h].owner

(* A joinable household without members is being created, or it had one, or *)
(* its create was cut short.  A create that lost the race for the           *)
(* membership leaves none behind.                                           *)
NoOrphans == \A h \in Houses :
    house[h].there /\ ~house[h].personal /\ Members(h) = {} =>
        \/ \E r \in Requests : req[r].pc \in {"addMember", "cleanup"} /\ req[r].house = h
        \/ h \in kept
(* What is seen of a household: nothing while it is being created.          *)
BeingCreated(h) == \E r \in Requests :
    req[r].pc \in {"addMember", "cleanup"} /\ req[r].house = h

SeenRow(h) ==
    IF house[h].there /\ ~BeingCreated(h)
    THEN [personal |-> house[h].personal, owner |-> house[h].owner, name |-> house[h].name]
    ELSE [personal |-> FALSE, owner |-> None, name |-> None]

SeenRows == [h \in Houses |-> SeenRow(h)]

Seen == INSTANCE Membership WITH member <- home, row <- SeenRows

(* For all the calls an operation consists of, to every client it is one    *)
(* step or none: no membership of a household that is cleaned up again, no  *)
(* create for one who has become a member, no conversion by a stranger.     *)
OperationsAreAtomic == Seen!Spec

=============================================================================
