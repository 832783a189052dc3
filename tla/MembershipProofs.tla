-------------------------- MODULE MembershipProofs --------------------------
(***************************************************************************)
(* To its clients the household service is atomic: HouseholdMembership      *)
(* implements Membership, for any number of users, households and           *)
(* overlapping requests.  The mapping hides a household from its insert     *)
(* until its creator is a member of it; with the invariant, nobody has to   *)
(* do with it meanwhile, so a clean-up is no step at all.                   *)
(***************************************************************************)
EXTENDS HouseholdMembershipProofs

(* Beyond HouseholdInv: whose a household is that is being created, or that *)
(* is about to be converted.                                                *)
Naming ==
    /\ \A h \in Houses : house[h].there => house[h].name \in Users
    /\ \A r \in Requests : InFlight(r) =>
          house[req[r].house].owner = None /\ house[req[r].house].name = req[r].user
    /\ \A r \in Requests : req[r].pc = "act" /\ req[r].op = "convert" =>
          house[req[r].house].owner = req[r].user

SeenInv == HouseholdInv /\ Naming

-----------------------------------------------------------------------------
(* A step that leaves the table alone, in which no request but r moves and  *)
(* r gets neither into an insert nor in front of a conversion.              *)
LEMMA NamingIdle ==
    ASSUME SeenInv, NEW r \in Requests, house' = house,
           \A s \in Requests : s # r => req'[s] = req[s],
           InFlight(r)' => InFlight(r) /\ req'[r].house = req[r].house /\ req'[r].user = req[r].user,
           req'[r].pc = "act" /\ req'[r].op = "convert" => house[req'[r].house].owner = req'[r].user
    PROVE  Naming'
BY DEF SeenInv, Naming, InFlight

(* No request but r moves; none of them is creating h, and those about to   *)
(* convert it find the owner they saw.                                      *)
Spares(r, h, owner) == \A s \in Requests : s # r =>
    /\ req'[s] = req[s]
    /\ InFlight(s) => req[s].house # h
    /\ req[s].pc = "act" /\ req[s].house = h => owner = house[h].owner

(* A step that writes the row of one household.                             *)
LEMMA NamingWrite ==
    ASSUME SeenInv, NEW r \in Requests, NEW h \in Houses, NEW new \in HouseRow,
           house' = [house EXCEPT ![h] = new],
           new.there => new.name \in Users,
           Spares(r, h, new.owner),
           req'[r].pc \in {"addMember", "cleanup"} =>
               req'[r].house = h /\ new.owner = None /\ new.name = req'[r].user,
           ~(req'[r].pc = "act" /\ req'[r].op = "convert")
    PROVE  Naming'
<1>1. house \in [Houses -> HouseRow]
  BY DEF SeenInv, HouseholdInv, Types
<1>2. \A g \in Houses : house'[g].there => house'[g].name \in Users
  BY <1>1 DEF SeenInv, Naming
<1>3. ASSUME NEW s \in Requests, InFlight(s)'
      PROVE  house'[req'[s].house].owner = None /\ house'[req'[s].house].name = req'[s].user
  <2>1. CASE s = r
    BY <1>1, <1>3, <2>1 DEF InFlight
  <2>2. CASE s # r
    <3>1. InFlight(s) /\ req'[s] = req[s] /\ req[s].house \in Houses
      BY <1>3, <2>2 DEF InFlight, SeenInv, HouseholdInv, Ids, Spares
    <3>2. req[s].house # h
      BY <2>2, <3>1 DEF Spares
    <3> QED
      BY <1>1, <3>1, <3>2 DEF SeenInv, Naming
  <2> QED
    BY <2>1, <2>2
<1>4. ASSUME NEW s \in Requests, req'[s].pc = "act", req'[s].op = "convert"
      PROVE  house'[req'[s].house].owner = req'[s].user
  <2>1. s # r
    BY <1>4
  <2>2. req'[s] = req[s] /\ req[s].house \in Houses /\ house[req[s].house].owner = req[s].user
    BY <1>4, <2>1 DEF SeenInv, Naming, HouseholdInv, Ids, Acting, Spares
  <2>3. req[s].house = h => new.owner = house[h].owner
    BY <1>4, <2>1, <2>2 DEF Spares
  <2> QED
    BY <1>1, <2>2, <2>3
<1> QED
  BY <1>2, <1>3, <1>4 DEF Naming

(* A request that is not creating a household before nor after a step.      *)
LEMMA RowsIdle ==
    ASSUME NEW r \in Requests, \A s \in Requests : s # r => req'[s] = req[s],
           ~InFlight(r), ~InFlight(r)'
    PROVE  \A h : BeingCreated(h)' <=> BeingCreated(h)
BY DEF BeingCreated, InFlight

LEMMA RowsUnchanged ==
    ASSUME house' = house, \A h \in Houses : BeingCreated(h)' <=> BeingCreated(h)
    PROVE  SeenRows' = SeenRows
BY DEF SeenRows, SeenRow

(* The personal households are those that are seen.                         *)
LEMMA PersonalSeen ==
    ASSUME HouseholdInv, NEW h \in Houses, house[h].there, house[h].personal \/ ~Empty(h) \/ h \in known
    PROVE  /\ ~BeingCreated(h)
           /\ SeenRows[h] = [personal |-> house[h].personal, owner |-> house[h].owner,
                             name |-> house[h].name]
<1>1. ~BeingCreated(h)
  BY DEF HouseholdInv, Creation, BeingCreated, InFlight
<1> QED
  BY <1>1 DEF SeenRows, SeenRow

LEMMA HasPersonalSeen ==
    ASSUME HouseholdInv, NEW u \in Users
    PROVE  Seen!HasPersonal(u) <=> PersonalOf(u) # {}
<1>1. ASSUME Seen!HasPersonal(u) PROVE PersonalOf(u) # {}
  <2>1. PICK h \in Houses : SeenRows[h].personal /\ SeenRows[h].owner = u
    BY <1>1 DEF Seen!HasPersonal
  <2>2. house[h].there /\ house[h].personal /\ house[h].owner = u
    BY <2>1 DEF SeenRows, SeenRow
  <2> QED
    BY <2>2 DEF PersonalOf
<1>2. ASSUME PersonalOf(u) # {} PROVE Seen!HasPersonal(u)
  <2>1. PICK h \in Houses : house[h].there /\ house[h].personal /\ house[h].owner = u
    BY <1>2 DEF PersonalOf
  <2>2. SeenRows[h] = [personal |-> house[h].personal, owner |-> house[h].owner,
                       name |-> house[h].name]
    BY <2>1, PersonalSeen
  <2>3. SeenRows[h].personal /\ SeenRows[h].owner = u
    BY <2>1, <2>2
  <2> QED
    BY <2>3 DEF Seen!HasPersonal
<1> QED
  BY <1>1, <1>2

(* A step that may change the row of one household, in the table or in what *)
(* is seen of it.                                                           *)
LEMMA RowsWrite ==
    ASSUME house \in [Houses -> HouseRow], NEW h \in Houses, NEW new \in HouseRow,
           house' = [house EXCEPT ![h] = new],
           \A g \in Houses : g # h => (BeingCreated(g)' <=> BeingCreated(g))
    PROVE  SeenRows' = [SeenRows EXCEPT ![h] =
               IF new.there /\ ~BeingCreated(h)'
               THEN [personal |-> new.personal, owner |-> new.owner, name |-> new.name]
               ELSE Seen!NoRow]
<1>1. \A g \in Houses : g # h => SeenRow(g)' = SeenRow(g)
  BY DEF SeenRow
<1>2. SeenRow(h)' = IF new.there /\ ~BeingCreated(h)'
               THEN [personal |-> new.personal, owner |-> new.owner, name |-> new.name]
               ELSE Seen!NoRow
  BY DEF SeenRow, Seen!NoRow
<1> QED
  BY <1>1, <1>2 DEF SeenRows

LEMMA NotThere ==
    ASSUME NEW h \in Houses, ~house[h].there \/ BeingCreated(h)
    PROVE  SeenRows[h] = Seen!NoRow
BY DEF SeenRows, SeenRow, Seen!NoRow

Implements == [Seen!Next]_<<home, SeenRows>>

LEMMA QuietStep ==
    ASSUME SeenInv, NEW r \in Requests, UNCHANGED <<home, house>>,
           \A s \in Requests : s # r => req'[s] = req[s],
           ~InFlight(r), ~InFlight(r)',
           req'[r].pc = "act" /\ req'[r].op = "convert" => house[req'[r].house].owner = req'[r].user
    PROVE  Naming' /\ Implements
<1>1. Naming'
  BY NamingIdle
<1>2. SeenRows' = SeenRows
  BY RowsIdle, RowsUnchanged
<1> QED
  BY <1>1, <1>2 DEF Implements

LEMMA EndStep ==
    ASSUME SeenInv, NEW r \in Requests, UNCHANGED <<home, house>>, ~InFlight(r), End(r)
    PROVE  Naming' /\ Implements
<1>1. req'[r] = Idle /\ \A s \in Requests : s # r => req'[s] = req[s]
  BY Ends DEF SeenInv, HouseholdInv
<1>2. req'[r].pc = "idle" /\ ~InFlight(r)'
  BY <1>1 DEF Idle, InFlight
<1> QED
  BY <1>1, <1>2, QuietStep

LEMMA GotoStep ==
    ASSUME SeenInv, NEW r \in Requests, UNCHANGED <<home, house>>, ~InFlight(r),
           NEW pc \in Steps \ {"addMember", "cleanup"}, Goto(r, pc),
           pc = "act" /\ req[r].op = "convert" => house[req[r].house].owner = req[r].user
    PROVE  Naming' /\ Implements
<1>1. /\ req'[r].pc = pc /\ req'[r].op = req[r].op
      /\ req'[r].user = req[r].user /\ req'[r].house = req[r].house
      /\ \A s \in Requests : s # r => req'[s] = req[s]
  BY Moves DEF SeenInv, HouseholdInv
<1>2. ~InFlight(r)'
  BY <1>1 DEF InFlight
<1> QED
  BY <1>1, <1>2, QuietStep

LEMMA AnswerWithStep ==
    ASSUME SeenInv, NEW r \in Requests, UNCHANGED <<home, house>>, ~InFlight(r),
           NEW h \in Houses, AnswerWith(r, h)
    PROVE  Naming' /\ Implements
<1>1. req'[r].pc = "answer" /\ \A s \in Requests : s # r => req'[s] = req[s]
  BY Answers DEF SeenInv, HouseholdInv
<1>2. ~InFlight(r)'
  BY <1>1 DEF InFlight
<1> QED
  BY <1>1, <1>2, QuietStep

LEMMA BeginCreateSeen ==
    ASSUME SeenInv, NEW r \in Requests, BeginCreate(r)
    PROVE  Naming' /\ Implements
<1>1. PICK u \in Users, op \in {"create", "createPersonal"} :
          req' = [req EXCEPT ![r] = [pc |-> IF op = "create" THEN "insert" ELSE "find",
                                     op |-> op, user |-> u, house |-> None]]
  BY DEF BeginCreate
<1>2. req'[r].pc \in {"insert", "find"} /\ \A s \in Requests : s # r => req'[s] = req[s]
  BY <1>1 DEF SeenInv, HouseholdInv, Types
<1>3. ~InFlight(r) /\ ~InFlight(r)' /\ UNCHANGED <<home, house>>
  BY <1>2 DEF InFlight, BeginCreate
<1> QED
  BY <1>2, <1>3, QuietStep

LEMMA ReadMembershipSeen ==
    ASSUME SeenInv, NEW r \in Requests, ReadMembership(r)
    PROVE  Naming' /\ Implements
<1>1. PICK u \in Users, op \in {"leave", "convert", "rename"} :
          req' = [req EXCEPT ![r] = [pc |-> "look", op |-> op, user |-> u, house |-> home[u]]]
  BY DEF ReadMembership
<1>2. req'[r].pc = "look" /\ \A s \in Requests : s # r => req'[s] = req[s]
  BY <1>1 DEF SeenInv, HouseholdInv, Types
<1>3. ~InFlight(r) /\ ~InFlight(r)' /\ UNCHANGED <<home, house>>
  BY <1>2 DEF InFlight, ReadMembership
<1> QED
  BY <1>2, <1>3, QuietStep

LEMMA FindSeen ==
    ASSUME SeenInv, NEW r \in Requests,
           FindPersonal(r) \/ FindPersonalAgain(r) \/ InsertPersonalRefused(r)
    PROVE  Naming' /\ Implements
<1>1. UNCHANGED <<home, house>> /\ ~InFlight(r)
  BY DEF FindPersonal, FindPersonalAgain, InsertPersonalRefused, InFlight
<1>2. \/ \E h \in Houses : AnswerWith(r, h)
      \/ Goto(r, "insert") \/ Goto(r, "findAgain")
      \/ End(r)
  BY DEF FindPersonal, FindPersonalAgain, InsertPersonalRefused, PersonalOf
<1> QED
  BY <1>1, <1>2, AnswerWithStep, GotoStep, EndStep DEF Steps

LEMMA LookSeen ==
    ASSUME SeenInv, NEW r \in Requests, Look(r)
    PROVE  Naming' /\ Implements
<1>1. UNCHANGED <<home, house>> /\ ~InFlight(r)
  BY DEF Look, InFlight
<1>2. CASE End(r)
  BY <1>1, <1>2, EndStep
<1>3. CASE Goto(r, "act") /\ Allowed(req[r].op, req[r].user, house[req[r].house])
  <2>1. req[r].op = "convert" => house[req[r].house].owner = req[r].user
    BY <1>3 DEF Allowed
  <2> QED
    BY <1>1, <1>3, <2>1, GotoStep DEF Steps
<1> QED
  BY <1>2, <1>3 DEF Look

LEMMA LeaveRefusedSeen ==
    ASSUME SeenInv, NEW r \in Requests, LeaveRefused(r) \/ Answer(r)
    PROVE  Naming' /\ Implements
<1>1. UNCHANGED <<home, house>> /\ ~InFlight(r) /\ End(r)
  BY DEF LeaveRefused, Answer, InFlight
<1> QED
  BY <1>1, EndStep

-----------------------------------------------------------------------------
(* A new row is not seen until its creator is a member.                     *)
LEMMA InsertJoinableSeen ==
    ASSUME SeenInv, NEW r \in Requests, InsertJoinable(r)
    PROVE  Naming' /\ Implements
<1>0. Types /\ Ids /\ req[r].user \in Users
  BY DEF SeenInv, HouseholdInv, Callers, InsertJoinable
<1>1. PICK h \in Houses :
          /\ ~house[h].used
          /\ house' = [house EXCEPT ![h] = NewRow(req[r].user, FALSE)]
          /\ req' = [req EXCEPT ![r].pc = "addMember", ![r].house = h]
          /\ req[r].pc = "insert"
          /\ home' = home
  BY DEF InsertJoinable, NewIds
<1> DEFINE new == NewRow(req[r].user, FALSE)
<1>2. new \in HouseRow /\ new.there /\ new.owner = None /\ new.name = req[r].user
  BY <1>0 DEF NewRow, HouseRow
<1>3. /\ req'[r].pc = "addMember" /\ req'[r].user = req[r].user /\ req'[r].house = h
      /\ \A s \in Requests : s # r => req'[s] = req[s]
  BY <1>0, <1>1 DEF Types, RequestState, Steps
<1>4. ~house[h].there /\ \A s \in Requests : req[s].house # h
  BY <1>0, <1>1, HouseholdAssumption DEF Ids, Types
<1>5. house' = [house EXCEPT ![h] = new]
  BY <1>1
<1> HIDE DEF new
<1>6. Naming'
  <2>1. /\ new.there => new.name \in Users
        /\ new.owner = None /\ new.name = req'[r].user /\ req'[r].house = h
        /\ ~(req'[r].pc = "act" /\ req'[r].op = "convert")
    BY <1>0, <1>2, <1>3
  <2>2. Spares(r, h, new.owner)
    BY <1>3, <1>4 DEF Spares
  <2> QED
    BY <1>2, <1>3, <1>5, <2>1, <2>2, NamingWrite
<1>7. BeingCreated(h)' /\ ~InFlight(r)
  BY <1>1, <1>3 DEF BeingCreated, InFlight
<1>8. \A g \in Houses : g # h => (BeingCreated(g)' <=> BeingCreated(g))
  BY <1>3, <1>7 DEF BeingCreated, InFlight
<1>9. SeenRows' = [SeenRows EXCEPT ![h] = Seen!NoRow]
  BY <1>0, <1>2, <1>5, <1>7, <1>8, RowsWrite DEF Types
<1>10. SeenRows[h] = Seen!NoRow
  BY <1>4, NotThere
<1>11. SeenRows' = SeenRows
  BY <1>9, <1>10 DEF SeenRows
<1> QED
  BY <1>1, <1>6, <1>11 DEF Implements

LEMMA InsertPersonalSeen ==
    ASSUME SeenInv, NEW r \in Requests, InsertPersonal(r)
    PROVE  Naming' /\ Implements
<1> DEFINE u == req[r].user
<1>0. Types /\ Ids /\ u \in Users
  BY DEF SeenInv, HouseholdInv, Callers, InsertPersonal
<1>1. PICK h \in Houses :
          /\ ~house[h].used
          /\ house' = [house EXCEPT ![h] = NewRow(u, TRUE)]
          /\ home' = IF home[u] = None THEN [home EXCEPT ![u] = h] ELSE home
          /\ AnswerWith(r, h)
          /\ req[r].pc = "insert"
          /\ PersonalOf(u) = {}
  BY DEF InsertPersonal, NewIds
<1> DEFINE new == NewRow(u, TRUE)
<1>2. /\ new \in HouseRow /\ new.there /\ new.name = u
      /\ [personal |-> new.personal, owner |-> new.owner, name |-> new.name] = Seen!Personal(u)
  BY <1>0 DEF NewRow, HouseRow, Seen!Personal
<1>3. /\ req'[r].pc = "answer" /\ req'[r].house = h
      /\ \A s \in Requests : s # r => req'[s] = req[s]
  BY <1>0, <1>1, Answers
<1>4. ~house[h].there /\ \A s \in Requests : req[s].house # h
  BY <1>0, <1>1, HouseholdAssumption DEF Ids, Types
<1>5. house' = [house EXCEPT ![h] = new]
  BY <1>1
<1>6. ~InFlight(r) /\ ~InFlight(r)'
  BY <1>1, <1>3 DEF InFlight
<1> HIDE DEF new
<1>7. Naming'
  <2>1. /\ new.there => new.name \in Users
        /\ ~(req'[r].pc = "act" /\ req'[r].op = "convert")
    BY <1>0, <1>2, <1>3
  <2>2. req'[r].pc \notin {"addMember", "cleanup"}
    BY <1>3
  <2>3. Spares(r, h, new.owner)
    BY <1>3, <1>4 DEF Spares
  <2> HIDE DEF u
  <2> QED
    BY <1>2, <1>3, <1>5, <2>1, <2>2, <2>3, NamingWrite
<1>8. ~BeingCreated(h) /\ \A g : BeingCreated(g)' <=> BeingCreated(g)
  <2>1. ~BeingCreated(h)
    BY <1>4 DEF BeingCreated
  <2> QED
    BY <1>3, <1>6, <2>1, RowsIdle
<1>9. SeenRows' = [SeenRows EXCEPT ![h] = Seen!Personal(u)]
  BY <1>0, <1>2, <1>5, <1>8, RowsWrite DEF Types
<1>10. SeenRows[h] = Seen!NoRow
  BY <1>4, NotThere
<1>11. ~Seen!HasPersonal(u)
  BY <1>0, <1>1, HasPersonalSeen DEF SeenInv
<1>12. Seen!CreatePersonal(u, h)
  BY <1>1, <1>9, <1>10, <1>11 DEF Seen!CreatePersonal
<1> QED
  BY <1>0, <1>7, <1>12 DEF Implements, Seen!Next

(* The create of a household is seen when its creator becomes a member.     *)
LEMMA AddMemberSeen ==
    ASSUME SeenInv, NEW r \in Requests, AddMember(r)
    PROVE  Naming' /\ Implements
<1> DEFINE u == req[r].user
<1> PICK h : h = req[r].house
  OBVIOUS
<1>0. /\ Types /\ Ids /\ Creation /\ req[r].pc = "addMember" /\ InFlight(r) /\ BeingCreated(h)
      /\ u \in Users /\ h \in Houses /\ house[h].there /\ house' = house
  BY DEF SeenInv, HouseholdInv, Callers, AddMember, InFlight, Ids, BeingCreated
<1>1. ~house[h].personal /\ house[h].owner = None /\ house[h].name = u
  BY <1>0 DEF SeenInv, Naming, Creation
<1>2. CASE home[u] = None
  <2>1. home' = [home EXCEPT ![u] = h] /\ Goto(r, "answer")
    BY <1>2 DEF AddMember, MayBeAdded
  <2>2. req'[r].pc = "answer" /\ \A s \in Requests : s # r => req'[s] = req[s]
    BY <1>0, <2>1, Moves DEF Steps
  <2>3. ~InFlight(r)'
    BY <2>2 DEF InFlight
  <2>4. Naming'
    BY <1>0, <2>2, <2>3, NamingIdle
  <2>5. \A s \in Requests : s # r => req[s].house # h
    BY <1>0 DEF Creation
  <2>6. ~BeingCreated(h)'
    BY <2>2, <2>5 DEF BeingCreated
  <2>7. \A g \in Houses : g # h => (BeingCreated(g)' <=> BeingCreated(g))
    BY <2>2 DEF BeingCreated
  <2>8. house' = [house EXCEPT ![h] = house[h]] /\ house[h] \in HouseRow
    BY <1>0 DEF Types
  <2>9. [personal |-> house[h].personal, owner |-> house[h].owner, name |-> house[h].name]
          = Seen!Joinable(u)
    BY <1>0, <1>1, <2>8 DEF Seen!Joinable, HouseRow
  <2>10. SeenRows' = [SeenRows EXCEPT ![h] = Seen!Joinable(u)]
    <3> DEFINE new == house[h]
    <3>1. new \in HouseRow /\ new.there /\ house' = [house EXCEPT ![h] = new]
      BY <1>0, <2>8
    <3>2. [personal |-> new.personal, owner |-> new.owner, name |-> new.name] = Seen!Joinable(u)
      BY <2>9
    <3> HIDE DEF new
    <3> QED
      BY <1>0, <2>6, <2>7, <3>1, <3>2, RowsWrite DEF Types
  <2>11. SeenRows[h] = Seen!NoRow
    BY <1>0, NotThere
  <2>12. Seen!Create(u, h)
    BY <1>2, <2>1, <2>10, <2>11 DEF Seen!Create
  <2> QED
    BY <1>0, <2>4, <2>12 DEF Implements, Seen!Next
<1>3. CASE home[u] # None
  <2>1. home' = home /\ Goto(r, "cleanup")
    BY <1>3 DEF AddMember, MayBeAdded
  <2>2. /\ req'[r].pc = "cleanup" /\ req'[r].house = h /\ req'[r].user = u
        /\ \A s \in Requests : s # r => req'[s] = req[s]
    BY <1>0, <2>1, Moves DEF Steps
  <2>3. Naming'
    BY <1>0, <2>2, NamingIdle
  <2>4. \A g \in Houses : BeingCreated(g)' <=> BeingCreated(g)
    BY <1>0, <2>2 DEF BeingCreated
  <2> QED
    BY <1>0, <2>1, <2>3, <2>4, RowsUnchanged DEF Implements
<1> QED
  BY <1>2, <1>3

(* What was never seen is gone again.                                       *)
LEMMA CleanupSeen ==
    ASSUME SeenInv, NEW r \in Requests, Cleanup(r)
    PROVE  Naming' /\ Implements
<1> DEFINE new == [NoHouse EXCEPT !.used = TRUE]
<1> PICK h : h = req[r].house
  OBVIOUS
<1>0. /\ Types /\ Creation /\ InFlight(r) /\ BeingCreated(h) /\ h \in Houses
  BY DEF SeenInv, HouseholdInv, Cleanup, InFlight, Ids, BeingCreated
<1>1. home' = home
  BY <1>0 DEF Cleanup, DeleteHouse, Creation, Empty, Types
<1>2. house' = [house EXCEPT ![h] = new] /\ End(r)
  BY DEF Cleanup, DeleteHouse
<1>3. new \in HouseRow /\ ~new.there
  BY DEF NoHouse, HouseRow
<1> HIDE DEF new
<1>4. req'[r].pc = "idle" /\ \A s \in Requests : s # r => req'[s] = req[s]
  BY <1>0, <1>2, Ends DEF Idle
<1>5. \A s \in Requests : s # r => req[s].house # h
  BY <1>0 DEF Creation
<1>6. Naming'
  <2>1. ~InFlight(r)' /\ ~(req'[r].pc = "act" /\ req'[r].op = "convert")
    BY <1>4 DEF InFlight
  <2>3. req'[r].pc \notin {"addMember", "cleanup"}
    BY <1>4
  <2>4. Spares(r, h, new.owner)
    BY <1>4, <1>5 DEF Spares
  <2> QED
    BY <1>0, <1>2, <1>3, <2>1, <2>3, <2>4, NamingWrite
<1>7. \A g \in Houses : g # h => (BeingCreated(g)' <=> BeingCreated(g))
  BY <1>4 DEF BeingCreated
<1>8. SeenRows' = [SeenRows EXCEPT ![h] = Seen!NoRow]
  BY <1>0, <1>2, <1>3, <1>7, RowsWrite DEF Types
<1>9. SeenRows[h] = Seen!NoRow
  BY <1>0, NotThere
<1>10. SeenRows' = SeenRows
  BY <1>8, <1>9 DEF SeenRows
<1> QED
  BY <1>1, <1>6, <1>10 DEF Implements

LEMMA AbortSeen ==
    ASSUME SeenInv, NEW r \in Requests, Abort(r)
    PROVE  Naming' /\ Implements
<1>0. UNCHANGED <<home, house>> /\ End(r) /\ Types /\ Ids /\ Creation
  BY DEF Abort, SeenInv, HouseholdInv
<1>1. CASE ~InFlight(r)
  BY <1>0, <1>1, EndStep
<1>2. CASE InFlight(r)
  <2> DEFINE u == req[r].user
  <2> PICK h : h = req[r].house
    OBVIOUS
  <2>0. /\ h \in Houses /\ house[h].there /\ BeingCreated(h) /\ u \in Users
        /\ ~house[h].personal /\ house[h].owner = None /\ house[h].name = u
    BY <1>0, <1>2 DEF Ids, InFlight, BeingCreated, SeenInv, Naming, HouseholdInv, Callers, Creation
  <2>1. req'[r].pc = "idle" /\ \A s \in Requests : s # r => req'[s] = req[s]
    BY <1>0, Ends DEF Idle
  <2>2. ~InFlight(r)'
    BY <2>1 DEF InFlight
  <2>3. Naming'
    BY <1>0, <2>1, <2>2, NamingIdle
  <2>4. \A s \in Requests : s # r => req[s].house # h
    BY <1>0, <1>2 DEF Creation
  <2>5. ~BeingCreated(h)' /\ \A g \in Houses : g # h => (BeingCreated(g)' <=> BeingCreated(g))
    BY <2>1, <2>4 DEF BeingCreated
  <2>6. SeenRows' = [SeenRows EXCEPT ![h] = Seen!Joinable(u)]
    <3> DEFINE new == house[h]
    <3>1. new \in HouseRow /\ new.there /\ house' = [house EXCEPT ![h] = new]
      BY <1>0, <2>0 DEF Types
    <3>2. [personal |-> new.personal, owner |-> new.owner, name |-> new.name] = Seen!Joinable(u)
      BY <2>0, <3>1 DEF Seen!Joinable, HouseRow
    <3> HIDE DEF new
    <3> QED
      BY <1>0, <2>0, <2>5, <3>1, <3>2, RowsWrite DEF Types
  <2>7. SeenRows[h] = Seen!NoRow
    BY <2>0, NotThere
  <2>8. Seen!Abandon(u, h)
    BY <1>0, <2>6, <2>7 DEF Seen!Abandon
  <2> QED
    BY <2>0, <2>3, <2>8 DEF Implements, Seen!Next
<1> QED
  BY <1>1, <1>2

LEMMA LeaveSeen ==
    ASSUME SeenInv, NEW r \in Requests, Leave(r)
    PROVE  Naming' /\ Implements
<1> DEFINE u == req[r].user
<1>0. /\ Types /\ Ids /\ u \in Users /\ ~InFlight(r) /\ End(r)
      /\ home[u] # None /\ ~house[home[u]].personal
  BY DEF SeenInv, HouseholdInv, Callers, Leave, CanLeave, InFlight
<1>1. req'[r].pc = "idle" /\ \A s \in Requests : s # r => req'[s] = req[s]
  BY <1>0, Ends DEF Idle
<1>2. ~InFlight(r)'
  BY <1>1 DEF InFlight
<1>3. \A g : BeingCreated(g)' <=> BeingCreated(g)
  BY <1>0, <1>1, <1>2, RowsIdle
<1>4. ~SeenRows[home[u]].personal
  <2>1. home[u] \in Houses /\ house[home[u]].there /\ ~Empty(home[u])
    BY <1>0 DEF Types, Ids, Empty
  <2>2. SeenRows[home[u]] = [personal |-> house[home[u]].personal, owner |-> house[home[u]].owner,
                             name |-> house[home[u]].name]
    BY <2>1, PersonalSeen DEF SeenInv
  <2> QED
    BY <1>0, <2>2
<1>5. CASE \E h \in PersonalOf(u) : home' = [home EXCEPT ![u] = h] /\ UNCHANGED house
  <2>1. PICK h \in Houses : /\ house[h].there /\ house[h].personal /\ house[h].owner = u
                            /\ home' = [home EXCEPT ![u] = h] /\ UNCHANGED house
    BY <1>5 DEF PersonalOf
  <2>2. Naming'
    BY <1>0, <1>1, <1>2, <2>1, NamingIdle
  <2>3. SeenRows' = SeenRows
    BY <1>3, <2>1, RowsUnchanged
  <2>4. SeenRows[h].personal /\ SeenRows[h].owner = u
    <3>1. SeenRows[h] = [personal |-> house[h].personal, owner |-> house[h].owner,
                         name |-> house[h].name]
      BY <2>1, PersonalSeen DEF SeenInv
    <3> QED
      BY <2>1, <3>1
  <2>5. home[u] # h
    BY <1>0, <2>1
  <2>6. Seen!Leave(u, h)
    BY <1>0, <1>4, <2>1, <2>3, <2>4, <2>5 DEF Seen!Leave
  <2> QED
    BY <1>0, <2>2, <2>6 DEF Implements, Seen!Next
<1>6. CASE \E h \in NewIds : /\ PersonalOf(u) = {}
                              /\ home' = [home EXCEPT ![u] = h]
                              /\ house' = [house EXCEPT ![h] = NewRow(u, TRUE)]
  <2> DEFINE new == NewRow(u, TRUE)
  <2>1. PICK h \in Houses : /\ ~house[h].used
                            /\ home' = [home EXCEPT ![u] = h]
                            /\ house' = [house EXCEPT ![h] = new]
    BY <1>6 DEF NewIds
  <2>2. /\ new \in HouseRow /\ new.there /\ new.name = u
        /\ [personal |-> new.personal, owner |-> new.owner, name |-> new.name] = Seen!Personal(u)
    BY <1>0 DEF NewRow, HouseRow, Seen!Personal
  <2>3. ~house[h].there /\ \A s \in Requests : req[s].house # h
    BY <1>0, <2>1, HouseholdAssumption DEF Ids, Types
  <2>4. home[u] # h
    BY <1>0, <2>3 DEF Ids
  <2> HIDE DEF new
  <2>5. Naming'
    <3>1. /\ new.there => new.name \in Users
          /\ ~(req'[r].pc = "act" /\ req'[r].op = "convert")
          /\ req'[r].pc \notin {"addMember", "cleanup"}
      BY <1>0, <1>1, <2>2
    <3>2. Spares(r, h, new.owner)
      BY <1>1, <2>3 DEF Spares
    <3> QED
      BY <2>1, <2>2, <3>1, <3>2, NamingWrite
  <2>6. ~BeingCreated(h)'
    BY <1>3, <2>3 DEF BeingCreated
  <2>7. SeenRows' = [SeenRows EXCEPT ![h] = Seen!Personal(u)]
    BY <1>0, <1>3, <2>1, <2>2, <2>6, RowsWrite DEF Types
  <2>8. SeenRows[h] = Seen!NoRow
    BY <2>3, NotThere
  <2>9. ~Seen!HasPersonal(u)
    BY <1>0, <1>6, HasPersonalSeen DEF SeenInv
  <2>10. Seen!Leave(u, h)
    BY <1>0, <1>4, <2>1, <2>4, <2>7, <2>8, <2>9 DEF Seen!Leave
  <2> QED
    BY <1>0, <2>5, <2>10 DEF Implements, Seen!Next
<1> QED
  BY <1>5, <1>6 DEF Leave

(* What conversions and renames write into a row that is seen.              *)
LEMMA RewriteSeen ==
    ASSUME SeenInv, NEW r \in Requests, Convert(r) \/ Rename(r)
    PROVE  Naming' /\ Implements
<1> DEFINE u == req[r].user
<1> PICK h : h = req[r].house
  OBVIOUS
<1>0. /\ Types /\ Ids /\ u \in Users /\ ~InFlight(r) /\ req[r].pc = "act" /\ h \in Houses
      /\ home' = home /\ house[h].there /\ Goto(r, "answer")
  BY DEF SeenInv, HouseholdInv, Callers, Ids, Convert, Rename, InFlight, Acting
<1>1. /\ req'[r].pc = "answer" /\ req'[r].house = h
      /\ \A s \in Requests : s # r => req'[s] = req[s]
  BY <1>0, Moves DEF Steps
<1>2. ~InFlight(r)'
  BY <1>1 DEF InFlight
<1>3. \A s \in Requests : InFlight(s) => req[s].house # h
  BY <1>0 DEF SeenInv, HouseholdInv, Creation
<1>4. ~BeingCreated(h) /\ \A g : BeingCreated(g)' <=> BeingCreated(g)
  <2>1. ~BeingCreated(h)
    BY <1>3 DEF BeingCreated, InFlight
  <2> QED
    BY <1>0, <1>1, <1>2, <2>1, RowsIdle
<1>5. SeenRows[h] = [personal |-> house[h].personal, owner |-> house[h].owner, name |-> house[h].name]
  BY <1>0, <1>4 DEF SeenRows, SeenRow
<1>6. house[h].name \in Users
  BY <1>0 DEF SeenInv, Naming
<1>7. ASSUME NEW new \in HouseRow, new.there, new.name \in Users, new.owner = house[h].owner,
             house' = [house EXCEPT ![h] = new]
      PROVE  /\ Naming'
             /\ SeenRows' = [SeenRows EXCEPT ![h] = [personal |-> new.personal, owner |-> new.owner,
                                                     name |-> new.name]]
  <2>1. /\ ~(req'[r].pc = "act" /\ req'[r].op = "convert")
        /\ req'[r].pc \notin {"addMember", "cleanup"}
    BY <1>1
  <2>2. Spares(r, h, new.owner)
    BY <1>1, <1>3, <1>7 DEF Spares
  <2>3. Naming'
    BY <1>0, <1>7, <2>1, <2>2, NamingWrite
  <2>4. ~BeingCreated(h)'
    BY <1>4
  <2> QED
    BY <1>0, <1>4, <1>7, <2>3, <2>4, RowsWrite DEF Types
<1>8. CASE Convert(r)
  <2>1. PICK name \in {house[h].name, u} :
           house' = [house EXCEPT ![h].personal = FALSE, ![h].name = name]
    BY <1>8 DEF Convert
  <2>2. house[h].owner = u
    BY <1>0, <1>8 DEF SeenInv, Naming, Convert
  <2> DEFINE new == [house[h] EXCEPT !.personal = FALSE, !.name = name]
  <2>3. /\ new \in HouseRow /\ new.there /\ new.name = name /\ new.owner = house[h].owner
        /\ new.personal = FALSE /\ name \in Users
    BY <1>0, <1>6, <2>1 DEF Types, HouseRow
  <2>4. house' = [house EXCEPT ![h] = new]
    BY <1>0, <2>1 DEF Types, HouseRow
  <2> HIDE DEF new
  <2>5. /\ Naming'
        /\ SeenRows' = [SeenRows EXCEPT ![h] = [personal |-> new.personal, owner |-> new.owner,
                                                name |-> new.name]]
    BY <1>7, <2>3, <2>4
  <2>6. [personal |-> new.personal, owner |-> new.owner, name |-> new.name]
          = [personal |-> FALSE, owner |-> u, name |-> name]
    BY <2>2, <2>3
  <2>7. SeenRows' = [SeenRows EXCEPT ![h] = [personal |-> FALSE, owner |-> u, name |-> name]]
    BY <2>5, <2>6
  <2>8. SeenRows[h].owner = u /\ name \in {SeenRows[h].name, u}
    BY <1>5, <2>1, <2>2
  <2>9. Seen!Convert(u, h)
    BY <1>0, <2>7, <2>8 DEF Seen!Convert
  <2> QED
    BY <1>0, <2>5, <2>9 DEF Implements, Seen!Next
<1>9. CASE Rename(r)
  <2>1. house' = [house EXCEPT ![h].name = u] /\ req[r].op = "rename"
    BY <1>9 DEF Rename
  <2>2. house[h].personal => house[h].owner = u
    BY <1>0, <2>1 DEF SeenInv, HouseholdInv, Memory
  <2> DEFINE new == [house[h] EXCEPT !.name = u]
  <2>3. /\ new \in HouseRow /\ new.there /\ new.name = u /\ new.owner = house[h].owner
        /\ new.personal = house[h].personal
    BY <1>0 DEF Types, HouseRow
  <2>4. house' = [house EXCEPT ![h] = new]
    BY <1>0, <2>1 DEF Types, HouseRow
  <2> HIDE DEF new
  <2>5. /\ Naming'
        /\ SeenRows' = [SeenRows EXCEPT ![h] = [personal |-> new.personal, owner |-> new.owner,
                                                name |-> new.name]]
    BY <1>0, <1>7, <2>3, <2>4
  <2>6. [personal |-> new.personal, owner |-> new.owner, name |-> new.name]
          = [SeenRows[h] EXCEPT !.name = u]
    BY <1>5, <2>3
  <2>7. SeenRows' = [SeenRows EXCEPT ![h].name = u]
    BY <1>0, <2>5, <2>6 DEF SeenRows
  <2>8. SeenRows[h] # Seen!NoRow /\ (SeenRows[h].personal => SeenRows[h].owner = u)
    BY <1>5, <1>6, <2>2, HouseholdAssumption DEF Seen!NoRow
  <2>9. Seen!Rename(u, h)
    BY <1>0, <2>7, <2>8 DEF Seen!Rename
  <2> QED
    BY <1>0, <2>5, <2>9 DEF Implements, Seen!Next
<1> QED
  BY <1>8, <1>9

LEMMA JoinSeen ==
    ASSUME SeenInv, NEW u \in Users, Join(u)
    PROVE  Naming' /\ Implements
<1>1. PICK h \in known : /\ house[h].there /\ ~house[h].personal /\ home[u] # h
                         /\ home' = [home EXCEPT ![u] = h] /\ UNCHANGED <<house, req>>
  BY DEF Join
<1>2. h \in Houses
  BY DEF SeenInv, HouseholdInv, Types
<1>3. Naming'
  BY <1>1 DEF SeenInv, Naming, InFlight
<1>4. SeenRows' = SeenRows
  BY <1>1, RowsUnchanged DEF BeingCreated
<1>5. SeenRows[h] = [personal |-> house[h].personal, owner |-> house[h].owner, name |-> house[h].name]
  BY <1>1, <1>2, PersonalSeen DEF SeenInv
<1>6. house[h].name \in Users
  BY <1>1, <1>2 DEF SeenInv, Naming
<1>7. SeenRows[h] # Seen!NoRow /\ ~SeenRows[h].personal
  BY <1>1, <1>5, <1>6, HouseholdAssumption DEF Seen!NoRow
<1>8. Seen!Join(u, h)
  BY <1>1, <1>4, <1>7 DEF Seen!Join
<1> QED
  BY <1>2, <1>3, <1>8 DEF Implements, Seen!Next

-----------------------------------------------------------------------------
LEMMA SeenInitial == Init => SeenInv /\ Seen!Init
<1> SUFFICES ASSUME Init PROVE SeenInv /\ Seen!Init
  OBVIOUS
<1>1. HouseholdInv
  BY HouseholdsInitial
<1>2. Naming
  BY DEF Init, Naming, NoHouse, Idle, InFlight
<1>3. \A h \in Houses : SeenRow(h) = Seen!NoRow
  BY DEF Init, SeenRow, NoHouse, Seen!NoRow
<1> QED
  BY <1>1, <1>2, <1>3 DEF SeenInv, Seen!Init, SeenRows, Init

LEMMA SeenStep == SeenInv /\ [Next]_vars => SeenInv' /\ Implements
<1> SUFFICES ASSUME SeenInv, [Next]_vars PROVE SeenInv' /\ Implements
  OBVIOUS
<1>1. HouseholdInv'
  BY HouseholdStep DEF SeenInv
<1> SUFFICES Naming' /\ Implements
  BY <1>1 DEF SeenInv
<1>2. ASSUME NEW r \in Requests,
             \/ BeginCreate(r) \/ FindPersonal(r) \/ InsertJoinable(r) \/ InsertPersonal(r)
             \/ InsertPersonalRefused(r) \/ FindPersonalAgain(r) \/ AddMember(r) \/ Cleanup(r)
             \/ ReadMembership(r) \/ Look(r) \/ Leave(r) \/ LeaveRefused(r)
             \/ Convert(r) \/ Rename(r) \/ Answer(r) \/ Abort(r)
      PROVE  Naming' /\ Implements
  BY <1>2, BeginCreateSeen, FindSeen, InsertJoinableSeen, InsertPersonalSeen, AddMemberSeen,
     CleanupSeen, ReadMembershipSeen, LookSeen, LeaveSeen, LeaveRefusedSeen, RewriteSeen,
     AbortSeen
<1>3. ASSUME NEW u \in Users, Join(u) PROVE Naming' /\ Implements
  BY <1>3, JoinSeen
<1>4. CASE UNCHANGED vars
  <2>1. Naming'
    BY <1>4 DEF vars, SeenInv, Naming, InFlight
  <2>2. SeenRows' = SeenRows /\ home' = home
    BY <1>4, RowsUnchanged DEF vars, BeingCreated
  <2> QED
    BY <2>1, <2>2 DEF Implements
<1> QED
  BY <1>2, <1>3, <1>4 DEF Next

(* However the calls of requests overlap, and wherever they stop, clients   *)
(* see memberships and households change as if every create, join, leave,   *)
(* conversion and rename were one step (household_service.py, which has no  *)
(* transactions).                                                           *)
THEOREM OperationsAppearAtomic == Spec => OperationsAreAtomic
BY SeenInitial, SeenStep, PTL DEF Spec, OperationsAreAtomic, Seen!Spec, Implements

=============================================================================
