--------------------- MODULE HouseholdMembershipProofs ---------------------
(***************************************************************************)
(* Proofs about HouseholdMembership, for any number of users, households   *)
(* and overlapping requests.  The invariant says what each request relies  *)
(* on between two of its calls: a household that is being created is       *)
(* nobody else's, what was looked up stays there, and a user in no         *)
(* household was never told of one.                                        *)
(***************************************************************************)
EXTENDS HouseholdMembership, TLAPS

InFlight(r) == req[r].pc \in {"addMember", "cleanup"}
Acting(r) == req[r].pc \in {"look", "act"}
Told(r) == req[r].pc = "answer" /\ req[r].op = "create"

Empty(h) == \A u \in Users : home[u] # h

Types ==
    /\ home \in [Users -> Houses \cup {None}]
    /\ house \in [Houses -> HouseRow]
    /\ req \in [Requests -> RequestState]
    /\ known \in SUBSET Houses
    /\ made \in [Users -> Nat]
    /\ kept \in SUBSET Houses

(* An id in use is never taken for a new household, and a household that    *)
(* somebody is in or works on is there.                                     *)
Ids ==
    /\ \A h \in Houses : house[h].there => house[h].used
    /\ \A h \in known : house[h].used
    /\ \A u \in Users : home[u] # None => house[home[u]].there
    /\ \A r \in Requests :
          IF InFlight(r) \/ Acting(r) \/ req[r].pc = "answer"
          THEN req[r].house \in Houses /\ house[req[r].house].there
          ELSE req[r].house = None

Callers == \A r \in Requests :
    /\ req[r].pc # "idle" => req[r].user \in Users
    /\ req[r].pc \in {"find", "findAgain"} => req[r].op = "createPersonal"

(* Nobody knows of a household in the middle of its creation.               *)
Creation == \A r \in Requests : InFlight(r) =>
    /\ ~house[req[r].house].personal
    /\ Empty(req[r].house)
    /\ req[r].house \notin known
    /\ \A s \in Requests : s # r => req[s].house # req[r].house

(* What a request that is about to rename may still count on.               *)
Memory == \A r \in Requests :
    req[r].pc = "act" /\ req[r].op = "rename" /\ house[req[r].house].personal =>
        house[req[r].house].owner = req[r].user

(* A user is told of a joinable household of his own at most once.          *)
Telling ==
    /\ \A u \in Users : made[u] <= 1 /\ (made[u] = 1 => home[u] # None)
    /\ \A r \in Requests : Told(r) => made[req[r].user] = 0 /\ home[req[r].user] # None
    /\ \A r, s \in Requests : Told(r) /\ Told(s) /\ req[r].user = req[s].user => r = s

Privacy == \A h \in Houses : house[h].there /\ house[h].personal =>
    /\ house[h].owner \in Users
    /\ house[h].name = house[h].owner
    /\ \A u \in Users : home[u] = h => u = house[h].owner

(* A household that is there came to stay, unless it is being created.      *)
Staying == \A h \in Houses : house[h].there =>
    h \in kept \/ \E r \in Requests : InFlight(r) /\ req[r].house = h

HouseholdInv ==
    Types /\ Ids /\ Callers /\ Creation /\ Memory /\ Telling /\ Privacy /\ Staying

-----------------------------------------------------------------------------
LEMMA HouseholdsInitial == Init => HouseholdInv
BY HouseholdAssumption DEF Init, HouseholdInv, Types, Ids, Callers, Creation, Memory,
   Telling, Privacy, Staying, InFlight, Acting, Told, Empty, Idle, NoHouse, HouseRow,
   RequestState, Steps

-----------------------------------------------------------------------------
(* What the three ways a request moves on do to it and to the others.       *)
LEMMA Moves ==
    ASSUME Types, NEW r \in Requests, NEW pc \in Steps, Goto(r, pc)
    PROVE  /\ req' \in [Requests -> RequestState]
           /\ req'[r] = [req[r] EXCEPT !.pc = pc]
           /\ req'[r].pc = pc /\ req'[r].op = req[r].op
           /\ req'[r].user = req[r].user /\ req'[r].house = req[r].house
           /\ \A s \in Requests : s # r => req'[s] = req[s]
BY DEF Types, Goto, RequestState

LEMMA Answers ==
    ASSUME Types, NEW r \in Requests, NEW h \in Houses, AnswerWith(r, h)
    PROVE  /\ req' \in [Requests -> RequestState]
           /\ req'[r].pc = "answer" /\ req'[r].op = req[r].op
           /\ req'[r].user = req[r].user /\ req'[r].house = h
           /\ \A s \in Requests : s # r => req'[s] = req[s]
BY DEF Types, AnswerWith, RequestState, Steps

LEMMA Ends ==
    ASSUME Types, NEW r \in Requests, End(r)
    PROVE  /\ req' \in [Requests -> RequestState]
           /\ req'[r] = Idle
           /\ \A s \in Requests : s # r => req'[s] = req[s]
BY DEF Types, End, Idle, RequestState, Steps

(* A step that touches one request only, and what it owes the invariant.    *)
LEMMA RequestAlone ==
    ASSUME HouseholdInv, NEW r \in Requests,
           UNCHANGED <<home, house, known, made, kept>>,
           req' \in [Requests -> RequestState],
           \A s \in Requests : s # r => req'[s] = req[s],
           IF InFlight(r)' \/ Acting(r)' \/ req'[r].pc = "answer"
           THEN req'[r].house \in Houses /\ house[req'[r].house].there
           ELSE req'[r].house = None,
           req'[r].pc # "idle" => req'[r].user \in Users,
           req'[r].pc \in {"find", "findAgain"} => req'[r].op = "createPersonal",
           IF InFlight(r)
           THEN InFlight(r)' /\ req'[r].house = req[r].house
           ELSE ~InFlight(r)'
                /\ \A s \in Requests : InFlight(s) => req'[r].house # req[s].house,
           req'[r].pc = "act" /\ req'[r].op = "rename" /\ house[req'[r].house].personal =>
               house[req'[r].house].owner = req'[r].user,
           ~Told(r)'
    PROVE  HouseholdInv'
<1>1. Types' /\ Callers'
  BY DEF HouseholdInv, Types, Callers
<1>2. Ids'
  BY DEF HouseholdInv, Ids, InFlight, Acting
<1>3. Creation'
  BY DEF HouseholdInv, Creation, InFlight, Empty
<1>4. Memory'
  BY DEF HouseholdInv, Memory, Acting, Empty
<1>5. Telling'
  BY DEF HouseholdInv, Telling, Told
<1>6. Privacy' /\ Staying'
  BY DEF HouseholdInv, Privacy, Staying, InFlight, Empty
<1> QED
  BY <1>1, <1>2, <1>3, <1>4, <1>5, <1>6 DEF HouseholdInv

(* A household that is in use or looked at is not one being created.        *)
LEMMA NotInCreation ==
    ASSUME HouseholdInv, NEW h \in Houses, ~Empty(h) \/ house[h].personal,
           NEW s \in Requests, InFlight(s)
    PROVE  h # req[s].house
BY DEF HouseholdInv, Creation

(* A request without a household that goes on without one.                  *)
LEMMA RequestGoesOn ==
    ASSUME HouseholdInv, NEW r \in Requests, NEW pc \in {"insert", "findAgain"},
           req[r].pc \in {"find", "findAgain", "insert"}, req[r].op = "createPersonal",
           Goto(r, pc), UNCHANGED <<home, house, known, made, kept>>
    PROVE  HouseholdInv'
<1>1. Types /\ pc \in Steps
  BY DEF HouseholdInv, Steps
<1>2. /\ req' \in [Requests -> RequestState]
      /\ req'[r].pc = pc /\ req'[r].op = req[r].op
      /\ req'[r].user = req[r].user /\ req'[r].house = req[r].house
      /\ \A s \in Requests : s # r => req'[s] = req[s]
  BY <1>1, Moves
<1>3. /\ req[r].user \in Users /\ req[r].house = None
      /\ \A s \in Requests : InFlight(s) => req[s].house # None
  BY HouseholdAssumption DEF HouseholdInv, Callers, Ids, InFlight, Acting
<1>4. ~InFlight(r) /\ ~InFlight(r)' /\ ~Acting(r)' /\ ~Told(r)'
  BY <1>2 DEF InFlight, Acting, Told
<1> QED
  BY <1>2, <1>3, <1>4, RequestAlone

(* A request that ends, unless it leaves a new household behind.            *)
LEMMA RequestEnds ==
    ASSUME HouseholdInv, NEW r \in Requests, ~InFlight(r),
           End(r), UNCHANGED <<home, house, known, made, kept>>
    PROVE  HouseholdInv'
<1>1. /\ req' \in [Requests -> RequestState]
      /\ req'[r] = Idle
      /\ \A s \in Requests : s # r => req'[s] = req[s]
  BY Ends DEF HouseholdInv
<1>2. \A s \in Requests : InFlight(s) => req[s].house # None
  BY HouseholdAssumption DEF HouseholdInv, Ids
<1>3. /\ req'[r].pc = "idle" /\ req'[r].house = None
      /\ ~InFlight(r)' /\ ~Acting(r)' /\ ~Told(r)'
  BY <1>1 DEF Idle, InFlight, Acting, Told
<1> QED
  BY <1>1, <1>2, <1>3, RequestAlone

-----------------------------------------------------------------------------
LEMMA BeginCreateKeeps ==
    ASSUME HouseholdInv, NEW r \in Requests, BeginCreate(r)
    PROVE  HouseholdInv'
<1>1. PICK u \in Users, op \in {"create", "createPersonal"} :
          /\ req[r].pc = "idle"
          /\ req' = [req EXCEPT ![r] =
                        [pc |-> IF op = "create" THEN "insert" ELSE "find",
                         op |-> op, user |-> u, house |-> None]]
  BY DEF BeginCreate
<1>2. UNCHANGED <<home, house, known, made, kept>>
  BY DEF BeginCreate
<1>3. /\ req' \in [Requests -> RequestState]
      /\ \A s \in Requests : s # r => req'[s] = req[s]
  BY <1>1 DEF HouseholdInv, Types, RequestState, Steps
<1>4. /\ req'[r] = [pc |-> IF op = "create" THEN "insert" ELSE "find",
                    op |-> op, user |-> u, house |-> None]
      /\ \A s \in Requests : InFlight(s) => req[s].house \in Houses
  BY <1>1 DEF HouseholdInv, Types, Ids
<1> QED
  BY <1>1, <1>2, <1>3, <1>4, RequestAlone, HouseholdAssumption DEF InFlight, Acting, Told

LEMMA FindPersonalKeeps ==
    ASSUME HouseholdInv, NEW r \in Requests, FindPersonal(r) \/ FindPersonalAgain(r)
    PROVE  HouseholdInv'
<1>1. /\ UNCHANGED <<home, house, known, made, kept>>
      /\ req[r].pc \in {"find", "findAgain"} /\ req[r].op = "createPersonal"
      /\ req[r].user \in Users /\ req[r].house = None
      /\ \A s \in Requests : InFlight(s) => req[s].house \in Houses
  BY DEF FindPersonal, FindPersonalAgain, HouseholdInv, Callers, Ids, InFlight, Acting
<1>2. Types
  BY DEF HouseholdInv
<1>3. ASSUME NEW h \in PersonalOf(req[r].user), AnswerWith(r, h) PROVE HouseholdInv'
  <2>1. h \in Houses /\ house[h].there /\ house[h].personal
    BY DEF PersonalOf
  <2>2. \A s \in Requests : InFlight(s) => h # req[s].house
    BY <2>1, NotInCreation
  <2>3. /\ req' \in [Requests -> RequestState]
        /\ req'[r].pc = "answer" /\ req'[r].op = "createPersonal"
        /\ req'[r].user = req[r].user /\ req'[r].house = h
        /\ \A s \in Requests : s # r => req'[s] = req[s]
    BY <1>1, <1>2, <1>3, <2>1, Answers
  <2>4. ~InFlight(r) /\ ~InFlight(r)' /\ ~Acting(r)' /\ ~Told(r)'
    BY <1>1, <2>3 DEF InFlight, Acting, Told
  <2> QED
    BY <1>1, <2>1, <2>2, <2>3, <2>4, RequestAlone
<1>4. ASSUME Goto(r, "insert") PROVE HouseholdInv'
  BY <1>1, <1>4, RequestGoesOn
<1>5. ASSUME End(r) PROVE HouseholdInv'
  BY <1>1, <1>5, RequestEnds DEF InFlight
<1> QED
  BY <1>3, <1>4, <1>5 DEF FindPersonal, FindPersonalAgain

LEMMA InsertJoinableKeeps ==
    ASSUME HouseholdInv, NEW r \in Requests, InsertJoinable(r)
    PROVE  HouseholdInv'
<1>0. Types /\ Ids /\ Creation
  BY DEF HouseholdInv
<1>1. PICK h \in Houses :
          /\ ~house[h].used
          /\ req[r].pc = "insert" /\ req[r].op = "create"
          /\ house' = [house EXCEPT ![h] = NewRow(req[r].user, FALSE)]
          /\ req' = [req EXCEPT ![r].pc = "addMember", ![r].house = h]
          /\ UNCHANGED <<home, known, made, kept>>
  BY DEF InsertJoinable, NewIds
<1>2. /\ NewRow(req[r].user, FALSE) \in HouseRow
      /\ NewRow(req[r].user, FALSE).there /\ NewRow(req[r].user, FALSE).used
      /\ ~NewRow(req[r].user, FALSE).personal
  BY <1>0 DEF Types, RequestState, NewRow, HouseRow
<1>3. /\ house' \in [Houses -> HouseRow]
      /\ house'[h].there /\ house'[h].used /\ ~house'[h].personal
      /\ \A g \in Houses : g # h => house'[g] = house[g]
  BY <1>0, <1>1, <1>2 DEF Types
<1>4. /\ req' \in [Requests -> RequestState]
      /\ req'[r].pc = "addMember" /\ req'[r].op = "create"
      /\ req'[r].user = req[r].user /\ req'[r].house = h
      /\ \A s \in Requests : s # r => req'[s] = req[s]
  BY <1>0, <1>1 DEF Types, RequestState, Steps
<1>5. /\ Empty(h) /\ h \notin known /\ ~house[h].there
      /\ \A s \in Requests : req[s].house # h
  BY <1>0, <1>1, HouseholdAssumption DEF Ids, Types, Empty
<1>6. Types' /\ Callers'
  BY <1>1, <1>3, <1>4 DEF HouseholdInv, Types, Callers
<1>7. Ids'
  <2>1. \A u \in Users : home[u] # None => home[u] \in Houses
    BY <1>0 DEF Types
  <2>2. /\ \A g \in Houses : house'[g].there => house'[g].used
        /\ \A g \in known' : house'[g].used
        /\ \A u \in Users : home'[u] # None => house'[home'[u]].there
    BY <1>0, <1>1, <1>3, <2>1 DEF Ids, Types
  <2>3. \A s \in Requests :
            IF InFlight(s)' \/ Acting(s)' \/ req'[s].pc = "answer"
            THEN req'[s].house \in Houses /\ house'[req'[s].house].there
            ELSE req'[s].house = None
    BY <1>0, <1>3, <1>4 DEF Ids, InFlight, Acting
  <2> QED
    BY <2>2, <2>3 DEF Ids
<1>8. Creation'
  BY HouseholdAssumption
  DEF HouseholdInv, Creation, InFlight, Empty, InsertJoinable, NewIds, NewRow, Types, Ids, Acting
<1>9. Memory'
  <2> SUFFICES ASSUME NEW s \in Requests, Acting(s)'
               PROVE  req'[s].pc = "act" /\ req'[s].op = "rename"
                            /\ house'[req'[s].house].personal =>
                         house'[req'[s].house].owner = req'[s].user
    BY DEF Memory, Acting
  <2>1. s # r /\ req'[s] = req[s] /\ Acting(s)
    BY <1>4 DEF Acting
  <2>2. req[s].house \in Houses /\ req[s].house # h
    BY <1>0, <1>5, <2>1 DEF Ids
  <2>3. house'[req[s].house] = house[req[s].house]
    BY <1>3, <2>2
  <2> QED
    BY <2>1, <2>3 DEF HouseholdInv, Memory
<1>10. Telling'
  BY <1>1, <1>4 DEF HouseholdInv, Telling, Told
<1>11. Privacy'
  BY <1>1, <1>3 DEF HouseholdInv, Privacy
<1>12. Staying'
  BY <1>0 DEF HouseholdInv, Types, Staying, InFlight, Empty, InsertJoinable, NewIds, NewRow
<1> QED
  BY <1>6, <1>7, <1>8, <1>9, <1>10, <1>11, <1>12 DEF HouseholdInv

LEMMA InsertRefusedKeeps ==
    ASSUME HouseholdInv, NEW r \in Requests, InsertPersonalRefused(r)
    PROVE  HouseholdInv'
BY RequestGoesOn DEF InsertPersonalRefused


LEMMA InsertPersonalKeeps ==
    ASSUME HouseholdInv, NEW r \in Requests, InsertPersonal(r)
    PROVE  HouseholdInv'
<1> DEFINE u == req[r].user
<1>0. Types /\ Ids
  BY DEF HouseholdInv
<1>1. PICK h \in Houses :
          /\ ~house[h].used
          /\ req[r].pc = "insert" /\ req[r].op = "createPersonal"
          /\ house' = [house EXCEPT ![h] = NewRow(u, TRUE)]
          /\ home' = IF home[u] = None THEN [home EXCEPT ![u] = h] ELSE home
          /\ kept' = kept \cup {h}
          /\ AnswerWith(r, h)
          /\ UNCHANGED <<known, made>>
  BY DEF InsertPersonal, NewIds
<1>2. u \in Users
  BY <1>1 DEF HouseholdInv, Callers
<1>3. /\ house' \in [Houses -> HouseRow]
      /\ house'[h].there /\ house'[h].used /\ house'[h].personal
      /\ house'[h].owner = u /\ house'[h].name = u
      /\ \A g \in Houses : g # h => house'[g] = house[g]
  BY <1>0, <1>1, <1>2 DEF Types, NewRow, HouseRow
<1>4. /\ home' \in [Users -> Houses \cup {None}]
      /\ \A v \in Users : home'[v] = home[v] \/ (home[v] = None /\ v = u /\ home'[v] = h)
      /\ home'[u] # None
  <2>1. h # None
    BY HouseholdAssumption
  <2>2. CASE home[u] = None
    BY <1>0, <1>1, <1>2, <2>1, <2>2 DEF Types
  <2>3. CASE home[u] # None
    BY <1>0, <1>1, <1>2, <2>3 DEF Types
  <2> QED
    BY <2>2, <2>3
<1>5. /\ req' \in [Requests -> RequestState]
      /\ req'[r].pc = "answer" /\ req'[r].op = "createPersonal"
      /\ req'[r].user = u /\ req'[r].house = h
      /\ \A s \in Requests : s # r => req'[s] = req[s]
  BY <1>0, <1>1, Answers
<1>6. /\ Empty(h) /\ h \notin known /\ ~house[h].there
      /\ \A s \in Requests : req[s].house # h
  BY <1>0, <1>1, HouseholdAssumption DEF Ids, Types, Empty
<1>7. /\ \A v \in Users : home[v] # None => home[v] \in Houses /\ home[v] # h
       /\ \A s \in Requests : InFlight(s) \/ Acting(s) => req[s].house \in Houses
       /\ h # None
  <2>1. h # None /\ \A v \in Users : home[v] # None => home[v] \in Houses /\ home[v] # h
    BY <1>0, <1>6, HouseholdAssumption DEF Types, Empty
  <2>2. \A s \in Requests : InFlight(s) \/ Acting(s) => req[s].house \in Houses
    BY <1>0 DEF Ids
  <2> QED
    BY <2>1, <2>2
<1>8. Types' /\ Callers'
  <2>1. Types'
    BY <1>0, <1>1, <1>3, <1>4, <1>5 DEF Types
  <2>2. Callers'
    BY <1>2, <1>5 DEF HouseholdInv, Callers
  <2> QED
    BY <2>1, <2>2
<1>9. Ids'
  <2>1. /\ \A g \in Houses : house'[g].there => house'[g].used
        /\ \A g \in known' : house'[g].used
    BY <1>0, <1>1, <1>3 DEF Ids, Types
  <2>2. \A v \in Users : home'[v] # None => house'[home'[v]].there
    BY <1>0, <1>3, <1>4, <1>6, <1>7 DEF Ids
  <2>3. \A s \in Requests :
            IF InFlight(s)' \/ Acting(s)' \/ req'[s].pc = "answer"
            THEN req'[s].house \in Houses /\ house'[req'[s].house].there
            ELSE req'[s].house = None
    BY <1>0, <1>3, <1>5 DEF Ids, InFlight, Acting
  <2> QED
    BY <2>1, <2>2, <2>3 DEF Ids
<1>10. Creation'
  <2> SUFFICES ASSUME NEW s \in Requests, InFlight(s)'
               PROVE  /\ ~house'[req'[s].house].personal
                      /\ Empty(req[s].house)'
                      /\ req'[s].house \notin known'
                      /\ \A t \in Requests : t # s => req'[t].house # req'[s].house
    BY DEF Creation
  <2>1. s # r /\ req'[s] = req[s] /\ InFlight(s)
    BY <1>5 DEF InFlight
  <2>2. req[s].house \in Houses /\ req[s].house # h
    <3>1. req[s].house # h
      BY <1>6
    <3>2. req[s].house \in Houses
      BY <1>0, <2>1 DEF Ids
    <3> QED
      BY <3>1, <3>2
  <2>3. /\ ~house[req[s].house].personal /\ Empty(req[s].house) /\ req[s].house \notin known
        /\ \A t \in Requests : t # s => req[t].house # req[s].house
    BY <2>1 DEF HouseholdInv, Creation
  <2> QED
    BY <1>1, <1>3, <1>4, <1>5, <2>1, <2>2, <2>3 DEF Empty
<1>11. Memory'
  <2> SUFFICES ASSUME NEW s \in Requests, Acting(s)'
               PROVE  req'[s].pc = "act" /\ req'[s].op = "rename"
                            /\ house'[req'[s].house].personal =>
                         house'[req'[s].house].owner = req'[s].user
    BY DEF Memory, Acting
  <2>1. s # r /\ req'[s] = req[s] /\ Acting(s)
    BY <1>5 DEF Acting
  <2>2. req[s].house \in Houses /\ req[s].house # h
    <3>1. req[s].house # h
      BY <1>6
    <3>2. req[s].house \in Houses
      BY <1>0, <2>1 DEF Ids
    <3> QED
      BY <3>1, <3>2
  <2> QED
    BY <1>3, <2>1, <2>2 DEF HouseholdInv, Memory
<1>12. Telling'
  BY <1>1, <1>4, <1>5 DEF HouseholdInv, Telling, Told
<1>13. Privacy'
  BY <1>2, <1>3, <1>4, <1>6, <1>7 DEF HouseholdInv, Privacy, Empty
<1>14. Staying'
  <2> SUFFICES ASSUME NEW g \in Houses, house'[g].there
               PROVE  g \in kept' \/ \E s \in Requests : InFlight(s)' /\ req'[s].house = g
    BY DEF Staying
  <2>1. CASE g = h
    BY <1>1, <2>1
  <2>2. CASE g # h
    <3>1. house[g].there
      BY <1>3, <2>2
    <3>2. \A s \in Requests : InFlight(s) => s # r /\ req'[s] = req[s]
      BY <1>1, <1>5 DEF InFlight
    <3> QED
      BY <1>1, <3>1, <3>2 DEF HouseholdInv, Staying, InFlight
  <2> QED
    BY <2>1, <2>2
<1> QED
  BY <1>8, <1>9, <1>10, <1>11, <1>12, <1>13, <1>14 DEF HouseholdInv

LEMMA AddMemberKeeps ==
    ASSUME HouseholdInv, NEW r \in Requests, AddMember(r)
    PROVE  HouseholdInv'
<1> DEFINE u == req[r].user
           h == req[r].house
<1>0. Types /\ Ids /\ Creation
  BY DEF HouseholdInv
<1>1. req[r].pc = "addMember" /\ UNCHANGED <<house, known, made>>
  BY DEF AddMember
<1>2. u \in Users /\ h \in Houses /\ InFlight(r)
  BY <1>0, <1>1 DEF HouseholdInv, Callers, Ids, InFlight
<1>3. CASE MayBeAdded(u)
  <2>1. home' = [home EXCEPT ![u] = h] /\ kept' = kept \cup {h} /\ Goto(r, "answer")
    BY <1>3 DEF AddMember
  <2>2. /\ home' \in [Users -> Houses \cup {None}]
        /\ home'[u] = h
        /\ \A v \in Users : v # u => home'[v] = home[v]
        /\ \A v \in Users : home[v] # None => home'[v] = home[v]
    BY <1>0, <1>2, <1>3, <2>1 DEF Types, MayBeAdded
  <2>3. /\ req' \in [Requests -> RequestState]
        /\ req'[r].pc = "answer" /\ req'[r].op = req[r].op
        /\ req'[r].user = u /\ req'[r].house = h
        /\ \A s \in Requests : s # r => req'[s] = req[s]
    BY <1>0, <2>1, Moves DEF Steps
  <2>4. /\ home[u] = None /\ ~house[h].personal /\ house[h].there /\ Empty(h)
        /\ \A s \in Requests : s # r => req[s].house # h
    BY <1>0, <1>1, <1>2, <1>3 DEF MayBeAdded, Creation, Ids, InFlight
  <2>5. Types' /\ Callers'
    BY <1>0, <1>1, <1>2, <2>1, <2>2, <2>3 DEF HouseholdInv, Types, Callers
  <2>6. Ids'
    BY <1>0, <1>1, <1>2, <2>2, <2>3, <2>4 DEF Ids, InFlight, Acting
  <2>7. Creation'
    BY <1>0, <1>1, <2>2, <2>3, <2>4 DEF Creation, InFlight, Empty
  <2>8. Memory'
    BY <1>1, <2>3 DEF HouseholdInv, Memory
  <2>9. Telling'
    <3>1. made[u] = 0 /\ \A s \in Requests : Told(s) => req[s].user # u
      BY <1>2, <2>4 DEF HouseholdInv, Telling, Types
    <3>2. h # None
      BY <1>2, HouseholdAssumption
    <3>3. \A v \in Users : made'[v] <= 1 /\ (made'[v] = 1 => home'[v] # None)
      BY <1>1, <2>2, <2>4, <3>1, <3>2 DEF HouseholdInv, Telling
    <3>4. \A s \in Requests : Told(s)' =>
              made'[req'[s].user] = 0 /\ home'[req'[s].user] # None
      <4>1. \A s \in Requests : Told(s) => req[s].user \in Users
        BY DEF HouseholdInv, Callers, Told
      <4> QED
        BY <1>1, <1>2, <2>2, <2>3, <3>1, <3>2, <4>1 DEF HouseholdInv, Telling, Told
    <3>5. \A s, t \in Requests : Told(s)' /\ Told(t)' /\ req'[s].user = req'[t].user => s = t
      BY <2>3, <3>1 DEF HouseholdInv, Telling, Told
    <3> QED
      BY <3>3, <3>4, <3>5 DEF Telling
  <2>10. Privacy'
    BY <1>1, <2>2, <2>4 DEF HouseholdInv, Privacy
  <2>11. Staying'
    BY <1>1, <2>1, <2>3 DEF HouseholdInv, Staying, InFlight
  <2> QED
    BY <2>5, <2>6, <2>7, <2>8, <2>9, <2>10, <2>11 DEF HouseholdInv
<1>4. CASE ~MayBeAdded(u)
  <2>1. Goto(r, "cleanup") /\ UNCHANGED <<home, kept>>
    BY <1>4 DEF AddMember
  <2>2. /\ req' \in [Requests -> RequestState]
        /\ req'[r].pc = "cleanup" /\ req'[r].op = req[r].op
        /\ req'[r].user = u /\ req'[r].house = h
        /\ \A s \in Requests : s # r => req'[s] = req[s]
    BY <1>0, <2>1, Moves DEF Steps
  <2>3. InFlight(r)' /\ ~Acting(r)' /\ ~Told(r)' /\ house[h].there
    BY <1>0, <1>2, <2>2 DEF Ids, InFlight, Acting, Told
  <2> QED
    BY <1>1, <1>2, <2>1, <2>2, <2>3, RequestAlone
<1> QED
  BY <1>3, <1>4

LEMMA CleanupKeeps ==
    ASSUME HouseholdInv, NEW r \in Requests, Cleanup(r)
    PROVE  HouseholdInv'
<1> DEFINE h == req[r].house
<1>0. Types /\ Ids /\ Creation
  BY DEF HouseholdInv
<1>1. req[r].pc = "cleanup" /\ DeleteHouse(h) /\ End(r) /\ UNCHANGED <<known, made, kept>>
  BY DEF Cleanup
<1>2. /\ h \in Houses /\ InFlight(r) /\ Empty(h) /\ h \notin known
      /\ \A s \in Requests : s # r => req[s].house # h
  BY <1>0, <1>1 DEF Ids, Creation, InFlight
<1>3. /\ house' \in [Houses -> HouseRow]
      /\ ~house'[h].there
      /\ \A g \in Houses : g # h => house'[g] = house[g]
  BY <1>0, <1>1, <1>2 DEF Types, DeleteHouse, NoHouse, HouseRow
<1>4. home' = home
  BY <1>0, <1>1, <1>2 DEF Types, DeleteHouse, Empty
<1>5. /\ req' \in [Requests -> RequestState]
      /\ req'[r].pc = "idle" /\ req'[r].house = None
      /\ \A s \in Requests : s # r => req'[s] = req[s]
  BY <1>0, <1>1, Ends DEF Idle
<1>6. /\ \A s \in Requests : req'[s].pc # "idle" => s # r /\ req'[s] = req[s]
      /\ \A s \in Requests : InFlight(s) \/ Acting(s) => req[s].house \in Houses
  BY <1>0, <1>5 DEF Ids
<1>7. Types' /\ Callers'
  BY <1>0, <1>1, <1>3, <1>4, <1>5 DEF HouseholdInv, Types, Callers
<1>8. Ids'
  <2>1. \A v \in Users : home[v] # None => home[v] \in Houses /\ home[v] # h
    BY <1>0, <1>2 DEF Types, Empty
  <2> QED
    BY <1>0, <1>1, <1>2, <1>3, <1>4, <1>5, <2>1 DEF Ids, Types, InFlight, Acting
<1>9. Creation'
  BY <1>0, <1>1, <1>2, <1>3, <1>4, <1>5, <1>6, HouseholdAssumption
  DEF Creation, InFlight, Empty
<1>10. Memory'
  BY <1>1, <1>2, <1>3, <1>4, <1>5, <1>6 DEF HouseholdInv, Memory, Acting, Empty
<1>11. Telling'
  BY <1>1, <1>4, <1>6 DEF HouseholdInv, Telling, Told
<1>12. Privacy'
  BY <1>3, <1>4 DEF HouseholdInv, Privacy
<1>13. Staying'
  BY <1>1, <1>3, <1>4, <1>5 DEF HouseholdInv, Staying, InFlight, Empty
<1> QED
  BY <1>7, <1>8, <1>9, <1>10, <1>11, <1>12, <1>13 DEF HouseholdInv

LEMMA ReadMembershipKeeps ==
    ASSUME HouseholdInv, NEW r \in Requests, ReadMembership(r)
    PROVE  HouseholdInv'
<1>1. PICK u \in Users, op \in {"leave", "convert", "rename"} :
          /\ req[r].pc = "idle" /\ home[u] # None
          /\ req' = [req EXCEPT ![r] =
                        [pc |-> "look", op |-> op, user |-> u, house |-> home[u]]]
          /\ UNCHANGED <<home, house, known, made, kept>>
  BY DEF ReadMembership
<1>2. /\ home[u] \in Houses /\ house[home[u]].there /\ ~Empty(home[u])
      /\ \A s \in Requests : InFlight(s) => home[u] # req[s].house
  BY <1>1 DEF HouseholdInv, Types, Ids, Creation, Empty
<1>3. /\ req' \in [Requests -> RequestState]
      /\ req'[r] = [pc |-> "look", op |-> op, user |-> u, house |-> home[u]]
      /\ \A s \in Requests : s # r => req'[s] = req[s]
  BY <1>1, <1>2 DEF HouseholdInv, Types, RequestState, Steps
<1>4. ~InFlight(r) /\ ~InFlight(r)' /\ Acting(r)' /\ ~Told(r)'
  BY <1>1, <1>3 DEF InFlight, Acting, Told
<1> QED
  BY <1>1, <1>2, <1>3, <1>4, RequestAlone

LEMMA LookKeeps ==
    ASSUME HouseholdInv, NEW r \in Requests, Look(r)
    PROVE  HouseholdInv'
<1>1. /\ req[r].pc = "look" /\ UNCHANGED <<home, house, known, made, kept>>
      /\ Types /\ ~InFlight(r) /\ Acting(r)
  BY DEF Look, HouseholdInv, InFlight, Acting
<1>2. CASE End(r)
  BY <1>1, <1>2, RequestEnds
<1>3. CASE Goto(r, "act") /\ Allowed(req[r].op, req[r].user, house[req[r].house])
  <2>1. /\ req' \in [Requests -> RequestState]
        /\ req'[r].pc = "act" /\ req'[r].op = req[r].op
        /\ req'[r].user = req[r].user /\ req'[r].house = req[r].house
        /\ \A s \in Requests : s # r => req'[s] = req[s]
    BY <1>1, <1>3, Moves DEF Steps
  <2>2. req[r].house \in Houses /\ house[req[r].house].there /\ req[r].user \in Users
    BY <1>1 DEF HouseholdInv, Ids, Callers
  <2>3. \A s \in Requests : InFlight(s) => req[r].house # req[s].house
    BY <1>1 DEF HouseholdInv, Creation
  <2>4. req[r].op = "rename" /\ house[req[r].house].personal =>
            house[req[r].house].owner = req[r].user
    BY <1>3 DEF Allowed
  <2>5. ~InFlight(r)' /\ Acting(r)' /\ ~Told(r)'
    BY <2>1 DEF InFlight, Acting, Told
  <2> QED
    BY <1>1, <2>1, <2>2, <2>3, <2>4, <2>5, RequestAlone
<1> QED
  BY <1>2, <1>3 DEF Look

LEMMA LeaveRefusedKeeps ==
    ASSUME HouseholdInv, NEW r \in Requests, LeaveRefused(r)
    PROVE  HouseholdInv'
BY RequestEnds DEF LeaveRefused, InFlight

LEMMA AnswerKeeps ==
    ASSUME HouseholdInv, NEW r \in Requests, Answer(r)
    PROVE  HouseholdInv'
<1> DEFINE h == req[r].house
           u == req[r].user
<1>0. Types /\ Ids
  BY DEF HouseholdInv
<1>1. /\ req[r].pc = "answer" /\ End(r) /\ UNCHANGED <<home, house, kept>>
      /\ known' = known \cup {h}
      /\ made' = IF req[r].op = "create" THEN [made EXCEPT ![u] = @ + 1] ELSE made
  BY DEF Answer
<1>2. u \in Users /\ h \in Houses /\ house[h].there
  BY <1>0, <1>1 DEF HouseholdInv, Callers, Ids
<1>3. /\ req' \in [Requests -> RequestState]
      /\ req'[r].pc = "idle" /\ req'[r].house = None
      /\ \A s \in Requests : s # r => req'[s] = req[s]
  BY <1>0, <1>1, Ends DEF Idle
<1>4. /\ made' \in [Users -> Nat]
      /\ \A v \in Users : v # u => made'[v] = made[v]
      /\ IF Told(r) THEN made[u] = 0 /\ made'[u] = 1 /\ home[u] # None ELSE made'[u] = made[u]
  <2>1. Told(r) <=> req[r].op = "create"
    BY <1>1 DEF Told
  <2>2. CASE Told(r)
    <3>1. made[u] = 0 /\ home[u] # None
      BY <2>2 DEF HouseholdInv, Telling
    <3> QED
      BY <1>0, <1>1, <1>2, <2>1, <2>2, <3>1 DEF Types
  <2>3. CASE ~Told(r)
    BY <1>0, <1>1, <1>2, <2>1, <2>3 DEF Types
  <2> QED
    BY <2>2, <2>3
<1>5. \A s \in Requests : req'[s].pc # "idle" => s # r /\ req'[s] = req[s]
  BY <1>3
<1>6. Types' /\ Callers'
  BY <1>0, <1>1, <1>2, <1>3, <1>4 DEF HouseholdInv, Types, Callers
<1>7. Ids'
  BY <1>0, <1>1, <1>2, <1>3 DEF Ids, InFlight, Acting
<1>8. Creation'
  <2>1. \A s \in Requests : InFlight(s) => req[s].house # h /\ req[s].house # None
    BY <1>0, <1>1, HouseholdAssumption DEF HouseholdInv, Creation, Ids, InFlight
  <2> QED
    BY <1>1, <1>3, <1>5, <2>1 DEF HouseholdInv, Creation, InFlight, Empty
<1>9. Memory'
  BY <1>1, <1>3, <1>5 DEF HouseholdInv, Memory, Acting, Empty
<1>10. Telling'
  <2>1. \A v \in Users : made'[v] <= 1 /\ (made'[v] = 1 => home'[v] # None)
    BY <1>1, <1>4 DEF HouseholdInv, Telling
  <2>2. ASSUME NEW s \in Requests, Told(s)'
        PROVE  /\ s # r /\ req'[s] = req[s]
               /\ made'[req'[s].user] = 0 /\ home'[req'[s].user] # None
    <3>1. s # r /\ req'[s] = req[s] /\ Told(s)
      BY <1>3, <2>2 DEF Told
    <3>2. req[s].user \in Users /\ made[req[s].user] = 0 /\ home[req[s].user] # None
      BY <3>1 DEF HouseholdInv, Callers, Telling, Told
    <3>3. Told(r) => req[s].user # u
      BY <3>1 DEF HouseholdInv, Telling
    <3> QED
      BY <1>1, <1>4, <3>1, <3>2, <3>3
  <2>3. \A s \in Requests : Told(s)' => req'[s] = req[s] /\ Told(s)
    BY <1>3 DEF Told
  <2> QED
    BY <2>1, <2>2, <2>3 DEF HouseholdInv, Telling
<1>11. Privacy'
  BY <1>1 DEF HouseholdInv, Privacy
<1>12. Staying'
  BY <1>1, <1>3 DEF HouseholdInv, Staying, InFlight, Empty
<1> QED
  BY <1>6, <1>7, <1>8, <1>9, <1>10, <1>11, <1>12 DEF HouseholdInv

LEMMA LeaveKeeps ==
    ASSUME HouseholdInv, NEW r \in Requests, Leave(r)
    PROVE  HouseholdInv'
<1> DEFINE u == req[r].user
           old == home[u]
<1>0. Types /\ Ids
  BY DEF HouseholdInv
<1>1. req[r].pc = "act" /\ CanLeave(u) /\ End(r) /\ UNCHANGED <<known, made>>
  BY DEF Leave
<1>2. /\ u \in Users /\ old \in Houses /\ house[old].there /\ ~house[old].personal
  BY <1>0, <1>1 DEF HouseholdInv, Callers, Ids, Types, CanLeave
<1>3. /\ req' \in [Requests -> RequestState]
      /\ req'[r].pc = "idle" /\ req'[r].house = None
      /\ \A s \in Requests : s # r => req'[s] = req[s]
  BY <1>0, <1>1, Ends DEF Idle
<1>4. PICK h \in Houses :
          /\ home' = [home EXCEPT ![u] = h]
          /\ \/ h \in PersonalOf(u) /\ UNCHANGED <<house, kept>>
             \/ /\ ~house[h].used /\ house' = [house EXCEPT ![h] = NewRow(u, TRUE)]
                /\ kept' = kept \cup {h}
  BY DEF Leave, PersonalOf, NewIds
<1>5. /\ house' \in [Houses -> HouseRow]
      /\ house'[h].there /\ house'[h].used /\ house'[h].personal
      /\ house'[h].owner = u /\ house'[h].name = u
      /\ \A g \in Houses : g # h => house'[g] = house[g]
      /\ \A g \in Houses : house[g].there => house'[g] = house[g]
      /\ \A g \in Houses : house[g].used => house'[g].used
  <2>1. CASE h \in PersonalOf(u) /\ UNCHANGED house
    BY <1>0, <2>1 DEF Ids, Types, PersonalOf, HouseholdInv, Privacy
  <2>2. CASE ~house[h].used /\ house' = [house EXCEPT ![h] = NewRow(u, TRUE)]
    BY <1>0, <1>2, <2>2 DEF Ids, Types, NewRow, HouseRow
  <2> QED
    BY <1>4, <2>1, <2>2
<1>6. /\ home' \in [Users -> Houses \cup {None}]
      /\ home'[u] = h
      /\ \A v \in Users : v # u => home'[v] = home[v]
  BY <1>0, <1>2, <1>4 DEF Types
<1>7. h # old /\ h # None /\ \A v \in Users : home[v] # None => home'[v] # None
  BY <1>2, <1>4, <1>6, <1>5, HouseholdAssumption
<1>8. /\ \A s \in Requests : req'[s].pc # "idle" => s # r /\ req'[s] = req[s]
      /\ \A s \in Requests : InFlight(s) \/ Acting(s) => req[s].house \in Houses
      /\ \A s \in Requests : InFlight(s) => req[s].house # h
  <2>1. \A s \in Requests : InFlight(s) \/ Acting(s) =>
            req[s].house \in Houses /\ house[req[s].house].there
    BY <1>0 DEF Ids
  <2>2. \A s \in Requests : InFlight(s) => ~house[req[s].house].personal
    BY DEF HouseholdInv, Creation
  <2> QED
    BY <1>3, <1>5, <2>1, <2>2
<1>9. Types' /\ Callers'
  <2>1. Types'
    BY <1>0, <1>1, <1>2, <1>3, <1>4, <1>5, <1>6 DEF Types
  <2>2. Callers'
    BY <1>3 DEF HouseholdInv, Callers
  <2> QED
    BY <2>1, <2>2
<1>10. Ids'
  <2>1. /\ \A g \in Houses : house'[g].there => house'[g].used
        /\ \A g \in known' : house'[g].used
    BY <1>0, <1>1, <1>5 DEF Ids, Types
  <2>2. \A v \in Users : home'[v] # None => house'[home'[v]].there
    BY <1>0, <1>5, <1>6 DEF Ids, Types
  <2>3. \A s \in Requests :
            IF InFlight(s)' \/ Acting(s)' \/ req'[s].pc = "answer"
            THEN req'[s].house \in Houses /\ house'[req'[s].house].there
            ELSE req'[s].house = None
    BY <1>0, <1>3, <1>5 DEF Ids, InFlight, Acting
  <2> QED
    BY <2>1, <2>2, <2>3 DEF Ids
<1>11. Creation'
  <2> SUFFICES ASSUME NEW s \in Requests, InFlight(s)'
               PROVE  /\ ~house'[req'[s].house].personal
                      /\ Empty(req[s].house)'
                      /\ req'[s].house = req[s].house
                      /\ req'[s].house \notin known'
                      /\ \A t \in Requests : t # s => req'[t].house # req'[s].house
    BY DEF Creation, Empty
  <2>1. /\ s # r /\ req'[s] = req[s] /\ InFlight(s)
        /\ req[s].house \in Houses /\ req[s].house # h
    BY <1>8 DEF InFlight
  <2>2. /\ ~house[req[s].house].personal /\ Empty(req[s].house) /\ req[s].house \notin known
        /\ \A t \in Requests : t # s => req[t].house # req[s].house
    BY <2>1 DEF HouseholdInv, Creation
  <2>3. Empty(req[s].house)'
    BY <1>6, <2>1, <2>2 DEF Empty
  <2> QED
    BY <1>1, <1>3, <1>5, <2>1, <2>2, <2>3, HouseholdAssumption
<1>12. Memory'
  <2> SUFFICES ASSUME NEW s \in Requests, Acting(s)'
               PROVE  /\ req'[s].house = req[s].house
                      /\ req'[s].pc = "act" /\ req'[s].op = "rename"
                            /\ house'[req'[s].house].personal =>
                         house'[req'[s].house].owner = req'[s].user
    BY DEF Memory, Acting
  <2>1. s # r /\ req'[s] = req[s] /\ Acting(s) /\ req[s].house \in Houses
    BY <1>8 DEF Acting
  <2>2. house'[req[s].house] = house[req[s].house]
    BY <1>0, <1>5, <2>1 DEF Ids
  <2> QED
    BY <2>1, <2>2 DEF HouseholdInv, Memory
<1>13. Telling'
  <2>1. \A s \in Requests : Told(s) => req[s].user \in Users
    BY DEF HouseholdInv, Callers, Told
  <2> QED
    BY <1>1, <1>7, <1>3, <2>1 DEF HouseholdInv, Telling, Told
<1>14. Privacy'
  <2> SUFFICES ASSUME NEW g \in Houses, house'[g].there /\ house'[g].personal
               PROVE  /\ house'[g].owner \in Users
                      /\ house'[g].name = house'[g].owner
                      /\ \A v \in Users : home'[v] = g => v = house'[g].owner
    BY DEF Privacy
  <2>1. CASE g # h
    BY <1>5, <1>6, <2>1 DEF HouseholdInv, Privacy
  <2>2. CASE g = h
    <3>1. ASSUME NEW v \in Users, v # u, home[v] = h PROVE FALSE
      <4>1. house[h].there
        BY <1>0, <3>1, HouseholdAssumption DEF Ids
      <4>2. house[h].personal /\ house[h].owner = u
        BY <1>5, <4>1
      <4> QED
        BY <3>1, <4>1, <4>2 DEF HouseholdInv, Privacy
    <3> QED
      BY <1>2, <1>5, <1>6, <2>2, <3>1
  <2> QED
    BY <2>1, <2>2
<1>15. Staying'
  <2>1. \A g \in Houses : house'[g].there => house[g].there \/ g \in kept'
    BY <1>4, <1>5
  <2>2. \A s \in Requests : InFlight(s) => s # r /\ req'[s] = req[s]
    BY <1>1, <1>3 DEF InFlight
  <2>3. \A g \in kept : g \in kept'
    BY <1>4
  <2> QED
    BY <2>1, <2>2, <2>3 DEF HouseholdInv, Staying, InFlight
<1> QED
  BY <1>9, <1>10, <1>11, <1>12, <1>13, <1>14, <1>15 DEF HouseholdInv

(* Convert and Rename rewrite one row that is there and answer its code.    *)
LEMMA RewriteKeeps ==
    ASSUME HouseholdInv, NEW r \in Requests, Convert(r) \/ Rename(r)
    PROVE  HouseholdInv'
<1> DEFINE h == req[r].house
<1>0. Types /\ Ids
  BY DEF HouseholdInv
<1>1. /\ req[r].pc = "act" /\ req[r].op \in {"convert", "rename"} /\ house[h].there
      /\ Goto(r, "answer")
      /\ UNCHANGED <<home, known, made, kept>>
  BY DEF Convert, Rename
<1>2. h \in Houses /\ req[r].user \in Users
  BY <1>0, <1>1 DEF HouseholdInv, Ids, Callers, Acting
<1>3. /\ house' \in [Houses -> HouseRow]
      /\ house'[h].there /\ house'[h].used
      /\ house'[h].owner = house[h].owner
      /\ house'[h].personal =>
            house[h].personal /\ req[r].op = "rename" /\ house'[h].name = req[r].user
      /\ \A g \in Houses : g # h => house'[g] = house[g]
  <2>1. house[h] \in HouseRow /\ house[h].there /\ house[h].used
    BY <1>0, <1>1, <1>2 DEF Types, Ids
  <2>2. CASE Convert(r)
    <3>1. PICK named \in BOOLEAN :
              house' = [house EXCEPT ![h].personal = FALSE,
                                     ![h].name = IF named THEN req[r].user ELSE @]
      BY <2>2 DEF Convert
    <3> QED
      BY <1>0, <1>2, <2>1, <3>1 DEF Types, HouseRow
  <2>3. CASE Rename(r)
    BY <1>0, <1>2, <2>1, <2>3 DEF Types, HouseRow, Rename
  <2> QED
    BY <2>2, <2>3
<1>4. /\ req' \in [Requests -> RequestState]
      /\ req'[r].pc = "answer" /\ req'[r].op = req[r].op
      /\ req'[r].user = req[r].user /\ req'[r].house = h
      /\ \A s \in Requests : s # r => req'[s] = req[s]
  BY <1>0, <1>1, Moves DEF Steps
<1>5. \A s \in Requests : InFlight(s) => s # r /\ req[s].house # h /\ req'[s] = req[s]
  BY <1>1, <1>4 DEF HouseholdInv, Creation, InFlight
<1>6. \A s \in Requests : InFlight(s) \/ Acting(s) => req[s].house \in Houses
  BY <1>0 DEF Ids
<1>7. Types' /\ Callers'
  BY <1>0, <1>1, <1>2, <1>3, <1>4 DEF HouseholdInv, Types, Callers
<1>8. Ids'
  <2>1. /\ \A g \in Houses : house'[g].there => house'[g].used
        /\ \A g \in known' : house'[g].used
        /\ \A g \in Houses : house[g].there => house'[g].there
    BY <1>0, <1>1, <1>3 DEF Ids, Types
  <2>2. \A v \in Users : home'[v] # None => house'[home'[v]].there
    BY <1>0, <1>1, <2>1 DEF Ids, Types
  <2>3. \A s \in Requests :
            IF InFlight(s)' \/ Acting(s)' \/ req'[s].pc = "answer"
            THEN req'[s].house \in Houses /\ house'[req'[s].house].there
            ELSE req'[s].house = None
    BY <1>0, <1>1, <1>2, <1>4, <2>1 DEF Ids, InFlight, Acting
  <2> QED
    BY <2>1, <2>2, <2>3 DEF Ids
<1>9. Creation'
  BY <1>1, <1>3, <1>4, <1>5, <1>6 DEF HouseholdInv, Creation, InFlight, Empty
<1>10. Memory'
  BY <1>1, <1>3, <1>4, <1>6 DEF HouseholdInv, Memory, Acting, Empty
<1>11. Telling'
  BY <1>1, <1>4 DEF HouseholdInv, Telling, Told
<1>12. Privacy'
  <2>1. house'[h].personal => house[h].owner = req[r].user
    BY <1>1, <1>3 DEF HouseholdInv, Memory, Acting
  <2> QED
    BY <1>1, <1>2, <1>3, <2>1 DEF HouseholdInv, Privacy
<1>13. Staying'
  <2>1. \A g \in Houses : house'[g].there => house[g].there
    BY <1>1, <1>3
  <2> QED
    BY <1>1, <1>5, <2>1 DEF HouseholdInv, Staying, InFlight
<1> QED
  BY <1>7, <1>8, <1>9, <1>10, <1>11, <1>12, <1>13 DEF HouseholdInv

LEMMA AbortKeeps ==
    ASSUME HouseholdInv, NEW r \in Requests, Abort(r)
    PROVE  HouseholdInv'
<1> DEFINE h == req[r].house
<1>0. Types /\ Ids
  BY DEF HouseholdInv
<1>1. CASE ~InFlight(r)
  BY <1>1, RequestEnds DEF Abort, InFlight
<1>2. CASE InFlight(r)
  <2>1. /\ End(r) /\ UNCHANGED <<home, house, known, made>>
        /\ kept' = kept \cup {h} /\ h \in Houses
    BY <1>0, <1>2 DEF Abort, InFlight, Ids
  <2>2. /\ req' \in [Requests -> RequestState]
        /\ req'[r].pc = "idle" /\ req'[r].house = None
        /\ \A s \in Requests : s # r => req'[s] = req[s]
    BY <1>0, <2>1, Ends DEF Idle
  <2>3. /\ \A s \in Requests : req'[s].pc # "idle" => s # r /\ req'[s] = req[s]
        /\ \A s \in Requests : InFlight(s) => req[s].house # None
    BY <1>0, <2>2, HouseholdAssumption DEF Ids
  <2>4. Types' /\ Callers'
    BY <1>0, <2>1, <2>2 DEF HouseholdInv, Types, Callers
  <2>5. Ids'
    BY <1>0, <2>1, <2>2 DEF Ids, InFlight, Acting
  <2>6. Creation'
    BY <2>1, <2>2, <2>3 DEF HouseholdInv, Creation, InFlight, Empty
  <2>7. Memory' /\ Telling'
    BY <2>1, <2>3 DEF HouseholdInv, Memory, Telling, Acting, Told, Empty
  <2>8. Privacy' /\ Staying'
    BY <2>1, <2>2 DEF HouseholdInv, Privacy, Staying, InFlight, Empty
  <2> QED
    BY <2>4, <2>5, <2>6, <2>7, <2>8 DEF HouseholdInv
<1> QED
  BY <1>1, <1>2

LEMMA JoinKeeps ==
    ASSUME HouseholdInv, NEW u \in Users, Join(u)
    PROVE  HouseholdInv'
<1>0. Types /\ Ids
  BY DEF HouseholdInv
<1>1. PICK h \in known :
          /\ house[h].there /\ ~house[h].personal
          /\ home' = [home EXCEPT ![u] = h]
          /\ UNCHANGED <<house, req, known, made, kept>>
  BY DEF Join
<1>2. /\ home' \in [Users -> Houses \cup {None}]
      /\ home'[u] = h /\ h \in Houses /\ h # None
      /\ \A v \in Users : v # u => home'[v] = home[v]
  BY <1>0, <1>1, HouseholdAssumption DEF Types
<1>3. Types' /\ Callers'
  BY <1>0, <1>1, <1>2 DEF HouseholdInv, Types, Callers
<1>4. Ids'
  BY <1>0, <1>1, <1>2 DEF Ids, InFlight, Acting
<1>5. Creation'
  BY <1>1, <1>2 DEF HouseholdInv, Creation, InFlight, Empty
<1>6. Memory'
  BY <1>1 DEF HouseholdInv, Memory
<1>7. Telling'
  BY <1>1, <1>2 DEF HouseholdInv, Telling, Told
<1>8. Privacy'
  BY <1>1, <1>2 DEF HouseholdInv, Privacy
<1>9. Staying'
  BY <1>1 DEF HouseholdInv, Staying, InFlight
<1> QED
  BY <1>3, <1>4, <1>5, <1>6, <1>7, <1>8, <1>9 DEF HouseholdInv

LEMMA HouseholdStep == HouseholdInv /\ [Next]_vars => HouseholdInv'
<1> SUFFICES ASSUME HouseholdInv, [Next]_vars PROVE HouseholdInv'
  OBVIOUS
<1>1. ASSUME NEW r \in Requests,
             BeginCreate(r) \/ FindPersonal(r) \/ InsertJoinable(r) \/ InsertPersonal(r)
               \/ InsertPersonalRefused(r) \/ FindPersonalAgain(r) \/ AddMember(r) \/ Cleanup(r)
      PROVE  HouseholdInv'
  BY <1>1, BeginCreateKeeps, FindPersonalKeeps, InsertJoinableKeeps, InsertPersonalKeeps,
     InsertRefusedKeeps, AddMemberKeeps, CleanupKeeps
<1>2. ASSUME NEW r \in Requests,
             ReadMembership(r) \/ Look(r) \/ Leave(r) \/ LeaveRefused(r)
               \/ Convert(r) \/ Rename(r) \/ Answer(r) \/ Abort(r)
      PROVE  HouseholdInv'
  BY <1>2, ReadMembershipKeeps, LookKeeps, LeaveKeeps, LeaveRefusedKeeps, RewriteKeeps,
     AnswerKeeps, AbortKeeps
<1>3. ASSUME NEW u \in Users, Join(u) PROVE HouseholdInv'
  BY <1>3, JoinKeeps
<1>4. CASE UNCHANGED vars
  BY <1>4 DEF vars, HouseholdInv, Types, Ids, Callers, Creation, Memory, Telling, Privacy,
     Staying, InFlight, Acting, Told, Empty
<1> QED
  BY <1>1, <1>2, <1>3, <1>4 DEF Next

-----------------------------------------------------------------------------
(* The invariant holds in every state: what each request counts on between  *)
(* two of its calls stays true whatever the other requests do.              *)
THEOREM HouseholdsInvariant == Spec => []HouseholdInv
BY HouseholdsInitial, HouseholdStep, PTL DEF Spec

(* Every state is well formed: a membership and a request under way name a  *)
(* household whose row is there.                                            *)
THEOREM HouseholdTypes == Spec => []TypeOK
<1>1. HouseholdInv => TypeOK
  BY DEF HouseholdInv, Types, Ids, TypeOK, InFlight, Acting
<1> QED
  BY <1>1, HouseholdsInvariant, PTL

(* However many create requests of one user overlap, one of them at most    *)
(* is answered with a joinable household.                                   *)
THEOREM CreatedAtMostOnce == Spec => []CreatedOnce
<1>1. HouseholdInv => CreatedOnce
  BY DEF HouseholdInv, Telling, CreatedOnce
<1> QED
  BY <1>1, HouseholdsInvariant, PTL

(* Nobody but its owner is ever in a personal household, and its name is    *)
(* its owner's, although leave, convert and rename act on what they read    *)
(* several calls earlier.                                                   *)
THEOREM PersonalHouseholdsArePrivate == Spec => []PersonalIsPrivate
<1>1. HouseholdInv => PersonalIsPrivate
  BY DEF HouseholdInv, Privacy, PersonalIsPrivate, Members
<1> QED
  BY <1>1, HouseholdsInvariant, PTL

(* A joinable household without members is being created, or had one, or    *)
(* its create was cut short: a refused create always takes its row away.    *)
THEOREM NoOrphansLeft == Spec => []NoOrphans
<1>1. HouseholdInv => NoOrphans
  BY DEF HouseholdInv, Staying, NoOrphans, Members, Empty, InFlight
<1> QED
  BY <1>1, HouseholdsInvariant, PTL

(* The memberships keep to Residence: a step moves one user at most, to     *)
(* another household, and takes nobody out of his own without that.         *)
THEOREM NobodyIsStranded == Spec => NobodyStranded
<1>1. Init => Homes!Init
  BY DEF Init, Homes!Init
<1>2. ASSUME HouseholdInv, [Next]_vars, home' # home
      PROVE  \E u \in Users, h \in Houses : home' = [home EXCEPT ![u] = h]
  <2>0. Types /\ Ids /\ Callers
    BY <1>2 DEF HouseholdInv
  <2>1. ASSUME NEW r \in Requests, InsertPersonal(r)
        PROVE  \E u \in Users, h \in Houses : home' = [home EXCEPT ![u] = h]
    BY <1>2, <2>0, <2>1 DEF InsertPersonal, NewIds, Callers
  <2>2. ASSUME NEW r \in Requests, AddMember(r)
        PROVE  \E u \in Users, h \in Houses : home' = [home EXCEPT ![u] = h]
    BY <1>2, <2>0, <2>2 DEF AddMember, Ids, Callers, InFlight
  <2>3. ASSUME NEW r \in Requests, Cleanup(r) PROVE FALSE
    <3>1. Empty(req[r].house)
      BY <1>2, <2>3 DEF Cleanup, HouseholdInv, Creation, InFlight
    <3> QED
      BY <1>2, <2>0, <2>3, <3>1 DEF Cleanup, DeleteHouse, Empty, Types
  <2>4. ASSUME NEW r \in Requests, Leave(r)
        PROVE  \E u \in Users, h \in Houses : home' = [home EXCEPT ![u] = h]
    BY <2>0, <2>4 DEF Leave, PersonalOf, NewIds, Callers
  <2>5. ASSUME NEW v \in Users, Join(v)
        PROVE  \E u \in Users, h \in Houses : home' = [home EXCEPT ![u] = h]
    BY <2>0, <2>5 DEF Join, Types
  <2> QED
    BY <1>2, <2>1, <2>2, <2>3, <2>4, <2>5
    DEF Next, vars, BeginCreate, FindPersonal, InsertJoinable, InsertPersonalRefused,
        FindPersonalAgain, ReadMembership, Look, LeaveRefused, Convert, Rename, Answer, Abort
<1>3. HouseholdInv /\ [Next]_vars => [\E u \in Users : Homes!Moves(u)]_home
  <2> SUFFICES ASSUME HouseholdInv, [Next]_vars, home' # home
               PROVE  \E u \in Users : Homes!Moves(u)
    OBVIOUS
  <2>1. PICK u \in Users, h \in Houses : home' = [home EXCEPT ![u] = h]
    BY <1>2
  <2>2. h # home[u]
    BY <2>1 DEF HouseholdInv, Types
  <2> QED
    BY <2>1, <2>2 DEF Homes!Moves
<1> QED
  BY <1>1, <1>3, HouseholdsInvariant, PTL DEF Spec, NobodyStranded, Homes!Spec
=============================================================================
