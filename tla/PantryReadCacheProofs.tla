----------------------- MODULE PantryReadCacheProofs -----------------------
(***************************************************************************)
(* Proofs about PantryReadCache: types, the bound on staleness and the     *)
(* visibility of a process's own writes, for any number of processes,      *)
(* requests and lists and for every TTL.                                   *)
(***************************************************************************)
EXTENDS PantryReadCache, SequenceTheorems, TLAPS

ReaderState == {IdleReader} \cup
    [pc : {"load", "store", "answer"}, proc : Procs, key : Keys,
     began : Time, value : Versions]

WriterState == {IdleWriter} \cup
    [pc : {"delete"}, proc : Procs, owner : Owners, home : Households,
     drops : SUBSET Keys] \cup
    [pc : {"invalidate"}, proc : Procs, drops : SUBSET Keys]

EntryState == {NoEntry} \cup [stored : Time, value : Versions]

LEMMA TypeOKAgain ==
    TypeOK <=> /\ now \in Time
               /\ writes \in [Keys -> Seq(Time)]
               /\ \A k \in Keys : Version(k) <= MaxWrites
               /\ cache \in [Procs -> [Keys -> EntryState]]
               /\ rd \in [Readers -> ReaderState]
               /\ wr \in [Writers -> WriterState]
               /\ unseen \in [Procs -> SUBSET Keys]
BY DEF TypeOK, EntryState, ReaderState, WriterState

LEMMA TypeOKAgainNext ==
    ASSUME now' \in Time,
           writes' \in [Keys -> Seq(Time)],
           \A k \in Keys : Version(k)' <= MaxWrites,
           cache' \in [Procs -> [Keys -> EntryState]],
           rd' \in [Readers -> ReaderState],
           wr' \in [Writers -> WriterState],
           unseen' \in [Procs -> SUBSET Keys]
    PROVE  TypeOK'
BY DEF TypeOK, EntryState, ReaderState, WriterState

LEMMA BusyReader ==
    ASSUME TypeOK, NEW r \in Readers, rd[r].pc # "idle"
    PROVE  rd[r] \in [pc : {"load", "store", "answer"}, proc : Procs, key : Keys,
                     began : Time, value : Versions]
BY TypeOKAgain DEF ReaderState, IdleReader

(* What a change does to the lists: those of S get one more version.        *)
LEMMA Changed ==
    ASSUME TypeOK, NEW S \in SUBSET Keys, Change(S)
    PROVE  /\ writes' \in [Keys -> Seq(Time)]
           /\ \A k \in Keys :
                 /\ Version(k) \in Nat
                 /\ Version(k)' <= MaxWrites
                 /\ Version(k)' = IF k \in S THEN Version(k) + 1 ELSE Version(k)
                 /\ \A n \in 1 .. Version(k) : writes'[k][n] = writes[k][n]
                 /\ k \in S => writes'[k][Version(k) + 1] = now
<1>1. now \in Time /\ writes \in [Keys -> Seq(Time)] /\ \A k \in Keys : Version(k) <= MaxWrites
  BY DEF TypeOK
<1>2. /\ \A k \in S : Version(k) < MaxWrites
      /\ writes' = [k \in Keys |-> IF k \in S THEN Append(writes[k], now) ELSE writes[k]]
  BY DEF Change
<1>3. writes' \in [Keys -> Seq(Time)]
  BY <1>1, <1>2
<1>4. ASSUME NEW k \in Keys
      PROVE  /\ Version(k) \in Nat
             /\ Version(k)' <= MaxWrites
             /\ Version(k)' = IF k \in S THEN Version(k) + 1 ELSE Version(k)
             /\ \A n \in 1 .. Version(k) : writes'[k][n] = writes[k][n]
             /\ k \in S => writes'[k][Version(k) + 1] = now
  <2>1. writes[k] \in Seq(Time) /\ Version(k) \in Nat
    BY <1>1 DEF Version
  <2>2. CASE k \in S
    <3>1. writes'[k] = Append(writes[k], now)
      BY <1>2, <2>2
    <3>2. /\ Len(Append(writes[k], now)) = Len(writes[k]) + 1
          /\ \A n \in 1 .. Len(writes[k]) : Append(writes[k], now)[n] = writes[k][n]
          /\ Append(writes[k], now)[Len(writes[k]) + 1] = now
      BY <1>1, <2>1, AppendProperties
    <3>3. Version(k) < MaxWrites /\ MaxWrites \in Nat
      BY <1>2, <2>2, CacheAssumption
    <3> QED
      BY <2>1, <2>2, <3>1, <3>2, <3>3 DEF Version
  <2>3. CASE k \notin S
    <3>1. writes'[k] = writes[k]
      BY <1>2, <2>3
    <3> QED
      BY <1>1, <2>1, <2>3, <3>1 DEF Version
  <2> QED
    BY <2>2, <2>3
<1> QED
  BY <1>3, <1>4

-----------------------------------------------------------------------------
LEMMA TypesInitial == Init => TypeOK
<1> SUFFICES ASSUME Init PROVE TypeOK
  OBVIOUS
<1>1. now \in Time
  BY CacheAssumption DEF Init, Time
<1>2. writes \in [Keys -> Seq(Time)] /\ \A k \in Keys : Version(k) <= MaxWrites
  BY CacheAssumption DEF Init, Version
<1>3. /\ cache \in [Procs -> [Keys -> EntryState]]
      /\ rd \in [Readers -> ReaderState]
      /\ wr \in [Writers -> WriterState]
      /\ unseen \in [Procs -> SUBSET Keys]
  BY DEF Init, EntryState, ReaderState, WriterState
<1> QED
  BY <1>1, <1>2, <1>3, TypeOKAgain

LEMMA TypesStep == TypeOK /\ [Next]_vars => TypeOK'
<1> SUFFICES ASSUME TypeOK, [Next]_vars PROVE TypeOK'
  OBVIOUS
<1>0. /\ now \in Time
      /\ writes \in [Keys -> Seq(Time)]
      /\ \A k \in Keys : Version(k) <= MaxWrites
      /\ cache \in [Procs -> [Keys -> EntryState]]
      /\ rd \in [Readers -> ReaderState]
      /\ wr \in [Writers -> WriterState]
      /\ unseen \in [Procs -> SUBSET Keys]
  BY TypeOKAgain
<1>1. \A k \in Keys : Version(k) \in Versions
  BY <1>0, CacheAssumption DEF Version, Versions
<1>2. IdleReader \in ReaderState /\ IdleWriter \in WriterState /\ NoEntry \in EntryState
  BY DEF ReaderState, WriterState, EntryState
<1>3. UNCHANGED writes => \A k \in Keys : Version(k)' <= MaxWrites
  BY <1>0 DEF Version
<1>4. \A o \in Owners, h \in Households : Drops(o, h) \in SUBSET Keys
  BY DEF Drops, Keys
<1>5. CASE Tick
  BY TypeOKAgainNext, <1>0, <1>3, <1>5, CacheAssumption DEF Tick, Time
<1>6. ASSUME NEW r \in Readers, Look(r) PROVE TypeOK'
  <2>1. PICK p \in Procs, k \in Keys :
            rd' = [rd EXCEPT ![r] =
                     IF Fresh(cache[p][k])
                     THEN [pc |-> "answer", proc |-> p, key |-> k, began |-> now,
                           value |-> cache[p][k].value]
                     ELSE [pc |-> "load", proc |-> p, key |-> k, began |-> now, value |-> 0]]
    BY <1>6 DEF Look
  <2>2. Fresh(cache[p][k]) => cache[p][k].value \in Versions
    BY <1>0 DEF Fresh, EntryState
  <2>3. 0 \in Versions
    BY CacheAssumption DEF Versions
  <2>4. rd' \in [Readers -> ReaderState]
    BY <1>0, <2>1, <2>2, <2>3 DEF ReaderState
  <2> QED
    BY TypeOKAgainNext, <1>0, <1>3, <1>6, <2>4 DEF Look
<1>7. ASSUME NEW r \in Readers, Load(r) PROVE TypeOK'
  <2>1. rd[r].pc # "idle"
    BY <1>7 DEF Load
  <2>2. [rd[r] EXCEPT !.pc = "store", !.value = Version(rd[r].key)] \in ReaderState
    BY <1>1, <2>1, BusyReader DEF ReaderState
  <2>3. rd' = [rd EXCEPT ![r] = [rd[r] EXCEPT !.pc = "store", !.value = Version(rd[r].key)]]
    BY <1>0, <1>7, <2>1, BusyReader DEF Load
  <2> QED
    BY TypeOKAgainNext, <1>0, <1>3, <1>7, <2>2, <2>3 DEF Load
<1>8. ASSUME NEW r \in Readers, LoadFails(r) \/ Answer(r) PROVE TypeOK'
  BY TypeOKAgainNext, <1>0, <1>2, <1>3, <1>8 DEF LoadFails, Answer
<1>9. ASSUME NEW r \in Readers, Store(r) PROVE TypeOK'
  <2>1. rd[r] \in [pc : {"load", "store", "answer"}, proc : Procs, key : Keys,
                   began : Time, value : Versions]
    BY <1>9, BusyReader DEF Store
  <2>2. [rd[r] EXCEPT !.pc = "answer"] \in ReaderState
    BY <2>1 DEF ReaderState
  <2>3. [stored |-> now, value |-> rd[r].value] \in EntryState
    BY <1>0, <2>1 DEF EntryState
  <2>4. cache' \in [Procs -> [Keys -> EntryState]]
    BY <1>0, <1>9, <2>1, <2>3 DEF Store
  <2>5. rd' \in [Readers -> ReaderState]
    BY <1>0, <1>9, <2>2 DEF Store
  <2> QED
    BY TypeOKAgainNext, <1>0, <1>3, <1>9, <2>4, <2>5 DEF Store
<1>10. ASSUME NEW w \in Writers, Write(w) PROVE TypeOK'
  <2>1. PICK p \in Procs, o \in Owners, h \in Households, answered \in BOOLEAN :
            /\ Change({o, h})
            /\ wr' = IF answered
                     THEN [wr EXCEPT ![w] = [pc |-> "invalidate", proc |-> p,
                                             drops |-> Drops(o, h)]]
                     ELSE wr
            /\ Unseen(IF answered THEN Procs \ {p} ELSE Procs, {o, h})
    BY <1>10 DEF Write
  <2>2. {o, h} \in SUBSET Keys
    BY DEF Keys
  <2>3. writes' \in [Keys -> Seq(Time)] /\ \A k \in Keys : Version(k)' <= MaxWrites
    BY <2>1, <2>2, Changed
  <2>4. wr' \in [Writers -> WriterState]
    BY <1>0, <1>4, <2>1 DEF WriterState
  <2>5. unseen' \in [Procs -> SUBSET Keys]
    BY <1>0, <2>1, <2>2 DEF Unseen
  <2> QED
    BY TypeOKAgainNext, <1>0, <1>10, <2>3, <2>4, <2>5 DEF Write
<1>11. ASSUME NEW w \in Writers, DeleteRead(w) PROVE TypeOK'
  <2>1. wr' \in [Writers -> WriterState]
    BY <1>0, <1>4, <1>11 DEF DeleteRead, WriterState
  <2> QED
    BY TypeOKAgainNext, <1>0, <1>3, <1>11, <2>1 DEF DeleteRead
<1>12. ASSUME NEW w \in Writers, DeleteRow(w) PROVE TypeOK'
  <2>1. wr[w] \in [pc : {"delete"}, proc : Procs, owner : Owners, home : Households,
                   drops : SUBSET Keys]
    BY <1>0, <1>12 DEF DeleteRow, WriterState, IdleWriter
  <2> DEFINE S == {wr[w].owner, wr[w].home}
  <2>2. S \in SUBSET Keys
    BY <2>1 DEF Keys
  <2>3. Change(S)
    BY <1>12 DEF DeleteRow
  <2>4. writes' \in [Keys -> Seq(Time)] /\ \A k \in Keys : Version(k)' <= MaxWrites
    BY <2>2, <2>3, Changed
  <2>5. wr' \in [Writers -> WriterState] /\ unseen' \in [Procs -> SUBSET Keys]
    BY <1>0, <1>2, <1>12, <2>1, <2>2 DEF DeleteRow, WriterState
  <2> QED
    BY TypeOKAgainNext, <1>0, <1>12, <2>4, <2>5 DEF DeleteRow
<1>13. ASSUME NEW w \in Writers, Invalidate(w) PROVE TypeOK'
  <2>1. wr[w] \in [pc : {"invalidate"}, proc : Procs, drops : SUBSET Keys]
    BY <1>0, <1>13 DEF Invalidate, WriterState, IdleWriter
  <2>2. cache' \in [Procs -> [Keys -> EntryState]]
    BY <1>0, <1>2, <1>13, <2>1 DEF Invalidate
  <2>3. wr' \in [Writers -> WriterState]
    BY <1>0, <1>2, <1>13 DEF Invalidate
  <2>4. unseen' \in [Procs -> SUBSET Keys]
    BY <1>0, <1>13, <2>1 DEF Invalidate, Unseen
  <2> QED
    BY TypeOKAgainNext, <1>0, <1>3, <1>13, <2>2, <2>3, <2>4 DEF Invalidate
<1>14. ASSUME Move PROVE TypeOK'
  <2>1. PICK o \in Owners, h \in Households, g \in Households :
            /\ Change({o, h, g})
            /\ wr' = [w \in Writers |->
                         IF wr[w].pc = "delete" /\ wr[w].owner = o /\ wr[w].home = h
                         THEN [wr[w] EXCEPT !.home = g]
                         ELSE wr[w]]
            /\ Unseen(Procs, {o, h, g})
    BY <1>14 DEF Move
  <2>2. {o, h, g} \in SUBSET Keys
    BY DEF Keys
  <2>3. writes' \in [Keys -> Seq(Time)] /\ \A k \in Keys : Version(k)' <= MaxWrites
    BY <2>1, <2>2, Changed
  <2>4. ASSUME NEW w \in Writers, wr[w].pc = "delete"
        PROVE  [wr[w] EXCEPT !.home = g] \in WriterState
    BY <1>0, <2>4 DEF WriterState, IdleWriter
  <2>5. wr' \in [Writers -> WriterState]
    BY <1>0, <2>1, <2>4
  <2>6. unseen' \in [Procs -> SUBSET Keys]
    BY <1>0, <2>1, <2>2 DEF Unseen
  <2> QED
    BY TypeOKAgainNext, <1>0, <1>14, <2>3, <2>5, <2>6 DEF Move
<1>15. ASSUME NEW p \in Procs, Restart(p) PROVE TypeOK'
  <2>1. cache' \in [Procs -> [Keys -> EntryState]] /\ unseen' \in [Procs -> SUBSET Keys]
    BY <1>0, <1>2, <1>15 DEF Restart
  <2>2. rd' \in [Readers -> ReaderState] /\ wr' \in [Writers -> WriterState]
    BY <1>0, <1>2, <1>15 DEF Restart
  <2> QED
    BY TypeOKAgainNext, <1>0, <1>3, <1>15, <2>1, <2>2 DEF Restart
<1>16. CASE UNCHANGED vars
  BY TypeOKAgainNext, <1>0, <1>3, <1>16 DEF vars
<1> QED
  BY <1>5, <1>6, <1>7, <1>8, <1>9, <1>10, <1>11, <1>12, <1>13, <1>14, <1>15, <1>16
  DEF Next

(* Every variable keeps its type.                                           *)
THEOREM CacheTypeCorrect == Spec => []TypeOK
<1> QED
  BY TypesInitial, TypesStep, PTL DEF Spec
-----------------------------------------------------------------------------
(* Staleness.  A copy that is behind by now was stored no later than        *)
(* MaxLoad after the change it lacks; a load that is to be stored began no  *)
(* later than that change.                                                  *)
Lacks(v, k) == v < Version(k)

Since(v, k) == writes[k][v + 1]

EntryAges == \A p \in Procs, k \in Keys : cache[p][k] # NoEntry =>
    /\ cache[p][k].value <= Version(k)
    /\ cache[p][k].stored <= now
    /\ Lacks(cache[p][k].value, k) =>
          cache[p][k].stored <= Since(cache[p][k].value, k) + MaxLoad

LoadAges == \A r \in Readers :
    /\ Loading(r) => rd[r].began <= now /\ now <= rd[r].began + MaxLoad
    /\ rd[r].pc = "store" =>
          /\ rd[r].value <= Version(rd[r].key)
          /\ Lacks(rd[r].value, rd[r].key) => rd[r].began <= Since(rd[r].value, rd[r].key)

AnswerAges == \A r \in Readers : rd[r].pc = "answer" =>
    /\ rd[r].value <= Version(rd[r].key)
    /\ Lacks(rd[r].value, rd[r].key) =>
          now + 1 <= Since(rd[r].value, rd[r].key) + (TTL + MaxLoad)

AgesInv == TypeOK /\ EntryAges /\ LoadAges /\ AnswerAges

LEMMA InstantsAreNumbers ==
    ASSUME NEW s \in Seq(Time), NEW v \in Nat, v < Len(s)
    PROVE  s[v + 1] \in Nat
<1>1. Len(s) \in Nat /\ v + 1 \in 1 .. Len(s)
  OBVIOUS
<1>2. s[v + 1] \in Time
  BY <1>1, ElementOfSeq
<1> QED
  BY <1>2, CacheAssumption DEF Time

(* A bound on how late something is keeps when lists change: a list that    *)
(* was up to date is behind from now on.                                    *)
LEMMA ChangeKeepsBounds ==
    ASSUME TypeOK, NEW S \in SUBSET Keys, Change(S), NEW k \in Keys,
           NEW v \in Nat, NEW t \in Nat, NEW x \in Nat,
           v <= Version(k), t <= now + x, Lacks(v, k) => t <= Since(v, k) + x
    PROVE  /\ v <= Version(k)'
           /\ v < Version(k)' => t <= writes'[k][v + 1] + x
<1>1. /\ Version(k) \in Nat
      /\ Version(k)' = IF k \in S THEN Version(k) + 1 ELSE Version(k)
      /\ \A n \in 1 .. Version(k) : writes'[k][n] = writes[k][n]
      /\ k \in S => writes'[k][Version(k) + 1] = now
  BY Changed
<1>2. v <= Version(k)'
  BY <1>1
<1>3. CASE v < Version(k)
  <2>1. v + 1 \in 1 .. Version(k)
    BY <1>1, <1>3
  <2> QED
    BY <1>1, <1>2, <1>3, <2>1 DEF Lacks, Since
<1>4. CASE v = Version(k)
  BY <1>1, <1>4
<1> QED
  BY <1>1, <1>2, <1>3, <1>4

LEMMA AgesInitial == Init => AgesInv
<1> SUFFICES ASSUME Init PROVE AgesInv
  OBVIOUS
<1>1. TypeOK
  BY TypesInitial
<1>2. EntryAges /\ LoadAges /\ AnswerAges
  BY DEF Init, EntryAges, LoadAges, AnswerAges, Loading, IdleReader
<1> QED
  BY <1>1, <1>2 DEF AgesInv

(* The steps that change lists and neither the clock, the copies nor the    *)
(* readers.                                                                 *)
LEMMA ChangeKeepsAges ==
    ASSUME AgesInv, TypeOK', NEW S \in SUBSET Keys, Change(S), UNCHANGED <<now, cache, rd>>
    PROVE  AgesInv'
<1>1. now \in Nat /\ TTL \in Nat /\ MaxLoad \in Nat /\ TTL > 0
  BY CacheAssumption DEF AgesInv, TypeOK, Time
<1>2. EntryAges'
  <2> SUFFICES ASSUME NEW p \in Procs, NEW k \in Keys, cache[p][k] # NoEntry
               PROVE  /\ cache[p][k].value <= Version(k)'
                      /\ cache[p][k].stored <= now
                      /\ cache[p][k].value < Version(k)' =>
                            cache[p][k].stored <= writes'[k][cache[p][k].value + 1] + MaxLoad
    BY DEF EntryAges, Lacks, Since
  <2>1. cache[p][k].value \in Nat /\ cache[p][k].stored \in Nat
    BY CacheAssumption DEF AgesInv, TypeOK, Time, Versions
  <2>2. /\ cache[p][k].value <= Version(k)
        /\ cache[p][k].stored <= now
        /\ Lacks(cache[p][k].value, k) =>
              cache[p][k].stored <= Since(cache[p][k].value, k) + MaxLoad
    BY DEF AgesInv, EntryAges
  <2> QED
    BY <1>1, <2>1, <2>2, ChangeKeepsBounds DEF AgesInv
<1>3. ASSUME NEW r \in Readers, rd[r].pc # "idle"
      PROVE  rd[r].key \in Keys /\ rd[r].value \in Nat /\ rd[r].began \in Nat
  BY <1>3, BusyReader, CacheAssumption DEF AgesInv, Time, Versions
<1>4. LoadAges'
  <2> SUFFICES ASSUME NEW r \in Readers
               PROVE  /\ Loading(r) => rd[r].began <= now /\ now <= rd[r].began + MaxLoad
                      /\ rd[r].pc = "store" =>
                            /\ rd[r].value <= Version(rd[r].key)'
                            /\ rd[r].value < Version(rd[r].key)' =>
                                  rd[r].began <= writes'[rd[r].key][rd[r].value + 1]
    BY DEF LoadAges, Loading, Lacks, Since, Version
  <2>1. Loading(r) => rd[r].began <= now /\ now <= rd[r].began + MaxLoad
    BY DEF AgesInv, LoadAges
  <2>2. ASSUME rd[r].pc = "store"
        PROVE  /\ rd[r].value <= Version(rd[r].key)'
               /\ rd[r].value < Version(rd[r].key)' =>
                     rd[r].began <= writes'[rd[r].key][rd[r].value + 1] + 0
    <3>1. rd[r].key \in Keys /\ rd[r].value \in Nat /\ rd[r].began \in Nat
      BY <1>3, <2>2
    <3>2. Lacks(rd[r].value, rd[r].key) => Since(rd[r].value, rd[r].key) \in Nat
      BY <3>1, InstantsAreNumbers DEF AgesInv, TypeOK, Lacks, Since, Version
    <3>3. /\ rd[r].value <= Version(rd[r].key)
          /\ rd[r].began <= now + 0
          /\ Lacks(rd[r].value, rd[r].key) =>
                rd[r].began <= Since(rd[r].value, rd[r].key) + 0
      BY <1>1, <2>1, <2>2, <3>1, <3>2 DEF AgesInv, LoadAges, Loading
    <3> QED
      BY <3>1, <3>3, ChangeKeepsBounds DEF AgesInv
  <2>3. ASSUME rd[r].pc = "store", rd[r].value < Version(rd[r].key)'
        PROVE  writes'[rd[r].key][rd[r].value + 1] \in Nat
    BY <1>3, <2>3, InstantsAreNumbers DEF TypeOK, Version
  <2> QED
    BY <2>1, <2>2, <2>3
<1>5. AnswerAges'
  <2> SUFFICES ASSUME NEW r \in Readers, rd[r].pc = "answer"
               PROVE  /\ rd[r].value <= Version(rd[r].key)'
                      /\ rd[r].value < Version(rd[r].key)' =>
                            now + 1 <= writes'[rd[r].key][rd[r].value + 1] + (TTL + MaxLoad)
    BY DEF AnswerAges, Lacks, Since, Version
  <2>1. rd[r].key \in Keys /\ rd[r].value \in Nat
    BY <1>3
  <2>2. now + 1 \in Nat /\ TTL + MaxLoad \in Nat /\ now + 1 <= now + (TTL + MaxLoad)
    BY <1>1
  <2>3. /\ rd[r].value <= Version(rd[r].key)
        /\ Lacks(rd[r].value, rd[r].key) =>
              now + 1 <= Since(rd[r].value, rd[r].key) + (TTL + MaxLoad)
    BY DEF AgesInv, AnswerAges
  <2> QED
    BY <2>1, <2>2, <2>3, ChangeKeepsBounds DEF AgesInv
<1> QED
  BY <1>2, <1>4, <1>5 DEF AgesInv

LEMMA AgesStep == AgesInv /\ [Next]_vars => AgesInv'
<1> SUFFICES ASSUME AgesInv, [Next]_vars PROVE AgesInv'
  OBVIOUS
<1>0. TypeOK /\ TypeOK' /\ EntryAges /\ LoadAges /\ AnswerAges
  BY TypesStep DEF AgesInv
<1>1. now \in Nat /\ TTL \in Nat /\ TTL > 0 /\ MaxLoad \in Nat
  BY <1>0, CacheAssumption DEF TypeOK, Time
<1>2. \A p \in Procs, k \in Keys : cache[p][k] # NoEntry =>
          cache[p][k].value \in Nat /\ cache[p][k].stored \in Nat
  BY <1>0, CacheAssumption DEF TypeOK, Time, Versions
<1>3. \A r \in Readers : rd[r].pc # "idle" =>
          /\ rd[r].proc \in Procs /\ rd[r].key \in Keys
          /\ rd[r].value \in Nat /\ rd[r].began \in Nat
  BY <1>0, BusyReader, CacheAssumption DEF Time, Versions
<1>4. \A k \in Keys, v \in Nat : Lacks(v, k) => Since(v, k) \in Nat
  BY <1>0, InstantsAreNumbers DEF TypeOK, Lacks, Since, Version
<1>5. \A k \in Keys : Version(k) \in Nat
  BY <1>0 DEF TypeOK, Version
<1>6. CASE Tick
  <2>1. now' = now + 1 /\ UNCHANGED <<writes, cache, rd>>
    BY <1>6 DEF Tick
  <2>2. EntryAges'
    BY <1>0, <1>1, <1>2, <2>1 DEF EntryAges, Lacks, Since, Version
  <2>3. LoadAges'
    BY <1>0, <1>1, <1>3, <1>6, <2>1 DEF LoadAges, Lacks, Since, Version, Loading, Tick
  <2>4. AnswerAges'
    BY <1>6, <2>1 DEF AnswerAges, Tick
  <2> QED
    BY <1>0, <2>2, <2>3, <2>4 DEF AgesInv
<1>7. ASSUME NEW r \in Readers, Look(r) PROVE AgesInv'
  <2>1. PICK p \in Procs, k \in Keys :
            rd' = [rd EXCEPT ![r] =
                     IF Fresh(cache[p][k])
                     THEN [pc |-> "answer", proc |-> p, key |-> k, began |-> now,
                           value |-> cache[p][k].value]
                     ELSE [pc |-> "load", proc |-> p, key |-> k, began |-> now, value |-> 0]]
    BY <1>7 DEF Look
  <2>2. rd \in [Readers -> ReaderState] /\ UNCHANGED <<now, writes, cache>>
    BY <1>0, <1>7, TypeOKAgain DEF Look
  <2>3. EntryAges'
    BY <1>0, <2>2 DEF EntryAges, Lacks, Since, Version
  <2>4. LoadAges'
    BY <1>0, <1>1, <2>1, <2>2 DEF LoadAges, Lacks, Since, Version, Loading
  <2>5. Fresh(cache[p][k]) =>
            /\ cache[p][k].value <= Version(k)
            /\ Lacks(cache[p][k].value, k) =>
                  now + 1 <= Since(cache[p][k].value, k) + (TTL + MaxLoad)
    BY <1>0, <1>1, <1>2, <1>4 DEF EntryAges, Fresh
  <2>6. AnswerAges'
    BY <1>0, <2>1, <2>2, <2>5 DEF AnswerAges, Lacks, Since, Version
  <2> QED
    BY <1>0, <2>3, <2>4, <2>6 DEF AgesInv
<1>8. ASSUME NEW r \in Readers, Load(r) PROVE AgesInv'
  <2>1. rd \in [Readers -> ReaderState] /\ UNCHANGED <<now, writes, cache>>
    BY <1>0, <1>8, TypeOKAgain DEF Load
  <2>2. rd' = [rd EXCEPT ![r] = [rd[r] EXCEPT !.pc = "store", !.value = Version(rd[r].key)]]
    BY <1>8, <2>1, BusyReader, <1>0 DEF Load
  <2>3. /\ rd'[r].pc = "store" /\ rd'[r].key = rd[r].key /\ rd'[r].began = rd[r].began
        /\ rd'[r].value = Version(rd[r].key)
        /\ \A s \in Readers : s # r => rd'[s] = rd[s]
    BY <1>0, <1>8, <2>1, <2>2, BusyReader DEF Load
  <2>4. EntryAges' /\ AnswerAges'
    BY <1>0, <2>1, <2>3 DEF EntryAges, AnswerAges, Lacks, Since, Version
  <2>5. LoadAges'
    BY <1>0, <1>3, <1>5, <1>8, <2>1, <2>3 DEF LoadAges, Loading, Load, Lacks, Since, Version
  <2> QED
    BY <1>0, <2>4, <2>5 DEF AgesInv
<1>9. ASSUME NEW r \in Readers, LoadFails(r) \/ Answer(r) PROVE AgesInv'
  <2>1. rd' = [rd EXCEPT ![r] = IdleReader] /\ UNCHANGED <<now, writes, cache>>
    BY <1>9 DEF LoadFails, Answer
  <2>2. EntryAges' /\ LoadAges' /\ AnswerAges'
    BY <1>0, <2>1 DEF EntryAges, LoadAges, AnswerAges, Loading, Lacks, Since, Version,
       IdleReader, TypeOK
  <2> QED
    BY <1>0, <2>2 DEF AgesInv
<1>10. ASSUME NEW r \in Readers, Store(r) PROVE AgesInv'
  <2>1. /\ rd[r].pc = "store"
        /\ rd[r].proc \in Procs /\ rd[r].key \in Keys
        /\ rd[r].value \in Nat /\ rd[r].began \in Nat
    BY <1>3, <1>10 DEF Store
  <2>2. /\ cache' = [cache EXCEPT ![rd[r].proc][rd[r].key] =
                        [stored |-> now, value |-> rd[r].value]]
        /\ UNCHANGED <<now, writes>>
    BY <1>10 DEF Store
  <2>3. /\ rd'[r].pc = "answer" /\ rd'[r].key = rd[r].key /\ rd'[r].value = rd[r].value
        /\ \A s \in Readers : s # r => rd'[s] = rd[s]
    BY <1>0, <1>10, <2>1, BusyReader DEF Store, TypeOK
  <2>4. /\ rd[r].value <= Version(rd[r].key)
        /\ Lacks(rd[r].value, rd[r].key) =>
              /\ rd[r].began <= Since(rd[r].value, rd[r].key)
              /\ now <= rd[r].began + MaxLoad
    BY <1>0, <2>1 DEF LoadAges, Loading
  <2>5. EntryAges'
    <3>1. cache'[rd[r].proc][rd[r].key] = [stored |-> now, value |-> rd[r].value]
      BY <1>0, <2>1, <2>2 DEF TypeOK
    <3>2. \A p \in Procs, k \in Keys :
              p # rd[r].proc \/ k # rd[r].key => cache'[p][k] = cache[p][k]
      BY <1>0, <2>1, <2>2 DEF TypeOK
    <3>3. Lacks(rd[r].value, rd[r].key) => now <= Since(rd[r].value, rd[r].key) + MaxLoad
      BY <1>1, <1>4, <2>1, <2>4
    <3> QED
      BY <1>0, <1>1, <2>2, <2>4, <3>1, <3>2, <3>3 DEF EntryAges, Lacks, Since, Version
  <2>6. LoadAges'
    BY <1>0, <2>2, <2>3 DEF LoadAges, Loading, Lacks, Since, Version
  <2>7. AnswerAges'
    <3>1. Lacks(rd[r].value, rd[r].key) =>
              now + 1 <= Since(rd[r].value, rd[r].key) + (TTL + MaxLoad)
      BY <1>1, <1>4, <2>1, <2>4
    <3> QED
      BY <1>0, <2>2, <2>3, <2>4, <3>1 DEF AnswerAges, Lacks, Since, Version
  <2> QED
    BY <1>0, <2>5, <2>6, <2>7 DEF AgesInv
<1>11. ASSUME NEW w \in Writers, Write(w) PROVE AgesInv'
  <2>1. PICK o \in Owners, h \in Households : Change({o, h})
    BY <1>11 DEF Write
  <2>2. {o, h} \in SUBSET Keys /\ UNCHANGED <<now, cache, rd>>
    BY <1>11 DEF Keys, Write
  <2> QED
    BY <1>0, <2>1, <2>2, ChangeKeepsAges
<1>12. ASSUME NEW w \in Writers, DeleteRow(w) PROVE AgesInv'
  <2>1. {wr[w].owner, wr[w].home} \in SUBSET Keys
    BY <1>0, <1>12, TypeOKAgain DEF WriterState, IdleWriter, DeleteRow, Keys
  <2>2. Change({wr[w].owner, wr[w].home}) /\ UNCHANGED <<now, cache, rd>>
    BY <1>12 DEF DeleteRow
  <2> QED
    BY <1>0, <2>1, <2>2, ChangeKeepsAges
<1>13. CASE Move
  <2>1. PICK o \in Owners, h \in Households, g \in Households : Change({o, h, g})
    BY <1>13 DEF Move
  <2>2. {o, h, g} \in SUBSET Keys /\ UNCHANGED <<now, cache, rd>>
    BY <1>13 DEF Keys, Move
  <2> QED
    BY <1>0, <2>1, <2>2, ChangeKeepsAges
<1>14. ASSUME \A p \in Procs, k \in Keys : cache'[p][k] \in {cache[p][k], NoEntry},
              \A r \in Readers : rd'[r] \in {rd[r], IdleReader},
              UNCHANGED <<now, writes>>
       PROVE  AgesInv'
  <2>1. EntryAges'
    BY <1>0, <1>14 DEF EntryAges, Lacks, Since, Version
  <2>2. LoadAges'
    BY <1>0, <1>14 DEF LoadAges, Loading, Lacks, Since, Version, IdleReader
  <2>3. AnswerAges'
    BY <1>0, <1>14 DEF AnswerAges, Lacks, Since, Version, IdleReader
  <2> QED
    BY <1>0, <2>1, <2>2, <2>3 DEF AgesInv
<1>15. ASSUME NEW w \in Writers, DeleteRead(w) PROVE AgesInv'
  <2>1. UNCHANGED <<now, writes, cache, rd>>
    BY <1>15 DEF DeleteRead
  <2> QED
    BY <1>14, <2>1
<1>16. ASSUME NEW w \in Writers, Invalidate(w) PROVE AgesInv'
  <2>1. UNCHANGED <<now, writes, rd>>
    BY <1>16 DEF Invalidate
  <2>2. \A k \in Keys : cache'[wr[w].proc][k] \in {cache[wr[w].proc][k], NoEntry}
    BY <1>0, <1>16 DEF Invalidate, TypeOK
  <2>3. \A p \in Procs : p # wr[w].proc => cache'[p] = cache[p]
    BY <1>0, <1>16 DEF Invalidate, TypeOK
  <2> QED
    BY <1>14, <2>1, <2>2, <2>3
<1>17. ASSUME NEW p \in Procs, Restart(p) PROVE AgesInv'
  <2>1. \A q \in Procs, k \in Keys : cache'[q][k] \in {cache[q][k], NoEntry}
    BY <1>0, <1>17 DEF Restart, TypeOK
  <2> QED
    BY <1>14, <1>17, <2>1 DEF Restart
<1>18. CASE UNCHANGED vars
  BY <1>14, <1>18 DEF vars
<1> QED
  BY <1>6, <1>7, <1>8, <1>9, <1>10, <1>11, <1>12, <1>13, <1>15, <1>16, <1>17,
     <1>18 DEF Next

(* An answer is never older than the TTL and one load together, whatever    *)
(* overlaps with it.                                                        *)
THEOREM AnswersAreRecent == Spec => []StalenessBounded
<1>1. Spec => []AgesInv
  BY AgesInitial, AgesStep, PTL DEF Spec
<1>2. AgesInv => StalenessBounded
  <2> SUFFICES ASSUME AgesInv, NEW r \in Readers, rd[r].pc = "answer",
                      rd[r].value < Version(rd[r].key)
               PROVE  now < writes[rd[r].key][rd[r].value + 1] + TTL + MaxLoad
    BY DEF StalenessBounded
  <2>1. now + 1 <= writes[rd[r].key][rd[r].value + 1] + (TTL + MaxLoad)
    BY DEF AgesInv, AnswerAges, Lacks, Since
  <2>2. rd[r].key \in Keys /\ rd[r].value \in Nat
    BY BusyReader, CacheAssumption DEF AgesInv, Versions
  <2>3. writes[rd[r].key][rd[r].value + 1] \in Nat
    BY <2>2, InstantsAreNumbers DEF AgesInv, TypeOK, Version
  <2>4. now \in Nat /\ TTL \in Nat /\ MaxLoad \in Nat
    BY CacheAssumption DEF AgesInv, TypeOK, Time
  <2> QED
    BY <2>1, <2>3, <2>4
<1> QED
  BY <1>1, <1>2, PTL

-----------------------------------------------------------------------------
(* WritesAreSeen says nothing of a list that has been read and not stored   *)
(* yet; Store would make an old entry of an old one, so the invariant is    *)
(* about both.                                                              *)
OldEntry(p, k) == cache[p][k] # NoEntry /\ cache[p][k].value < Version(k)

OldLoad(p, k) == \E r \in Readers :
    rd[r].pc = "store" /\ rd[r].proc = p /\ rd[r].key = k /\ rd[r].value < Version(k)

Dropping(p, k) == \E w \in Writers :
    wr[w].pc = "invalidate" /\ wr[w].proc = p /\ k \in wr[w].drops

SeenInv == \A p \in Procs : \A k \in Keys \ unseen[p] :
    OldEntry(p, k) \/ OldLoad(p, k) => Dropping(p, k)

(* A change is hidden from a process or about to be dropped there; the      *)
(* lists it does not touch are as they were.                                *)
LEMMA ChangeIsSeen ==
    ASSUME TypeOK, SeenInv, NEW S \in SUBSET Keys, Change(S), UNCHANGED <<cache, rd>>,
           NEW p \in Procs, NEW k \in Keys,
           unseen[p] \subseteq unseen'[p],
           k \in S => k \in unseen'[p] \/ Dropping(p, k)',
           Dropping(p, k) => Dropping(p, k)',
           k \notin unseen'[p], OldEntry(p, k)' \/ OldLoad(p, k)'
    PROVE  Dropping(p, k)'
<1>1. CASE k \in S
  BY <1>1
<1>2. CASE k \notin S
  <2>1. Version(k)' = Version(k)
    BY <1>2, Changed
  <2>2. OldEntry(p, k) \/ OldLoad(p, k)
    BY <2>1 DEF OldEntry, OldLoad
  <2> QED
    BY <2>2 DEF SeenInv
<1> QED
  BY <1>1, <1>2

LEMMA SeenStep == TypeOK /\ SeenInv /\ [Next]_vars => SeenInv'
<1> SUFFICES ASSUME TypeOK, SeenInv, [Next]_vars,
                    NEW p \in Procs, NEW k \in Keys, k \notin unseen'[p],
                    OldEntry(p, k)' \/ OldLoad(p, k)'
             PROVE  Dropping(p, k)'
  BY DEF SeenInv
<1>0. /\ cache \in [Procs -> [Keys -> EntryState]]
      /\ rd \in [Readers -> ReaderState]
      /\ wr \in [Writers -> WriterState]
      /\ unseen \in [Procs -> SUBSET Keys]
      /\ writes \in [Keys -> Seq(Time)]
  BY TypeOKAgain
<1>1. Version(k) \in Nat
  BY <1>0 DEF Version
<1>2. ASSUME UNCHANGED <<writes, wr, unseen>>, OldEntry(p, k) \/ OldLoad(p, k)
      PROVE  Dropping(p, k)'
  BY <1>2 DEF SeenInv, Dropping
<1>3. CASE Tick \/ UNCHANGED vars
  BY <1>2, <1>3 DEF Tick, vars, OldEntry, OldLoad, Version
<1>4. ASSUME NEW r \in Readers, Look(r) \/ LoadFails(r) \/ Answer(r)
      PROVE  Dropping(p, k)'
  <2>1. UNCHANGED <<writes, cache, wr, unseen>>
    BY <1>4 DEF Look, LoadFails, Answer
  <2>2. rd'[r].pc # "store" /\ \A s \in Readers : s # r => rd'[s] = rd[s]
    BY <1>0, <1>4 DEF Look, LoadFails, Answer, IdleReader
  <2>3. OldEntry(p, k) \/ OldLoad(p, k)
    BY <2>1, <2>2 DEF OldEntry, OldLoad, Version
  <2> QED
    BY <1>2, <2>1, <2>3
<1>5. ASSUME NEW r \in Readers, Load(r) PROVE Dropping(p, k)'
  <2>1. UNCHANGED <<writes, cache, wr, unseen>>
    BY <1>5 DEF Load
  <2>2. /\ rd[r].pc # "idle"
        /\ rd' = [rd EXCEPT ![r].pc = "store", ![r].value = Version(rd[r].key)]
    BY <1>5 DEF Load
  <2>3. rd'[r].key = rd[r].key /\ rd'[r].value = Version(rd[r].key)
    BY <1>0, <2>2, BusyReader
  <2>4. \A s \in Readers : s # r => rd'[s] = rd[s]
    BY <1>0, <2>2
  <2>5. rd'[r].key = k => ~(rd'[r].value < Version(k))
    BY <1>1, <2>3
  <2>6. OldEntry(p, k) \/ OldLoad(p, k)
    BY <2>1, <2>4, <2>5 DEF OldEntry, OldLoad, Version
  <2> QED
    BY <1>2, <2>1, <2>6
<1>6. ASSUME NEW r \in Readers, Store(r) PROVE Dropping(p, k)'
  <2>1. UNCHANGED <<writes, wr, unseen>> /\ rd[r].pc = "store"
    BY <1>6 DEF Store
  <2>2. rd[r].proc \in Procs /\ rd[r].key \in Keys
    BY <2>1, BusyReader
  <2>3. /\ cache'[rd[r].proc][rd[r].key] = [stored |-> now, value |-> rd[r].value]
        /\ p # rd[r].proc \/ k # rd[r].key => cache'[p][k] = cache[p][k]
    BY <1>0, <1>6, <2>2 DEF Store
  <2>4. rd'[r].pc # "store" /\ \A s \in Readers : s # r => rd'[s] = rd[s]
    BY <1>0, <1>6 DEF Store
  <2>5. OldEntry(p, k) \/ OldLoad(p, k)
    BY <2>1, <2>3, <2>4 DEF OldEntry, OldLoad, Version
  <2> QED
    BY <1>2, <2>1, <2>5
<1>7. ASSUME NEW w \in Writers, Write(w) PROVE Dropping(p, k)'
  <2>1. PICK q \in Procs, o \in Owners, h \in Households, answered \in BOOLEAN :
            /\ wr[w].pc = "idle"
            /\ Change({o, h})
            /\ wr' = IF answered
                     THEN [wr EXCEPT ![w] = [pc |-> "invalidate", proc |-> q,
                                             drops |-> Drops(o, h)]]
                     ELSE wr
            /\ Unseen(IF answered THEN Procs \ {q} ELSE Procs, {o, h})
            /\ UNCHANGED <<now, cache, rd>>
    BY <1>7 DEF Write
  <2>2. {o, h} \in SUBSET Keys
    BY DEF Keys
  <2>3. unseen[p] \subseteq unseen'[p]
    BY <2>1 DEF Unseen
  <2>4. Dropping(p, k) => Dropping(p, k)'
    BY <1>0, <2>1 DEF Dropping
  <2>5. ASSUME k \in {o, h} PROVE k \in unseen'[p] \/ Dropping(p, k)'
    <3>1. CASE answered /\ p = q
      BY <1>0, <2>1, <2>5, <3>1 DEF Dropping, Drops
    <3>2. CASE ~(answered /\ p = q)
      BY <2>1, <2>5, <3>2 DEF Unseen
    <3> QED
      BY <3>1, <3>2
  <2> QED
    BY <2>1, <2>2, <2>3, <2>4, <2>5, ChangeIsSeen
<1>8. ASSUME NEW w \in Writers, DeleteRead(w) PROVE Dropping(p, k)'
  <2>1. UNCHANGED <<writes, cache, rd, unseen>> /\ wr[w].pc = "idle"
    BY <1>8 DEF DeleteRead
  <2>2. \A v \in Writers : v # w => wr'[v] = wr[v]
    BY <1>0, <1>8 DEF DeleteRead
  <2>3. Dropping(p, k)
    BY <2>1 DEF SeenInv, OldEntry, OldLoad, Version
  <2> QED
    BY <2>1, <2>2, <2>3 DEF Dropping
<1>9. ASSUME NEW w \in Writers, DeleteRow(w) PROVE Dropping(p, k)'
  <2> DEFINE S == {wr[w].owner, wr[w].home}
  <2>1. PICK answered \in BOOLEAN :
            /\ wr[w].pc = "delete"
            /\ Change(S)
            /\ wr' = [wr EXCEPT ![w] =
                         IF answered
                         THEN [pc |-> "invalidate", proc |-> wr[w].proc, drops |-> wr[w].drops]
                         ELSE IdleWriter]
            /\ unseen' = [q \in Procs |->
                             IF q = wr[w].proc /\ answered
                             THEN unseen[q] \cup (S \ wr[w].drops)
                             ELSE unseen[q] \cup S]
            /\ UNCHANGED <<now, cache, rd>>
    BY <1>9 DEF DeleteRow
  <2>2. S \in SUBSET Keys
    BY <1>0, <2>1 DEF WriterState, IdleWriter, Keys
  <2>3. unseen[p] \subseteq unseen'[p]
    BY <2>1
  <2>4. Dropping(p, k) => Dropping(p, k)'
    BY <1>0, <2>1 DEF Dropping
  <2>5. ASSUME k \in S PROVE k \in unseen'[p] \/ Dropping(p, k)'
    <3>1. CASE answered /\ p = wr[w].proc /\ k \in wr[w].drops
      BY <1>0, <2>1, <3>1 DEF Dropping
    <3>2. CASE ~(answered /\ p = wr[w].proc /\ k \in wr[w].drops)
      BY <2>1, <2>5, <3>2
    <3> QED
      BY <3>1, <3>2
  <2> QED
    BY <2>1, <2>2, <2>3, <2>4, <2>5, ChangeIsSeen
<1>10. ASSUME NEW w \in Writers, Invalidate(w) PROVE Dropping(p, k)'
  <2>1. /\ wr[w].pc = "invalidate"
        /\ UNCHANGED <<now, writes, rd>>
        /\ \A v \in Writers : v # w => wr'[v] = wr[v]
    BY <1>0, <1>10 DEF Invalidate
  <2>2. unseen[p] \subseteq unseen'[p]
    BY <1>10 DEF Invalidate, Unseen
  <2>3. CASE p = wr[w].proc /\ k \in wr[w].drops
    <3>1. cache'[p][k] = NoEntry
      BY <1>0, <1>10, <2>3 DEF Invalidate
    <3>2. ~OldLoad(p, k)
      BY <1>10, <2>3 DEF Invalidate, Unseen, OldLoad
    <3> QED
      BY <2>1, <3>1, <3>2 DEF OldEntry, OldLoad, Version
  <2>4. CASE ~(p = wr[w].proc /\ k \in wr[w].drops)
    <3>1. cache'[p][k] = cache[p][k]
      BY <1>0, <1>10, <2>4 DEF Invalidate
    <3>2. Dropping(p, k)
      BY <2>1, <2>2, <3>1 DEF SeenInv, OldEntry, OldLoad, Version
    <3> QED
      BY <2>1, <2>4, <3>2 DEF Dropping
  <2> QED
    BY <2>3, <2>4
<1>11. CASE Move
  <2>1. PICK o \in Owners, h, g \in Households :
            /\ Change({o, h, g})
            /\ wr' = [w \in Writers |->
                         IF wr[w].pc = "delete" /\ wr[w].owner = o /\ wr[w].home = h
                         THEN [wr[w] EXCEPT !.home = g]
                         ELSE wr[w]]
            /\ Unseen(Procs, {o, h, g})
            /\ UNCHANGED <<now, cache, rd>>
    BY <1>11 DEF Move
  <2>2. {o, h, g} \in SUBSET Keys
    BY DEF Keys
  <2>3. unseen'[p] = unseen[p] \cup {o, h, g}
    BY <2>1 DEF Unseen
  <2>4. Dropping(p, k) => Dropping(p, k)'
    BY <2>1 DEF Dropping
  <2> QED
    BY <2>1, <2>2, <2>3, <2>4, ChangeIsSeen
<1>12. ASSUME NEW q \in Procs, Restart(q) PROVE Dropping(p, k)'
  <2>1. UNCHANGED writes
    BY <1>12 DEF Restart
  <2>2. CASE p = q
    <3>1. cache'[p][k] = NoEntry
      BY <1>0, <1>12, <2>2 DEF Restart
    <3>2. \A r \in Readers : ~(rd'[r].pc = "store" /\ rd'[r].proc = p)
      BY <1>12, <2>2 DEF Restart, IdleReader
    <3> QED
      BY <3>1, <3>2 DEF OldEntry, OldLoad
  <2>3. CASE p # q
    <3>1. cache'[p] = cache[p] /\ unseen'[p] = unseen[p]
      BY <1>0, <1>12, <2>3 DEF Restart
    <3>2. \A r \in Readers : rd'[r].pc = "store" => rd'[r] = rd[r]
      BY <1>12 DEF Restart, IdleReader
    <3>3. Dropping(p, k)
      BY <2>1, <3>1, <3>2 DEF SeenInv, OldEntry, OldLoad, Version
    <3>4. \A w \in Writers : wr[w].pc = "invalidate" /\ wr[w].proc = p => wr'[w] = wr[w]
      BY <1>12, <2>3 DEF Restart
    <3> QED
      BY <3>3, <3>4 DEF Dropping
  <2> QED
    BY <2>2, <2>3
<1> QED
  BY <1>3, <1>4, <1>5, <1>6, <1>7, <1>8, <1>9, <1>10, <1>11, <1>12 DEF Next

(* Within one process a write is seen by every list looked up after it has  *)
(* been answered, except where unseen records why it could not be.          *)
THEOREM WritesAreSeenHere == Spec => []WritesAreSeen
<1>1. Init => SeenInv
  BY DEF Init, SeenInv, OldEntry, OldLoad, IdleReader
<1>2. Spec => []SeenInv
  BY <1>1, SeenStep, CacheTypeCorrect, PTL DEF Spec
<1>3. SeenInv => WritesAreSeen
  BY DEF SeenInv, OldEntry, Dropping, WritesAreSeen
<1> QED
  BY <1>2, <1>3, PTL
=============================================================================
