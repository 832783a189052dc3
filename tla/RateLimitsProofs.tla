-------------------------- MODULE RateLimitsProofs --------------------------
(***************************************************************************)
(* Proofs about RateLimits, for every window length, every limit and any   *)
(* number of clients: the counts are exact, so that spans are bounded,     *)
(* rejections due, and clients independent.                                *)
(***************************************************************************)
EXTENDS RateLimits, SequenceTheorems, FiniteSetTheorems, TLAPS

-----------------------------------------------------------------------------
(* One key of one limiter: its table entry e and its history p, at time t.  *)

Stamp == [at : Nat, window : Nat]

Bucket == [start : Nat, count : Nat]

(* An admission lies in the window it was counted in.                       *)
InWindow(p, t) == \A n \in 1 .. Len(p) :
    /\ p[n].window <= p[n].at
    /\ p[n].at <= t
    /\ p[n].at < p[n].window + Window

(* No window takes more than limit admissions: the limit-th next one is in  *)
(* a later window, and later windows begin after the earlier ones ended.    *)
QuotaKept(p, limit) == \A n \in 1 .. Len(p) :
    n + limit <= Len(p) => p[n].window + Window <= p[n + limit].window

WindowsInOrder(p) == \A m, n \in 1 .. Len(p) :
    m < n => \/ p[m].window = p[n].window
             \/ p[m].window + Window <= p[n].window

(* A window begins with an admission.                                       *)
FirstOpens(p) == \A n \in 1 .. Len(p) :
    (n > 1 => p[n - 1].window # p[n].window) => p[n].at = p[n].window

(* The entry counts the last e.count admissions; those before it, and all   *)
(* of them when there is no entry, belong to windows that are over.         *)
EntryCounts(p, e, limit, t) ==
    /\ e.count > 0 =>
          /\ e.count <= limit
          /\ e.count <= Len(p)
          /\ e.start <= t
          /\ \A n \in 1 .. Len(p) :
                IF n > Len(p) - e.count THEN p[n].window = e.start
                ELSE p[n].window + Window <= e.start
    /\ e.count = 0 => \A n \in 1 .. Len(p) : p[n].window + Window <= t

KeyInv(p, e, limit, t) ==
    /\ p \in Seq(Stamp)
    /\ limit = 0 => Len(p) = 0
    /\ e \in Bucket
    /\ InWindow(p, t)
    /\ QuotaKept(p, limit)
    /\ WindowsInOrder(p)
    /\ FirstOpens(p)
    /\ EntryCounts(p, e, limit, t)

LimitsInv ==
    /\ now \in Nat
    /\ req \in [Requests -> RequestState]
    /\ data \in [Limiters -> [Keys -> Bucket]]
    /\ passed \in [Limiters -> [Keys -> Seq(Stamp)]]
    /\ \A l \in Limiters : \A k \in Keys :
          KeyInv(passed[l][k], data[l][k], Limit[l], now)

-----------------------------------------------------------------------------
LEMMA Stamps ==
    ASSUME NEW p \in Seq(Stamp)
    PROVE  /\ Len(p) \in Nat
           /\ \A n \in 1 .. Len(p) :
                 p[n] \in Stamp /\ p[n].window \in Nat /\ p[n].at \in Nat
<1>1. Len(p) \in Nat /\ \A n \in 1 .. Len(p) : p[n] \in Stamp
  OBVIOUS
<1>2. \A x \in Stamp : x.window \in Nat /\ x.at \in Nat
  BY DEF Stamp
<1> QED
  BY <1>1, <1>2

(* Time passes: what was over stays over.                                   *)
LEMMA TimeKeeps ==
    ASSUME NEW p, NEW e, NEW limit \in Nat, NEW t \in Nat, KeyInv(p, e, limit, t)
    PROVE  KeyInv(p, e, limit, t + 1)
<1>0. /\ e \in Bucket /\ p \in Seq(Stamp)
      /\ InWindow(p, t) /\ QuotaKept(p, limit) /\ WindowsInOrder(p)
      /\ FirstOpens(p) /\ EntryCounts(p, e, limit, t)
  BY DEF KeyInv
<1>1. Window \in Nat
  BY LimitsAssumption
<1>2. p \in Seq(Stamp) /\ Len(p) \in Nat /\ \A n \in 1 .. Len(p) : p[n] \in Stamp
  BY DEF KeyInv
<1>3. InWindow(p, t + 1)
  BY <1>0, <1>1, <1>2 DEF InWindow, Stamp
<1>4. EntryCounts(p, e, limit, t + 1)
  <2>1. e.count > 0 => e.start <= t + 1
    <3>1. e.count > 0 => e.start <= t
      BY <1>0 DEF EntryCounts
    <3>2. e.start \in Nat
      BY <1>0 DEF Bucket
    <3> QED
      BY ONLY <3>1, <3>2, t \in Nat
  <2>2. ASSUME e.count = 0, NEW n \in 1 .. Len(p) PROVE p[n].window + Window <= t + 1
    <3>1. p[n].window + Window <= t
      BY <1>0, <2>2 DEF EntryCounts
    <3>2. p[n].window \in Nat
      BY <1>0, <2>2, Stamps
    <3> QED
      BY ONLY <1>1, <3>1, <3>2, t \in Nat
  <2> QED
    BY <1>0, <2>1, <2>2 DEF EntryCounts
<1> QED
  BY <1>3, <1>4 DEF KeyInv

(* The clean-up drops an entry whose window is over.                        *)
LEMMA DropKeeps ==
    ASSUME NEW p, NEW e, NEW limit \in Nat, NEW t \in Nat, KeyInv(p, e, limit, t),
           e.count = 0 \/ ~(t - e.start < Window)
    PROVE  KeyInv(p, Absent, limit, t)
<1>0. /\ e \in Bucket /\ p \in Seq(Stamp)
      /\ InWindow(p, t) /\ QuotaKept(p, limit) /\ WindowsInOrder(p)
      /\ FirstOpens(p) /\ EntryCounts(p, e, limit, t)
  BY DEF KeyInv
<1>1. Window \in Nat
  BY LimitsAssumption
<1>2. Len(p) \in Nat /\ \A n \in 1 .. Len(p) : p[n] \in Stamp
  BY DEF KeyInv
<1>3. Absent \in Bucket /\ Absent.count = 0
  BY DEF Absent, Bucket
<1>4. \A n \in 1 .. Len(p) : p[n].window + Window <= t
  <2> SUFFICES ASSUME NEW n \in 1 .. Len(p) PROVE p[n].window + Window <= t
    OBVIOUS
  <2>1. e.start \in Nat /\ e.count \in Nat /\ p[n].window \in Nat
    BY <1>0, Stamps DEF Bucket
  <2>2. CASE e.count = 0
    BY <1>0, <2>2 DEF EntryCounts
  <2>3. CASE e.count # 0
    <3>1. p[n].window = e.start \/ p[n].window + Window <= e.start
      BY <1>0, <2>1, <2>3 DEF EntryCounts
    <3>2. e.start + Window <= t /\ e.start <= t
      BY <1>0, <1>1, <2>1, <2>3 DEF EntryCounts
    <3> QED
      BY <1>1, <2>1, <3>1, <3>2
  <2> QED
    BY <2>2, <2>3
<1>5. EntryCounts(p, Absent, limit, t)
  BY <1>3, <1>4 DEF EntryCounts
<1> QED
  BY <1>3, <1>5 DEF KeyInv

(* A request that opens a window.                                           *)
LEMMA OpenKeeps ==
    ASSUME NEW p, NEW e, NEW limit \in Nat \ {0}, NEW t \in Nat,
           KeyInv(p, e, limit, t), e.count = 0
    PROVE  KeyInv(Append(p, [at |-> t, window |-> t]),
                  [start |-> t, count |-> 1], limit, t)
<1> DEFINE q == Append(p, [at |-> t, window |-> t])
           f == [start |-> t, count |-> 1]
<1>0. /\ e \in Bucket /\ p \in Seq(Stamp)
      /\ InWindow(p, t) /\ QuotaKept(p, limit) /\ WindowsInOrder(p)
      /\ FirstOpens(p) /\ EntryCounts(p, e, limit, t)
  BY DEF KeyInv
<1>1. Window \in Nat /\ Window > 0
  BY LimitsAssumption
<1>2. /\ p \in Seq(Stamp) /\ Len(p) \in Nat
      /\ \A n \in 1 .. Len(p) : p[n] \in Stamp /\ p[n].window \in Nat /\ p[n].at \in Nat
  BY Stamps DEF KeyInv
<1>3. /\ q \in Seq(Stamp) /\ Len(q) = Len(p) + 1
      /\ \A n \in 1 .. Len(p) : q[n] = p[n]
      /\ q[Len(p) + 1] = [at |-> t, window |-> t]
  BY <1>2 DEF Stamp
<1>4. f \in Bucket /\ f.count = 1 /\ f.start = t
  BY DEF Bucket
<1>11. Len(p) \in Nat /\ Len(q) = Len(p) + 1
  BY <1>2, <1>3
<1> HIDE DEF q, f
<1>5. \A n \in 1 .. Len(p) : p[n].window + Window <= t
  BY <1>0 DEF EntryCounts
<1>6. InWindow(q, t)
  BY <1>0, <1>1, <1>2, <1>3 DEF InWindow
<1>7. QuotaKept(q, limit)
  <2> SUFFICES ASSUME NEW n \in 1 .. Len(q), n + limit <= Len(q)
               PROVE  q[n].window + Window <= q[n + limit].window
    BY DEF QuotaKept
  <2>1. n \in 1 .. Len(p) /\ q[n] = p[n]
    BY <1>2, <1>3
  <2>2. CASE n + limit <= Len(p)
    <3>1. q[n + limit] = p[n + limit]
      BY <1>2, <1>3, <2>1, <2>2
    <3> QED
      BY <1>0, <2>1, <2>2, <3>1 DEF QuotaKept
  <2>3. CASE n + limit = Len(p) + 1
    BY <1>3, <1>5, <2>1, <2>3
  <2>4. n + limit <= Len(p) \/ n + limit = Len(p) + 1
    BY <1>11
  <2> QED
    BY <2>2, <2>3, <2>4
<1>8. WindowsInOrder(q)
  <2> SUFFICES ASSUME NEW m \in 1 .. Len(q), NEW n \in 1 .. Len(q), m < n
               PROVE  q[m].window = q[n].window \/ q[m].window + Window <= q[n].window
    BY DEF WindowsInOrder
  <2>1. m \in 1 .. Len(p) /\ q[m] = p[m]
    BY <1>2, <1>3
  <2>2. CASE n \in 1 .. Len(p)
    BY <1>0, <1>2, <1>3, <2>1, <2>2 DEF WindowsInOrder
  <2>3. CASE n = Len(p) + 1
    BY <1>2, <1>3, <1>5, <2>1, <2>3
  <2>4. n \in 1 .. Len(p) \/ n = Len(p) + 1
    BY <1>11
  <2> QED
    BY <2>2, <2>3, <2>4
<1>9. FirstOpens(q)
  <2> SUFFICES ASSUME NEW n \in 1 .. Len(q), n > 1 => q[n - 1].window # q[n].window
               PROVE  q[n].at = q[n].window
    BY DEF FirstOpens
  <2>1. CASE n \in 1 .. Len(p)
    <3>1. n > 1 => n - 1 \in 1 .. Len(p) /\ q[n - 1] = p[n - 1]
      BY <1>2, <1>3, <2>1
    <3> QED
      BY <1>0, <1>3, <2>1, <3>1 DEF FirstOpens
  <2>2. CASE n = Len(p) + 1
    BY <1>3, <2>2
  <2>3. n \in 1 .. Len(p) \/ n = Len(p) + 1
    BY <1>11
  <2> QED
    BY <2>1, <2>2, <2>3
<1>10. EntryCounts(q, f, limit, t)
  <2>1. f.count > 0 /\ f.count # 0 /\ f.count <= limit /\ f.count <= Len(q) /\ f.start <= t
    BY <1>4, <1>11
  <2>2. ASSUME NEW n \in 1 .. Len(q)
        PROVE  IF n > Len(q) - f.count THEN q[n].window = f.start
               ELSE q[n].window + Window <= f.start
    <3>1. CASE n = Len(p) + 1
      BY <1>3, <1>4, <1>11, <3>1
    <3>2. CASE n \in 1 .. Len(p)
      BY <1>3, <1>4, <1>5, <1>11, <3>2
    <3> QED
      BY <1>11, <2>2, <3>1, <3>2
  <2> QED
    BY <2>1, <2>2 DEF EntryCounts
<1>12. KeyInv(q, f, limit, t)
  BY <1>3, <1>4, <1>6, <1>7, <1>8, <1>9, <1>10 DEF KeyInv
<1> QED
  BY <1>12 DEF q, f

(* A request counted in the window that is running.                         *)
LEMMA CountKeeps ==
    ASSUME NEW p, NEW e, NEW limit \in Nat, NEW t \in Nat,
           KeyInv(p, e, limit, t),
           e.count > 0, t - e.start < Window, e.count < limit
    PROVE  KeyInv(Append(p, [at |-> t, window |-> e.start]),
                  [e EXCEPT !.count = @ + 1], limit, t)
<1> DEFINE q == Append(p, [at |-> t, window |-> e.start])
           f == [e EXCEPT !.count = @ + 1]
<1>0. /\ e \in Bucket /\ p \in Seq(Stamp)
      /\ InWindow(p, t) /\ QuotaKept(p, limit) /\ WindowsInOrder(p)
      /\ FirstOpens(p) /\ EntryCounts(p, e, limit, t)
  BY DEF KeyInv
<1>1. Window \in Nat /\ Window > 0
  BY LimitsAssumption
<1>2. /\ p \in Seq(Stamp) /\ Len(p) \in Nat
      /\ \A n \in 1 .. Len(p) : p[n] \in Stamp /\ p[n].window \in Nat /\ p[n].at \in Nat
      /\ e \in Bucket /\ e.start \in Nat /\ e.count \in Nat
  <2>1. p \in Seq(Stamp) /\ e \in Bucket
    BY DEF KeyInv
  <2>2. e.start \in Nat /\ e.count \in Nat
    BY <2>1 DEF Bucket
  <2> QED
    BY <2>1, <2>2, Stamps
<1>3. /\ q \in Seq(Stamp) /\ Len(q) = Len(p) + 1
      /\ \A n \in 1 .. Len(p) : q[n] = p[n]
      /\ q[Len(p) + 1] = [at |-> t, window |-> e.start]
  BY <1>2 DEF Stamp
<1>4. f \in Bucket /\ f.count = e.count + 1 /\ f.start = e.start
  BY <1>2 DEF Bucket
<1>11. Len(p) \in Nat /\ Len(q) = Len(p) + 1
  BY <1>2, <1>3
<1> HIDE DEF q, f
<1>5. /\ e.count <= Len(p)
      /\ e.start <= t
      /\ \A n \in 1 .. Len(p) :
            /\ n > Len(p) - e.count => p[n].window = e.start
            /\ n <= Len(p) - e.count => p[n].window + Window <= e.start
  BY <1>0, <1>2 DEF EntryCounts
<1>6. InWindow(q, t)
  BY <1>0, <1>1, <1>2, <1>3, <1>5 DEF InWindow
<1>7. QuotaKept(q, limit)
  <2> SUFFICES ASSUME NEW n \in 1 .. Len(q), n + limit <= Len(q)
               PROVE  q[n].window + Window <= q[n + limit].window
    BY DEF QuotaKept
  <2>0. limit > 0 /\ e.count < limit /\ e.count \in Nat
    BY <1>2
  <2>1. n \in 1 .. Len(p) /\ q[n] = p[n]
    BY <1>3, <1>11, <2>0
  <2>2. CASE n + limit <= Len(p)
    <3>1. q[n + limit] = p[n + limit]
      BY <1>3, <1>11, <2>0, <2>1, <2>2
    <3> QED
      BY <1>0, <2>1, <2>2, <3>1 DEF QuotaKept
  <2>3. CASE n + limit = Len(p) + 1
    <3>1. n <= Len(p) - e.count
      BY <1>11, <2>0, <2>3
    <3> QED
      BY <1>3, <1>5, <2>1, <2>3, <3>1
  <2>4. n + limit <= Len(p) \/ n + limit = Len(p) + 1
    BY <1>11
  <2> QED
    BY <2>2, <2>3, <2>4
<1>8. WindowsInOrder(q)
  <2> SUFFICES ASSUME NEW m \in 1 .. Len(q), NEW n \in 1 .. Len(q), m < n
               PROVE  q[m].window = q[n].window \/ q[m].window + Window <= q[n].window
    BY DEF WindowsInOrder
  <2>1. m \in 1 .. Len(p) /\ q[m] = p[m]
    BY <1>2, <1>3
  <2>2. CASE n \in 1 .. Len(p)
    BY <1>0, <1>2, <1>3, <2>1, <2>2 DEF WindowsInOrder
  <2>3. CASE n = Len(p) + 1
    BY <1>2, <1>3, <1>5, <2>1, <2>3
  <2>4. n \in 1 .. Len(p) \/ n = Len(p) + 1
    BY <1>11
  <2> QED
    BY <2>2, <2>3, <2>4
<1>9. FirstOpens(q)
  <2> SUFFICES ASSUME NEW n \in 1 .. Len(q), n > 1 => q[n - 1].window # q[n].window
               PROVE  q[n].at = q[n].window
    BY DEF FirstOpens
  <2>1. CASE n \in 1 .. Len(p)
    <3>1. n > 1 => n - 1 \in 1 .. Len(p) /\ q[n - 1] = p[n - 1]
      BY <1>2, <1>3, <2>1
    <3> QED
      BY <1>0, <1>3, <2>1, <3>1 DEF FirstOpens
  <2>2. n # Len(p) + 1
    <3> SUFFICES ASSUME n = Len(p) + 1 PROVE FALSE
      OBVIOUS
    <3>1. Len(p) \in 1 .. Len(p) /\ Len(p) > Len(p) - e.count
      BY <1>2, <1>5
    <3>2. q[n - 1].window = e.start /\ q[n].window = e.start /\ n > 1
      BY <1>2, <1>3, <1>5, <3>1
    <3> QED
      BY <3>2
  <2>3. n \in 1 .. Len(p) \/ n = Len(p) + 1
    BY <1>11
  <2> QED
    BY <2>1, <2>2, <2>3
<1>10. EntryCounts(q, f, limit, t)
  <2>1. e.count \in Nat /\ e.start \in Nat /\ f.count = e.count + 1 /\ f.start = e.start
    BY <1>2, <1>4
  <2>2. f.count > 0 /\ f.count <= limit /\ f.count <= Len(q) /\ f.start <= t
    BY <1>5, <1>11, <2>1
  <2>3. ASSUME NEW n \in 1 .. Len(q)
        PROVE  IF n > Len(q) - f.count THEN q[n].window = f.start
               ELSE q[n].window + Window <= f.start
    <3>1. CASE n = Len(p) + 1
      BY <1>3, <1>11, <2>1, <3>1
    <3>2. CASE n \in 1 .. Len(p)
      <4>1. n > Len(q) - f.count <=> n > Len(p) - e.count
        BY <1>11, <2>1, <3>2
      <4> QED
        BY <1>3, <1>5, <1>11, <2>1, <3>2, <4>1
    <3>3. n \in 1 .. Len(p) \/ n = Len(p) + 1
      BY <1>11
    <3> QED
      BY <3>1, <3>2, <3>3
  <2> QED
    BY <2>1, <2>2, <2>3 DEF EntryCounts
<1>12. KeyInv(q, f, limit, t)
  BY <1>2, <1>3, <1>4, <1>6, <1>7, <1>8, <1>9, <1>10 DEF KeyInv
<1> QED
  BY <1>12 DEF q, f

(* The arithmetic of windows: n and n + 2 * limit - 1 are either separated  *)
(* by a whole window, or n is the first of its own.                         *)
LEMMA Span ==
    ASSUME NEW p, NEW e, NEW limit \in Nat \ {0}, NEW t \in Nat, KeyInv(p, e, limit, t),
           NEW n \in 1 .. Len(p), n + (2 * limit - 1) \in 1 .. Len(p)
    PROVE  p[n + (2 * limit - 1)].at >= p[n].at + Window
<1> DEFINE m == n + limit - 1
           z == n + (2 * limit - 1)
<1>0. /\ e \in Bucket /\ p \in Seq(Stamp)
      /\ InWindow(p, t) /\ QuotaKept(p, limit) /\ WindowsInOrder(p)
      /\ FirstOpens(p) /\ EntryCounts(p, e, limit, t)
  BY DEF KeyInv
<1>1. Window \in Nat /\ Window > 0
  BY LimitsAssumption
<1>2. /\ Len(p) \in Nat
      /\ \A i \in 1 .. Len(p) : p[i].window \in Nat /\ p[i].at \in Nat
  BY Stamps DEF KeyInv
<1>3. /\ m \in 1 .. Len(p) /\ z \in 1 .. Len(p) /\ n <= m
      /\ z = m + limit
  BY <1>2
<1> HIDE DEF m, z
<1>4. p[m].window + Window <= p[z].window /\ p[z].window <= p[z].at
  BY <1>0, <1>2, <1>3 DEF QuotaKept, InWindow
<1>5. CASE p[n].window # p[m].window
  <2>1. p[n].window + Window <= p[m].window
    <3>1. n < m
      BY <1>2, <1>3, <1>5
    <3> QED
      BY <1>0, <1>3, <1>5, <3>1 DEF WindowsInOrder
  <2>2. p[n].at < p[n].window + Window
    BY <1>0, <1>2 DEF InWindow
  <2>3. /\ p[n].at \in Nat /\ p[n].window \in Nat /\ p[m].window \in Nat
        /\ p[z].at \in Nat /\ p[z].window \in Nat
    BY <1>2, <1>3
  <2>4. p[n].at < p[m].window
    BY ONLY <1>1, <2>1, <2>2, <2>3
  <2>5. p[m].window + Window <= p[z].at
    BY ONLY <1>1, <1>4, <2>3
  <2>6. p[z].at >= p[n].at + Window
    BY ONLY <1>1, <2>3, <2>4, <2>5
  <2> QED
    BY <2>6 DEF z
<1>6. CASE p[n].window = p[m].window
  <2>1. n > 1 => p[n - 1].window # p[n].window
    <3> SUFFICES ASSUME n > 1 PROVE p[n - 1].window # p[n].window
      OBVIOUS
    <3>1. n - 1 \in 1 .. Len(p) /\ (n - 1) + limit = m
      BY <1>2 DEF m
    <3>2. p[n - 1].window + Window <= p[m].window
      BY <1>0, <1>2, <1>3, <3>1 DEF QuotaKept
    <3> QED
      BY <1>1, <1>2, <1>6, <3>1, <3>2
  <2>2. p[n].at = p[n].window
    BY <1>0, <2>1 DEF FirstOpens
  <2>3. /\ p[n].at \in Nat /\ p[m].window \in Nat
        /\ p[z].at \in Nat /\ p[z].window \in Nat
    BY <1>2, <1>3
  <2>4. p[z].at >= p[n].at + Window
    BY ONLY <1>1, <1>4, <1>6, <2>2, <2>3
  <2> QED
    BY <2>4 DEF z
<1> QED
  BY <1>5, <1>6

-----------------------------------------------------------------------------
(* Every entry after the clean-up is a running one or none at all.          *)
LEMMA CleanedUp ==
    ASSUME LimitsInv, NEW l \in Limiters
    PROVE  /\ Unexpired(data[l]) \in [Keys -> Bucket]
           /\ \A k \in Keys :
                 /\ KeyInv(passed[l][k], Unexpired(data[l])[k], Limit[l], now)
                 /\ \/ Live(data[l][k]) /\ Unexpired(data[l])[k] = data[l][k]
                    \/ ~Live(data[l][k]) /\ Unexpired(data[l])[k] = Absent
<1>1. Absent \in Bucket
  BY DEF Absent, Bucket
<1>2. data[l] \in [Keys -> Bucket] /\ now \in Nat /\ Limit[l] \in Nat
  BY LimitsAssumption DEF LimitsInv
<1>3. Unexpired(data[l]) \in [Keys -> Bucket]
  BY <1>1, <1>2 DEF Unexpired
<1>4. ASSUME NEW k \in Keys
      PROVE  /\ KeyInv(passed[l][k], Unexpired(data[l])[k], Limit[l], now)
             /\ \/ Live(data[l][k]) /\ Unexpired(data[l])[k] = data[l][k]
                \/ ~Live(data[l][k]) /\ Unexpired(data[l])[k] = Absent
  <2>1. KeyInv(passed[l][k], data[l][k], Limit[l], now)
    BY DEF LimitsInv
  <2>2. CASE Live(data[l][k])
    BY <2>1, <2>2 DEF Unexpired
  <2>3. CASE ~Live(data[l][k])
    <3>1. data[l][k] \in Bucket
      BY <1>2
    <3>2. data[l][k].count = 0 \/ ~(now - data[l][k].start < Window)
      BY <2>3, <3>1 DEF Live, Bucket
    <3>3. KeyInv(passed[l][k], Absent, Limit[l], now)
      BY <1>2, <2>1, <3>2, DropKeeps
    <3> QED
      BY <2>3, <3>3 DEF Unexpired
  <2> QED
    BY <2>2, <2>3
<1> QED
  BY <1>3, <1>4

LEMMA GateTyped ==
    ASSUME LimitsInv, NEW r \in Requests, req[r].todo # <<>>
    PROVE  /\ req[r] \in [busy : {TRUE}, ip : Ips, user : Users,
                          todo : Seq(Limiters \cup {"auth"})]
           /\ [req[r] EXCEPT !.todo = Tail(@)] \in RequestState
<1>1. req[r] \in RequestState
  BY DEF LimitsInv
<1>2. req[r] # Idle
  BY DEF Idle
<1>3. req[r] \in [busy : {TRUE}, ip : Ips, user : Users, todo : Seq(Limiters \cup {"auth"})]
  BY <1>1, <1>2 DEF RequestState
<1>4. Tail(req[r].todo) \in Seq(Limiters \cup {"auth"})
  <2>1. req[r].todo \in Seq(Limiters \cup {"auth"})
    BY <1>3
  <2> QED
    BY <2>1, HeadTailProperties
<1> QED
  BY <1>3, <1>4 DEF RequestState

LEMMA KeyTyped ==
    ASSUME LimitsInv, NEW r \in Requests, NEW l \in Limiters, At(r, l)
    PROVE  /\ KeyOf(r, l) \in Keys
           /\ [req[r] EXCEPT !.todo = Tail(@)] \in RequestState
BY GateTyped DEF At, KeyOf, Keys

LEMMA LimitsInitial == Init => LimitsInv
<1> SUFFICES ASSUME Init PROVE LimitsInv
  OBVIOUS
<1>1. Absent \in Bucket /\ Absent.count = 0
  BY DEF Absent, Bucket
<1>2. ASSUME NEW l \in Limiters, NEW k \in Keys
      PROVE  /\ passed[l][k] = << >> /\ data[l][k] = Absent
  BY DEF Init
<1>3. << >> \in Seq(Stamp) /\ Len(<< >>) = 0
  OBVIOUS
<1>4. ASSUME NEW limit PROVE KeyInv(<< >>, Absent, limit, 0)
  BY <1>1, <1>3 DEF KeyInv, InWindow, QuotaKept, WindowsInOrder, FirstOpens, EntryCounts
<1> QED
  BY <1>1, <1>2, <1>3, <1>4 DEF Init, LimitsInv, RequestState

LEMMA LimitsStep == LimitsInv /\ [Next]_vars => LimitsInv'
<1> SUFFICES ASSUME LimitsInv, [Next]_vars PROVE LimitsInv'
  OBVIOUS
<1>1. ASSUME Tick PROVE LimitsInv'
  <2>1. now \in Nat /\ now' = now + 1 /\ UNCHANGED <<data, req, passed>>
    BY <1>1 DEF Tick, LimitsInv
  <2>2. ASSUME NEW l \in Limiters, NEW k \in Keys
        PROVE  KeyInv(passed[l][k], data[l][k], Limit[l], now + 1)
    BY <2>1, TimeKeeps, LimitsAssumption DEF LimitsInv
  <2> QED
    BY <2>1, <2>2 DEF LimitsInv
<1>2. ASSUME UNCHANGED <<now, data, passed>>, req' \in [Requests -> RequestState]
      PROVE  LimitsInv'
  BY <1>2 DEF LimitsInv
<1>3. ASSUME NEW r \in Requests, Arrive(r) PROVE LimitsInv'
  <2>1. PICK route \in Routes, ip \in Ips, u \in Users :
            req' = [req EXCEPT ![r] =
                       [busy |-> TRUE, todo |-> Gates[route], ip |-> ip, user |-> u]]
    BY <1>3 DEF Arrive
  <2>2. Gates[route] \in Seq(Limiters \cup {"auth"})
    <3>1. route \in {"join", "mutate", "ai", "random"}
      BY LimitsAssumption DEF Gates
    <3>2. /\ <<"joinIp", "auth", "joinUser">> \in Seq(Limiters \cup {"auth"})
          /\ <<"auth", "mutation">> \in Seq(Limiters \cup {"auth"})
          /\ <<"ai">> \in Seq(Limiters \cup {"auth"})
          /\ <<"auth", "randomRecipe">> \in Seq(Limiters \cup {"auth"})
      BY DEF Limiters
    <3>3. /\ Gates["join"] = <<"joinIp", "auth", "joinUser">>
          /\ Gates["mutate"] = <<"auth", "mutation">>
          /\ Gates["ai"] = <<"ai">>
          /\ Gates["random"] = <<"auth", "randomRecipe">>
      BY DEF Gates
    <3> QED
      BY <3>1, <3>2, <3>3
  <2>3. req' \in [Requests -> RequestState]
    BY <2>1, <2>2 DEF LimitsInv, RequestState
  <2> QED
    BY <1>2, <1>3, <2>3 DEF Arrive
<1>4. ASSUME NEW r \in Requests, Refuse(r) PROVE req' \in [Requests -> RequestState]
  BY <1>4 DEF Refuse, LimitsInv, RequestState
<1>5. ASSUME NEW r \in Requests, Authenticate(r) PROVE LimitsInv'
  <2>4. [req[r] EXCEPT !.todo = Tail(@)] \in RequestState
    BY <1>5, GateTyped DEF Authenticate, At
  <2>5. Advance(r) => req' \in [Requests -> RequestState]
    BY <2>4 DEF Advance, LimitsInv
  <2> QED
    BY <1>2, <1>4, <1>5, <2>5 DEF Authenticate
<1>6. ASSUME NEW r \in Requests, Waive(r) PROVE LimitsInv'
  <2>1. PICK l \in Limiters : At(r, l) /\ Advance(r)
    BY <1>6 DEF Waive
  <2>2. req' \in [Requests -> RequestState]
    BY <2>1, KeyTyped DEF Advance, LimitsInv
  <2> QED
    BY <1>2, <1>6, <2>2 DEF Waive
<1>7. ASSUME NEW r \in Requests, Admit(r) PROVE LimitsInv'
  <2> DEFINE Key(l) == KeyOf(r, l)
             Table(l) == Unexpired(data[l])
             Entry(l) == Counted(Table(l)[Key(l)])
             Stamped(l) == Append(passed[l][Key(l)], [at |-> now, window |-> Entry(l).start])
  <2>1. PICK l \in Limiters :
            /\ At(r, l)
            /\ Limit[l] > 0
            /\ HasRoom(Table(l)[Key(l)], Limit[l])
            /\ data' = [data EXCEPT ![l] = [Table(l) EXCEPT ![Key(l)] = Entry(l)]]
            /\ passed' = [passed EXCEPT ![l][Key(l)] =
                             Append(@, [at |-> now, window |-> Entry(l).start])]
            /\ Advance(r)
            /\ UNCHANGED now
    BY <1>7 DEF Admit
  <2> DEFINE k == Key(l)
  <2>2. k \in Keys
    BY <2>1, KeyTyped
  <2>3. /\ Table(l) \in [Keys -> Bucket]
        /\ \A j \in Keys : KeyInv(passed[l][j], Table(l)[j], Limit[l], now)
    BY CleanedUp
  <2>4. now \in Nat /\ Limit[l] \in Nat \ {0}
    <3>1. now \in Nat
      BY DEF LimitsInv
    <3>2. Limit[l] \in Nat
      BY LimitsAssumption
    <3> QED
      BY <2>1, <3>1, <3>2
  <2>5. KeyInv(Stamped(l), Entry(l), Limit[l], now) /\ Entry(l) \in Bucket
    <3>1. KeyInv(passed[l][k], Table(l)[k], Limit[l], now) /\ Table(l)[k] \in Bucket
      BY <2>2, <2>3
    <3>2. CASE Table(l)[k].count = 0
      <4>1. Entry(l) = [start |-> now, count |-> 1]
        BY <3>2 DEF Counted
      <4>2. KeyInv(Append(passed[l][k], [at |-> now, window |-> now]),
                   [start |-> now, count |-> 1], Limit[l], now)
        BY <2>4, <3>1, <3>2, OpenKeeps
      <4> QED
        BY <4>1, <4>2 DEF KeyInv
    <3>3. CASE Table(l)[k].count # 0
      <4>1. Live(data[l][k]) /\ Table(l)[k] = data[l][k]
        BY <2>2, <3>3, CleanedUp DEF Absent
      <4>2. /\ Table(l)[k].count > 0
            /\ now - Table(l)[k].start < Window
            /\ Table(l)[k].count < Limit[l]
        BY <2>1, <4>1 DEF Live, HasRoom
      <4>3. Entry(l) = [Table(l)[k] EXCEPT !.count = @ + 1]
        BY <3>3 DEF Counted
      <4>4. Entry(l).start = Table(l)[k].start
        BY <3>1, <4>3 DEF Bucket
      <4>5. KeyInv(Append(passed[l][k], [at |-> now, window |-> Table(l)[k].start]),
                   [Table(l)[k] EXCEPT !.count = @ + 1], Limit[l], now)
        <5> HIDE DEF Table
        <5> QED
          BY <2>4, <3>1, <4>2, CountKeeps
      <4> QED
        BY <4>3, <4>4, <4>5 DEF KeyInv
    <3> QED
      BY <3>2, <3>3
  <2> HIDE DEF Table, Entry, Key
  <2>6. /\ data' \in [Limiters -> [Keys -> Bucket]]
        /\ \A i \in Limiters : \A j \in Keys :
              data'[i][j] = IF i # l THEN data[i][j]
                            ELSE IF j = k THEN Entry(l) ELSE Table(l)[j]
    BY <2>1, <2>2, <2>3, <2>5 DEF LimitsInv
  <2>7. \A i \in Limiters : \A j \in Keys :
            passed'[i][j] = IF i = l /\ j = k THEN Stamped(l) ELSE passed[i][j]
    BY <2>1, <2>2 DEF LimitsInv
  <2>8. passed' \in [Limiters -> [Keys -> Seq(Stamp)]]
    <3>1. Stamped(l) \in Seq(Stamp)
      BY <2>5 DEF KeyInv
    <3> QED
      BY <2>1, <2>2, <3>1 DEF LimitsInv
  <2>9. ASSUME NEW i \in Limiters, NEW j \in Keys
        PROVE  KeyInv(passed'[i][j], data'[i][j], Limit[i], now)
    <3>1. CASE i # l
      BY <2>6, <2>7, <3>1 DEF LimitsInv
    <3>2. CASE i = l /\ j = k
      BY <2>5, <2>6, <2>7, <3>2
    <3>3. CASE i = l /\ j # k
      BY <2>3, <2>6, <2>7, <3>3
    <3> QED
      BY <3>1, <3>2, <3>3
  <2>10. req' \in [Requests -> RequestState]
    BY <2>1, KeyTyped DEF Advance, LimitsInv
  <2> QED
    BY <2>1, <2>6, <2>8, <2>9, <2>10 DEF LimitsInv
<1>8. ASSUME NEW r \in Requests, Reject(r) PROVE LimitsInv'
  <2>1. PICK l \in Limiters :
            /\ data' = [data EXCEPT ![l] = Unexpired(data[l])]
            /\ Refuse(r)
            /\ UNCHANGED <<now, passed>>
    BY <1>8 DEF Reject
  <2>2. /\ Unexpired(data[l]) \in [Keys -> Bucket]
        /\ \A k \in Keys : KeyInv(passed[l][k], Unexpired(data[l])[k], Limit[l], now)
    BY CleanedUp
  <2> QED
    BY <1>4, <2>1, <2>2 DEF LimitsInv
<1>9. ASSUME NEW r \in Requests, Answer(r) PROVE LimitsInv'
  BY <1>2, <1>9 DEF Answer, LimitsInv, RequestState
<1>10. CASE UNCHANGED vars
  BY <1>2, <1>10 DEF vars, LimitsInv
<1> QED
  BY <1>1, <1>3, <1>5, <1>6, <1>7, <1>8, <1>9, <1>10 DEF Next

(* The inductive invariant holds in every reachable state.                  *)
THEOREM CountsAreExact == Spec => []LimitsInv
<1> QED
  BY LimitsInitial, LimitsStep, PTL DEF Spec

(* Whenever requests arrive and however many clients there are, fewer than  *)
(* twice the limit of a key pass a limiter within any Window of time.       *)
THEOREM SpansAreBounded == Spec => []SpanBound
<1>1. LimitsInv => SpanBound
  <2> SUFFICES ASSUME LimitsInv, NEW l \in Limiters, NEW k \in Keys,
                      NEW n \in DOMAIN passed[l][k],
                      n + (2 * Limit[l] - 1) \in DOMAIN passed[l][k]
               PROVE  passed[l][k][n + (2 * Limit[l] - 1)].at >= passed[l][k][n].at + Window
    BY DEF SpanBound
  <2>1. passed[l][k] \in Seq(Stamp)
    BY DEF LimitsInv
  <2>2. DOMAIN passed[l][k] = 1 .. Len(passed[l][k])
    BY <2>1
  <2>3. KeyInv(passed[l][k], data[l][k], Limit[l], now)
    BY DEF LimitsInv
  <2>4. Len(passed[l][k]) # 0
    BY <2>1, <2>2
  <2>5. now \in Nat /\ Limit[l] \in Nat \ {0}
    BY <2>3, <2>4, LimitsAssumption DEF LimitsInv, KeyInv
  <2> QED
    BY <2>2, <2>3, <2>5, Span
<1> QED
  BY <1>1, CountsAreExact, PTL

-----------------------------------------------------------------------------
(* A full entry that is running counts limit admissions of the last Window. *)
LEMMA FullMeansLate ==
    ASSUME LimitsInv, NEW l \in Limiters, NEW k \in Keys, Limit[l] > 0,
           Live(data[l][k]), ~HasRoom(data[l][k], Limit[l])
    PROVE  Cardinality(LateAdmissions(passed[l][k])) >= Limit[l]
<1> DEFINE p == passed[l][k]
           e == data[l][k]
           Last == (Len(p) - e.count + 1) .. Len(p)
<1>1. /\ now \in Nat /\ Window \in Nat /\ Limit[l] \in Nat
      /\ p \in Seq(Stamp) /\ e \in Bucket
      /\ InWindow(p, now) /\ EntryCounts(p, e, Limit[l], now)
  BY LimitsAssumption DEF LimitsInv, KeyInv
<1>2. /\ Len(p) \in Nat /\ DOMAIN p = 1 .. Len(p)
      /\ \A n \in 1 .. Len(p) : p[n].window \in Nat /\ p[n].at \in Nat
  BY <1>1, Stamps
<1>3. /\ e.count \in Nat /\ e.start \in Nat /\ e.count > 0 /\ now - e.start < Window
  BY <1>1 DEF Live, Bucket
<1> HIDE DEF p, e
<1>4. e.count = Limit[l] /\ e.count <= Len(p)
  <2>1. e.count <= Limit[l] /\ e.count <= Len(p)
    BY <1>1, <1>3 DEF EntryCounts
  <2>2. ~(e.count < Limit[l])
    BY DEF e, HasRoom
  <2> QED
    BY <1>1, <1>3, <2>1, <2>2
<1>5. ASSUME NEW n \in Last PROVE n \in LateAdmissions(p)
  <2>1. n \in 1 .. Len(p) /\ n > Len(p) - e.count
    BY <1>2, <1>3, <1>4
  <2>2. p[n].window = e.start
    BY <1>1, <1>3, <2>1 DEF EntryCounts
  <2>3. p[n].window <= p[n].at
    BY <1>1, <2>1 DEF InWindow
  <2>4. now - p[n].at < Window
    BY <1>1, <1>2, <1>3, <2>1, <2>2, <2>3
  <2> QED
    BY <1>2, <2>1, <2>4 DEF LateAdmissions
<1>6. Cardinality(Last) = e.count
  <2>1. Len(p) - e.count + 1 \in Int /\ Len(p) \in Int
        /\ ~(Len(p) - e.count + 1 > Len(p))
        /\ Len(p) - (Len(p) - e.count + 1) + 1 = e.count
    BY <1>2, <1>3
  <2>2. Cardinality(Last) = IF Len(p) - e.count + 1 > Len(p) THEN 0
                            ELSE Len(p) - (Len(p) - e.count + 1) + 1
    BY <2>1, FS_Interval
  <2> QED
    BY <2>1, <2>2
<1>7. IsFiniteSet(LateAdmissions(p))
  <2>1. IsFiniteSet(1 .. Len(p))
    BY <1>2, FS_Interval
  <2>2. LateAdmissions(p) \subseteq 1 .. Len(p)
    BY <1>2 DEF LateAdmissions
  <2> QED
    BY <2>1, <2>2, FS_Subset
<1>8. Cardinality(Last) <= Cardinality(LateAdmissions(p))
  BY <1>5, <1>7, FS_Subset
<1>9. Cardinality(LateAdmissions(p)) \in Nat
  BY <1>7, FS_CardinalityType
<1> QED
  BY <1>1, <1>3, <1>4, <1>6, <1>8, <1>9 DEF p

(* Nobody is refused who has not used up the limit within the last Window.  *)
THEOREM RejectionsAreJustified == Spec => RejectionsAreDue
<1>1. ASSUME LimitsInv, [Next]_vars, NEW r \in Requests, NEW l \in Limiters, TurnedAway(r, l)
      PROVE  Cardinality(LateAdmissions(passed[l][KeyOf(r, l)])) >= Limit[l]
  <2>1. At(r, l) /\ ~req'[r].busy /\ req[r].busy
    BY <1>1, GateTyped DEF TurnedAway, At
  <2>2. req' # req
    BY <2>1
  <2>3. ~Tick /\ ~UNCHANGED vars
    BY <2>2 DEF Tick, vars
  <2>4. PICK s \in Requests : Arrive(s) \/ Authenticate(s) \/ Waive(s) \/ Admit(s)
                               \/ Reject(s) \/ Answer(s)
    BY <1>1, <2>3 DEF Next
  <2>5. req \in [Requests -> RequestState]
    BY <1>1 DEF LimitsInv
  <2>6. s = r
    BY <2>1, <2>4, <2>5 DEF Arrive, Authenticate, Waive, Admit, Reject, Answer, Advance, Refuse
  <2>7. l # "auth"
    BY DEF Limiters
  <2>8. ~Arrive(r) /\ ~Authenticate(r) /\ ~Answer(r)
    <3>1. ~Arrive(r) /\ ~Answer(r)
      BY <2>1 DEF Arrive, Answer, At
    <3>2. ~Authenticate(r)
      BY <2>1, <2>7 DEF Authenticate, At
    <3> QED
      BY <3>1, <3>2
  <2>9. ~Advance(r)
    <3>1. req[r] \in [busy : {TRUE}, ip : Ips, user : Users, todo : Seq(Limiters \cup {"auth"})]
      BY <1>1, <2>1, GateTyped DEF At
    <3> QED
      BY <2>1, <2>5, <3>1 DEF Advance
  <2>10. Reject(r)
    BY <2>4, <2>6, <2>8, <2>9 DEF Waive, Admit
  <2>11. PICK j \in Limiters : /\ At(r, j)
                               /\ Limit[j] > 0
                               /\ ~HasRoom(Unexpired(data[j])[KeyOf(r, j)], Limit[j])
    BY <2>10 DEF Reject
  <2>12. j = l
    BY <2>1, <2>11 DEF At
  <2>13. KeyOf(r, l) \in Keys
    BY <1>1, <2>1, KeyTyped
  <2>14. Live(data[l][KeyOf(r, l)])
         /\ Unexpired(data[l])[KeyOf(r, l)] = data[l][KeyOf(r, l)]
    <3>1. Limit[l] \in Nat
      BY LimitsAssumption
    <3>2. Unexpired(data[l])[KeyOf(r, l)] # Absent
      BY <2>11, <2>12, <3>1 DEF HasRoom, Absent
    <3> QED
      BY <1>1, <2>13, <3>2, CleanedUp
  <2> QED
    BY <1>1, <2>11, <2>12, <2>13, <2>14, FullMeansLate
<1>2. LimitsInv /\ [Next]_vars =>
        [\A r \in Requests, l \in Limiters : TurnedAway(r, l) =>
            Cardinality(LateAdmissions(passed[l][KeyOf(r, l)])) >= Limit[l]]_vars
  BY <1>1
<1> QED
  BY <1>2, CountsAreExact, PTL DEF Spec, RejectionsAreDue

(* The running window of a client changes only by its own requests, and     *)
(* only by counting them.                                                   *)
THEOREM ClientsDoNotInterfere == Spec => ClientsAreIndependent
<1>1. ASSUME LimitsInv, [Next]_vars, NEW l \in Limiters, NEW k \in Keys,
             Running(l, k), data'[l][k] # data[l][k]
      PROVE  /\ \E r \in Requests : At(r, l) /\ KeyOf(r, l) = k
             /\ data'[l][k] = [data[l][k] EXCEPT !.count = @ + 1]
  <2>1. Live(data[l][k])
    BY <1>1 DEF Running, Live
  <2>2. data[l] \in [Keys -> Bucket] /\ data \in [Limiters -> [Keys -> Bucket]]
    BY <1>1 DEF LimitsInv
  <2>3. Unexpired(data[l])[k] = data[l][k]
    BY <2>1 DEF Unexpired
  <2>4. PICK r \in Requests : Admit(r) \/ Reject(r)
    BY <1>1 DEF Next, vars, Tick, Arrive, Authenticate, Waive, Answer
  <2>5. CASE Reject(r)
    BY <1>1, <2>2, <2>3, <2>5 DEF Reject
  <2>6. CASE Admit(r)
    <3>1. PICK j \in Limiters :
              /\ At(r, j)
              /\ data' = [data EXCEPT ![j] = [Unexpired(data[j]) EXCEPT ![KeyOf(r, j)] =
                                                Counted(Unexpired(data[j])[KeyOf(r, j)])]]
      BY <2>6 DEF Admit
    <3>2. j = l
      BY <1>1, <2>2, <3>1
    <3>3. Unexpired(data[l]) \in [Keys -> Bucket]
      BY <1>1, CleanedUp
    <3>4. KeyOf(r, l) = k
      BY <1>1, <2>2, <2>3, <3>1, <3>2, <3>3
    <3>5. data'[l][k] = Counted(data[l][k])
      BY <2>2, <2>3, <3>1, <3>2, <3>3, <3>4
    <3>6. data[l][k].count # 0
      BY <2>1, <2>2 DEF Live, Bucket
    <3> QED
      BY <3>1, <3>2, <3>4, <3>5, <3>6 DEF Counted
  <2> QED
    BY <2>4, <2>5, <2>6
<1>2. LimitsInv /\ [Next]_vars =>
        [\A l \in Limiters : \A k \in Keys :
            Running(l, k) /\ data'[l][k] # data[l][k] =>
                /\ \E r \in Requests : At(r, l) /\ KeyOf(r, l) = k
                /\ data'[l][k] = [data[l][k] EXCEPT !.count = @ + 1]]_vars
  BY <1>1
<1> QED
  BY <1>2, CountsAreExact, PTL DEF Spec, ClientsAreIndependent

-----------------------------------------------------------------------------
(* The bounds of the types: the clock has its bound, and what is not an     *)
(* entry has no start.                                                      *)
EmptyAtZero == \A l \in Limiters : \A k \in Keys :
    data[l][k].count = 0 => data[l][k].start = 0

Bounded == now <= MaxTime /\ EmptyAtZero

LEMMA CleanedEmpty ==
    ASSUME EmptyAtZero, NEW l \in Limiters, NEW k \in Keys
    PROVE  Unexpired(data[l])[k].count = 0 => Unexpired(data[l])[k].start = 0
BY DEF Unexpired, EmptyAtZero, Absent

LEMMA BoundedStep == LimitsInv /\ Bounded /\ [Next]_vars => Bounded'
<1> SUFFICES ASSUME LimitsInv, Bounded, [Next]_vars PROVE Bounded'
  OBVIOUS
<1>1. now' <= MaxTime
  <2>1. Tick => now' <= MaxTime
    BY LimitsAssumption DEF Tick, LimitsInv
  <2>2. Tick \/ UNCHANGED now
    BY DEF Next, vars, Arrive, Authenticate, Waive, Admit, Reject, Answer
  <2> QED
    BY <2>1, <2>2 DEF Bounded
<1>2. UNCHANGED data => EmptyAtZero'
  BY DEF Bounded, EmptyAtZero
<1>3. ASSUME NEW r \in Requests, Reject(r) PROVE EmptyAtZero'
  <2>1. PICK l \in Limiters : data' = [data EXCEPT ![l] = Unexpired(data[l])]
    BY <1>3 DEF Reject
  <2> QED
    BY <2>1, CleanedEmpty DEF Bounded, EmptyAtZero, LimitsInv
<1>4. ASSUME NEW r \in Requests, Admit(r) PROVE EmptyAtZero'
  <2>1. PICK l \in Limiters :
            /\ At(r, l)
            /\ data' = [data EXCEPT ![l] = [Unexpired(data[l]) EXCEPT ![KeyOf(r, l)] =
                                              Counted(Unexpired(data[l])[KeyOf(r, l)])]]
    BY <1>4 DEF Admit
  <2>2. Unexpired(data[l]) \in [Keys -> Bucket]
    BY CleanedUp
  <2>3. KeyOf(r, l) \in Keys
    BY <2>1, KeyTyped
  <2>4. \A e \in Bucket : Counted(e).count # 0
    BY DEF Counted, Bucket
  <2>5. ASSUME NEW k \in Keys, data'[l][k].count = 0 PROVE data'[l][k].start = 0
    BY <2>1, <2>2, <2>3, <2>4, <2>5, CleanedEmpty DEF Bounded, LimitsInv
  <2>6. \A j \in Limiters \ {l} : data'[j] = data[j]
    BY <2>1 DEF LimitsInv
  <2> QED
    BY <2>5, <2>6 DEF Bounded, EmptyAtZero
<1> QED
  BY <1>1, <1>2, <1>3, <1>4
  DEF Bounded, Next, vars, Tick, Arrive, Authenticate, Waive, Answer

(* Every variable has its type, and no count passes its limit, whatever the *)
(* order of arrivals, clean-ups and refusals.                               *)
THEOREM LimitsTypeCorrect == Spec => []TypeOK
<1>1. Init => Bounded
  BY LimitsAssumption DEF Init, Bounded, EmptyAtZero, Absent
<1>2. LimitsInv /\ Bounded => TypeOK
  <2> SUFFICES ASSUME LimitsInv, Bounded PROVE TypeOK
    OBVIOUS
  <2>1. now \in 0 .. MaxTime
    BY LimitsAssumption DEF LimitsInv, Bounded
  <2>2. ASSUME NEW l \in Limiters, NEW k \in Keys
        PROVE  /\ data[l][k] \in [start : 0 .. now, count : 0 .. Limit[l]]
               /\ passed[l][k] \in Seq(Admission)
    <3>1. KeyInv(passed[l][k], data[l][k], Limit[l], now) /\ Limit[l] \in Nat
      BY LimitsAssumption DEF LimitsInv
    <3>2. data[l][k] \in [start : 0 .. now, count : 0 .. Limit[l]]
      BY <2>1, <3>1, LimitsAssumption
      DEF KeyInv, Bucket, EntryCounts, Bounded, EmptyAtZero
    <3> DEFINE p == passed[l][k]
    <3>3. p \in Seq(Stamp) /\ Len(p) \in Nat /\ InWindow(p, now)
      BY <3>1 DEF KeyInv
    <3>4. ASSUME NEW n \in 1 .. Len(p) PROVE p[n] \in Admission
      <4>1. p[n] \in Stamp /\ p[n].window <= p[n].at /\ p[n].at <= now
        BY <3>3, Stamps DEF InWindow
      <4> QED
        BY <2>1, <4>1, LimitsAssumption DEF Stamp, Admission
    <3>5. p = [n \in 1 .. Len(p) |-> p[n]]
      BY <3>3
    <3>6. p \in Seq(Admission)
      BY <3>3, <3>4, <3>5
    <3> QED
      BY <3>2, <3>6
  <2> QED
    BY <2>1, <2>2 DEF LimitsInv, TypeOK
<1> QED
  BY <1>1, <1>2, BoundedStep, CountsAreExact, PTL DEF Spec
=============================================================================
