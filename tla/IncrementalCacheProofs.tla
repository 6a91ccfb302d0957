---------------------- MODULE IncrementalCacheProofs ------------------------
(***************************************************************************)
(* For caches that count every row they read as an update (all but         *)
(* AccountCache and its like): a row is lost only for one of the causes    *)
(* Excuse and Put record, whatever the margin, the clocks, the number of   *)
(* rows and the number of threads that poll at once.                       *)
(*                                                                         *)
(* The argument: no watermark, in the cache or in a running update(), is   *)
(* past what Reached allows, so a row that commits in time is ahead of all *)
(* of them.  It stays ahead until an update has read it, or a load has.    *)
(***************************************************************************)
EXTENDS IncrementalCache, TLAPS

(* A watermark this high is passed by no row that commits in time. *)
Reached(x) == x <= 0 \/ x <= loadedAt \/ x <= now - Margin

TimesInv ==
  /\ now >= 1
  /\ \A r \in Rows : time[r] <= now
  /\ \A r \in Rows : stamp[r] # NoStamp => stamp[r] >= 1 /\ stamp[r] <= now
  /\ loadedAt <= 0 \/ loadedAt <= now + Skew
  /\ Reached(lastUpdateTime)
  /\ \A u \in Updaters :
       /\ pc[u] = "query" => Reached(maxUpdateTime[u])
       /\ pc[u] = "put" => IF isUpdated[u] THEN maxUpdateTime[u] <= now
                                           ELSE Reached(maxUpdateTime[u])

(* A running init() will put, or has yet to read, the newest version. *)
Covered(r) ==
  \E w \in Updaters : \/ pc[w] = "loadQuery"
                      \/ pc[w] = "loadPut" /\ snap[w][r] = ver[r]

(* No update() moves the watermark past the row without putting it. *)
Behind(r) ==
  /\ lastUpdateTime < time[r]
  /\ \A u \in Updaters :
       /\ pc[u] = "query" => maxUpdateTime[u] < time[r]
       /\ pc[u] = "put" => snap[u][r] = ver[r] \/ NextUpdateTime(u) < time[r]

RowInv(r) ==
  /\ cached[r] = ver[r] \/ Covered(r) \/ Behind(r)
  /\ \A u \in Updaters : pc[u] = "loadPut" => cached[r] = ver[r] \/ Covered(r)

NotLost == \A r \in Rows \ excused : RowInv(r)

CacheInv == TypeOK /\ TimesInv /\ NotLost

-----------------------------------------------------------------------------

(* The map holds versions the table has had, and every variable has its type,
   at every step of any number of update() and init() calls. *)
THEOREM CacheTypeOK == Spec => []TypeOK
<1>. USE CacheAssumption
<1>1. Init => TypeOK
  BY DEF Init, TypeOK
<1>2. TypeOK /\ [Next]_vars => TypeOK'
  <2>. SUFFICES ASSUME TypeOK, [Next]_vars PROVE TypeOK'
    OBVIOUS
  <2>1. CASE Tick
    BY <2>1 DEF TypeOK, Tick, table, cacheVars, local
  <2>2. ASSUME NEW r \in Rows, Write(r) PROVE TypeOK'
    BY <2>2 DEF TypeOK, Write, cacheVars, local
  <2>3. ASSUME NEW r \in Rows, Commit(r) PROVE TypeOK'
    <3>1. stamp[r] \in Nat /\ ver'[r] = ver[r] + 1 /\ ver' \in [Rows -> Nat]
      BY <2>3 DEF TypeOK, Commit
    <3>2. \A q \in Rows : ver[q] <= ver'[q]
      BY <2>3 DEF TypeOK, Commit
    <3>3. \A q \in Rows : cached[q] <= ver'[q]
      BY <3>1, <3>2 DEF TypeOK
    <3>4. \A u \in Updaters : \A q \in Rows : snap[u][q] <= ver'[q]
      BY <3>1, <3>2 DEF TypeOK
    <3>. QED BY <2>3, <3>1, <3>3, <3>4 DEF TypeOK, Commit, cacheVars, local
  <2>4. ASSUME NEW r \in Rows, Abort(r) PROVE TypeOK'
    BY <2>4 DEF TypeOK, Abort, cacheVars, local
  <2>5. ASSUME NEW u \in Updaters, BeginUpdate(u) PROVE TypeOK'
    BY <2>5 DEF TypeOK, BeginUpdate, table, cacheVars
  <2>6. ASSUME NEW u \in Updaters, Query(u) PROVE TypeOK'
    <3>. DEFINE found == Newer(maxUpdateTime[u])
    <3>1. maxUpdateTime' \in [Updaters -> Int]
      BY <2>6 DEF TypeOK, Query, Newer
    <3>2. snap' = [snap EXCEPT ![u] = [r \in Rows |-> IF r \in found THEN ver[r] ELSE 0]]
      BY <2>6 DEF Query
    <3>3. snap' \in [Updaters -> [Rows -> Nat]]
          /\ \A w \in Updaters : \A r \in Rows : snap'[w][r] <= ver[r]
      <4>. HIDE DEF found
      <4>. QED BY <3>2 DEF TypeOK
    <3>. QED BY <2>6, <3>1, <3>3 DEF TypeOK, Query, table, cacheVars
  <2>7. ASSUME NEW u \in Updaters, FinishUpdate(u) PROVE TypeOK'
    BY <2>7 DEF TypeOK, FinishUpdate, NextUpdateTime, Return, table
  <2>8. ASSUME NEW u \in Updaters, BeginLoad(u) PROVE TypeOK'
    BY <2>8 DEF TypeOK, BeginLoad, table, local
  <2>9. ASSUME NEW u \in Updaters, LoadQuery(u) PROVE TypeOK'
    BY <2>9 DEF TypeOK, LoadQuery, table, cacheVars
  <2>10. ASSUME NEW u \in Updaters, FinishLoad(u) PROVE TypeOK'
    BY <2>10 DEF TypeOK, FinishLoad, Return, table
  <2>11. ASSUME NEW u \in Updaters, NEW r \in Rows, Put(u, r) PROVE TypeOK'
    BY <2>11 DEF TypeOK, Put, table
  <2>12. ASSUME NEW u \in Updaters, Fail(u) PROVE TypeOK'
    BY <2>12 DEF TypeOK, Fail, Return, table, cacheVars
  <2>13. CASE UNCHANGED vars
    BY <2>13 DEF TypeOK, vars, table, cacheVars, local
  <2>. QED
    BY <2>1, <2>2, <2>3, <2>4, <2>5, <2>6, <2>7, <2>8, <2>9, <2>10, <2>11, <2>12, <2>13
    DEF Next, Table, Cache
<1>. QED
  BY <1>1, <1>2, PTL DEF Spec

-----------------------------------------------------------------------------

(* No step moves a watermark further than Reached allows. *)
LEMMA TimesStep ==
  ASSUME ~ComparesFirst, TypeOK, TypeOK', TimesInv, [Next]_vars
  PROVE  TimesInv'
<1>. USE CacheAssumption
<1>1. CASE Tick
  BY <1>1 DEF TypeOK, TimesInv, Reached, Tick, table, cacheVars, local
<1>2. ASSUME NEW r \in Rows, Write(r) PROVE TimesInv'
  BY <1>2 DEF TypeOK, TimesInv, Reached, Write, cacheVars, local
<1>3. ASSUME NEW r \in Rows, Commit(r) PROVE TimesInv'
  BY <1>3 DEF TypeOK, TimesInv, Reached, Commit, cacheVars, local
<1>4. ASSUME NEW r \in Rows, Abort(r) PROVE TimesInv'
  BY <1>4 DEF TypeOK, TimesInv, Reached, Abort, cacheVars, local
<1>5. ASSUME NEW u \in Updaters, BeginUpdate(u) PROVE TimesInv'
  BY <1>5 DEF TypeOK, TimesInv, Reached, BeginUpdate, table, cacheVars
<1>6. ASSUME NEW u \in Updaters, Query(u) PROVE TimesInv'
  <2>. DEFINE found == Newer(maxUpdateTime[u])
  <2>1. CASE found = {}
    <3>1. maxUpdateTime' = maxUpdateTime /\ ~isUpdated'[u]
      BY <1>6, <2>1 DEF Query, TypeOK
    <3>. QED BY <1>6, <3>1 DEF TypeOK, TimesInv, Reached, Query, table, cacheVars
  <2>2. CASE found # {}
    <3>1. PICK m \in {maxUpdateTime[u]} \cup {time[r] : r \in found} :
            /\ \A t \in {maxUpdateTime[u]} \cup {time[r] : r \in found} : t <= m
            /\ maxUpdateTime' = [maxUpdateTime EXCEPT ![u] = m]
      BY <1>6 DEF Query
    <3>2. m <= now
      <4>1. PICK q \in found : TRUE
        BY <2>2
      <4>2. q \in Rows /\ time[q] > maxUpdateTime[u] /\ time[q] <= m
        BY <4>1, <3>1 DEF Newer
      <4>3. m # maxUpdateTime[u]
        BY <4>2 DEF TypeOK
      <4>4. PICK r \in Rows : m = time[r]
        BY <3>1, <4>3 DEF Newer
      <4>. QED BY <4>4 DEF TimesInv
    <3>3. isUpdated' = [isUpdated EXCEPT ![u] = TRUE]
      BY <1>6, <2>2 DEF Query
    <3>. QED BY <1>6, <3>1, <3>2, <3>3 DEF TypeOK, TimesInv, Reached, Query, table, cacheVars
  <2>. QED BY <2>1, <2>2
<1>7. ASSUME NEW u \in Updaters, FinishUpdate(u) PROVE TimesInv'
  <2>1. Reached(NextUpdateTime(u))
    BY <1>7 DEF TypeOK, TimesInv, Reached, FinishUpdate, NextUpdateTime
  <2>. QED BY <1>7, <2>1 DEF TypeOK, TimesInv, Reached, FinishUpdate, Return, table
<1>8. ASSUME NEW u \in Updaters, BeginLoad(u) PROVE TimesInv'
  BY <1>8 DEF TypeOK, TimesInv, Reached, BeginLoad, table, local
<1>9. ASSUME NEW u \in Updaters, LoadQuery(u) PROVE TimesInv'
  BY <1>9 DEF TypeOK, TimesInv, Reached, LoadQuery, table, cacheVars
<1>10. ASSUME NEW u \in Updaters, FinishLoad(u) PROVE TimesInv'
  <2>1. \A x \in Int : Reached(x) => Reached(x)'
    BY <1>10 DEF TypeOK, TimesInv, Reached, FinishLoad
  <2>2. Reached(lastUpdateTime)'
    BY <1>10 DEF TypeOK, Reached, FinishLoad
  <2>. QED BY <1>10, <2>1, <2>2 DEF TypeOK, TimesInv, Reached, FinishLoad, Return, table
<1>11. ASSUME NEW u \in Updaters, NEW r \in Rows, Put(u, r) PROVE TimesInv'
  <2>1. isUpdated' = isUpdated
    BY <1>11 DEF TypeOK, Put
  <2>. QED BY <1>11, <2>1 DEF TypeOK, TimesInv, Reached, Put, table
<1>12. ASSUME NEW u \in Updaters, Fail(u) PROVE TimesInv'
  BY <1>12 DEF TypeOK, TimesInv, Reached, Fail, Return, table, cacheVars
<1>13. CASE UNCHANGED vars
  BY <1>13 DEF TimesInv, Reached, vars, table, cacheVars, local
<1>. QED
  BY <1>1, <1>2, <1>3, <1>4, <1>5, <1>6, <1>7, <1>8, <1>9, <1>10, <1>11, <1>12, <1>13
  DEF Next, Table, Cache

-----------------------------------------------------------------------------

(* The two ways to break RowInv by removing something, taken one at a time. *)
LEMMA CoveredStays ==
  ASSUME NEW r \in Rows, NEW u \in Updaters, Covered(r),
         pc[u] # "loadQuery", ~(pc[u] = "loadPut" /\ snap[u][r] = ver[r]),
         \A w \in Updaters \ {u} : pc'[w] = pc[w] /\ snap'[w] = snap[w],
         ver' = ver
  PROVE  Covered(r)'
BY DEF Covered

(* A commit that gives no cause to be excused is ahead of every watermark. *)
LEMMA CommitStep ==
  ASSUME TypeOK, TimesInv, NotLost, NEW q \in Rows, Commit(q)
  PROVE  NotLost'
<1>. USE CacheAssumption
<1>1. SUFFICES ASSUME NEW r \in Rows \ excused' PROVE RowInv(r)'
  BY DEF NotLost
<1>2. CASE r = q
  <2>1. ~Excuse(q)
    BY <1>2, <1>1 DEF Commit
  <2>2. time'[r] = stamp[q] /\ stamp[q] \in Nat /\ stamp[q] >= 1
    BY <1>2 DEF Commit, TypeOK, TimesInv
  <2>3. \A x \in Int : Reached(x) => x < stamp[q]
    BY <2>1, <2>2 DEF Excuse, Reached, TypeOK
  <2>4. lastUpdateTime' < time'[r]
    BY <2>2, <2>3 DEF Commit, TypeOK, TimesInv, cacheVars
  <2>5. ASSUME NEW u \in Updaters, pc[u] = "query" PROVE maxUpdateTime'[u] < time'[r]
    BY <2>2, <2>3, <2>5 DEF Commit, TypeOK, TimesInv, local
  <2>6. ASSUME NEW u \in Updaters, pc[u] = "put" PROVE NextUpdateTime(u)' < time'[r]
    <3>1. Reached(NextUpdateTime(u))
      BY <2>6 DEF NextUpdateTime, TypeOK, TimesInv, Reached
    <3>2. NextUpdateTime(u)' = NextUpdateTime(u) /\ NextUpdateTime(u) \in Int
      BY DEF NextUpdateTime, Commit, TypeOK, local
    <3>. QED BY <2>2, <2>3, <3>1, <3>2
  <2>7. Behind(r)'
    BY <2>4, <2>5, <2>6 DEF Behind, Commit
  <2>8. \A u \in Updaters : pc'[u] # "loadPut"
    BY <2>1 DEF Excuse, Commit
  <2>. QED BY <2>7, <2>8 DEF RowInv
<1>3. CASE r # q
  <2>1. r \notin excused
    BY <1>1, <1>3 DEF Commit
  <2>2. time'[r] = time[r] /\ ver'[r] = ver[r]
    BY <1>3 DEF Commit, TypeOK
  <2>3. RowInv(r)
    BY <2>1 DEF NotLost
  <2>. QED BY <2>2, <2>3 DEF RowInv, Covered, Behind, NextUpdateTime, Commit, cacheVars, local
<1>. QED BY <1>2, <1>3

(* A version that is not the newest, put over a row that is not excused, went
   over an older one: the row was not up to date before, either. *)
LEMMA PutStep ==
  ASSUME ~ComparesFirst, TypeOK, NotLost, NEW u \in Updaters, NEW q \in Rows, Put(u, q)
  PROVE  NotLost'
<1>. USE CacheAssumption
<1>1. SUFFICES ASSUME NEW r \in Rows \ excused' PROVE RowInv(r)'
  BY DEF NotLost
<1>2. r \notin excused /\ RowInv(r)
  BY <1>1 DEF Put, NotLost
<1>3. \A w \in Updaters : \A x \in Rows : w # u \/ x # q => snap'[w][x] = snap[w][x]
  BY DEF Put, TypeOK
<1>4. /\ pc' = pc /\ ver' = ver /\ time' = time /\ lastUpdateTime' = lastUpdateTime
      /\ maxUpdateTime' = maxUpdateTime /\ isUpdated' = isUpdated
  BY DEF Put, TypeOK, table
<1>5. CASE r # q
  <2>1. cached'[r] = cached[r] /\ \A w \in Updaters : snap'[w][r] = snap[w][r]
    BY <1>3, <1>5 DEF Put, TypeOK
  <2>. QED BY <1>2, <1>4, <2>1 DEF RowInv, Covered, Behind, NextUpdateTime
<1>6. CASE r = q /\ snap[u][q] = ver[q]
  <2>1. cached'[r] = ver'[r]
    BY <1>4, <1>6 DEF Put, TypeOK
  <2>. QED BY <2>1 DEF RowInv
<1>7. CASE r = q /\ snap[u][q] # ver[q]
  <2>1. snap[u][q] >= cached[q]
    BY <1>1, <1>7 DEF Put, TypeOK
  <2>2. cached[q] # ver[q]
    <3>1. snap[u][q] \in Nat /\ ver[q] \in Nat /\ snap[u][q] <= ver[q]
      BY DEF TypeOK
    <3>. QED BY <1>7, <2>1, <3>1
  <2>3. Covered(r) => Covered(r)'
    BY <1>3, <1>4, <1>7 DEF Covered
  <2>4. Behind(r) => Behind(r)'
    BY <1>3, <1>4, <1>7 DEF Behind, NextUpdateTime
  <2>. QED BY <1>2, <1>4, <1>7, <2>2, <2>3, <2>4 DEF RowInv
<1>. QED BY <1>5, <1>6, <1>7

(* No other step of a thread or of the table loses a row. *)
LEMMA NotLostStep ==
  ASSUME ~ComparesFirst, TypeOK, TypeOK', TimesInv, NotLost, [Next]_vars
  PROVE  NotLost'
<1>. USE CacheAssumption
<1>1. CASE Tick
  BY <1>1 DEF NotLost, RowInv, Covered, Behind, NextUpdateTime, Tick, table, cacheVars, local
<1>2. ASSUME NEW r \in Rows, Write(r) PROVE NotLost'
  BY <1>2 DEF NotLost, RowInv, Covered, Behind, NextUpdateTime, Write, cacheVars, local
<1>3. ASSUME NEW r \in Rows, Commit(r) PROVE NotLost'
  BY <1>3, CommitStep
<1>4. ASSUME NEW r \in Rows, Abort(r) PROVE NotLost'
  BY <1>4 DEF NotLost, RowInv, Covered, Behind, NextUpdateTime, Abort, cacheVars, local
<1>5. ASSUME NEW u \in Updaters, BeginUpdate(u) PROVE NotLost'
  <2>1. SUFFICES ASSUME NEW r \in Rows \ excused' PROVE RowInv(r)'
    BY DEF NotLost
  <2>2. RowInv(r)
    BY <1>5 DEF BeginUpdate, NotLost
  <2>3. Covered(r) => Covered(r)'
    BY <1>5 DEF Covered, BeginUpdate, TypeOK, table
  <2>4. Behind(r) => Behind(r)'
    BY <1>5 DEF Behind, NextUpdateTime, BeginUpdate, TypeOK, table, cacheVars
  <2>. QED BY <1>5, <2>2, <2>3, <2>4 DEF RowInv, BeginUpdate, TypeOK, table, cacheVars
<1>6. ASSUME NEW u \in Updaters, Query(u) PROVE NotLost'
  <2>1. SUFFICES ASSUME NEW r \in Rows \ excused' PROVE RowInv(r)'
    BY DEF NotLost
  <2>2. RowInv(r)
    BY <1>6 DEF Query, NotLost
  <2>3. Covered(r) => Covered(r)'
    BY <1>6, CoveredStays DEF Query, TypeOK, table
  <2>4. ASSUME Behind(r), cached[r] # ver[r] PROVE Behind(r)'
    <3>1. maxUpdateTime[u] < time[r] /\ ver[r] > 0
      BY <1>6, <2>4 DEF Behind, Query, TypeOK
    <3>2. snap'[u][r] = ver[r]
      BY <1>6, <3>1 DEF Query, Newer, TypeOK
    <3>3. \A w \in Updaters \ {u} : NextUpdateTime(w)' = NextUpdateTime(w)
      BY <1>6 DEF Query, NextUpdateTime, TypeOK
    <3>. QED BY <1>6, <2>4, <3>2, <3>3 DEF Behind, Query, TypeOK, table, cacheVars
  <2>. QED BY <1>6, <2>2, <2>3, <2>4 DEF RowInv, Query, TypeOK, table, cacheVars
<1>7. ASSUME NEW u \in Updaters, FinishUpdate(u) PROVE NotLost'
  <2>1. SUFFICES ASSUME NEW r \in Rows \ excused' PROVE RowInv(r)'
    BY DEF NotLost
  <2>2. RowInv(r)
    BY <1>7 DEF FinishUpdate, NotLost
  <2>3. Covered(r) => Covered(r)'
    BY <1>7, CoveredStays DEF FinishUpdate, Return, TypeOK, table
  <2>4. ASSUME Behind(r), cached[r] # ver[r] PROVE Behind(r)'
    <3>1. snap[u][r] # ver[r]
      BY <1>7, <2>4 DEF FinishUpdate, AllPut, TypeOK
    <3>2. lastUpdateTime' < time'[r]
      BY <1>7, <2>4, <3>1 DEF Behind, FinishUpdate, table
    <3>3. \A w \in Updaters \ {u} : NextUpdateTime(w)' = NextUpdateTime(w)
      BY <1>7 DEF FinishUpdate, Return, NextUpdateTime, TypeOK
    <3>. QED BY <1>7, <2>4, <3>2, <3>3 DEF Behind, FinishUpdate, Return, TypeOK, table
  <2>. QED BY <1>7, <2>2, <2>3, <2>4 DEF RowInv, FinishUpdate, Return, TypeOK, table
<1>8. ASSUME NEW u \in Updaters, BeginLoad(u) PROVE NotLost'
  <2>1. \A r \in Rows : Covered(r)'
    BY <1>8 DEF Covered, BeginLoad, TypeOK
  <2>. QED BY <2>1 DEF NotLost, RowInv
<1>9. ASSUME NEW u \in Updaters, LoadQuery(u) PROVE NotLost'
  <2>1. \A r \in Rows : Covered(r)'
    BY <1>9 DEF Covered, LoadQuery, TypeOK, table
  <2>. QED BY <2>1 DEF NotLost, RowInv
<1>10. ASSUME NEW u \in Updaters, FinishLoad(u) PROVE NotLost'
  <2>1. SUFFICES ASSUME NEW r \in Rows \ excused' PROVE RowInv(r)'
    BY DEF NotLost
  <2>2. cached[r] = ver[r] \/ Covered(r)
    BY <1>10 DEF FinishLoad, NotLost, RowInv
  <2>3. Covered(r) /\ cached[r] # ver[r] => Covered(r)'
    <3>1. SUFFICES ASSUME Covered(r), cached[r] # ver[r] PROVE Covered(r)'
      OBVIOUS
    <3>2. snap[u][r] # ver[r]
      BY <1>10, <3>1 DEF FinishLoad, AllPut, TypeOK
    <3>. QED BY <1>10, <3>1, <3>2, CoveredStays DEF FinishLoad, Return, TypeOK, table
  <2>. QED BY <1>10, <2>2, <2>3 DEF RowInv, FinishLoad, table
<1>11. ASSUME NEW u \in Updaters, NEW r \in Rows, Put(u, r) PROVE NotLost'
  BY <1>11, PutStep
<1>12. ASSUME NEW u \in Updaters, Fail(u) PROVE NotLost'
  <2>1. SUFFICES ASSUME NEW r \in Rows \ excused' PROVE RowInv(r)'
    BY DEF NotLost
  <2>2. RowInv(r)
    BY <1>12 DEF Fail, NotLost
  <2>3. CASE pc[u] \in {"loadQuery", "loadPut"}
    <3>1. cached[r] = ver[r]
      BY <1>12, <2>1, <2>3 DEF Fail
    <3>. QED BY <1>12, <3>1 DEF RowInv, Fail, table, cacheVars
  <2>4. CASE pc[u] \notin {"loadQuery", "loadPut"}
    <3>1. Covered(r) => Covered(r)'
      BY <1>12, <2>4, CoveredStays DEF Fail, Return, TypeOK, table
    <3>2. \A w \in Updaters \ {u} : NextUpdateTime(w)' = NextUpdateTime(w)
      BY <1>12 DEF Fail, Return, NextUpdateTime, TypeOK
    <3>3. Behind(r) => Behind(r)'
      BY <1>12, <3>2 DEF Behind, Fail, Return, TypeOK, table, cacheVars
    <3>. QED BY <1>12, <2>2, <3>1, <3>3 DEF RowInv, Fail, Return, TypeOK, table, cacheVars
  <2>. QED BY <2>3, <2>4
<1>13. CASE UNCHANGED vars
  BY <1>13 DEF NotLost, RowInv, Covered, Behind, NextUpdateTime, vars, table, cacheVars, local
<1>. QED
  BY <1>1, <1>2, <1>3, <1>4, <1>5, <1>6, <1>7, <1>8, <1>9, <1>10, <1>11, <1>12, <1>13
  DEF Next, Table, Cache

-----------------------------------------------------------------------------

(* The error margin does its work: in a cache that counts what it reads, a row
   is lost only after a commit Margin or more behind its update_time, a commit
   around an init(), or two updates that overtook each other. *)
THEOREM CacheMarginCoversLateCommits ==
  ASSUME ~ComparesFirst
  PROVE  Spec => []MarginCoversLateCommits
<1>. USE CacheAssumption
<1>1. Init => TimesInv /\ NotLost
  <2>1. Init => TimesInv
    BY DEF Init, TimesInv, Reached
  <2>2. Init => NotLost
    BY DEF Init, NotLost, RowInv
  <2>. QED BY <2>1, <2>2
<1>2. TypeOK /\ TypeOK' /\ TimesInv /\ NotLost /\ [Next]_vars => TimesInv' /\ NotLost'
  BY TimesStep, NotLostStep
<1>3. TypeOK /\ NotLost => MarginCoversLateCommits
  <2>1. SUFFICES ASSUME TypeOK, NotLost, NEW r \in Rows, Lost(r), r \notin excused PROVE FALSE
    BY DEF MarginCoversLateCommits
  <2>2. RowInv(r)
    BY <2>1 DEF NotLost
  <2>3. ~Covered(r)
    BY <2>1 DEF Lost, Quiet, Covered
  <2>. QED BY <2>1, <2>2, <2>3 DEF RowInv, Behind, Lost, TypeOK
<1>. QED
  BY CacheTypeOK, <1>1, <1>2, <1>3, PTL DEF Spec
=============================================================================
