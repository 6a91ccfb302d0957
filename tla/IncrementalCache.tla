------------------------- MODULE IncrementalCache --------------------------
(***************************************************************************)
(* The in-memory table caches (MoneyTransactionCache, AccountCache and the *)
(* dozen caches written after the same pattern).  A cache polls its table  *)
(* for rows with update_time > lastUpdateTime and moves lastUpdateTime up  *)
(* to the newest update_time it saw, less an error margin.  The hazard: a  *)
(* row gets its update_time when the statement runs and becomes visible at *)
(* commit, so rows do not appear in the order of their update_time; and    *)
(* update() runs on several threads at once, without a lock.               *)
(***************************************************************************)
EXTENDS Integers, FiniteSets

CONSTANTS
  Rows,            (* primary keys of the table                             *)
  Updaters,        (* threads that call update() or init() of the cache     *)
  Margin,          (* ERROR_VALUE                                           *)
  Skew,            (* application clock minus database clock                *)
  ComparesFirst,   (* isUpdated only for rows that differ (AccountCache)    *)
  Reloads,         (* refresh() calls init() (AccountCache), not update()   *)
  MaxTime, MaxVer, (* bounds: clock ticks, commits of one row               *)
  NoStamp          (* no uncommitted change                                 *)

ASSUME CacheAssumption ==
  /\ Margin \in Nat
  /\ Skew \in Int
  /\ ComparesFirst \in BOOLEAN /\ Reloads \in BOOLEAN
  /\ MaxTime \in Nat /\ MaxVer \in Nat
  /\ NoStamp \notin Nat

VARIABLES
  now,             (* SYSTIMESTAMP                                          *)
  (* the table *)
  time, ver,       (* update_time and version of the committed row; 0: none *)
  stamp,           (* update_time of its uncommitted change                 *)
  (* the cache *)
  cached,          (* version in the map; 0: no entry                       *)
  lastUpdateTime,
  (* the threads in update() and init() *)
  pc,
  maxUpdateTime,   (* queryTime until the rows are read                     *)
  snap,            (* versions read and not put yet; 0: not read            *)
  isUpdated,
  (* history *)
  loadedAt,        (* lastUpdateTime as the last init() left it             *)
  excused          (* rows with a cause to be out of date, see Excuse       *)

table == <<time, ver, stamp>>
cacheVars == <<cached, lastUpdateTime>>
local == <<maxUpdateTime, snap, isUpdated>>
vars == <<now, table, cacheVars, pc, local, loadedAt, excused>>

TypeOK ==
  /\ now \in Nat
  /\ time \in [Rows -> Nat]
  /\ ver \in [Rows -> Nat]
  /\ stamp \in [Rows -> Nat \cup {NoStamp}]
  /\ cached \in [Rows -> Nat] /\ \A r \in Rows : cached[r] <= ver[r]
  /\ lastUpdateTime \in Int
  /\ pc \in [Updaters -> {"idle", "query", "put", "loadQuery", "loadPut"}]
  /\ snap \in [Updaters -> [Rows -> Nat]]
  /\ \A u \in Updaters : \A r \in Rows : snap[u][r] <= ver[r]
  /\ maxUpdateTime \in [Updaters -> Int]
  /\ isUpdated \in [Updaters -> BOOLEAN]
  /\ loadedAt \in Int
  /\ excused \subseteq Rows

(* lastUpdateTime = 0 before init() of the application start. *)
Init ==
  /\ now = 1
  /\ time = [r \in Rows |-> 0]
  /\ ver = [r \in Rows |-> 0]
  /\ stamp = [r \in Rows |-> NoStamp]
  /\ cached = [r \in Rows |-> 0]
  /\ lastUpdateTime = 0
  /\ pc = [u \in Updaters |-> "idle"]
  /\ snap = [u \in Updaters |-> [r \in Rows |-> 0]]
  /\ maxUpdateTime = [u \in Updaters |-> 0]
  /\ isUpdated = [u \in Updaters |-> FALSE]
  /\ loadedAt = 0
  /\ excused = {}

-----------------------------------------------------------------------------
(* The table *)

Tick ==
  /\ now < MaxTime
  /\ now' = now + 1
  /\ UNCHANGED <<table, cacheVars, pc, local, loadedAt, excused>>

(* A statement of an open transaction sets update_time = SYSTIMESTAMP; a later
   one of the same transaction (refreshUpdateTime) sets it again.  The row lock
   and the resolution of the clock keep the stamps of a row apart. *)
Write(r) ==
  /\ ver[r] < MaxVer
  /\ now > time[r]
  /\ stamp' = [stamp EXCEPT ![r] = now]
  /\ UNCHANGED <<now, time, ver, cacheVars, pc, local, loadedAt, excused>>

(* The causes the scheme has no answer to, as of a commit: the row became
   visible Margin or more after its stamp; or with a stamp no newer than the
   clock an init() left behind; or while an init() has read the table already. *)
Excuse(r) ==
  \/ now - stamp[r] >= Margin
  \/ stamp[r] <= loadedAt
  \/ \E u \in Updaters : pc[u] = "loadPut"

Commit(r) ==
  /\ stamp[r] # NoStamp
  /\ time' = [time EXCEPT ![r] = stamp[r]]
  /\ ver' = [ver EXCEPT ![r] = @ + 1]
  /\ stamp' = [stamp EXCEPT ![r] = NoStamp]
  /\ excused' = IF Excuse(r) THEN excused \cup {r} ELSE excused \ {r}
  /\ UNCHANGED <<now, cacheVars, pc, local, loadedAt>>

Abort(r) ==
  /\ stamp[r] # NoStamp
  /\ stamp' = [stamp EXCEPT ![r] = NoStamp]
  /\ UNCHANGED <<now, time, ver, cacheVars, pc, local, loadedAt, excused>>

-----------------------------------------------------------------------------
(* update() *)

BeginUpdate(u) ==
  /\ pc[u] = "idle"
  /\ pc' = [pc EXCEPT ![u] = "query"]
  /\ maxUpdateTime' = [maxUpdateTime EXCEPT ![u] = lastUpdateTime]
  /\ UNCHANGED <<now, table, cacheVars, snap, isUpdated, loadedAt, excused>>

(* findAllByUpdateTime: a consistent read of the committed rows. *)
Newer(t) == {r \in Rows : ver[r] > 0 /\ time[r] > t}

QueryUncommitted(u) ==   \* mutant: a dirty read
  /\ pc[u] = "query"
  /\ pc' = [pc EXCEPT ![u] = "put"]
  /\ snap' = [snap EXCEPT ![u] = [r \in Rows |-> IF stamp[r] = NoStamp THEN 0 ELSE ver[r] + 1]]
  /\ UNCHANGED <<now, table, cacheVars, maxUpdateTime, isUpdated, loadedAt, excused>>

(* Rows that differ count as updated when they are put, if ComparesFirst. *)
Query(u) ==
  LET found == Newer(maxUpdateTime[u])
      times == {maxUpdateTime[u]} \cup {time[r] : r \in found}
  IN /\ pc[u] = "query"
     /\ pc' = [pc EXCEPT ![u] = "put"]
     /\ snap' = [snap EXCEPT ![u] = [r \in Rows |-> IF r \in found THEN ver[r] ELSE 0]]
     /\ \E m \in times :
          /\ \A t \in times : t <= m
          /\ maxUpdateTime' = [maxUpdateTime EXCEPT ![u] = m]
     /\ isUpdated' = [isUpdated EXCEPT ![u] = ~ComparesFirst /\ found # {}]
     /\ UNCHANGED <<now, table, cacheVars, loadedAt, excused>>

(* One row of the result goes into the map.  Overwriting a newer version that
   another updater has put excuses the row, too. *)
Put(u, r) ==
  /\ pc[u] \in {"put", "loadPut"}
  /\ snap[u][r] # 0
  /\ cached' = [cached EXCEPT ![r] = snap[u][r]]
  /\ snap' = [snap EXCEPT ![u][r] = 0]
  /\ isUpdated' = [isUpdated EXCEPT ![u] = @ \/ (ComparesFirst /\ cached[r] # snap[u][r])]
  /\ excused' = IF snap[u][r] < cached[r] THEN excused \cup {r} ELSE excused
  /\ UNCHANGED <<now, table, lastUpdateTime, pc, maxUpdateTime, loadedAt>>

(* The locals of the call are gone when it returns. *)
Return(u) ==
  /\ pc' = [pc EXCEPT ![u] = "idle"]
  /\ maxUpdateTime' = [maxUpdateTime EXCEPT ![u] = 0]
  /\ snap' = [snap EXCEPT ![u] = [r \in Rows |-> 0]]
  /\ isUpdated' = [isUpdated EXCEPT ![u] = FALSE]

AllPut(u) == \A r \in Rows : snap[u][r] = 0

(* lastUpdateTime = isUpdated ? maxUpdateTime - ERROR_VALUE : maxUpdateTime *)
NextUpdateTimeNoMargin(u) == maxUpdateTime[u]   \* mutant: no error margin

NextUpdateTime(u) == maxUpdateTime[u] - (IF isUpdated[u] THEN Margin ELSE 0)

FinishUpdateClock(u) ==   \* mutant: the watermark is the clock, as in init()
  /\ pc[u] = "put"
  /\ AllPut(u)
  /\ lastUpdateTime' = now
  /\ Return(u)
  /\ UNCHANGED <<now, table, cached, loadedAt, excused>>

FinishUpdate(u) ==
  /\ pc[u] = "put"
  /\ AllPut(u)
  /\ lastUpdateTime' = NextUpdateTime(u)
  /\ Return(u)
  /\ UNCHANGED <<now, table, cached, loadedAt, excused>>

-----------------------------------------------------------------------------
(* init(), at the application start and as the refresh() of AccountCache *)

(* AccountCache clears its map before it reads the table. *)
BeginLoad(u) ==
  /\ pc[u] = "idle"
  /\ ~Reloads => (\A x \in Updaters : pc[x] = "idle") /\ (\A r \in Rows : cached[r] = 0)
  /\ cached' = [r \in Rows |-> 0]
  /\ pc' = [pc EXCEPT ![u] = "loadQuery"]
  /\ UNCHANGED <<now, table, lastUpdateTime, local, loadedAt, excused>>

LoadQuery(u) ==
  /\ pc[u] = "loadQuery"
  /\ snap' = [snap EXCEPT ![u] = ver]
  /\ pc' = [pc EXCEPT ![u] = "loadPut"]
  /\ UNCHANGED <<now, table, cacheVars, maxUpdateTime, isUpdated, loadedAt, excused>>

(* lastUpdateTime = System.currentTimeMillis(), after the rows were read. *)
FinishLoad(u) ==
  /\ pc[u] = "loadPut"
  /\ AllPut(u)
  /\ lastUpdateTime' = now + Skew
  /\ loadedAt' = now + Skew
  /\ Return(u)
  /\ UNCHANGED <<now, table, cached, excused>>

(* An exception is logged and swallowed.  The rows a failed load leaves out are
   excused: nothing loads again, and the watermark may be past them. *)
Fail(u) ==
  /\ pc[u] # "idle"
  /\ Return(u)
  /\ excused' = IF pc[u] \in {"loadQuery", "loadPut"}
                THEN excused \cup {r \in Rows : cached[r] # ver[r]} ELSE excused
  /\ UNCHANGED <<now, table, cacheVars, loadedAt>>

Table == Tick \/ \E r \in Rows : Write(r) \/ Commit(r) \/ Abort(r)

Cache(u) ==
  \/ BeginUpdate(u) \/ Query(u) \/ FinishUpdate(u)
  \/ BeginLoad(u) \/ LoadQuery(u) \/ FinishLoad(u)
  \/ \E r \in Rows : Put(u, r)
  \/ Fail(u)

Next == Table \/ \E u \in Updaters : Cache(u)

Spec == Init /\ [][Next]_vars

(* The scheduler calls update() again and again, and the database is not out of
   reach for ever: a step that is possible again and again succeeds at last. *)
FairSpec ==
  /\ Spec
  /\ \A u \in Updaters :
       /\ SF_vars(BeginUpdate(u)) /\ SF_vars(Query(u))
       /\ SF_vars(FinishUpdate(u)) /\ \A r \in Rows : SF_vars(Put(u, r))
       /\ WF_vars(LoadQuery(u) \/ FinishLoad(u) \/ Fail(u))

-----------------------------------------------------------------------------
(* Properties *)

Quiet == \A u \in Updaters : pc[u] = "idle"

(* The cache has an outdated version of the row, or none, and no later update()
   will ask for it. *)
Lost(r) == Quiet /\ cached[r] # ver[r] /\ time[r] <= lastUpdateTime

(* "誤差值": with the error margin a row is lost only if it was committed
   Margin or later after its stamp, or around an init(), or if two concurrent
   updates overtook each other on it. *)
MarginCoversLateCommits == \A r \in Rows : Lost(r) => r \in excused

(* The cache catches up with every row that has no cause to be out of date,
   whatever polls overlap, fail or come late. *)
CatchesUp == \A r \in Rows : []<>(cached[r] = ver[r] \/ r \in excused)
=============================================================================
