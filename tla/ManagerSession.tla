--------------------------- MODULE ManagerSession ---------------------------
(***************************************************************************)
(* The login of one back-office manager on several servers.  The row of    *)
(* MANAGER names the session and the server of the last login, every       *)
(* server caches the managers that are on it (ManagerCache), and a filter  *)
(* in front of each page decides whether a session may go on.  A job       *)
(* refreshes the cache every second, and a change of the password does so  *)
(* as well: refreshes take no lock and meet each other and the logins.     *)
(* Sessions of a dead server move to another one.  The Manager object is   *)
(* shared by a session and the cache: what a refresh writes into it the    *)
(* session's logout reads.                                                 *)
(***************************************************************************)
EXTENDS Naturals, FiniteSets

CONSTANTS
  Servers,   \* the manager servers
  Sessions,  \* browser sessions; one that ended is never used again
  None,      \* no server, no session
  Logins,    \* bound: logins
  Changes,   \* bound: changes of the password or the status
  Crashes,   \* bound: servers that die
  Adoptions  \* bound: sessions that a server takes over

ManagerSessionAssumption ==
  /\ None \notin Servers \cup Sessions
  /\ {"new", "gone"} \cap Servers = {} /\ {"bean", "lost"} \cap (Sessions \cup {None}) = {}
  /\ Servers \cap Sessions = {}
  /\ Logins \in Nat /\ Changes \in Nat /\ Crashes \in Nat /\ Adoptions \in Nat

VARIABLES
  db,      \* the manager's row: [session, server, stamp, active]
  up,      \* the servers that run
  cache,   \* cache[v]: whose object v caches: a session's, its own Bean, None
  bean,    \* bean[v]: the object v has made or kept itself while it caches it
  refresh, \* refresh[x]: the refresh that thread x runs
  at,      \* at[s]: the server session s is on, New before and Gone after
  obj,     \* obj[s]: the Manager object of session s, Blank when it has none
  doing,   \* doing[s]: the handler of s that runs
  read,    \* read[s]: the stamp that the login of s has read
  left     \* the bounds: [logins, changes, crashes, adoptions]

serverVars == <<up, cache, bean, refresh>>
sessionVars == <<at, obj, doing, read>>
vars == <<db, serverVars, sessionVars, left>>

New == "new"
Gone == "gone"
Bean == "bean"
Lost == "lost"
Steps == {"idle", "asked", "login", "logout", "adopt", "store", "changed", "refresh"}
Phases == {"rest", "find", "write", "check", "remove"}
Object == [session : Sessions \cup {None}, server : Servers \cup {None}, stamp : Nat]
Blank == [session |-> None, server |-> None, stamp |-> 0]

(* The threads that refresh a cache: the job of a server, and the handler  *)
(* of a session that has changed its password.                             *)
Threads == Servers \cup Sessions
Home(x) == IF x \in Servers THEN x ELSE at[x]

(* A refresh: the rows it read; the cached object it found, Lost when that *)
(* is neither cached nor a session's any more; whether the object that is  *)
(* cached was stamped with its own start or later; and the refreshes of    *)
(* that server that started before it and still run.                       *)
Rest == [phase |-> "rest", rows |-> {}, target |-> None, fresh |-> FALSE, older |-> {}]
Running(v) == {x \in Threads : refresh[x].phase # "rest" /\ Home(x) = v}

Init ==
  /\ db = [session |-> None, server |-> None, stamp |-> 0, active |-> TRUE]
  /\ up = Servers /\ cache = [v \in Servers |-> None] /\ bean = [v \in Servers |-> Blank]
  /\ refresh = [x \in Threads |-> Rest]
  /\ at = [s \in Sessions |-> New] /\ obj = [s \in Sessions |-> Blank]
  /\ doing = [s \in Sessions |-> "idle"] /\ read = [s \in Sessions |-> 0]
  /\ left = [logins |-> Logins, changes |-> Changes, crashes |-> Crashes,
              adoptions |-> Adoptions]

Cached(v) == IF cache[v] = Bean THEN bean[v] ELSE obj[cache[v]]
SignedIn(s) == at[s] \in Servers /\ obj[s] # Blank
Step(s, from, to) == doing[s] = from /\ doing' = [doing EXCEPT ![s] = to]

(* What the refreshes of v hold when an object goes away, with the freshness *)
(* of what is cached instead.                                              *)
Redirected(x, from, to) == [refresh[x] EXCEPT !.target = IF @ \in from THEN to ELSE @]
Redirect(v, from, to) ==
  refresh' = [x \in Threads |-> IF x \in Running(v) THEN Redirected(x, from, to) ELSE refresh[x]]
Replace(v, from, f) ==
  refresh' = [x \in Threads |->
    IF x \in Running(v) THEN [Redirected(x, from, Lost) EXCEPT !.fresh = f] ELSE refresh[x]]

(* ManagerCache.add: the object of the login replaces any other. *)
Add(s, v, old) ==
  /\ cache' = [cache EXCEPT ![v] = s] /\ bean' = [bean EXCEPT ![v] = Blank]
  /\ Replace(v, {Bean} \cup old, TRUE)

(* ManagerCache.remove *)
Remove(v) ==
  /\ cache' = [cache EXCEPT ![v] = None] /\ bean' = [bean EXCEPT ![v] = Blank]
  /\ Replace(v, {Bean}, FALSE)

(* The object of a session that ends stays where it is cached. *)
KeepCached(s) ==
  IF at[s] \in Servers /\ cache[at[s]] = s
  THEN /\ cache' = [cache EXCEPT ![at[s]] = Bean] /\ bean' = [bean EXCEPT ![at[s]] = obj[s]]
       /\ Redirect(at[s], {s}, Bean)
  ELSE UNCHANGED <<cache, bean>> /\ Redirect(at[s], {s}, Lost)

Invalidate(s) ==
  /\ at' = [at EXCEPT ![s] = Gone]
  /\ obj' = [obj EXCEPT ![s] = Blank]
  /\ KeepCached(s)

----------------------------------------------------------------------------
(* Login. *)

(* The login page: a form that is filled in is posted. *)
login(s, v) ==
  /\ left.logins > 0 /\ v \in up /\ at[s] \in {New, v}
  /\ Step(s, "idle", "asked")
  /\ at' = [at EXCEPT ![s] = v]
  /\ left' = [left EXCEPT !.logins = @ - 1]
  /\ UNCHANGED <<db, serverVars, obj, read>>

(* A closed manager or a wrong password. *)
LoginRefused(s) ==
  /\ Step(s, "asked", "idle")
  /\ UNCHANGED <<db, serverVars, at, obj, read, left>>

(* managerAuthenticate: the row takes the session; its stamp stays. *)
managerAuthenticate(s) ==
  /\ db.active /\ Step(s, "asked", "login")
  /\ db' = [db EXCEPT !.session = s, !.server = at[s]]
  /\ read' = [read EXCEPT ![s] = db.stamp]
  /\ UNCHANGED <<serverVars, at, obj, left>>

(* doLogin: the object that was read goes into the cache and the session;  *)
(* the page goes on to the office.                                         *)
LoginAnswer(s) ==
  /\ Step(s, "login", "idle")
  /\ obj' = [obj EXCEPT ![s] = [session |-> s, server |-> at[s], stamp |-> read[s]]]
  /\ read' = [read EXCEPT ![s] = 0]
  /\ Add(s, at[s], {s})
  /\ UNCHANGED <<db, up, at, left>>

----------------------------------------------------------------------------
(* The filter in front of the pages. *)

OtherSession(s) == Cached(at[s]).session # s
OtherServer(s) == db.server # obj[s].server

MayAdopt(s) == ~OtherServer(s) /\ db.active

(* checkStatus: a cached manager decides by the session, the row by the    *)
(* server.                                                                 *)
Correct(s) == IF cache[at[s]] # None THEN ~OtherSession(s) ELSE MayAdopt(s)
Passes(s) == SignedIn(s) /\ Correct(s)

(* A page of a session that is not correct logs the manager out of it. *)
Refuse(s) ==
  /\ SignedIn(s) /\ ~Correct(s) /\ doing[s] = "idle"
  /\ Invalidate(s)
  /\ UNCHANGED <<db, up, doing, read, left>>

(* A session whose manager is not cached is taken over: it may come from a *)
(* dead server.                                                            *)
AdoptCheck(s) ==
  /\ left.adoptions > 0
  /\ SignedIn(s) /\ cache[at[s]] = None /\ MayAdopt(s)
  /\ Step(s, "idle", "adopt")
  /\ left' = [left EXCEPT !.adoptions = @ - 1]
  /\ UNCHANGED <<db, serverVars, at, obj, read>>

OldServer(s) == UNCHANGED obj   \* mutant: the object keeps the server it came from

(* setServerID *)
NewServer(s) == obj' = [obj EXCEPT ![s].server = at[s]]

AdoptAdd(s) ==
  /\ Step(s, "adopt", "store")
  /\ NewServer(s)
  /\ Add(s, at[s], {})
  /\ UNCHANGED <<db, up, at, read, left>>

(* updateServerID: the row keeps the session it has. *)
AdoptStore(s) ==
  /\ Step(s, "store", "idle")
  /\ db' = [db EXCEPT !.server = at[s], !.stamp = @ + 1]
  /\ UNCHANGED <<serverVars, at, obj, read, left>>

----------------------------------------------------------------------------
(* Logout. *)

(* ManagerBO.logout: only the session that the cache names. *)
IsCachedSession(s) == cache[at[s]] # None /\ Cached(at[s]).session = obj[s].session

(* A cached manager without a session makes ManagerBO.logout fail. *)
CanCompare(s) == cache[at[s]] # None => Cached(at[s]).session # None

(* LogUtil.logout *)
logout(s) ==
  /\ SignedIn(s) /\ CanCompare(s)
  /\ IF IsCachedSession(s)
     THEN /\ Step(s, "idle", "logout")
          /\ Remove(at[s])
          /\ UNCHANGED <<at, obj>>
     ELSE doing[s] = "idle" /\ Invalidate(s) /\ UNCHANGED doing
  /\ UNCHANGED <<db, up, read, left>>

(* ManagerDAO.logout: the row of that session on that server. *)
RowOfSession(s) == db.session = obj[s].session /\ db.server = obj[s].server

LogoutStore(s) ==
  /\ Step(s, "logout", "idle")
  /\ db' = IF RowOfSession(s)
           THEN [db EXCEPT !.session = None, !.server = None, !.stamp = @ + 1] ELSE db
  /\ Invalidate(s)
  /\ UNCHANGED <<up, read, left>>

----------------------------------------------------------------------------
(* The refreshes of a server's cache. *)

EveryStatus(v) == IF db.server = v THEN {db} ELSE {}   \* mutant: closed managers are read as well

(* findAllManagerByServerID *)
Rows(v) == IF db.server = v /\ db.active THEN {db} ELSE {}

(* update: the start and the rows, and when there are none the removals at *)
(* once.                                                                   *)
ReadRows(x, v) ==
  refresh' = [refresh EXCEPT ![x] =
    [phase |-> IF Rows(v) = {} THEN "check" ELSE "find", rows |-> Rows(v), target |-> None,
     fresh |-> FALSE, older |-> Running(v)]]

(* The job, of which one runs on a server. *)
RefreshRead(v) ==
  /\ v \in up /\ refresh[v].phase = "rest"
  /\ ReadRows(v, v)
  /\ UNCHANGED <<db, up, cache, bean, sessionVars, left>>

Copy(row) == [session |-> row.session, server |-> row.server, stamp |-> row.stamp]

(* get and putIfAbsent: what is put has no time stamp yet. *)
RefreshFind(x) ==
  LET v == Home(x)
      found(t) == [refresh[x] EXCEPT !.phase = "write", !.target = t]
  IN
  /\ refresh[x].phase = "find"
  /\ \/ /\ cache[v] # None
        /\ refresh' = [refresh EXCEPT ![x] = found(cache[v])]
        /\ UNCHANGED <<cache, bean>>
     \/ \E row \in refresh[x].rows :
          /\ cache[v] = None
          /\ cache' = [cache EXCEPT ![v] = Bean] /\ bean' = [bean EXCEPT ![v] = Copy(row)]
          /\ refresh' = [y \in Threads |-> IF y = x THEN found(Bean)
                                          ELSE IF y \in Running(v) THEN [refresh[y] EXCEPT !.fresh = FALSE]
                                          ELSE refresh[y]]
  /\ UNCHANGED <<obj, doing>>

(* An object with another stamp is overwritten by the row, whether it is   *)
(* still cached or not; its time becomes the start of the refresh, also    *)
(* when a later refresh has stamped it already.                            *)
Overwrite(t, v, row) ==
  /\ bean' = IF t = Bean /\ bean[v].stamp # row.stamp THEN [bean EXCEPT ![v] = Copy(row)] ELSE bean
  /\ obj' = IF t \in Sessions /\ obj[t].stamp # row.stamp THEN [obj EXCEPT ![t] = Copy(row)] ELSE obj

Stamped(x, y) ==
  [refresh[y] EXCEPT !.fresh = IF refresh[x].target = cache[Home(x)] THEN x \notin refresh[y].older ELSE @]

RefreshWrite(x) ==
  /\ refresh[x].phase = "write"
  /\ \E row \in refresh[x].rows : Overwrite(refresh[x].target, Home(x), row)
  /\ refresh' = [y \in Threads |-> IF y = x THEN [Stamped(x, x) EXCEPT !.phase = "check", !.rows = {}, !.target = None]
                                  ELSE IF y \in Running(Home(x)) THEN Stamped(x, y)
                                  ELSE refresh[y]]
  /\ UNCHANGED <<cache, doing>>

(* The refresh of thread x ends, and with it the handler of a session. *)
Ended(x, r) == [y \in Threads |-> IF y = x THEN Rest ELSE [r[y] EXCEPT !.older = @ \ {x}]]
Returns(x) == doing' = IF x \in Sessions THEN [doing EXCEPT ![x] = "idle"] ELSE doing

NeverOutdated(x) == FALSE   \* mutant: managers of other servers stay cached

(* What was neither read nor added since is no longer of this server. *)
Outdated(x) == cache[Home(x)] # None /\ ~refresh[x].fresh

RefreshCheck(x) ==
  /\ refresh[x].phase = "check"
  /\ IF Outdated(x)
     THEN refresh' = [refresh EXCEPT ![x].phase = "remove"] /\ UNCHANGED doing
     ELSE refresh' = Ended(x, refresh) /\ Returns(x)
  /\ UNCHANGED <<cache, bean, obj>>

(* It is removed by its key, whatever is cached under it by now. *)
RefreshRemove(x) ==
  /\ refresh[x].phase = "remove"
  /\ cache' = [cache EXCEPT ![Home(x)] = None] /\ bean' = [bean EXCEPT ![Home(x)] = Blank]
  /\ refresh' = Ended(x, [y \in Threads |->
       IF y \in Running(Home(x)) THEN [Redirected(y, {Bean}, Lost) EXCEPT !.fresh = FALSE] ELSE refresh[y]])
  /\ Returns(x)
  /\ UNCHANGED obj

RefreshApply(x) ==
  /\ RefreshFind(x) \/ RefreshWrite(x) \/ RefreshCheck(x) \/ RefreshRemove(x)
  /\ UNCHANGED <<db, up, at, read, left>>

----------------------------------------------------------------------------
(* Others. *)

(* changeManagerPassword, of a session that passes. *)
changePassword(s) ==
  /\ left.changes > 0 /\ Passes(s)
  /\ Step(s, "idle", "changed")
  /\ db' = [db EXCEPT !.stamp = @ + 1]
  /\ left' = [left EXCEPT !.changes = @ - 1]
  /\ UNCHANGED <<serverVars, at, obj, read>>

(* It goes on with a refresh. *)
ChangeRefresh(s) ==
  /\ Step(s, "changed", "refresh") /\ ReadRows(s, at[s])
  /\ UNCHANGED <<db, up, cache, bean, at, obj, read, left>>

(* The status of a manager is changed outside this code. *)
ChangeStatus ==
  /\ left.changes > 0
  /\ db' = [db EXCEPT !.active = ~@, !.stamp = @ + 1]
  /\ left' = [left EXCEPT !.changes = @ - 1]
  /\ UNCHANGED <<serverVars, sessionVars>>

(* A server dies: what it cached and the handlers on it are lost, and its  *)
(* sessions move to another server.                                        *)
Crash(v, to) ==
  /\ left.crashes > 0 /\ v \in up /\ to \in up \ {v}
  /\ up' = up \ {v}
  /\ cache' = [cache EXCEPT ![v] = None] /\ bean' = [bean EXCEPT ![v] = Blank]
  /\ refresh' = [x \in Threads |-> IF Home(x) = v THEN Rest ELSE refresh[x]]
  /\ at' = [s \in Sessions |-> IF at[s] = v THEN to ELSE at[s]]
  /\ doing' = [s \in Sessions |-> IF at[s] = v THEN "idle" ELSE doing[s]]
  /\ read' = [s \in Sessions |-> IF at[s] = v THEN 0 ELSE read[s]]
  /\ left' = [left EXCEPT !.crashes = @ - 1]
  /\ UNCHANGED <<db, obj>>

(* ManagerCache.init: the rows that name a server that starts are cleared. *)
StartServer(v) ==
  /\ v \in Servers \ up /\ up' = up \cup {v}
  /\ db' = IF db.server = v
           THEN [db EXCEPT !.session = None, !.server = None, !.stamp = @ + 1] ELSE db
  /\ UNCHANGED <<cache, bean, refresh, sessionVars, left>>

Serve(s) ==
  managerAuthenticate(s) \/ LoginRefused(s) \/ LoginAnswer(s)
    \/ AdoptAdd(s) \/ AdoptStore(s) \/ LogoutStore(s) \/ ChangeRefresh(s)

Next ==
  \/ \E s \in Sessions :
       \/ \E v \in Servers : login(s, v)
       \/ Serve(s) \/ Refuse(s) \/ AdoptCheck(s) \/ logout(s) \/ changePassword(s)
  \/ \E v \in Servers : RefreshRead(v) \/ StartServer(v)
  \/ \E x \in Threads : RefreshApply(x)
  \/ \E v, to \in Servers : Crash(v, to)
  \/ ChangeStatus

Spec == Init /\ [][Next]_vars

(* Handlers end, and the job of a server that runs fires every second. *)
Fairness ==
  /\ \A s \in Sessions : WF_vars(Serve(s))
  /\ \A v \in Servers : WF_vars(RefreshRead(v))
  /\ \A x \in Threads : WF_vars(RefreshApply(x))

LiveSpec == Spec /\ Fairness

----------------------------------------------------------------------------
(* Rows, caches and sessions are well formed; a cached session's object is *)
(* there, and a handler runs only for a session on a server.               *)
TypeOK ==
  /\ db.session \in Sessions \cup {None} /\ db.server \in Servers \cup {None}
  /\ up \subseteq Servers
  /\ cache \in [Servers -> Sessions \cup {Bean, None}]
  /\ bean \in [Servers -> Object] /\ obj \in [Sessions -> Object]
  /\ doing \in [Sessions -> Steps]
  /\ \A v \in Servers : cache[v] \in Sessions => obj[cache[v]] # Blank
  /\ \A s \in Sessions : doing[s] # "idle" => at[s] \in up

(* The object a server caches names that server, also when its session     *)
(* came from a dead one: the row's server is compared with it as soon as   *)
(* the manager is not cached (checkStatus).                                *)
CachedIsHere == \A v \in Servers : cache[v] # None => Cached(v).server = v

Named(s) == SignedIn(s) /\ cache[at[s]] # None /\ ~OtherSession(s)

(* Once logins and crashes are over, one session of the manager at most is *)
(* named by the cache of its server, on all servers together.              *)
OneNamed == Cardinality({s \in Sessions : Named(s)}) <= 1
OneInTheEnd == <>[]OneNamed

(* A manager who is closed for good is out of every server, whatever the   *)
(* filter and the refresh did meanwhile.                                   *)
Closed == ~db.active
Out == \A s \in Sessions : ~Passes(s)
ClosedIsOut == <>[]Closed => <>[]Out

----------------------------------------------------------------------------
(* What the proofs rest on.  Rows, refreshes and handlers are typed, and a *)
(* session is on a server that runs.                                       *)
Row == [session : Sessions \cup {None}, server : Servers \cup {None}, stamp : Nat, active : BOOLEAN]

Refreshes == [phase : Phases, rows : SUBSET Row, target : Sessions \cup {Bean, Lost, None},
              fresh : BOOLEAN, older : SUBSET Threads]

Typed ==
  /\ db \in Row
  /\ up \subseteq Servers
  /\ cache \in [Servers -> Sessions \cup {Bean, None}]
  /\ bean \in [Servers -> Object] /\ obj \in [Sessions -> Object]
  /\ refresh \in [Threads -> Refreshes]
  /\ doing \in [Sessions -> Steps]
  /\ read \in [Sessions -> Nat]
  /\ at \in [Sessions -> up \cup {New, Gone}]
  /\ \A s \in Sessions : doing[s] # "idle" => at[s] \in up
  /\ \A s \in Sessions : refresh[s].phase # "rest" => doing[s] = "refresh"
  /\ \A v \in Servers : refresh[v].phase # "rest" => v \in up

(* A refresh holds rows that name its server, and an object of a session   *)
(* that is there or the one the server caches.                             *)
Holds(x) ==
  refresh[x].phase # "rest" =>
    /\ \A row \in refresh[x].rows : row.server = Home(x)
    /\ refresh[x].target \in Sessions => at[refresh[x].target] = Home(x)
    /\ refresh[x].target = Bean => cache[Home(x)] = Bean

(* A server caches the object of a session that is on it, and both kinds   *)
(* of objects name the server.                                             *)
Placed ==
  /\ \A v \in Servers : cache[v] \in Sessions => at[cache[v]] = v /\ obj[cache[v]].server = v
  /\ \A v \in Servers : cache[v] = Bean => bean[v].server = v

IInv == Typed /\ Placed /\ \A x \in Threads : Holds(x)
=============================================================================
