------------------------------- MODULE Tables -------------------------------
(***************************************************************************)
(* The server's tables (server/db*.c), the SQLite provider under them      *)
(* (dbprovider), the handlers that use them (server/res_*.c), the start    *)
(* and the end of the server (server_startup, server_stop), with crashes   *)
(* and restarts.                                                           *)
(*                                                                         *)
(* The provider has one lock.  dbp_query takes it and returns with it      *)
(* held, dbp_query_reset gives it back, dbp_exec does both.  A list is     *)
(* read with two queries, the first of which counts the rows that the      *)
(* array for the second must hold; the lock is free in between.  What      *)
(* keeps the two together is the dispatcher, which calls handlers one at a *)
(* time.                                                                   *)
(*                                                                         *)
(* A handler is the sequence of calls that it still has to make, as the    *)
(* start of the server is for the main thread.  A failing assert ends the  *)
(* process, like a crash; the tables stay, memory does not.  How sessions  *)
(* are found and counted is the subject of Session; here a handler looks   *)
(* its session up in one step.                                             *)
(***************************************************************************)
EXTENDS Integers, FiniteSets, Sequences, FiniteSetsExt, TLC

CONSTANTS
  Threads,      \* threads of the pool
  Fds,          \* descriptors
  Requests,     \* what clients ask for
  Databases,    \* what the database may hold before the first start
  MaxRequests,  \* bound: how many requests are handled
  MaxCrashes    \* bound: how often the process crashes or is stopped

ASSUME TablesAssumption ==
  /\ MaxRequests \in Nat /\ MaxCrashes \in Nat
  /\ "main" \notin Threads /\ "free" \notin Threads

Actors == Threads \cup {"main"}

VARIABLES
  db,        \* the tables that exist, each a set of rows
  phase,     \* the process: down, starting, up or stopping
  why,       \* of a process that is down: what made it fail, or none
  todo,      \* what each thread has still to do
  req,       \* the request a thread of the pool handles
  mem,       \* its local variables
  dbl,       \* who holds the provider's lock; none: there is no provider
  cursor,    \* the rows of the provider's statement that are not fetched yet
  disp,      \* who holds the dispatcher's lock; gone: there is no dispatcher
  sessions,  \* the session of each descriptor
  slock,     \* who holds session_lock; lost: a handler that has ended
  taken, crashes

vars == <<db, phase, why, todo, req, mem, dbl, cursor, disp, sessions, slock, taken, crashes>>
process == <<phase, why, crashes>>

NoRequest == [op |-> "none"]
NoSession == [uid |-> "none", type |-> "none", admin |-> 0]

\* hit: the query found a row; size: of the array; rows: read; who: a session
NoMem == [hit |-> FALSE, size |-> 0, rows |-> {}, who |-> NoSession]

\* A process that has not begun to work.
Fresh ==
  /\ todo = [a \in Actors |-> << >>] /\ req = [t \in Threads |-> NoRequest]
  /\ mem = [a \in Actors |-> NoMem] /\ dbl = "none" /\ cursor = {} /\ disp = "gone"
  /\ sessions = [fd \in Fds |-> NoSession] /\ slock = "free"

\* Memory is lost with the process.
Lost ==
  /\ todo' = [a \in Actors |-> << >>] /\ req' = [t \in Threads |-> NoRequest]
  /\ mem' = [a \in Actors |-> NoMem] /\ dbl' = "none" /\ cursor' = {} /\ disp' = "gone"
  /\ sessions' = [fd \in Fds |-> NoSession] /\ slock' = "free"

Init ==
  /\ db \in Databases /\ phase = "down" /\ why = "none"
  /\ Fresh /\ taken = 0 /\ crashes = 0
-----------------------------------------------------------------------------
(* Calls of the provider.  where: columns and their values.  none, some:   *)
(* the answer a handler returns with when no row, or a row, was found, or  *)
(* "" to go on; miss: how many calls are left out when none was.           *)
Query(how, from, where) == [do |-> "query", how |-> how, from |-> from, where |-> where]
Reset(none, some, miss) == [do |-> "reset", none |-> none, some |-> some, miss |-> miss]
Exec(what, from, arg) == [do |-> "exec", what |-> what, from |-> from, arg |-> arg]
Do(what) == [do |-> what]
Answer(result) == [do |-> "answer", result |-> result]

Everything == << >>

\* A look-up: one query, of which the first row is read.
GetOne(from, where, none, some) == <<Query("one", from, where), Reset(none, some, 0)>>

\* A list: a query that counts, and when there are rows one that reads them.
GetAll(from, where) ==
  <<Query("count", from, where), Reset("", "", 3),
    Query("rows", from, where), Do("fetch"), Reset("", "", 0)>>

DbAccountInit == Exec("create", "account", Everything)
\* Of what server_init_db adds it has made sure with a look-up just before.
Seed(from, row) == Exec("seed", from, row)
DbAccountAdd(row) == Exec("insert", "account", row)
DbAccountGetOne(uid, none, some) == GetOne("account", [uid |-> uid], none, some)
DbAccountGet == GetAll("account", Everything)
DbAccountPwdCheck(uid, pwd, none) == GetOne("account", [uid |-> uid, pwd |-> pwd], none, "")
DbAccountUpdatePwd(uid, pwd) == Exec("update", "account", [uid |-> uid, set |-> [pwd |-> pwd]])
DbAccountUpdateNick(uid, nick) == Exec("update", "account", [uid |-> uid, set |-> [nick |-> nick]])
DbAccountUpdateComment(uid, text) == Exec("update", "account", [uid |-> uid, set |-> [comment |-> text]])
DbAccountDel(uid) == Exec("delete", "account", [uid |-> uid])

DbDishInit == Exec("create", "dish", Everything)
DbDishAdd(row) == Seed("dish", row)
\* The list is left out when the caller gives no place for it.
DbDishCount(category) ==
  <<Query("count", "dish", [category |-> category]), Reset("", "", 2)>> \o GetOne("dish", [category |-> category], "", "")
DbDishGetByCategory(category) == GetAll("dish", [category |-> category])
DbDishGetOne(id, none) == GetOne("dish", [id |-> id], none, "")

DbSeatInit == Exec("create", "seat", Everything)
DbSeatAdd(row) == Seed("seat", row)
DbSeatGet == GetAll("seat", Everything)
DbSeatGetOne(id, none) == GetOne("seat", [id |-> id], none, "")

DbBookInit == Exec("create", "book", Everything)
DbBookAdd(seat, dish) == Exec("book", "book", [seat |-> seat, dish |-> dish])
DbBookDel(id) == Exec("delete", "book", [id |-> id])
DbBookGet(seat) == GetAll("book", [seat |-> seat])

Youmenu == [uid |-> "youmenu", type |-> "admin", pwd |-> "youmenu", nick |-> "youmenu", comment |-> "default"]
HotDish == [id |-> 0, category |-> "hot"]
Seat0 == [id |-> 0]

\* Mutant of InitSeat: the default seat is added without a look.
InitSeatAlways ==
  <<DbSeatInit, Exec("insert", "seat", Seat0)>> \o DbSeatGet

InitAccount ==
  <<DbAccountInit>>
    \o DbAccountGetOne("youmenu", "", "") \o <<Seed("account", Youmenu)>>
InitDish ==
  <<DbDishInit>> \o DbDishCount("hot") \o <<DbDishAdd(HotDish)>> \o DbDishGetByCategory("hot")
InitSeat ==
  <<DbSeatInit>>
    \o DbSeatGetOne(0, "") \o <<DbSeatAdd(Seat0)>> \o DbSeatGet
InitBook == <<DbBookInit>>

\* server_startup: the provider, tables, default rows, then the network.
Startup ==
  <<Do("db_init")>> \o InitAccount \o InitDish \o InitSeat \o InitBook \o <<Do("service"), Do("up")>>

\* server_stop: the service, the sessions, then the provider.
Shutdown == <<Do("disp_destroy"), Do("io_destroy"), Do("session_destroy"), Do("db_deinit")>>
-----------------------------------------------------------------------------
(* The handlers.  Program is what one does before it looks at its session, *)
(* the others what it does with the session s that it found.               *)
Login(q) ==
  DbAccountGetOne(q.uid, "user_not_exist", "")
    \o DbAccountPwdCheck(q.uid, q.pwd, "invalid_user_or_pwd")
    \o <<Do("exist")>> \o DbAccountGetOne(q.uid, "assert", "") \o <<Do("open"), Answer("ok")>>

Program(q) ==
  CASE q.op = "login" -> Login(q)
    [] q.op = "version_check" -> <<Answer("no_newest")>>
    [] q.op = "modify_pwd" /\ q.pwd = q.new -> <<Answer("modify_pwd_same")>>
    [] OTHER -> <<Do("session")>>

IsMenu(s) == s.type \in {"menu", "admin"}

DishFetch(q, s) ==
  IF ~IsMenu(s) THEN <<Answer("no_permission")>>
  ELSE DbDishGetByCategory(q.category) \o <<Answer("list")>>

\* What a request leaves out is -1; the amount is like the seat and the dish.
DishBook(q, s) ==
  CASE ~IsMenu(s) -> <<Answer("no_permission")>>
    [] IsMenu(s) /\ (q.seat < 0 \/ q.dish < 0) -> <<Answer("illegal_parameter")>>
    [] OTHER -> DbDishGetOne(q.dish, "dish_id_invalid")
                  \o DbSeatGetOne(q.seat, "seat_id_invalid")
                  \o <<DbBookAdd(q.seat, q.dish), Answer("ok")>>

\* The seat is looked up; the booking with that number is deleted.
DishCancel(q, s) ==
  CASE ~IsMenu(s) -> <<Answer("no_permission")>>
    [] IsMenu(s) /\ q.seat < 0 -> <<Answer("illegal_parameter")>>
    [] OTHER -> DbSeatGetOne(q.seat, "seat_id_invalid")
                  \o <<DbBookDel(q.seat), Answer("ok")>>

DishList(q, s) ==
  CASE ~IsMenu(s) -> <<Answer("no_permission")>>
    [] IsMenu(s) /\ q.seat < 0 -> <<Answer("illegal_parameter")>>
    [] OTHER -> DbSeatGetOne(q.seat, "seat_id_invalid")
                  \o DbBookGet(q.seat) \o <<Answer("list")>>

SeatList(s) ==
  IF s = NoSession THEN <<Answer("no_permission")>> ELSE DbSeatGet \o <<Answer("list")>>

AccountList(s) ==
  IF s.type # "admin" THEN <<Answer("no_permission")>> ELSE DbAccountGet \o <<Answer("list")>>

\* cook_id stays -1: the parameter is never read into it.
CookAccept(s) ==
  CASE s = NoSession -> <<Answer("ok")>>
    [] s # NoSession /\ s.type \notin {"cook", "admin"} -> <<Answer("no_permission")>>
    [] OTHER -> <<Answer("illegal_parameter")>>

\* Of a create the type of the new account is the client's.
Create(q, s) ==
  IF s.admin = 0 THEN <<Answer("no_permission")>>
  ELSE DbAccountGetOne(q.uid, "", "create_uid_exist")
         \o <<DbAccountAdd([uid |-> q.uid, type |-> q.type, pwd |-> q.pwd, nick |-> "a", comment |-> "a"]),
              Answer("ok")>>

\* db_account_pwd_check(old_pwd, old_pwd): the password is the name, too.
ModifyPwd(q, s) ==
  IF s = NoSession THEN <<Answer("session_expired")>>
  ELSE DbAccountPwdCheck(q.pwd, q.pwd, "old_pwd_incorrect")
         \o <<DbAccountUpdatePwd(s.uid, q.new), Answer("ok")>>

ModifyBasic(s) ==
  IF s = NoSession THEN <<Answer("session_expired")>>
  ELSE <<DbAccountUpdateNick(s.uid, "b"),
         DbAccountUpdateComment(s.uid, "b"), Answer("ok")>>

DeleteOwn(q, s) ==
  (IF s.type = "admin" THEN DbAccountGet \o <<Do("admins")>> ELSE << >>)
    \o <<Do("close"), DbAccountDel(q.uid), Answer("ok")>>
DeleteOther(q, s) ==
  IF s.admin = 0 THEN <<Answer("no_permission")>>
  ELSE <<Do("dref"), DbAccountDel(q.uid), Answer("ok")>>
Delete(q, s) ==
  IF s = NoSession THEN <<Answer("session_expired")>>
  ELSE DbAccountPwdCheck(s.uid, q.pwd, "old_pwd_incorrect")
         \o (IF s.uid = q.uid THEN DeleteOwn(q, s) ELSE DeleteOther(q, s))

Rest(q, s) ==
  CASE q.op = "dish_fetch" -> DishFetch(q, s) [] q.op = "dish_book" -> DishBook(q, s)
    [] q.op = "dish_cancel" -> DishCancel(q, s) [] q.op = "dish_list" -> DishList(q, s)
    [] q.op = "seat_list" -> SeatList(s) [] q.op = "cook_accept" -> CookAccept(s)
    [] q.op = "account_list" -> AccountList(s) [] q.op = "create" -> Create(q, s)
    [] q.op = "modify_pwd" -> ModifyPwd(q, s) [] q.op = "modify_basic" -> ModifyBasic(s)
    [] q.op = "delete" -> Delete(q, s)
    [] q.op = "heartbeat" -> <<Answer(IF s = NoSession THEN "0" ELSE "1")>>

\* These keep session_lock from the look-up on.
Holds(q) == q.op \in {"modify_pwd", "modify_basic", "delete"}

\* And these return without giving it back (res_account.c:631 and 704).
Keeps(q, result) ==
  \/ q.op = "modify_basic" /\ result # "session_expired"
  \/ q.op = "delete" /\ result = "old_pwd_incorrect"
-----------------------------------------------------------------------------
Step(a, what) == todo[a] # << >> /\ Head(todo[a]).do = what
Call(a) == Head(todo[a])
Go(a, rest) == todo' = [todo EXCEPT ![a] = rest]
Drop(a, n) == Go(a, SubSeq(todo[a], n + 2, Len(todo[a])))
Local(a, m) == mem' = [mem EXCEPT ![a] = m]

\* The process ends: by a crash, by a failing assert or by abort in free.
Abort(reason) ==
  /\ phase' = "down" /\ why' = reason /\ Lost
  /\ UNCHANGED <<db, taken, crashes>>

Crash ==
  /\ phase # "down" /\ crashes < MaxCrashes /\ crashes' = crashes + 1
  /\ phase' = "down" /\ why' = "none" /\ Lost
  /\ UNCHANGED <<db, taken>>

Restart ==
  /\ phase = "down" /\ phase' = "starting" /\ why' = "none" /\ Go("main", Startup)
  /\ UNCHANGED <<db, req, mem, dbl, cursor, disp, sessions, slock, taken, crashes>>

\* db_init: assert(a_dbp == NULL), and the provider is made, with its lock.
DbInit ==
  /\ Step("main", "db_init") /\ dbl = "none" /\ dbl' = "free" /\ Drop("main", 0)
  /\ UNCHANGED <<db, process, req, mem, cursor, disp, sessions, slock, taken>>

\* ep_service_start: from now on connections are accepted and read.
StartService ==
  /\ Step("main", "service") /\ disp' = "free" /\ Drop("main", 0)
  /\ UNCHANGED <<db, process, req, mem, dbl, cursor, sessions, slock, taken>>

\* A request of a category without a handler yet is dropped.
Unregistered ==
  /\ phase = "starting" /\ disp = "free" /\ taken < MaxRequests /\ taken' = taken + 1
  /\ UNCHANGED <<db, process, todo, req, mem, dbl, cursor, disp, sessions, slock>>

\* session_init, ep_service_event and ep_service_register.
Up ==
  /\ Step("main", "up") /\ phase' = "up" /\ Drop("main", 0)
  /\ UNCHANGED <<db, why, req, mem, dbl, cursor, disp, sessions, slock, taken, crashes>>

Stop ==
  /\ phase = "up" /\ crashes < MaxCrashes /\ crashes' = crashes + 1
  /\ phase' = "stopping" /\ Go("main", Shutdown)
  /\ UNCHANGED <<db, why, req, mem, dbl, cursor, disp, sessions, slock, taken>>

\* ep_disp_destroy waits for the handler that runs, and frees the dispatcher.
DispDestroy ==
  /\ Step("main", "disp_destroy") /\ disp = "free" /\ disp' = "gone" /\ Drop("main", 0)
  /\ UNCHANGED <<db, process, req, mem, dbl, cursor, sessions, slock, taken>>

\* The listening socket is closed and nothing else: the loop goes on to read
\* from connections, and the pool to run tasks, with the dispatcher freed.
TakeStopped ==
  /\ phase = "stopping" /\ disp = "gone" /\ Abort("stop")

\* ep_io_destroy: ep_tp_destroy waits for the threads of the pool.
IoDestroy ==
  /\ Step("main", "io_destroy") /\ (\A t \in Threads : todo[t] = << >>) /\ Drop("main", 0)
  /\ UNCHANGED <<db, process, req, mem, dbl, cursor, disp, sessions, slock, taken>>

SessionDestroy ==
  /\ Step("main", "session_destroy") /\ slock = "free" /\ Drop("main", 0)
  /\ sessions' = [fd \in Fds |-> NoSession]
  /\ UNCHANGED <<db, process, req, mem, dbl, cursor, disp, slock, taken>>

\* db_deinit frees the provider; then the process ends.
DbDeinit == Step("main", "db_deinit") /\ Abort("none")

\* Mutant of Take: a handler that only reads runs beside another.
TakeReaders(t, q) ==
  /\ phase \in {"up", "stopping"} /\ todo[t] = << >> /\ taken < MaxRequests
  /\ disp = "free" \/ q.op = "account_list"
  /\ taken' = taken + 1 /\ disp' = t /\ req' = [req EXCEPT ![t] = q] /\ Go(t, Program(q)) /\ Local(t, NoMem)
  /\ UNCHANGED <<db, process, dbl, cursor, sessions, slock>>

\* ep_disp_processor: a thread of the pool calls the handler of a request
\* with the dispatcher's lock held.
Take(t, q) ==
  /\ phase \in {"up", "stopping"} /\ disp = "free" /\ todo[t] = << >> /\ taken < MaxRequests
  /\ taken' = taken + 1 /\ disp' = t /\ req' = [req EXCEPT ![t] = q] /\ Go(t, Program(q)) /\ Local(t, NoMem)
  /\ UNCHANGED <<db, process, dbl, cursor, sessions, slock>>

\* The handler returns, its answer is sent, and the lock is given back.
Return(t) ==
  /\ Step(t, "answer") /\ Go(t, << >>) /\ disp' = "free"
  /\ req' = [req EXCEPT ![t] = NoRequest] /\ Local(t, NoMem)
  /\ slock' = CASE slock = t /\ Keeps(req[t], Call(t).result) -> "lost"
                [] slock = t /\ ~Keeps(req[t], Call(t).result) -> "free"
                [] OTHER -> slock
  /\ UNCHANGED <<db, process, dbl, cursor, sessions, taken>>

\* session_ref_fd, and session_dref unless the handler keeps the session.
FindSession(t) ==
  LET s == sessions[req[t].fd]
  IN  /\ Step(t, "session") /\ slock = "free"
      /\ Go(t, Rest(req[t], s)) /\ Local(t, [mem[t] EXCEPT !.who = s])
      /\ slock' = IF Holds(req[t]) /\ s # NoSession THEN t ELSE slock
      /\ UNCHANGED <<db, process, req, dbl, cursor, disp, sessions, taken>>

\* res_account_check_session_exist: the sessions of the user and of the
\* descriptor are deleted.
CheckExist(t) ==
  /\ Step(t, "exist") /\ slock = "free" /\ Drop(t, 0)
  /\ sessions' = [fd \in Fds |->
       IF fd = req[t].fd \/ sessions[fd].uid = req[t].uid THEN NoSession ELSE sessions[fd]]
  /\ UNCHANGED <<db, process, req, mem, dbl, cursor, disp, slock, taken>>

\* A login adds a session.  The type is that of the account row; admin is
\* what the stack held.
Open(t) ==
  LET a == CHOOSE r \in mem[t].rows : TRUE
  IN  /\ Step(t, "open") /\ slock = "free" /\ Drop(t, 0)
      /\ \E garbage \in {0, 1} :
           sessions' = [sessions EXCEPT ![req[t].fd] = [uid |-> a.uid, type |-> a.type, admin |-> garbage]]
      /\ UNCHANGED <<db, process, req, mem, dbl, cursor, disp, slock, taken>>

\* res_account_delete counts the admins it has read.
Admins(rows) == {r \in rows : r.type = "admin"}

\* Mutant of CountAdmins: the last admin is not counted.
CountAdminsLess(t) ==
  /\ Step(t, "admins")
  /\ IF Cardinality(Admins(mem[t].rows)) < 1 THEN Go(t, <<Answer("cannot_delete_last_admin")>>) ELSE Drop(t, 0)
  /\ UNCHANGED <<db, process, req, mem, dbl, cursor, disp, sessions, slock, taken>>

CountAdmins(t) ==
  /\ Step(t, "admins")
  /\ IF Cardinality(Admins(mem[t].rows)) <= 1 THEN Go(t, <<Answer("cannot_delete_last_admin")>>) ELSE Drop(t, 0)
  /\ UNCHANGED <<db, process, req, mem, dbl, cursor, disp, sessions, slock, taken>>

\* session_dref, then session_del_fd and session_del_token of the own account.
CloseOwn(t) ==
  /\ Step(t, "close") /\ Drop(t, 0) /\ slock' = "free"
  /\ sessions' = [sessions EXCEPT ![req[t].fd] = NoSession]
  /\ UNCHANGED <<db, process, req, mem, dbl, cursor, disp, taken>>

Dref(t) ==
  /\ Step(t, "dref") /\ Drop(t, 0) /\ slock' = "free"
  /\ UNCHANGED <<db, process, req, mem, dbl, cursor, disp, sessions, taken>>

\* A connection ends: service_event_cb calls session_del_fd.
Close(fd) ==
  /\ sessions[fd] # NoSession /\ slock = "free"
  /\ sessions' = [sessions EXCEPT ![fd] = NoSession]
  /\ UNCHANGED <<db, process, todo, req, mem, dbl, cursor, disp, slock, taken>>
-----------------------------------------------------------------------------
Select(from, where) == {r \in db[from] : \A c \in DOMAIN where : r[c] = where[c]}

\* dbp_query_sqlite: the lock is taken and kept; the first step of the
\* statement tells whether there is a row.
DbpQuery(a) ==
  LET c == Call(a)
      found == Select(c.from, c.where)
  IN  /\ Step(a, "query") /\ dbl \in {"free", "none"}
      /\ IF dbl = "none" THEN Abort("provider")
         ELSE IF c.from \notin DOMAIN db THEN Abort("table")
         ELSE /\ dbl' = a /\ Drop(a, 0)
              /\ cursor' = IF c.how = "rows" THEN found ELSE cursor
              /\ Local(a, [mem[a] EXCEPT !.hit = found # {},
                                         !.size = IF c.how = "count" \/ found = {} THEN Cardinality(found) ELSE @,
                                         !.rows = IF c.how = "one" THEN found ELSE {}])
              /\ UNCHANGED <<db, process, req, disp, sessions, slock, taken>>

\* One turn of the loop with dbp_fetch_row_sqlite and dbp_fetch_row_free: the
\* row is written behind the last one.  db_book_get frees each row twice,
\* which may end the process.
Fetch(a) ==
  LET r == CHOOSE x \in cursor : TRUE
  IN  /\ Step(a, "fetch") /\ cursor # {}
      /\ IF Cardinality(mem[a].rows) >= mem[a].size THEN Abort("array")
         ELSE /\ cursor' = cursor \ {r} /\ Local(a, [mem[a] EXCEPT !.rows = @ \cup {r}])
              /\ UNCHANGED <<db, process, todo, req, dbl, disp, sessions, slock, taken>>

FetchFreedTwice(a) ==
  /\ Step(a, "fetch") /\ cursor # {} /\ a # "main" /\ req[a].op = "dish_list"
  /\ Abort("row")

FetchEnd(a) ==
  /\ Step(a, "fetch") /\ cursor = {} /\ Drop(a, 0)
  /\ UNCHANGED <<db, process, req, mem, dbl, cursor, disp, sessions, slock, taken>>

\* Mutant of DbpReset: the lock is kept when nothing was found.
DbpResetKeepsLock(a) ==
  LET result == IF mem[a].hit THEN Call(a).some ELSE Call(a).none
  IN  /\ Step(a, "reset")
      /\ IF result = "assert" THEN Abort("login")
         ELSE /\ dbl' = IF mem[a].hit THEN "free" ELSE dbl
              /\ IF result # "" THEN Go(a, <<Answer(result)>>)
                 ELSE Drop(a, IF mem[a].hit THEN 0 ELSE Call(a).miss)
              /\ UNCHANGED <<db, process, req, mem, cursor, disp, sessions, slock, taken>>

\* dbp_query_reset_sqlite; then the caller tests what it has found.
DbpReset(a) ==
  LET result == IF mem[a].hit THEN Call(a).some ELSE Call(a).none
  IN  /\ Step(a, "reset")
      /\ IF result = "assert" THEN Abort("login")
         ELSE /\ dbl' = "free"
              /\ IF result # "" THEN Go(a, <<Answer(result)>>)
                 ELSE Drop(a, IF mem[a].hit THEN 0 ELSE Call(a).miss)
              /\ UNCHANGED <<db, process, req, mem, cursor, disp, sessions, slock, taken>>

\* The primary key of a new row must be new.
Key(from, row) == IF from = "account" THEN [uid |-> row.uid] ELSE [id |-> row.id]
NextBook == 1 + Max({r.id : r \in db["book"]} \cup {0})

\* A seed is inserted when the look-up before it found nothing.
Adds(a) == Call(a).what = "insert" \/ (Call(a).what = "seed" /\ ~mem[a].hit)

\* db_exec_sqlite, with the lock taken and given back.
DbpExec(a) ==
  LET c == Call(a)
  IN  /\ Step(a, "exec") /\ dbl \in {"free", "none"}
      /\ IF dbl = "none" THEN Abort("provider")
         ELSE IF c.what # "create" /\ c.from \notin DOMAIN db THEN Abort("table")
         ELSE IF Adds(a) /\ Select(c.from, Key(c.from, c.arg)) # {} THEN Abort("key")
         ELSE /\ Drop(a, 0)
              /\ UNCHANGED <<process, req, mem, dbl, cursor, disp, sessions, slock, taken>>
              /\ CASE c.what = "create" -> db' = IF c.from \in DOMAIN db THEN db ELSE db @@ (c.from :> {})
                   [] c.what \in {"insert", "seed"} -> db' = IF Adds(a) THEN [db EXCEPT ![c.from] = @ \cup {c.arg}] ELSE db
                   [] c.what = "book" -> db' = [db EXCEPT !["book"] =
                        @ \cup {[id |-> NextBook, seat |-> c.arg.seat, dish |-> c.arg.dish]}]
                   [] c.what = "delete" -> db' = [db EXCEPT ![c.from] = @ \ Select(c.from, c.arg)]
                   [] c.what = "update" -> db' = [db EXCEPT ![c.from] =
                        {IF r.uid = c.arg.uid THEN c.arg.set @@ r ELSE r : r \in @}]

Provider(a) == DbpQuery(a) \/ Fetch(a) \/ FetchFreedTwice(a) \/ FetchEnd(a) \/ DbpReset(a) \/ DbpExec(a)
Handler(t) ==
  \/ Provider(t) \/ Return(t) \/ FindSession(t) \/ CheckExist(t) \/ Open(t)
  \/ CountAdmins(t) \/ CloseOwn(t) \/ Dref(t)

Starting == DbInit \/ Provider("main") \/ StartService \/ Up
Stopping == DispDestroy \/ IoDestroy \/ SessionDestroy \/ DbDeinit

Next ==
  \/ Crash \/ Restart \/ Starting \/ Unregistered \/ Stop \/ Stopping \/ TakeStopped
  \/ \E t \in Threads : Handler(t) \/ \E q \in Requests : Take(t, q)
  \/ \E fd \in Fds : Close(fd)

\* Threads go on while they can, and a server that is down is started again.
Fairness ==
  /\ WF_vars(Restart) /\ WF_vars(Starting) /\ WF_vars(Stopping)
  /\ \A t \in Threads : WF_vars(Handler(t))

Spec == Init /\ [][Next]_vars /\ Fairness
-----------------------------------------------------------------------------
\* Variables hold values of their kinds; a thread that holds the provider's
\* lock is between a query and its reset.
TypeOK ==
  /\ DOMAIN db \subseteq {"account", "dish", "seat", "book"}
  /\ phase \in {"down", "starting", "up", "stopping"} /\ slock \in Threads \cup {"free", "lost"}
  /\ disp \in Threads \cup {"free", "gone"} /\ dbl \in Actors \cup {"free", "none"}
  /\ dbl \in Actors => Step(dbl, "reset") \/ Step(dbl, "fetch")

Wanted(q) ==
  CASE q.op = "dish_fetch" -> Select("dish", [category |-> q.category])
    [] q.op = "dish_list" -> Select("book", [seat |-> q.seat])
    [] q.op = "seat_list" -> db["seat"]
    [] q.op = "account_list" -> db["account"]

\* A list that is answered is the table as it is then, and as long as its
\* count says, although it is read with two queries between which the lock is
\* free; no row is written past the array; no insertion meets its key,
\* although the look-up before it is another call; and the provider is there
\* for every call, the last handlers of a server that is stopped included.
ListsWhole ==
  /\ why \in {"none", "stop", "row"}
  /\ \A t \in Threads : Step(t, "answer") /\ Call(t).result = "list" =>
       mem[t].rows = Wanted(req[t]) /\ mem[t].size = Cardinality(mem[t].rows)

AdminNames(d) == IF "account" \in DOMAIN d THEN {r.uid : r \in Admins(d["account"])} ELSE {}

\* "cannot_delete_last_admin" (res_account.c:711-733): a session of an admin
\* whose account is an admin's never deletes the last admin, whatever other
\* requests are handled between its count and its deletion.  Others can: the
\* session of a user who is no admin, by the uninitialised field admin.
LastAdminKept ==
  [][\A t \in Threads :
       Step(t, "exec") /\ AdminNames(db) # {} /\ AdminNames(db') = {}
         => mem[t].who.type # "admin" \/ mem[t].who.uid \notin AdminNames(db)]_vars

\* A request is answered, or the process ends, or a handler has kept
\* session_lock: no path of the handlers keeps the provider's lock.
RequestsAnswered ==
  \A t \in Threads : todo[t] # << >> ~> (todo[t] = << >> \/ slock = "lost")

\* However often the server crashes or is stopped, and wherever, the start
\* included, it comes up again with its default account, a hot dish and the
\* default seat.  Only a stop waits for ever, for a session_lock that was lost.
StartsUp ==
  phase # "up" ~>
    \/ phase = "stopping" /\ slock = "lost"
    \/ /\ phase = "up" /\ DOMAIN db = {"account", "dish", "seat", "book"}
       /\ "youmenu" \in {r.uid : r \in db["account"]}
       /\ Select("dish", [category |-> "hot"]) # {} /\ Seat0 \in db["seat"]
=============================================================================
