------------------------------ MODULE Session -------------------------------
(***************************************************************************)
(* The server's sessions (server/session.c) and the handlers that use them *)
(* (server/res_account.c, res_dish.c, res_cook.c, res_seat.c).  The        *)
(* dispatcher runs handlers one at a time, in threads of the pool; the     *)
(* event thread deletes the session of a connection that ends, while a     *)
(* handler runs.                                                           *)
(*                                                                         *)
(* session_ref_* finds a session and counts a reference without the lock,  *)
(* then takes the lock and returns with it held; session_dref gives both   *)
(* back.  session_del_* unlinks under the lock and waits, with the lock    *)
(* held, until no reference is left (pref_release).                        *)
(*                                                                         *)
(* A handler is the sequence of these calls that it still has to make.  A  *)
(* failing assert, or a use of freed memory, sets fault, and the model     *)
(* goes no further.                                                        *)
(***************************************************************************)
EXTENDS Integers, Sequences, FiniteSets

CONSTANTS
  Uids,         \* account names
  Fds,          \* descriptors
  Ops,          \* requests that clients make
  Accounts,     \* the accounts at the start: type of each uid, or "none"
  MaxRequests,  \* bound: how many requests are handled
  MaxSessions   \* bound: how many session_t exist, those freed while a handler runs included

Types == {"admin", "menu"}

ASSUME SessionAssumption ==
  /\ Uids # {} /\ Accounts \in [Uids -> Types \cup {"none"}]
  /\ MaxRequests \in Nat /\ MaxSessions \in Nat
  /\ Ops \subseteq {"login", "login_token", "token", "logout", "check", "create", "modify_pwd", "modify_basic", "delete"}

Ids == 1 .. MaxSessions

\* uid: the user of a login or of a token, or the account to create or delete;
\* ok: the password is the right one.  A login with a wrong password touches
\* no session, and is left out.
Requests ==
  [op : Ops \cap {"logout", "check", "modify_pwd", "modify_basic"}, fd : Fds,
   uid : {CHOOSE u \in Uids : TRUE}, ok : {TRUE}]
  \cup [op : Ops \cap {"login", "login_token", "token", "create"}, fd : Fds, uid : Uids, ok : {TRUE}]
  \cup [op : Ops \cap {"delete"}, fd : Fds, uid : Uids, ok : BOOLEAN]

VARIABLES
  accounts,  \* the account table
  list,      \* session_list: those in it; the scans take any that matches
  sess,      \* every session_t made
  refs,      \* its reference count
  freed,     \* those that were freed
  lock,      \* who holds session_lock: free, handler, event, or lost: a handler that ended
  begun,     \* how many requests were begun
  todo,      \* what the handler has still to do
  req,       \* its request
  ptr,       \* its session_t pointer, 0 for none
  new,       \* its session_t to be added
  event,     \* the event thread: idle, or [fd, ptr] in session_del_fd
  fault      \* none; freed: freed memory was used; or what an assert is about

vars == <<accounts, list, sess, refs, freed, lock, begun, todo, req, ptr, new, event, fault>>
table == <<list, sess, refs, freed>>

NoRequest == [op |-> "none"]
NoSession == [uid |-> "none", fd |-> 0, kind |-> "none", type |-> "none", admin |-> 0]
Idle == [fd |-> 0, ptr |-> 0]

Init ==
  /\ accounts = Accounts
  /\ list = {} /\ sess = [i \in Ids |-> NoSession] /\ refs = [i \in Ids |-> 0] /\ freed = {}
  /\ lock = "free" /\ begun = 0 /\ todo = << >> /\ req = NoRequest
  /\ ptr = 0 /\ new = NoSession
  /\ event = Idle /\ fault = "none"

FdSessions(fd) == {i \in list : sess[i].kind = "fd" /\ sess[i].fd = fd}
UidSessions(uid, kind) == {i \in list : sess[i].kind = kind /\ sess[i].uid = uid}
-----------------------------------------------------------------------------
(* The programs of the handlers.  miss: how many of the next calls are left *)
(* out when no session is found.                                            *)
Do(what) == [do |-> what, by |-> "none", miss |-> 0]
Find(by, miss) == [do |-> "find", by |-> by, miss |-> miss]
All == 99

Ref(by, miss) == <<Find(by, miss), Do("get"), Do("lock")>>
Del(by) == <<[do |-> "unlink", by |-> by, miss |-> 1], Do("release")>>
DelOrFail(by) == <<[do |-> "unlink", by |-> by, miss |-> All], Do("release")>>

\* An older session is looked up, given back, and deleted if it was there.
Replace(by, del) == Ref(by, 5) \o <<Do("dref")>> \o DelOrFail(del)

\* Mutant of Exists: only sessions of the descriptor are looked for.
ExistsFdOnly == Replace("fd", "fd")

\* res_account_check_session_exist: an older session of the user, or of the
\* descriptor, is deleted.
Exists == Replace("uid", "fd") \o Replace("fd", "fd")

\* A login that asks for a token replaces the user's token session.
NewToken == Replace("token", "token") \o <<Do("add_token")>>

\* res_account_login by name and password.
Login == Exists \o <<Do("add_fd")>>

\* res_account_login by token: the session of the token is copied.
LoginByToken ==
  <<Find("token", All), Do("lock"), Do("get"), Do("copy"), Do("dref")>>
  \o Exists \o <<Do("add_fd"), Do("account")>>

\* What every handler of dishes, seats and cooks, and res_account_list, do
\* with sessions: the permission is checked, and the session given back.
Check == Ref("fd", All) \o <<Do("dref")>>

\* res_account_modify_pwd gives it back on every path.
ModifyPwd == Ref("fd", All) \o <<Do("dref")>>

\* res_account_modify_basic gives it back on none.
ModifyBasic == Ref("fd", All)

Logout == Ref("fd", All) \o <<Do("dref")>> \o DelOrFail("fd")

Program(q) ==
  CASE q.op = "login" /\ accounts[q.uid] # "none" -> Login
    [] q.op = "login_token" /\ accounts[q.uid] # "none" -> Login \o NewToken
    [] q.op = "token" -> LoginByToken
    [] q.op = "logout" -> Logout
    [] q.op = "check" -> Check
    [] q.op = "modify_pwd" -> ModifyPwd
    [] q.op = "create" -> Check \o <<Do("create")>>
    [] q.op = "modify_basic" -> ModifyBasic
    [] q.op = "delete" -> Ref("fd", All) \o <<Do("delete")>>
    [] OTHER -> << >>

Admins == {u \in Uids : accounts[u] = "admin"}

\* res_account_delete, with the session held: a wrong password, the user's
\* own account, or another's.
DeleteProgram(s) ==
  CASE ~req.ok -> << >>
    [] req.ok /\ s.uid = req.uid /\ s.type = "admin" /\ Cardinality(Admins) <= 1 -> <<Do("dref")>>
    [] req.ok /\ s.uid = req.uid /\ ~(s.type = "admin" /\ Cardinality(Admins) <= 1) ->
         <<Do("dref")>> \o Del("fd") \o Del("token") \o <<Do("account_del")>>
    [] req.ok /\ s.uid # req.uid /\ s.admin = 0 -> <<Do("dref")>>
    [] req.ok /\ s.uid # req.uid /\ s.admin # 0 -> <<Do("dref"), Do("account_del")>>
-----------------------------------------------------------------------------
\* ep_disp_processor calls the handler of a request, whose connection may
\* have ended since it was read.  s.admin is never assigned: its value is
\* what the stack held.
Begin(q) ==
  /\ req = NoRequest /\ begun < MaxRequests
  /\ req' = q /\ begun' = begun + 1 /\ todo' = Program(q) /\ ptr' = 0
  /\ \E garbage \in IF q.op \in {"login", "login_token"} THEN {0, 1} ELSE {0} :
       new' = [uid |-> q.uid, fd |-> q.fd, kind |-> "fd", type |-> accounts[q.uid], admin |-> garbage]
  /\ UNCHANGED <<accounts, table, lock, event, fault>>

\* The handler returns, the pack it returned is sent, and the dispatcher's
\* lock is given back.  What was freed may be allocated again.
End ==
  /\ req # NoRequest /\ todo = << >>
  /\ req' = NoRequest /\ ptr' = 0 /\ new' = NoSession /\ freed' = {}
  /\ sess' = [i \in Ids |-> IF i \in freed THEN NoSession ELSE sess[i]]
  /\ lock' = IF lock = "handler" THEN "lost" ELSE lock
  /\ UNCHANGED <<accounts, list, refs, begun, todo, event, fault>>

Step(what) == todo # << >> /\ Head(todo).do = what
Drop(n) == todo' = SubSeq(todo, n + 2, Len(todo))

Matches ==
  LET by == Head(todo).by
  IN  CASE by = "fd" -> FdSessions(req.fd)
        [] by = "uid" -> UidSessions(new.uid, "fd")
        [] by = "token" -> UidSessions(new.uid, "token")

\* The scan of session_ref_fd, session_ref_uid and session_ref_token.
FindSession ==
  /\ Step("find")
  /\ IF Matches = {} THEN Drop(Head(todo).miss) /\ UNCHANGED ptr
     ELSE Drop(0) /\ ptr' \in Matches
  /\ UNCHANGED <<accounts, table, lock, begun, req, new, event, fault>>

\* pref_get(tmp->ref), for what the scan found.
Get ==
  /\ Step("get") /\ Drop(0)
  /\ IF ptr \in freed THEN fault' = "freed" /\ UNCHANGED refs
     ELSE refs' = [refs EXCEPT ![ptr] = @ + 1] /\ UNCHANGED fault
  /\ UNCHANGED <<accounts, list, sess, freed, lock, begun, req, ptr, new, event>>

\* pthread_mutex_lock(&session_lock); the session_ref_* returns.
Lock ==
  /\ Step("lock") /\ lock = "free" /\ lock' = "handler" /\ Drop(0)
  /\ UNCHANGED <<accounts, table, begun, req, ptr, new, event, fault>>

\* A login by token copies the session it found.
Copy ==
  /\ Step("copy") /\ Drop(0)
  /\ new' = [sess[ptr] EXCEPT !.kind = "fd", !.fd = req.fd]
  /\ UNCHANGED <<accounts, table, lock, begun, req, ptr, event, fault>>

\* session_dref: the session must still be in the list.
Dref ==
  /\ Step("dref") /\ Drop(0) /\ lock' = "free"
  /\ IF ptr \in list THEN refs' = [refs EXCEPT ![ptr] = @ - 1] /\ UNCHANGED fault
     ELSE fault' = "dref" /\ UNCHANGED refs
  /\ UNCHANGED <<accounts, list, sess, freed, begun, req, ptr, new, event>>

\* session_del_fd(old->fd) or session_del_token(old->uid): the lock is taken
\* and what matches is unlinked.  A caller that asserts that something did
\* has miss = All.
Victims ==
  IF Head(todo).by = "fd" THEN FdSessions(sess[ptr].fd) ELSE UidSessions(sess[ptr].uid, "token")

Unlink ==
  /\ Step("unlink") /\ lock = "free"
  /\ IF Victims = {}
       THEN /\ Drop(Head(todo).miss) /\ UNCHANGED <<list, lock, ptr>>
            /\ fault' = IF Head(todo).miss = All THEN "del" ELSE fault
       ELSE \E i \in Victims :
              list' = list \ {i} /\ ptr' = i /\ lock' = "handler" /\ Drop(0) /\ UNCHANGED fault
  /\ UNCHANGED <<accounts, sess, refs, freed, begun, req, new, event>>

\* pref_release returns, free, and the lock is given back.
Release ==
  /\ Step("release") /\ refs[ptr] = 0
  /\ freed' = freed \cup {ptr} /\ lock' = "free" /\ Drop(0)
  /\ UNCHANGED <<accounts, list, sess, refs, begun, req, ptr, new, event, fault>>

\* session_add, all of it under the lock; calloc is one of the session_t that
\* are not in use.
Add(s, conflict) ==
  LET room == {j \in Ids : sess[j] = NoSession}
      i == CHOOSE j \in room : TRUE
  IN  /\ lock = "free" /\ room # {} /\ Drop(0)
      /\ IF conflict THEN fault' = "add" /\ UNCHANGED <<list, sess>>
         ELSE list' = list \cup {i} /\ sess' = [sess EXCEPT ![i] = s] /\ UNCHANGED fault
      /\ UNCHANGED <<accounts, refs, freed, lock, begun, req, ptr, new, event>>

\* The scan compares the descriptor with every session, tokens with fd -1
\* included, and the user with those of a descriptor.
AddFd == Step("add_fd") /\ Add(new, FdSessions(new.fd) \cup UidSessions(new.uid, "fd") # {})

\* The token is a new one (guid_generate), so none is like it.
AddToken == Step("add_token") /\ Add([new EXCEPT !.kind = "token", !.fd = 0], FALSE)

\* db_account_get_one after a login by token, and its assert.
Account ==
  /\ Step("account") /\ Drop(0)
  /\ fault' = IF accounts[new.uid] = "none" THEN "account" ELSE fault
  /\ UNCHANGED <<accounts, table, lock, begun, req, ptr, new, event>>

\* res_account_create after session_dref: it reads s->admin once more.
Create ==
  /\ Step("create") /\ Drop(0)
  /\ IF ptr \in freed THEN fault' = "freed" /\ UNCHANGED accounts
     ELSE /\ UNCHANGED fault
          /\ accounts' = IF sess[ptr].admin # 0 /\ accounts[req.uid] = "none"
                         THEN [accounts EXCEPT ![req.uid] = "menu"] ELSE accounts
  /\ UNCHANGED <<table, lock, begun, req, ptr, new, event>>

Delete ==
  /\ Step("delete") /\ todo' = DeleteProgram(sess[ptr])
  /\ UNCHANGED <<accounts, table, lock, begun, req, ptr, new, event, fault>>

AccountDel ==
  /\ Step("account_del") /\ Drop(0)
  /\ accounts' = [accounts EXCEPT ![req.uid] = "none"]
  /\ UNCHANGED <<table, lock, begun, req, ptr, new, event, fault>>
-----------------------------------------------------------------------------
\* A connection ends: service_event_cb, and session_del_fd in it.
Close(fd) ==
  /\ event = Idle /\ event' = [fd |-> fd, ptr |-> 0]
  /\ UNCHANGED <<accounts, table, lock, begun, todo, req, ptr, new, fault>>

\* Mutant of EventUnlink: the session stays in the list.
EventUnlinkKeeps ==
  /\ event # Idle /\ event.ptr = 0 /\ lock = "free"
  /\ IF FdSessions(event.fd) = {} THEN event' = Idle /\ UNCHANGED lock
     ELSE \E i \in FdSessions(event.fd) : event' = [event EXCEPT !.ptr = i] /\ lock' = "event"
  /\ UNCHANGED <<accounts, table, begun, todo, req, ptr, new, fault>>

\* session_del_fd in the event thread, up to pref_release.
EventUnlink ==
  /\ event # Idle /\ event.ptr = 0 /\ lock = "free"
  /\ IF FdSessions(event.fd) = {} THEN event' = Idle /\ UNCHANGED <<list, lock>>
     ELSE \E i \in FdSessions(event.fd) :
            list' = list \ {i} /\ event' = [event EXCEPT !.ptr = i] /\ lock' = "event"
  /\ UNCHANGED <<accounts, sess, refs, freed, begun, todo, req, ptr, new, fault>>

\* Mutant of EventRelease: it does not wait for the references.
EventReleaseNoWait ==
  /\ event.ptr # 0
  /\ freed' = freed \cup {event.ptr} /\ lock' = "free" /\ event' = Idle
  /\ UNCHANGED <<accounts, list, sess, refs, begun, todo, req, ptr, new, fault>>

\* Mutant of EventRelease: the lock is not given back.
EventReleaseKeepsLock ==
  /\ event.ptr # 0 /\ refs[event.ptr] = 0
  /\ freed' = freed \cup {event.ptr} /\ event' = Idle
  /\ UNCHANGED <<accounts, list, sess, refs, lock, begun, todo, req, ptr, new, fault>>

\* pref_release returns; free and unlock.
EventRelease ==
  /\ event.ptr # 0 /\ refs[event.ptr] = 0
  /\ freed' = freed \cup {event.ptr} /\ lock' = "free" /\ event' = Idle
  /\ UNCHANGED <<accounts, list, sess, refs, begun, todo, req, ptr, new, fault>>

Handler ==
  \/ End \/ FindSession \/ Get \/ Lock \/ Copy \/ Dref \/ Unlink \/ Release
  \/ AddFd \/ AddToken \/ Account \/ Create \/ Delete \/ AccountDel

Next ==
  /\ fault = "none"
  /\ \/ \E q \in Requests : Begin(q)
     \/ Handler
     \/ \E fd \in Fds : Close(fd)
     \/ EventUnlink \/ EventRelease

\* The threads of the pool and the event thread go on while they can.
Fairness ==
  /\ WF_vars(fault = "none" /\ Handler)
  /\ WF_vars(fault = "none" /\ (EventUnlink \/ EventRelease))

Spec == Init /\ [][Next]_vars /\ Fairness
-----------------------------------------------------------------------------
\* Variables hold values of their kinds; a session has at most two references,
\* one that was never given back and one of the handler that runs.
TypeOK ==
  /\ accounts \in [Uids -> Types \cup {"none"}]
  /\ list \subseteq Ids /\ \A i \in list : sess[i] # NoSession
  /\ refs \in [Ids -> 0 .. 2] /\ freed \subseteq Ids
  /\ lock \in {"free", "handler", "event", "lost"} /\ ptr \in Ids \cup {0}
  /\ fault \in {"none", "freed", "dref", "del", "add", "account"}

\* No session in the list was freed, and the session a handler holds is in
\* the list until the handler gives it back: the assert of session_dref
\* (session.c:412) never fails, whatever the event thread deletes meanwhile.
HeldSessionStays == list \cap freed = {} /\ fault # "dref"

\* A user has at most one session of a descriptor and one of a token, and a
\* descriptor at most one session; session_add is never called with a
\* session that is there already (session.c:153, 163), although the look-up,
\* the deletion and the addition of a login take the lock one by one.
SessionsUnique ==
  /\ fault # "add"
  /\ \A i, j \in list : i # j /\ sess[i].kind = sess[j].kind =>
       sess[i].uid # sess[j].uid /\ (sess[i].kind = "fd" => sess[i].fd # sess[j].fd)

\* The event thread deletes the very session a handler is about to lock.
Crossed == event.ptr # 0 /\ refs[event.ptr] > 0

\* A handler returns, unless the lock was kept by an earlier one, or the
\* event thread met the handler between its reference and its lock: these two
\* are the only ways for the server to stand still.
HandlersReturn ==
  req # NoRequest ~> (req = NoRequest \/ lock = "lost" \/ Crossed \/ fault # "none")

\* "NOTE: you must manual call session_dref when no more used."
\* (session.c:292): no handler ends with the session lock held.
SessionsReleased == lock # "lost"
=============================================================================
