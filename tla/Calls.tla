------------------------------- MODULE Calls --------------------------------
(***************************************************************************)
(* The calls of the client's interface (client/req_*.c, client_heartbeat)  *)
(* and the server's sessions that they work on, over a connection that may *)
(* be slow or break.                                                       *)
(*                                                                         *)
(* A client keeps a copy of its session, checks what it is allowed by that *)
(* copy, and makes one call at a time.  A call sends a request, and waits  *)
(* two seconds for an answer of its category; the answer of a call that    *)
(* was given up may still come, and is dropped unless a call of the        *)
(* category waits.  The server's threads handle requests in any order, one *)
(* at a time: a handler is one step here, Session and Tables have its      *)
(* parts.  Lists travel as objects of typed fields, which the client       *)
(* stores by their keys.                                                   *)
(***************************************************************************)
EXTENDS Integers, FiniteSets, Sequences, SequencesExt

CONSTANTS
  Clients,   \* the clients, each with its connection
  Uids,      \* account names, as the server keeps them
  Lower,     \* names as users write them, and in lower case
  Calls,     \* what each client calls
  Accounts,  \* the accounts at the start: type of each uid, or "none"
  Stored,    \* the rows of the lists that do not change
  Tokens,    \* the token sessions at the start
  MaxCalls,  \* bound: how many calls are made
  MaxFaults  \* bound: how many calls are given up and connections break

AccountTypes == {"admin", "menu", "cook"}

ASSUME CallsAssumption ==
  /\ MaxCalls \in Nat /\ MaxFaults \in Nat /\ Accounts \in [Uids -> AccountTypes \cup {"none"}]
  /\ \A n \in DOMAIN Lower : Lower[n] \in Uids

VARIABLES
  session,    \* connect->session of each client
  call,       \* the call it is in, or Dead: ended by a failing assert
  last,       \* the list its last call returned, and what was sent
  up,         \* whether its connection is
  pending,    \* requests the server has not handled, each with a number
  answers,    \* answers on their way to each client
  accounts,   \* the account table
  server,     \* the server's session of each connection
  tokens,     \* its token sessions
  lock,       \* session_lock: free, lost by a handler, hung: the dispatcher waits for it;
              \* dead: the server was ended by a failing assert
  made,       \* how many calls were made
  faults,     \* how many were given up, and connections broke
  gaveup,     \* history: clients that gave up a login or a logout
  estranged,  \* history: clients whose session another login or a deletion ended
  recreated   \* history: accounts that were deleted

vars == <<session, call, last, up, pending, answers, accounts, server, tokens, lock,
          made, faults, gaveup, estranged, recreated>>
client == <<session, call, last>>
history == <<made, faults, gaveup, estranged, recreated>>

None == [uid |-> "none", type |-> "none"]
NoServer == [uid |-> "none", type |-> "none", admin |-> 0]
Idle == [op |-> "none"]
Dead == [op |-> "dead"]
Nothing == [op |-> "none", rows |-> << >>, sent |-> << >>]

Init ==
  /\ session = [c \in Clients |-> None] /\ call = [c \in Clients |-> Idle]
  /\ last = [c \in Clients |-> Nothing] /\ up = [c \in Clients |-> TRUE]
  /\ pending = {} /\ answers = [c \in Clients |-> << >>]
  /\ accounts = Accounts /\ server = [c \in Clients |-> NoServer] /\ tokens = Tokens
  /\ lock = "free" /\ made = 0 /\ faults = 0 /\ gaveup = {} /\ estranged = {} /\ recreated = {}

\* client_account_login2 uses the category of client_account_login.
Category(q) == IF q.op = "login2" THEN "login" ELSE q.op
-----------------------------------------------------------------------------
(* The functions of the interface: what a call with the session s returns  *)
(* without asking the server ("" when it asks), and the keys it sends.     *)
Asks(refuse, sends) == [refuse |-> refuse, sends |-> sends]

NeedsType(s, types) ==
  CASE s = None -> "illegal_parameter"
    [] s # None /\ s.type \notin types -> "no_permission"
    [] OTHER -> ""

LoginRefused(s) == IF s # None THEN "login_already_login" ELSE ""
ClientAccountLogin(s) == Asks(LoginRefused(s), {"uid", "pwd", "token_expire"})
ClientAccountLogin2(s) == Asks(LoginRefused(s), {"token"})
ClientAccountLogout == Asks("", {})
ClientAccountCreate(s) == Asks(NeedsType(s, {"admin"}), {"uid", "pwd", "type", "nick", "comment"})
ClientAccountModifyPwd(q, s) ==
  Asks(CASE s = None -> "illegal_parameter" [] s # None /\ q.same -> "modify_pwd_same" [] OTHER -> "",
       {"old_pwd", "new_pwd"})
ClientAccountModifyBasic(s) == Asks(IF s = None THEN "illegal_parameter" ELSE "", {"nick", "comment"})
ClientAccountDelete(s) == Asks(NeedsType(s, {"admin"}), {"uid", "old_pwd"})
ClientAccountList(s) == Asks(NeedsType(s, {"admin"}), {})
ClientDishFetch(s) == Asks(NeedsType(s, {"admin", "menu"}), {"category"})
ClientDishBook(s) == Asks(NeedsType(s, {"admin", "menu"}), {"seat_id", "dish_id", "jin_or_plate", "comment"})
ClientDishCancel(s) == Asks(NeedsType(s, {"admin", "menu"}), {"seat_id"})
ClientDishList(s) == Asks(NeedsType(s, {"admin", "menu"}), {"seat_id"})
ClientSeatList(s) == Asks(NeedsType(s, {"admin", "menu"}), {})
ClientCookAccept(s) == Asks(NeedsType(s, {"admin", "cook"}), {"seat_id", "dish_id", "number"})
ClientCheckVersion == Asks("", {"pid", "cur_ver_id"})
ClientHeartbeat == Asks("", {})

Function(q, s) ==
  CASE q.op = "login" -> ClientAccountLogin(s) [] q.op = "login2" -> ClientAccountLogin2(s)
    [] q.op = "logout" -> ClientAccountLogout [] q.op = "create" -> ClientAccountCreate(s)
    [] q.op = "modify_pwd" -> ClientAccountModifyPwd(q, s)
    [] q.op = "modify_basic" -> ClientAccountModifyBasic(s)
    [] q.op = "delete" -> ClientAccountDelete(s) [] q.op = "account_list" -> ClientAccountList(s)
    [] q.op = "dish_fetch" -> ClientDishFetch(s) [] q.op = "dish_book" -> ClientDishBook(s)
    [] q.op = "dish_cancel" -> ClientDishCancel(s) [] q.op = "dish_list" -> ClientDishList(s)
    [] q.op = "seat_list" -> ClientSeatList(s) [] q.op = "cook_accept" -> ClientCookAccept(s)
    [] q.op = "version_check" -> ClientCheckVersion [] q.op = "heartbeat" -> ClientHeartbeat

\* A call whose arguments are not valid is refused first, by all functions
\* that have arguments.
Check(q, s) == IF ~q.valid THEN "illegal_parameter" ELSE Function(q, s).refuse

\* A call that is refused by the client itself, or that finds the connection
\* broken (ep_req_new returns NULL): it returns r, or no_response.  A logout drops the session first.
Refuse(c, q) ==
  LET r == Check(q, session[c])
  IN  /\ call[c] = Idle /\ made < MaxCalls /\ (r # "" \/ ~up[c])
      /\ made' = made + 1
      /\ last' = [last EXCEPT ![c] = Nothing]
      /\ session' = IF q.op = "logout" THEN [session EXCEPT ![c] = None] ELSE session
      /\ UNCHANGED <<call, up, pending, answers, accounts, server, tokens, lock, faults, gaveup, estranged, recreated>>

\* REQ_MAKE_PARAM and ep_req_new: the request is sent.
Ask(c, q) ==
  /\ call[c] = Idle /\ made < MaxCalls /\ Check(q, session[c]) = "" /\ up[c]
  /\ made' = made + 1 /\ call' = [call EXCEPT ![c] = q]
  /\ pending' = pending \cup {[n |-> made, from |-> c, q |-> q, sends |-> Function(q, session[c]).sends]}
  /\ last' = [last EXCEPT ![c] = Nothing]
  /\ session' = IF q.op = "logout" THEN [session EXCEPT ![c] = None] ELSE session
  /\ UNCHANGED <<up, answers, accounts, server, tokens, lock, faults, gaveup, estranged, recreated>>

\* ep_req_wait returns 0 after REQ_DEF_TIMEOUT: account_r_no_response.
GiveUp(c) ==
  /\ call[c] \notin {Idle, Dead} /\ faults < MaxFaults /\ faults' = faults + 1
  /\ call' = [call EXCEPT ![c] = Idle] /\ UNCHANGED last
  /\ gaveup' = IF call[c].op \in {"login", "login2", "logout"} THEN gaveup \cup {c} ELSE gaveup
  /\ UNCHANGED <<session, up, pending, answers, accounts, server, tokens, lock, made, estranged, recreated>>
-----------------------------------------------------------------------------
(* Lists.  The server writes the fields of a row in an order and with a    *)
(* kind each; the client stores the value of a key it knows, and asserts   *)
(* the kind.                                                               *)
F(key, kind) == [key |-> key, kind |-> kind]
R(key, kind, field) == [key |-> key, kind |-> kind, field |-> field]

DishFields == <<F("id", "int"), F("category", "int"), F("name", "string"), F("summary", "string"),
                F("price_type", "int"), F("price", "int")>>
BookFields == <<F("book_id", "int"), F("seat_id", "int"), F("dish_id", "int"), F("jin_or_plate", "double"),
                F("comment", "string"), F("accept_state", "int")>>
SeatFields == <<F("id", "int"), F("summary", "string"), F("qrcode", "string")>>
AccountFields == <<F("type", "int"), F("uid", "string"), F("nick", "string"), F("comment", "string")>>

\* Mutant of DishReader: price is stored where price_type belongs.
DishReaderPrice ==
  {R("id", "int", "id"), R("category", "int", "category"), R("name", "string", "name"),
   R("summary", "string", "summary"), R("thumbnail", "string", "thumbnail"),
   R("price_type", "int", "price_type"), R("price", "int", "price_type")}

DishReader ==
  {R("id", "int", "id"), R("category", "int", "category"), R("name", "string", "name"),
   R("summary", "string", "summary"), R("thumbnail", "string", "thumbnail"),
   R("price_type", "int", "price_type"), R("price", "int", "price")}
BookReader ==
  {R("seat_id", "int", "seat_id"), R("dish_id", "int", "dish_id"), R("jin_or_plate", "double", "jin_or_plate"),
   R("comment", "int", "comment"), R("accept_state", "int", "dish_id")}
SeatReader == {R("id", "int", "id"), R("summary", "string", "summary"), R("qrcode", "string", "qrcode")}
AccountReader ==
  {R("type", "int", "type"), R("uid", "string", "uid"), R("nick", "string", "nick"), R("comment", "string", "comment")}

Fields(op) ==
  CASE op = "dish_fetch" -> DishFields [] op = "dish_list" -> BookFields
    [] op = "seat_list" -> SeatFields [] op = "account_list" -> AccountFields
Reader(op) ==
  CASE op = "dish_fetch" -> DishReader [] op = "dish_list" -> BookReader
    [] op = "seat_list" -> SeatReader [] op = "account_list" -> AccountReader

Lists == {"dish_fetch", "dish_list", "seat_list", "account_list"}

\* What the loop over the fields of one object leaves in the struct, which
\* calloc has cleared; "assert" in a field whose kind is not the asserted one.
ReadObject(op, row) ==
  LET names == {r.field : r \in Reader(op)}
      Store(o, f) == LET rs == {r \in Reader(op) : r.key = f.key}
                     IN  IF rs = {} THEN o
                         ELSE LET r == CHOOSE x \in rs : TRUE
                              IN  [o EXCEPT ![r.field] = IF r.kind = f.kind THEN row[f.key] ELSE "assert"]
  IN  FoldLeft(Store, [n \in names |-> "unset"], Fields(op))

ReadList(op, rows) == [i \in 1..Len(rows) |-> ReadObject(op, rows[i])]
Asserts(list) == \E i \in 1..Len(list) : \E f \in DOMAIN list[i] : list[i][f] = "assert"
-----------------------------------------------------------------------------
(* The server's handlers.                                                  *)
A(cat, result) == [cat |-> cat, result |-> result, type |-> "none", uid |-> "none", rows |-> << >>]

Handled(m, a) ==
  /\ pending' = pending \ {m}
  /\ answers' = IF up[m.from] THEN [answers EXCEPT ![m.from] = Append(@, a)] ELSE answers
  /\ UNCHANGED <<client, up, made, faults, gaveup>>

\* What a handler needs in the request; without it, illegal_parameter.
Needs(op) ==
  CASE op = "create" -> {"uid", "pwd"} [] op = "delete" -> {"uid", "old_pwd"}
    [] op = "dish_book" -> {"seat_id", "dish_id", "jin_or_plate"}
    [] op \in {"dish_cancel", "dish_list"} -> {"seat_id"}
    [] op = "cook_accept" -> {"seat_id", "cook_id", "number"}
    [] OTHER -> {}

\* res_account_check_session_exist: the user's session on any connection and
\* any session on this connection end.
Cleared(uid, c) == [d \in Clients |-> IF d = c \/ server[d].uid = uid THEN NoServer ELSE server[d]]
Conflict(uid, c) == \E d \in Clients : server[d] # NoServer /\ (d = c \/ server[d].uid = uid)
Taken(uid, c) == {d \in Clients \ {c} : server[d].uid = uid}

LoginResult(uid, c) == IF Conflict(uid, c) THEN "login_ok_conflict" ELSE "ok"

ResLogin(m, uid, s, a) ==
  /\ server' = [Cleared(uid, m.from) EXCEPT ![m.from] = s]
  /\ estranged' = (estranged \cup Taken(uid, m.from)) \ {m.from}
  /\ Handled(m, a) /\ UNCHANGED <<accounts, lock, recreated>>

\* Login by name and password.  s.admin is never set: it is what was there.
ResAccountLogin(m) ==
  LET uid == Lower[m.q.uid]
      c == m.from
  IN  /\ m.q.op = "login"
      /\ \/ /\ accounts[uid] = "none" \/ ~m.q.right
            /\ Handled(m, A("login", IF accounts[uid] = "none" THEN "user_not_exist" ELSE "invalid_user_or_pwd"))
            /\ UNCHANGED <<accounts, server, tokens, lock, estranged, recreated>>
         \/ /\ accounts[uid] # "none" /\ m.q.right /\ lock = "free"
            /\ \E admin \in {0, 1} :
                 LET s == [uid |-> uid, type |-> accounts[uid], admin |-> admin]
                 IN  /\ ResLogin(m, uid, s, [A("login", LoginResult(uid, c)) EXCEPT !.type = accounts[uid]])
                     /\ tokens' = IF m.q.token THEN {t \in tokens : t.uid # uid} \cup {s} ELSE tokens

\* Login by token: the session is the token's, the answer is of the account.
\* A token whose account is gone fails an assert.
ResAccountLoginToken(m) ==
  /\ m.q.op = "login2"
  /\ \/ /\ ~\E t \in tokens : t.uid = m.q.uid
        /\ Handled(m, A("login", "session_expired"))
        /\ UNCHANGED <<accounts, server, tokens, lock, estranged, recreated>>
     \/ /\ lock = "free"
        /\ \E t \in tokens :
             /\ t.uid = m.q.uid /\ accounts[t.uid] # "none"
             /\ ResLogin(m, t.uid, t, [A("login", LoginResult(t.uid, m.from))
                                         EXCEPT !.type = accounts[t.uid], !.uid = t.uid])
             /\ UNCHANGED tokens
     \/ /\ lock = "free" /\ \E t \in tokens : t.uid = m.q.uid /\ accounts[t.uid] = "none"
        /\ lock' = "dead" /\ up' = [c \in Clients |-> FALSE] /\ answers' = [c \in Clients |-> << >>]
        /\ UNCHANGED <<client, pending, accounts, server, tokens, history>>

\* Mutant of ResAccountLogout: the session is left in the list.
ResAccountLogoutKeeps(m) ==
  /\ m.q.op = "logout" /\ (server[m.from] = NoServer \/ lock = "free")
  /\ Handled(m, A("logout", IF server[m.from] = NoServer THEN "session_expired" ELSE "ok"))
  /\ UNCHANGED <<server, accounts, tokens, lock, estranged, recreated>>

ResAccountLogout(m) ==
  /\ m.q.op = "logout" /\ (server[m.from] = NoServer \/ lock = "free")
  /\ server' = [server EXCEPT ![m.from] = NoServer]
  /\ Handled(m, A("logout", IF server[m.from] = NoServer THEN "session_expired" ELSE "ok"))
  /\ UNCHANGED <<accounts, tokens, lock, estranged, recreated>>

\* A handler that finds no session of its connection, or may take the lock.
NoSession(m, result) ==
  /\ server[m.from] = NoServer /\ Handled(m, A(m.q.op, result))
  /\ UNCHANGED <<accounts, server, tokens, lock, estranged, recreated>>
WithSession(m) == server[m.from] # NoServer /\ lock = "free"

ResAccountCreate(m) ==
  LET uid == Lower[m.q.uid]
  IN  /\ m.q.op = "create"
      /\ \/ NoSession(m, "no_permission")
         \/ /\ WithSession(m)
            /\ LET result == CASE server[m.from].admin = 0 -> "no_permission"
                               [] server[m.from].admin # 0 /\ accounts[uid] # "none" -> "create_uid_exist"
                               [] OTHER -> "ok"
               IN  /\ accounts' = IF result = "ok" THEN [accounts EXCEPT ![uid] = m.q.type] ELSE accounts
                   /\ Handled(m, A("create", result))
            /\ UNCHANGED <<server, tokens, lock, estranged, recreated>>

\* The old password is looked up as if it was the name of an account too, so
\* that whether it is found correct does not depend on the session.
ResAccountModifyPwd(m) ==
  /\ m.q.op = "modify_pwd"
  /\ \/ NoSession(m, "session_expired")
     \/ /\ WithSession(m)
        /\ \E result \in {"ok", "old_pwd_incorrect"} : Handled(m, A("modify_pwd", result))
        /\ UNCHANGED <<accounts, server, tokens, lock, estranged, recreated>>

\* The handler returns without session_dref: the lock stays taken.
ResAccountModifyBasic(m) ==
  /\ m.q.op = "modify_basic"
  /\ \/ NoSession(m, "session_expired")
     \/ /\ WithSession(m) /\ lock' = "lost" /\ Handled(m, A("modify_basic", "ok"))
        /\ UNCHANGED <<accounts, server, tokens, estranged, recreated>>

DeleteOwn(m) ==
  LET uid == server[m.from].uid
      last1 == server[m.from].type = "admin" /\ Cardinality({u \in Uids : accounts[u] = "admin"}) <= 1
  IN  /\ Handled(m, A("delete", IF last1 THEN "cannot_delete_last_admin" ELSE "ok"))
      /\ IF last1 THEN UNCHANGED <<accounts, server, tokens, estranged, recreated>>
         ELSE /\ server' = [server EXCEPT ![m.from] = NoServer]
              /\ tokens' = {t \in tokens : t.uid # uid}
              /\ accounts' = [accounts EXCEPT ![uid] = "none"]
              /\ estranged' = estranged \cup {m.from} /\ recreated' = recreated \cup {uid}

DeleteOther(m) ==
  LET ok == server[m.from].admin # 0
  IN  /\ Handled(m, A("delete", IF ok THEN "ok" ELSE "no_permission"))
      /\ IF ok /\ m.q.uid \in Uids
         THEN accounts' = [accounts EXCEPT ![m.q.uid] = "none"] /\ recreated' = recreated \cup {m.q.uid}
         ELSE UNCHANGED <<accounts, recreated>>
      /\ UNCHANGED <<server, tokens, estranged>>

\* The name is not brought to lower case here.  A wrong password returns
\* without session_dref.
ResAccountDelete(m) ==
  /\ m.q.op = "delete"
  /\ \/ NoSession(m, "session_expired")
     \/ /\ WithSession(m) /\ ~m.q.right /\ lock' = "lost" /\ Handled(m, A("delete", "old_pwd_incorrect"))
        /\ UNCHANGED <<accounts, server, tokens, estranged, recreated>>
     \/ /\ WithSession(m) /\ m.q.right /\ UNCHANGED lock
        /\ IF server[m.from].uid = m.q.uid THEN DeleteOwn(m) ELSE DeleteOther(m)

\* The handlers that change nothing of this model: who they are for, and the
\* result for a connection without a session.
Allowed(op) ==
  CASE op \in {"dish_fetch", "dish_book", "dish_cancel", "dish_list"} -> {"admin", "menu"}
    [] op = "cook_accept" -> {"admin", "cook"} [] op = "account_list" -> {"admin"}
    [] op \in {"seat_list", "heartbeat"} -> AccountTypes
Stranger(op) == CASE op = "cook_accept" -> "ok" [] op = "heartbeat" -> "0" [] OTHER -> "no_permission"

\* The rows of the list that is asked for.
AccountRow(u) == [type |-> accounts[u], uid |-> u, nick |-> u, comment |-> u]
RowsOf(op) ==
  CASE op = "account_list" -> SetToSeq({AccountRow(u) : u \in {v \in Uids : accounts[v] # "none"}})
    [] op \in Lists \ {"account_list"} -> Stored[op]
    [] OTHER -> << >>

ResRead(m) ==
  LET op == m.q.op
      result == CASE server[m.from].type \notin Allowed(op) -> "no_permission"
                  [] op = "heartbeat" -> "1"
                  [] ~(Needs(op) \subseteq m.sends) -> "illegal_parameter"
                  [] OTHER -> "ok"
  IN  /\ op \in Lists \cup {"dish_book", "dish_cancel", "cook_accept", "heartbeat"}
      /\ \/ NoSession(m, Stranger(op))
         \/ /\ WithSession(m)
            /\ Handled(m, [A(op, result) EXCEPT !.rows = IF result = "ok" THEN RowsOf(op) ELSE << >>])
            /\ UNCHANGED <<accounts, server, tokens, lock, estranged, recreated>>

ResVersionCheck(m) ==
  /\ m.q.op = "version_check" /\ Handled(m, A("version_check", "no_newest"))
  /\ UNCHANGED <<accounts, server, tokens, lock, estranged, recreated>>

\* A handler waits for the lock that was lost, and the dispatcher, which calls
\* the handlers under its own lock, with it.
Hang(m) ==
  /\ lock = "lost"
  /\ \/ server[m.from] # NoServer /\ m.q.op \notin {"login", "login2", "version_check"}
     \/ m.q.op = "login" /\ m.q.right /\ accounts[Lower[m.q.uid]] # "none"
     \/ m.q.op = "login2" /\ \E t \in tokens : t.uid = m.q.uid
  /\ lock' = "hung" /\ pending' = pending \ {m}
  /\ UNCHANGED <<client, up, answers, accounts, server, tokens, history>>

Serve(m) ==
  /\ lock \in {"free", "lost"}
  /\ \/ ResAccountLogin(m) \/ ResAccountLoginToken(m) \/ ResAccountLogout(m) \/ ResAccountCreate(m)
     \/ ResAccountModifyPwd(m) \/ ResAccountModifyBasic(m) \/ ResAccountDelete(m)
     \/ ResRead(m) \/ ResVersionCheck(m) \/ Hang(m)
-----------------------------------------------------------------------------
(* Answers arrive, and connections break.                                  *)
LoggedIn == {"ok", "login_ok_conflict"}

\* Mutant of ReadLogin: the session is kept whatever the result is.
ReadLoginAlways(q, a, s) == [uid |-> q.uid, type |-> a.type]

\* The name is what the caller gave, not what the server made of it.
ReadLogin(q, a, s) == IF a.result \in LoggedIn THEN [uid |-> q.uid, type |-> a.type] ELSE s
ReadLogin2(a, s) == IF a.result \in LoggedIn THEN [uid |-> a.uid, type |-> a.type] ELSE s

Read(q, a, s) ==
  CASE q.op = "login" -> ReadLogin(q, a, s) [] q.op = "login2" -> ReadLogin2(a, s) [] OTHER -> s

\* A list's caller ends when an assert on a field fails.  The other callers
\* read the result only.
Deliver(c) ==
  LET a == Head(answers[c])
      q == call[c]
      mine == q \notin {Idle, Dead} /\ Category(q) = a.cat
      rows == IF mine /\ q.op \in Lists THEN ReadList(q.op, a.rows) ELSE << >>
  IN  /\ answers[c] # << >>
      /\ answers' = [answers EXCEPT ![c] = Tail(@)]
      /\ IF mine
         THEN /\ call' = [call EXCEPT ![c] = IF Asserts(rows) THEN Dead ELSE Idle]
              /\ session' = [session EXCEPT ![c] = Read(q, a, @)]
              /\ last' = IF q.op \in Lists /\ a.result = "ok"
                         THEN [last EXCEPT ![c] = [op |-> q.op, rows |-> rows, sent |-> a.rows]] ELSE last
         ELSE UNCHANGED client
      /\ UNCHANGED <<up, pending, accounts, server, tokens, lock, history>>

\* The connection breaks: server_disconnect_cb deletes the session of the
\* descriptor, once it gets the lock.  The client keeps its copy.
Break(c) ==
  /\ up[c] /\ faults < MaxFaults /\ faults' = faults + 1
  /\ up' = [up EXCEPT ![c] = FALSE] /\ answers' = [answers EXCEPT ![c] = << >>]
  /\ server' = IF lock = "free" THEN [server EXCEPT ![c] = NoServer] ELSE server
  /\ UNCHANGED <<client, pending, accounts, tokens, lock, made, gaveup, estranged, recreated>>
-----------------------------------------------------------------------------
Next ==
  \/ \E c \in Clients :
       \/ \E q \in Calls[c] : Refuse(c, q) \/ Ask(c, q)
       \/ GiveUp(c) \/ Deliver(c) \/ Break(c)
  \/ \E m \in pending : Serve(m)

Spec == Init /\ [][Next]_vars
-----------------------------------------------------------------------------
\* Variables hold values of their kinds.  The user of a client's session may
\* be none: a late answer to client_account_login, which has no uid in it, is
\* taken by client_account_login2 (req_account.c:193-245).
TypeOK ==
  /\ \A c \in Clients :
       /\ session[c] = None \/ (session[c].type \in AccountTypes /\ session[c].uid \in DOMAIN Lower \cup {"none"})
       /\ call[c] \in Calls[c] \cup {Idle, Dead} /\ server[c].uid \in Uids \cup {"none"}
       /\ \A i \in 1..Len(answers[c]) : answers[c][i].cat \in {Category(q) : q \in Calls[c]}
  /\ \A m \in pending : m.from \in Clients /\ m.q \in Calls[m.from] /\ m.n < made
  /\ accounts \in [Uids -> AccountTypes \cup {"none"}]
  /\ tokens \subseteq [uid : Uids, type : AccountTypes, admin : {0, 1}]
  /\ lock \in {"free", "lost", "hung", "dead"} /\ made \in 0..MaxCalls /\ faults \in 0..MaxFaults
  /\ up \in [Clients -> BOOLEAN] /\ gaveup \cup estranged \subseteq Clients

\* A client that has a session and is connected has one at the server, of the
\* same user and type: what it may do by its own copy (connect->session) is
\* what the server lets it do.  The exceptions are a login or logout that was
\* given up and took place later, a login of the user elsewhere or a deletion
\* of the own account, of which the client is not told, and a token that is
\* older than the account it logs in to.
SessionsAgree ==
  \A c \in Clients :
    (session[c] # None /\ up[c] /\ call[c] # Dead /\ c \notin gaveup \cup estranged)
      => /\ server[c].uid = Lower[session[c].uid]
         /\ server[c].uid \notin recreated => server[c].type = session[c].type

\* A user is logged in on one connection at a time, and a client that is
\* connected, has no call in progress and gave none up has no session at the
\* server that it does not know of.
NoHiddenSession ==
  /\ \A c, d \in Clients : (c # d /\ server[c] # NoServer) => server[c].uid # server[d].uid
  /\ \A c \in Clients : (up[c] /\ call[c] = Idle /\ c \notin gaveup /\ session[c] = None) => server[c] = NoServer

\* The lists of dishes, seats and accounts reach the caller as the server has
\* them, row by row and field by field, with the answer of an earlier call of
\* the same kind too.  The list of bookings is the exception, and the caller
\* of no other function fails an assert: the comment, which is sent as a string
\* (res_dish.c:442), must be PACKET_INT (req_dish.c:547), and accept_state is
\* stored as dish_id (req_dish.c:551).
ListsParsed ==
  \A c \in Clients :
    /\ call[c] = Dead => last[c].op = "dish_list"
    /\ last[c].op # "dish_list"
         => /\ Len(last[c].rows) = Len(last[c].sent)
            /\ \A i \in 1..Len(last[c].rows) : \A f \in DOMAIN last[c].sent[i] : last[c].rows[i][f] = last[c].sent[i][f]
=============================================================================
