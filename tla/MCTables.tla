----------------------------- MODULE MCTables -------------------------------
(***************************************************************************)
(* A new database, and one with two admins, two bookings of one seat and a *)
(* third account.                                                          *)
(***************************************************************************)
EXTENDS Tables

Account(uid, type) == [uid |-> uid, type |-> type, pwd |-> uid, nick |-> "a", comment |-> "a"]

Used ==
  [account |-> {Youmenu, Account("u2", "admin"), Account("u3", "menu")},
   dish |-> {HotDish}, seat |-> {Seat0, [id |-> 1]},
   book |-> {[id |-> 1, seat |-> 0, dish |-> 0], [id |-> 2, seat |-> 0, dish |-> 0]}]

NewOrUsed == {<< >>, Used}

Names == {"youmenu", "u2", "u3"}

AllRequests ==
  {[op |-> "login", fd |-> 3, uid |-> u, pwd |-> u] : u \in Names}
  \cup {[op |-> "login", fd |-> 4, uid |-> u, pwd |-> "u2"] : u \in Names}
  \cup {[op |-> "delete", fd |-> 3, uid |-> u, pwd |-> p] : u \in Names, p \in {"youmenu", "u3"}}
  \cup {[op |-> "delete", fd |-> 4, uid |-> "u2", pwd |-> "u2"]}
  \cup {[op |-> "create", fd |-> 3, uid |-> "u3", type |-> "admin", pwd |-> "u3"]}
  \cup {[op |-> "modify_pwd", fd |-> 4, pwd |-> p, new |-> "u2"] : p \in {"youmenu", "u2"}}
  \cup {[op |-> "dish_fetch", fd |-> 4, category |-> c] : c \in {"hot", "cold"}}
  \cup {[op |-> "dish_book", fd |-> 4, seat |-> s, dish |-> 0] : s \in {-1, 0, 7}}
  \cup [op : {"dish_cancel", "dish_list"}, fd : {3}, seat : {-1, 0, 1}]
  \cup [op : {"modify_basic", "account_list", "seat_list", "cook_accept", "version_check", "heartbeat"}, fd : {3}]
=============================================================================
