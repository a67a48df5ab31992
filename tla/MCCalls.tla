------------------------------ MODULE MCCalls -------------------------------
(***************************************************************************)
(* An admin and a waiter, who writes the name in two ways, at two clients. *)
(* The rows have a different value in every field.                         *)
(***************************************************************************)
EXTENDS Calls

Names == [ann |-> "ann", bob |-> "bob", Bob |-> "bob"]

Start == [ann |-> "admin", bob |-> "menu"]

Rows ==
  [dish_fetch |-> <<[id |-> "1", category |-> "2", name |-> "3", summary |-> "4", price_type |-> "5", price |-> "6"],
                    [id |-> "7", category |-> "2", name |-> "8", summary |-> "9", price_type |-> "10", price |-> "11"]>>,
   seat_list |-> <<[id |-> "1", summary |-> "2", qrcode |-> "3"]>>,
   dish_list |-> <<[book_id |-> "1", seat_id |-> "2", dish_id |-> "3", jin_or_plate |-> "4", comment |-> "5",
                    accept_state |-> "6"]>>]

BobsToken == {[uid |-> "bob", type |-> "menu", admin |-> 0]}

Login(u, right, token) == [op |-> "login", valid |-> TRUE, uid |-> u, right |-> right, token |-> token]
Simple(op) == [op |-> op, valid |-> TRUE]

\* The waiter may log in at the admin's client, too.
AdminsCalls ==
  {Login("ann", TRUE, FALSE), Login("bob", TRUE, FALSE),
   [op |-> "create", valid |-> TRUE, uid |-> "bob", type |-> "admin"],
   [op |-> "delete", valid |-> TRUE, uid |-> "ann", right |-> TRUE],
   [op |-> "delete", valid |-> TRUE, uid |-> "bob", right |-> TRUE],
   [op |-> "delete", valid |-> TRUE, uid |-> "bob", right |-> FALSE],
   Simple("logout"), Simple("modify_basic"), Simple("account_list"), Simple("cook_accept")}

WaitersCalls ==
  {Login("Bob", TRUE, TRUE), Login("bob", FALSE, FALSE), [op |-> "login2", valid |-> TRUE, uid |-> "bob"],
   [op |-> "modify_pwd", valid |-> TRUE, same |-> TRUE], [op |-> "modify_pwd", valid |-> TRUE, same |-> FALSE],
   [op |-> "dish_book", valid |-> FALSE]}
  \cup {Simple(op) : op \in {"logout", "dish_fetch", "dish_book", "dish_cancel", "dish_list", "seat_list",
                             "version_check", "heartbeat"}}

CallsOf == [c \in Clients |-> IF c = "c1" THEN AdminsCalls ELSE WaitersCalls]
=============================================================================
