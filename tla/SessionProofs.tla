---------------------------- MODULE SessionProofs ----------------------------
(***************************************************************************)
(* Proofs about the server's sessions, for any users, descriptors,         *)
(* requests and numbers of them: no session is used by session_dref or     *)
(* session_add that is not, or already is, in the list, and a user has one *)
(* session of each kind.                                                   *)
(***************************************************************************)
EXTENDS Session, TLAPS

\* The i-th call of a program, and what it is.
Return == Do("return")
Code(s, i) == IF i \in 1 .. Len(s) THEN s[i] ELSE Return
Op(s, i) == Code(s, i).do

\* Where the handler is with a session, read off its next call, and for get
\* and lock off the one after it, which tells a login by token from the other
\* callers of session_ref_*.
FreeOps == {"find", "unlink", "add_fd", "add_token", "account", "create", "account_del"}
Phase(s) ==
  LET x == Op(s, 1)
      y == Op(s, 2)
  IN  CASE x = "get" /\ y = "lock" -> "found"
        [] x = "get" /\ y # "lock" -> "token_locked"
        [] x = "lock" /\ y # "get" -> "counted"
        [] x = "lock" /\ y = "get" -> "token_found"
        [] x \in {"copy", "dref", "delete"} -> "held"
        [] x = "release" -> "unlinked"
        [] x = "return" -> "done"
        [] OTHER -> "free"

\* What may follow a call of a program.
Follows(s, i) ==
  /\ Op(s, i) = "find" =>
       /\ Code(s, i).by \in {"fd", "uid", "token"} /\ Code(s, i).miss \in {5, All}
       /\ \/ Op(s, i + 1) = "get" /\ Op(s, i + 2) = "lock"
          \/ Code(s, i).by = "token" /\ Op(s, i + 1) = "lock" /\ Op(s, i + 2) = "get"
       /\ Code(s, i).miss = 5 => Op(s, i + 6) \in {"find", "add_fd", "add_token"}
  /\ Op(s, i) = "get" => \/ Op(s, i + 1) = "copy"
                         \/ Op(s, i + 1) = "lock" /\ Op(s, i + 2) \in {"return", "dref", "delete"}
  /\ Op(s, i) = "lock" => \/ Op(s, i + 1) \in {"return", "dref", "delete"}
                          \/ Op(s, i + 1) = "get" /\ Op(s, i + 2) = "copy"
  /\ Op(s, i) = "copy" => Op(s, i + 1) = "dref"
  /\ Op(s, i) = "unlink" =>
       /\ Code(s, i).by \in {"fd", "token"} /\ Code(s, i).miss \in {1, All}
       /\ Op(s, i + 1) = "release"
       /\ Code(s, i).miss = 1 => Op(s, i + 2) \in FreeOps
  /\ Op(s, i) \in {"dref", "release", "add_fd", "add_token", "account", "create", "account_del"} =>
       Op(s, i + 1) \in FreeOps \cup {"return"}

\* What comes before an addition of a session: the look-up and the deletion
\* of an older one.
Removal(s, p, find, unlink) ==
  /\ p > 1 => Code(s, p - 1) = Do("release")
  /\ p > 2 => Code(s, p - 2) = unlink
  /\ p > 3 => Code(s, p - 3) = Do("dref")
  /\ p > 4 => Code(s, p - 4) = Do("lock")
  /\ p > 5 => Code(s, p - 5) = Do("get")
  /\ p > 6 => Code(s, p - 6) = find

UnlinkOf(by) == [do |-> "unlink", by |-> by, miss |-> All]

Precedes(s, p) ==
  /\ Op(s, p) = "add_fd" =>
       /\ Removal(s, p, Find("fd", 5), UnlinkOf("fd"))
       /\ p > 6 => Removal(s, p - 6, Find("uid", 5), UnlinkOf("fd"))
  /\ Op(s, p) = "add_token" =>
       /\ Removal(s, p, Find("token", 5), UnlinkOf("token"))
       /\ p > 7 => Code(s, p - 7) = Do("add_fd")

OpNames == FreeOps \cup {"get", "lock", "copy", "dref", "delete", "release"}
Codes == [do : OpNames, by : {"fd", "uid", "token", "none"}, miss : {0, 1, 5, All}]
Proper(s) ==
  /\ s \in Seq(Codes) /\ Len(s) < All
  /\ \A i \in Nat \ {0} : Follows(s, i) /\ Precedes(s, i)

\* The handler has a reference that it has not given back.
Owner == Phase(todo) \in {"counted", "held"} \/ (Phase(todo) = "done" /\ lock = "handler")

Sessions ==
  [uid : Uids \cup {"none"}, fd : Fds \cup {0}, kind : {"none", "fd", "token"},
   type : Types \cup {"none"}, admin : {0, 1}]

\* Variables one at a time.
Kinds ==
  /\ accounts \in [Uids -> Types \cup {"none"}] /\ list \subseteq Ids
  /\ sess \in [Ids -> Sessions] /\ refs \in [Ids -> Nat] /\ freed \subseteq Ids
  /\ lock \in {"free", "handler", "event", "lost"} /\ ptr \in Ids \cup {0}
  /\ event \in [fd : Fds \cup {0}, ptr : Ids \cup {0}] /\ new \in Sessions
  /\ req \in Requests \cup {NoRequest} /\ Proper(todo)

\* A session_t that is in the list was not freed, and one that was freed, or
\* is not in use, has no reference.
Table ==
  /\ \A i \in list : sess[i].kind \in {"fd", "token"} /\ i \notin freed
  /\ \A i \in freed : sess[i] # NoSession
  /\ \A i \in Ids : i \in freed \/ sess[i] = NoSession => refs[i] = 0

\* Who holds the lock.
Locking ==
  /\ lock = "event" <=> event.ptr # 0
  /\ event.ptr # 0 => event.ptr \notin list \cup freed /\ sess[event.ptr] # NoSession
  /\ Phase(todo) \in {"token_locked", "held", "unlinked"} => lock = "handler"
  /\ Phase(todo) \in {"free", "found", "counted", "token_found"} => lock # "handler"
  /\ req = NoRequest => todo = << >> /\ lock # "handler"
  /\ req # NoRequest => new.kind = "fd" /\ new.fd = req.fd

\* Where the session is that the handler works on.  One that it found without
\* the lock may be unlinked, and even freed, by the event thread; once it has
\* a reference, the event thread waits for it with the lock.
Pointer ==
  /\ Phase(todo) = "found" => ptr # 0 /\ ptr \in list \cup freed \cup {event.ptr}
  /\ Phase(todo) = "counted" => ptr # 0 /\ ptr \in list \cup {event.ptr}
  /\ Phase(todo) \in {"token_found", "token_locked"} => ptr \in list /\ sess[ptr].kind = "token"
  /\ Phase(todo) = "held" => ptr \in list
  /\ Phase(todo) = "unlinked" => ptr \in Ids \ (list \cup freed) /\ sess[ptr] # NoSession

\* The references are the handler's, and one that an earlier handler kept,
\* together with the lock.
Own(i) == IF Owner /\ i = ptr THEN 1 ELSE 0
Counts == \A i \in Ids : Own(i) <= refs[i] /\ refs[i] <= IF lock = "lost" THEN Own(i) + 1 ELSE Own(i)

Unique ==
  \A i, j \in list : i # j /\ sess[i].kind = sess[j].kind =>
    sess[i].uid # sess[j].uid /\ (sess[i].kind = "fd" => sess[i].fd # sess[j].fd)

\* How far the older sessions are deleted when so many calls are left before
\* the new one is added.
FdGone    == FdSessions(new.fd) = {}
FdOnly    == FdSessions(new.fd) \subseteq {ptr}
UidGone   == UidSessions(new.uid, "fd") = {}
UidOnly   == UidSessions(new.uid, "fd") \subseteq {ptr}
TokenGone == UidSessions(new.uid, "token") = {}
TokenOnly == UidSessions(new.uid, "token") \subseteq {ptr}
Cleared ==
  /\ \A p \in 1 .. 12 : Op(todo, p) = "add_fd" =>
       (p <= 2 => FdGone) /\ (p <= 6 => FdOnly) /\ (p <= 8 => UidGone) /\ UidOnly
  /\ \A p \in 1 .. 6 : Op(todo, p) = "add_token" => (p <= 2 => TokenGone) /\ TokenOnly

\* Nothing is said of the handler after a failing assert or a use of freed
\* memory.
Sound == Kinds /\ Table /\ Locking /\ Pointer /\ Counts /\ Unique /\ Cleared
IInv == TypeOK /\ HeldSessionStays /\ SessionsUnique /\ (fault = "none" => Sound)
-----------------------------------------------------------------------------
\* t is what is left of s when its first m calls are done.
Rest(t, s, m) ==
  /\ t \in Seq(Codes) /\ Len(t) <= Len(s)
  /\ \A i \in Nat \ {0} : Code(t, i) = Code(s, i + m)

\* c has the calls of a and then those of b.
Joined(a, b, c) ==
  /\ c \in Seq(Codes) /\ Len(c) = Len(a) + Len(b)
  /\ \A i \in 1 .. Len(a) : Code(c, i) = Code(a, i)
  /\ \A i \in Nat \ {0} : Code(c, Len(a) + i) = Code(b, i)

\* The calls of Replace(by, del), from place k + 1 on.
Block(s, k, by, del) ==
  /\ Code(s, k + 1) = Find(by, 5) /\ Code(s, k + 2) = Do("get") /\ Code(s, k + 3) = Do("lock")
  /\ Code(s, k + 4) = Do("dref") /\ Code(s, k + 5) = UnlinkOf(del) /\ Code(s, k + 6) = Do("release")

\* Short programs.
Is1(s, x) == s \in Seq(Codes) /\ Len(s) = 1 /\ Code(s, 1) = x
Is2(s, x, y) == s \in Seq(Codes) /\ Len(s) = 2 /\ Code(s, 1) = x /\ Code(s, 2) = y
Is3(s, x, y, z) == s \in Seq(Codes) /\ Len(s) = 3 /\ Code(s, 1) = x /\ Code(s, 2) = y /\ Code(s, 3) = z
Is4(s, x, y, z, w) ==
  /\ s \in Seq(Codes) /\ Len(s) = 4
  /\ Code(s, 1) = x /\ Code(s, 2) = y /\ Code(s, 3) = z /\ Code(s, 4) = w

JoinedAt(a, b, c, m) ==
  /\ Joined(a, b, c) /\ c \in Seq(Codes) /\ Len(c) = m + Len(b)
  /\ \A i \in 1 .. m : Code(c, i) = Code(a, i)
  /\ Code(c, m + 1) = Code(b, 1) /\ Code(c, m + 2) = Code(b, 2)

\* Calls in a program that adds no session.
Fits(s, i) == Follows(s, i) /\ Precedes(s, i)

\* A program that adds no session and begins with session_dref.
Returns(s) == Proper(s) /\ Op(s, 1) = "dref" /\ \A p \in Nat \ {0} : Op(s, p) \notin {"add_fd", "add_token"}

\* What a handler begins with.
Starts(s) ==
  \/ s = << >>
  \/ Op(s, 1) = "find" /\ Code(s, 1) # Find("fd", 5) /\ Code(s, 1) # Find("token", 5)

\* What is left of a program is a proper program, and so are the programs of
\* all handlers.
LEMMA Programs ==
  /\ \A s, n : Proper(s) /\ n \in Nat =>
       Proper(SubSeq(s, n + 2, Len(s))) /\ Rest(SubSeq(s, n + 2, Len(s)), s, n + 1)
  /\ \A q : Proper(Program(q)) /\ Starts(Program(q))
  /\ \A s : DeleteProgram(s) = << >> \/ Returns(DeleteProgram(s))
  /\ Proper(<< >>)
\* The calls of what is left of a program when its first calls are done.
<1>DropCode.
  ASSUME NEW s \in Seq(Codes), NEW n \in Nat
  PROVE  Rest(SubSeq(s, n + 2, Len(s)), s, n + 1)
  <2> USE <1>DropCode
  <2>0. PICK t : t = SubSeq(s, n + 2, Len(s))
    BY Zenon
  <2>1. CASE n + 1 <= Len(s)
    <3>1. t \in Seq(Codes) /\ Len(t) = Len(s) - (n + 1)
      BY <2>0, <2>1
    <3>2. \A i \in 1 .. Len(t) : t[i] = s[i + (n + 1)]
      BY <2>0, <2>1, <3>1
    <3>3. Rest(t, s, n + 1)
      BY <2>1, <3>1, <3>2 DEF Code, Rest
    <3>4. QED
      BY Zenon, <2>0, <3>3
  <2>2. CASE ~(n + 1 <= Len(s))
    <3>1. t = << >>
      BY <2>0, <2>2
    <3>2. Rest(t, s, n + 1)
      BY <2>2, <3>1 DEF Code, Rest
    <3>3. QED
      BY Zenon, <2>0, <3>2
  <2>3. QED
    BY Zenon, <2>1, <2>2

\* The calls before two places are the same.
<1>ShiftRemoval.
  ASSUME NEW s, NEW t, NEW p, NEW q, NEW find, NEW unlink,
         \A k \in 1 .. 6 : p > k => q > k /\ Code(t, p - k) = Code(s, q - k), Removal(s, q, find, unlink)
  PROVE  Removal(t, p, find, unlink)
  <2> USE <1>ShiftRemoval
  <2>1. 1 \in 1 .. 6 /\ 2 \in 1 .. 6 /\ 3 \in 1 .. 6 /\ 4 \in 1 .. 6 /\ 5 \in 1 .. 6 /\ 6 \in 1 .. 6
    OBVIOUS
  <2>2. QED
    BY Zenon, <2>1 DEF Removal

\* A program whose calls are those of another one from some place on.
<1>ShiftProper.
  ASSUME NEW s, NEW t, NEW m \in Nat, Proper(s), Rest(t, s, m)
  PROVE  Proper(t)
  <2> USE <1>ShiftProper
  <2>0. /\ s \in Seq(Codes) /\ t \in Seq(Codes) /\ Len(s) < All /\ Len(t) <= Len(s)
        /\ \A i \in Nat \ {0} : Code(t, i) = Code(s, i + m)
    BY Zenon DEF Proper, Rest
  <2>1. Len(t) < All
    <3>1. Len(t) \in Nat /\ Len(s) \in Nat
      BY <2>0
    <3>2. QED
      BY <2>0, <3>1 DEF All
  <2>2. ASSUME NEW i \in Nat \ {0} PROVE Follows(t, i)
    <3>1. PICK j \in Nat \ {0} : j = i + m
      OBVIOUS
    <3>a. ASSUME NEW k \in Nat PROVE Code(t, i + k) = Code(s, j + k)
      <4>1. i + k \in Nat \ {0} /\ (i + k) + m = j + k
        BY <3>1
      <4>2. QED
        BY Zenon, <2>0, <4>1
    <3>2. Code(t, i) = Code(s, j) /\ Code(t, i + 1) = Code(s, j + 1)
          /\ Code(t, i + 2) = Code(s, j + 2) /\ Code(t, i + 6) = Code(s, j + 6)
      BY Zenon, <2>0, <3>a, <3>1, 1 \in Nat, 2 \in Nat, 6 \in Nat
    <3>3. Follows(s, j)
      BY Zenon DEF Proper
    <3>4. QED
      BY Zenon, <3>2, <3>3 DEF Follows, Op
  <2>3. ASSUME NEW p \in Nat \ {0} PROVE Precedes(t, p)
    <3>1. PICK q \in Nat \ {0} : q = p + m
      OBVIOUS
    <3>2. Code(t, p) = Code(s, q) /\ \A k \in 1 .. p - 1 : Code(t, p - k) = Code(s, q - k)
      <4>1. ASSUME NEW k \in 0 .. p - 1 PROVE Code(t, p - k) = Code(s, q - k)
        <5>1. p - k \in Nat \ {0} /\ (p - k) + m = q - k
          BY <3>1
        <5>2. QED
          BY Zenon, <2>0, <5>1
      <4>2. Code(t, p) = Code(s, q)
        BY Zenon, <2>0, <3>1
      <4>3. QED
        BY <4>1, <4>2
    <3>3. \A k \in 1 .. 12 : p > k => q > k /\ Code(t, p - k) = Code(s, q - k)
      BY <3>1, <3>2
    <3>4. Precedes(s, q)
      BY Zenon DEF Proper
    <3>5. ASSUME NEW find, NEW unlink, Removal(s, q, find, unlink) PROVE Removal(t, p, find, unlink)
      <4>1. \A k \in 1 .. 6 : p > k => q > k /\ Code(t, p - k) = Code(s, q - k)
        BY <3>3
      <4>2. QED
        BY Zenon, <3>5, <4>1, <1>ShiftRemoval
    <3>6. ASSUME NEW find, NEW unlink, p > 6, Removal(s, q - 6, find, unlink)
          PROVE  Removal(t, p - 6, find, unlink)
      <4>1. \A k \in 1 .. 6 : p - 6 > k => q - 6 > k /\ Code(t, (p - 6) - k) = Code(s, (q - 6) - k)
        <5>1. SUFFICES ASSUME NEW k \in 1 .. 6, p - 6 > k
                       PROVE  q - 6 > k /\ Code(t, (p - 6) - k) = Code(s, (q - 6) - k)
          BY Zenon
        <5>2. (p - 6) - k = p - (6 + k) /\ (q - 6) - k = q - (6 + k) /\ 6 + k \in 1 .. 12 /\ p > 6 + k
          BY <5>1
        <5>3. q > 6 + k /\ Code(t, p - (6 + k)) = Code(s, q - (6 + k))
          BY Zenon, <5>2, <3>3
        <5>4. QED
          BY <5>2, <5>3
      <4>2. PICK u, v : u = p - 6 /\ v = q - 6
        BY Zenon
      <4>3. \A k \in 1 .. 6 : u > k => v > k /\ Code(t, u - k) = Code(s, v - k)
        BY Zenon, <4>1, <4>2
      <4>a. Removal(s, v, find, unlink)
        BY Zenon, <3>6, <4>2
      <4>4. Removal(t, u, find, unlink)
        BY Zenon, <4>a, <4>3, <1>ShiftRemoval
      <4>5. QED
        BY Zenon, <4>2, <4>4
    <3>7. p > 6 => q > 6
      BY <3>3
    <3>8. p > 7 => q > 7 /\ Code(t, p - 7) = Code(s, q - 7)
      BY <3>3
    <3>9. QED
      BY Zenon, <3>2, <3>4, <3>5, <3>6, <3>7, <3>8 DEF Precedes, Op
  <2>4. QED
    BY Zenon, <2>0, <2>1, <2>2, <2>3 DEF Proper

\* What is left of a program is one.
<1>DropProper.
  ASSUME NEW s, Proper(s), NEW n \in Nat
  PROVE  Proper(SubSeq(s, n + 2, Len(s))) /\ Rest(SubSeq(s, n + 2, Len(s)), s, n + 1)
  <2> USE <1>DropProper
  <2>1. PICK t : t = SubSeq(s, n + 2, Len(s))
    BY Zenon
  <2>2. s \in Seq(Codes) /\ n + 1 \in Nat
    BY DEF Proper
  <2>3. Rest(t, s, n + 1)
    BY Zenon, <2>1, <2>2, <1>DropCode
  <2>4. Proper(t)
    BY Zenon, <2>2, <2>3, <1>ShiftProper
  <2>5. QED
    BY Zenon, <2>1, <2>3, <2>4

\* The calls of two programs one after the other.
<1>JoinCode.
  ASSUME NEW a \in Seq(Codes), NEW b \in Seq(Codes)
  PROVE  Joined(a, b, a \o b)
  <2> USE <1>JoinCode
  <2>1. a \o b \in Seq(Codes)
    OBVIOUS
  <2>2. PICK s \in Seq(Codes) : s = a \o b
    BY Zenon, <2>1
  <2>3. Len(s) = Len(a) + Len(b) /\ Len(a) \in Nat /\ Len(b) \in Nat
    BY <2>2
  <2>a. ASSUME NEW i \in 1 .. Len(a) PROVE s[i] = a[i]
    BY <2>2
  <2>b. ASSUME NEW i \in 1 .. Len(b) PROVE s[Len(a) + i] = b[i]
    BY <2>2
  <2>4. ASSUME NEW i \in 1 .. Len(a) PROVE Code(s, i) = Code(a, i)
    BY <2>3, <2>a DEF Code
  <2>5. ASSUME NEW i \in Nat \ {0} PROVE Code(s, Len(a) + i) = Code(b, i)
    <3>1. CASE i <= Len(b)
      <4>1. s[Len(a) + i] = b[i]
        BY <2>b, <3>1
      <4>2. QED
        BY <2>3, <3>1, <4>1 DEF Code
    <3>2. CASE ~(i <= Len(b))
      BY <2>3, <3>2 DEF Code
    <3>3. QED
      BY Zenon, <3>1, <3>2
  <2>6. Joined(a, b, s)
    BY Zenon, <2>2, <2>3, <2>4, <2>5 DEF Joined
  <2>7. QED
    BY Zenon, <2>2, <2>6

\* The blocks of the first part stay.
<1>BlockLeft.
  ASSUME NEW a \in Seq(Codes), NEW b, NEW c, Joined(a, b, c), NEW by, NEW del, NEW k \in Nat,
         NEW m \in Nat, Len(a) = m, Block(a, k, by, del), k + 6 <= m
  PROVE  Block(c, k, by, del)
  <2> USE <1>BlockLeft
  <2>1. \A i \in 1 .. m : Code(c, i) = Code(a, i)
    BY Zenon DEF Joined
  <2>2. \A j \in 1 .. 6 : Code(c, k + j) = Code(a, k + j)
    BY <2>1
  <2>3. 1 \in 1 .. 6 /\ 2 \in 1 .. 6 /\ 3 \in 1 .. 6 /\ 4 \in 1 .. 6 /\ 5 \in 1 .. 6 /\ 6 \in 1 .. 6
    OBVIOUS
  <2>4. QED
    BY Zenon, <2>2, <2>3 DEF Block

\* The blocks of the second part move up.
<1>BlockRight.
  ASSUME NEW a \in Seq(Codes), NEW b, NEW c, Joined(a, b, c), NEW by, NEW del, NEW k \in Nat,
         NEW m \in Nat, Len(a) = m, Block(b, k, by, del)
  PROVE  Block(c, m + k, by, del)
  <2> USE <1>BlockRight
  <2>1. \A i \in Nat \ {0} : Code(c, m + i) = Code(b, i)
    BY Zenon DEF Joined
  <2>2. ASSUME NEW j \in 1 .. 6 PROVE Code(c, (m + k) + j) = Code(b, k + j)
    <3>1. k + j \in Nat \ {0} /\ m + (k + j) = (m + k) + j
      OBVIOUS
    <3>2. QED
      BY Zenon, <2>1, <3>1
  <2>3. 1 \in 1 .. 6 /\ 2 \in 1 .. 6 /\ 3 \in 1 .. 6 /\ 4 \in 1 .. 6 /\ 5 \in 1 .. 6 /\ 6 \in 1 .. 6
    OBVIOUS
  <2>4. QED
    BY Zenon, <2>2, <2>3 DEF Block

\* The calls of a block are followed by the ones they ask for.
<1>BlockFollows.
  ASSUME NEW s, NEW k \in Nat, NEW by \in {"fd", "uid", "token"}, NEW del \in {"fd", "token"},
         Block(s, k, by, del), Op(s, k + 7) \in {"find", "add_fd", "add_token"}
  PROVE  \A i \in k + 1 .. k + 6 :
           Follows(s, i) /\ Op(s, i) \in {"find", "get", "lock", "dref", "unlink", "release"}
  <2> USE <1>BlockFollows
  <2>1. /\ Code(s, k + 1) = Find(by, 5) /\ Code(s, k + 2) = Do("get") /\ Code(s, k + 3) = Do("lock")
        /\ Code(s, k + 4) = Do("dref") /\ Code(s, k + 5) = UnlinkOf(del) /\ Code(s, k + 6) = Do("release")
    BY Zenon DEF Block
  <2>2. /\ Op(s, k + 1) = "find" /\ Code(s, k + 1).by = by /\ Code(s, k + 1).miss = 5
        /\ Op(s, k + 2) = "get" /\ Op(s, k + 3) = "lock" /\ Op(s, k + 4) = "dref"
        /\ Op(s, k + 5) = "unlink" /\ Code(s, k + 5).by = del /\ Code(s, k + 5).miss = All
        /\ Op(s, k + 6) = "release"
    BY <2>1 DEF Op, Find, Do, UnlinkOf
  <2>3. /\ Follows(s, k + 1) /\ Follows(s, k + 2) /\ Follows(s, k + 3)
    BY <2>2 DEF Follows
  <2>4. /\ Follows(s, k + 4) /\ Follows(s, k + 5) /\ Follows(s, k + 6)
    BY <2>2 DEF Follows, FreeOps, All
  <2>5. ASSUME NEW i \in k + 1 .. k + 6
        PROVE  i = k + 1 \/ i = k + 2 \/ i = k + 3 \/ i = k + 4 \/ i = k + 5 \/ i = k + 6
    OBVIOUS
  <2>6. QED
    BY <2>2, <2>3, <2>4, <2>5

\* A block is what has to come before an addition.
<1>BlockRemoval.
  ASSUME NEW s, NEW k \in Nat, NEW by, NEW del, Block(s, k, by, del)
  PROVE  Removal(s, k + 7, Find(by, 5), UnlinkOf(del))
  <2> USE <1>BlockRemoval
  <2>1. /\ (k + 7) - 1 = k + 6 /\ (k + 7) - 2 = k + 5 /\ (k + 7) - 3 = k + 4
        /\ (k + 7) - 4 = k + 3 /\ (k + 7) - 5 = k + 2 /\ (k + 7) - 6 = k + 1
    OBVIOUS
  <2>2. QED
    BY Zenon, <2>1 DEF Block, Removal

\* Every call the programs are built from is one.
<1>CallCodes.
  /\ \A x \in OpNames : Do(x) \in Codes
  /\ \A by \in {"fd", "uid", "token"}, miss \in {5, All} : Find(by, miss) \in Codes
  /\ \A by \in {"fd", "token"}, miss \in {1, All} : [do |-> "unlink", by |-> by, miss |-> miss] \in Codes
  <2>1. ASSUME NEW x \in OpNames PROVE Do(x) \in Codes
    BY DEF Do, Codes
  <2>2. ASSUME NEW by \in {"fd", "uid", "token"}, NEW miss \in {5, All} PROVE Find(by, miss) \in Codes
    BY DEF Find, Codes, OpNames, FreeOps
  <2>3. ASSUME NEW by \in {"fd", "token"}, NEW miss \in {1, All}
        PROVE  [do |-> "unlink", by |-> by, miss |-> miss] \in Codes
    BY DEF Codes, OpNames, FreeOps
  <2>4. QED
    BY Zenon, <2>1, <2>2, <2>3

\* The calls that have no argument.
<1>DoCodes.
  /\ Do("get") \in Codes /\ Do("lock") \in Codes /\ Do("copy") \in Codes /\ Do("dref") \in Codes
  /\ Do("release") \in Codes /\ Do("delete") \in Codes /\ Do("add_fd") \in Codes
  /\ Do("add_token") \in Codes /\ Do("account") \in Codes /\ Do("create") \in Codes
  /\ Do("account_del") \in Codes
  <2>1. {"get", "lock", "copy", "dref", "release", "delete", "add_fd", "add_token", "account", "create",
         "account_del"} \subseteq OpNames
    BY DEF OpNames, FreeOps
  <2>2. QED
    BY <2>1, <1>CallCodes

\* Programs written as tuples.
<1>TupleCode.
  /\ \A x \in Codes : Is1(<<x>>, x)
  /\ \A x, y \in Codes : Is2(<<x, y>>, x, y)
  /\ \A x, y, z \in Codes : Is3(<<x, y, z>>, x, y, z)
  <2>1. ASSUME NEW x \in Codes PROVE Is1(<<x>>, x)
    BY DEF Is1, Code
  <2>2. ASSUME NEW x \in Codes, NEW y \in Codes PROVE Is2(<<x, y>>, x, y)
    BY DEF Is2, Code
  <2>3. ASSUME NEW x \in Codes, NEW y \in Codes, NEW z \in Codes PROVE Is3(<<x, y, z>>, x, y, z)
    BY DEF Is3, Code
  <2>4. QED
    BY Zenon, <2>1, <2>2, <2>3

\* The places of the calls of a, and of the first calls of b.
<1>JoinAt.
  ASSUME NEW a \in Seq(Codes), NEW b \in Seq(Codes), NEW m \in Nat, Len(a) = m, NEW c, c = a \o b
  PROVE  JoinedAt(a, b, c, m)
  <2> USE <1>JoinAt
  <2>1. Joined(a, b, c)
    BY Zenon, <1>JoinCode
  <2>2. 1 \in Nat \ {0} /\ 2 \in Nat \ {0}
    OBVIOUS
  <2>3. QED
    BY Zenon, <2>1, <2>2 DEF Joined, JoinedAt

\* session_ref_*.
<1>RefCode.
  ASSUME NEW by \in {"fd", "uid", "token"}, NEW miss \in {5, All}
  PROVE  Is3(Ref(by, miss), Find(by, miss), Do("get"), Do("lock"))
  <2> USE <1>RefCode
  <2>1. Find(by, miss) \in Codes /\ Do("get") \in Codes /\ Do("lock") \in Codes
    BY Zenon, <1>CallCodes, <1>DoCodes
  <2>2. QED
    BY Zenon, <2>1, <1>TupleCode DEF Ref

\* session_ref_*, and one more call.
<1>RefAndCode.
  ASSUME NEW by \in {"fd", "uid", "token"}, NEW miss \in {5, All}, NEW x \in Codes
  PROVE  Is4(Ref(by, miss) \o <<x>>, Find(by, miss), Do("get"), Do("lock"), x)
  <2> USE <1>RefAndCode
  <2>1. PICK a : a = Ref(by, miss)
    BY Zenon
  <2>2. PICK b : b = <<x>>
    BY Zenon
  <2>3. PICK c : c = a \o b
    BY Zenon
  <2>4. /\ a \in Seq(Codes) /\ Len(a) = 3
        /\ Code(a, 1) = Find(by, miss) /\ Code(a, 2) = Do("get") /\ Code(a, 3) = Do("lock")
    BY Zenon, <2>1, <1>RefCode DEF Is3
  <2>5. b \in Seq(Codes) /\ Len(b) = 1 /\ Code(b, 1) = x
    BY Zenon, <2>2, <1>TupleCode DEF Is1
  <2>a. JoinedAt(a, b, c, 3)
    BY Zenon, <2>3, <2>4, <2>5, <1>JoinAt, 3 \in Nat
  <2>6. /\ c \in Seq(Codes) /\ Len(c) = 3 + Len(b) /\ \A i \in 1 .. 3 : Code(c, i) = Code(a, i)
        /\ Code(c, 3 + 1) = Code(b, 1)
    BY Zenon, <2>a DEF JoinedAt
  <2>7. Is4(c, Find(by, miss), Do("get"), Do("lock"), x)
    BY <2>4, <2>5, <2>6 DEF Is4
  <2>8. QED
    BY Zenon, <2>1, <2>2, <2>3, <2>7

\* The calls of Replace.
<1>ReplaceCode.
  ASSUME NEW by \in {"fd", "uid", "token"}, NEW del \in {"fd", "token"}
  PROVE  Replace(by, del) \in Seq(Codes) /\ Len(Replace(by, del)) = 6 /\ Block(Replace(by, del), 0, by, del)
  <2> USE <1>ReplaceCode
  <2>1. PICK a : a = Ref(by, 5) \o <<Do("dref")>>
    BY Zenon
  <2>2. PICK b : b = DelOrFail(del)
    BY Zenon
  <2>3. PICK c : c = a \o b
    BY Zenon
  <2>a. 5 \in {5, All} /\ Do("dref") \in Codes
    BY Zenon, <1>DoCodes
  <2>c. Is4(Ref(by, 5) \o <<Do("dref")>>, Find(by, 5), Do("get"), Do("lock"), Do("dref"))
    BY Zenon, <2>a, <1>RefAndCode
  <2>4. /\ a \in Seq(Codes) /\ Len(a) = 4 /\ Code(a, 1) = Find(by, 5) /\ Code(a, 2) = Do("get")
        /\ Code(a, 3) = Do("lock") /\ Code(a, 4) = Do("dref")
    BY Zenon, <2>1, <2>c DEF Is4
  <2>5. UnlinkOf(del) \in Codes /\ Do("release") \in Codes
    BY Zenon, <1>CallCodes, <1>DoCodes DEF UnlinkOf
  <2>6. b \in Seq(Codes) /\ Len(b) = 2 /\ Code(b, 1) = UnlinkOf(del) /\ Code(b, 2) = Do("release")
    BY Zenon, <2>2, <2>5, <1>TupleCode DEF DelOrFail, UnlinkOf, Is2
  <2>b. JoinedAt(a, b, c, 4)
    BY Zenon, <2>3, <2>4, <2>6, <1>JoinAt, 4 \in Nat
  <2>7. /\ c \in Seq(Codes) /\ Len(c) = 4 + Len(b) /\ \A i \in 1 .. 4 : Code(c, i) = Code(a, i)
        /\ Code(c, 4 + 1) = Code(b, 1) /\ Code(c, 4 + 2) = Code(b, 2)
    BY Zenon, <2>b DEF JoinedAt
  <2>8. /\ c \in Seq(Codes) /\ Len(c) = 6 /\ Block(c, 0, by, del)
    BY <2>4, <2>6, <2>7 DEF Block
  <2>9. c = Replace(by, del)
    BY Zenon, <2>1, <2>2, <2>3 DEF Replace
  <2>10. QED
    BY Zenon, <2>8, <2>9

\* What follows the calls of a login and what comes before them.
<1>LoginAt.
  ASSUME NEW s, NEW k \in Nat, Block(s, k, "uid", "fd"), Block(s, k + 6, "fd", "fd"),
         Code(s, k + 13) = Do("add_fd"), Op(s, k + 14) \in {"return", "find", "account"}
  PROVE  \A i \in k + 1 .. k + 13 : Follows(s, i) /\ Precedes(s, i)
  <2> USE <1>LoginAt
  <2>0. k + 6 \in Nat /\ (k + 6) + 1 = k + 7 /\ (k + 6) + 7 = k + 13 /\ k + 13 > 1 /\ (k + 13) - 6 = k + 7
        /\ (k + 6) + 6 = k + 12
    OBVIOUS
  <2>1. Op(s, k + 13) = "add_fd"
    BY DEF Op, Do
  <2>2. Code(s, k + 7) = Find("fd", 5)
    BY Zenon, <2>0 DEF Block
  <2>3. Op(s, k + 7) = "find"
    BY <2>2 DEF Op, Find
  <2>4. \A i \in k + 1 .. k + 6 : Follows(s, i) /\ Op(s, i) \in {"find", "get", "lock", "dref", "unlink", "release"}
    BY Zenon, <2>3, <1>BlockFollows
  <2>5. \A i \in k + 7 .. k + 12 : Follows(s, i) /\ Op(s, i) \in {"find", "get", "lock", "dref", "unlink", "release"}
    BY Zenon, <2>0, <2>1, <1>BlockFollows
  <2>6. \A i \in k + 1 .. k + 12 : Follows(s, i) /\ Op(s, i) \in {"find", "get", "lock", "dref", "unlink", "release"}
    BY <2>4, <2>5
  <2>7. ASSUME NEW i \in k + 1 .. k + 12 PROVE Follows(s, i) /\ Precedes(s, i)
    BY <2>6 DEF Precedes
  <2>8. Removal(s, k + 7, Find("uid", 5), UnlinkOf("fd"))
    BY Zenon, <1>BlockRemoval
  <2>9. Removal(s, k + 13, Find("fd", 5), UnlinkOf("fd"))
    BY Zenon, <2>0, <1>BlockRemoval
  <2>10. Precedes(s, k + 13)
    <3>1. Op(s, k + 13) # "add_token"
      BY <2>1
    <3>2. QED
      BY Zenon, <2>0, <2>8, <2>9, <3>1 DEF Precedes
  <2>11. Follows(s, k + 13)
    <3>1. (k + 13) + 1 = k + 14
      OBVIOUS
    <3>2. Op(s, (k + 13) + 1) \in FreeOps \cup {"return"}
      BY <3>1 DEF FreeOps
    <3>3. QED
      BY <2>1, <3>2 DEF Follows
  <2>12. ASSUME NEW i \in k + 1 .. k + 13 PROVE i \in k + 1 .. k + 12 \/ i = k + 13
    OBVIOUS
  <2>13. QED
    BY Zenon, <2>7, <2>10, <2>11, <2>12

\* The same for the token of a login, which is added last.
<1>NewTokenAt.
  ASSUME NEW s, Block(s, 13, "token", "token"),
         Code(s, 13) = Do("add_fd"), Code(s, 20) = Do("add_token"), Op(s, 21) = "return"
  PROVE  \A i \in 14 .. 20 : Follows(s, i) /\ Precedes(s, i)
  <2> USE <1>NewTokenAt
  <2>0. 13 \in Nat /\ 13 + 1 = 14 /\ 13 + 6 = 19 /\ 13 + 7 = 20 /\ 20 - 7 = 13
    OBVIOUS
  <2>1. Op(s, 20) = "add_token"
    BY DEF Op, Do
  <2>2. \A i \in 14 .. 19 : Follows(s, i) /\ Op(s, i) \in {"find", "get", "lock", "dref", "unlink", "release"}
    BY Zenon, <2>0, <2>1, <1>BlockFollows
  <2>3. ASSUME NEW i \in 14 .. 19 PROVE Follows(s, i) /\ Precedes(s, i)
    BY <2>2 DEF Precedes
  <2>4. Removal(s, 20, Find("token", 5), UnlinkOf("token"))
    BY Zenon, <2>0, <1>BlockRemoval
  <2>5. Precedes(s, 20)
    <3>1. Op(s, 20) # "add_fd"
      BY <2>1
    <3>2. QED
      BY Zenon, <2>0, <2>4, <3>1 DEF Precedes
  <2>6. Follows(s, 20)
    <3>1. Op(s, 20 + 1) \in FreeOps \cup {"return"}
      OBVIOUS
    <3>2. QED
      BY <2>1, <3>1 DEF Follows
  <2>7. ASSUME NEW i \in 14 .. 20 PROVE i \in 14 .. 19 \/ i = 20
    OBVIOUS
  <2>8. QED
    BY Zenon, <2>3, <2>5, <2>6, <2>7

\* Past the end of a program there is nothing to show.
<1>ProperTo.
  ASSUME NEW s \in Seq(Codes), NEW n \in 0 .. 20, Len(s) = n,
         \A i \in 1 .. n : Follows(s, i) /\ Precedes(s, i)
  PROVE  Proper(s)
  <2> USE <1>ProperTo
  <2>1. ASSUME NEW i \in Nat \ {0}, i > n PROVE Op(s, i) = "return"
    BY <2>1 DEF Op, Code, Return, Do
  <2>2. ASSUME NEW i \in Nat \ {0}, Op(s, i) = "return" PROVE Follows(s, i) /\ Precedes(s, i)
    BY <2>2 DEF Follows, Precedes
  <2>3. ASSUME NEW i \in Nat \ {0} PROVE i \in 1 .. n \/ i > n
    OBVIOUS
  <2>4. Len(s) < All
    BY DEF All
  <2>5. QED
    BY Zenon, <2>1, <2>2, <2>3, <2>4 DEF Proper

\* res_account_check_session_exist.
<1>ExistsCode.
  /\ Exists \in Seq(Codes) /\ Len(Exists) = 12
  /\ Block(Exists, 0, "uid", "fd") /\ Block(Exists, 6, "fd", "fd")
  <2>1. PICK a : a = Replace("uid", "fd")
    BY Zenon
  <2>2. PICK b : b = Replace("fd", "fd")
    BY Zenon
  <2>3. PICK c : c = a \o b
    BY Zenon
  <2>4. a \in Seq(Codes) /\ Len(a) = 6 /\ Block(a, 0, "uid", "fd")
    BY Zenon, <2>1, <1>ReplaceCode
  <2>5. b \in Seq(Codes) /\ Len(b) = 6 /\ Block(b, 0, "fd", "fd")
    BY Zenon, <2>2, <1>ReplaceCode
  <2>6. Joined(a, b, c)
    BY Zenon, <2>3, <2>4, <2>5, <1>JoinCode
  <2>7. 0 \in Nat /\ 0 + 6 <= 6 /\ 6 + 0 = 6 /\ 6 + 6 = 12
    OBVIOUS
  <2>8. Block(c, 0, "uid", "fd") /\ Block(c, 6, "fd", "fd")
    <3>1. Block(c, 0, "uid", "fd")
      BY Zenon, <2>4, <2>6, <2>7, <1>BlockLeft, 6 \in Nat
    <3>2. Block(c, 6 + 0, "fd", "fd")
      <4>1. a \in Seq(Codes) /\ Len(a) = 6 /\ Block(b, 0, "fd", "fd") /\ 0 \in Nat /\ 6 \in Nat
        BY Zenon, <2>4, <2>5, <2>7
      <4>2. QED
        BY Zenon, <2>6, <4>1, <1>BlockRight
    <3>3. QED
      BY Zenon, <3>1, <3>2, <2>7
  <2>9. c \in Seq(Codes) /\ Len(c) = 12
    BY Zenon, <2>4, <2>5, <2>6, <2>7 DEF Joined
  <2>10. QED
    BY Zenon, <2>1, <2>2, <2>3, <2>8, <2>9 DEF Exists

\* A login by name and password.
<1>LoginCode.
  /\ Login \in Seq(Codes) /\ Len(Login) = 13
  /\ Block(Login, 0, "uid", "fd") /\ Block(Login, 6, "fd", "fd") /\ Code(Login, 13) = Do("add_fd")
  <2>1. PICK a : a = Exists
    BY Zenon
  <2>2. PICK b : b = <<Do("add_fd")>>
    BY Zenon
  <2>3. PICK c : c = a \o b
    BY Zenon
  <2>4. a \in Seq(Codes) /\ Len(a) = 12 /\ Block(a, 0, "uid", "fd") /\ Block(a, 6, "fd", "fd")
    BY Zenon, <2>1, <1>ExistsCode
  <2>5. b \in Seq(Codes) /\ Len(b) = 1 /\ Code(b, 1) = Do("add_fd")
    BY Zenon, <2>2, <1>TupleCode, <1>DoCodes DEF Is1
  <2>6. JoinedAt(a, b, c, 12)
    BY Zenon, <2>3, <2>4, <2>5, <1>JoinAt, 12 \in Nat
  <2>7. Joined(a, b, c) /\ c \in Seq(Codes) /\ Len(c) = 12 + 1 /\ Code(c, 12 + 1) = Do("add_fd")
    BY Zenon, <2>5, <2>6 DEF JoinedAt
  <2>8. 0 \in Nat /\ 6 \in Nat /\ 12 \in Nat /\ 0 + 6 <= 12 /\ 6 + 6 <= 12 /\ 12 + 1 = 13
    OBVIOUS
  <2>a. Joined(a, b, c) /\ a \in Seq(Codes) /\ Len(a) = 12
    BY Zenon, <2>4, <2>7
  <2>9. Block(c, 0, "uid", "fd")
    <3>1. Block(a, 0, "uid", "fd") /\ 0 \in Nat /\ 12 \in Nat /\ 0 + 6 <= 12
      BY Zenon, <2>4, <2>8
    <3>2. QED
      BY Zenon, <2>a, <3>1, <1>BlockLeft
  <2>10. Block(c, 6, "fd", "fd")
    <3>1. PICK k \in Nat : k = 6 /\ k + 6 <= 12
      BY Zenon, <2>8
    <3>2. Block(a, k, "fd", "fd") /\ k + 6 <= 12 /\ 12 \in Nat
      BY Zenon, <2>4, <2>8, <3>1
    <3>3. Block(c, k, "fd", "fd")
      BY Zenon, <2>a, <3>2, <1>BlockLeft
    <3>4. QED
      BY Zenon, <3>1, <3>3
  <2>11. QED
    BY Zenon, <2>1, <2>2, <2>3, <2>7, <2>8, <2>9, <2>10 DEF Login

\* The replacement of the token session.
<1>NewTokenCode.
  /\ NewToken \in Seq(Codes) /\ Len(NewToken) = 7
  /\ Block(NewToken, 0, "token", "token") /\ Code(NewToken, 7) = Do("add_token")
  <2>1. PICK a : a = Replace("token", "token")
    BY Zenon
  <2>2. PICK b : b = <<Do("add_token")>>
    BY Zenon
  <2>3. PICK c : c = a \o b
    BY Zenon
  <2>4. a \in Seq(Codes) /\ Len(a) = 6 /\ Block(a, 0, "token", "token")
    BY Zenon, <2>1, <1>ReplaceCode
  <2>5. b \in Seq(Codes) /\ Len(b) = 1 /\ Code(b, 1) = Do("add_token")
    BY Zenon, <2>2, <1>TupleCode, <1>DoCodes DEF Is1
  <2>6. JoinedAt(a, b, c, 6)
    BY Zenon, <2>3, <2>4, <2>5, <1>JoinAt, 6 \in Nat
  <2>7. Joined(a, b, c) /\ c \in Seq(Codes) /\ Len(c) = 6 + 1 /\ Code(c, 6 + 1) = Do("add_token")
    BY Zenon, <2>5, <2>6 DEF JoinedAt
  <2>8. 0 \in Nat /\ 6 \in Nat /\ 0 + 6 <= 6 /\ 6 + 1 = 7
    OBVIOUS
  <2>9. Block(c, 0, "token", "token")
    BY Zenon, <2>4, <2>7, <2>8, <1>BlockLeft
  <2>10. QED
    BY Zenon, <2>1, <2>2, <2>3, <2>7, <2>8, <2>9 DEF NewToken

\* Past its end a program has no call.
<1>PastEnd.
  ASSUME NEW s \in Seq(Codes), NEW n \in Nat, Len(s) = n
  PROVE  \A i \in Nat : i > n => Op(s, i) = "return"
  BY <1>PastEnd DEF Op, Code, Return, Do

\* res_account_login.
<1>LoginProper. Proper(Login)
  <2>1. PICK s : s = Login
    BY Zenon
  <2>2. /\ s \in Seq(Codes) /\ Len(s) = 13
        /\ Block(s, 0, "uid", "fd") /\ Block(s, 6, "fd", "fd") /\ Code(s, 13) = Do("add_fd")
    BY Zenon, <2>1, <1>LoginCode
  <2>3. /\ 0 \in Nat /\ 0 + 6 = 6 /\ 0 + 13 = 13 /\ 0 + 14 = 14 /\ 0 + 1 = 1 /\ 13 \in 0 .. 20
        /\ 13 \in Nat /\ 14 \in Nat /\ 14 > 13
    OBVIOUS
  <2>4. Op(s, 14) = "return"
    BY Zenon, <2>2, <2>3, <1>PastEnd
  <2>5. \A i \in 1 .. 13 : Follows(s, i) /\ Precedes(s, i)
    BY Zenon, <2>2, <2>3, <2>4, <1>LoginAt
  <2>6. QED
    BY Zenon, <2>1, <2>2, <2>3, <2>5, <1>ProperTo

\* res_account_login that asks for a token.
<1>LoginTokenProper. Proper(Login \o NewToken)
  <2>1. PICK a : a = Login
    BY Zenon
  <2>2. PICK b : b = NewToken
    BY Zenon
  <2>3. PICK s : s = a \o b
    BY Zenon
  <2>4. a \in Seq(Codes) /\ Len(a) = 13 /\ Code(a, 13) = Do("add_fd")
    BY Zenon, <2>1, <1>LoginCode
  <2>a. Block(a, 0, "uid", "fd")
    BY Zenon, <2>1, <1>LoginCode
  <2>b. Block(a, 6, "fd", "fd")
    BY Zenon, <2>1, <1>LoginCode
  <2>5. b \in Seq(Codes) /\ Len(b) = 7 /\ Block(b, 0, "token", "token") /\ Code(b, 7) = Do("add_token")
    BY Zenon, <2>2, <1>NewTokenCode
  <2>6. Joined(a, b, s)
    BY Zenon, <2>3, <2>4, <2>5, <1>JoinCode
  <2>7. /\ 0 \in Nat /\ 6 \in Nat /\ 13 \in Nat /\ 7 \in Nat \ {0} /\ 13 \in 1 .. 13 /\ 13 + 0 = 13
        /\ 0 + 6 <= 13 /\ 6 + 6 <= 13 /\ 13 + 7 = 20
    OBVIOUS
  <2>8. s \in Seq(Codes) /\ Len(s) = 20 /\ Code(s, 13) = Do("add_fd") /\ Code(s, 20) = Do("add_token")
    BY Zenon, <2>4, <2>5, <2>6, <2>7 DEF Joined
  <2>9. Block(s, 0, "uid", "fd")
    BY Zenon, <2>4, <2>a, <2>6, <2>7, <1>BlockLeft
  <2>10. Block(s, 6, "fd", "fd")
    <3>1. PICK k \in Nat : k = 6 /\ k + 6 <= 13
      BY Zenon, <2>7
    <3>2. Block(a, k, "fd", "fd") /\ k + 6 <= 13 /\ 13 \in Nat
      BY Zenon, <2>b, <2>7, <3>1
    <3>3. Block(s, k, "fd", "fd")
      BY Zenon, <2>4, <2>6, <3>2, <1>BlockLeft
    <3>4. QED
      BY Zenon, <3>1, <3>3
  <2>11. Block(s, 13, "token", "token")
    BY Zenon, <2>4, <2>5, <2>6, <2>7, <1>BlockRight
  <2>12. /\ 0 + 6 = 6 /\ 0 + 13 = 13 /\ 0 + 14 = 14 /\ 0 + 1 = 1 /\ 20 \in 0 .. 20 /\ 13 + 1 = 14
         /\ 20 \in Nat /\ 21 \in Nat /\ 21 > 20
    OBVIOUS
  <2>13. Op(s, 21) = "return"
    BY Zenon, <2>8, <2>12, <1>PastEnd
  <2>14. Op(s, 14) = "find"
    <3>1. Code(s, 14) = Find("token", 5)
      BY Zenon, <2>11, <2>12 DEF Block
    <3>2. QED
      BY <3>1 DEF Op, Find
  <2>15. \A i \in 1 .. 13 : Follows(s, i) /\ Precedes(s, i)
    BY Zenon, <2>7, <2>8, <2>9, <2>10, <2>12, <2>14, <1>LoginAt
  <2>16. \A i \in 14 .. 20 : Follows(s, i) /\ Precedes(s, i)
    BY Zenon, <2>8, <2>11, <2>13, <1>NewTokenAt
  <2>17. \A i \in 1 .. 20 : i \in 1 .. 13 \/ i \in 14 .. 20
    OBVIOUS
  <2>18. \A i \in 1 .. 20 : Follows(s, i) /\ Precedes(s, i)
    BY Zenon, <2>15, <2>16, <2>17
  <2>19. Proper(s)
    BY Zenon, <2>8, <2>12, <2>18, <1>ProperTo
  <2>20. QED
    BY Zenon, <2>1, <2>2, <2>3, <2>19

\* The look-up of a login by token.
<1>TokenLookUp.
  LET a == <<Find("token", All), Do("lock"), Do("get"), Do("copy"), Do("dref")>>
  IN  /\ a \in Seq(Codes) /\ Len(a) = 5 /\ Code(a, 1) = Find("token", All) /\ Code(a, 2) = Do("lock")
      /\ Code(a, 3) = Do("get") /\ Code(a, 4) = Do("copy") /\ Code(a, 5) = Do("dref")
  <2>1. PICK x \in Codes, y \in Codes, z \in Codes, u \in Codes, v \in Codes :
          x = Find("token", All) /\ y = Do("lock") /\ z = Do("get") /\ u = Do("copy") /\ v = Do("dref")
    BY Zenon, <1>CallCodes, <1>DoCodes
  <2>2. PICK a : a = <<x, y, z, u, v>>
    BY Zenon
  <2>3. /\ a \in Seq(Codes) /\ Len(a) = 5 /\ Code(a, 1) = x /\ Code(a, 2) = y
        /\ Code(a, 3) = z /\ Code(a, 4) = u /\ Code(a, 5) = v
    BY <2>2 DEF Code
  <2>4. QED
    BY Zenon, <2>1, <2>2, <2>3

\* The calls of a login by token.
<1>ByTokenCode.
  /\ LoginByToken \in Seq(Codes) /\ Len(LoginByToken) = 19
  /\ Code(LoginByToken, 1) = Find("token", All) /\ Code(LoginByToken, 2) = Do("lock")
  /\ Code(LoginByToken, 3) = Do("get") /\ Code(LoginByToken, 4) = Do("copy") /\ Code(LoginByToken, 5) = Do("dref")
  /\ Block(LoginByToken, 5, "uid", "fd") /\ Block(LoginByToken, 11, "fd", "fd")
  /\ Code(LoginByToken, 18) = Do("add_fd") /\ Code(LoginByToken, 19) = Do("account")
  <2>1. PICK a : a = <<Find("token", All), Do("lock"), Do("get"), Do("copy"), Do("dref")>>
    BY Zenon
  <2>2. PICK b : b = Exists
    BY Zenon
  <2>3. PICK c : c = a \o b
    BY Zenon
  <2>4. PICK d : d = <<Do("add_fd"), Do("account")>>
    BY Zenon
  <2>5. PICK s : s = c \o d
    BY Zenon
  <2>6. a \in Seq(Codes) /\ Len(a) = 5
    BY Zenon, <2>1, <1>TokenLookUp
  <2>7. /\ Code(a, 1) = Find("token", All) /\ Code(a, 2) = Do("lock") /\ Code(a, 3) = Do("get")
        /\ Code(a, 4) = Do("copy") /\ Code(a, 5) = Do("dref")
    BY Zenon, <2>1, <1>TokenLookUp
  <2>8. b \in Seq(Codes) /\ Len(b) = 12 /\ Block(b, 0, "uid", "fd")
    BY Zenon, <2>2, <1>ExistsCode
  <2>9. Block(b, 6, "fd", "fd")
    BY Zenon, <2>2, <1>ExistsCode
  <2>10. d \in Seq(Codes) /\ Len(d) = 2 /\ Code(d, 1) = Do("add_fd") /\ Code(d, 2) = Do("account")
    BY Zenon, <2>4, <1>TupleCode, <1>DoCodes DEF Is2
  <2>11. JoinedAt(a, b, c, 5)
    BY Zenon, <2>3, <2>6, <2>8, <1>JoinAt, 5 \in Nat
  <2>12. /\ Joined(a, b, c) /\ c \in Seq(Codes) /\ Len(c) = 5 + 12
         /\ \A i \in 1 .. 5 : Code(c, i) = Code(a, i)
    BY Zenon, <2>8, <2>11 DEF JoinedAt
  <2>13. Len(c) = 17
    BY <2>12
  <2>14. JoinedAt(c, d, s, 17)
    BY Zenon, <2>5, <2>10, <2>12, <2>13, <1>JoinAt, 17 \in Nat
  <2>15. /\ Joined(c, d, s) /\ s \in Seq(Codes) /\ Len(s) = 17 + 2
         /\ \A i \in 1 .. 17 : Code(s, i) = Code(c, i)
         /\ Code(s, 17 + 1) = Do("add_fd") /\ Code(s, 17 + 2) = Do("account")
    BY Zenon, <2>10, <2>14 DEF JoinedAt
  <2>16. \A i \in 1 .. 5 : Code(s, i) = Code(a, i)
    <3>1. \A i \in 1 .. 5 : i \in 1 .. 17
      OBVIOUS
    <3>2. QED
      BY Zenon, <2>12, <2>15, <3>1
  <2>17. /\ Code(s, 1) = Find("token", All) /\ Code(s, 2) = Do("lock") /\ Code(s, 3) = Do("get")
         /\ Code(s, 4) = Do("copy") /\ Code(s, 5) = Do("dref")
    <3>1. 1 \in 1 .. 5 /\ 2 \in 1 .. 5 /\ 3 \in 1 .. 5 /\ 4 \in 1 .. 5 /\ 5 \in 1 .. 5
      OBVIOUS
    <3>2. QED
      BY Zenon, <2>7, <2>16, <3>1
  <2>18. s \in Seq(Codes) /\ Len(s) = 19 /\ Code(s, 18) = Do("add_fd") /\ Code(s, 19) = Do("account")
    BY <2>15
  <2>19. PICK k \in Nat, m \in Nat, n \in Nat, u \in Nat : k = 0 /\ m = 5 /\ n = 17 /\ u = 6
    OBVIOUS
  <2>20. Len(a) = m /\ Len(c) = n /\ (m + k) + 6 <= n /\ (m + u) + 6 <= n /\ m + k \in Nat /\ m + u \in Nat
         /\ m + k = 5 /\ m + u = 11
    BY <2>6, <2>13, <2>19
  <2>21. Block(s, 5, "uid", "fd")
    <3>1. Block(b, k, "uid", "fd") /\ Len(a) = m
      BY Zenon, <2>8, <2>19, <2>20
    <3>2. Block(c, m + k, "uid", "fd")
      BY Zenon, <2>6, <2>12, <3>1, <1>BlockRight
    <3>3. PICK j \in Nat : j = m + k /\ j + 6 <= n
      BY Zenon, <2>20
    <3>4. Block(c, j, "uid", "fd") /\ j + 6 <= n /\ Len(c) = n
      BY Zenon, <2>20, <3>2, <3>3
    <3>5. Block(s, j, "uid", "fd")
      BY Zenon, <2>12, <2>15, <3>4, <1>BlockLeft
    <3>6. QED
      BY Zenon, <2>20, <3>3, <3>5
  <2>22. Block(s, 11, "fd", "fd")
    <3>1. Block(b, u, "fd", "fd") /\ Len(a) = m
      BY Zenon, <2>9, <2>19, <2>20
    <3>2. Block(c, m + u, "fd", "fd")
      BY Zenon, <2>6, <2>12, <3>1, <1>BlockRight
    <3>3. PICK j \in Nat : j = m + u /\ j + 6 <= n
      BY Zenon, <2>20
    <3>4. Block(c, j, "fd", "fd") /\ j + 6 <= n /\ Len(c) = n
      BY Zenon, <2>20, <3>2, <3>3
    <3>5. Block(s, j, "fd", "fd")
      BY Zenon, <2>12, <2>15, <3>4, <1>BlockLeft
    <3>6. QED
      BY Zenon, <2>20, <3>3, <3>5
  <2>23. s = LoginByToken
    BY Zenon, <2>1, <2>2, <2>3, <2>4, <2>5 DEF LoginByToken
  <2>24. QED
    BY Zenon, <2>17, <2>18, <2>21, <2>22, <2>23

\* res_account_login by token.
<1>ByTokenProper. Proper(LoginByToken)
  <2>1. PICK s : s = LoginByToken
    BY Zenon
  <2>2. s \in Seq(Codes) /\ Len(s) = 19 /\ Code(s, 18) = Do("add_fd") /\ Code(s, 19) = Do("account")
    BY Zenon, <2>1, <1>ByTokenCode
  <2>3. /\ Code(s, 1) = Find("token", All) /\ Code(s, 2) = Do("lock") /\ Code(s, 3) = Do("get")
        /\ Code(s, 4) = Do("copy") /\ Code(s, 5) = Do("dref")
    BY Zenon, <2>1, <1>ByTokenCode
  <2>4. Block(s, 5, "uid", "fd") /\ Block(s, 11, "fd", "fd")
    BY Zenon, <2>1, <1>ByTokenCode
  <2>5. /\ 5 \in Nat /\ 5 + 6 = 11 /\ 5 + 13 = 18 /\ 5 + 14 = 19 /\ 5 + 1 = 6 /\ 19 \in 0 .. 20
        /\ 19 \in Nat /\ 20 \in Nat /\ 20 > 19
    OBVIOUS
  <2>6. Op(s, 20) = "return" /\ Op(s, 19) = "account"
    <3>1. Op(s, 20) = "return"
      BY Zenon, <2>2, <2>5, <1>PastEnd
    <3>2. QED
      BY <2>2, <3>1 DEF Op, Do
  <2>7. \A i \in 6 .. 18 : Follows(s, i) /\ Precedes(s, i)
    BY Zenon, <2>2, <2>4, <2>5, <2>6, <1>LoginAt
  <2>8. Code(s, 6) = Find("uid", 5)
    BY Zenon, <2>4, <2>5 DEF Block
  <2>9. /\ Op(s, 1) = "find" /\ Code(s, 1).by = "token" /\ Code(s, 1).miss = All
        /\ Op(s, 2) = "lock" /\ Op(s, 3) = "get" /\ Op(s, 4) = "copy" /\ Op(s, 5) = "dref" /\ Op(s, 6) = "find"
    BY <2>3, <2>8 DEF Op, Find, Do
  <2>10. /\ Follows(s, 1) /\ Follows(s, 2) /\ Follows(s, 3) /\ Follows(s, 4) /\ Follows(s, 5) /\ Follows(s, 19)
    <3>1. Follows(s, 1)
      BY <2>9 DEF Follows, All
    <3>2. Follows(s, 2) /\ Follows(s, 3)
      BY <2>9 DEF Follows
    <3>3. Follows(s, 4) /\ Follows(s, 5) /\ Follows(s, 19)
      BY <2>6, <2>9 DEF Follows, FreeOps
    <3>4. QED
      BY Zenon, <3>1, <3>2, <3>3
  <2>11. /\ Precedes(s, 1) /\ Precedes(s, 2) /\ Precedes(s, 3) /\ Precedes(s, 4) /\ Precedes(s, 5) /\ Precedes(s, 19)
    BY <2>6, <2>9 DEF Precedes
  <2>12. \A i \in 1 .. 19 : i = 1 \/ i = 2 \/ i = 3 \/ i = 4 \/ i = 5 \/ i \in 6 .. 18 \/ i = 19
    OBVIOUS
  <2>13. \A i \in 1 .. 19 : Follows(s, i) /\ Precedes(s, i)
    BY Zenon, <2>7, <2>10, <2>11, <2>12
  <2>14. QED
    BY Zenon, <2>1, <2>2, <2>5, <2>13, <1>ProperTo

\* session_ref_fd of a caller that returns when there is no session.
<1>RefAt.
  ASSUME NEW s, Code(s, 1) = Find("fd", All), Code(s, 2) = Do("get"), Code(s, 3) = Do("lock"),
         Op(s, 4) \in {"return", "dref", "delete"}
  PROVE  Fits(s, 1) /\ Fits(s, 2) /\ Fits(s, 3)
  <2> USE <1>RefAt
  <2>1. /\ Op(s, 1) = "find" /\ Code(s, 1).by = "fd" /\ Code(s, 1).miss = All
        /\ Op(s, 2) = "get" /\ Op(s, 3) = "lock"
    BY DEF Op, Find, Do
  <2>2. Follows(s, 1)
    BY <2>1 DEF Follows, All
  <2>3. Follows(s, 2) /\ Follows(s, 3)
    BY <2>1 DEF Follows
  <2>4. Precedes(s, 1) /\ Precedes(s, 2) /\ Precedes(s, 3)
    BY <2>1 DEF Precedes
  <2>5. QED
    BY Zenon, <2>2, <2>3, <2>4 DEF Fits

\* A call after which the handler uses no session, or returns.
<1>CallAt.
  ASSUME NEW s, NEW i \in Nat, NEW x \in {"dref", "release", "create", "account_del"},
         Code(s, i) = Do(x), Op(s, i + 1) \in FreeOps \cup {"return"}
  PROVE  Fits(s, i)
  <2> USE <1>CallAt
  <2>1. Op(s, i) = x
    BY DEF Op, Do
  <2>2. Follows(s, i)
    BY <2>1 DEF Follows
  <2>3. Precedes(s, i)
    BY <2>1 DEF Precedes
  <2>4. QED
    BY Zenon, <2>2, <2>3 DEF Fits

\* session_del_fd and session_del_token.
<1>UnlinkAt.
  ASSUME NEW s, NEW i \in Nat, NEW by \in {"fd", "token"}, NEW miss \in {1, All},
         Code(s, i) = [do |-> "unlink", by |-> by, miss |-> miss],
         Code(s, i + 1) = Do("release"), miss = 1 => Op(s, i + 2) \in FreeOps
  PROVE  Fits(s, i)
  <2> USE <1>UnlinkAt
  <2>1. Op(s, i) = "unlink" /\ Code(s, i).by = by /\ Code(s, i).miss = miss /\ Op(s, i + 1) = "release"
    BY DEF Op, Do
  <2>2. Follows(s, i)
    BY <2>1 DEF Follows
  <2>3. Precedes(s, i)
    BY <2>1 DEF Precedes
  <2>4. QED
    BY Zenon, <2>2, <2>3 DEF Fits

\* The shortest handlers' programs: session_ref_fd, and what comes after it.
<1>RefProper.
  /\ Proper(<< >>) /\ Proper(ModifyBasic) /\ Proper(Check) /\ Proper(ModifyPwd)
  /\ Proper(Ref("fd", All) \o <<Do("delete")>>)
  <2>1. Proper(<< >>)
    <3>1. << >> \in Seq(Codes) /\ Len(<< >>) = 0 /\ 0 \in 0 .. 20 /\ 1 .. 0 = {}
      OBVIOUS
    <3>2. QED
      BY Zenon, <3>1, <1>ProperTo
  <2>2. Proper(ModifyBasic)
    <3>1. PICK s : s = ModifyBasic
      BY Zenon
    <3>a. Is3(s, Find("fd", All), Do("get"), Do("lock"))
      BY Zenon, <3>1, <1>RefCode DEF ModifyBasic
    <3>2. /\ s \in Seq(Codes) /\ Len(s) = 3
          /\ Code(s, 1) = Find("fd", All) /\ Code(s, 2) = Do("get") /\ Code(s, 3) = Do("lock")
      BY Zenon, <3>a DEF Is3
    <3>3. /\ 3 \in Nat /\ 4 \in Nat /\ 4 > 3 /\ 3 \in 0 .. 20 /\ \A i \in 1 .. 3 : i = 1 \/ i = 2 \/ i = 3
      OBVIOUS
    <3>4. Op(s, 4) = "return"
      BY Zenon, <3>2, <3>3, <1>PastEnd
    <3>5. Fits(s, 1) /\ Fits(s, 2) /\ Fits(s, 3)
      BY Zenon, <3>2, <3>4, <1>RefAt
    <3>6. \A i \in 1 .. 3 : Follows(s, i) /\ Precedes(s, i)
      BY Zenon, <3>3, <3>5 DEF Fits
    <3>7. QED
      BY Zenon, <3>1, <3>2, <3>3, <3>6, <1>ProperTo
  <2>3. ASSUME NEW x \in {"dref", "delete"} PROVE Proper(Ref("fd", All) \o <<Do(x)>>)
    <3>1. PICK s : s = Ref("fd", All) \o <<Do(x)>>
      BY Zenon
    <3>a. Do(x) \in Codes /\ All \in {5, All}
      BY Zenon, <1>DoCodes
    <3>b. Is4(Ref("fd", All) \o <<Do(x)>>, Find("fd", All), Do("get"), Do("lock"), Do(x))
      BY Zenon, <3>a, <1>RefAndCode
    <3>2. /\ s \in Seq(Codes) /\ Len(s) = 4
          /\ Code(s, 1) = Find("fd", All) /\ Code(s, 2) = Do("get") /\ Code(s, 3) = Do("lock")
          /\ Code(s, 4) = Do(x)
      BY Zenon, <3>1, <3>b DEF Is4
    <3>3. /\ 4 \in Nat /\ 5 \in Nat /\ 5 > 4 /\ 4 \in 0 .. 20 /\ 4 + 1 = 5
          /\ \A i \in 1 .. 4 : i = 1 \/ i = 2 \/ i = 3 \/ i = 4
      OBVIOUS
    <3>4. Op(s, 5) = "return"
      BY Zenon, <3>2, <3>3, <1>PastEnd
    <3>c. Op(s, 4) = x
      BY <3>2 DEF Op, Do
    <3>5. Fits(s, 1) /\ Fits(s, 2) /\ Fits(s, 3)
      BY Zenon, <3>2, <3>c, <1>RefAt
    <3>6. Fits(s, 4)
      <4>1. Follows(s, 4)
        BY <3>3, <3>4, <3>c DEF Follows
      <4>2. Precedes(s, 4)
        BY <3>c DEF Precedes
      <4>3. QED
        BY Zenon, <4>1, <4>2 DEF Fits
    <3>7. \A i \in 1 .. 4 : Follows(s, i) /\ Precedes(s, i)
      BY Zenon, <3>3, <3>5, <3>6 DEF Fits
    <3>8. Proper(s)
      BY Zenon, <3>2, <3>3, <3>7, <1>ProperTo
    <3>9. QED
      BY Zenon, <3>1, <3>8
  <2>4. QED
    BY Zenon, <2>1, <2>2, <2>3 DEF Check, ModifyPwd

\* The calls of session_del_* are calls.
<1>DelCode.
  ASSUME NEW by \in {"fd", "token"}
  PROVE  /\ Is2(Del(by), [do |-> "unlink", by |-> by, miss |-> 1], Do("release"))
         /\ Is2(DelOrFail(by), [do |-> "unlink", by |-> by, miss |-> All], Do("release"))
  <2> USE <1>DelCode
  <2>1. /\ [do |-> "unlink", by |-> by, miss |-> 1] \in Codes /\ Do("release") \in Codes
        /\ [do |-> "unlink", by |-> by, miss |-> All] \in Codes
    BY Zenon, <1>CallCodes, <1>DoCodes
  <2>2. QED
    BY Zenon, <2>1, <1>TupleCode DEF Del, DelOrFail

\* The calls of Check.
<1>CheckCode.
  /\ Check \in Seq(Codes) /\ Len(Check) = 4 /\ Code(Check, 1) = Find("fd", All)
  /\ Code(Check, 2) = Do("get") /\ Code(Check, 3) = Do("lock") /\ Code(Check, 4) = Do("dref")
  <2>1. Do("dref") \in Codes /\ All \in {5, All}
    BY Zenon, <1>DoCodes
  <2>2. Is4(Ref("fd", All) \o <<Do("dref")>>, Find("fd", All), Do("get"), Do("lock"), Do("dref"))
    BY Zenon, <2>1, <1>RefAndCode
  <2>3. QED
    BY Zenon, <2>2 DEF Check, Is4

\* res_account_create.
<1>CreateProper. Proper(Check \o <<Do("create")>>)
  <2>1. PICK a : a = Check
    BY Zenon
  <2>2. PICK b : b = <<Do("create")>>
    BY Zenon
  <2>3. PICK s : s = a \o b
    BY Zenon
  <2>4. /\ a \in Seq(Codes) /\ Len(a) = 4 /\ Code(a, 1) = Find("fd", All)
        /\ Code(a, 2) = Do("get") /\ Code(a, 3) = Do("lock") /\ Code(a, 4) = Do("dref")
    BY Zenon, <2>1, <1>CheckCode
  <2>5. b \in Seq(Codes) /\ Len(b) = 1 /\ Code(b, 1) = Do("create")
    BY Zenon, <2>2, <1>TupleCode, <1>DoCodes DEF Is1
  <2>6. JoinedAt(a, b, s, 4)
    BY Zenon, <2>3, <2>4, <2>5, <1>JoinAt, 4 \in Nat
  <2>7. /\ s \in Seq(Codes) /\ Len(s) = 4 + 1 /\ Code(s, 4 + 1) = Do("create")
        /\ \A i \in 1 .. 4 : Code(s, i) = Code(a, i)
    BY Zenon, <2>5, <2>6 DEF JoinedAt
  <2>8. /\ Len(s) = 5 /\ Code(s, 1) = Find("fd", All) /\ Code(s, 2) = Do("get") /\ Code(s, 3) = Do("lock")
        /\ Code(s, 4) = Do("dref") /\ Code(s, 5) = Do("create")
    BY <2>4, <2>7
  <2>9. /\ 4 \in Nat /\ 5 \in Nat /\ 6 \in Nat /\ 6 > 5 /\ 5 \in 0 .. 20 /\ 4 + 1 = 5 /\ 5 + 1 = 6
        /\ \A i \in 1 .. 5 : i = 1 \/ i = 2 \/ i = 3 \/ i = 4 \/ i = 5
    OBVIOUS
  <2>10. Op(s, 6) = "return"
    BY Zenon, <2>7, <2>8, <2>9, <1>PastEnd
  <2>11. Op(s, 4) = "dref" /\ Op(s, 5) \in FreeOps
    BY <2>8 DEF Op, Do, FreeOps
  <2>12. Fits(s, 1) /\ Fits(s, 2) /\ Fits(s, 3)
    BY Zenon, <2>8, <2>11, <1>RefAt
  <2>13. Fits(s, 4)
    BY Zenon, <2>8, <2>9, <2>11, <1>CallAt
  <2>14. Fits(s, 5)
    BY Zenon, <2>8, <2>9, <2>10, <1>CallAt
  <2>15. \A i \in 1 .. 5 : Follows(s, i) /\ Precedes(s, i)
    BY Zenon, <2>9, <2>12, <2>13, <2>14 DEF Fits
  <2>16. Proper(s)
    BY Zenon, <2>7, <2>8, <2>9, <2>15, <1>ProperTo
  <2>17. QED
    BY Zenon, <2>1, <2>2, <2>3, <2>16

\* res_account_logout.
<1>LogoutProper. Proper(Logout)
  <2>1. PICK a : a = Check
    BY Zenon
  <2>2. PICK b : b = DelOrFail("fd")
    BY Zenon
  <2>3. PICK s : s = a \o b
    BY Zenon
  <2>4. /\ a \in Seq(Codes) /\ Len(a) = 4 /\ Code(a, 1) = Find("fd", All)
        /\ Code(a, 2) = Do("get") /\ Code(a, 3) = Do("lock") /\ Code(a, 4) = Do("dref")
    BY Zenon, <2>1, <1>CheckCode
  <2>5. /\ b \in Seq(Codes) /\ Len(b) = 2 /\ Code(b, 1) = [do |-> "unlink", by |-> "fd", miss |-> All]
        /\ Code(b, 2) = Do("release")
    BY Zenon, <2>2, <1>DelCode DEF Is2
  <2>6. JoinedAt(a, b, s, 4)
    BY Zenon, <2>3, <2>4, <2>5, <1>JoinAt, 4 \in Nat
  <2>7. /\ s \in Seq(Codes) /\ Len(s) = 4 + 2 /\ Code(s, 4 + 1) = Code(b, 1) /\ Code(s, 4 + 2) = Code(b, 2)
        /\ \A i \in 1 .. 4 : Code(s, i) = Code(a, i)
    BY Zenon, <2>5, <2>6 DEF JoinedAt
  <2>a. 1 \in 1 .. 4 /\ 2 \in 1 .. 4 /\ 3 \in 1 .. 4 /\ 4 \in 1 .. 4 /\ 4 + 1 = 5 /\ 4 + 2 = 6
    OBVIOUS
  <2>8. /\ Len(s) = 6 /\ Code(s, 1) = Find("fd", All) /\ Code(s, 2) = Do("get") /\ Code(s, 3) = Do("lock")
        /\ Code(s, 4) = Do("dref") /\ Code(s, 5) = [do |-> "unlink", by |-> "fd", miss |-> All]
        /\ Code(s, 6) = Do("release")
    BY Zenon, <2>4, <2>5, <2>7, <2>a
  <2>9. /\ 4 \in Nat /\ 5 \in Nat /\ 6 \in Nat /\ 7 \in Nat /\ 7 > 6 /\ 6 \in 0 .. 20
        /\ 4 + 1 = 5 /\ 5 + 1 = 6 /\ 6 + 1 = 7 /\ All \in {1, All} /\ All # 1
        /\ \A i \in 1 .. 6 : i = 1 \/ i = 2 \/ i = 3 \/ i = 4 \/ i = 5 \/ i = 6
    BY DEF All
  <2>10. Op(s, 7) = "return"
    BY Zenon, <2>7, <2>8, <2>9, <1>PastEnd
  <2>11. Op(s, 4) = "dref" /\ Op(s, 5) \in FreeOps
    BY <2>8 DEF Op, Do, FreeOps
  <2>12. Fits(s, 1) /\ Fits(s, 2) /\ Fits(s, 3)
    BY Zenon, <2>8, <2>11, <1>RefAt
  <2>13. Fits(s, 4)
    BY Zenon, <2>8, <2>9, <2>11, <1>CallAt
  <2>14. Fits(s, 5)
    BY Zenon, <2>8, <2>9, <1>UnlinkAt
  <2>15. Fits(s, 6)
    BY Zenon, <2>8, <2>9, <2>10, <1>CallAt
  <2>16. \A i \in 1 .. 6 : Follows(s, i) /\ Precedes(s, i)
    BY Zenon, <2>9, <2>12, <2>13, <2>14, <2>15 DEF Fits
  <2>17. Proper(s)
    BY Zenon, <2>7, <2>8, <2>9, <2>16, <1>ProperTo
  <2>18. QED
    BY Zenon, <2>1, <2>2, <2>3, <2>17 DEF Logout, Check

\* res_account_delete where it deletes no session.
<1>ShortDelete. Returns(<<Do("dref")>>) /\ Returns(<<Do("dref"), Do("account_del")>>)
  <2>1. Returns(<<Do("dref")>>)
    <3>1. PICK s : s = <<Do("dref")>>
      BY Zenon
    <3>2. s \in Seq(Codes) /\ Len(s) = 1 /\ Code(s, 1) = Do("dref")
      BY Zenon, <3>1, <1>TupleCode, <1>DoCodes DEF Is1
    <3>3. 1 \in Nat /\ 2 \in Nat /\ 1 + 1 = 2 /\ 2 > 1 /\ 1 \in 0 .. 20 /\ \A i \in 1 .. 1 : i = 1
      OBVIOUS
    <3>4. \A i \in Nat : i > 1 => Op(s, i) = "return"
      BY Zenon, <3>2, <3>3, <1>PastEnd
    <3>5. Fits(s, 1)
      BY Zenon, <3>2, <3>3, <3>4, <1>CallAt
    <3>6. Proper(s)
      BY Zenon, <3>2, <3>3, <3>5, <1>ProperTo DEF Fits
    <3>7. Op(s, 1) = "dref"
      BY <3>2 DEF Op, Do
    <3>8. \A p \in Nat \ {0} : Op(s, p) \notin {"add_fd", "add_token"}
      BY <3>4, <3>7
    <3>9. QED
      BY Zenon, <3>1, <3>6, <3>7, <3>8 DEF Returns
  <2>2. Returns(<<Do("dref"), Do("account_del")>>)
    <3>1. PICK s : s = <<Do("dref"), Do("account_del")>>
      BY Zenon
    <3>2. s \in Seq(Codes) /\ Len(s) = 2 /\ Code(s, 1) = Do("dref") /\ Code(s, 2) = Do("account_del")
      BY Zenon, <3>1, <1>TupleCode, <1>DoCodes DEF Is2
    <3>3. /\ 1 \in Nat /\ 2 \in Nat /\ 3 \in Nat /\ 1 + 1 = 2 /\ 2 + 1 = 3 /\ 3 > 2 /\ 2 \in 0 .. 20
          /\ \A i \in 1 .. 2 : i = 1 \/ i = 2
      OBVIOUS
    <3>4. \A i \in Nat : i > 2 => Op(s, i) = "return"
      BY Zenon, <3>2, <3>3, <1>PastEnd
    <3>5. Op(s, 1) = "dref" /\ Op(s, 2) = "account_del" /\ Op(s, 2) \in FreeOps
      BY <3>2 DEF Op, Do, FreeOps
    <3>6. Fits(s, 1)
      BY Zenon, <3>2, <3>3, <3>5, <1>CallAt
    <3>7. Fits(s, 2)
      BY Zenon, <3>2, <3>3, <3>4, <1>CallAt
    <3>8. Proper(s)
      BY Zenon, <3>2, <3>3, <3>6, <3>7, <1>ProperTo DEF Fits
    <3>9. \A p \in Nat \ {0} : Op(s, p) \notin {"add_fd", "add_token"}
      BY <3>4, <3>5
    <3>10. QED
      BY Zenon, <3>1, <3>5, <3>8, <3>9 DEF Returns
  <2>3. QED
    BY Zenon, <2>1, <2>2

\* The calls of res_account_delete where it deletes the user's sessions.
<1>OwnDeleteCode.
  LET s == <<Do("dref")>> \o Del("fd") \o Del("token") \o <<Do("account_del")>>
  IN  /\ s \in Seq(Codes) /\ Len(s) = 6 /\ Code(s, 1) = Do("dref")
      /\ Code(s, 2) = [do |-> "unlink", by |-> "fd", miss |-> 1] /\ Code(s, 3) = Do("release")
      /\ Code(s, 4) = [do |-> "unlink", by |-> "token", miss |-> 1] /\ Code(s, 5) = Do("release")
      /\ Code(s, 6) = Do("account_del")
  <2>1. PICK a : a = <<Do("dref")>>
    BY Zenon
  <2>2. PICK b : b = Del("fd")
    BY Zenon
  <2>3. PICK c : c = Del("token")
    BY Zenon
  <2>4. PICK d : d = <<Do("account_del")>>
    BY Zenon
  <2>5. PICK e : e = a \o b
    BY Zenon
  <2>6. PICK f : f = e \o c
    BY Zenon
  <2>7. PICK s : s = f \o d
    BY Zenon
  <2>8. a \in Seq(Codes) /\ Len(a) = 1 /\ Code(a, 1) = Do("dref")
    BY Zenon, <2>1, <1>TupleCode, <1>DoCodes DEF Is1
  <2>9. /\ b \in Seq(Codes) /\ Len(b) = 2 /\ Code(b, 1) = [do |-> "unlink", by |-> "fd", miss |-> 1]
        /\ Code(b, 2) = Do("release")
    BY Zenon, <2>2, <1>DelCode DEF Is2
  <2>10. /\ c \in Seq(Codes) /\ Len(c) = 2 /\ Code(c, 1) = [do |-> "unlink", by |-> "token", miss |-> 1]
         /\ Code(c, 2) = Do("release")
    BY Zenon, <2>3, <1>DelCode DEF Is2
  <2>11. d \in Seq(Codes) /\ Len(d) = 1 /\ Code(d, 1) = Do("account_del")
    BY Zenon, <2>4, <1>TupleCode, <1>DoCodes DEF Is1
  <2>12. /\ 1 \in Nat /\ 3 \in Nat /\ 5 \in Nat /\ 1 + 1 = 2 /\ 1 + 2 = 3 /\ 3 + 1 = 4 /\ 3 + 2 = 5 /\ 5 + 1 = 6
         /\ 1 \in 1 .. 1 /\ 1 \in 1 .. 3 /\ 2 \in 1 .. 3 /\ 3 \in 1 .. 3
         /\ 1 \in 1 .. 5 /\ 2 \in 1 .. 5 /\ 3 \in 1 .. 5 /\ 4 \in 1 .. 5 /\ 5 \in 1 .. 5
    OBVIOUS
  <2>13. JoinedAt(a, b, e, 1)
    BY Zenon, <2>5, <2>8, <2>9, <2>12, <1>JoinAt
  <2>14. /\ e \in Seq(Codes) /\ Len(e) = 3 /\ Code(e, 1) = Code(a, 1) /\ Code(e, 2) = Code(b, 1)
         /\ Code(e, 3) = Code(b, 2)
    BY Zenon, <2>9, <2>12, <2>13 DEF JoinedAt
  <2>15. JoinedAt(e, c, f, 3)
    BY Zenon, <2>6, <2>10, <2>12, <2>14, <1>JoinAt
  <2>16. /\ f \in Seq(Codes) /\ Len(f) = 5 /\ Code(f, 1) = Code(e, 1) /\ Code(f, 2) = Code(e, 2)
         /\ Code(f, 3) = Code(e, 3) /\ Code(f, 4) = Code(c, 1) /\ Code(f, 5) = Code(c, 2)
    BY Zenon, <2>10, <2>12, <2>15 DEF JoinedAt
  <2>17. JoinedAt(f, d, s, 5)
    BY Zenon, <2>7, <2>11, <2>12, <2>16, <1>JoinAt
  <2>18. /\ s \in Seq(Codes) /\ Len(s) = 6 /\ Code(s, 1) = Code(f, 1) /\ Code(s, 2) = Code(f, 2)
         /\ Code(s, 3) = Code(f, 3) /\ Code(s, 4) = Code(f, 4) /\ Code(s, 5) = Code(f, 5)
         /\ Code(s, 6) = Code(d, 1)
    BY Zenon, <2>11, <2>12, <2>17 DEF JoinedAt
  <2>19. s = <<Do("dref")>> \o Del("fd") \o Del("token") \o <<Do("account_del")>>
    BY Zenon, <2>1, <2>2, <2>3, <2>4, <2>5, <2>6, <2>7
  <2>20. QED
    BY Zenon, <2>8, <2>9, <2>10, <2>11, <2>14, <2>16, <2>18, <2>19

\* res_account_delete where it deletes the user's sessions.
<1>OwnDelete. Returns(<<Do("dref")>> \o Del("fd") \o Del("token") \o <<Do("account_del")>>)
  <2>1. PICK s : s = <<Do("dref")>> \o Del("fd") \o Del("token") \o <<Do("account_del")>>
    BY Zenon
  <2>2. /\ s \in Seq(Codes) /\ Len(s) = 6 /\ Code(s, 1) = Do("dref")
        /\ Code(s, 2) = [do |-> "unlink", by |-> "fd", miss |-> 1] /\ Code(s, 3) = Do("release")
        /\ Code(s, 4) = [do |-> "unlink", by |-> "token", miss |-> 1] /\ Code(s, 5) = Do("release")
        /\ Code(s, 6) = Do("account_del")
    BY Zenon, <2>1, <1>OwnDeleteCode
  <2>3. /\ 1 \in Nat /\ 2 \in Nat /\ 3 \in Nat /\ 4 \in Nat /\ 5 \in Nat /\ 6 \in Nat /\ 7 \in Nat
        /\ 1 + 1 = 2 /\ 2 + 1 = 3 /\ 2 + 2 = 4 /\ 3 + 1 = 4 /\ 4 + 1 = 5 /\ 4 + 2 = 6 /\ 5 + 1 = 6 /\ 6 + 1 = 7
        /\ 7 > 6 /\ 6 \in 0 .. 20 /\ 1 \in {1, All}
        /\ \A i \in 1 .. 6 : i = 1 \/ i = 2 \/ i = 3 \/ i = 4 \/ i = 5 \/ i = 6
    OBVIOUS
  <2>4. \A i \in Nat : i > 6 => Op(s, i) = "return"
    BY Zenon, <2>2, <2>3, <1>PastEnd
  <2>5. /\ Op(s, 1) = "dref" /\ Op(s, 2) = "unlink" /\ Op(s, 3) = "release" /\ Op(s, 4) = "unlink"
        /\ Op(s, 5) = "release" /\ Op(s, 6) = "account_del"
    BY <2>2 DEF Op, Do
  <2>6. Op(s, 2) \in FreeOps /\ Op(s, 4) \in FreeOps /\ Op(s, 6) \in FreeOps /\ Op(s, 7) = "return"
    BY <2>4, <2>5 DEF FreeOps
  <2>7. Fits(s, 1)
    BY Zenon, <2>2, <2>3, <2>6, <1>CallAt
  <2>8. Fits(s, 2)
    BY Zenon, <2>2, <2>3, <2>6, <1>UnlinkAt
  <2>9. Fits(s, 3)
    BY Zenon, <2>2, <2>3, <2>6, <1>CallAt
  <2>10. Fits(s, 4)
    BY Zenon, <2>2, <2>3, <2>6, <1>UnlinkAt
  <2>11. Fits(s, 5)
    BY Zenon, <2>2, <2>3, <2>6, <1>CallAt
  <2>12. Fits(s, 6)
    BY Zenon, <2>2, <2>3, <2>6, <1>CallAt
  <2>13. \A i \in 1 .. 6 : Follows(s, i) /\ Precedes(s, i)
    BY Zenon, <2>3, <2>7, <2>8, <2>9, <2>10, <2>11, <2>12 DEF Fits
  <2>14. Proper(s)
    BY Zenon, <2>2, <2>3, <2>13, <1>ProperTo
  <2>15. ASSUME NEW p \in Nat \ {0} PROVE Op(s, p) \notin {"add_fd", "add_token"}
    <3>1. p \in 1 .. 6 \/ p > 6
      OBVIOUS
    <3>2. p > 6 => Op(s, p) = "return"
      BY Zenon, <2>4
    <3>3. p \in 1 .. 6 => p = 1 \/ p = 2 \/ p = 3 \/ p = 4 \/ p = 5 \/ p = 6
      BY Zenon, <2>3
    <3>4. Op(s, p) \in {"dref", "unlink", "release", "account_del", "return"}
      BY Zenon, <2>5, <3>1, <3>2, <3>3
    <3>5. QED
      BY <3>4
  <2>16. QED
    BY Zenon, <2>1, <2>5, <2>14, <2>15 DEF Returns

\* What res_account_delete has left to do with the session it holds.
<1>DeleteProper.
  ASSUME NEW s
  PROVE  DeleteProgram(s) = << >> \/ Returns(DeleteProgram(s))
  <2> USE <1>DeleteProper
  <2>1. \/ DeleteProgram(s) = << >> \/ DeleteProgram(s) = <<Do("dref")>>
        \/ DeleteProgram(s) = <<Do("dref")>> \o Del("fd") \o Del("token") \o <<Do("account_del")>>
        \/ DeleteProgram(s) = <<Do("dref"), Do("account_del")>>
    BY Zenon DEF DeleteProgram
  <2>2. QED
    BY Zenon, <2>1, <1>ShortDelete, <1>OwnDelete

\* The first call of two programs one after the other.
<1>JoinFirst.
  ASSUME NEW a \in Seq(Codes), NEW b \in Seq(Codes), NEW n, Len(a) = n, 1 \in 1 .. n, NEW x, Code(a, 1) = x
  PROVE  Code(a \o b, 1) = x
  BY Zenon, <1>JoinFirst, <1>JoinCode DEF Joined

\* The three look-ups that handlers begin with.
<1>FirstStarts.
  ASSUME NEW s, Code(s, 1) = Find("fd", All) \/ Code(s, 1) = Find("uid", 5) \/ Code(s, 1) = Find("token", All)
  PROVE  Starts(s)
  <2> USE <1>FirstStarts
  <2>1. PICK c : c = Code(s, 1)
    BY Zenon
  <2>2. c.do = "find" /\ c # Find("fd", 5) /\ c # Find("token", 5)
    BY <2>1 DEF Find, All
  <2>3. QED
    BY Zenon, <2>1, <2>2 DEF Starts, Op

\* The program of a request.
<1>ProgramProper.
  ASSUME NEW q
  PROVE  Proper(Program(q)) /\ Starts(Program(q))
  <2> USE <1>ProgramProper
  <2>1. \/ Program(q) \in {Login, Login \o NewToken, LoginByToken, Logout, Check, ModifyPwd, Check \o <<Do("create")>>}
        \/ Program(q) \in {ModifyBasic, Ref("fd", All) \o <<Do("delete")>>, << >>}
    BY Zenon DEF Program
  <2>2. /\ Proper(Login) /\ Proper(Login \o NewToken) /\ Proper(LoginByToken) /\ Proper(Logout) /\ Proper(Check)
        /\ Proper(ModifyPwd) /\ Proper(Check \o <<Do("create")>>) /\ Proper(ModifyBasic)
        /\ Proper(Ref("fd", All) \o <<Do("delete")>>) /\ Proper(<< >>)
    BY Zenon, <1>LoginProper, <1>LoginTokenProper, <1>ByTokenProper, <1>LogoutProper, <1>RefProper, <1>CreateProper
  <2>3. Starts(Login) /\ Starts(Login \o NewToken)
    <3>1. Code(Login, 0 + 1) = Find("uid", 5) /\ Login \in Seq(Codes) /\ Len(Login) = 13
      BY Zenon, <1>LoginCode DEF Block
    <3>2. Code(Login, 1) = Find("uid", 5) /\ 1 \in 1 .. 13
      BY <3>1
    <3>3. Code(Login \o NewToken, 1) = Find("uid", 5)
      BY Zenon, <3>1, <3>2, <1>NewTokenCode, <1>JoinFirst
    <3>4. QED
      BY Zenon, <3>2, <3>3, <1>FirstStarts
  <2>4. Starts(LoginByToken)
    BY Zenon, <1>ByTokenCode, <1>FirstStarts
  <2>5. Starts(Check) /\ Starts(ModifyPwd) /\ Starts(Check \o <<Do("create")>>) /\ Starts(Logout)
    <3>1. Check \in Seq(Codes) /\ Len(Check) = 4 /\ Code(Check, 1) = Find("fd", All) /\ 1 \in 1 .. 4
      BY <1>CheckCode
    <3>2. <<Do("create")>> \in Seq(Codes) /\ DelOrFail("fd") \in Seq(Codes)
      BY Zenon, <1>TupleCode, <1>DoCodes, <1>DelCode DEF Is1, Is2
    <3>3. Code(Check \o <<Do("create")>>, 1) = Find("fd", All)
      BY Zenon, <3>1, <3>2, <1>JoinFirst
    <3>4. Code(Check \o DelOrFail("fd"), 1) = Find("fd", All)
      BY Zenon, <3>1, <3>2, <1>JoinFirst
    <3>5. Logout = Check \o DelOrFail("fd") /\ ModifyPwd = Check
      BY Zenon DEF Logout, Check, ModifyPwd
    <3>6. QED
      BY Zenon, <3>1, <3>3, <3>4, <3>5, <1>FirstStarts
  <2>6. Starts(ModifyBasic) /\ Starts(Ref("fd", All) \o <<Do("delete")>>) /\ Starts(<< >>)
    <3>1. Code(ModifyBasic, 1) = Find("fd", All)
      BY Zenon, <1>RefCode DEF ModifyBasic, Is3
    <3>2. Do("delete") \in Codes /\ All \in {5, All}
      BY Zenon, <1>DoCodes
    <3>3. Is4(Ref("fd", All) \o <<Do("delete")>>, Find("fd", All), Do("get"), Do("lock"), Do("delete"))
      BY Zenon, <3>2, <1>RefAndCode
    <3>4. Code(Ref("fd", All) \o <<Do("delete")>>, 1) = Find("fd", All)
      BY Zenon, <3>3 DEF Is4
    <3>5. Starts(<< >>)
      BY Zenon DEF Starts
    <3>6. QED
      BY Zenon, <3>1, <3>4, <3>5, <1>FirstStarts
  <2>7. QED
    BY Zenon, <2>1, <2>2, <2>3, <2>4, <2>5, <2>6
<1>1. Proper(<< >>)
  BY Zenon, <1>RefProper
<1>2. QED
  BY Zenon, <1>DropProper, <1>ProgramProper, <1>DeleteProper, <1>1

-----------------------------------------------------------------------------
\* The next call, and a handler that has none left.
LEMMA NextCall ==
  ASSUME NEW s, Proper(s)
  PROVE  /\ s # << >> => Head(s) = Code(s, 1)
         /\ Op(s, 1) = "return" <=> s = << >>
         /\ s # << >> => Code(s, 1) \in Codes
<1>1. s \in Seq(Codes)
  BY Zenon DEF Proper
<1>2. CASE s = << >>
  BY <1>2 DEF Op, Code, Return, Do
<1>3. CASE s # << >>
  <2>1. Len(s) \in Nat \ {0} /\ Head(s) = s[1] /\ s[1] \in Codes
    BY <1>1, <1>3
  <2>2. Code(s, 1) = s[1]
    BY <2>1 DEF Code
  <2>3. s[1].do # "return"
    BY <2>1 DEF Codes, OpNames, FreeOps
  <2>4. QED
    BY Zenon, <1>3, <2>1, <2>2, <2>3 DEF Op
<1>4. QED
  BY Zenon, <1>2, <1>3

\* A step of a handler: what it did, and what was left out.
Moved(n) == Proper(todo') /\ \A i \in Nat \ {0} : Code(todo', i) = Code(todo, i + (n + 1))

\* SubSeq in Drop does that.
LEMMA DropMoves ==
  ASSUME NEW n \in Nat, Proper(todo), Drop(n)
  PROVE  Moved(n)
BY Zenon, Programs DEF Drop, Rest, Moved

\* What the handler's next call is.
LEMMA StepCall ==
  ASSUME NEW x, Proper(todo), Step(x)
  PROVE  Op(todo, 1) = x /\ Head(todo) = Code(todo, 1) /\ todo # << >> /\ Code(todo, 1) \in Codes
BY Zenon, NextCall DEF Step, Op

\* What is next when the first call is done.
LEMMA Moves ==
  ASSUME Proper(todo), Moved(0)
  PROVE  /\ Op(todo, 1) = "find" =>
              Phase(todo)' = "found" \/ (Code(todo, 1).by = "token" /\ Phase(todo)' = "token_found")
         /\ Phase(todo) = "found" => Phase(todo)' = "counted"
         /\ Phase(todo) = "token_locked" => Phase(todo)' = "held"
         /\ Phase(todo) = "counted" => Phase(todo)' \in {"held", "done"}
         /\ Phase(todo) = "token_found" => Phase(todo)' = "token_locked"
         /\ Op(todo, 1) = "copy" => Phase(todo)' = "held"
         /\ Op(todo, 1) = "unlink" => Phase(todo)' = "unlinked"
         /\ Op(todo, 1) \in {"dref", "release", "add_fd", "add_token", "account", "create", "account_del"} =>
              Phase(todo)' \in {"free", "done"}
<1>1. PICK t : t = todo'
  BY Zenon
<1>2. Code(t, 1) = Code(todo, 2) /\ Code(t, 2) = Code(todo, 3)
  <2>1. 1 \in Nat \ {0} /\ 2 \in Nat \ {0} /\ 1 + (0 + 1) = 2 /\ 2 + (0 + 1) = 3
    OBVIOUS
  <2>2. QED
    BY Zenon, <1>1, <2>1 DEF Moved
<1>3. Op(t, 1) = Op(todo, 2) /\ Op(t, 2) = Op(todo, 3)
  BY Zenon, <1>2 DEF Op
<1>4. Follows(todo, 1)
  <2>1. 1 \in Nat \ {0}
    OBVIOUS
  <2>2. QED
    BY Zenon, <2>1 DEF Proper
<1>5. PICK x, y, z, u : x = Op(todo, 1) /\ y = Op(todo, 2) /\ z = Op(todo, 3) /\ u = Op(todo, 4)
  BY Zenon
<1>6. /\ x = "find" => (y = "get" /\ z = "lock") \/ (Code(todo, 1).by = "token" /\ y = "lock" /\ z = "get")
      /\ x = "get" => y = "copy" \/ (y = "lock" /\ z \in {"return", "dref", "delete"})
      /\ x = "lock" => y \in {"return", "dref", "delete"} \/ (y = "get" /\ z = "copy")
      /\ x = "copy" => y = "dref"
      /\ x = "unlink" => y = "release"
      /\ x \in {"dref", "release", "add_fd", "add_token", "account", "create", "account_del"} =>
           y \in FreeOps \cup {"return"}
  BY <1>4, <1>5 DEF Follows
<1>7. QED
  BY <1>1, <1>3, <1>5, <1>6 DEF Phase, FreeOps

\* What is next when calls are left out.
LEMMA MissFind ==
  ASSUME Proper(todo), Op(todo, 1) = "find", Code(todo, 1).miss = 5, Moved(5)
  PROVE  Op(todo', 1) = Op(todo, 7) /\ Op(todo, 7) \in {"find", "add_fd", "add_token"} /\ Phase(todo)' = "free"
<1>1. PICK t : t = todo'
  BY Zenon
<1>2. 1 \in Nat \ {0} /\ 1 + (5 + 1) = 7 /\ 1 + 6 = 7
  OBVIOUS
<1>3. Op(t, 1) = Op(todo, 7)
  BY Zenon, <1>1, <1>2 DEF Moved, Op
<1>4. Op(todo, 7) \in {"find", "add_fd", "add_token"}
  BY Zenon, <1>2 DEF Proper, Follows
<1>5. Phase(t) = "free"
  BY <1>3, <1>4 DEF Phase
<1>6. QED
  BY Zenon, <1>1, <1>3, <1>4, <1>5

\* What is next when there is nothing to delete.
LEMMA MissUnlink ==
  ASSUME Proper(todo), Op(todo, 1) = "unlink", Code(todo, 1).miss = 1, Moved(1)
  PROVE  Phase(todo)' = "free"
<1>1. PICK t : t = todo'
  BY Zenon
<1>2. 1 \in Nat \ {0} /\ 1 + (1 + 1) = 3 /\ 1 + 2 = 3
  OBVIOUS
<1>3. Op(t, 1) = Op(todo, 3)
  BY Zenon, <1>1, <1>2 DEF Moved, Op
<1>4. Op(todo, 3) \in FreeOps
  BY Zenon, <1>2 DEF Proper, Follows
<1>5. Phase(t) = "free"
  BY <1>3, <1>4 DEF Phase, FreeOps
<1>6. QED
  BY Zenon, <1>1, <1>5

\* A handler that finds no session returns.
LEMMA MissAll ==
  ASSUME Proper(todo), Moved(All)
  PROVE  todo' = << >>
<1>1. PICK t : t = todo'
  BY Zenon
<1>2. PICK n : n = 1 + (All + 1) /\ 1 \in Nat \ {0}
  OBVIOUS
<1>3. Code(t, 1) = Code(todo, n)
  BY Zenon, <1>1, <1>2 DEF Moved
<1>4. todo \in Seq(Codes) /\ Len(todo) < All
  BY Zenon DEF Proper
<1>5. Op(todo, n) = "return"
  BY <1>2, <1>4 DEF Op, Code, Return, Do, All
<1>6. Op(t, 1) = "return"
  BY Zenon, <1>3, <1>5 DEF Op
<1>7. QED
  BY Zenon, <1>1, <1>6, NextCall DEF Moved

\* An empty program.
LEMMA DonePhase ==
  ASSUME NEW s, s = << >>
  PROVE  Phase(s) = "done" /\ \A p \in Nat : Op(s, p) = "return"
BY DEF Phase, Op, Code, Return, Do

\* The next call of a handler that will add a session of a descriptor after
\* p - 1 calls, and of one that will add a session of a token.
HeadFd(s, p) ==
  /\ p \in {2, 8} => Code(s, 1) = Do("release")
  /\ p \in {3, 9} => Code(s, 1) = UnlinkOf("fd")
  /\ p \in {4, 10} => Code(s, 1) = Do("dref")
  /\ p \in {5, 11} => Code(s, 1) = Do("lock")
  /\ p \in {6, 12} => Code(s, 1) = Do("get")
  /\ p = 7 => Code(s, 1) = Find("fd", 5)
  /\ p = 13 => Code(s, 1) = Find("uid", 5)

HeadToken(s, p) ==
  /\ p = 2 => Code(s, 1) = Do("release")
  /\ p = 3 => Code(s, 1) = UnlinkOf("token")
  /\ p = 4 => Code(s, 1) = Do("dref")
  /\ p = 5 => Code(s, 1) = Do("lock")
  /\ p = 6 => Code(s, 1) = Do("get")
  /\ p = 7 => Code(s, 1) = Find("token", 5)
  /\ p = 8 => Code(s, 1) = Do("add_fd")

\* The calls before an addition are the ones a login makes.
LEMMA HeadsFd ==
  ASSUME NEW s, Proper(s), NEW p \in 2 .. 13, Op(s, p) = "add_fd"
  PROVE  HeadFd(s, p)
<1>1. p \in Nat \ {0} /\ (p > 6 => p - 6 \in 1 .. 7)
  OBVIOUS
<1>2. /\ Removal(s, p, Find("fd", 5), UnlinkOf("fd"))
      /\ p > 6 => Removal(s, p - 6, Find("uid", 5), UnlinkOf("fd"))
  BY Zenon, <1>1 DEF Proper, Precedes
<1>3. CASE p <= 7
  BY <1>2, <1>3 DEF Removal, HeadFd
<1>4. CASE p > 7
  BY <1>2, <1>4 DEF Removal, HeadFd
<1>5. QED
  BY <1>3, <1>4

\* The same before the addition of a token's session.
LEMMA HeadsToken ==
  ASSUME NEW s, Proper(s), NEW p \in 2 .. 8, Op(s, p) = "add_token"
  PROVE  HeadToken(s, p)
<1>1. p \in Nat \ {0}
  OBVIOUS
<1>2. Removal(s, p, Find("token", 5), UnlinkOf("token")) /\ (p > 7 => Code(s, p - 7) = Do("add_fd"))
  BY Zenon, <1>1 DEF Proper, Precedes
<1>3. QED
  BY <1>2 DEF Removal, HeadToken

\* Where a look-up and a deletion can come before an addition.
LEMMA HeadOps ==
  ASSUME NEW s, Proper(s)
  PROVE  /\ \A p \in 2 .. 13 : Op(s, p) = "add_fd" =>
              /\ Op(s, 1) \in {"release", "unlink", "dref", "lock", "get", "find"}
              /\ Op(s, 1) = "find" => p \in {7, 13}
              /\ Op(s, 1) = "unlink" => p \in {3, 9}
         /\ \A p \in 2 .. 7 : Op(s, p) = "add_token" =>
              /\ Op(s, 1) \in {"release", "unlink", "dref", "lock", "get", "find"}
              /\ Op(s, 1) = "find" => p = 7
              /\ Op(s, 1) = "unlink" => p = 3
<1>1. ASSUME NEW p \in 2 .. 13, Op(s, p) = "add_fd"
      PROVE  /\ Op(s, 1) \in {"release", "unlink", "dref", "lock", "get", "find"}
             /\ Op(s, 1) = "find" => p \in {7, 13}
             /\ Op(s, 1) = "unlink" => p \in {3, 9}
  <2>1. HeadFd(s, p)
    BY Zenon, <1>1, HeadsFd
  <2>2. QED
    BY <2>1 DEF HeadFd, Op, Do, UnlinkOf, Find
<1>2. ASSUME NEW p \in 2 .. 7, Op(s, p) = "add_token"
      PROVE  /\ Op(s, 1) \in {"release", "unlink", "dref", "lock", "get", "find"}
             /\ Op(s, 1) = "find" => p = 7
             /\ Op(s, 1) = "unlink" => p = 3
  <2>1. p \in 2 .. 8
    OBVIOUS
  <2>2. HeadToken(s, p)
    BY Zenon, <1>2, <2>1, HeadsToken
  <2>3. QED
    BY <2>2 DEF HeadToken, Op, Do, UnlinkOf, Find
<1>3. QED
  BY Zenon, <1>1, <1>2

\* The places of the additions after a call.
LEMMA MovedOps ==
  ASSUME Moved(0)
  PROVE  \A p \in 1 .. 12 : Op(todo', p) = Op(todo, p + 1) /\ p + 1 \in 2 .. 13
<1>1. ASSUME NEW p \in 1 .. 12 PROVE p \in Nat \ {0} /\ p + (0 + 1) = p + 1 /\ p + 1 \in 2 .. 13
  OBVIOUS
<1>2. QED
  BY Zenon, <1>1 DEF Moved, Op

\* A call that is neither a look-up nor a deletion.
LEMMA ClearedKept ==
  ASSUME Proper(todo), Moved(0), Op(todo, 1) \notin {"find", "unlink"}, Cleared,
         FdGone => FdGone', FdOnly => FdOnly', UidGone => UidGone', UidOnly => UidOnly',
         TokenGone => TokenGone', TokenOnly => TokenOnly'
  PROVE  Cleared'
<1>1. PICK t : t = todo'
  BY Zenon
<1>2. ASSUME NEW p \in 1 .. 12, Op(t, p) = "add_fd"
      PROVE  (p <= 2 => FdGone') /\ (p <= 6 => FdOnly') /\ (p <= 8 => UidGone') /\ UidOnly'
  <2>1. Op(todo, p + 1) = "add_fd" /\ p + 1 \in 2 .. 13
    BY Zenon, <1>1, <1>2, MovedOps
  <2>2. p + 1 \notin {3, 7, 9, 13}
    <3>1. PICK q \in 2 .. 13 : q = p + 1
      BY Zenon, <2>1
    <3>2. Code(todo, 1) # UnlinkOf("fd") /\ Code(todo, 1) # Find("fd", 5) /\ Code(todo, 1) # Find("uid", 5)
      BY DEF Op, UnlinkOf, Find
    <3>3. HeadFd(todo, q)
      BY Zenon, <2>1, <3>1, HeadsFd
    <3>4. QED
      BY <3>1, <3>2, <3>3 DEF HeadFd
  <2>3. p + 1 \in 1 .. 12 /\ (p <= 2 => p + 1 <= 2) /\ (p <= 6 => p + 1 <= 6) /\ (p <= 8 => p + 1 <= 8)
    BY <2>2
  <2>4. QED
    BY Zenon, <2>1, <2>3 DEF Cleared
<1>3. ASSUME NEW p \in 1 .. 6, Op(t, p) = "add_token"
      PROVE  (p <= 2 => TokenGone') /\ TokenOnly'
  <2>1. Op(todo, p + 1) = "add_token" /\ p + 1 \in 2 .. 7
    <3>1. p \in 1 .. 12 /\ p + 1 \in 2 .. 7
      OBVIOUS
    <3>2. QED
      BY Zenon, <1>1, <1>3, <3>1, MovedOps
  <2>2. p + 1 \notin {3, 7}
    <3>1. PICK q \in 2 .. 7 : q = p + 1
      BY Zenon, <2>1
    <3>2. Op(todo, q) = "add_token"
      BY Zenon, <2>1, <3>1
    <3>3. HeadToken(todo, q)
      <4>1. q \in 2 .. 8
        OBVIOUS
      <4>2. QED
        BY Zenon, <3>2, <4>1, HeadsToken
    <3>4. QED
      BY <3>1, <3>3 DEF HeadToken, Op, UnlinkOf, Find
  <2>3. p + 1 \in 1 .. 6 /\ (p <= 2 => p + 1 <= 2)
    BY <2>2
  <2>4. QED
    BY Zenon, <2>1, <2>3 DEF Cleared
<1>4. QED
  BY Zenon, <1>1, <1>2, <1>3 DEF Cleared

\* A handler that will add no session.
LEMMA ClearedNone ==
  ASSUME \A p \in Nat \ {0} : Op(todo', p) \notin {"add_fd", "add_token"}
  PROVE  Cleared'
<1>1. PICK t : t = todo'
  BY Zenon
<1>2. \A p \in 1 .. 12 : Op(t, p) # "add_fd" /\ Op(t, p) # "add_token"
  BY <1>1
<1>3. \A p \in 1 .. 6 : p \in 1 .. 12
  OBVIOUS
<1>4. QED
  BY Zenon, <1>1, <1>2, <1>3 DEF Cleared

\* An addition, or the copy of a token's session, is not before another
\* addition.
LEMMA ClearedNew ==
  ASSUME Proper(todo), Moved(0), Op(todo, 1) \in {"add_fd", "add_token", "copy"}
  PROVE  Cleared'
<1>1. PICK t : t = todo'
  BY Zenon
<1>2. ASSUME NEW p \in 1 .. 12 PROVE Op(t, p) # "add_fd"
  <2>1. Op(t, p) = Op(todo, p + 1) /\ p + 1 \in 2 .. 13
    BY Zenon, <1>1, MovedOps
  <2>2. Op(todo, p + 1) = "add_fd" => Op(todo, 1) \in {"release", "unlink", "dref", "lock", "get", "find"}
    BY Zenon, <2>1, HeadOps
  <2>3. QED
    BY <2>1, <2>2
<1>3. ASSUME NEW p \in 1 .. 6 PROVE Op(t, p) # "add_token"
  <2>1. p \in 1 .. 12 /\ p + 1 \in 2 .. 7
    OBVIOUS
  <2>2. Op(t, p) = Op(todo, p + 1)
    BY Zenon, <1>1, <2>1, MovedOps
  <2>3. Op(todo, p + 1) = "add_token" => Op(todo, 1) \in {"release", "unlink", "dref", "lock", "get", "find"}
    BY Zenon, <2>1, HeadOps
  <2>4. QED
    BY <2>2, <2>3
<1>4. QED
  BY Zenon, <1>1, <1>2, <1>3 DEF Cleared

\* Sessions leave the list, and stay what they are.
LEMMA Fewer ==
  ASSUME list' \subseteq list, \A i \in list' : sess'[i] = sess[i], new' = new
  PROVE  /\ (FdGone => FdGone') /\ (UidGone => UidGone') /\ (TokenGone => TokenGone')
         /\ ptr' = ptr => (FdOnly => FdOnly') /\ (UidOnly => UidOnly') /\ (TokenOnly => TokenOnly')
<1>1. (FdGone => FdGone') /\ (ptr' = ptr => (FdOnly => FdOnly'))
  BY DEF FdGone, FdOnly, FdSessions
<1>2. (UidGone => UidGone') /\ (ptr' = ptr => (UidOnly => UidOnly'))
  BY DEF UidGone, UidOnly, UidSessions
<1>3. (TokenGone => TokenGone') /\ (ptr' = ptr => (TokenOnly => TokenOnly'))
  BY DEF TokenGone, TokenOnly, UidSessions
<1>4. QED
  BY Zenon, <1>1, <1>2, <1>3

\* The list loses no more than a session, and the handler makes no call, or
\* one that is neither a look-up nor a deletion.
LEMMA ClearedFewer ==
  ASSUME Proper(todo), Cleared, list' \subseteq list, \A i \in list' : sess'[i] = sess[i], new' = new, ptr' = ptr,
         todo' = todo \/ (Moved(0) /\ Op(todo, 1) \notin {"find", "unlink"})
  PROVE  Cleared'
<1>1. /\ (FdGone => FdGone') /\ (UidGone => UidGone') /\ (TokenGone => TokenGone')
      /\ (FdOnly => FdOnly') /\ (UidOnly => UidOnly') /\ (TokenOnly => TokenOnly')
  BY Zenon, Fewer
<1>2. CASE todo' = todo
  BY Zenon, <1>1, <1>2 DEF Cleared
<1>3. CASE Moved(0) /\ Op(todo, 1) \notin {"find", "unlink"}
  BY Zenon, <1>1, <1>3, ClearedKept
<1>4. QED
  BY Zenon, <1>2, <1>3

\* A descriptor and a user have one session each.
LEMMA OneEach ==
  ASSUME Unique, NEW f, NEW u, NEW k, NEW i, NEW j
  PROVE  /\ i \in FdSessions(f) /\ j \in FdSessions(f) => i = j
         /\ i \in UidSessions(u, k) /\ j \in UidSessions(u, k) => i = j
<1>1. i \in FdSessions(f) /\ j \in FdSessions(f) => i = j
  BY Zenon DEF Unique, FdSessions
<1>2. i \in UidSessions(u, k) /\ j \in UidSessions(u, k) => i = j
  BY Zenon DEF Unique, UidSessions
<1>3. QED
  BY Zenon, <1>1, <1>2

\* What a look-up scans for.
LEMMA LookUps ==
  ASSUME Head(todo) = Code(todo, 1)
  PROVE  /\ Code(todo, 1) = Find("fd", 5) => Matches = FdSessions(req.fd)
         /\ Code(todo, 1) = Find("uid", 5) => Matches = UidSessions(new.uid, "fd")
         /\ Code(todo, 1) = Find("token", 5) => Matches = UidSessions(new.uid, "token")
<1>1. /\ Code(todo, 1) = Find("fd", 5) => Head(todo).by = "fd"
      /\ Code(todo, 1) = Find("uid", 5) => Head(todo).by = "uid"
      /\ Code(todo, 1) = Find("token", 5) => Head(todo).by = "token"
  BY DEF Find
<1>2. /\ Head(todo).by = "fd" => Matches = FdSessions(req.fd)
      /\ Head(todo).by = "uid" => Matches = UidSessions(new.uid, "fd")
      /\ Head(todo).by = "token" => Matches = UidSessions(new.uid, "token")
  BY DEF Matches
<1>3. QED
  BY Zenon, <1>1, <1>2

\* A look-up that finds a session finds the only one.
LEMMA ClearedFound ==
  ASSUME Proper(todo), Cleared, Unique, Moved(0), Op(todo, 1) = "find", Head(todo) = Code(todo, 1),
         list' = list, sess' = sess, new' = new, new.fd = req.fd, ptr' \in Matches
  PROVE  Cleared'
<1>1. PICK t : t = todo'
  BY Zenon
<1>2. (FdGone => FdGone') /\ (UidGone => UidGone') /\ (TokenGone => TokenGone')
  BY Zenon, Fewer
<1>3. ASSUME NEW p \in 1 .. 12, Op(t, p) = "add_fd"
      PROVE  (p <= 2 => FdGone') /\ (p <= 6 => FdOnly') /\ (p <= 8 => UidGone') /\ UidOnly'
  <2>1. Op(todo, p + 1) = "add_fd" /\ p + 1 \in 2 .. 13
    BY Zenon, <1>1, <1>3, MovedOps
  <2>2. p + 1 \in {7, 13}
    BY Zenon, <2>1, HeadOps
  <2>3. HeadFd(todo, p + 1)
    BY Zenon, <2>1, HeadsFd
  <2>4. CASE p + 1 = 7
    <3>1. p = 6 /\ 7 \in 1 .. 12 /\ 7 <= 8 /\ ~(6 <= 2) /\ 7 \in {7, 13}
      BY <2>4
    <3>2. Code(todo, 1) = Find("fd", 5)
      BY Zenon, <2>3, <2>4 DEF HeadFd
    <3>3. ptr' \in FdSessions(new.fd)
      BY Zenon, <3>2, LookUps
    <3>4. \A i \in FdSessions(new.fd) : i = ptr'
      BY Zenon, <3>3, OneEach
    <3>5. FdOnly'
      BY Zenon, <3>4 DEF FdOnly, FdSessions
    <3>6. UidGone
      BY Zenon, <2>1, <2>4, <3>1 DEF Cleared
    <3>7. UidGone' /\ UidOnly'
      BY Zenon, <1>2, <3>6 DEF UidGone, UidOnly
    <3>8. QED
      BY Zenon, <3>1, <3>5, <3>7
  <2>5. CASE p + 1 = 13
    <3>1. p = 12 /\ ~(12 <= 2) /\ ~(12 <= 6) /\ ~(12 <= 8)
      BY <2>5
    <3>2. Code(todo, 1) = Find("uid", 5)
      BY Zenon, <2>3, <2>5 DEF HeadFd
    <3>3. ptr' \in UidSessions(new.uid, "fd")
      BY Zenon, <3>2, LookUps
    <3>4. \A i \in UidSessions(new.uid, "fd") : i = ptr'
      BY Zenon, <3>3, OneEach
    <3>5. UidOnly'
      BY Zenon, <3>4 DEF UidOnly, UidSessions
    <3>6. QED
      BY Zenon, <3>1, <3>5
  <2>6. QED
    BY Zenon, <2>2, <2>4, <2>5
<1>4. ASSUME NEW p \in 1 .. 6, Op(t, p) = "add_token"
      PROVE  (p <= 2 => TokenGone') /\ TokenOnly'
  <2>1. p \in 1 .. 12 /\ p + 1 \in 2 .. 7 /\ p + 1 \in 2 .. 8
    OBVIOUS
  <2>2. Op(todo, p + 1) = "add_token"
    BY Zenon, <1>1, <1>4, <2>1, MovedOps
  <2>3. p + 1 = 7
    BY Zenon, <2>1, <2>2, HeadOps
  <2>4. HeadToken(todo, p + 1)
    BY Zenon, <2>1, <2>2, HeadsToken
  <2>5. Code(todo, 1) = Find("token", 5)
    BY Zenon, <2>3, <2>4 DEF HeadToken
  <2>6. ptr' \in UidSessions(new.uid, "token")
    BY Zenon, <2>5, LookUps
  <2>7. \A i \in UidSessions(new.uid, "token") : i = ptr'
    BY Zenon, <2>6, OneEach
  <2>8. TokenOnly'
    BY Zenon, <2>7 DEF TokenOnly, UidSessions
  <2>9. ~(p <= 2)
    BY <2>3
  <2>10. QED
    BY Zenon, <2>8, <2>9
<1>5. QED
  BY Zenon, <1>1, <1>3, <1>4 DEF Cleared

\* A look-up and what it leaves out come right before an addition, or before
\* the second look-up of a login.
LEMMA Seventh ==
  ASSUME NEW s, Proper(s), Op(s, 7) \in {"find", "add_fd", "add_token"}
  PROVE  /\ \A q \in 7 .. 18 : Op(s, q) = "add_fd" => q \in {7, 13}
         /\ \A q \in 7 .. 12 : Op(s, q) = "add_token" => q = 7
<1>0. Code(s, 7) # Do("release") /\ Code(s, 7) # UnlinkOf("fd") /\ Code(s, 7) # UnlinkOf("token")
      /\ Code(s, 7) # Do("dref") /\ Code(s, 7) # Do("lock") /\ Code(s, 7) # Do("get")
  BY DEF Op, Do, UnlinkOf
<1>1. ASSUME NEW q \in 7 .. 18, Op(s, q) = "add_fd" PROVE q \in {7, 13}
  <2>1. q \in Nat \ {0} /\ q > 6
    OBVIOUS
  <2>2. Removal(s, q, Find("fd", 5), UnlinkOf("fd")) /\ Removal(s, q - 6, Find("uid", 5), UnlinkOf("fd"))
    BY Zenon, <1>1, <2>1 DEF Proper, Precedes
  <2>3. q \notin 8 .. 12
    BY <1>0, <2>2 DEF Removal
  <2>4. q \notin 14 .. 18
    BY <1>0, <2>2 DEF Removal
  <2>5. QED
    BY <2>3, <2>4
<1>2. ASSUME NEW q \in 7 .. 12, Op(s, q) = "add_token" PROVE q = 7
  <2>1. q \in Nat \ {0}
    OBVIOUS
  <2>2. Removal(s, q, Find("token", 5), UnlinkOf("token"))
    BY Zenon, <1>2, <2>1 DEF Proper, Precedes
  <2>3. QED
    BY <1>0, <2>2 DEF Removal
<1>3. QED
  BY Zenon, <1>1, <1>2

\* A look-up that finds no session.
LEMMA ClearedMissed ==
  ASSUME Proper(todo), Cleared, Moved(5), Op(todo, 1) = "find", Head(todo) = Code(todo, 1), Code(todo, 1).miss = 5,
         list' = list, sess' = sess, new' = new, ptr' = ptr, new.fd = req.fd, Matches = {}
  PROVE  Cleared'
<1>1. PICK t : t = todo'
  BY Zenon
<1>2. (FdGone => FdGone') /\ (UidGone => UidGone') /\ (TokenGone => TokenGone')
  BY Zenon, Fewer
<1>3. Op(todo, 7) \in {"find", "add_fd", "add_token"}
  BY Zenon, MissFind
<1>4. ASSUME NEW p \in 1 .. 12 PROVE Op(t, p) = Op(todo, p + 6) /\ p + 6 \in 7 .. 18
  <2>1. p \in Nat \ {0} /\ p + (5 + 1) = p + 6 /\ p + 6 \in 7 .. 18
    OBVIOUS
  <2>2. QED
    BY Zenon, <1>1, <2>1 DEF Moved, Op
<1>5. ASSUME NEW p \in 1 .. 12, Op(t, p) = "add_fd"
      PROVE  (p <= 2 => FdGone') /\ (p <= 6 => FdOnly') /\ (p <= 8 => UidGone') /\ UidOnly'
  <2>1. Op(todo, p + 6) = "add_fd" /\ p + 6 \in {7, 13}
    BY Zenon, <1>3, <1>4, <1>5, Seventh
  <2>2. p + 6 \in 2 .. 13
    BY <2>1
  <2>3. HeadFd(todo, p + 6)
    BY Zenon, <2>1, <2>2, HeadsFd
  <2>4. CASE p + 6 = 7
    <3>1. 7 \in 1 .. 12 /\ 7 <= 8
      OBVIOUS
    <3>2. Code(todo, 1) = Find("fd", 5)
      BY Zenon, <2>3, <2>4 DEF HeadFd
    <3>3. FdGone
      BY Zenon, <3>2, LookUps DEF FdGone
    <3>4. UidGone
      BY Zenon, <2>1, <2>4, <3>1 DEF Cleared
    <3>5. QED
      BY Zenon, <1>2, <3>3, <3>4 DEF FdGone, FdOnly, UidGone, UidOnly
  <2>5. CASE p + 6 = 13
    <3>1. p = 7 /\ ~(7 <= 2) /\ ~(7 <= 6)
      BY <2>5
    <3>2. Code(todo, 1) = Find("uid", 5)
      BY Zenon, <2>3, <2>5 DEF HeadFd
    <3>3. UidGone
      BY Zenon, <3>2, LookUps DEF UidGone
    <3>4. QED
      BY Zenon, <1>2, <3>1, <3>3 DEF UidGone, UidOnly
  <2>6. QED
    BY Zenon, <2>1, <2>4, <2>5
<1>6. ASSUME NEW p \in 1 .. 6, Op(t, p) = "add_token"
      PROVE  (p <= 2 => TokenGone') /\ TokenOnly'
  <2>1. p \in 1 .. 12 /\ p + 6 \in 7 .. 12
    OBVIOUS
  <2>2. Op(todo, p + 6) = "add_token" /\ p + 6 = 7
    BY Zenon, <1>3, <1>4, <1>6, <2>1, Seventh
  <2>3. Op(todo, 7) = "add_token" /\ 7 \in 2 .. 8
    BY <2>2
  <2>4. HeadToken(todo, 7)
    BY Zenon, <2>3, HeadsToken
  <2>5. Code(todo, 1) = Find("token", 5)
    BY Zenon, <2>4 DEF HeadToken
  <2>6. TokenGone
    BY Zenon, <2>5, LookUps DEF TokenGone
  <2>7. QED
    BY Zenon, <1>2, <2>6 DEF TokenGone, TokenOnly
<1>7. QED
  BY Zenon, <1>1, <1>5, <1>6 DEF Cleared

\* The deletion of the session that was found deletes it.
LEMMA ClearedUnlinked ==
  ASSUME Proper(todo), Cleared, Unique, Moved(0), Op(todo, 1) = "unlink", Head(todo) = Code(todo, 1),
         sess' = sess, new' = new, NEW i \in Victims, list' = list \ {i}, ptr' = i
  PROVE  Cleared'
<1>1. PICK t : t = todo'
  BY Zenon
<1>2. (FdGone => FdGone') /\ (UidGone => UidGone') /\ (TokenGone => TokenGone')
  BY Zenon, Fewer
<1>3. ASSUME Code(todo, 1) = UnlinkOf("fd"), NEW j \in list', sess[j].kind = "fd" PROVE j # ptr
  <2>1. Head(todo).by = "fd"
    BY <1>3 DEF UnlinkOf
  <2>2. Victims = FdSessions(sess[ptr].fd)
    BY Zenon, <2>1 DEF Victims
  <2>3. j = ptr => j \in FdSessions(sess[ptr].fd)
    BY Zenon, <1>3 DEF FdSessions
  <2>4. QED
    BY Zenon, <2>2, <2>3, OneEach
<1>4. ASSUME Code(todo, 1) = UnlinkOf("token"), NEW j \in list', sess[j].kind = "token" PROVE j # ptr
  <2>1. Head(todo).by # "fd"
    BY <1>4 DEF UnlinkOf
  <2>2. Victims = UidSessions(sess[ptr].uid, "token")
    BY Zenon, <2>1 DEF Victims
  <2>3. j = ptr => j \in UidSessions(sess[ptr].uid, "token")
    BY Zenon, <1>4 DEF UidSessions
  <2>4. PICK u : u = sess[ptr].uid
    BY Zenon
  <2>5. i \in UidSessions(u, "token") /\ (j = ptr => j \in UidSessions(u, "token"))
    BY Zenon, <2>2, <2>3, <2>4
  <2>6. j = ptr => i = j
    BY Zenon, <2>5, OneEach
  <2>7. QED
    BY Zenon, <2>6
<1>5. ASSUME NEW p \in 1 .. 12, Op(t, p) = "add_fd"
      PROVE  (p <= 2 => FdGone') /\ (p <= 6 => FdOnly') /\ (p <= 8 => UidGone') /\ UidOnly'
  <2>1. Op(todo, p + 1) = "add_fd" /\ p + 1 \in 2 .. 13
    BY Zenon, <1>1, <1>5, MovedOps
  <2>2. p + 1 \in {3, 9}
    BY Zenon, <2>1, HeadOps
  <2>3. Code(todo, 1) = UnlinkOf("fd")
    BY Zenon, <2>1, <2>2, HeadsFd DEF HeadFd
  <2>4. CASE p + 1 = 3
    <3>1. 3 \in 1 .. 12 /\ 3 <= 6 /\ 3 <= 8
      OBVIOUS
    <3>2. FdOnly /\ UidGone
      BY Zenon, <2>1, <2>4, <3>1 DEF Cleared
    <3>3. FdGone'
      BY Zenon, <1>3, <2>3, <3>2 DEF FdGone, FdOnly, FdSessions
    <3>4. QED
      BY Zenon, <1>2, <3>2, <3>3 DEF FdGone, FdOnly, UidGone, UidOnly
  <2>5. CASE p + 1 = 9
    <3>1. p = 8 /\ 9 \in 1 .. 12 /\ ~(8 <= 2) /\ ~(8 <= 6)
      BY <2>5
    <3>2. UidOnly
      BY Zenon, <2>1, <2>5, <3>1 DEF Cleared
    <3>3. UidGone'
      BY Zenon, <1>3, <2>3, <3>2 DEF UidGone, UidOnly, UidSessions
    <3>4. QED
      BY Zenon, <3>1, <3>3 DEF UidGone, UidOnly
  <2>6. QED
    BY Zenon, <2>2, <2>4, <2>5
<1>6. ASSUME NEW p \in 1 .. 6, Op(t, p) = "add_token"
      PROVE  (p <= 2 => TokenGone') /\ TokenOnly'
  <2>1. p \in 1 .. 12 /\ p + 1 \in 2 .. 7 /\ p + 1 \in 2 .. 8 /\ 3 \in 1 .. 6
    OBVIOUS
  <2>2. Op(todo, p + 1) = "add_token"
    BY Zenon, <1>1, <1>6, <2>1, MovedOps
  <2>3. p + 1 = 3
    BY Zenon, <2>1, <2>2, HeadOps
  <2>4. Code(todo, 1) = UnlinkOf("token")
    BY Zenon, <2>1, <2>2, <2>3, HeadsToken DEF HeadToken
  <2>5. TokenOnly
    BY Zenon, <2>1, <2>2, <2>3 DEF Cleared
  <2>6. TokenGone'
    BY Zenon, <1>4, <2>4, <2>5 DEF TokenGone, TokenOnly, UidSessions
  <2>7. QED
    BY Zenon, <2>6 DEF TokenGone, TokenOnly
<1>7. QED
  BY Zenon, <1>1, <1>5, <1>6 DEF Cleared

\* A deletion that may find nothing is not before an addition.
LEMMA ClearedUnlinkMissed ==
  ASSUME Proper(todo), Moved(1), Op(todo, 1) = "unlink", Code(todo, 1).miss = 1
  PROVE  Cleared'
<1>1. PICK t : t = todo'
  BY Zenon
<1>2. Code(todo, 1) # UnlinkOf("fd") /\ Code(todo, 1) # UnlinkOf("token")
  BY DEF UnlinkOf, All
<1>3. ASSUME NEW p \in 1 .. 12 PROVE Op(t, p) = Op(todo, p + 2)
  <2>1. p \in Nat \ {0} /\ p + (1 + 1) = p + 2
    OBVIOUS
  <2>2. QED
    BY Zenon, <1>1, <2>1 DEF Moved, Op
<1>4. ASSUME NEW p \in 1 .. 12, Op(t, p) = "add_fd" PROVE FALSE
  <2>1. Op(todo, p + 2) = "add_fd" /\ (p + 2 \in 2 .. 13 \/ p + 2 = 14)
    BY <1>3, <1>4
  <2>2. CASE p + 2 \in 2 .. 13
    <3>1. p + 2 \in {3, 9}
      BY Zenon, <2>1, <2>2, HeadOps
    <3>2. Code(todo, 1) = UnlinkOf("fd")
      BY Zenon, <2>1, <2>2, <3>1, HeadsFd DEF HeadFd
    <3>3. QED
      BY Zenon, <1>2, <3>2
  <2>3. CASE p + 2 = 14
    <3>1. 14 \in Nat \ {0} /\ 1 \in Nat \ {0} /\ 14 > 6 /\ 14 - 6 = 8 /\ 8 > 6 /\ 8 - 6 = 2 /\ 1 + 1 = 2
      OBVIOUS
    <3>2. Removal(todo, 8, Find("uid", 5), UnlinkOf("fd"))
      BY Zenon, <2>1, <2>3, <3>1 DEF Proper, Precedes
    <3>3. Code(todo, 2) = Find("uid", 5)
      BY Zenon, <3>1, <3>2 DEF Removal
    <3>4. Op(todo, 2) = "release"
      BY Zenon, <3>1 DEF Proper, Follows
    <3>5. QED
      BY <3>3, <3>4 DEF Op, Find
  <2>4. QED
    BY Zenon, <2>1, <2>2, <2>3
<1>5. ASSUME NEW p \in 1 .. 6, Op(t, p) = "add_token" PROVE FALSE
  <2>1. p \in 1 .. 12 /\ p + 2 \in 2 .. 8
    OBVIOUS
  <2>2. Op(todo, p + 2) = "add_token"
    BY Zenon, <1>3, <1>5, <2>1
  <2>3. HeadToken(todo, p + 2)
    BY Zenon, <2>1, <2>2, HeadsToken
  <2>4. Code(todo, 1) \in {Do("release"), Do("dref"), Do("lock"), Do("get"), Find("token", 5), Do("add_fd")}
    BY <1>2, <2>1, <2>3 DEF HeadToken
  <2>5. QED
    BY <2>4 DEF Op, Do, Find
<1>6. QED
  BY Zenon, <1>1, <1>4, <1>5 DEF Cleared

-----------------------------------------------------------------------------
(* The steps.                                                               *)
Good == fault' = "none" /\ Sound'
Faulted == fault' \in {"freed", "del", "account"} /\ UNCHANGED <<accounts, list, sess, refs, freed, lock, ptr>>

\* Sessions leave the list.
LEMMA UniqueFewer ==
  ASSUME Unique, list' \subseteq list, \A i \in list' : sess'[i] = sess[i]
  PROVE  Unique'
BY DEF Unique

\* What a call of a handler starts from.
LEMMA CallStep ==
  ASSUME Sound, NEW x, Step(x)
  PROVE  /\ Proper(todo) /\ Op(todo, 1) = x /\ Head(todo) = Code(todo, 1) /\ todo # << >> /\ Code(todo, 1) \in Codes
         /\ req # NoRequest /\ new.kind = "fd" /\ new.fd = req.fd
<1>1. Proper(todo)
  BY Zenon DEF Sound, Kinds
<1>2. Op(todo, 1) = x /\ Head(todo) = Code(todo, 1) /\ todo # << >> /\ Code(todo, 1) \in Codes
  BY Zenon, <1>1, StepCall
<1>3. QED
  BY Zenon, <1>1, <1>2 DEF Sound, Locking

\* pref_get.
LEMMA GetOK ==
  ASSUME Sound, fault = "none", Get
  PROVE  Good \/ Faulted
<1>1. Proper(todo) /\ Op(todo, 1) = "get" /\ req # NoRequest /\ new.kind = "fd" /\ new.fd = req.fd
  BY Zenon, CallStep DEF Get
<1>2. Moved(0) /\ Proper(todo')
  BY Zenon, <1>1, DropMoves, 0 \in Nat DEF Get, Moved
<1>3. Phase(todo) \in {"found", "token_locked"}
  BY <1>1 DEF Phase
<1>4. CASE ptr \in freed
  BY Zenon, <1>4 DEF Get, Faulted
<1>5. CASE ptr \notin freed
  <2>1. /\ Phase(todo) = "found" => Phase(todo)' = "counted"
        /\ Phase(todo) = "token_locked" => Phase(todo)' = "held"
    BY Zenon, <1>1, <1>2, Moves
  <2>2. /\ accounts' = accounts /\ list' = list /\ sess' = sess /\ freed' = freed /\ lock' = lock /\ req' = req
        /\ ptr' = ptr /\ new' = new /\ event' = event /\ fault' = "none" /\ refs' = [refs EXCEPT ![ptr] = @ + 1]
    BY Zenon, <1>5 DEF Get
  <2>3. /\ ptr \in Ids /\ ptr \in list \cup {event.ptr} /\ ptr # 0
        /\ Phase(todo) = "token_locked" => ptr \in list
    BY <1>3, <1>5 DEF Sound, Kinds, Pointer, Ids
  <2>4. Kinds'
    BY <1>2, <2>2, <2>3 DEF Sound, Kinds
  <2>5. Table'
    BY <1>5, <2>2, <2>3 DEF Sound, Kinds, Table, Locking, NoSession
  <2>6. Locking'
    BY <1>1, <1>3, <2>1, <2>2 DEF Sound, Locking
  <2>7. Pointer'
    BY <1>3, <2>1, <2>2, <2>3 DEF Sound, Pointer
  <2>8. Counts'
    BY <1>3, <2>1, <2>2, <2>3 DEF Sound, Kinds, Counts, Own, Owner, Locking
  <2>9. Unique'
    BY Zenon, <2>2, UniqueFewer DEF Sound
  <2>10. Cleared'
    BY <1>1, <1>2, <2>2, ClearedFewer DEF Sound
  <2>11. QED
    BY Zenon, <2>2, <2>4, <2>5, <2>6, <2>7, <2>8, <2>9, <2>10 DEF Good, Sound
<1>6. QED
  BY Zenon, <1>4, <1>5

\* pthread_mutex_lock: the event thread does not have the lock, so the
\* session is in the list.
LEMMA LockOK ==
  ASSUME Sound, fault = "none", Lock
  PROVE  Good
<1>1. Proper(todo) /\ Op(todo, 1) = "lock" /\ req # NoRequest /\ new.kind = "fd" /\ new.fd = req.fd
  BY Zenon, CallStep DEF Lock
<1>2. Moved(0) /\ Proper(todo')
  BY Zenon, <1>1, DropMoves, 0 \in Nat DEF Lock, Moved
<1>3. Phase(todo) \in {"counted", "token_found"}
  BY <1>1 DEF Phase
<1>4. /\ Phase(todo) = "counted" => Phase(todo)' \in {"held", "done"}
      /\ Phase(todo) = "token_found" => Phase(todo)' = "token_locked"
  BY Zenon, <1>1, <1>2, Moves
<1>5. /\ accounts' = accounts /\ list' = list /\ sess' = sess /\ refs' = refs /\ freed' = freed
      /\ lock = "free" /\ lock' = "handler" /\ req' = req
      /\ ptr' = ptr /\ new' = new /\ event' = event /\ fault' = "none"
  BY Zenon DEF Lock, table
<1>6. event.ptr = 0 /\ ptr \in list
  BY <1>3, <1>5 DEF Sound, Pointer, Locking
<1>7. Kinds'
  BY <1>2, <1>5 DEF Sound, Kinds
<1>8. Table'
  BY Zenon, <1>5 DEF Sound, Table
<1>9. Locking'
  BY <1>1, <1>3, <1>4, <1>5, <1>6 DEF Sound, Locking
<1>10. Pointer'
  BY <1>3, <1>4, <1>5, <1>6 DEF Sound, Pointer
<1>11. Counts'
  BY <1>3, <1>4, <1>5 DEF Sound, Kinds, Counts, Own, Owner
<1>12. Unique'
  BY Zenon, <1>5, UniqueFewer DEF Sound
<1>13. Cleared'
  BY <1>1, <1>2, <1>5, ClearedFewer DEF Sound
<1>14. QED
  BY Zenon, <1>5, <1>7, <1>8, <1>9, <1>10, <1>11, <1>12, <1>13 DEF Good, Sound

\* A handler with a request: what it is about.
LEMMA RequestKind ==
  ASSUME NEW q \in Requests
  PROVE  q.fd \in Fds /\ q.uid \in Uids /\ q.op # "none"
<1>1. (CHOOSE u \in Uids : TRUE) \in Uids
  BY SessionAssumption
<1>2. {CHOOSE u \in Uids : TRUE} \subseteq Uids
  BY Zenon, <1>1
<1>3. q \in [op : {"logout", "check", "modify_pwd", "modify_basic", "login", "login_token", "token", "create", "delete"},
               fd : Fds, uid : Uids, ok : BOOLEAN]
  BY Zenon, <1>2 DEF Requests
<1>4. QED
  BY <1>3

\* The copy of the token's session.
LEMMA CopyOK ==
  ASSUME Sound, fault = "none", Copy
  PROVE  Good
<1>1. Proper(todo) /\ Op(todo, 1) = "copy" /\ req # NoRequest /\ new.kind = "fd" /\ new.fd = req.fd
  BY Zenon, CallStep DEF Copy
<1>2. Moved(0) /\ Proper(todo')
  BY Zenon, <1>1, DropMoves, 0 \in Nat DEF Copy, Moved
<1>3. Phase(todo) = "held" /\ Phase(todo)' = "held"
  <2>1. Phase(todo) = "held"
    BY <1>1 DEF Phase
  <2>2. QED
    BY Zenon, <1>1, <1>2, <2>1, Moves
<1>4. /\ accounts' = accounts /\ list' = list /\ sess' = sess /\ refs' = refs /\ freed' = freed
      /\ lock' = lock /\ req' = req /\ ptr' = ptr /\ event' = event /\ fault' = "none"
      /\ new' = [sess[ptr] EXCEPT !.kind = "fd", !.fd = req.fd]
  BY Zenon DEF Copy, table
<1>5. sess[ptr] \in Sessions /\ req.fd \in Fds
  <2>1. ptr \in Ids /\ sess[ptr] \in Sessions
    BY <1>3 DEF Sound, Kinds, Pointer
  <2>2. req \in Requests
    BY Zenon, <1>1 DEF Sound, Kinds
  <2>3. QED
    BY Zenon, <2>1, <2>2, RequestKind
<1>6. new' \in Sessions /\ new'.kind = "fd" /\ new'.fd = req.fd
  <2>1. PICK s \in Sessions, f \in Fds : s = sess[ptr] /\ f = req.fd
    BY Zenon, <1>5
  <2>2. [s EXCEPT !.kind = "fd", !.fd = f] \in Sessions
    BY Zenon DEF Sessions
  <2>3. [s EXCEPT !.kind = "fd", !.fd = f].kind = "fd" /\ [s EXCEPT !.kind = "fd", !.fd = f].fd = f
    BY DEF Sessions
  <2>4. QED
    BY Zenon, <1>4, <2>1, <2>2, <2>3
<1>7. Kinds'
  BY <1>2, <1>4, <1>6 DEF Sound, Kinds
<1>8. Table'
  BY Zenon, <1>4 DEF Sound, Table
<1>9. Locking'
  BY <1>1, <1>3, <1>4, <1>6 DEF Sound, Locking
<1>10. Pointer'
  BY <1>3, <1>4 DEF Sound, Pointer
<1>11. Counts'
  BY <1>3, <1>4 DEF Sound, Counts, Own, Owner
<1>12. Unique'
  BY Zenon, <1>4, UniqueFewer DEF Sound
<1>13. Cleared'
  BY Zenon, <1>1, <1>2, ClearedNew
<1>14. QED
  BY Zenon, <1>4, <1>7, <1>8, <1>9, <1>10, <1>11, <1>12, <1>13 DEF Good, Sound

\* session_dref: the session is in the list.
LEMMA DrefOK ==
  ASSUME Sound, fault = "none", Dref
  PROVE  Good
<1>1. Proper(todo) /\ Op(todo, 1) = "dref" /\ req # NoRequest /\ new.kind = "fd" /\ new.fd = req.fd
  BY Zenon, CallStep DEF Dref
<1>2. Moved(0) /\ Proper(todo')
  BY Zenon, <1>1, DropMoves, 0 \in Nat DEF Dref, Moved
<1>3. Phase(todo) = "held" /\ Phase(todo)' \in {"free", "done"}
  <2>1. Phase(todo) = "held"
    BY <1>1 DEF Phase
  <2>2. QED
    BY Zenon, <1>1, <1>2, <2>1, Moves
<1>4. ptr \in list /\ ptr \in Ids /\ lock = "handler" /\ event.ptr = 0
  BY <1>3 DEF Sound, Kinds, Pointer, Locking
<1>5. /\ accounts' = accounts /\ list' = list /\ sess' = sess /\ freed' = freed
      /\ lock' = "free" /\ req' = req /\ ptr' = ptr /\ new' = new /\ event' = event /\ fault' = "none"
      /\ refs' = [refs EXCEPT ![ptr] = @ - 1]
  BY Zenon, <1>4 DEF Dref
<1>6. refs[ptr] = 1 /\ \A i \in Ids \ {ptr} : refs[i] = 0
  BY <1>3, <1>4 DEF Sound, Kinds, Counts, Own, Owner
<1>7. refs' \in [Ids -> Nat] /\ \A i \in Ids : refs'[i] = 0
  BY <1>4, <1>5, <1>6 DEF Sound, Kinds
<1>8. Kinds'
  BY <1>2, <1>5, <1>7 DEF Sound, Kinds
<1>9. Table'
  BY <1>5, <1>7 DEF Sound, Table
<1>10. Locking'
  BY <1>1, <1>3, <1>4, <1>5 DEF Sound, Locking
<1>11. Pointer'
  BY <1>3 DEF Pointer
<1>12. Counts'
  BY <1>3, <1>5, <1>7 DEF Counts, Own, Owner
<1>13. Unique'
  BY Zenon, <1>5, UniqueFewer DEF Sound
<1>14. Cleared'
  BY <1>1, <1>2, <1>5, ClearedFewer DEF Sound
<1>15. QED
  BY Zenon, <1>5, <1>8, <1>9, <1>10, <1>11, <1>12, <1>13, <1>14 DEF Good, Sound

\* pref_release and free.
LEMMA ReleaseOK ==
  ASSUME Sound, fault = "none", Release
  PROVE  Good
<1>1. Proper(todo) /\ Op(todo, 1) = "release" /\ req # NoRequest /\ new.kind = "fd" /\ new.fd = req.fd
  BY Zenon, CallStep DEF Release
<1>2. Moved(0) /\ Proper(todo')
  BY Zenon, <1>1, DropMoves, 0 \in Nat DEF Release, Moved
<1>3. Phase(todo) = "unlinked" /\ Phase(todo)' \in {"free", "done"}
  <2>1. Phase(todo) = "unlinked"
    BY <1>1 DEF Phase
  <2>2. QED
    BY Zenon, <1>1, <1>2, <2>1, Moves
<1>4. ptr \in Ids \ (list \cup freed) /\ sess[ptr] # NoSession /\ lock = "handler" /\ event.ptr = 0
  BY <1>3 DEF Sound, Kinds, Pointer, Locking
<1>5. /\ accounts' = accounts /\ list' = list /\ sess' = sess /\ refs' = refs /\ freed' = freed \cup {ptr}
      /\ lock' = "free" /\ req' = req /\ ptr' = ptr /\ new' = new /\ event' = event /\ fault' = "none"
      /\ refs[ptr] = 0
  BY Zenon DEF Release
<1>6. Kinds'
  BY <1>2, <1>4, <1>5 DEF Sound, Kinds
<1>7. Table'
  BY <1>4, <1>5 DEF Sound, Table
<1>8. Locking'
  BY <1>1, <1>3, <1>4, <1>5 DEF Sound, Locking
<1>9. Pointer'
  BY <1>3 DEF Pointer
<1>10. Counts'
  BY <1>3, <1>4, <1>5 DEF Sound, Kinds, Counts, Own, Owner
<1>11. Unique'
  BY Zenon, <1>5, UniqueFewer DEF Sound
<1>12. Cleared'
  BY <1>1, <1>2, <1>5, ClearedFewer DEF Sound
<1>13. QED
  BY Zenon, <1>5, <1>6, <1>7, <1>8, <1>9, <1>10, <1>11, <1>12 DEF Good, Sound

\* The calls that change no session: only the accounts.
LEMMA TableKept ==
  ASSUME Sound, fault = "none", NEW x \in {"account", "create", "account_del"}, Step(x), Drop(0), fault' = "none",
         accounts' \in [Uids -> Types \cup {"none"}], UNCHANGED <<list, sess, refs, freed, lock, req, ptr, new, event>>
  PROVE  Good
<1>1. Proper(todo) /\ Op(todo, 1) = x /\ req # NoRequest /\ new.kind = "fd" /\ new.fd = req.fd
  BY Zenon, CallStep
<1>2. Moved(0) /\ Proper(todo')
  BY Zenon, <1>1, DropMoves, 0 \in Nat DEF Moved
<1>3. Phase(todo) = "free" /\ Phase(todo)' \in {"free", "done"}
  <2>1. Phase(todo) = "free"
    BY <1>1 DEF Phase
  <2>2. Op(todo, 1) \in {"dref", "release", "add_fd", "add_token", "account", "create", "account_del"}
    BY <1>1
  <2>3. QED
    BY Zenon, <1>1, <1>2, <2>1, <2>2, Moves
<1>4. Kinds'
  BY <1>2 DEF Sound, Kinds
<1>5. Table'
  BY Zenon DEF Sound, Table
<1>6. Locking'
  BY <1>1, <1>3 DEF Sound, Locking
<1>7. Pointer'
  BY <1>3 DEF Pointer
<1>8. Counts'
  BY <1>3 DEF Sound, Counts, Own, Owner, Locking
<1>9. Unique'
  BY Zenon, UniqueFewer DEF Sound
<1>10. Cleared'
  BY <1>1, <1>2, ClearedFewer DEF Sound
<1>11. QED
  BY Zenon, <1>4, <1>5, <1>6, <1>7, <1>8, <1>9, <1>10 DEF Good, Sound

\* db_account_get_one, and its assert.
LEMMA AccountOK ==
  ASSUME Sound, fault = "none", Account
  PROVE  Good \/ Faulted
<1>1. CASE accounts[new.uid] = "none"
  BY Zenon, <1>1 DEF Account, table, Faulted
<1>2. CASE accounts[new.uid] # "none"
  <2>1. /\ Step("account") /\ Drop(0) /\ fault' = "none" /\ accounts' = accounts
        /\ UNCHANGED <<list, sess, refs, freed, lock, req, ptr, new, event>>
    BY Zenon, <1>2 DEF Account, table
  <2>2. accounts' \in [Uids -> Types \cup {"none"}] /\ "account" \in {"account", "create", "account_del"}
    BY Zenon, <2>1 DEF Sound, Kinds
  <2>3. QED
    BY Zenon, <2>1, <2>2, TableKept
<1>3. QED
  BY Zenon, <1>1, <1>2

\* db_account_add_one, or nothing.
LEMMA CreateOK ==
  ASSUME Sound, fault = "none", Create
  PROVE  Good \/ Faulted
<1>1. CASE ptr \in freed
  BY Zenon, <1>1 DEF Create, table, Faulted
<1>2. CASE ptr \notin freed
  <2>1. /\ Step("create") /\ Drop(0) /\ fault' = "none"
        /\ UNCHANGED <<list, sess, refs, freed, lock, req, ptr, new, event>>
        /\ accounts' = accounts \/ accounts' = [accounts EXCEPT ![req.uid] = "menu"]
    BY Zenon, <1>2 DEF Create, table
  <2>2. req # NoRequest
    BY Zenon, <2>1, CallStep
  <2>3. req.uid \in Uids
    BY Zenon, <2>2, RequestKind DEF Sound, Kinds
  <2>4. accounts' \in [Uids -> Types \cup {"none"}] /\ "create" \in {"account", "create", "account_del"}
    BY <2>1, <2>3 DEF Sound, Kinds, Types
  <2>5. QED
    BY Zenon, <2>1, <2>4, TableKept
<1>3. QED
  BY Zenon, <1>1, <1>2

\* db_account_del_one.
LEMMA AccountDelOK ==
  ASSUME Sound, fault = "none", AccountDel
  PROVE  Good
<1>1. /\ Step("account_del") /\ Drop(0) /\ fault' = "none"
      /\ UNCHANGED <<list, sess, refs, freed, lock, req, ptr, new, event>>
      /\ accounts' = [accounts EXCEPT ![req.uid] = "none"]
  BY Zenon DEF AccountDel, table
<1>2. req # NoRequest
  BY Zenon, <1>1, CallStep
<1>3. req.uid \in Uids
  BY Zenon, <1>2, RequestKind DEF Sound, Kinds
<1>4. accounts' \in [Uids -> Types \cup {"none"}] /\ "account_del" \in {"account", "create", "account_del"}
  BY <1>1, <1>3 DEF Sound, Kinds, Types
<1>5. QED
  BY Zenon, <1>1, <1>4, TableKept

\* res_account_delete with the session held: it returns with it, or gives it
\* back first.
LEMMA DeleteOK ==
  ASSUME Sound, fault = "none", Delete
  PROVE  Good
<1>1. Proper(todo) /\ Op(todo, 1) = "delete" /\ req # NoRequest /\ new.kind = "fd" /\ new.fd = req.fd
  BY Zenon, CallStep DEF Delete
<1>2. PICK t : t = todo' /\ (t = << >> \/ Returns(t))
  BY Zenon, Programs DEF Delete
<1>3. /\ Proper(t) /\ \A p \in Nat \ {0} : Op(t, p) \notin {"add_fd", "add_token"}
      /\ Phase(t) \in {"held", "done"}
  <2>1. CASE t = << >>
    <3>1. Proper(t)
      BY Zenon, <2>1, Programs
    <3>2. Phase(t) = "done" /\ \A p \in Nat : Op(t, p) = "return"
      BY Zenon, <2>1, DonePhase
    <3>3. QED
      BY <3>1, <3>2
  <2>2. CASE Returns(t)
    <3>1. Proper(t) /\ Op(t, 1) = "dref" /\ \A p \in Nat \ {0} : Op(t, p) \notin {"add_fd", "add_token"}
      BY Zenon, <2>2 DEF Returns
    <3>2. Phase(t) = "held"
      BY <3>1 DEF Phase
    <3>3. QED
      BY Zenon, <3>1, <3>2
  <2>3. QED
    BY Zenon, <1>2, <2>1, <2>2
<1>4. Phase(todo) = "held" /\ Phase(todo)' \in {"held", "done"} /\ Proper(todo')
  <2>1. Phase(todo) = "held"
    BY <1>1 DEF Phase
  <2>2. QED
    BY Zenon, <1>2, <1>3, <2>1
<1>5. ptr \in list /\ ptr \in Ids /\ lock = "handler"
  BY <1>4 DEF Sound, Kinds, Pointer, Locking
<1>6. fault' = "none" /\ UNCHANGED <<accounts, list, sess, refs, freed, lock, req, ptr, new, event>>
  BY Zenon DEF Delete, table
<1>7. Kinds'
  BY <1>4, <1>6 DEF Sound, Kinds
<1>8. Table'
  BY Zenon, <1>6 DEF Sound, Table
<1>9. Locking'
  BY <1>1, <1>4, <1>5, <1>6 DEF Sound, Locking
<1>10. Pointer'
  BY <1>4, <1>5, <1>6 DEF Pointer
<1>11. Counts'
  BY <1>4, <1>5, <1>6 DEF Sound, Counts, Own, Owner
<1>12. Unique'
  BY Zenon, <1>6, UniqueFewer DEF Sound
<1>13. Cleared'
  BY Zenon, <1>2, <1>3, ClearedNone
<1>14. QED
  BY Zenon, <1>6, <1>7, <1>8, <1>9, <1>10, <1>11, <1>12, <1>13 DEF Good, Sound

\* The scan of session_ref_*.
LEMMA FindOK ==
  ASSUME Sound, fault = "none", FindSession
  PROVE  Good
<1>1. /\ Proper(todo) /\ Op(todo, 1) = "find" /\ req # NoRequest /\ new.kind = "fd" /\ new.fd = req.fd
      /\ Head(todo) = Code(todo, 1)
  BY Zenon, CallStep DEF FindSession
<1>2. Code(todo, 1).by \in {"fd", "uid", "token"} /\ Code(todo, 1).miss \in {5, All}
  <2>1. 1 \in Nat \ {0}
    OBVIOUS
  <2>2. QED
    BY Zenon, <1>1, <2>1 DEF Proper, Follows
<1>3. Phase(todo) = "free" /\ lock # "handler"
  <2>1. Phase(todo) = "free"
    BY <1>1 DEF Phase
  <2>2. QED
    BY <2>1 DEF Sound, Locking
<1>4. fault' = "none" /\ UNCHANGED <<accounts, list, sess, refs, freed, lock, req, new, event>>
  BY Zenon DEF FindSession, table
<1>5. Unique'
  BY Zenon, <1>4, UniqueFewer DEF Sound
<1>6. Table'
  BY Zenon, <1>4 DEF Sound, Table
<1>7. CASE Matches # {}
  <2>1. Moved(0) /\ Proper(todo') /\ ptr' \in Matches
    BY Zenon, <1>1, <1>7, DropMoves, 0 \in Nat DEF FindSession, Moved
  <2>2. Phase(todo)' = "found" \/ (Code(todo, 1).by = "token" /\ Phase(todo)' = "token_found")
    BY Zenon, <1>1, <2>1, Moves
  <2>3. ptr' \in list /\ (Code(todo, 1).by = "token" => sess[ptr'].kind = "token")
    BY <1>1, <1>2, <2>1 DEF Matches, FdSessions, UidSessions
  <2>4. Kinds'
    BY <1>4, <2>1, <2>3 DEF Sound, Kinds
  <2>5. ptr' # 0
    BY <2>3 DEF Sound, Kinds, Ids
  <2>6. Locking'
    BY <1>1, <1>3, <1>4, <2>2 DEF Sound, Locking
  <2>7. Pointer'
    BY <1>4, <2>2, <2>3, <2>5 DEF Pointer
  <2>8. Counts'
    BY <1>3, <1>4, <2>2 DEF Sound, Counts, Own, Owner
  <2>9. Cleared'
    BY Zenon, <1>1, <1>4, <2>1, ClearedFound DEF Sound
  <2>10. QED
    BY Zenon, <1>4, <1>5, <1>6, <2>4, <2>6, <2>7, <2>8, <2>9 DEF Good, Sound
<1>8. CASE Matches = {}
  <2>1. Drop(Code(todo, 1).miss) /\ ptr' = ptr
    BY Zenon, <1>1, <1>8 DEF FindSession
  <2>2. Proper(todo') /\ Phase(todo)' \in {"free", "done"} /\ Cleared'
    <3>1. CASE Code(todo, 1).miss = 5
      <4>1. Moved(5)
        BY Zenon, <1>1, <2>1, <3>1, DropMoves, 5 \in Nat
      <4>2. Phase(todo)' = "free"
        BY Zenon, <1>1, <3>1, <4>1, MissFind
      <4>3. Cleared'
        BY Zenon, <1>1, <1>4, <1>8, <2>1, <3>1, <4>1, ClearedMissed DEF Sound
      <4>4. QED
        BY Zenon, <4>1, <4>2, <4>3 DEF Moved
    <3>2. CASE Code(todo, 1).miss = All
      <4>1. All \in Nat
        BY DEF All
      <4>2. Moved(All)
        BY Zenon, <1>1, <2>1, <3>2, <4>1, DropMoves
      <4>3. PICK t : t = todo' /\ t = << >>
        BY Zenon, <1>1, <4>2, MissAll
      <4>4. Phase(t) = "done" /\ \A p \in Nat : Op(t, p) = "return"
        BY Zenon, <4>3, DonePhase
      <4>5. \A p \in Nat \ {0} : Op(t, p) \notin {"add_fd", "add_token"}
        BY <4>4
      <4>6. QED
        BY Zenon, <4>2, <4>3, <4>4, <4>5, ClearedNone DEF Moved
    <3>3. QED
      BY Zenon, <1>2, <3>1, <3>2
  <2>3. Kinds'
    BY <1>4, <2>1, <2>2 DEF Sound, Kinds
  <2>4. Locking'
    BY <1>1, <1>3, <1>4, <2>2 DEF Sound, Locking
  <2>5. Pointer'
    BY <2>2 DEF Pointer
  <2>6. Counts'
    BY <1>3, <1>4, <2>2 DEF Sound, Counts, Own, Owner
  <2>7. QED
    BY Zenon, <1>4, <1>5, <1>6, <2>2, <2>3, <2>4, <2>5, <2>6 DEF Good, Sound
<1>9. QED
  BY Zenon, <1>7, <1>8

\* session_del_*: what matches is unlinked under the lock.
LEMMA UnlinkOK ==
  ASSUME Sound, fault = "none", Unlink
  PROVE  Good \/ Faulted
<1>1. /\ Proper(todo) /\ Op(todo, 1) = "unlink" /\ req # NoRequest /\ new.kind = "fd" /\ new.fd = req.fd
      /\ Head(todo) = Code(todo, 1) /\ lock = "free"
  BY Zenon, CallStep DEF Unlink
<1>2. Code(todo, 1).by \in {"fd", "token"} /\ Code(todo, 1).miss \in {1, All}
  <2>1. 1 \in Nat \ {0}
    OBVIOUS
  <2>2. QED
    BY Zenon, <1>1, <2>1 DEF Proper, Follows
<1>3. Phase(todo) = "free"
  BY <1>1 DEF Phase
<1>4. UNCHANGED <<accounts, sess, refs, freed, req, new, event>>
  BY Zenon DEF Unlink
<1>5. CASE Victims # {}
  <2>1. PICK i \in Victims : list' = list \ {i} /\ ptr' = i /\ lock' = "handler" /\ Drop(0) /\ fault' = "none"
    BY Zenon, <1>5 DEF Unlink
  <2>2. Moved(0) /\ Proper(todo')
    BY Zenon, <1>1, <2>1, DropMoves, 0 \in Nat DEF Moved
  <2>3. Phase(todo)' = "unlinked"
    BY Zenon, <1>1, <2>2, Moves
  <2>4. i \in list
    BY <2>1 DEF Victims, FdSessions, UidSessions
  <2>5. i \in Ids /\ i \notin freed /\ sess[i] # NoSession
    BY <2>4 DEF Sound, Kinds, Table, NoSession
  <2>6. Kinds'
    BY <1>4, <2>1, <2>2, <2>5 DEF Sound, Kinds
  <2>7. Table'
    BY <1>4, <2>1 DEF Sound, Table
  <2>8. Locking'
    BY <1>1, <1>4, <2>1, <2>3 DEF Sound, Locking
  <2>9. Pointer'
    BY <1>4, <2>1, <2>3, <2>5 DEF Pointer
  <2>10. Counts'
    BY <1>1, <1>3, <1>4, <2>1, <2>3 DEF Sound, Counts, Own, Owner
  <2>11. Unique'
    <3>1. list' \subseteq list /\ \A j \in list' : sess'[j] = sess[j]
      BY <1>4, <2>1
    <3>2. QED
      BY Zenon, <3>1, UniqueFewer DEF Sound
  <2>12. Cleared'
    BY Zenon, <1>1, <1>4, <2>1, <2>2, ClearedUnlinked DEF Sound
  <2>13. QED
    BY Zenon, <2>1, <2>6, <2>7, <2>8, <2>9, <2>10, <2>11, <2>12 DEF Good, Sound
<1>6. CASE Victims = {} /\ Code(todo, 1).miss = All
  BY Zenon, <1>1, <1>4, <1>6 DEF Unlink, Faulted
<1>7. CASE Victims = {} /\ Code(todo, 1).miss = 1
  <2>1. Code(todo, 1).miss # All
    BY <1>7 DEF All
  <2>2. Drop(1) /\ list' = list /\ lock' = lock /\ ptr' = ptr /\ fault' = "none"
    BY Zenon, <1>1, <1>7, <2>1 DEF Unlink
  <2>3. Moved(1)
    BY Zenon, <1>1, <2>2, DropMoves, 1 \in Nat
  <2>4. Phase(todo)' = "free" /\ Cleared' /\ Proper(todo')
    BY Zenon, <1>1, <1>7, <2>3, MissUnlink, ClearedUnlinkMissed DEF Moved
  <2>5. Kinds'
    BY <1>4, <2>2, <2>4 DEF Sound, Kinds
  <2>6. Table'
    BY Zenon, <1>4, <2>2 DEF Sound, Table
  <2>7. Locking'
    BY <1>1, <1>4, <2>2, <2>4 DEF Sound, Locking
  <2>8. Pointer'
    BY <2>4 DEF Pointer
  <2>9. Counts'
    BY <1>1, <1>3, <1>4, <2>2, <2>4 DEF Sound, Counts, Own, Owner
  <2>10. Unique'
    BY Zenon, <1>4, <2>2, UniqueFewer DEF Sound
  <2>11. QED
    BY Zenon, <2>2, <2>4, <2>5, <2>6, <2>7, <2>8, <2>9, <2>10 DEF Good, Sound
<1>8. QED
  BY Zenon, <1>2, <1>5, <1>6, <1>7

\* session_add has added s.
Added(s) ==
  /\ lock = "free" /\ Drop(0) /\ fault' = "none" /\ UNCHANGED <<accounts, refs, freed, lock, req, ptr, new, event>>
  /\ \E i \in Ids : sess[i] = NoSession /\ list' = list \cup {i} /\ sess' = [sess EXCEPT ![i] = s]

\* session_add of a session that none in the list is like.
LEMMA AddIs ==
  ASSUME NEW s, NEW conflict, Add(s, conflict), ~conflict, fault = "none"
  PROVE  Added(s)
<1>1. PICK room : room = {j \in Ids : sess[j] = NoSession}
  BY Zenon
<1>2. PICK i : i = CHOOSE j \in room : TRUE
  BY Zenon
<1>3. /\ lock = "free" /\ room # {} /\ Drop(0) /\ fault' = "none"
      /\ list' = list \cup {i} /\ sess' = [sess EXCEPT ![i] = s]
      /\ UNCHANGED <<accounts, refs, freed, lock, req, ptr, new, event>>
  BY Zenon, <1>1, <1>2 DEF Add
<1>4. i \in room
  BY Zenon, <1>2, <1>3
<1>5. i \in Ids /\ sess[i] = NoSession
  BY Zenon, <1>1, <1>4
<1>6. QED
  BY Zenon, <1>3, <1>5 DEF Added

\* A session that none is like is in the list.
LEMMA AddedOK ==
  ASSUME Sound, fault = "none", NEW x \in {"add_fd", "add_token"}, Step(x), NEW s \in Sessions, Added(s),
         s.kind \in {"fd", "token"},
         \A j \in list : sess[j].kind = s.kind => sess[j].uid # s.uid /\ (s.kind = "fd" => sess[j].fd # s.fd)
  PROVE  Good
<1>1. Proper(todo) /\ Op(todo, 1) = x /\ req # NoRequest /\ new.kind = "fd" /\ new.fd = req.fd
  BY Zenon, CallStep
<1>2. Moved(0) /\ Proper(todo')
  BY Zenon, <1>1, DropMoves, 0 \in Nat DEF Added, Moved
<1>3. Phase(todo) = "free" /\ Phase(todo)' \in {"free", "done"}
  <2>1. Phase(todo) = "free"
    BY <1>1 DEF Phase
  <2>2. Op(todo, 1) \in {"dref", "release", "add_fd", "add_token", "account", "create", "account_del"}
    BY <1>1
  <2>3. QED
    BY Zenon, <1>1, <1>2, <2>1, <2>2, Moves
<1>4. PICK i \in Ids : sess[i] = NoSession /\ list' = list \cup {i} /\ sess' = [sess EXCEPT ![i] = s]
  BY Zenon DEF Added
<1>5. lock = "free" /\ fault' = "none" /\ UNCHANGED <<accounts, refs, freed, lock, req, ptr, new, event>>
  BY Zenon DEF Added
<1>6. i \notin list /\ i \notin freed /\ refs[i] = 0 /\ s # NoSession
  BY <1>4 DEF Sound, Table, NoSession
<1>7. sess' \in [Ids -> Sessions] /\ sess'[i] = s /\ \A j \in Ids \ {i} : sess'[j] = sess[j]
  BY <1>4 DEF Sound, Kinds
<1>8. list \subseteq Ids /\ freed \subseteq Ids /\ \A j \in list \cup freed : sess'[j] = sess[j]
  BY <1>6, <1>7 DEF Sound, Kinds
<1>9. Kinds'
  BY <1>2, <1>4, <1>5, <1>7 DEF Sound, Kinds
<1>10. Table'
  BY <1>4, <1>5, <1>6, <1>7, <1>8 DEF Sound, Table
<1>11. Locking'
  BY <1>1, <1>3, <1>5 DEF Sound, Locking
<1>12. Pointer'
  BY <1>3 DEF Pointer
<1>13. Counts'
  BY <1>3, <1>5 DEF Sound, Counts, Own, Owner
<1>14. Unique'
  BY <1>4, <1>6, <1>7, <1>8 DEF Sound, Unique
<1>15. Cleared'
  BY Zenon, <1>1, <1>2, ClearedNew
<1>16. QED
  BY Zenon, <1>5, <1>9, <1>10, <1>11, <1>12, <1>13, <1>14, <1>15 DEF Good, Sound

\* session_add of a session of a descriptor, at the end of a login.
LEMMA AddFdOK ==
  ASSUME Sound, fault = "none", AddFd
  PROVE  Good
<1>1. Op(todo, 1) = "add_fd" /\ new.kind = "fd"
  BY Zenon, CallStep DEF AddFd
<1>2. 1 \in 1 .. 12 /\ 1 <= 2 /\ 1 <= 8
  OBVIOUS
<1>3. FdGone /\ UidGone
  BY Zenon, <1>1, <1>2 DEF Sound, Cleared
<1>4. PICK conflict : conflict = (FdSessions(new.fd) \cup UidSessions(new.uid, "fd") # {}) /\ Add(new, conflict)
  BY Zenon DEF AddFd
<1>5. ~conflict
  BY Zenon, <1>3, <1>4 DEF FdGone, UidGone
<1>6. Added(new)
  BY Zenon, <1>4, <1>5, AddIs
<1>7. \A j \in list : sess[j].kind = new.kind => sess[j].uid # new.uid /\ (new.kind = "fd" => sess[j].fd # new.fd)
  BY <1>1, <1>3 DEF FdGone, UidGone, FdSessions, UidSessions
<1>8. new \in Sessions /\ "add_fd" \in {"add_fd", "add_token"} /\ new.kind \in {"fd", "token"} /\ Step("add_fd")
  BY Zenon, <1>1 DEF Sound, Kinds, AddFd
<1>9. QED
  BY Zenon, <1>6, <1>7, <1>8, AddedOK

\* session_add of a session of a token.
LEMMA AddTokenOK ==
  ASSUME Sound, fault = "none", AddToken
  PROVE  Good
<1>1. Op(todo, 1) = "add_token" /\ Step("add_token")
  BY Zenon, CallStep DEF AddToken
<1>2. 1 \in 1 .. 6 /\ 1 <= 2
  OBVIOUS
<1>3. TokenGone
  BY Zenon, <1>1, <1>2 DEF Sound, Cleared
<1>4. PICK s : s = [new EXCEPT !.kind = "token", !.fd = 0] /\ Add(s, FALSE)
  BY Zenon DEF AddToken
<1>5. Added(s)
  BY Zenon, <1>4, AddIs
<1>6. s \in Sessions /\ s.kind = "token" /\ s.uid = new.uid
  BY Zenon, <1>4 DEF Sound, Kinds, Sessions
<1>7. \A j \in list : sess[j].kind = s.kind => sess[j].uid # s.uid /\ (s.kind = "fd" => sess[j].fd # s.fd)
  BY <1>3, <1>6 DEF TokenGone, UidSessions
<1>8. QED
  BY Zenon, <1>1, <1>5, <1>6, <1>7, AddedOK

\* A program that starts with a look-up that does not come after others.
LEMMA StartsOK ==
  ASSUME NEW s, Proper(s), Starts(s)
  PROVE  /\ Phase(s) \in {"free", "done"}
         /\ \A p \in 1 .. 12 : Op(s, p) # "add_fd" /\ (p <= 6 => Op(s, p) # "add_token")
<1>1. CASE s = << >>
  <2>1. Phase(s) = "done" /\ \A p \in Nat : Op(s, p) = "return"
    BY Zenon, <1>1, DonePhase
  <2>2. QED
    BY <2>1
<1>2. CASE Op(s, 1) = "find" /\ Code(s, 1) # Find("fd", 5) /\ Code(s, 1) # Find("token", 5)
  <2>1. Phase(s) = "free"
    BY <1>2 DEF Phase
  <2>2. ASSUME NEW p \in 1 .. 12 PROVE Op(s, p) # "add_fd" /\ (p <= 6 => Op(s, p) # "add_token")
    <3>1. CASE p = 1
      BY <1>2, <3>1
    <3>2. CASE p # 1
      <4>1. p \in 2 .. 13 /\ (p <= 6 => p \in 2 .. 7 /\ p # 7) /\ p # 13 /\ 7 \in 2 .. 13
        BY <3>2
      <4>2. Op(s, p) = "add_fd" => p = 7
        BY Zenon, <1>2, <4>1, HeadOps
      <4>3. Op(s, 7) # "add_fd"
        <5>1. Op(s, 7) = "add_fd" => HeadFd(s, 7)
          BY Zenon, <4>1, HeadsFd
        <5>2. QED
          BY Zenon, <1>2, <5>1 DEF HeadFd
      <4>4. p <= 6 => Op(s, p) # "add_token"
        BY Zenon, <1>2, <4>1, HeadOps
      <4>5. QED
        BY Zenon, <4>2, <4>3, <4>4
    <3>3. QED
      BY Zenon, <3>1, <3>2
  <2>3. QED
    BY Zenon, <2>1, <2>2
<1>3. QED
  BY Zenon, <1>1, <1>2 DEF Starts

\* The handler of a request is called.
LEMMA BeginOK ==
  ASSUME Sound, fault = "none", NEW q \in Requests, Begin(q)
  PROVE  Good
<1>1. q.fd \in Fds /\ q.uid \in Uids /\ q.op # "none"
  BY Zenon, RequestKind
<1>2. PICK s : s = todo' /\ Proper(s) /\ Starts(s)
  BY Zenon, Programs DEF Begin
<1>3. Phase(s) \in {"free", "done"} /\ \A p \in 1 .. 12 : Op(s, p) # "add_fd" /\ (p <= 6 => Op(s, p) # "add_token")
  BY Zenon, <1>2, StartsOK
<1>4. Proper(todo') /\ Phase(todo)' \in {"free", "done"}
  BY Zenon, <1>2, <1>3
<1>5. /\ req = NoRequest /\ req' = q /\ ptr' = 0 /\ fault' = "none"
      /\ UNCHANGED <<accounts, list, sess, refs, freed, lock, event>>
  BY Zenon DEF Begin, table
<1>6. q # NoRequest
  BY <1>1 DEF NoRequest
<1>7. PICK garbage \in {0, 1} :
        new' = [uid |-> q.uid, fd |-> q.fd, kind |-> "fd", type |-> accounts[q.uid], admin |-> garbage]
  BY DEF Begin
<1>8. new' \in Sessions /\ new'.kind = "fd" /\ new'.fd = q.fd
  BY <1>1, <1>7 DEF Sound, Kinds, Sessions
<1>9. todo = << >> /\ lock # "handler"
  BY Zenon, <1>5 DEF Sound, Locking
<1>10. Phase(todo) = "done"
  BY Zenon, <1>9, DonePhase
<1>11. Kinds'
  BY <1>4, <1>5, <1>8 DEF Sound, Kinds
<1>12. Table'
  BY Zenon, <1>5 DEF Sound, Table
<1>13. Locking'
  BY <1>4, <1>5, <1>6, <1>8, <1>9 DEF Sound, Locking
<1>14. Pointer'
  BY <1>4 DEF Pointer
<1>15. Counts'
  BY <1>4, <1>5, <1>9, <1>10 DEF Sound, Counts, Own, Owner
<1>16. Unique'
  BY Zenon, <1>5, UniqueFewer DEF Sound
<1>17. Cleared'
  <2>1. \A p \in 1 .. 6 : p \in 1 .. 12 /\ p <= 6
    OBVIOUS
  <2>2. QED
    BY Zenon, <1>2, <1>3, <2>1 DEF Cleared
<1>18. QED
  BY Zenon, <1>5, <1>11, <1>12, <1>13, <1>14, <1>15, <1>16, <1>17 DEF Good, Sound

\* The handler returns, perhaps with the session and its lock.
LEMMA EndOK ==
  ASSUME Sound, fault = "none", End
  PROVE  Good
<1>1. /\ todo = << >> /\ todo' = todo /\ req' = NoRequest /\ ptr' = 0 /\ new' = NoSession /\ freed' = {}
      /\ sess' = [i \in Ids |-> IF i \in freed THEN NoSession ELSE sess[i]]
      /\ lock' = (IF lock = "handler" THEN "lost" ELSE lock)
      /\ fault' = "none" /\ UNCHANGED <<accounts, list, refs, event>>
  BY Zenon DEF End
<1>2. PICK t : t = todo' /\ t = << >>
  BY Zenon, <1>1
<1>3. Phase(t) = "done" /\ \A p \in Nat : Op(t, p) = "return"
  BY Zenon, <1>2, DonePhase
<1>4. Phase(todo) = "done" /\ Phase(todo)' = "done" /\ Proper(todo')
  BY Zenon, <1>1, <1>2, <1>3 DEF Sound, Kinds
<1>5. \A i \in Ids : sess'[i] = IF i \in freed THEN NoSession ELSE sess[i]
  BY <1>1
<1>6. NoSession \in Sessions
  BY DEF NoSession, Sessions
<1>7. sess' \in [Ids -> Sessions]
  BY <1>1, <1>6 DEF Sound, Kinds
<1>8. Kinds'
  BY <1>1, <1>4, <1>6, <1>7 DEF Sound, Kinds
<1>9. \A i \in list : sess'[i] = sess[i]
  <2>1. \A i \in list : i \in Ids /\ i \notin freed
    BY DEF Sound, Kinds, Table
  <2>2. QED
    BY Zenon, <1>5, <2>1
<1>10. Table'
  BY <1>1, <1>5, <1>9 DEF Sound, Table
<1>11. Locking'
  <2>1. event.ptr # 0 => sess'[event.ptr] = sess[event.ptr]
    BY <1>5 DEF Sound, Kinds, Locking
  <2>2. QED
    BY <1>1, <1>4, <2>1 DEF Sound, Locking
<1>12. Pointer'
  BY <1>4 DEF Pointer
<1>13. Counts'
  BY <1>1, <1>4 DEF Sound, Kinds, Counts, Own, Owner
<1>14. Unique'
  BY Zenon, <1>1, <1>9, UniqueFewer DEF Sound
<1>15. Cleared'
  <2>1. \A p \in Nat \ {0} : Op(t, p) \notin {"add_fd", "add_token"}
    BY <1>3
  <2>2. QED
    BY Zenon, <1>2, <2>1, ClearedNone
<1>16. QED
  BY Zenon, <1>1, <1>8, <1>10, <1>11, <1>12, <1>13, <1>14, <1>15 DEF Good, Sound

\* The handler stands still while the event thread deletes a session.
LEMMA CloseOK ==
  ASSUME Sound, fault = "none", NEW fd \in Fds, Close(fd)
  PROVE  Good
<1>1. /\ event = Idle /\ event' = [fd |-> fd, ptr |-> 0] /\ fault' = "none"
      /\ UNCHANGED <<accounts, list, sess, refs, freed, lock, todo, req, ptr, new>>
  BY Zenon DEF Close, table
<1>2. event.ptr = 0 /\ event'.ptr = 0 /\ event' \in [fd : Fds \cup {0}, ptr : Ids \cup {0}]
  BY <1>1 DEF Idle
<1>3. Proper(todo') /\ Phase(todo)' = Phase(todo)
  BY Zenon, <1>1 DEF Sound, Kinds
<1>4. Kinds'
  BY <1>1, <1>2, <1>3 DEF Sound, Kinds
<1>5. Table'
  BY Zenon, <1>1 DEF Sound, Table
<1>6. Locking'
  BY <1>1, <1>2, <1>3 DEF Sound, Locking
<1>7. Pointer'
  BY <1>1, <1>2, <1>3 DEF Sound, Pointer
<1>8. Counts'
  BY <1>1, <1>3 DEF Sound, Counts, Own, Owner
<1>9. Unique'
  BY Zenon, <1>1, UniqueFewer DEF Sound
<1>10. Cleared'
  BY Zenon, <1>1, ClearedFewer DEF Sound, Kinds
<1>11. QED
  BY Zenon, <1>1, <1>4, <1>5, <1>6, <1>7, <1>8, <1>9, <1>10 DEF Good, Sound

\* session_del_fd in the event thread, the lock free: what a handler found
\* without the lock may be what is unlinked.
LEMMA EventUnlinkOK ==
  ASSUME Sound, fault = "none", EventUnlink
  PROVE  Good
<1>1. /\ event.ptr = 0 /\ lock = "free" /\ fault' = "none"
      /\ UNCHANGED <<accounts, sess, refs, freed, todo, req, ptr, new>>
  BY Zenon DEF EventUnlink
<1>2. Proper(todo') /\ Phase(todo)' = Phase(todo)
  BY Zenon, <1>1 DEF Sound, Kinds
<1>3. CASE FdSessions(event.fd) = {}
  <2>1. event' = Idle /\ list' = list /\ lock' = lock
    BY Zenon, <1>3 DEF EventUnlink
  <2>2. event'.ptr = 0 /\ event' \in [fd : Fds \cup {0}, ptr : Ids \cup {0}]
    BY <2>1 DEF Idle
  <2>3. Kinds'
    BY <1>1, <1>2, <2>1, <2>2 DEF Sound, Kinds
  <2>4. Table'
    BY Zenon, <1>1, <2>1 DEF Sound, Table
  <2>5. Locking'
    BY <1>1, <1>2, <2>1, <2>2 DEF Sound, Locking
  <2>6. Pointer'
    BY <1>1, <1>2, <2>1, <2>2 DEF Sound, Pointer
  <2>7. Counts'
    BY <1>1, <1>2, <2>1 DEF Sound, Counts, Own, Owner
  <2>8. Unique'
    BY Zenon, <1>1, <2>1, UniqueFewer DEF Sound
  <2>9. Cleared'
    BY Zenon, <1>1, <2>1, ClearedFewer DEF Sound, Kinds
  <2>10. QED
    BY Zenon, <1>1, <2>3, <2>4, <2>5, <2>6, <2>7, <2>8, <2>9 DEF Good, Sound
<1>4. CASE FdSessions(event.fd) # {}
  <2>1. PICK i \in FdSessions(event.fd) :
          list' = list \ {i} /\ event' = [event EXCEPT !.ptr = i] /\ lock' = "event"
    BY Zenon, <1>4 DEF EventUnlink
  <2>2. i \in list /\ sess[i].kind = "fd"
    BY Zenon, <2>1 DEF FdSessions
  <2>3. i \in Ids /\ i # 0 /\ i \notin freed /\ sess[i] # NoSession
    BY <2>2 DEF Sound, Kinds, Table, Ids, NoSession
  <2>4. event'.ptr = i /\ event' \in [fd : Fds \cup {0}, ptr : Ids \cup {0}]
    BY <2>1, <2>3 DEF Sound, Kinds
  <2>5. list' \subseteq list /\ \A j \in list' : sess'[j] = sess[j]
    BY <1>1, <2>1
  <2>6. Kinds'
    BY <1>1, <1>2, <2>1, <2>4 DEF Sound, Kinds
  <2>7. Table'
    BY <1>1, <2>1 DEF Sound, Table
  <2>8. Locking'
    BY <1>1, <1>2, <2>1, <2>3, <2>4 DEF Sound, Locking
  <2>9. Pointer'
    BY <1>1, <1>2, <2>1, <2>2, <2>4 DEF Sound, Pointer, Locking
  <2>10. Counts'
    BY <1>1, <1>2, <2>1 DEF Sound, Counts, Own, Owner
  <2>11. Unique'
    BY Zenon, <2>5, UniqueFewer DEF Sound
  <2>12. Cleared'
    BY Zenon, <1>1, <2>5, ClearedFewer DEF Sound, Kinds
  <2>13. QED
    BY Zenon, <1>1, <2>6, <2>7, <2>8, <2>9, <2>10, <2>11, <2>12 DEF Good, Sound
<1>5. QED
  BY Zenon, <1>3, <1>4

\* pref_release returns in the event thread: no handler has a reference.
LEMMA EventReleaseOK ==
  ASSUME Sound, fault = "none", EventRelease
  PROVE  Good
<1>0. lock' = "free" /\ fault' = "none" /\ UNCHANGED <<accounts, list, sess, refs, todo, req, ptr, new>>
  BY Zenon DEF EventRelease
<1>1. event.ptr # 0 /\ refs[event.ptr] = 0 /\ freed' = freed \cup {event.ptr} /\ event' = Idle
  BY Zenon DEF EventRelease
<1>2. event.ptr \in Ids /\ event.ptr \notin list \cup freed /\ sess[event.ptr] # NoSession /\ lock = "event"
  BY <1>1 DEF Sound, Kinds, Locking
<1>3. event'.ptr = 0 /\ event' \in [fd : Fds \cup {0}, ptr : Ids \cup {0}]
  BY <1>1 DEF Idle
<1>4. Proper(todo') /\ Phase(todo)' = Phase(todo)
  BY Zenon, <1>0 DEF Sound, Kinds
<1>5. Phase(todo) = "counted" => ptr # event.ptr
  <2>1. SUFFICES ASSUME Phase(todo) = "counted", ptr = event.ptr PROVE FALSE
    OBVIOUS
  <2>2. Own(ptr) = 1
    BY <2>1 DEF Own, Owner
  <2>3. 1 <= refs[ptr]
    BY <1>2, <2>1, <2>2 DEF Sound, Counts
  <2>4. QED
    BY <1>1, <2>1, <2>3
<1>6. Kinds'
  <2>1. freed' \subseteq Ids
    BY <1>1, <1>2 DEF Sound, Kinds
  <2>2. QED
    BY <1>0, <1>3, <1>4, <2>1 DEF Sound, Kinds
<1>7. Table'
  BY <1>0, <1>1, <1>2 DEF Sound, Table
<1>8. Locking'
  <2>1. lock' # "event" /\ lock' # "handler" /\ event'.ptr = 0
    BY <1>0, <1>3
  <2>2. Phase(todo)' \notin {"token_locked", "held", "unlinked"}
    BY <1>2, <1>4 DEF Sound, Locking
  <2>3. QED
    BY <1>0, <1>4, <2>1, <2>2 DEF Sound, Locking
<1>9. Pointer'
  BY <1>0, <1>1, <1>2, <1>3, <1>4, <1>5 DEF Sound, Pointer, Locking
<1>10. Counts'
  BY <1>0, <1>2, <1>4 DEF Sound, Counts, Own, Owner
<1>11. Unique'
  BY Zenon, <1>0, UniqueFewer DEF Sound
<1>12. Cleared'
  BY Zenon, <1>0, ClearedFewer DEF Sound, Kinds
<1>13. QED
  BY Zenon, <1>0, <1>6, <1>7, <1>8, <1>9, <1>10, <1>11, <1>12 DEF Good, Sound

-----------------------------------------------------------------------------
\* What is promised follows from what is kept.
LEMMA SoundEnough == fault = "none" /\ Sound => IInv
<1>1. SUFFICES ASSUME fault = "none", Sound PROVE IInv
  OBVIOUS
<1>2. refs \in [Ids -> 0 .. 2]
  <2>1. \A i \in Ids : refs[i] \in Nat /\ refs[i] <= 2
    BY <1>1 DEF Sound, Kinds, Counts, Own
  <2>2. \A i \in Ids : refs[i] \in 0 .. 2
    BY <2>1
  <2>3. QED
    BY <1>1, <2>2 DEF Sound, Kinds
<1>3. \A i \in list : sess[i] # NoSession
  BY <1>1 DEF Sound, Table, NoSession
<1>4. TypeOK
  BY <1>1, <1>2, <1>3 DEF Sound, Kinds, TypeOK
<1>5. HeldSessionStays
  BY <1>1 DEF Sound, Table, HeldSessionStays
<1>6. SessionsUnique
  BY <1>1 DEF Sound, Unique, SessionsUnique
<1>7. QED
  BY Zenon, <1>1, <1>4, <1>5, <1>6 DEF IInv

\* The same after a step.
LEMMA GoodEnough == Good => IInv'
<1>1. (fault = "none" /\ Sound => IInv)'
  BY SoundEnough, PTL
<1>2. QED
  BY Zenon, <1>1 DEF Good

\* After a failing assert, or a use of freed memory, the table is as it was.
LEMMA FaultedEnough ==
  ASSUME IInv, Faulted
  PROVE  IInv'
<1>1. TypeOK'
  BY DEF IInv, Faulted, TypeOK
<1>2. HeldSessionStays' /\ SessionsUnique'
  BY DEF IInv, Faulted, HeldSessionStays, SessionsUnique
<1>3. fault' # "none"
  BY DEF Faulted
<1>4. QED
  BY Zenon, <1>1, <1>2, <1>3 DEF IInv

\* The server starts without sessions.
LEMMA InitOK == Init => IInv
<1>1. SUFFICES ASSUME Init PROVE fault = "none" /\ Sound
  BY Zenon, SoundEnough
<1>2. /\ accounts = Accounts /\ list = {} /\ sess = [i \in Ids |-> NoSession] /\ refs = [i \in Ids |-> 0]
      /\ freed = {} /\ lock = "free" /\ todo = << >> /\ req = NoRequest /\ ptr = 0 /\ new = NoSession
      /\ event = Idle /\ fault = "none"
  BY Zenon, <1>1 DEF Init
<1>3. Phase(todo) = "done" /\ \A p \in Nat : Op(todo, p) = "return"
  BY Zenon, <1>2, DonePhase
<1>4. Proper(todo)
  BY Zenon, <1>2, Programs
<1>5. NoSession \in Sessions /\ event.ptr = 0 /\ event \in [fd : Fds \cup {0}, ptr : Ids \cup {0}]
  BY <1>2 DEF NoSession, Sessions, Idle
<1>6. Kinds
  BY <1>2, <1>4, <1>5, SessionAssumption DEF Kinds
<1>7. Table
  BY <1>2 DEF Table
<1>8. Locking
  BY <1>2, <1>3, <1>5 DEF Locking
<1>9. Pointer
  BY <1>3 DEF Pointer
<1>10. Counts
  BY <1>2, <1>3 DEF Counts, Own, Owner
<1>11. Unique
  BY <1>2 DEF Unique
<1>12. Cleared
  BY <1>3 DEF Cleared
<1>13. QED
  BY Zenon, <1>2, <1>6, <1>7, <1>8, <1>9, <1>10, <1>11, <1>12 DEF Sound

\* Every step of the handlers and of the event thread keeps the invariant.
LEMMA StepOK == IInv /\ [Next]_vars => IInv'
<1>1. SUFFICES ASSUME IInv, [Next]_vars PROVE IInv'
  OBVIOUS
<1>2. CASE Next
  <2>1. fault = "none" /\ Sound
    BY Zenon, <1>1, <1>2 DEF Next, IInv
  <2>2. ASSUME NEW q \in Requests, Begin(q) PROVE Good
    BY Zenon, <2>1, <2>2, BeginOK
  <2>3. ASSUME NEW fd \in Fds, Close(fd) PROVE Good
    BY Zenon, <2>1, <2>3, CloseOK
  <2>4. CASE End \/ FindSession \/ Lock \/ Copy \/ Dref \/ Release
    BY Zenon, <2>1, <2>4, EndOK, FindOK, LockOK, CopyOK, DrefOK, ReleaseOK, GoodEnough
  <2>5. CASE AddFd \/ AddToken \/ Delete \/ AccountDel \/ EventUnlink \/ EventRelease
    BY Zenon, <2>1, <2>5, AddFdOK, AddTokenOK, DeleteOK, AccountDelOK, EventUnlinkOK, EventReleaseOK, GoodEnough
  <2>6. CASE Get \/ Unlink \/ Account \/ Create
    <3>1. Good \/ Faulted
      BY Zenon, <2>1, <2>6, GetOK, UnlinkOK, AccountOK, CreateOK
    <3>2. QED
      BY Zenon, <1>1, <3>1, GoodEnough, FaultedEnough
  <2>7. QED
    BY Zenon, <1>2, <2>2, <2>3, <2>4, <2>5, <2>6, GoodEnough DEF Next, Handler
<1>3. CASE UNCHANGED vars
  <2>1. /\ accounts' = accounts /\ list' = list /\ sess' = sess /\ refs' = refs /\ freed' = freed /\ lock' = lock
        /\ todo' = todo /\ req' = req /\ ptr' = ptr /\ new' = new /\ event' = event /\ fault' = fault
    BY Zenon, <1>3 DEF vars
  <2>2. TypeOK' /\ HeldSessionStays' /\ SessionsUnique'
    <3>1. TypeOK'
      BY <1>1, <2>1 DEF IInv, TypeOK
    <3>2. HeldSessionStays' /\ SessionsUnique'
      BY <1>1, <2>1 DEF IInv, HeldSessionStays, SessionsUnique
    <3>3. QED
      BY Zenon, <3>1, <3>2
  <2>3. CASE fault = "none"
    <3>1. Sound
      BY Zenon, <1>1, <2>3 DEF IInv
    <3>2. Kinds' /\ Table' /\ Unique'
      <4>1. Proper(todo)'
        BY Zenon, <2>1, <3>1 DEF Sound, Kinds
      <4>2. Kinds'
        BY <2>1, <3>1, <4>1 DEF Sound, Kinds
      <4>3. Table'
        BY Zenon, <2>1, <3>1 DEF Sound, Table
      <4>4. QED
        BY Zenon, <2>1, <3>1, <4>2, <4>3, UniqueFewer DEF Sound
    <3>3. Phase(todo)' = Phase(todo)
      BY Zenon, <2>1
    <3>4. Locking' /\ Pointer'
      BY Zenon, <2>1, <3>1, <3>3 DEF Sound, Locking, Pointer
    <3>5. Counts'
      BY <2>1, <3>1, <3>3 DEF Sound, Counts, Own, Owner
    <3>6. Cleared'
      BY Zenon, <2>1, <3>1, ClearedFewer DEF Sound, Kinds
    <3>7. QED
      BY Zenon, <2>2, <3>2, <3>4, <3>5, <3>6 DEF IInv, Sound
  <2>4. CASE fault # "none"
    BY Zenon, <2>1, <2>2, <2>4 DEF IInv
  <2>5. QED
    BY Zenon, <2>3, <2>4
<1>4. QED
  BY Zenon, <1>1, <1>2, <1>3

\* The inductive invariant: while no assert has failed, the handler's program
\* is proper and the session it works on is where its phase says.
THEOREM Invariance == Spec => []IInv
BY InitOK, StepOK, PTL DEF Spec

\* Variables keep their kinds, and a session has at most two references: that
\* of the handler that runs, and one an earlier handler never gave back.
THEOREM TypeCorrect == Spec => []TypeOK
<1>1. IInv => TypeOK
  BY Zenon DEF IInv
<1>2. QED
  BY <1>1, Invariance, PTL

\* The session a handler holds is in the list until the handler gives it
\* back, so the assert of session_dref never fails, for any number of
\* sessions and whatever the event thread deletes meanwhile.
THEOREM HeldSessionsStay == Spec => []HeldSessionStays
<1>1. IInv => HeldSessionStays
  BY Zenon DEF IInv
<1>2. QED
  BY <1>1, Invariance, PTL

\* session_add is never called with a user or a descriptor that has a session
\* already, although a login looks the older one up, deletes it and adds the
\* new one with the lock taken anew each time.
THEOREM OneSessionEach == Spec => []SessionsUnique
<1>1. IInv => SessionsUnique
  BY Zenon DEF IInv
<1>2. QED
  BY <1>1, Invariance, PTL
=============================================================================
