---------------------------- MODULE IoSendProofs ----------------------------
(***************************************************************************)
(* Proofs about the send path, for any connections, descriptors and        *)
(* bodies: the table has one io for a descriptor, and no body waits in a   *)
(* queue that the send thread does not know of.                            *)
(***************************************************************************)
EXTENDS IoSend, FiniteSetTheorems, SequenceTheorems, TLAPS

Bodies == [from : Conns \cup {NoConn}, id : Nat]
Ios == [life : {"none", "listed", "freed"}, fd : Fds \cup {0}, queue : Seq(Bodies)]
Busy == {"next", "send", "closed"}

\* The kinds of what TypeOK leaves open, too.
Kinds ==
  /\ sock \in [Fds -> Conns \cup {NoConn}] /\ peer \in [Conns -> {"none", "up", "down"}]
  /\ io \in [Conns -> Ios]
  /\ loop \in [at : {"idle", "accepted", "closed"}, fd : Fds \cup {0}, conn : Conns \cup {NoConn}]
  /\ loop.at # "idle" => loop.fd \in Fds /\ loop.conn \in Conns
  /\ tasks \subseteq [fd : Fds, from : Conns, id : Nat]
  /\ sendq \in Seq(Conns)
  /\ snd \in [at : {"top", "get", "next", "send", "closed", "exit"}, io : Conns \cup {NoConn}, body : Bodies]
  /\ snd.at \in Busy => snd.io \in Conns
  /\ ids \in 0 .. MaxBodies /\ fault \in {"none", "io", "buffer"}

\* An io of the table has a descriptor of its own, and only it has bodies.
Single ==
  /\ \A c \in Conns : io[c].life = "listed" => io[c].fd \in Fds
  /\ \A c \in Conns : io[c].queue # << >> => io[c].life = "listed"
  /\ \A c, d \in Listed : io[c].fd = io[d].fd => c = d

\* The send thread knows of connection c: NoStrandedBody, io by io.
In(q, c) == \E i \in DOMAIN q : q[i] = c
Known(c) ==
  io[c].life = "listed" /\ io[c].queue # << >> =>
    In(sendq, c) \/ (snd.io = c /\ snd.at \in Busy) \/ fault # "none"

IInv == Kinds /\ Single /\ \A c \in Conns : Known(c)
-----------------------------------------------------------------------------
\* The invariant gives the checked properties.
LEMMA IInvTypeOK == IInv => TypeOK
BY DEF IInv, Kinds, Ios, Single, Listed, TypeOK

\* NoStrandedBody is Known of every io of the table.
LEMMA IInvNoStranded == IInv => NoStrandedBody
BY DEF IInv, Known, In, Busy, Listed, NoStrandedBody

\* Steps that leave the ios, the queues and the send thread alone.
LEMMA Frame ==
  ASSUME IInv, Kinds', UNCHANGED <<io, sendq, snd, fault>>
  PROVE  IInv'
<1>1. Single'
  BY DEF IInv, Single, Listed
<1>2. \A c \in Conns : Known(c)'
  BY DEF IInv, Known
<1>3. QED
  BY <1>1, <1>2 DEF IInv

\* The event loop and the callers of ep_io_destroy.
LEMMA LoopOK ==
  ASSUME IInv,
         \/ \E c \in Conns : Accept(c) \/ PeerLeaves(c)
         \/ \E f \in Fds : Read(f) \/ ReadFails(f)
         \/ Stop
  PROVE  IInv'
<1>0. Kinds
  BY Zenon DEF IInv
<1>1. ASSUME NEW c \in Conns, Accept(c) PROVE IInv'
  <2>1. Kinds'
    BY <1>0, <1>1 DEF Kinds, Accept
  <2>2. QED
    BY <1>1, <2>1, Frame DEF Accept
<1>2. ASSUME NEW c \in Conns, PeerLeaves(c) PROVE IInv'
  <2>1. Kinds'
    BY Zenon, <1>0, <1>2 DEF Kinds, PeerLeaves
  <2>2. QED
    BY <1>2, <2>1, Frame DEF PeerLeaves
<1>3. ASSUME NEW f \in Fds, Read(f) PROVE IInv'
  <2>1. sock[f] \in Conns /\ ids + 1 \in 0 .. MaxBodies /\ ids' = ids + 1
    BY <1>0, <1>3, SendAssumption DEF Kinds, Read
  <2>2. /\ tasks' \subseteq [fd : Fds, from : Conns, id : Nat]
        /\ sock' \in [Fds -> Conns \cup {NoConn}]
    BY <1>0, <1>3, <2>1, SendAssumption DEF Kinds, Read
  <2>3. loop' = loop \/ loop' = [at |-> "closed", fd |-> f, conn |-> sock[f]]
    BY Zenon, <1>3 DEF Read
  <2>4. UNCHANGED <<peer, io, sendq, snd, spent, out, stop, fault>>
    BY Zenon, <1>3 DEF Read
  <2>5. Kinds'
    BY <1>0, <2>1, <2>2, <2>3, <2>4 DEF Kinds
  <2>6. QED
    BY <2>4, <2>5, Frame
<1>4. ASSUME NEW f \in Fds, ReadFails(f) PROVE IInv'
  <2>1. Kinds'
    BY Zenon, <1>0, <1>4 DEF Kinds, ReadFails
  <2>2. QED
    BY Zenon, <1>4, <2>1, Frame DEF ReadFails
<1>5. CASE Stop
  <2>1. Kinds'
    BY Zenon, <1>0, <1>5 DEF Kinds, Stop
  <2>2. QED
    BY <1>5, <2>1, Frame DEF Stop
<1>6. QED
  BY <1>1, <1>2, <1>3, <1>4, <1>5

\* ep_io_add: a new io, if the table has none with the descriptor.
LEMMA OnAcceptOK ==
  ASSUME IInv, OnAccept
  PROVE  IInv'
<1>0. /\ Kinds /\ Single /\ loop.at = "accepted" /\ loop' = Idle
      /\ UNCHANGED <<sock, peer, tasks, sendq, snd, ids, spent, out, stop, fault>>
  BY Zenon DEF IInv, OnAccept
<1>a. << >> \in Seq(Bodies)
  BY EmptySeq
<1>1. PICK n \in Ios : n = [life |-> "listed", fd |-> loop.fd, queue |-> << >>]
  <2>1. loop.fd \in Fds
    BY <1>0 DEF Kinds
  <2>2. QED
    BY Zenon, <1>a, <2>1 DEF Ios
<1>2. io' = io \/ (Find(loop.fd) = {} /\ io' = [io EXCEPT ![loop.conn] = n])
  BY <1>1 DEF OnAccept
<1>3. io' \in [Conns -> Ios]
  BY Zenon, <1>0, <1>2 DEF Kinds
<1>4. Kinds'
  BY Zenon, <1>0, <1>3 DEF Kinds, Idle
<1>5. CASE io' = io
  BY <1>4, <1>5, <1>0, Frame
<1>6. CASE Find(loop.fd) = {} /\ io' = [io EXCEPT ![loop.conn] = n]
  <2>1. \A c \in Conns : io'[c] = IF c = loop.conn THEN n ELSE io[c]
    BY Zenon, <1>0, <1>6 DEF Kinds
  <2>2. n.life = "listed" /\ n.fd = loop.fd /\ n.queue = << >> /\ loop.fd \in Fds
    BY Zenon, <1>0, <1>1 DEF Kinds
  <2>3. \A c \in Conns : io[c].life = "listed" => io[c].fd # loop.fd
    BY Zenon, <1>6 DEF Find, Listed
  <2>4. Single'
    BY <1>0, <2>1, <2>2, <2>3 DEF Single, Listed
  <2>5. \A c \in Conns : Known(c)'
    BY Zenon, <1>0, <2>1, <2>2 DEF IInv, Known
  <2>6. QED
    BY Zenon, <1>4, <2>4, <2>5 DEF IInv
<1>7. QED
  BY <1>2, <1>5, <1>6

\* Ios that are freed leave the table with their bodies.
LEMMA FreedOK ==
  ASSUME IInv, NEW cs \in SUBSET Conns, Kinds',
         \A c \in cs : io'[c].life = "freed" /\ io'[c].queue = << >>,
         \A c \in Conns \ cs : io'[c] = io[c],
         UNCHANGED <<sendq, snd>>, fault = "none"
  PROVE  IInv'
<1>0. Kinds /\ Single /\ \A c \in Conns : Known(c)
  BY Zenon DEF IInv
<1>1. \A c \in Conns :
        /\ c \in cs => io'[c].life = "freed" /\ io'[c].queue = << >>
        /\ c \notin cs => io'[c] = io[c]
  BY Zenon
<1>2. Single'
  <2>1. \A c \in Conns : io'[c].life = "listed" => c \notin cs /\ io'[c] = io[c]
    BY Zenon, <1>1
  <2>2. \A c \in Conns : io'[c].life = "listed" => io'[c].fd \in Fds
    BY Zenon, <1>0, <2>1 DEF Single
  <2>3. \A c \in Conns : io'[c].queue # << >> => io'[c].life = "listed"
    BY Zenon, <1>0, <1>1 DEF Single
  <2>4. \A c, d \in Conns :
          io'[c].life = "listed" /\ io'[d].life = "listed" /\ io'[c].fd = io'[d].fd => c = d
    <3>1. \A c, d \in Conns :
            io[c].life = "listed" /\ io[d].life = "listed" /\ io[c].fd = io[d].fd => c = d
      BY Zenon, <1>0 DEF Single, Listed
    <3>2. QED
      BY Zenon, <2>1, <3>1
  <2>5. QED
    BY Zenon, <2>2, <2>3, <2>4 DEF Single, Listed
<1>3. \A c \in Conns : Known(c)'
  BY Zenon, <1>0, <1>1 DEF Known
<1>4. QED
  BY Zenon, <1>2, <1>3 DEF IInv

\* An io that ep_io_del freed.
LEMMA FreedIo ==
  ASSUME NEW x \in Ios
  PROVE  LET y == [x EXCEPT !.life = "freed", !.queue = << >>]
         IN  y \in Ios /\ y.life = "freed" /\ y.queue = << >>
<1>1. << >> \in Seq(Bodies)
  BY Zenon, EmptySeq
<1>2. QED
  BY Zenon, <1>1 DEF Ios

\* What ep_io_del leaves is an io.
LEMMA DelIsIo ==
  ASSUME Kinds, NEW cs \in SUBSET Conns,
         io' = [c \in Conns |-> IF c \in cs THEN [io[c] EXCEPT !.life = "freed", !.queue = << >>]
                                ELSE io[c]]
  PROVE  /\ io' \in [Conns -> Ios]
         /\ \A c \in cs : io'[c].life = "freed" /\ io'[c].queue = << >>
         /\ \A c \in Conns \ cs : io'[c] = io[c]
<1>1. io \in [Conns -> Ios]
  BY Zenon DEF Kinds
<1>2. ASSUME NEW c \in cs
      PROVE  /\ io'[c] = [io[c] EXCEPT !.life = "freed", !.queue = << >>]
             /\ io'[c] \in Ios /\ io'[c].life = "freed" /\ io'[c].queue = << >>
  <2>1. io[c] \in Ios
    BY Zenon, <1>1
  <2>2. io'[c] = [io[c] EXCEPT !.life = "freed", !.queue = << >>]
    BY Zenon
  <2>3. QED
    BY Zenon, <2>1, <2>2, FreedIo
<1>3. \A c \in Conns \ cs : io'[c] = io[c] /\ io'[c] \in Ios
  BY Zenon, <1>1
<1>4. io' = [c \in Conns |-> io'[c]]
  BY Zenon
<1>5. QED
  BY Zenon, <1>2, <1>3, <1>4

\* ep_service_on_close, and the end of ep_io_destroy.
LEMMA OnCloseOK ==
  ASSUME IInv, OnClose, fault = "none"
  PROVE  IInv'
<1>1. Kinds /\ Find(loop.fd) \in SUBSET Conns
  BY DEF IInv, Find, Listed
<1>2. /\ io' \in [Conns -> Ios]
      /\ \A c \in Find(loop.fd) : io'[c].life = "freed" /\ io'[c].queue = << >>
      /\ \A c \in Conns \ Find(loop.fd) : io'[c] = io[c]
  BY Zenon, <1>1, DelIsIo DEF OnClose, Del
<1>3. Kinds'
  BY Zenon, <1>1, <1>2 DEF Kinds, OnClose, Idle
<1>4. QED
  BY Zenon, <1>1, <1>2, <1>3, FreedOK DEF OnClose, Del

\* Every io is freed by ep_io_destroy.
LEMMA FreeAllOK ==
  ASSUME IInv, FreeAll, fault = "none"
  PROVE  IInv'
<1>1. Kinds /\ Listed \in SUBSET Conns
  BY DEF IInv, Listed
<1>2. /\ io' \in [Conns -> Ios]
      /\ \A c \in Listed : io'[c].life = "freed" /\ io'[c].queue = << >>
      /\ \A c \in Conns \ Listed : io'[c] = io[c]
  BY Zenon, <1>1, DelIsIo DEF FreeAll
<1>3. Kinds'
  BY Zenon, <1>1, <1>2 DEF Kinds, FreeAll
<1>4. QED
  BY Zenon, <1>1, <1>2, <1>3, FreedOK DEF FreeAll
-----------------------------------------------------------------------------
\* A body goes to ios of the table, and each of them to the send thread.
LEMMA PushOK ==
  ASSUME IInv, NEW cs, cs \subseteq Listed, NEW b \in Bodies, Push(cs, b), UNCHANGED <<snd, fault>>
  PROVE  /\ io' \in [Conns -> Ios] /\ sendq' \in Seq(Conns)
         /\ Single' /\ \A c \in Conns : Known(c)'
<1>0. Kinds /\ Single /\ cs \subseteq Conns /\ \A c \in Conns : Known(c)
  BY Zenon DEF IInv, Listed
<1>1. Cardinality(cs) \in Nat
  BY <1>0, SendAssumption, FS_Subset, FS_CardinalityType
<1>2. PICK order \in [1 .. Cardinality(cs) -> cs] :
        /\ \A c \in cs : \E i \in DOMAIN order : order[i] = c
        /\ sendq' = sendq \o order
  BY Zenon DEF Push
<1>3. order \in Seq(Conns)
  <2>1. order \in [1 .. Cardinality(cs) -> Conns]
    BY Zenon, <1>0
  <2>2. QED
    BY <1>1, <2>1
<1>4. /\ sendq' \in Seq(Conns) /\ Len(sendq') = Len(sendq) + Len(order)
      /\ \A i \in 1 .. Len(sendq) + Len(order) :
           sendq'[i] = IF i <= Len(sendq) THEN sendq[i] ELSE order[i - Len(sendq)]
  BY <1>0, <1>2, <1>3, ConcatProperties DEF Kinds
<1>5. /\ Len(sendq) \in Nat /\ Len(order) \in Nat
      /\ DOMAIN sendq = 1 .. Len(sendq) /\ DOMAIN order = 1 .. Len(order)
      /\ DOMAIN sendq' = 1 .. Len(sendq')
  BY <1>0, <1>3, <1>4 DEF Kinds
<1>6. ASSUME NEW c, In(sendq, c) \/ c \in cs PROVE In(sendq', c)
  <2>1. CASE In(sendq, c)
    <3>1. PICK i \in 1 .. Len(sendq) : sendq[i] = c
      BY Zenon, <2>1, <1>5 DEF In
    <3>2. i \in 1 .. Len(sendq') /\ sendq'[i] = c
      BY <3>1, <1>4, <1>5
    <3>3. QED
      BY Zenon, <3>2, <1>5 DEF In
  <2>2. CASE c \in cs
    <3>1. PICK i \in 1 .. Len(order) : order[i] = c
      BY Zenon, <2>2, <1>2, <1>5
    <3>2. PICK j : j = Len(sendq) + i
      BY Zenon
    <3>3. j \in 1 .. Len(sendq) + Len(order) /\ ~(j <= Len(sendq)) /\ j - Len(sendq) = i
      BY <3>1, <3>2, <1>5
    <3>4. j \in 1 .. Len(sendq') /\ sendq'[j] = c
      BY Zenon, <3>1, <3>3, <1>4
    <3>5. QED
      BY Zenon, <3>4, <1>5 DEF In
  <2>3. QED
    BY Zenon, <1>6, <2>1, <2>2
<1>7. ASSUME NEW c \in cs
      PROVE  /\ [io[c] EXCEPT !.queue = Append(@, b)] \in Ios
             /\ [io[c] EXCEPT !.queue = Append(@, b)].life = io[c].life
             /\ [io[c] EXCEPT !.queue = Append(@, b)].fd = io[c].fd
  <2>1. io[c] \in Ios
    BY Zenon, <1>0 DEF Kinds
  <2>2. Append(io[c].queue, b) \in Seq(Bodies)
    BY <2>1 DEF Ios
  <2>3. QED
    BY Zenon, <2>1, <2>2 DEF Ios
<1>8. io' = [c \in Conns |-> IF c \in cs THEN [io[c] EXCEPT !.queue = Append(@, b)] ELSE io[c]]
  BY DEF Push
<1>9. io' \in [Conns -> Ios]
  BY Zenon, <1>0, <1>7, <1>8 DEF Kinds
<1>10. \A c \in Conns : /\ io'[c].life = io[c].life /\ io'[c].fd = io[c].fd
                        /\ c \notin cs => io'[c].queue = io[c].queue
                        /\ c \in cs => io[c].life = "listed"
  BY Zenon, <1>0, <1>7, <1>8 DEF Listed
<1>11. Single'
  BY <1>0, <1>10 DEF Single, Listed
<1>12. ASSUME NEW c \in Conns PROVE Known(c)'
  BY Zenon, <1>0, <1>6, <1>10 DEF Known
<1>13. QED
  BY <1>4, <1>9, <1>11, <1>12

\* A pool thread pushes its answer.
LEMMA ProcessOK ==
  ASSUME IInv, NEW t \in tasks, Process(t)
  PROVE  IInv'
<1>0. /\ Kinds /\ tasks' = tasks \ {t} /\ Push(Find(t.fd), [from |-> t.from, id |-> t.id])
      /\ UNCHANGED <<sock, peer, loop, snd, ids, spent, out, stop, fault>>
  BY Zenon DEF IInv, Process
<1>1. Find(t.fd) \subseteq Listed /\ [from |-> t.from, id |-> t.id] \in Bodies
  BY <1>0 DEF Find, Kinds, Bodies
<1>2. PICK b \in Bodies : b = [from |-> t.from, id |-> t.id]
  BY <1>1
<1>3. Push(Find(t.fd), b)
  BY Zenon, <1>0, <1>2
<1>4. /\ io' \in [Conns -> Ios] /\ sendq' \in Seq(Conns)
      /\ Single' /\ \A c \in Conns : Known(c)'
  BY Zenon, <1>0, <1>1, <1>3, PushOK
<1>5. Kinds'
  BY Zenon, <1>0, <1>4 DEF Kinds
<1>6. QED
  BY Zenon, <1>4, <1>5 DEF IInv

\* A notification pushes one body to several ios.
LEMMA NotifyOK ==
  ASSUME IInv, NEW type \in 0 .. 2, NEW f \in Fds, Notify(type, f)
  PROVE  IInv'
<1>0. /\ Kinds /\ ids < MaxBodies /\ ids' = ids + 1
      /\ UNCHANGED <<sock, peer, loop, tasks, snd, spent, out, stop, fault>>
  BY DEF IInv, Notify
<1>1. PICK cs : cs \subseteq Listed /\ Push(cs, [from |-> NoConn, id |-> ids + 1])
  <2>1. CASE type = 0
    BY <2>1 DEF Notify
  <2>2. CASE type = 1
    BY <2>2 DEF Notify, Find
  <2>3. CASE type = 2
    BY <2>3 DEF Notify
  <2>4. QED
    BY <2>1, <2>2, <2>3
<1>2. ids + 1 \in 0 .. MaxBodies /\ ids + 1 \in Nat
  BY <1>0, SendAssumption DEF Kinds
<1>3. PICK b \in Bodies : b = [from |-> NoConn, id |-> ids + 1]
  BY Zenon, <1>2 DEF Bodies
<1>4. Push(cs, b)
  BY <1>1, <1>3
<1>5. /\ io' \in [Conns -> Ios] /\ sendq' \in Seq(Conns)
      /\ Single' /\ \A c \in Conns : Known(c)'
  BY Zenon, <1>0, <1>1, <1>4, PushOK
<1>6. Kinds'
  BY Zenon, <1>0, <1>2, <1>5 DEF Kinds
<1>7. QED
  BY <1>5, <1>6 DEF IInv
-----------------------------------------------------------------------------
\* The send thread moves on; what it is at is not forgotten unless it has
\* nothing to send.
LEMMA MoveOK ==
  ASSUME IInv, Kinds', UNCHANGED <<io, sendq>>, fault = "none",
         \A c \in Conns : snd.io = c /\ snd.at \in Busy =>
           \/ snd'.io = c /\ snd'.at \in Busy
           \/ io[c].life # "listed" \/ io[c].queue = << >>
           \/ fault' # "none"
  PROVE  IInv'
<1>1. Single'
  BY Zenon DEF IInv, Single, Listed
<1>2. ASSUME NEW c \in Conns PROVE Known(c)'
  <2>1. Known(c)
    BY Zenon DEF IInv
  <2>2. QED
    BY <2>1 DEF Known
<1>3. QED
  BY Zenon, <1>1, <1>2 DEF IInv

\* The look at abort.
LEMMA SendTopOK ==
  ASSUME IInv, SendTop, fault = "none"
  PROVE  IInv'
<1>1. Kinds /\ snd.at = "top" /\ snd' = [snd EXCEPT !.at = IF stop = "none" THEN "get" ELSE "exit"]
  BY Zenon DEF IInv, SendTop
<1>2. snd'.at \in {"get", "exit"} /\ snd'.io = snd.io /\ snd'.body = snd.body
  BY <1>1 DEF Kinds
<1>3. Kinds'
  BY Zenon, <1>1, <1>2 DEF SendTop, Kinds, Busy
<1>4. QED
  BY <1>1, <1>3, MoveOK DEF SendTop, Busy

\* The next io of the queue, or a stop.
LEMMA SendGetOK ==
  ASSUME IInv, SendGet, fault = "none"
  PROVE  IInv'
<1>0. /\ Kinds /\ snd.at = "get"
      /\ UNCHANGED <<sock, peer, io, loop, tasks, ids, spent, out, stop, fault>>
  BY Zenon DEF IInv, SendGet
<1>1. CASE sendq' = sendq /\ snd' = [snd EXCEPT !.at = "exit"]
  <2>1. Kinds'
    BY Zenon, <1>0, <1>1 DEF Kinds, Busy
  <2>2. QED
    BY <1>0, <1>1, <2>1, MoveOK DEF Busy
<1>2. CASE sendq # << >> /\ snd' = [snd EXCEPT !.at = "next", !.io = Head(sendq)] /\ sendq' = Tail(sendq)
  <2>1. sendq \in Seq(Conns)
    BY Zenon, <1>0 DEF Kinds
  <2>2. /\ Head(sendq) \in Conns /\ Head(sendq) = sendq[1] /\ sendq' \in Seq(Conns)
        /\ Len(sendq') = Len(sendq) - 1
        /\ \A i \in 1 .. Len(sendq') : sendq'[i] = sendq[i + 1]
    BY <1>2, <2>1, HeadTailProperties
  <2>3. /\ Len(sendq) \in Nat /\ DOMAIN sendq = 1 .. Len(sendq) /\ DOMAIN sendq' = 1 .. Len(sendq')
    BY <2>1, <2>2
  <2>4. ASSUME NEW c, In(sendq, c), c # Head(sendq) PROVE In(sendq', c)
    <3>1. PICK i \in 1 .. Len(sendq) : sendq[i] = c
      BY Zenon, <2>3, <2>4 DEF In
    <3>2. i # 1
      BY Zenon, <3>1, <2>2, <2>4
    <3>3. i - 1 \in 1 .. Len(sendq') /\ sendq'[i - 1] = c
      BY <3>1, <3>2, <2>2, <2>3
    <3>4. QED
      BY Zenon, <3>3, <2>3 DEF In
  <2>5. snd'.at = "next" /\ snd'.io = Head(sendq) /\ snd'.body = snd.body
    BY Zenon, <1>0, <1>2 DEF Kinds
  <2>6. snd' \in [at : {"top", "get", "next", "send", "closed", "exit"}, io : Conns \cup {NoConn}, body : Bodies]
    BY Zenon, <1>0, <1>2, <2>2 DEF Kinds
  <2>7. Kinds'
    BY Zenon, <1>0, <2>2, <2>5, <2>6 DEF Kinds
  <2>8. Single'
    BY Zenon, <1>0 DEF IInv, Single, Listed
  <2>9. ASSUME NEW c \in Conns PROVE Known(c)'
    <3>1. Known(c)
      BY Zenon DEF IInv
    <3>2. QED
      BY <1>0, <2>4, <2>5, <3>1 DEF Known, Busy
  <2>10. QED
    BY Zenon, <2>7, <2>8, <2>9 DEF IInv
<1>3. QED
  BY Zenon, <1>1, <1>2 DEF SendGet

\* The next body of the io with the descriptor; none is left behind when the
\* thread turns away.
LEMMA SendNextOK ==
  ASSUME IInv, SendNext, fault = "none"
  PROVE  IInv'
<1>0. /\ Kinds /\ Single /\ snd.at = "next"
      /\ UNCHANGED <<sock, peer, loop, tasks, sendq, ids, out, stop>>
  BY Zenon DEF IInv, SendNext
<1>1. PICK c \in Conns : c = snd.io
  BY <1>0 DEF Kinds, Busy
<1>2. PICK found : found = Find(io[c].fd)
  OBVIOUS
<1>3. /\ found \subseteq Listed /\ found \subseteq Conns
      /\ io[c].life = "listed" => c \in found
      /\ \A d, e \in found : d = e
  BY <1>0, <1>1, <1>2 DEF Find, Listed, Single
<1>4. CASE fault' = "io" /\ UNCHANGED <<snd, io, spent>>
  <2>1. Kinds'
    BY Zenon, <1>0, <1>4 DEF Kinds
  <2>2. QED
    BY Zenon, <1>0, <1>4, <2>1, MoveOK
<1>5. CASE /\ \A d \in found : io[d].queue = << >>
           /\ snd' = [snd EXCEPT !.at = "top", !.body = NoBody] /\ UNCHANGED <<io, spent, fault>>
  <2>1. NoBody \in Bodies
    BY Zenon DEF NoBody, Bodies
  <2>2. Kinds'
    BY Zenon, <1>0, <1>5, <2>1 DEF Kinds, Busy
  <2>3. \A e \in Conns : snd.io = e => io[e].life # "listed" \/ io[e].queue = << >>
    BY <1>1, <1>3, <1>5
  <2>4. QED
    BY <1>0, <1>5, <2>2, <2>3, MoveOK
<1>6. ASSUME ~(\A d \in found : io[d].queue = << >>), NEW d \in found,
             io' = [io EXCEPT ![d].queue = Tail(@)],
             \/ fault' = "buffer" /\ UNCHANGED snd
             \/ snd' = [snd EXCEPT !.at = "send", !.body = Head(io[d].queue)] /\ fault' = fault
      PROVE  IInv'
  <2>1. io[d].queue # << >> /\ d \in Conns /\ io[d] \in Ios
    BY Zenon, <1>0, <1>3, <1>6 DEF Kinds
  <2>2. Head(io[d].queue) \in Bodies /\ Tail(io[d].queue) \in Seq(Bodies)
    BY Zenon, <2>1, HeadTailProperties DEF Ios
  <2>3. /\ io' \in [Conns -> Ios]
        /\ io'[d].life = io[d].life /\ io'[d].fd = io[d].fd
        /\ \A e \in Conns : e # d => io'[e] = io[e]
    <3>1. [io[d] EXCEPT !.queue = Tail(@)] \in Ios
      BY Zenon, <2>1, <2>2 DEF Ios
    <3>2. /\ [io[d] EXCEPT !.queue = Tail(@)].life = io[d].life
          /\ [io[d] EXCEPT !.queue = Tail(@)].fd = io[d].fd
      BY <2>1 DEF Ios
    <3>3. io' = [io EXCEPT ![d] = [io[d] EXCEPT !.queue = Tail(@)]]
      BY <1>6
    <3>4. QED
      BY Zenon, <1>0, <2>1, <3>1, <3>2, <3>3 DEF Kinds
  <2>4. /\ snd' \in [at : {"top", "get", "next", "send", "closed", "exit"},
                     io : Conns \cup {NoConn}, body : Bodies]
        /\ snd'.io = c /\ snd'.at \in Busy
    BY Zenon, <1>0, <1>1, <1>6, <2>2 DEF Kinds, Busy
  <2>5. Kinds'
    BY Zenon, <1>0, <1>1, <1>6, <2>3, <2>4 DEF Kinds
  <2>6. \A e \in Conns : io'[e].life = io[e].life /\ io'[e].fd = io[e].fd
    BY Zenon, <2>3
  <2>7. \A e \in Conns : io'[e].queue # << >> => io[e].life = "listed" /\ io[e].queue # << >>
    BY Zenon, <1>0, <2>1, <2>3 DEF Single
  <2>8. Single'
    BY <1>0, <2>6, <2>7 DEF Single, Listed
  <2>9. ASSUME NEW e \in Conns PROVE Known(e)'
    <3>1. Known(e)
      BY Zenon DEF IInv
    <3>2. QED
      BY Zenon, <1>0, <1>1, <2>4, <2>6, <2>7, <3>1 DEF Known
  <2>10. QED
    BY <2>5, <2>8, <2>9 DEF IInv
<1>7. QED
  BY Zenon, <1>1, <1>2, <1>4, <1>5, <1>6 DEF SendNext

\* The write, and its failure.
LEMMA SendWriteOK ==
  ASSUME IInv, SendWrite \/ SendFails, fault = "none"
  PROVE  IInv'
<1>0. /\ Kinds /\ snd.at = "send" /\ UNCHANGED <<peer, io, loop, tasks, sendq, ids, spent, stop>>
  BY Zenon DEF IInv, SendWrite, SendFails
<1>1. /\ snd' = snd \/ snd' = [snd EXCEPT !.at = "next"] \/ snd' = [snd EXCEPT !.at = "closed"]
      /\ fault' \in {"io", fault}
  BY DEF SendWrite, SendFails
<1>2. sock' \in [Fds -> Conns \cup {NoConn}]
  BY <1>0 DEF SendWrite, SendFails, Kinds
<1>3. snd'.io = snd.io /\ snd'.at \in Busy
  BY <1>0, <1>1 DEF Kinds, Busy
<1>4. Kinds'
  BY <1>0, <1>1, <1>2, <1>3 DEF Kinds, Busy
<1>5. QED
  BY Zenon, <1>0, <1>3, <1>4, MoveOK

\* The send thread deletes the io it is at, and then uses it.
LEMMA SendOnCloseOK ==
  ASSUME IInv, SendOnClose, fault = "none"
  PROVE  IInv'
<1>1. Kinds /\ Find(io[snd.io].fd) \in SUBSET Conns
  BY Zenon DEF IInv, Find, Listed
<1>2. /\ io' \in [Conns -> Ios]
      /\ \A c \in Find(io[snd.io].fd) : io'[c].life = "freed" /\ io'[c].queue = << >>
      /\ \A c \in Conns \ Find(io[snd.io].fd) : io'[c] = io[c]
  BY Zenon, <1>1, DelIsIo DEF SendOnClose, Del
<1>3. Kinds'
  BY Zenon, <1>1, <1>2 DEF Kinds, SendOnClose
<1>4. QED
  BY Zenon, <1>1, <1>2, <1>3, FreedOK DEF SendOnClose, Del
-----------------------------------------------------------------------------
\* An empty table.
LEMMA InitOK == Init => IInv
<1>1. SUFFICES ASSUME Init PROVE IInv
  OBVIOUS
<1>2. << >> \in Seq(Bodies) /\ << >> \in Seq(Conns) /\ NoBody \in Bodies
  BY EmptySeq DEF NoBody, Bodies
<1>3. Kinds
  BY <1>1, <1>2, SendAssumption DEF Init, Kinds, Ios, Idle, Busy
<1>4. Single /\ \A c \in Conns : Known(c)
  BY Zenon, <1>1 DEF Init, Single, Listed, Known
<1>5. QED
  BY <1>3, <1>4 DEF IInv

\* Every step keeps the invariant.
LEMMA StepOK == IInv /\ [Next]_vars => IInv'
<1>1. SUFFICES ASSUME IInv, [Next]_vars PROVE IInv'
  BY Zenon
<1>2. CASE UNCHANGED vars
  <2>1. Kinds'
    BY Zenon, <1>1, <1>2 DEF IInv, Kinds, vars
  <2>2. QED
    BY <1>1, <1>2, <2>1, Frame DEF vars
<1>3. CASE Next
  <2>1. fault = "none"
    BY Zenon, <1>3 DEF Next
  <2>2. ASSUME NEW t \in tasks, Process(t) PROVE IInv'
    BY <1>1, <2>2, ProcessOK
  <2>3. ASSUME NEW type \in 0 .. 2, NEW f \in Fds, Notify(type, f) PROVE IInv'
    BY <1>1, <2>3, NotifyOK
  <2>4. CASE SendStep
    BY Zenon, <1>1, <2>1, <2>4, SendTopOK, SendGetOK, SendNextOK, SendWriteOK, SendOnCloseOK DEF SendStep
  <2>5. QED
    BY <1>1, <1>3, <2>1, <2>2, <2>3, <2>4, LoopOK, OnAcceptOK, OnCloseOK, FreeAllOK DEF Next
<1>4. QED
  BY <1>1, <1>2, <1>3

\* The inductive invariant holds in every state.
THEOREM Invariance == Spec => []IInv
BY InitOK, StepOK, PTL DEF Spec

\* Variables keep their kinds, and the table never has two ios for one
\* descriptor, for any number of connections and descriptors
\* (ep_io_add, ep_io.c:552-597).
THEOREM TypeCorrect == Spec => []TypeOK
BY Invariance, IInvTypeOK, PTL

\* An io with bodies is known to the send thread, however pushes, deletions
\* and reused descriptors interleave with it (ep_io_routine).
THEOREM NoBodyIsStranded == Spec => []NoStrandedBody
BY Invariance, IInvNoStranded, PTL
=============================================================================
