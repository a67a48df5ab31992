------------------------------- MODULE IoSend -------------------------------
(***************************************************************************)
(* The send path of the server and the life of a connection: the io table  *)
(* and the send thread of eventpack/src/ep_io.c with the event loop of     *)
(* ep_socket.c and the callbacks of ep_service.c.                          *)
(*                                                                         *)
(* An ep_io_t is named by the connection it was made for; a file           *)
(* descriptor is a number the kernel hands out again after close.  What    *)
(* is done under the manager's mutex is one step.  A use of a freed io or  *)
(* buffer sets fault, and the model goes no further.                       *)
(***************************************************************************)
EXTENDS Integers, Sequences, FiniteSets

CONSTANTS
  Conns,      \* connections that clients make
  Fds,        \* numbers of file descriptors
  NoConn,
  MaxBodies,  \* bound: how many bodies are pushed to send queues
  Notifies    \* whether ep_service_push is used

ASSUME SendAssumption ==
  /\ IsFiniteSet(Conns) /\ NoConn \notin Conns
  /\ MaxBodies \in Nat /\ Notifies \in BOOLEAN

VARIABLES
  sock,    \* the connection behind each descriptor, NoConn if it is closed
  peer,    \* of each connection: none, up, or down (the client left)
  io,      \* its ep_io_t: [life, fd, queue], life none, listed or freed
  loop,    \* the event loop: [at, fd, conn], at idle, accepted, closed
  tasks,   \* requests in the hands of the pool: [fd, from, id]
  sendq,   \* io_mgr->send.queue, of pointers to ios
  snd,     \* the send thread: [at, io, body]
  ids,     \* how many requests and notifications there were
  spent,   \* buffers freed by ep_buffer_free_shell
  out,     \* what was written: [to, from, id]
  stop,    \* ep_io_destroy: none, stopping, joined, freed
  fault    \* none, io or buffer

vars == <<sock, peer, io, loop, tasks, sendq, snd, ids, spent, out, stop, fault>>
NoBody == [from |-> NoConn, id |-> 0]
Idle == [at |-> "idle", fd |-> 0, conn |-> NoConn]

Init ==
  /\ sock = [f \in Fds |-> NoConn] /\ peer = [c \in Conns |-> "none"]
  /\ io = [c \in Conns |-> [life |-> "none", fd |-> 0, queue |-> << >>]]
  /\ loop = Idle /\ tasks = {} /\ sendq = << >> /\ ids = 0 /\ spent = {} /\ out = << >>
  /\ snd = [at |-> "top", io |-> NoConn, body |-> NoBody]
  /\ stop = "none" /\ fault = "none"

\* ep_io_find: the io of the table with descriptor f.
Listed == {c \in Conns : io[c].life = "listed"}
Find(f) == {c \in Listed : io[c].fd = f}

\* Descriptors on which a read finds the end and a write may fail.
Broken == {f \in Fds : sock[f] \notin {c \in Conns : peer[c] = "up"}}

\* Mutant of Del: the queue is freed with its bodies in it.
DelKeepsQueue(f) ==
  io' = [c \in Conns |-> IF c \in Find(f) THEN [io[c] EXCEPT !.life = "freed"] ELSE io[c]]

\* ep_io_del(f): unlinked, its queue emptied, and freed.
Del(f) ==
  io' = [c \in Conns |-> IF c \in Find(f) THEN [io[c] EXCEPT !.life = "freed", !.queue = << >>]
                         ELSE io[c]]
-----------------------------------------------------------------------------
\* A client connects, and leaves.  aeAcceptTcpHandler gets the smallest free
\* descriptor and then calls ep_service_on_accept.
Accept(c) ==
  /\ loop = Idle /\ stop = "none" /\ peer[c] = "none"
  /\ \E f \in Fds :
       /\ sock[f] = NoConn /\ \A g \in Fds : g < f => sock[g] # NoConn
       /\ sock' = [sock EXCEPT ![f] = c]
       /\ loop' = [at |-> "accepted", fd |-> f, conn |-> c]
  /\ peer' = [peer EXCEPT ![c] = "up"]
  /\ UNCHANGED <<io, tasks, sendq, snd, ids, spent, out, stop, fault>>

\* ep_io_add: an io, unless the table still holds one with this descriptor.
OnAccept ==
  /\ loop.at = "accepted"
  /\ io' = IF Find(loop.fd) # {} THEN io
           ELSE [io EXCEPT ![loop.conn] = [life |-> "listed", fd |-> loop.fd, queue |-> << >>]]
  /\ loop' = Idle
  /\ UNCHANGED <<sock, peer, tasks, sendq, snd, ids, spent, out, stop, fault>>

PeerLeaves(c) ==
  /\ peer[c] = "up" /\ peer' = [peer EXCEPT ![c] = "down"]
  /\ UNCHANGED <<sock, io, loop, tasks, sendq, snd, ids, spent, out, stop, fault>>

\* aeReadFromClient with a complete request: dispatched to the pool, or -3
\* and aeClientClose when the table has no io for the descriptor.
Read(f) ==
  LET c == sock[f]
  IN  /\ loop = Idle /\ stop # "freed" /\ c # NoConn /\ peer[c] = "up" /\ ids < MaxBodies
      /\ ids' = ids + 1
      /\ IF Find(f) # {}
           THEN tasks' = tasks \cup {[fd |-> f, from |-> c, id |-> ids + 1]}
                /\ UNCHANGED <<sock, loop>>
           ELSE sock' = [sock EXCEPT ![f] = NoConn]
                /\ loop' = [at |-> "closed", fd |-> f, conn |-> c] /\ UNCHANGED tasks
      /\ UNCHANGED <<peer, io, sendq, snd, spent, out, stop, fault>>

\* The read fails: aeClientClose closes the descriptor, and then calls
\* ep_service_on_close, which deletes the io.
ReadFails(f) ==
  /\ loop = Idle /\ stop # "freed" /\ sock[f] # NoConn /\ f \in Broken
  /\ sock' = [sock EXCEPT ![f] = NoConn]
  /\ loop' = [at |-> "closed", fd |-> f, conn |-> sock[f]]
  /\ UNCHANGED <<peer, io, tasks, sendq, snd, ids, spent, out, stop, fault>>

OnClose ==
  /\ loop.at = "closed"
  /\ Del(loop.fd) /\ loop' = Idle
  /\ UNCHANGED <<sock, peer, tasks, sendq, snd, ids, spent, out, stop, fault>>
-----------------------------------------------------------------------------
\* Mutant of Push: a thread that has work is not told of more.
PushIfIdle(cs, body) ==
  /\ io' = [c \in Conns |-> IF c \in cs THEN [io[c] EXCEPT !.queue = Append(@, body)] ELSE io[c]]
  /\ \E order \in [1 .. Cardinality(cs) -> cs] :
       /\ \A c \in cs : \E i \in DOMAIN order : order[i] = c
       /\ sendq' = IF sendq = << >> THEN order ELSE sendq

\* body to the queue of every io of cs, and the ios to the send thread's.
Push(cs, body) ==
  /\ io' = [c \in Conns |-> IF c \in cs THEN [io[c] EXCEPT !.queue = Append(@, body)] ELSE io[c]]
  /\ \E order \in [1 .. Cardinality(cs) -> cs] :
       /\ \A c \in cs : \E i \in DOMAIN order : order[i] = c
       /\ sendq' = sendq \o order

\* A pool thread ends ep_io_processor: the answer goes to the io that has the
\* descriptor now, or is freed.
Process(t) ==
  /\ tasks' = tasks \ {t}
  /\ Push(Find(t.fd), [from |-> t.from, id |-> t.id])
  /\ UNCHANGED <<sock, peer, loop, snd, ids, spent, out, stop, fault>>

\* ep_service_push and ep_io_nodify_fd: one buffer for all, one or all but one.
Notify(type, fd) ==
  LET cs == CASE type = 0 -> Listed
              [] type = 1 -> Find(fd)
              [] type = 2 -> Listed \ Find(fd)
  IN  /\ Notifies /\ stop = "none" /\ ids < MaxBodies
      /\ ids' = ids + 1
      /\ Push(cs, [from |-> NoConn, id |-> ids + 1])
      /\ UNCHANGED <<sock, peer, loop, tasks, snd, spent, out, stop, fault>>
-----------------------------------------------------------------------------
\* ep_io_routine: the look at abort, and the wait for an io, which a stop
\* ends even if there is one.
SendTop ==
  /\ snd.at = "top"
  /\ snd' = [snd EXCEPT !.at = IF stop = "none" THEN "get" ELSE "exit"]
  /\ UNCHANGED <<sock, peer, io, loop, tasks, sendq, ids, spent, out, stop, fault>>

SendGet ==
  /\ snd.at = "get"
  /\ \/ /\ stop # "none"
        /\ snd' = [snd EXCEPT !.at = "exit"] /\ UNCHANGED sendq
     \/ /\ sendq # << >>
        /\ snd' = [snd EXCEPT !.at = "next", !.io = Head(sendq)]
        /\ sendq' = Tail(sendq)
  /\ UNCHANGED <<sock, peer, io, loop, tasks, ids, spent, out, stop, fault>>

\* Mutant of SendNext: an empty queue ends the thread, not only its inner loop.
SendNextLeaves ==
  LET c == snd.io  found == Find(io[c].fd)
  IN  /\ snd.at = "next"
      /\ IF io[c].life = "freed" THEN fault' = "io" /\ UNCHANGED <<snd, io, spent>>
         ELSE IF \A d \in found : io[d].queue = << >>
           THEN snd' = [snd EXCEPT !.at = "exit", !.body = NoBody] /\ UNCHANGED <<io, spent, fault>>
         ELSE \E d \in found :
                LET b == Head(io[d].queue)
                IN  /\ io' = [io EXCEPT ![d].queue = Tail(@)]
                    /\ IF b.id \in spent THEN fault' = "buffer" /\ UNCHANGED <<snd, spent>>
                       ELSE /\ snd' = [snd EXCEPT !.at = "send", !.body = b]
                            /\ spent' = spent \cup {b.id} /\ UNCHANGED fault
      /\ UNCHANGED <<sock, peer, loop, tasks, sendq, ids, out, stop>>

\* ep_io_get(io->fd, 0): the next body of whatever io now has io's descriptor.
\* ep_buffer_free_shell frees the buffer around the bytes.
SendNext ==
  LET c == snd.io  found == Find(io[c].fd)
  IN  /\ snd.at = "next"
      /\ IF io[c].life = "freed" THEN fault' = "io" /\ UNCHANGED <<snd, io, spent>>
         ELSE IF \A d \in found : io[d].queue = << >>
           THEN snd' = [snd EXCEPT !.at = "top", !.body = NoBody] /\ UNCHANGED <<io, spent, fault>>
         ELSE \E d \in found :
                LET b == Head(io[d].queue)
                IN  /\ io' = [io EXCEPT ![d].queue = Tail(@)]
                    /\ IF b.id \in spent THEN fault' = "buffer" /\ UNCHANGED <<snd, spent>>
                       ELSE /\ snd' = [snd EXCEPT !.at = "send", !.body = b]
                            /\ spent' = spent \cup {b.id} /\ UNCHANGED fault
      /\ UNCHANGED <<sock, peer, loop, tasks, sendq, ids, out, stop>>

\* service_core_send: the write works while there is a socket and a client,
\* and may work for a while after the client left.
SendWrite ==
  LET c == snd.io  f == io[c].fd
  IN  /\ snd.at = "send"
      /\ IF io[c].life = "freed" THEN fault' = "io" /\ UNCHANGED <<snd, out>>
         ELSE /\ sock[f] # NoConn
              /\ out' = Append(out, [to |-> sock[f], from |-> snd.body.from, id |-> snd.body.id])
              /\ snd' = [snd EXCEPT !.at = "next"] /\ UNCHANGED fault
      /\ UNCHANGED <<sock, peer, io, loop, tasks, sendq, ids, spent, stop>>

\* The write fails: aeClientClose, in this thread, closes the descriptor.
SendFails ==
  LET f == io[snd.io].fd
  IN  /\ snd.at = "send" /\ io[snd.io].life = "listed"
      /\ f \in Broken
      /\ sock' = [sock EXCEPT ![f] = NoConn]
      /\ snd' = [snd EXCEPT !.at = "closed"]
      /\ UNCHANGED <<peer, io, loop, tasks, sendq, ids, spent, out, stop, fault>>

\* Then it deletes the io; the loop of the send thread goes on to read the
\* descriptor out of it for send_err_cb.
SendOnClose ==
  /\ snd.at = "closed"
  /\ Del(io[snd.io].fd)
  /\ fault' = "io"
  /\ UNCHANGED <<sock, peer, loop, tasks, sendq, snd, ids, spent, out, stop>>
-----------------------------------------------------------------------------
\* ep_io_destroy: the send thread is stopped and joined, every io is freed,
\* and the pointers left in the send thread's queue are followed.
Stop ==
  /\ stop = "none" /\ stop' = "stopping"
  /\ UNCHANGED <<sock, peer, io, loop, tasks, sendq, snd, ids, spent, out, fault>>

FreeAll ==
  /\ stop = "stopping" /\ snd.at = "exit"
  /\ io' = [c \in Conns |-> IF c \in Listed THEN [io[c] EXCEPT !.life = "freed", !.queue = << >>]
                            ELSE io[c]]
  /\ stop' = "freed"
  /\ fault' = IF sendq # << >> THEN "io" ELSE fault
  /\ UNCHANGED <<sock, peer, loop, tasks, sendq, snd, ids, spent, out>>

SendStep == SendTop \/ SendGet \/ SendNext \/ SendWrite \/ SendFails \/ SendOnClose

Next ==
  /\ fault = "none"
  /\ \/ \E c \in Conns : Accept(c) \/ PeerLeaves(c)
     \/ \E f \in Fds : Read(f) \/ ReadFails(f)
     \/ OnAccept \/ OnClose
     \/ \E t \in tasks : Process(t)
     \/ \E type \in 0 .. 2, f \in Fds : Notify(type, f)
     \/ SendStep
     \/ Stop \/ FreeAll

\* The send thread runs, and write returns.
Fairness == WF_vars(fault = "none" /\ SendStep)

Spec == Init /\ [][Next]_vars /\ Fairness
-----------------------------------------------------------------------------
\* Variables hold values of their kinds, and the table never has two ios for
\* one descriptor, although descriptors are reused while their old ios wait to
\* be deleted (ep_io.c:552-597).
TypeOK ==
  /\ sock \in [Fds -> Conns \cup {NoConn}] /\ peer \in [Conns -> {"none", "up", "down"}]
  /\ \A c \in Conns : /\ io[c].life \in {"none", "listed", "freed"}
                      /\ io[c].life = "listed" => io[c].fd \in Fds
                      /\ io[c].queue # << >> => io[c].life = "listed"
  /\ loop.at \in {"idle", "accepted", "closed"}
  /\ sendq \in Seq(Conns) /\ snd.at \in {"top", "get", "next", "send", "closed", "exit"}
  /\ ids \in 0 .. MaxBodies /\ fault \in {"none", "io", "buffer"}
  /\ \A c, d \in Listed : io[c].fd = io[d].fd => c = d

\* No body is stranded: an io whose queue is not empty is in the send
\* thread's queue, or is the one the thread is at.
NoStrandedBody ==
  \A c \in Listed : io[c].queue # << >> =>
    \/ \E i \in DOMAIN sendq : sendq[i] = c
    \/ snd.io = c /\ snd.at \in {"next", "send", "closed"}
    \/ fault # "none"

\* What is queued is written, or the connection is given up, or the server
\* stops.
QueuedIsSent ==
  \A c \in Conns : io[c].queue # << >> ~> (io[c].queue = << >> \/ stop # "none" \/ fault # "none")
=============================================================================
