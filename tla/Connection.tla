----------------------------- MODULE Connection -----------------------------
(***************************************************************************)
(* The life of a connection: client_connect and client_disconnect of       *)
(* client/client.c over ep_client_start and ep_client_stop, with the       *)
(* receive thread (eventpack/src/ep_client.c), and the exchange of the key *)
(* (ep_cert.c) with the server's io table, in which a connection is known  *)
(* by a descriptor that is handed out again (ep_service.c, ep_io.c).       *)
(*                                                                         *)
(* A connection has a client of its own, with a main thread and a receive  *)
(* thread.  An assert that fails, or a use of the io manager after it was  *)
(* destroyed, ends the process: main[c] or server is "dead".               *)
(***************************************************************************)
EXTENDS Integers, FiniteSets

CONSTANTS
  Conns,   \* connections, numbered in the order in which they are made
  Fds,     \* the server's descriptors
  Keys,    \* keys that clients generate, a set for each connection
  NoConn,
  NoKey    \* the key of a new io: zeros

AllKeys == (UNION {Keys[c] : c \in Conns}) \cup {NoKey}

ASSUME ConnectionAssumption ==
  /\ Conns \cup Fds \subseteq Nat /\ NoConn \notin Conns
  /\ \A c \in Conns : NoKey \notin Keys[c]

VARIABLES
  main,    \* the client's main thread: where it is in start or stop
  thread,  \* its receive thread
  mgr,     \* client->io_mgr: none, listed (the descriptor is in its list), bare, gone
  fd,      \* client->fd: open, closed, or -1
  loop,    \* client->recv_loop
  ckey,    \* the client's key
  disc,    \* whether client->disc_cb is set
  told,    \* how often it was called
  reply,   \* the answer to the handshake, "none" before it comes
  link,    \* the connection: none, waiting to be accepted, open, or down
  sent,    \* handshakes on their way to the server
  down,    \* answers on their way to each client: the keys they are encrypted with
  server,  \* up or dead
  sock,    \* the connection of each descriptor of the server
  io,      \* its ep_io_t: the connection it was made for and the key
  tasks,   \* handshakes in the hands of the pool: [fd, from, key, at, with]
  stale    \* history: connections that got the key, or the answer, of an earlier one of
           \* their descriptor

cvars == <<main, thread, mgr, fd, loop, ckey, disc, told, reply>>
svars == <<server, sock, io, tasks, stale>>
vars == <<cvars, link, sent, down, svars>>

NoIo == [conn |-> NoConn, key |-> NoKey]

Init ==
  /\ main = [c \in Conns |-> "idle"] /\ thread = [c \in Conns |-> "none"]
  /\ mgr = [c \in Conns |-> "none"] /\ fd = [c \in Conns |-> "-1"]
  /\ loop = [c \in Conns |-> 0] /\ ckey = [c \in Conns |-> NoKey]
  /\ disc = [c \in Conns |-> FALSE] /\ told = [c \in Conns |-> 0] /\ reply = [c \in Conns |-> "none"]
  /\ link = [c \in Conns |-> "none"] /\ sent = {} /\ down = [c \in Conns |-> {}]
  /\ server = "up" /\ sock = [f \in Fds |-> NoConn] /\ io = [f \in Fds |-> NoIo]
  /\ tasks = {} /\ stale = {}

Main(c, from, to) == main[c] = from /\ main' = [main EXCEPT ![c] = to]
Thread(c, from, to) == thread[c] = from /\ thread' = [thread EXCEPT ![c] = to]

\* The memory of the client is gone.
Forget(c) ==
  /\ mgr' = [mgr EXCEPT ![c] = "gone"] /\ fd' = [fd EXCEPT ![c] = "-1"] /\ loop' = [loop EXCEPT ![c] = 0]
  /\ disc' = [disc EXCEPT ![c] = FALSE] /\ reply' = [reply EXCEPT ![c] = "none"]
  /\ ckey' = [ckey EXCEPT ![c] = NoKey] /\ told' = [told EXCEPT ![c] = 0]
  /\ down' = [down EXCEPT ![c] = {}] /\ stale' = stale \ {c}

\* The client's process ends: its sockets are closed.
Die(c) ==
  /\ main' = [main EXCEPT ![c] = "dead"] /\ thread' = [thread EXCEPT ![c] = "ended"]
  /\ link' = [link EXCEPT ![c] = "down"]
  /\ Forget(c) /\ UNCHANGED <<sent, server, sock, io, tasks>>
Alive(c) == main[c] # "dead"
-----------------------------------------------------------------------------
(* The client's main thread: ep_client_start.                              *)
\* Bound: a connection is made when the earlier ones are down, on the network.
InTurn(c) == \A d \in Conns : d < c => (link[d] = "down" \/ main[d] = "done")

\* connect fails.
Refused(c) ==
  /\ InTurn(c) /\ Main(c, "idle", "done")
  /\ UNCHANGED <<thread, mgr, fd, loop, ckey, disc, told, reply, link, sent, down, svars>>

\* connect, the managers, ep_io_add and pthread_create.
Start(c) ==
  /\ server = "up" /\ InTurn(c) /\ Main(c, "idle", "loop")
  /\ thread' = [thread EXCEPT ![c] = "new"] /\ mgr' = [mgr EXCEPT ![c] = "listed"]
  /\ fd' = [fd EXCEPT ![c] = "open"] /\ link' = [link EXCEPT ![c] = "waiting"]
  /\ UNCHANGED <<loop, ckey, disc, told, reply, sent, down, svars>>

\* while ((*client)->recv_loop != 1) usleep(100 * 1000)
Looped(c) ==
  /\ loop[c] = 1 /\ Main(c, "loop", "key")
  /\ UNCHANGED <<thread, mgr, fd, loop, ckey, disc, told, reply, link, sent, down, svars>>

\* ep_cert_gen_client_key and ep_io_update_aes, which asserts that the
\* descriptor is in the list.
GenKey(c) ==
  /\ main[c] = "key"
  /\ IF mgr[c] = "listed" /\ fd[c] = "open"
     THEN /\ Main(c, "key", "send") /\ \E k \in Keys[c] : ckey' = [ckey EXCEPT ![c] = k]
          /\ UNCHANGED <<thread, mgr, fd, loop, disc, told, reply, link, sent, down, svars>>
     ELSE Die(c)

\* ep_req_new: NULL, and an assert, when the receive thread has set fd to -1.
\* A send on a connection that is down may be refused, and then
\* ep_client_send_error_cb is given the io manager for the client.
SendKey(c) ==
  /\ main[c] = "send"
  /\ \/ /\ fd[c] = "open" /\ mgr[c] = "listed" /\ Main(c, "send", "wait")
        /\ sent' = IF link[c] = "down" THEN sent ELSE sent \cup {[from |-> c, key |-> ckey[c]]}
        /\ UNCHANGED <<thread, mgr, fd, loop, ckey, disc, told, reply, link, down, svars>>
     \/ (fd[c] # "open" \/ mgr[c] # "listed" \/ link[c] = "down") /\ Die(c)

\* ep_req_wait returns: the answer's result is 1, or it is not, or no answer
\* came in time.
Secured(c) ==
  /\ reply[c] = "ok" /\ Main(c, "wait", "event")
  /\ UNCHANGED <<thread, mgr, fd, loop, ckey, disc, told, reply, link, sent, down, svars>>
NotSecured(c) ==
  /\ reply[c] # "ok" /\ Main(c, "wait", "close")
  /\ UNCHANGED <<thread, mgr, fd, loop, ckey, disc, told, reply, link, sent, down, svars>>

\* client_connect, after ep_client_start has returned: ep_client_event.
Event(c) ==
  /\ Main(c, "event", "up") /\ disc' = [disc EXCEPT ![c] = TRUE]
  /\ UNCHANGED <<thread, mgr, fd, loop, ckey, told, reply, link, sent, down, svars>>
-----------------------------------------------------------------------------
(* ep_client_stop, for client_disconnect and for a start that failed.      *)
Disconnect(c) ==
  /\ Main(c, "up", "close")
  /\ UNCHANGED <<thread, mgr, fd, loop, ckey, disc, told, reply, link, sent, down, svars>>

\* Whether the connection ends with close, while recv is blocked in it, is up
\* to the system.
Close(c) ==
  /\ Main(c, "close", "destroy") /\ loop' = [loop EXCEPT ![c] = 0]
  /\ fd' = [fd EXCEPT ![c] = IF @ = "open" THEN "closed" ELSE @]
  /\ link' \in {[link EXCEPT ![c] = "down"]} \cup (IF thread[c] = "recv" THEN {link} ELSE {})
  /\ UNCHANGED <<thread, mgr, ckey, disc, told, reply, sent, down, svars>>

\* ep_io_stop, ep_io_del and ep_io_destroy.
Destroy(c) ==
  /\ Main(c, "destroy", "join") /\ mgr' = [mgr EXCEPT ![c] = "gone"]
  /\ UNCHANGED <<thread, fd, loop, ckey, disc, told, reply, link, sent, down, svars>>

\* pthread_join and ep_freep.
Join(c) ==
  /\ thread[c] = "ended" /\ Main(c, "join", "done") /\ Forget(c)
  /\ UNCHANGED <<thread, link, sent, server, sock, io, tasks>>
-----------------------------------------------------------------------------
(* The receive thread, ep_client_routine.                                  *)
\* Mutant of Begin: the loop is entered without the sign.
BeginSilent(c) ==
  /\ Alive(c) /\ Thread(c, "new", "recv")
  /\ UNCHANGED <<main, mgr, fd, loop, ckey, disc, told, reply, link, sent, down, svars>>

Begin(c) ==
  /\ Alive(c) /\ Thread(c, "new", "recv") /\ loop' = [loop EXCEPT ![c] = 1]
  /\ UNCHANGED <<main, mgr, fd, ckey, disc, told, reply, link, sent, down, svars>>

Decrypts(c, k) == ckey[c] = k

\* recv returns an answer; ep_io_enqueue refuses it, and an assert fails, when
\* the descriptor is not in the list.  With another key it is no answer to
\* the request, or fails an assert in ep_io_processor.
RecvAnswer(c) ==
  /\ Alive(c) /\ thread[c] = "recv"
  /\ \E k \in down[c] :
       \/ /\ mgr[c] = "listed"
          /\ down' = [down EXCEPT ![c] = @ \ {k}]
          /\ reply' = [reply EXCEPT ![c] =
               IF main[c] # "wait" THEN @ ELSE IF Decrypts(c, k) THEN "ok" ELSE "bad"]
          /\ thread' = [thread EXCEPT ![c] = IF loop[c] = 1 THEN "recv" ELSE "leave"]
          /\ UNCHANGED <<main, mgr, fd, loop, ckey, disc, told, link, sent, svars>>
       \/ (mgr[c] # "listed" \/ ~Decrypts(c, k)) /\ Die(c)

\* recv returns 0 or -1: the connection is down, or the descriptor was closed
\* and the system wakes the thread for it.
RecvEnd(c) ==
  /\ Alive(c) /\ (link[c] = "down" \/ fd[c] = "closed") /\ Thread(c, "recv", "leave")
  /\ UNCHANGED <<main, mgr, fd, loop, ckey, disc, told, reply, link, sent, down, svars>>

\* ep_io_del, on a manager that ep_client_stop may have destroyed; close.
Leave(c) ==
  /\ Alive(c) /\ thread[c] = "leave"
  /\ \/ /\ mgr[c] # "gone" /\ Thread(c, "leave", "report")
        /\ mgr' = [mgr EXCEPT ![c] = "bare"]
        /\ fd' = [fd EXCEPT ![c] = "-1"] /\ link' = [link EXCEPT ![c] = "down"]
        /\ UNCHANGED <<main, loop, ckey, disc, told, reply, sent, down, svars>>
     \/ mgr[c] = "gone" /\ Die(c)

\* Mutant of Report: the thread does not end.
ReportAgain(c) ==
  /\ Alive(c) /\ Thread(c, "report", "report")
  /\ told' = [told EXCEPT ![c] = IF disc[c] THEN @ + 1 ELSE @]
  /\ UNCHANGED <<main, mgr, fd, loop, ckey, disc, reply, link, sent, down, svars>>

\* Mutant of Report: a disconnection is not passed on.
ReportNot(c) ==
  /\ Alive(c) /\ Thread(c, "report", "ended")
  /\ UNCHANGED <<main, mgr, fd, loop, ckey, disc, told, reply, link, sent, down, svars>>

\* disc_cb, if it is set by now.
Report(c) ==
  /\ Alive(c) /\ Thread(c, "report", "ended")
  /\ told' = [told EXCEPT ![c] = IF disc[c] THEN @ + 1 ELSE @]
  /\ UNCHANGED <<main, mgr, fd, loop, ckey, disc, reply, link, sent, down, svars>>
-----------------------------------------------------------------------------
(* The network and the server.                                             *)
Break(c) ==
  /\ link[c] \in {"waiting", "open"} /\ link' = [link EXCEPT ![c] = "down"]
  /\ UNCHANGED <<cvars, sent, down, svars>>

\* aeAcceptTcpHandler with the lowest free descriptor; ep_service_on_accept.
Accept(c) ==
  /\ server = "up" /\ link[c] = "waiting" /\ link' = [link EXCEPT ![c] = "open"]
  /\ \E f \in Fds :
       /\ sock[f] = NoConn /\ \A g \in Fds : g < f => sock[g] # NoConn
       /\ sock' = [sock EXCEPT ![f] = c]
       /\ io' = [io EXCEPT ![f] = IF @ = NoIo THEN [conn |-> c, key |-> NoKey] ELSE @]
  /\ UNCHANGED <<cvars, sent, down, server, tasks, stale>>

\* aeReadFromClient: the request becomes a task, which knows the descriptor.
ReadKey(f) ==
  /\ server = "up"
  /\ \E m \in sent :
       /\ m.from = sock[f] /\ sent' = sent \ {m}
       /\ tasks' = tasks \cup {[fd |-> f, from |-> m.from, key |-> m.key, at |-> "update", with |-> NoKey]}
  /\ UNCHANGED <<cvars, link, down, server, sock, io, stale>>

\* aeReadFromClient finds the end: aeClientClose and ep_service_on_close.
CloseFd(f) ==
  /\ server = "up" /\ sock[f] # NoConn /\ link[sock[f]] = "down" /\ \A m \in sent : m.from # sock[f]
  /\ sock' = [sock EXCEPT ![f] = NoConn] /\ io' = [io EXCEPT ![f] = NoIo]
  /\ UNCHANGED <<cvars, link, sent, down, server, tasks, stale>>

\* The server's process ends.
ServerDies ==
  /\ server' = "dead" /\ sock' = [f \in Fds |-> NoConn] /\ io' = [f \in Fds |-> NoIo] /\ tasks' = {}
  /\ link' = [c \in Conns |-> IF link[c] = "none" THEN "none" ELSE "down"]
  /\ UNCHANGED <<cvars, sent, down, stale>>

\* Mutant of ServerSecurity: the key is not stored.
ServerSecurityForgets(t) ==
  /\ server = "up" /\ t.at = "update"
  /\ tasks' = (tasks \ {t}) \cup {[t EXCEPT !.at = "push", !.with = t.key]}
  /\ UNCHANGED <<cvars, link, sent, down, server, sock, io, stale>>

\* ep_cert_server_security, in a thread of the pool: ep_io_update_aes finds the
\* io by the descriptor and asserts that there is one.
ServerSecurity(t) ==
  /\ server = "up" /\ t.at = "update"
  /\ \/ /\ io[t.fd] # NoIo
        /\ io' = [io EXCEPT ![t.fd].key = t.key]
        /\ stale' = IF io[t.fd].conn = t.from THEN stale ELSE stale \cup {io[t.fd].conn}
        /\ tasks' = (tasks \ {t}) \cup {[t EXCEPT !.at = "combine"]}
        /\ UNCHANGED <<cvars, link, sent, down, server, sock>>
     \/ io[t.fd] = NoIo /\ ServerDies

\* ep_io_combine_shell: the answer is encrypted with the key ep_io_get_aes
\* finds for the descriptor, and asserts that there is one.
Combine(t) ==
  /\ server = "up" /\ t.at = "combine"
  /\ \/ /\ io[t.fd] # NoIo
        /\ tasks' = (tasks \ {t}) \cup {[t EXCEPT !.at = "push", !.with = io[t.fd].key]}
        /\ UNCHANGED <<cvars, link, sent, down, server, sock, io, stale>>
     \/ io[t.fd] = NoIo /\ ServerDies

\* The answer is queued for the io of the descriptor, if there is one, and sent.
Push(t) ==
  /\ server = "up" /\ t.at = "push" /\ tasks' = tasks \ {t}
  /\ down' = IF io[t.fd] = NoIo \/ link[io[t.fd].conn] = "down" THEN down
             ELSE [down EXCEPT ![io[t.fd].conn] = @ \cup {t.with}]
  /\ stale' = IF io[t.fd].conn \in {NoConn, t.from} THEN stale ELSE stale \cup {io[t.fd].conn}
  /\ UNCHANGED <<cvars, link, sent, server, sock, io>>
-----------------------------------------------------------------------------
Starting(c) == Looped(c) \/ GenKey(c) \/ SendKey(c) \/ Secured(c) \/ NotSecured(c) \/ Event(c)
Stopping(c) == Close(c) \/ Destroy(c) \/ Join(c)
Receiving(c) == Begin(c) \/ RecvAnswer(c) \/ RecvEnd(c) \/ Leave(c) \/ Report(c)

Next ==
  \/ \E c \in Conns : Refused(c) \/ Start(c) \/ Disconnect(c) \/ Break(c) \/ Accept(c)
                       \/ Starting(c) \/ Stopping(c) \/ Receiving(c)
  \/ \E f \in Fds : ReadKey(f) \/ CloseFd(f)
  \/ \E t \in tasks : ServerSecurity(t) \/ Combine(t) \/ Push(t)

\* Threads run, ep_req_wait returns at the latest when its time is over, and
\* recv returns when the connection is down.  Nothing is said of a recv whose
\* descriptor was closed by another thread, nor of the server.
Fairness ==
  \A c \in Conns :
    /\ WF_vars(Starting(c)) /\ WF_vars(Stopping(c))
    /\ WF_vars(Begin(c) \/ (link[c] = "down" /\ RecvEnd(c)) \/ Leave(c) \/ Report(c))

Spec == Init /\ [][Next]_vars /\ Fairness
-----------------------------------------------------------------------------
\* Variables hold values of their kinds; disc_cb is called once at the most,
\* and the client's memory is freed when its receive thread has ended.
TypeOK ==
  /\ main \in [Conns -> {"idle", "loop", "key", "send", "wait", "event", "up", "close", "destroy", "join", "done", "dead"}]
  /\ thread \in [Conns -> {"none", "new", "recv", "leave", "report", "ended"}]
  /\ mgr \in [Conns -> {"none", "listed", "bare", "gone"}] /\ fd \in [Conns -> {"open", "closed", "-1"}]
  /\ loop \in [Conns -> {0, 1}] /\ ckey \in [Conns -> AllKeys]
  /\ disc \in [Conns -> BOOLEAN] /\ told \in [Conns -> {0, 1}] /\ reply \in [Conns -> {"none", "ok", "bad"}]
  /\ link \in [Conns -> {"none", "waiting", "open", "down"}]
  /\ sent \subseteq [from : Conns, key : AllKeys] /\ down \in [Conns -> SUBSET (AllKeys)]
  /\ server \in {"up", "dead"} /\ sock \in [Fds -> Conns \cup {NoConn}]
  /\ io \in [Fds -> [conn : Conns \cup {NoConn}, key : AllKeys]]
  /\ tasks \subseteq [fd : Fds, from : Conns, key : AllKeys, at : {"update", "combine", "push"}, with : AllKeys]
  /\ stale \subseteq Conns
  /\ \A c \in Conns : main[c] = "done" => thread[c] \in {"none", "ended"}

\* A client that was told that its key is accepted shares it with the server's
\* io of its connection, so that what one end encrypts the other can read.
\* Only a handshake of an earlier connection with the same descriptor, handled
\* after that one was closed, may have put another key there, or answered a
\* client that generated the same key before its own was handled.
KeysAgree ==
  \A c \in Conns : \A f \in Fds :
    (main[c] \in {"event", "up"} /\ io[f].conn = c /\ c \notin stale) => io[f].key = ckey[c]

\* ep_client_start comes to an end, with a connection, in ep_client_stop, or
\* in a failed assert: it waits for the receive thread to be in its loop, and
\* that may have left it before it is seen there.
StartReturns == \A c \in Conns : main[c] = "loop" ~> main[c] \in {"up", "join", "done", "dead"}

\* When a connection that client_connect has returned goes down, the caller is
\* told (client_disconnect_cb), unless it disconnects itself, or the receive
\* thread had left its loop before the callback was set.
DisconnectTold ==
  \A c \in Conns : (main[c] = "up" /\ thread[c] = "recv" /\ link[c] = "down") ~> (told[c] = 1 \/ main[c] # "up")
=============================================================================
