-------------------------- MODULE ConnectionProofs --------------------------
(***************************************************************************)
(* Proofs about the exchange of the key, for any connections, descriptors  *)
(* and keys: a client whose handshake was answered shares its key with the *)
(* server's io, unless an earlier connection's handshake came between.     *)
(***************************************************************************)
EXTENDS Connection, TLAPS

\* Every io of the connection has the client's key.
Shares(c) == \A f \in Fds : io[f].conn = c => io[f].key = ckey[c]

Early == {"idle", "loop", "key"}
Over == {"done", "dead"}
Unaccepted == {"none", "waiting"}

\* Where connections are: an io has the connection of its descriptor, a
\* connection has one descriptor, and its tasks know that one.
Home ==
  /\ \A f \in Fds : io[f].conn = sock[f] /\ (sock[f] = NoConn => io[f] = NoIo)
  /\ \A f, g \in Fds : sock[f] = sock[g] /\ sock[f] # NoConn => f = g
  /\ \A t \in tasks, f \in Fds : sock[f] = t.from => f = t.fd
  /\ \A c \in Conns : link[c] \in Unaccepted =>
       /\ \A f \in Fds : sock[f] # c
       /\ \A t \in tasks : t.from # c

\* The handshake of c, as far as it has come: its key is on the way, in the
\* hands of the pool, in the io, and then in the answer.
Agree(c) ==
  c \notin stale /\ main[c] \notin Over =>
    /\ \A m \in sent : m.from = c => m.key = ckey[c]
    /\ \A t \in tasks : t.from = c =>
         /\ t.key = ckey[c]
         /\ t.at # "update" => Shares(c)
         /\ t.at = "push" /\ io[t.fd].conn = c => t.with = ckey[c]
    /\ \A k \in down[c] : k = ckey[c] /\ Shares(c)
    /\ reply[c] # "none" \/ main[c] \in {"event", "up"} => Shares(c)
    /\ main[c] \in Early =>
         /\ \A m \in sent : m.from # c
         /\ \A t \in tasks : t.from # c
    /\ main[c] \in Early \/ link[c] \in Unaccepted =>
         down[c] = {} /\ reply[c] = "none" /\ main[c] \notin {"event", "up"}

\* A connection that was not started is nowhere; the callback is called by
\* the last step of the receive thread.
Begun(c) ==
  /\ main[c] = "idle" => link[c] = "none" /\ thread[c] = "none"
  /\ thread[c] # "ended" => told[c] = 0

IInv == TypeOK /\ Home /\ \A c \in Conns : Agree(c) /\ Begun(c)
-----------------------------------------------------------------------------
\* A connection whose own state stays as it is, while messages to and from it
\* are not added to.
LEMMA AgreeKept ==
  ASSUME NEW d \in Conns, Agree(d),
         d \in stale => d \in stale',
         main'[d] = main[d] /\ ckey'[d] = ckey[d] /\ reply'[d] = reply[d],
         link'[d] \in Unaccepted => link[d] \in Unaccepted,
         down'[d] \subseteq down[d],
         Shares(d) => Shares(d)',
         \A m \in sent' : m.from = d => m \in sent,
         \A t \in tasks' : t.from = d => t \in tasks /\ (io'[t.fd].conn = d => io[t.fd].conn = d)
  PROVE  Agree(d)'
<1>1. SUFFICES ASSUME d \notin stale', main[d] \notin Over PROVE Agree(d)'
  BY Zenon DEF Agree
<1>2. /\ \A m \in sent' : m.from = d => m.key = ckey[d]
      /\ main[d] \in Early => \A m \in sent' : m.from # d
  BY <1>1 DEF Agree
<1>3. /\ \A t \in tasks' : t.from = d =>
           /\ t.key = ckey[d]
           /\ t.at # "update" => Shares(d)'
           /\ t.at = "push" /\ io'[t.fd].conn = d => t.with = ckey[d]
      /\ main[d] \in Early => \A t \in tasks' : t.from # d
  BY <1>1 DEF Agree
<1>4. /\ \A k \in down'[d] : k = ckey[d] /\ Shares(d)'
      /\ reply[d] # "none" \/ main[d] \in {"event", "up"} => Shares(d)'
      /\ main[d] \in Early \/ link'[d] \in Unaccepted =>
           down'[d] = {} /\ reply[d] = "none" /\ main[d] \notin {"event", "up"}
  BY <1>1 DEF Agree
<1>5. QED
  BY <1>2, <1>3, <1>4 DEF Agree

\* Steps of one client that touch neither its handshake nor the server.
LEMMA Frame ==
  ASSUME IInv, TypeOK', UNCHANGED <<ckey, reply, sent, down, server, sock, io, tasks, stale>>,
         \A d \in Conns :
           /\ link'[d] \in Unaccepted => link[d] \in Unaccepted
           /\ main'[d] \in Early => main[d] \in Early
           /\ main'[d] \in {"event", "up"} => main[d] \in {"event", "up"} \/ reply[d] = "ok"
           /\ main[d] \in Over => main'[d] \in Over,
         \A d \in Conns : Begun(d)'
  PROVE  IInv'
<1>1. Home'
  BY DEF IInv, Home
<1>2. ASSUME NEW d \in Conns PROVE Agree(d)'
  <2>1. Agree(d) /\ (Shares(d)' <=> Shares(d))
    BY DEF IInv, Shares
  <2>2. QED
    BY <2>1 DEF Agree
<1>3. QED
  BY <1>1, <1>2 DEF IInv

\* The main thread, but for the handshake.
LEMMA MainOK ==
  ASSUME IInv, NEW c \in Conns,
         \/ Refused(c) \/ Start(c) \/ Looped(c) \/ Secured(c) \/ NotSecured(c) \/ Event(c)
         \/ Disconnect(c) \/ Destroy(c)
  PROVE  IInv'
<1>0. TypeOK /\ \A d \in Conns : Begun(d)
  BY DEF IInv
<1>. DEFINE Same(d) == main'[d] = main[d] /\ link'[d] = link[d] /\ thread'[d] = thread[d]
<1>a. UNCHANGED <<ckey, reply, sent, down, server, sock, io, tasks, stale, told, loop>>
  BY Zenon DEF Refused, Start, Looped, Secured, NotSecured, Event, Disconnect, Destroy, svars
<1>b. \A d \in Conns : d # c => Same(d)
  BY <1>0 DEF Refused, Start, Looped, Secured, NotSecured, Event, Disconnect, Destroy, Main, TypeOK
<1>c. /\ main[c] = "idle" => main'[c] \in {"done", "loop"}
      /\ main[c] # "idle" => main'[c] \in {"key", "event", "close", "up", "join"}
      /\ main'[c] = "key" => main[c] = "loop"
      /\ main'[c] = "event" => reply[c] = "ok"
      /\ main'[c] = "up" => main[c] = "event"
      /\ main[c] \notin Over
  BY <1>0 DEF Refused, Start, Looped, Secured, NotSecured, Event, Disconnect, Destroy, Main, TypeOK, Over
<1>d. /\ main[c] # "idle" => link'[c] = link[c] /\ thread'[c] = thread[c]
      /\ main[c] = "idle" => thread'[c] \in {"none", "new"} /\ link'[c] \in {"none", "waiting"}
      /\ main'[c] = "done" => thread'[c] = "none"
  BY <1>0 DEF Refused, Start, Looped, Secured, NotSecured, Event, Disconnect, Destroy, Main, TypeOK, Begun
<1>e. main' \in [Conns -> {"idle", "loop", "key", "send", "wait", "event", "up", "close",
                           "destroy", "join", "done", "dead"}]
  <2>1. \E x \in {"loop", "key", "event", "up", "close", "join", "done"} : main' = [main EXCEPT ![c] = x]
    BY Zenon DEF Refused, Start, Looped, Secured, NotSecured, Event, Disconnect, Destroy, Main
  <2>2. QED
    BY <1>0, <2>1 DEF TypeOK
<1>g. thread' \in [Conns -> {"none", "new", "recv", "leave", "report", "ended"}]
  <2>1. thread' = thread \/ thread' = [thread EXCEPT ![c] = "new"]
    BY Zenon DEF Refused, Start, Looped, Secured, NotSecured, Event, Disconnect, Destroy
  <2>2. QED
    BY <1>0, <2>1 DEF TypeOK
<1>h. link' \in [Conns -> {"none", "waiting", "open", "down"}]
  <2>1. link' = link \/ link' = [link EXCEPT ![c] = "waiting"]
    BY Zenon DEF Refused, Start, Looped, Secured, NotSecured, Event, Disconnect, Destroy
  <2>2. QED
    BY <1>0, <2>1 DEF TypeOK
<1>f. /\ mgr' \in [Conns -> {"none", "listed", "bare", "gone"}]
      /\ fd' \in [Conns -> {"open", "closed", "-1"}]
      /\ disc' \in [Conns -> BOOLEAN]
  <2>1. /\ mgr' = mgr \/ \E x \in {"none", "listed", "bare", "gone"} : mgr' = [mgr EXCEPT ![c] = x]
        /\ fd' = fd \/ \E x \in {"open", "closed", "-1"} : fd' = [fd EXCEPT ![c] = x]
        /\ disc' = disc \/ \E x \in BOOLEAN : disc' = [disc EXCEPT ![c] = x]
    BY Zenon DEF Refused, Start, Looped, Secured, NotSecured, Event, Disconnect, Destroy
  <2>2. mgr' \in [Conns -> {"none", "listed", "bare", "gone"}]
    <3>1. mgr \in [Conns -> {"none", "listed", "bare", "gone"}]
      BY Zenon, <1>0 DEF TypeOK
    <3>2. QED
      BY <2>1, <3>1
  <2>3. fd' \in [Conns -> {"open", "closed", "-1"}]
    <3>1. fd \in [Conns -> {"open", "closed", "-1"}]
      BY Zenon, <1>0 DEF TypeOK
    <3>2. QED
      BY <2>1, <3>1
  <2>4. disc' \in [Conns -> BOOLEAN]
    <3>1. disc \in [Conns -> BOOLEAN]
      BY <1>0 DEF TypeOK
    <3>2. QED
      BY <2>1, <3>1
  <2>5. QED
    BY <2>2, <2>3, <2>4
<1>1. TypeOK'
  BY <1>0, <1>a, <1>b, <1>c, <1>d, <1>e, <1>f, <1>g, <1>h DEF TypeOK
<1>2. \A d \in Conns : Begun(d)'
  BY Zenon, <1>0, <1>a, <1>b, <1>c, <1>d DEF Begun
<1>3. \A d \in Conns :
        /\ link'[d] \in Unaccepted => link[d] \in Unaccepted
        /\ main'[d] \in Early => main[d] \in Early
        /\ main'[d] \in {"event", "up"} => main[d] \in {"event", "up"} \/ reply[d] = "ok"
        /\ main[d] \in Over => main'[d] \in Over
  BY Zenon, <1>0, <1>b, <1>c, <1>d DEF Begun, Early, Over, Unaccepted
<1>4. QED
  BY Zenon, <1>1, <1>2, <1>3, <1>a, Frame

\* The receive thread between answers, ep_client_stop's close, and a
\* connection that breaks.
LEMMA ThreadOK ==
  ASSUME IInv, NEW c \in Conns,
         \/ Close(c) \/ Begin(c) \/ RecvEnd(c) \/ Report(c) \/ Break(c)
         \/ Leave(c) /\ ~Die(c)
  PROVE  IInv'
<1>0. TypeOK /\ \A d \in Conns : Begun(d)
  BY DEF IInv
<1>a. UNCHANGED <<ckey, reply, sent, down, server, sock, io, tasks, stale, disc>>
  BY Zenon DEF Close, Begin, RecvEnd, Report, Break, Leave, svars, cvars
<1>b. \A d \in Conns : d # c => /\ main'[d] = main[d] /\ link'[d] = link[d]
                                /\ thread'[d] = thread[d] /\ told'[d] = told[d]
  BY <1>0 DEF Close, Begin, RecvEnd, Report, Break, Leave, Main, Thread, TypeOK, cvars
<1>c. /\ main'[c] = main[c] \/ (main[c] = "close" /\ main'[c] = "destroy")
      /\ link'[c] \in {link[c], "down"}
  BY <1>0 DEF Close, Begin, RecvEnd, Report, Break, Leave, Main, TypeOK, cvars
<1>d. \/ thread'[c] = thread[c] /\ told'[c] = told[c]
      \/ thread[c] \in {"new", "recv", "leave"} /\ thread'[c] # "ended" /\ told'[c] = told[c]
      \/ thread[c] = "report" /\ thread'[c] = "ended" /\ told'[c] \in {told[c], told[c] + 1}
  BY <1>0 DEF Close, Begin, RecvEnd, Report, Break, Leave, Main, Thread, TypeOK, cvars
<1>e. main[c] = "idle" => link[c] = "none" /\ thread[c] = "none"
  BY <1>0 DEF Begun
<1>g. main[c] = "idle" => link'[c] = "none"
  BY Zenon, <1>0, <1>e DEF Close, Begin, RecvEnd, Report, Break, Leave, Main, Thread, TypeOK, cvars
<1>f. main' \in [Conns -> {"idle", "loop", "key", "send", "wait", "event", "up", "close",
                           "destroy", "join", "done", "dead"}]
  <2>1. main' = main \/ main' = [main EXCEPT ![c] = "destroy"]
    BY Zenon DEF Close, Begin, RecvEnd, Report, Break, Leave, Main, cvars
  <2>2. QED
    BY <1>0, <2>1 DEF TypeOK
<1>k. thread' \in [Conns -> {"none", "new", "recv", "leave", "report", "ended"}]
  <2>1. \/ thread' = thread
        \/ \E x \in {"recv", "leave", "report", "ended"} : thread' = [thread EXCEPT ![c] = x]
    BY Zenon DEF Close, Begin, RecvEnd, Report, Break, Leave, Thread, cvars
  <2>2. thread \in [Conns -> {"none", "new", "recv", "leave", "report", "ended"}]
    BY Zenon, <1>0 DEF TypeOK
  <2>3. QED
    BY <2>1, <2>2
<1>l. mgr' \in [Conns -> {"none", "listed", "bare", "gone"}]
  <2>1. mgr' = mgr \/ mgr' = [mgr EXCEPT ![c] = "bare"]
    BY Zenon DEF Close, Begin, RecvEnd, Report, Break, Leave, cvars
  <2>2. QED
    BY <1>0, <2>1 DEF TypeOK
<1>h. /\ link' \in [Conns -> {"none", "waiting", "open", "down"}]
      /\ loop' \in [Conns -> {0, 1}]
  BY <1>0 DEF Close, Begin, RecvEnd, Report, Break, Leave, Main, Thread, TypeOK, cvars
<1>i. fd' \in [Conns -> {"open", "closed", "-1"}]
  BY <1>0 DEF Close, Begin, RecvEnd, Report, Break, Leave, Main, Thread, TypeOK, cvars
<1>j. told' \in [Conns -> {0, 1}]
  <2>1. thread[c] = "report" => told[c] = 0
    BY Zenon, <1>0 DEF Begun
  <2>2. \/ told' = told
        \/ thread[c] = "report" /\ told' = [told EXCEPT ![c] = IF disc[c] THEN @ + 1 ELSE @]
    <3>1. CASE Report(c)
      BY <3>1 DEF Report, Thread
    <3>2. CASE ~Report(c)
      BY Zenon, <3>2 DEF Close, Begin, RecvEnd, Break, Leave, cvars
    <3>3. QED
      BY <3>1, <3>2
  <2>3. QED
    BY <1>0, <2>1, <2>2 DEF TypeOK
<1>1. TypeOK'
  BY <1>0, <1>a, <1>b, <1>c, <1>d, <1>f, <1>h, <1>i, <1>j, <1>k, <1>l DEF TypeOK
<1>2. \A d \in Conns : Begun(d)'
  BY Zenon, <1>0, <1>b, <1>c, <1>d, <1>e, <1>g DEF Begun
<1>3. \A d \in Conns :
        /\ link'[d] \in Unaccepted => link[d] \in Unaccepted
        /\ main'[d] \in Early => main[d] \in Early
        /\ main'[d] \in {"event", "up"} => main[d] \in {"event", "up"} \/ reply[d] = "ok"
        /\ main[d] \in Over => main'[d] \in Over
  BY Zenon, <1>b, <1>c DEF Early, Over, Unaccepted
<1>4. QED
  BY Zenon, <1>1, <1>2, <1>3, <1>a, Frame

\* A client that ends, by an assert or after ep_client_stop, has no key left
\* to agree on.
LEMMA ForgetOK ==
  ASSUME IInv, NEW c \in Conns, Forget(c),
         NEW s \in Over, main' = [main EXCEPT ![c] = s],
         thread' = [thread EXCEPT ![c] = "ended"],
         NEW l \in {"down", link[c]}, link' = [link EXCEPT ![c] = l],
         UNCHANGED <<sent, server, sock, io, tasks>>
  PROVE  IInv'
<1>0. TypeOK /\ Home /\ \A d \in Conns : Agree(d) /\ Begun(d)
  BY DEF IInv
<1>a. NoKey \in AllKeys
  BY DEF AllKeys
<1>b. /\ main' \in [Conns -> {"idle", "loop", "key", "send", "wait", "event", "up", "close",
                              "destroy", "join", "done", "dead"}]
      /\ thread' \in [Conns -> {"none", "new", "recv", "leave", "report", "ended"}]
      /\ link' \in [Conns -> {"none", "waiting", "open", "down"}]
      /\ main'[c] \in Over /\ thread'[c] = "ended"
      /\ \A d \in Conns \ {c} : main'[d] = main[d] /\ thread'[d] = thread[d]
  BY <1>0 DEF TypeOK, Over
<1>c. /\ mgr' \in [Conns -> {"none", "listed", "bare", "gone"}]
      /\ fd' \in [Conns -> {"open", "closed", "-1"}]
      /\ loop' \in [Conns -> {0, 1}] /\ told' \in [Conns -> {0, 1}]
      /\ ckey' \in [Conns -> AllKeys]
      /\ disc' \in [Conns -> BOOLEAN] /\ reply' \in [Conns -> {"none", "ok", "bad"}]
  BY <1>0, <1>a DEF TypeOK, Forget
<1>d. down' \in [Conns -> SUBSET AllKeys] /\ stale' \subseteq Conns
  BY <1>0 DEF TypeOK, Forget
<1>1. TypeOK'
  BY <1>0, <1>b, <1>c, <1>d DEF TypeOK
<1>2. Home'
  <2>1. \A d \in Conns : link'[d] \in Unaccepted => link[d] \in Unaccepted
    BY <1>0 DEF TypeOK, Unaccepted
  <2>2. QED
    BY Zenon, <1>0, <2>1 DEF Home
<1>3. ASSUME NEW d \in Conns PROVE Agree(d)' /\ Begun(d)'
  <2>1. CASE d = c
    <3>1. main'[d] \in Over /\ main'[d] # "idle" /\ thread'[d] = "ended"
      BY <1>0, <2>1 DEF TypeOK, Over
    <3>2. QED
      BY Zenon, <3>1 DEF Agree, Begun
  <2>2. CASE d # c
    <3>1. /\ main'[d] = main[d] /\ thread'[d] = thread[d] /\ link'[d] = link[d]
          /\ ckey'[d] = ckey[d] /\ reply'[d] = reply[d] /\ down'[d] = down[d] /\ told'[d] = told[d]
          /\ d \in stale' <=> d \in stale
      BY <1>0, <2>2 DEF TypeOK, Forget
    <3>2. Shares(d)' <=> Shares(d)
      BY <3>1 DEF Shares
    <3>3. Agree(d) /\ Begun(d) /\ UNCHANGED <<sent, io, tasks>>
      BY <1>0
    <3>4. Begun(d)'
      BY Zenon, <3>1, <3>3 DEF Begun
    <3>5. QED
      BY Zenon, <3>1, <3>2, <3>3, <3>4, AgreeKept
  <2>3. QED
    BY <2>1, <2>2
<1>4. QED
  BY <1>1, <1>2, <1>3 DEF IInv

\* A failing assert of the client.
LEMMA DieOK ==
  ASSUME IInv, NEW c \in Conns, Die(c)
  PROVE  IInv'
<1>1. PICK s \in Over : s = "dead"
  BY DEF Over
<1>2. PICK l \in {"down", link[c]} : l = "down"
  OBVIOUS
<1>3. QED
  BY Zenon, <1>1, <1>2, ForgetOK DEF Die

\* The end of ep_client_stop.
LEMMA JoinOK ==
  ASSUME IInv, NEW c \in Conns, Join(c)
  PROVE  IInv'
<1>1. PICK s \in Over : s = "done"
  BY DEF Over
<1>2. PICK l \in {"down", link[c]} : l = link[c]
  OBVIOUS
<1>3. thread' = [thread EXCEPT ![c] = "ended"] /\ link' = [link EXCEPT ![c] = l]
  BY <1>2 DEF Join, IInv, TypeOK
<1>4. main' = [main EXCEPT ![c] = s] /\ Forget(c) /\ UNCHANGED <<sent, server, sock, io, tasks>>
  BY <1>1 DEF Join, Main
<1>5. QED
  BY Zenon, <1>3, <1>4, ForgetOK
-----------------------------------------------------------------------------
\* A key is generated before anything was sent.
LEMMA GenKeyOK ==
  ASSUME IInv, NEW c \in Conns, GenKey(c)
  PROVE  IInv'
<1>1. CASE Die(c)
  BY <1>1, DieOK
<1>2. CASE ~Die(c)
  <2>0. TypeOK /\ Home /\ \A d \in Conns : Agree(d) /\ Begun(d)
    BY DEF IInv
  <2>1. /\ main[c] = "key" /\ main' = [main EXCEPT ![c] = "send"]
        /\ \E k \in Keys[c] : ckey' = [ckey EXCEPT ![c] = k]
        /\ UNCHANGED <<thread, mgr, fd, loop, disc, told, reply, link, sent, down,
                       server, sock, io, tasks, stale>>
    BY Zenon, <1>2 DEF GenKey, Main, svars
  <2>2. ckey' \in [Conns -> AllKeys] /\ \A d \in Conns : d # c => ckey'[d] = ckey[d]
    BY <2>0, <2>1 DEF TypeOK, AllKeys
  <2>3. TypeOK'
    BY Zenon, <2>0, <2>1, <2>2 DEF TypeOK
  <2>4. Home'
    BY Zenon, <2>0, <2>1 DEF Home
  <2>5. ASSUME NEW d \in Conns PROVE Agree(d)' /\ Begun(d)'
    <3>1. CASE d = c
      <4>1. main'[d] = "send"
        BY Zenon, <2>0, <2>1, <3>1 DEF TypeOK
      <4>2. QED
        BY <2>0, <2>1, <3>1, <4>1 DEF Agree, Begun, Early, Over
    <3>2. CASE d # c
      <4>1. main'[d] = main[d] /\ ckey'[d] = ckey[d]
        BY Zenon, <2>0, <2>1, <2>2, <3>2 DEF TypeOK
      <4>2. Shares(d)' <=> Shares(d)
        BY Zenon, <2>1, <4>1 DEF Shares
      <4>3. Agree(d) /\ Begun(d)
        BY <2>0
      <4>4. Begun(d)'
        BY Zenon, <2>1, <4>1, <4>3 DEF Begun
      <4>5. QED
        BY Zenon, <2>1, <4>1, <4>2, <4>3, <4>4, AgreeKept
    <3>3. QED
      BY <3>1, <3>2
  <2>6. QED
    BY <2>3, <2>4, <2>5 DEF IInv
<1>3. QED
  BY <1>1, <1>2

\* The key is sent.
LEMMA SendKeyOK ==
  ASSUME IInv, NEW c \in Conns, SendKey(c)
  PROVE  IInv'
<1>1. CASE Die(c)
  BY <1>1, DieOK
<1>2. CASE ~Die(c)
  <2>0. TypeOK /\ Home /\ \A d \in Conns : Agree(d) /\ Begun(d)
    BY DEF IInv
  <2>1. /\ main[c] = "send" /\ main' = [main EXCEPT ![c] = "wait"]
        /\ sent' = IF link[c] = "down" THEN sent ELSE sent \cup {[from |-> c, key |-> ckey[c]]}
        /\ UNCHANGED <<thread, mgr, fd, loop, ckey, disc, told, reply, link, down,
                       server, sock, io, tasks, stale>>
    BY Zenon, <1>2 DEF SendKey, Main, svars
  <2>2. /\ sent' \subseteq [from : Conns, key : AllKeys]
        /\ \A m \in sent' : m \in sent \/ (m.from = c /\ m.key = ckey[c])
    BY <2>0, <2>1 DEF TypeOK
  <2>3. TypeOK'
    BY <2>0, <2>1, <2>2 DEF TypeOK
  <2>4. Home'
    BY Zenon, <2>0, <2>1 DEF Home
  <2>5. ASSUME NEW d \in Conns PROVE Agree(d)' /\ Begun(d)'
    <3>1. Shares(d)' <=> Shares(d)
      BY Zenon, <2>1 DEF Shares
    <3>2. CASE d = c
      <4>1. main'[d] = "wait"
        BY Zenon, <2>0, <2>1, <3>2 DEF TypeOK
      <4>2. Agree(d) /\ Begun(d) /\ main[d] = "send"
        BY Zenon, <2>0, <2>1, <3>2
      <4>3. Begun(d)'
        BY Zenon, <2>1, <4>1, <4>2 DEF Begun
      <4>4. d \notin stale => \A m \in sent' : m.from = d => m.key = ckey[d]
        BY Zenon, <2>2, <3>2, <4>2 DEF Agree, Over
      <4>5. Agree(d)'
        BY Zenon, <2>1, <3>1, <4>1, <4>2, <4>4 DEF Agree, Early, Over
      <4>6. QED
        BY <4>3, <4>5
    <3>3. CASE d # c
      <4>1. main'[d] = main[d]
        BY Zenon, <2>0, <2>1, <3>3 DEF TypeOK
      <4>2. Agree(d) /\ Begun(d)
        BY <2>0
      <4>3. Begun(d)'
        BY Zenon, <2>1, <4>1, <4>2 DEF Begun
      <4>4. \A m \in sent' : m.from = d => m \in sent
        BY <2>2, <3>3
      <4>5. QED
        BY Zenon, <2>1, <3>1, <4>1, <4>2, <4>3, <4>4, AgreeKept
    <3>4. QED
      BY <3>2, <3>3
  <2>6. QED
    BY <2>3, <2>4, <2>5 DEF IInv
<1>3. QED
  BY <1>1, <1>2

\* An answer that the client can read says that its key was stored.
LEMMA RecvAnswerOK ==
  ASSUME IInv, NEW c \in Conns, RecvAnswer(c)
  PROVE  IInv'
<1>1. CASE Die(c)
  BY <1>1, DieOK
<1>2. CASE ~Die(c)
  <2>0. TypeOK /\ Home /\ \A d \in Conns : Agree(d) /\ Begun(d)
    BY DEF IInv
  <2>1. PICK k \in down[c] :
          /\ down' = [down EXCEPT ![c] = @ \ {k}]
          /\ reply' = [reply EXCEPT ![c] =
               IF main[c] # "wait" THEN @ ELSE IF Decrypts(c, k) THEN "ok" ELSE "bad"]
          /\ thread' = [thread EXCEPT ![c] = IF loop[c] = 1 THEN "recv" ELSE "leave"]
          /\ thread[c] = "recv"
          /\ UNCHANGED <<main, mgr, fd, loop, ckey, disc, told, link, sent,
                         server, sock, io, tasks, stale>>
    BY Zenon, <1>2 DEF RecvAnswer, svars
  <2>2. /\ down' \in [Conns -> SUBSET AllKeys] /\ down'[c] \subseteq down[c]
        /\ \A d \in Conns : d # c => down'[d] = down[d]
    BY <2>0, <2>1 DEF TypeOK
  <2>3. /\ reply' \in [Conns -> {"none", "ok", "bad"}]
        /\ \A d \in Conns : d # c => reply'[d] = reply[d]
        /\ main[c] # "wait" => reply'[c] = reply[c]
    BY <2>0, <2>1 DEF TypeOK
  <2>4. /\ thread' \in [Conns -> {"none", "new", "recv", "leave", "report", "ended"}]
        /\ \A d \in Conns : d # c => thread'[d] = thread[d]
        /\ thread'[c] \in {"recv", "leave"}
    BY <2>0, <2>1 DEF TypeOK
  <2>5. main[c] # "done"
    BY Zenon, <2>0, <2>1 DEF TypeOK
  <2>6. TypeOK'
    BY <2>0, <2>1, <2>2, <2>3, <2>4, <2>5 DEF TypeOK
  <2>7. Home'
    BY Zenon, <2>0, <2>1 DEF Home
  <2>8. ASSUME NEW d \in Conns PROVE Agree(d)' /\ Begun(d)'
    <3>1. Shares(d)' <=> Shares(d)
      BY <2>1 DEF Shares
    <3>2. Begun(d)'
      BY Zenon, <2>0, <2>1, <2>4 DEF Begun
    <3>3. CASE d = c
      <4>1. c \notin stale /\ main[c] \notin Over => Shares(c) /\ main[c] \notin Early /\ link[c] \notin Unaccepted
        BY Zenon, <2>0, <2>1 DEF Agree
      <4>2. Agree(c)
        BY <2>0
      <4>3. QED
        BY Zenon, <2>1, <2>2, <3>1, <3>2, <3>3, <4>1, <4>2 DEF Agree
    <3>4. CASE d # c
      <4>1. Agree(d) /\ down'[d] = down[d] /\ reply'[d] = reply[d]
        BY Zenon, <2>0, <2>2, <2>3, <3>4
      <4>2. QED
        BY Zenon, <2>1, <3>1, <3>2, <4>1, AgreeKept
    <3>5. QED
      BY <3>3, <3>4
  <2>9. QED
    BY Zenon, <2>6, <2>7, <2>8 DEF IInv
<1>3. QED
  BY <1>1, <1>2
-----------------------------------------------------------------------------
\* The server accepts: the new io has no key yet, and nothing was promised.
LEMMA AcceptOK ==
  ASSUME IInv, NEW c \in Conns, Accept(c)
  PROVE  IInv'
<1>0. TypeOK /\ Home /\ \A d \in Conns : Agree(d) /\ Begun(d)
  BY DEF IInv
<1>1. PICK f \in Fds :
        /\ sock[f] = NoConn /\ sock' = [sock EXCEPT ![f] = c]
        /\ io' = [io EXCEPT ![f] = IF @ = NoIo THEN [conn |-> c, key |-> NoKey] ELSE @]
        /\ link[c] = "waiting" /\ link' = [link EXCEPT ![c] = "open"]
        /\ UNCHANGED <<main, thread, mgr, fd, loop, ckey, disc, told, reply, sent, down,
                       server, tasks, stale>>
  BY Zenon DEF Accept, cvars
<1>2. io[f] = NoIo
  BY Zenon, <1>0, <1>1 DEF Home
<1>3. /\ io'[f] = [conn |-> c, key |-> NoKey] /\ sock'[f] = c
      /\ \A g \in Fds : g # f => io'[g] = io[g] /\ sock'[g] = sock[g]
      /\ link'[c] = "open" /\ \A d \in Conns : d # c => link'[d] = link[d]
  <2>1. DOMAIN io = Fds /\ DOMAIN sock = Fds /\ DOMAIN link = Conns
    BY Zenon, <1>0 DEF TypeOK
  <2>2. io' = [io EXCEPT ![f] = [conn |-> c, key |-> NoKey]]
    BY Zenon, <1>1, <1>2
  <2>3. QED
    BY Zenon, <1>1, <2>1, <2>2
<1>4. NoKey \in AllKeys
  BY Zenon DEF AllKeys
<1>5. /\ io' \in [Fds -> [conn : Conns \cup {NoConn}, key : AllKeys]]
      /\ sock' \in [Fds -> Conns \cup {NoConn}]
      /\ link' \in [Conns -> {"none", "waiting", "open", "down"}]
  BY Zenon, <1>0, <1>1, <1>2, <1>4 DEF TypeOK
<1>6. TypeOK'
  BY Zenon, <1>0, <1>1, <1>5 DEF TypeOK
<1>7. /\ \A g \in Fds : sock[g] # c
      /\ \A t \in tasks : t.from # c
  BY Zenon, <1>0, <1>1 DEF Home, Unaccepted
<1>8. Home'
  <2>1. \A g \in Fds : io'[g].conn = sock'[g] /\ (sock'[g] = NoConn => io'[g] = NoIo)
    BY <1>0, <1>3, ConnectionAssumption DEF Home
  <2>2. \A g, h \in Fds : sock'[g] = sock'[h] /\ sock'[g] # NoConn => g = h
    BY <1>0, <1>3, <1>7 DEF Home
  <2>3. \A t \in tasks, g \in Fds : sock'[g] = t.from => g = t.fd
    BY <1>0, <1>3, <1>7 DEF Home
  <2>4. \A d \in Conns : link'[d] \in Unaccepted =>
          /\ \A g \in Fds : sock'[g] # d
          /\ \A t \in tasks : t.from # d
    <3>1. \A d \in Conns : link[d] \in Unaccepted =>
            /\ \A g \in Fds : sock[g] # d
            /\ \A t \in tasks : t.from # d
      BY Zenon, <1>0 DEF Home
    <3>2. \A d \in Conns : link'[d] \in Unaccepted => d # c /\ link[d] \in Unaccepted
      BY Zenon, <1>3 DEF Unaccepted
    <3>3. QED
      BY Zenon, <1>3, <3>1, <3>2
  <2>5. QED
    BY Zenon, <2>1, <2>2, <2>3, <2>4, <1>1 DEF Home
<1>9. ASSUME NEW d \in Conns PROVE Agree(d)' /\ Begun(d)'
  <2>1. Begun(d)'
    BY Zenon, <1>0, <1>1, <1>3 DEF Begun
  <2>2. CASE d = c
    <3>1. Agree(c)
      BY <1>0
    <3>2. QED
      BY Zenon, <1>1, <1>7, <2>1, <2>2, <3>1 DEF Agree, Unaccepted
  <2>3. CASE d # c
    <3>1. Shares(d)' <=> Shares(d)
      <4>1. io[f].conn # d /\ io'[f].conn # d
        BY <1>2, <1>3, <2>3, ConnectionAssumption DEF NoIo
      <4>2. QED
        BY <1>1, <1>3, <4>1 DEF Shares
    <3>2. \A t \in tasks : io'[t.fd].conn = d <=> io[t.fd].conn = d
      <4>1. \A t \in tasks : t.fd \in Fds
        BY Zenon, <1>0 DEF TypeOK
      <4>2. io[f].conn # d /\ io'[f].conn # d
        BY <1>2, <1>3, <2>3, ConnectionAssumption DEF NoIo
      <4>3. QED
        BY Zenon, <1>3, <4>1, <4>2
    <3>3. Agree(d) /\ link'[d] = link[d]
      BY Zenon, <1>0, <1>3, <2>3
    <3>4. QED
      BY Zenon, <1>1, <2>1, <3>1, <3>2, <3>3, AgreeKept
  <2>4. QED
    BY <2>2, <2>3
<1>10. QED
  BY <1>6, <1>8, <1>9 DEF IInv

\* A handshake becomes a task with the descriptor of its connection.
LEMMA ReadKeyOK ==
  ASSUME IInv, NEW f \in Fds, ReadKey(f)
  PROVE  IInv'
<1>0. TypeOK /\ Home /\ \A d \in Conns : Agree(d) /\ Begun(d)
  BY DEF IInv
<1>1. PICK m \in sent :
        /\ m.from = sock[f] /\ sent' = sent \ {m}
        /\ tasks' = tasks \cup {[fd |-> f, from |-> m.from, key |-> m.key, at |-> "update", with |-> NoKey]}
        /\ UNCHANGED <<main, thread, mgr, fd, loop, ckey, disc, told, reply, link, down,
                       server, sock, io, stale>>
  BY Zenon DEF ReadKey, cvars
<1>2. m.from \in Conns /\ m.key \in AllKeys /\ NoKey \in AllKeys
  BY Zenon, <1>0 DEF TypeOK, AllKeys
<1>3. \A t \in tasks' : t \in tasks \/ (t.fd = f /\ t.from = m.from /\ t.key = m.key /\ t.at = "update")
  BY <1>1
<1>4. TypeOK'
  <2>1. tasks' \subseteq [fd : Fds, from : Conns, key : AllKeys, at : {"update", "combine", "push"}, with : AllKeys]
    BY <1>0, <1>1, <1>2 DEF TypeOK
  <2>2. sent' \subseteq [from : Conns, key : AllKeys]
    BY Zenon, <1>0, <1>1 DEF TypeOK
  <2>3. QED
    BY Zenon, <1>0, <1>1, <2>1, <2>2 DEF TypeOK
<1>5. Home'
  <2>1. \A t \in tasks', g \in Fds : sock[g] = t.from => g = t.fd
    <3>1. /\ \A t \in tasks, g \in Fds : sock[g] = t.from => g = t.fd
          /\ \A g, h \in Fds : sock[g] = sock[h] /\ sock[g] # NoConn => g = h
      BY Zenon, <1>0 DEF Home
    <3>2. sock[f] = m.from /\ sock[f] # NoConn
      BY Zenon, <1>1, <1>2, ConnectionAssumption
    <3>3. QED
      BY Zenon, <1>3, <3>1, <3>2
  <2>2. \A d \in Conns : link[d] \in Unaccepted => \A t \in tasks' : t.from # d
    BY <1>0, <1>1, <1>3 DEF Home
  <2>3. QED
    BY Zenon, <1>0, <1>1, <2>1, <2>2 DEF Home
<1>6. ASSUME NEW d \in Conns PROVE Agree(d)' /\ Begun(d)'
  <2>1. Begun(d)' /\ (Shares(d)' <=> Shares(d))
    BY Zenon, <1>0, <1>1 DEF Begun, Shares
  <2>2. Agree(d)
    BY <1>0
  <2>3. QED
    BY Zenon, <1>1, <1>3, <2>1, <2>2 DEF Agree
<1>7. QED
  BY <1>4, <1>5, <1>6 DEF IInv

\* The io goes with its descriptor.
LEMMA CloseFdOK ==
  ASSUME IInv, NEW f \in Fds, CloseFd(f)
  PROVE  IInv'
<1>0. TypeOK /\ Home /\ \A d \in Conns : Agree(d) /\ Begun(d)
  BY DEF IInv
<1>1. /\ sock' = [sock EXCEPT ![f] = NoConn] /\ io' = [io EXCEPT ![f] = NoIo]
      /\ UNCHANGED <<main, thread, mgr, fd, loop, ckey, disc, told, reply, link, sent, down,
                     server, tasks, stale>>
  BY Zenon DEF CloseFd, cvars
<1>2. NoIo \in [conn : Conns \cup {NoConn}, key : AllKeys] /\ NoIo.conn = NoConn
  BY Zenon DEF NoIo, AllKeys
<1>t. io \in [Fds -> [conn : Conns \cup {NoConn}, key : AllKeys]] /\ sock \in [Fds -> Conns \cup {NoConn}]
  BY Zenon, <1>0 DEF TypeOK
<1>3. /\ io'[f] = NoIo /\ sock'[f] = NoConn
      /\ \A g \in Fds : g # f => io'[g] = io[g] /\ sock'[g] = sock[g]
  BY <1>1, <1>t
<1>4. /\ io' \in [Fds -> [conn : Conns \cup {NoConn}, key : AllKeys]]
      /\ sock' \in [Fds -> Conns \cup {NoConn}]
  BY <1>1, <1>2, <1>t
<1>5. TypeOK'
  BY Zenon, <1>0, <1>1, <1>4 DEF TypeOK
<1>6. \A t \in tasks : t.from \in Conns /\ t.fd \in Fds
  BY Zenon, <1>0 DEF TypeOK
<1>7. Home'
  <2>1. \A g \in Fds : io'[g].conn = sock'[g] /\ (sock'[g] = NoConn => io'[g] = NoIo)
    BY Zenon, <1>0, <1>2, <1>3 DEF Home
  <2>2. \A g \in Fds : sock'[g] # NoConn => g # f /\ sock'[g] = sock[g]
    BY Zenon, <1>3
  <2>3. \A g, h \in Fds : sock'[g] = sock'[h] /\ sock'[g] # NoConn => g = h
    BY <1>0, <2>2 DEF Home
  <2>4. \A t \in tasks, g \in Fds : sock'[g] = t.from => g = t.fd
    BY <1>0, <1>6, <2>2, ConnectionAssumption DEF Home
  <2>5. \A d \in Conns : link[d] \in Unaccepted =>
          /\ \A g \in Fds : sock'[g] # d
          /\ \A t \in tasks : t.from # d
    BY Zenon, <1>0, <2>2, ConnectionAssumption DEF Home
  <2>6. QED
    BY Zenon, <1>1, <2>1, <2>3, <2>4, <2>5 DEF Home
<1>8. ASSUME NEW d \in Conns PROVE Agree(d)' /\ Begun(d)'
  <2>1. Agree(d) /\ Begun(d) /\ d # NoConn
    BY <1>0, ConnectionAssumption
  <2>2. Begun(d)'
    BY Zenon, <1>1, <2>1 DEF Begun
  <2>3. \A g \in Fds : io'[g].conn = d => g # f /\ io'[g] = io[g]
    BY Zenon, <1>2, <1>3, <2>1
  <2>4. Shares(d) => Shares(d)'
    BY Zenon, <1>1, <2>3 DEF Shares
  <2>5. \A t \in tasks : io'[t.fd].conn = d => io[t.fd].conn = d
    BY Zenon, <1>6, <2>3
  <2>6. QED
    BY Zenon, <1>1, <2>1, <2>2, <2>4, <2>5, AgreeKept
<1>9. QED
  BY <1>5, <1>7, <1>8 DEF IInv

\* The server ends: every io and every task is gone.
LEMMA ServerDiesOK ==
  ASSUME IInv, ServerDies
  PROVE  IInv'
<1>0. TypeOK /\ Home /\ \A d \in Conns : Agree(d) /\ Begun(d)
  BY DEF IInv
<1>1. /\ server' = "dead" /\ sock' = [f \in Fds |-> NoConn] /\ io' = [f \in Fds |-> NoIo] /\ tasks' = {}
      /\ link' = [c \in Conns |-> IF link[c] = "none" THEN "none" ELSE "down"]
      /\ UNCHANGED <<main, thread, mgr, fd, loop, ckey, disc, told, reply, sent, down, stale>>
  BY DEF ServerDies, cvars
<1>2. NoIo \in [conn : Conns \cup {NoConn}, key : AllKeys] /\ NoIo.conn = NoConn
  BY Zenon DEF NoIo, AllKeys
<1>3. TypeOK'
  BY Zenon, <1>0, <1>1, <1>2 DEF TypeOK
<1>4. Home'
  BY Zenon, <1>1, <1>2, ConnectionAssumption DEF Home
<1>5. ASSUME NEW d \in Conns PROVE Agree(d)' /\ Begun(d)'
  <2>1. Begun(d)' /\ Shares(d)' /\ Agree(d) /\ (link'[d] \in Unaccepted => link[d] \in Unaccepted)
    BY Zenon, <1>0, <1>1, <1>2, ConnectionAssumption DEF Begun, Shares, Unaccepted
  <2>2. QED
    BY Zenon, <1>1, <2>1 DEF Agree
<1>6. QED
  BY <1>3, <1>4, <1>5 DEF IInv
-----------------------------------------------------------------------------
\* ep_cert_server_security: the io gets the key of its own client, or that of
\* an earlier one, which is what stale records.
LEMMA ServerSecurityOK ==
  ASSUME IInv, NEW t \in tasks, ServerSecurity(t)
  PROVE  IInv'
<1>0. TypeOK /\ Home /\ \A d \in Conns : Agree(d) /\ Begun(d)
  BY DEF IInv
<1>1. CASE ServerDies
  BY <1>1, ServerDiesOK
<1>2. CASE ~ServerDies
  <2>1. /\ io[t.fd] # NoIo
        /\ io' = [io EXCEPT ![t.fd].key = t.key]
        /\ stale' = IF io[t.fd].conn = t.from THEN stale ELSE stale \cup {io[t.fd].conn}
        /\ tasks' = (tasks \ {t}) \cup {[t EXCEPT !.at = "combine"]}
        /\ UNCHANGED <<main, thread, mgr, fd, loop, ckey, disc, told, reply, link, sent, down,
                       server, sock>>
    BY <1>2 DEF ServerSecurity, cvars
  <2>2. /\ t.fd \in Fds /\ t.from \in Conns /\ t.key \in AllKeys /\ t.with \in AllKeys
        /\ t \in [fd : Fds, from : Conns, key : AllKeys, at : {"update", "combine", "push"}, with : AllKeys]
    BY Zenon, <1>0 DEF TypeOK
  <2>3. PICK e : e = io[t.fd].conn
    BY Zenon
  <2>4. e \in Conns /\ e = sock[t.fd]
    BY <1>0, <2>1, <2>2, <2>3 DEF TypeOK, Home
  <2>5. PICK u : u = [t EXCEPT !.at = "combine"]
    BY Zenon
  <2>6. /\ u.fd = t.fd /\ u.from = t.from /\ u.key = t.key /\ u.at = "combine"
        /\ u \in [fd : Fds, from : Conns, key : AllKeys, at : {"update", "combine", "push"}, with : AllKeys]
    BY <2>2, <2>5
  <2>7. tasks' = (tasks \ {t}) \cup {u}
    BY <2>1, <2>5
  <2>8. /\ io' \in [Fds -> [conn : Conns \cup {NoConn}, key : AllKeys]]
        /\ io'[t.fd].conn = e /\ io'[t.fd].key = t.key
        /\ \A g \in Fds : g # t.fd => io'[g] = io[g]
    <3>1. io \in [Fds -> [conn : Conns \cup {NoConn}, key : AllKeys]] /\ io[t.fd].conn = e
      BY Zenon, <1>0, <2>3 DEF TypeOK
    <3>2. QED
      BY <2>1, <2>2, <3>1
  <2>9. TypeOK'
    BY <1>0, <2>1, <2>3, <2>4, <2>6, <2>7, <2>8 DEF TypeOK
  <2>10. Home'
    <3>1. \A g \in Fds : io'[g].conn = sock[g] /\ (sock[g] = NoConn => io'[g] = NoIo)
      <4>1. \A g \in Fds : io[g].conn = sock[g] /\ (sock[g] = NoConn => io[g] = NoIo)
        BY Zenon, <1>0 DEF Home
      <4>2. e # NoConn
        BY Zenon, <2>4, ConnectionAssumption
      <4>3. QED
        BY Zenon, <2>4, <2>8, <4>1, <4>2
    <3>2. \A v \in tasks', g \in Fds : sock[g] = v.from => g = v.fd
      BY <1>0, <2>6, <2>7 DEF Home
    <3>3. \A d \in Conns : link[d] \in Unaccepted => \A v \in tasks' : v.from # d
      BY <1>0, <2>6, <2>7 DEF Home
    <3>4. QED
      BY <1>0, <2>1, <3>1, <3>2, <3>3 DEF Home
  <2>11. ASSUME NEW d \in Conns PROVE Agree(d)' /\ Begun(d)'
    <3>1. Begun(d)' /\ Agree(d)
      BY <1>0, <2>1 DEF Begun
    <3>2. SUFFICES ASSUME d \notin stale', main[d] \notin Over PROVE Agree(d)'
      BY Zenon, <2>1, <3>1 DEF Agree
    <3>3. d \notin stale /\ (d = e => t.from = d)
      BY <2>1, <2>3, <3>2
    <3>4. t.from = d => t.key = ckey[d]
      BY Zenon, <3>1, <3>2, <3>3 DEF Agree
    <3>5. t.from = d => Shares(d)'
      <4>1. SUFFICES ASSUME t.from = d, NEW g \in Fds, io'[g].conn = d
                     PROVE  io'[g].key = ckey[d]
        BY <2>1 DEF Shares
      <4>2. g = t.fd
        <5>1. io[g].conn = d
          BY Zenon, <4>1, <2>3, <2>8
        <5>2. sock[g] = t.from
          BY Zenon, <1>0, <4>1, <5>1 DEF Home
        <5>3. QED
          BY Zenon, <1>0, <5>2 DEF Home
      <4>3. QED
        BY Zenon, <3>4, <4>1, <4>2, <2>8
    <3>6. Shares(d) => Shares(d)'
      <4>1. CASE t.from = d
        BY <3>5, <4>1
      <4>2. CASE t.from # d
        <5>1. d # e
          BY Zenon, <3>3, <4>2
        <5>2. \A g \in Fds : io'[g].conn = d => io'[g] = io[g]
          BY Zenon, <2>8, <5>1
        <5>3. QED
          BY Zenon, <2>1, <5>2 DEF Shares
      <4>3. QED
        BY <4>1, <4>2
    <3>7. \A v \in tasks : io'[v.fd].conn = d <=> io[v.fd].conn = d
      <4>1. \A v \in tasks : v.fd \in Fds
        BY <1>0 DEF TypeOK
      <4>2. \A g \in Fds : io'[g].conn = d <=> io[g].conn = d
        BY Zenon, <2>3, <2>8
      <4>3. QED
        BY Zenon, <4>1, <4>2
    <3>8. \A v \in tasks' : v.from = d =>
            /\ v.key = ckey[d]
            /\ v.at # "update" => Shares(d)'
            /\ v.at = "push" /\ io'[v.fd].conn = d => v.with = ckey[d]
      <4>1. SUFFICES ASSUME NEW v \in tasks', v.from = d
                     PROVE  /\ v.key = ckey[d]
                            /\ v.at # "update" => Shares(d)'
                            /\ v.at = "push" /\ io'[v.fd].conn = d => v.with = ckey[d]
        BY Zenon
      <4>2. CASE v = u
        BY Zenon, <2>6, <3>4, <3>5, <4>1, <4>2
      <4>3. CASE v \in tasks
        BY Zenon, <3>1, <3>2, <3>3, <3>6, <3>7, <4>1, <4>3 DEF Agree
      <4>4. QED
        BY Zenon, <2>7, <4>2, <4>3
    <3>9. main[d] \in Early => \A v \in tasks' : v.from # d
      BY Zenon, <2>6, <2>7, <3>1, <3>2, <3>3 DEF Agree
    <3>10. QED
      BY <2>1, <3>1, <3>2, <3>3, <3>6, <3>8, <3>9 DEF Agree
  <2>12. QED
    BY <2>9, <2>10, <2>11 DEF IInv
<1>3. QED
  BY <1>1, <1>2

\* ep_io_combine_shell: the answer is encrypted with the key of the io, which
\* is the client's if the io still is.
LEMMA CombineOK ==
  ASSUME IInv, NEW t \in tasks, Combine(t)
  PROVE  IInv'
<1>0. TypeOK /\ Home /\ \A d \in Conns : Agree(d) /\ Begun(d)
  BY DEF IInv
<1>1. CASE ServerDies
  BY <1>1, ServerDiesOK
<1>2. CASE ~ServerDies
  <2>1. /\ t.at = "combine" /\ tasks' = (tasks \ {t}) \cup {[t EXCEPT !.at = "push", !.with = io[t.fd].key]}
        /\ UNCHANGED <<main, thread, mgr, fd, loop, ckey, disc, told, reply, link, sent, down,
                       server, sock, io, stale>>
    BY <1>2 DEF Combine, cvars
  <2>2. t.fd \in Fds /\ t.from \in Conns
    BY <1>0 DEF TypeOK
  <2>3. PICK k \in AllKeys : k = io[t.fd].key
    BY Zenon, <1>0, <2>2 DEF TypeOK
  <2>4. PICK u : u = [t EXCEPT !.at = "push", !.with = k]
    OBVIOUS
  <2>5. t \in [fd : Fds, from : Conns, key : AllKeys, at : {"update", "combine", "push"}, with : AllKeys]
    BY Zenon, <1>0 DEF TypeOK
  <2>6. /\ u.fd = t.fd /\ u.from = t.from /\ u.key = t.key /\ u.at = "push" /\ u.with = k
        /\ u \in [fd : Fds, from : Conns, key : AllKeys, at : {"update", "combine", "push"}, with : AllKeys]
    BY Zenon, <2>4, <2>5
  <2>7. tasks' = (tasks \ {t}) \cup {u}
    BY <2>1, <2>3, <2>4
  <2>8. TypeOK'
    BY <1>0, <2>1, <2>6, <2>7 DEF TypeOK
  <2>9. Home'
    <3>1. \A v \in tasks', g \in Fds : sock[g] = v.from => g = v.fd
      BY <1>0, <2>6, <2>7 DEF Home
    <3>2. \A d \in Conns : link[d] \in Unaccepted => \A v \in tasks' : v.from # d
      BY <1>0, <2>6, <2>7 DEF Home
    <3>3. QED
      BY <1>0, <2>1, <3>1, <3>2 DEF Home
  <2>10. ASSUME NEW d \in Conns PROVE Agree(d)' /\ Begun(d)'
    <3>1. Begun(d)' /\ Agree(d) /\ (Shares(d)' <=> Shares(d))
      BY <1>0, <2>1 DEF Begun, Shares
    <3>2. SUFFICES ASSUME d \notin stale, main[d] \notin Over PROVE Agree(d)'
      BY <2>1, <3>1 DEF Agree
    <3>3. t.from = d => t.key = ckey[d] /\ Shares(d)
      BY <2>1, <3>1, <3>2 DEF Agree
    <3>4. t.from = d /\ io[t.fd].conn = d => k = ckey[d]
      BY Zenon, <2>2, <2>3, <3>3 DEF Shares
    <3>5. \A v \in tasks' : v.from = d =>
            /\ v.key = ckey[d]
            /\ v.at # "update" => Shares(d)
            /\ v.at = "push" /\ io[v.fd].conn = d => v.with = ckey[d]
      BY <2>6, <2>7, <3>1, <3>2, <3>3, <3>4 DEF Agree
    <3>6. main[d] \in Early => \A v \in tasks' : v.from # d
      BY <2>6, <2>7, <3>1, <3>2 DEF Agree
    <3>7. QED
      BY <2>1, <3>1, <3>2, <3>5, <3>6 DEF Agree
  <2>11. QED
    BY <2>8, <2>9, <2>10 DEF IInv
<1>3. QED
  BY <1>1, <1>2

\* The answer goes to the client of the descriptor: its own, or a stale one.
LEMMA PushOK ==
  ASSUME IInv, NEW t \in tasks, Push(t)
  PROVE  IInv'
<1>0. TypeOK /\ Home /\ \A d \in Conns : Agree(d) /\ Begun(d)
  BY DEF IInv
<1>1. /\ t.at = "push" /\ tasks' = tasks \ {t}
      /\ down' = IF io[t.fd] = NoIo \/ link[io[t.fd].conn] = "down" THEN down
                 ELSE [down EXCEPT ![io[t.fd].conn] = @ \cup {t.with}]
      /\ stale' = IF io[t.fd].conn \in {NoConn, t.from} THEN stale ELSE stale \cup {io[t.fd].conn}
      /\ UNCHANGED <<main, thread, mgr, fd, loop, ckey, disc, told, reply, link, sent,
                     server, sock, io>>
  BY Zenon DEF Push, cvars
<1>2. t.fd \in Fds /\ t.from \in Conns /\ t.with \in AllKeys
  BY <1>0 DEF TypeOK
<1>3. PICK e \in Conns \cup {NoConn} : e = io[t.fd].conn
  BY Zenon, <1>0, <1>2 DEF TypeOK
<1>4. e = sock[t.fd] /\ (e = NoConn => io[t.fd] = NoIo)
  BY Zenon, <1>0, <1>2, <1>3 DEF Home
<1>5. /\ down' \in [Conns -> SUBSET AllKeys]
      /\ \A d \in Conns : d # e => down'[d] = down[d]
      /\ e \in Conns => down'[e] \subseteq down[e] \cup {t.with}
  <2>1. down \in [Conns -> SUBSET AllKeys]
    BY Zenon, <1>0 DEF TypeOK
  <2>2. \/ down' = down
        \/ e \in Conns /\ down' = [down EXCEPT ![e] = @ \cup {t.with}]
    BY Zenon, <1>1, <1>3, <1>4
  <2>3. CASE down' = down
    BY <2>1, <2>3
  <2>4. CASE e \in Conns /\ down' = [down EXCEPT ![e] = @ \cup {t.with}]
    BY <1>2, <2>1, <2>4
  <2>5. QED
    BY Zenon, <2>2, <2>3, <2>4
<1>6. stale' \subseteq Conns /\ stale \subseteq stale' /\ (e \in Conns /\ e # t.from => e \in stale')
  <2>1. stale \subseteq Conns
    BY Zenon, <1>0 DEF TypeOK
  <2>2. stale' = IF e \in {NoConn, t.from} THEN stale ELSE stale \cup {e}
    BY Zenon, <1>1, <1>3
  <2>3. QED
    BY Zenon, <1>3, <2>1, <2>2, ConnectionAssumption
<1>7. TypeOK'
  BY Zenon, <1>0, <1>1, <1>5, <1>6 DEF TypeOK
<1>8. Home'
  BY Zenon, <1>0, <1>1 DEF Home
<1>9. ASSUME NEW d \in Conns PROVE Agree(d)' /\ Begun(d)'
  <2>1. Begun(d)' /\ Agree(d) /\ (Shares(d)' <=> Shares(d))
    BY Zenon, <1>0, <1>1 DEF Begun, Shares
  <2>2. SUFFICES ASSUME d \notin stale', main[d] \notin Over PROVE Agree(d)'
    BY Zenon, <1>1, <2>1 DEF Agree
  <2>3. d \notin stale /\ (d = e => t.from = d)
    BY Zenon, <1>6, <2>2
  <2>4. CASE d # e
    BY Zenon, <1>1, <1>5, <2>1, <2>2, <2>3, <2>4 DEF Agree
  <2>5. CASE d = e
    <3>1. t.from = d /\ t.with = ckey[d] /\ Shares(d) /\ main[d] \notin Early
      BY Zenon, <1>1, <1>3, <2>1, <2>2, <2>3, <2>5 DEF Agree
    <3>2. link[d] \notin Unaccepted
      BY Zenon, <1>0, <3>1 DEF Home
    <3>3. QED
      BY Zenon, <1>1, <1>5, <2>1, <2>2, <2>3, <2>5, <3>1, <3>2 DEF Agree
  <2>6. QED
    BY <2>4, <2>5
<1>10. QED
  BY <1>7, <1>8, <1>9 DEF IInv
-----------------------------------------------------------------------------
\* Nothing is connected.
LEMMA InitOK == Init => IInv
<1>1. SUFFICES ASSUME Init PROVE IInv
  OBVIOUS
<1>2. NoIo \in [conn : Conns \cup {NoConn}, key : AllKeys] /\ NoIo.conn = NoConn /\ NoKey \in AllKeys
  BY Zenon DEF NoIo, AllKeys
<1>3. TypeOK
  BY Zenon, <1>1, <1>2 DEF Init, TypeOK
<1>4. Home
  BY Zenon, <1>1, <1>2, ConnectionAssumption DEF Init, Home
<1>5. ASSUME NEW c \in Conns PROVE Agree(c) /\ Begun(c)
  BY Zenon, <1>1 DEF Init, Agree, Begun
<1>6. QED
  BY <1>3, <1>4, <1>5 DEF IInv

\* Every step keeps the invariant.
LEMMA StepOK == IInv /\ [Next]_vars => IInv'
<1>1. SUFFICES ASSUME IInv, [Next]_vars PROVE IInv'
  OBVIOUS
<1>2. ASSUME NEW c \in Conns, Refused(c) \/ Start(c) \/ Disconnect(c) \/ Break(c) \/ Accept(c)
      PROVE  IInv'
  BY Zenon, <1>1, <1>2, MainOK, ThreadOK, AcceptOK
<1>3. ASSUME NEW c \in Conns, Starting(c) PROVE IInv'
  BY Zenon, <1>1, <1>3, MainOK, GenKeyOK, SendKeyOK DEF Starting
<1>4. ASSUME NEW c \in Conns, Stopping(c) PROVE IInv'
  BY Zenon, <1>1, <1>4, MainOK, ThreadOK, JoinOK DEF Stopping
<1>5. ASSUME NEW c \in Conns, Receiving(c) PROVE IInv'
  BY Zenon, <1>1, <1>5, ThreadOK, RecvAnswerOK, DieOK DEF Receiving
<1>6. ASSUME NEW f \in Fds, ReadKey(f) \/ CloseFd(f) PROVE IInv'
  BY <1>1, <1>6, ReadKeyOK, CloseFdOK
<1>7. ASSUME NEW t \in tasks, ServerSecurity(t) \/ Combine(t) \/ Push(t) PROVE IInv'
  BY <1>1, <1>7, ServerSecurityOK, CombineOK, PushOK
<1>8. CASE UNCHANGED vars
  <2>1. TypeOK' /\ \A d \in Conns : Begun(d)'
    BY Zenon, <1>1, <1>8 DEF IInv, TypeOK, Begun, vars, cvars, svars
  <2>2. QED
    BY Zenon, <1>1, <1>8, <2>1, Frame DEF vars, cvars, svars
<1>9. QED
  BY Zenon, <1>1, <1>2, <1>3, <1>4, <1>5, <1>6, <1>7, <1>8 DEF Next

\* The inductive invariant holds in every state.
THEOREM Invariance == Spec => []IInv
BY InitOK, StepOK, PTL DEF Spec

\* Variables keep their kinds; disc_cb is called at most once for a
\* connection, and the client is freed after its receive thread
\* (ep_client.c:38-109).
THEOREM TypeCorrect == Spec => []TypeOK
<1>1. IInv => TypeOK
  BY DEF IInv
<1>2. QED
  BY <1>1, Invariance, PTL

\* A client that was told that its key is accepted shares it with the io of
\* its connection, for any number of connections and descriptors, unless a
\* handshake of an earlier connection with its descriptor was handled late
\* (ep_cert_server_security, ep_io_update_aes).
THEOREM ClientAndServerShareKey == Spec => []KeysAgree
<1>1. IInv => KeysAgree
  BY Zenon DEF IInv, Agree, Shares, KeysAgree, Over
<1>2. QED
  BY <1>1, Invariance, PTL
=============================================================================
