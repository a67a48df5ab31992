-------------------------- MODULE ThreadPoolProofs --------------------------
(***************************************************************************)
(* Proofs about the thread pool, for any number of threads and workers:    *)
(* a worker its caller leaves alone has one owner at a time and runs at    *)
(* most once, and tp_kill_wait runs what was queued before it.             *)
(***************************************************************************)
EXTENDS ThreadPool, SequenceTheorems, TLAPS

\* Worker w is in the sequence q, and no more than once.
In(q, w)   == \E i \in DOMAIN q : q[i] = w
Once(q, w) == \A i, j \in DOMAIN q : q[i] = w /\ q[j] = w => i = j

\* r is q without its k-th element.
Drops(q, r, k) ==
  /\ Len(r) = Len(q) - 1
  /\ \A i \in 1 .. Len(r) : r[i] = IF i < k THEN q[i] ELSE q[i + 1]

\* Where a worker is: in the queue, in the hands of one thread, or nowhere;
\* its state and how often it ran follow from that.
Place(w) ==
  /\ Once(queue, w)
  /\ \A t, u \in Threads : hand[t] = w /\ hand[u] = w => t = u
  /\ In(queue, w) => /\ \A t \in Threads : hand[t] # w
                     /\ state[w] = "idle" /\ ran[w] = 0
  /\ \A t \in Threads : hand[t] = w =>
       /\ thr[t] = "taken" => state[w] = "idle" /\ ran[w] = 0
       /\ thr[t] = "running" => state[w] = "busy" /\ ran[w] = 1
       /\ thr[t] = "posted" => state[w] = "complete" /\ ran[w] = 1
  /\ reg[w] # "registered" => /\ ~In(queue, w) /\ ran[w] = 0
                              /\ \A t \in Threads : hand[t] # w
  /\ ran[w] \in {0, 1}

\* What tp_kill_wait knows of a worker that was queued when it was called:
\* it is on its way or has run, and once the poll is over it left the queue.
Kept(w) ==
  kill = "wait" /\ w \in early =>
    /\ reg[w] = "registered"
    /\ In(queue, w) \/ (\E t \in Threads : hand[t] = w) \/ ran[w] = 1
    /\ destroy # "poll" => ~In(queue, w)

\* early is set by ep_tp_destroy, and the pool is freed after every thread.
Ending ==
  /\ destroy = "none" => early = {}
  /\ destroy = "freed" => \A t \in Threads : thr[t] = "exited"

IInv ==
  /\ TypeOK /\ Ending
  /\ \A w \in Workers \ Cancelled : Place(w) /\ Kept(w)
-----------------------------------------------------------------------------
\* A queue that loses its k-th element: what was there once stays there
\* once, but for the element that left.
LEMMA Shrink ==
  ASSUME NEW q \in Seq(Workers), NEW r \in Seq(Workers), NEW k \in 1 .. Len(q),
         Drops(q, r, k), NEW w
  PROVE  /\ In(r, w) => In(q, w)
         /\ Once(q, w) => Once(r, w)
         /\ Once(q, w) /\ q[k] = w => ~In(r, w)
         /\ q[k] # w /\ In(q, w) => In(r, w)
<1>0. /\ Len(r) = Len(q) - 1
      /\ \A i \in 1 .. Len(r) : r[i] = IF i < k THEN q[i] ELSE q[i + 1]
  BY Zenon DEF Drops
<1> USE <1>0
<1>1. DOMAIN q = 1 .. Len(q) /\ DOMAIN r = 1 .. Len(r) /\ Len(q) \in Nat /\ Len(r) \in Nat
  OBVIOUS
<1>2. ASSUME In(r, w) PROVE In(q, w)
  <2>1. PICK i \in 1 .. Len(r) : r[i] = w
    BY Zenon, <1>1, <1>2 DEF In
  <2>2. /\ i \in 1 .. Len(q) /\ i + 1 \in 1 .. Len(q)
        /\ q[i] = w \/ q[i + 1] = w
    BY <1>1, <2>1
  <2>3. QED
    BY Zenon, <1>1, <2>2 DEF In
<1>3. ASSUME Once(q, w) PROVE Once(r, w)
  <2>1. SUFFICES ASSUME NEW i \in 1 .. Len(r), NEW j \in 1 .. Len(r), r[i] = w, r[j] = w
                 PROVE  i = j
    BY Zenon, <1>1 DEF Once
  <2>2. /\ i \in 1 .. Len(q) /\ i + 1 \in 1 .. Len(q)
        /\ j \in 1 .. Len(q) /\ j + 1 \in 1 .. Len(q)
    BY <1>1
  <2>3. \A a, b \in 1 .. Len(q) : q[a] = w /\ q[b] = w => a = b
    BY Zenon, <1>1, <1>3 DEF Once
  <2>4. CASE i < k /\ j < k
    BY Zenon, <2>1, <2>2, <2>3, <2>4
  <2>5. CASE i < k /\ ~(j < k)
    <3>1. q[i] = w /\ q[j + 1] = w
      BY Zenon, <2>1, <2>5
    <3>2. i = j + 1
      BY Zenon, <3>1, <2>2, <2>3
    <3>3. QED
      BY <3>2, <2>5
  <2>6. CASE ~(i < k) /\ j < k
    <3>1. q[i + 1] = w /\ q[j] = w
      BY Zenon, <2>1, <2>6
    <3>2. i + 1 = j
      BY Zenon, <3>1, <2>2, <2>3
    <3>3. QED
      BY <3>2, <2>6
  <2>7. CASE ~(i < k) /\ ~(j < k)
    <3>1. q[i + 1] = w /\ q[j + 1] = w
      BY Zenon, <2>1, <2>7
    <3>2. i + 1 = j + 1
      BY Zenon, <3>1, <2>2, <2>3
    <3>3. QED
      BY <3>2
  <2>8. QED
    BY Zenon, <2>4, <2>5, <2>6, <2>7
<1>4. Once(q, w) /\ q[k] = w => ~In(r, w)
  <2>1. SUFFICES ASSUME Once(q, w), q[k] = w, NEW i \in 1 .. Len(r), r[i] = w PROVE FALSE
    BY Zenon, <1>1 DEF In
  <2>2. i \in 1 .. Len(q) /\ i + 1 \in 1 .. Len(q) /\ r[i] = IF i < k THEN q[i] ELSE q[i + 1]
    BY <1>1
  <2>3. \A a \in 1 .. Len(q) : q[a] = w => a = k
    BY Zenon, <1>1, <2>1 DEF Once
  <2>4. IF i < k THEN i = k ELSE i + 1 = k
    BY Zenon, <2>1, <2>2, <2>3
  <2>5. QED
    BY <2>4
<1>5. ASSUME q[k] # w, In(q, w) PROVE In(r, w)
  <2>1. PICK i \in 1 .. Len(q) : q[i] = w
    BY Zenon, <1>1, <1>5 DEF In
  <2>2. CASE i < k
    <3>1. i \in 1 .. Len(r) /\ r[i] = w
      BY <2>1, <2>2, <1>1
    <3>2. QED
      BY Zenon, <3>1, <1>1 DEF In
  <2>3. CASE i > k
    <3>1. i - 1 \in 1 .. Len(r) /\ r[i - 1] = w
      BY <2>1, <2>3, <1>1
    <3>2. QED
      BY Zenon, <3>1, <1>1 DEF In
  <2>4. QED
    BY <2>1, <2>2, <2>3, <1>5
<1>6. QED
  BY <1>2, <1>3, <1>4, <1>5

\* The first worker leaves the queue.
LEMMA TailShrinks ==
  ASSUME NEW q \in Seq(Workers), q # << >>, NEW w
  PROVE  /\ Tail(q) \in Seq(Workers) /\ Head(q) \in Workers /\ In(q, Head(q))
         /\ In(Tail(q), w) => In(q, w)
         /\ Once(q, w) => Once(Tail(q), w)
         /\ Once(q, w) /\ Head(q) = w => ~In(Tail(q), w)
         /\ Head(q) # w /\ In(q, w) => In(Tail(q), w)
<1>0. Len(q) \in Nat /\ 1 \in 1 .. Len(q) /\ Head(q) = q[1] /\ Head(q) \in Workers
  OBVIOUS
<1>1. /\ Tail(q) \in Seq(Workers) /\ Len(Tail(q)) = Len(q) - 1
      /\ \A i \in 1 .. Len(Tail(q)) : Tail(q)[i] = IF i < 1 THEN q[i] ELSE q[i + 1]
  BY <1>0
<1>2. In(q, Head(q))
  BY <1>0 DEF In
<1>3. PICK r \in Seq(Workers) : r = Tail(q)
  BY Zenon, <1>1
<1>4. PICK k \in 1 .. Len(q) : k = 1
  BY Zenon, <1>0
<1>5. Drops(q, r, k)
  BY Zenon, <1>1, <1>3, <1>4 DEF Drops
<1>6. /\ In(r, w) => In(q, w)
      /\ Once(q, w) => Once(r, w)
      /\ Once(q, w) /\ q[k] = w => ~In(r, w)
      /\ q[k] # w /\ In(q, w) => In(r, w)
  BY Zenon, <1>5, Shrink
<1>7. q[k] = Head(q)
  BY Zenon, <1>0, <1>4
<1>8. QED
  BY <1>0, <1>1, <1>2, <1>3, <1>6, <1>7, Zenon

\* A worker joins the queue at its end.
LEMMA AppendJoins ==
  ASSUME NEW q \in Seq(Workers), NEW v \in Workers, NEW w
  PROVE  /\ Append(q, v) \in Seq(Workers)
         /\ In(Append(q, v), w) <=> In(q, w) \/ w = v
         /\ Once(q, w) /\ (w # v \/ ~In(q, w)) => Once(Append(q, v), w)
<1>1. /\ Append(q, v) \in Seq(Workers) /\ Len(q) \in Nat
      /\ DOMAIN Append(q, v) = 1 .. Len(q) + 1 /\ DOMAIN q = 1 .. Len(q)
      /\ \A i \in 1 .. Len(q) : Append(q, v)[i] = q[i]
      /\ Append(q, v)[Len(q) + 1] = v
  OBVIOUS
<1>2. \A i \in 1 .. Len(q) + 1 : i \in 1 .. Len(q) \/ i = Len(q) + 1
  BY <1>1
<1>3. In(Append(q, v), w) <=> In(q, w) \/ w = v
  BY <1>1, <1>2 DEF In
<1>4. Once(q, w) /\ (w # v \/ ~In(q, w)) => Once(Append(q, v), w)
  BY Zenon, <1>1, <1>2 DEF In, Once
<1>5. QED
  BY Zenon, <1>1, <1>3, <1>4

\* ep_tp_worker_free takes a worker out of the queue, if it is there, and
\* no other one.
LEMMA ReleaseUnlinks ==
  ASSUME TypeOK, NEW v \in Workers, Release(v), NEW w
  PROVE  /\ queue' \in Seq(Workers)
         /\ In(queue', w) => In(queue, w)
         /\ Once(queue, w) => Once(queue', w)
         /\ w # v /\ In(queue, w) => In(queue', w)
<1>1. queue \in Seq(Workers)
  BY Zenon DEF TypeOK
<1>2. CASE Queued(v) = {}
  BY <1>1, <1>2 DEF Release
<1>3. CASE Queued(v) # {}
  <2>1. PICK k : k = CHOOSE i \in Queued(v) : TRUE
    BY Zenon
  <2>2. k \in 1 .. Len(queue) /\ queue[k] = v
    BY <2>1, <1>3, <1>1 DEF Queued
  <2>3. queue' = SubSeq(queue, 1, k - 1) \o SubSeq(queue, k + 1, Len(queue))
    BY Zenon, <2>1, <1>3 DEF Release, Unlink
  <2>. DEFINE a == SubSeq(queue, 1, k - 1)
              b == SubSeq(queue, k + 1, Len(queue))
  <2>a. /\ a \in Seq(Workers) /\ Len(a) = k - 1
        /\ \A i \in 1 .. Len(a) : a[i] = queue[i]
    BY <2>2, <1>1
  <2>b. /\ b \in Seq(Workers) /\ Len(b) = Len(queue) - k
        /\ \A i \in 1 .. Len(b) : b[i] = queue[k + i]
    BY <2>2, <1>1
  <2>c. queue' = a \o b
    BY Zenon, <2>3
  <2>. HIDE DEF a, b
  <2>4. /\ queue' \in Seq(Workers) /\ Len(queue') = Len(queue) - 1
        /\ \A i \in 1 .. Len(queue') : queue'[i] = IF i < k THEN queue[i] ELSE queue[i + 1]
    <3>1. /\ a \o b \in Seq(Workers) /\ Len(a \o b) = Len(a) + Len(b)
          /\ \A i \in 1 .. Len(a) + Len(b) :
               (a \o b)[i] = IF i <= Len(a) THEN a[i] ELSE b[i - Len(a)]
      BY Zenon, <2>a, <2>b, ConcatProperties
    <3>2. Len(queue') = Len(queue) - 1
      BY <3>1, <2>a, <2>b, <2>c, <2>2, <1>1
    <3>3. ASSUME NEW i \in 1 .. Len(queue')
          PROVE  queue'[i] = IF i < k THEN queue[i] ELSE queue[i + 1]
      <4>1. CASE i < k
        BY <4>1, <3>1, <3>2, <2>a, <2>b, <2>c, <2>2, <1>1
      <4>2. CASE ~(i < k)
        <5>1. i - Len(a) \in 1 .. Len(b) /\ k + (i - Len(a)) = i + 1
          BY <4>2, <3>2, <2>a, <2>b, <2>2, <1>1
        <5>2. queue'[i] = b[i - Len(a)]
          <6>1. i \in 1 .. Len(a) + Len(b) /\ ~(i <= Len(a))
            BY <4>2, <3>2, <2>a, <2>b, <2>2, <1>1
          <6>2. QED
            BY Zenon, <6>1, <3>1, <2>c
        <5>3. QED
          BY Zenon, <4>2, <5>1, <5>2, <2>b
      <4>3. QED
        BY Zenon, <4>1, <4>2
    <3>4. QED
      BY Zenon, <3>1, <3>2, <3>3, <2>c
  <2>5. PICK r \in Seq(Workers) : r = queue'
    BY Zenon, <2>4
  <2>6. Drops(queue, r, k)
    BY Zenon, <2>4, <2>5 DEF Drops
  <2>7. QED
    BY Zenon, <2>2, <2>4, <2>5, <2>6, <1>1, Shrink
<1>4. QED
  BY Zenon, <1>2, <1>3
-----------------------------------------------------------------------------
\* The invariant gives the checked properties.
LEMMA IInvOneOwner == IInv => OneOwner
<1>1. SUFFICES ASSUME TypeOK, NEW w \in Workers \ Cancelled, Place(w)
               PROVE  /\ \A t, u \in Holders(w) : t = u
                      /\ \A i, j \in Queued(w) : i = j
                      /\ Queued(w) # {} => Holders(w) = {} /\ state[w] = "idle"
                      /\ Holders(w) # {} => state[w] \in {"idle", "busy", "complete"}
                      /\ \A t \in Holders(w) :
                           /\ thr[t] = "taken" => state[w] = "idle" /\ ran[w] = 0
                           /\ thr[t] = "running" => state[w] = "busy"
                           /\ thr[t] = "posted" => state[w] = "complete"
                      /\ Queued(w) # {} => ran[w] = 0
                      /\ ran[w] <= 1
  BY Zenon DEF IInv, OneOwner
<1>2. Queued(w) # {} <=> In(queue, w)
  BY DEF Queued, In
<1>3. \A i, j \in Queued(w) : i = j
  BY Zenon, <1>1 DEF Queued, Place, Once
<1>4. \A t \in Holders(w) : t \in Threads /\ hand[t] = w /\ thr[t] \in {"taken", "running", "posted"}
  BY Zenon, <1>1, PoolAssumption DEF Holders, TypeOK
<1>5. QED
  BY <1>1, <1>2, <1>3, <1>4 DEF Place, Holders

\* At freed no thread holds a worker, and none of the early ones is queued.
LEMMA IInvKillWait == IInv => KillWaitRunsQueued
<1>1. SUFFICES ASSUME IInv, kill = "wait", destroy = "freed", NEW w \in early \ Cancelled
               PROVE  ran[w] = 1
  BY Zenon DEF KillWaitRunsQueued
<1>2. w \in Workers \ Cancelled /\ TypeOK /\ Kept(w) /\ Ending
  BY Zenon, <1>1 DEF IInv, TypeOK
<1>3. \A t \in Threads : hand[t] # w
  BY <1>1, <1>2, PoolAssumption DEF Ending, TypeOK
<1>4. QED
  BY Zenon, <1>1, <1>2, <1>3 DEF Kept

\* Steps that leave the queue, the threads and the workers alone.
LEMMA Frame ==
  ASSUME IInv, TypeOK', \A w \in Workers : reg[w] = "registered" <=> reg'[w] = "registered",
         UNCHANGED <<queue, thr, hand, state, ran, kill, destroy, early>>
  PROVE  IInv'
<1>1. ASSUME NEW w \in Workers \ Cancelled PROVE Place(w)' /\ Kept(w)'
  <2>1. Place(w) /\ Kept(w) /\ (reg[w] = "registered" <=> reg'[w] = "registered")
    BY Zenon DEF IInv
  <2>2. QED
    BY Zenon, <2>1 DEF Place, Kept
<1>2. Ending'
  BY DEF IInv, Ending
<1>3. QED
  BY Zenon, <1>1, <1>2 DEF IInv

\* ep_tp_worker_register's look at abort, and what callers look at.
LEMMA CallerOK ==
  ASSUME IInv, NEW w \in Workers,
         RegisterCheck(w) \/ Touch(w) \/ WaitEnter(w) \/ WaitReturn(w)
  PROVE  IInv'
<1>0. TypeOK
  BY Zenon DEF IInv
<1>1. CASE RegisterCheck(w)
  <2>1. TypeOK'
    BY Zenon, <1>0, <1>1 DEF TypeOK, RegisterCheck, threadVars, destroyVars
  <2>2. QED
    BY <2>1, <1>0, <1>1, Frame DEF TypeOK, RegisterCheck, threadVars, destroyVars
<1>2. CASE Touch(w)
  <2>a. /\ UNCHANGED <<queue, abort, reg, state, wait, ran, fault, thr, hand, kill, destroy, early>>
        /\ \E s \in {"idle", "busy", "complete", state[w]} : seen' = [seen EXCEPT ![w] = s]
    BY Zenon, <1>2 DEF Touch, threadVars, destroyVars
  <2>b. PICK s \in {"none", "idle", "busy", "complete", "freed"} : seen' = [seen EXCEPT ![w] = s]
    BY Zenon, <2>a, <1>0 DEF TypeOK
  <2>1. TypeOK'
    BY <1>0, <2>a, <2>b DEF TypeOK
  <2>2. QED
    BY Zenon, <2>1, <1>2, Frame DEF Touch, threadVars, destroyVars
<1>3. CASE WaitEnter(w)
  <2>1. TypeOK'
    BY Zenon, <1>0, <1>3 DEF TypeOK, WaitEnter, threadVars, destroyVars
  <2>2. QED
    BY Zenon, <2>1, <1>3, Frame DEF WaitEnter, threadVars, destroyVars
<1>4. CASE WaitReturn(w)
  <2>1. TypeOK'
    BY Zenon, <1>0, <1>4 DEF TypeOK, WaitReturn, threadVars, destroyVars
  <2>2. QED
    BY Zenon, <2>1, <1>4, Frame DEF WaitReturn, threadVars, destroyVars
<1>5. QED
  BY <1>1, <1>2, <1>3, <1>4

\* A new worker joins the queue: it was nowhere.
LEMMA RegisterInsertOK ==
  ASSUME IInv, NEW v \in Workers, RegisterInsert(v)
  PROVE  IInv'
<1>0. /\ TypeOK /\ reg[v] = "checked" /\ reg' = [reg EXCEPT ![v] = "registered"]
      /\ UNCHANGED <<abort, hand, seen, wait, ran, kill, destroy, early>>
  BY Zenon DEF IInv, RegisterInsert, destroyVars
<1>1. CASE destroy = "freed"
  <2>1. UNCHANGED <<queue, state, thr>> /\ fault' = "pool"
    BY Zenon, <1>1 DEF RegisterInsert
  <2>2. TypeOK'
    BY Zenon, <1>0, <2>1 DEF TypeOK
  <2>3. ASSUME NEW w \in Workers \ Cancelled PROVE Place(w)' /\ Kept(w)'
    <3>1. Place(w) /\ Kept(w)
      BY Zenon DEF IInv
    <3>2. reg'[w] = IF w = v THEN "registered" ELSE reg[w]
      BY <1>0 DEF TypeOK
    <3>3. QED
      BY Zenon, <3>1, <3>2, <2>1, <1>0 DEF Place, Kept
  <2>4. Ending'
    BY Zenon, <2>1, <1>0 DEF IInv, Ending
  <2>5. QED
    BY <2>2, <2>3, <2>4 DEF IInv
<1>2. CASE destroy # "freed"
  <2>1. /\ queue' = Append(queue, v) /\ state' = [state EXCEPT ![v] = "idle"]
        /\ thr' = [t \in Threads |-> IF thr[t] = "sleep" THEN "lock" ELSE thr[t]]
        /\ fault' = fault
    BY Zenon, <1>2 DEF RegisterInsert, Awake
  <2>2. queue' \in Seq(Workers)
    BY Zenon, <1>0, <2>1, AppendJoins DEF TypeOK
  <2>3. TypeOK'
    BY Zenon, <1>0, <2>1, <2>2 DEF TypeOK
  <2>4. ASSUME NEW w \in Workers \ Cancelled PROVE Place(w)' /\ Kept(w)'
    <3>1. Place(w) /\ Kept(w)
      BY DEF IInv
    <3>2. /\ reg'[w] = IF w = v THEN "registered" ELSE reg[w]
          /\ state'[w] = IF w = v THEN "idle" ELSE state[w]
          /\ \A t \in Threads : thr'[t] = IF thr[t] = "sleep" THEN "lock" ELSE thr[t]
      BY Zenon, <1>0, <2>1 DEF TypeOK
    <3>3. /\ In(queue', w) <=> In(queue, w) \/ w = v
          /\ Once(queue, w) /\ (w # v \/ ~In(queue, w)) => Once(queue', w)
      BY Zenon, <1>0, <2>1, AppendJoins DEF TypeOK
    <3>4. Place(w)'
      BY Zenon, <3>1, <3>2, <3>3, <1>0 DEF Place
    <3>5. Kept(w)'
      BY Zenon, <3>1, <3>2, <3>3, <1>0 DEF Kept
    <3>6. QED
      BY Zenon, <3>4, <3>5
  <2>5. Ending'
    BY Zenon, <1>0, <1>2 DEF IInv, Ending
  <2>6. QED
    BY <2>3, <2>4, <2>5 DEF IInv
<1>3. QED
  BY Zenon, <1>1, <1>2

\* A caller frees its own worker; it is none of those that are left alone.
LEMMA CancelOK ==
  ASSUME IInv, NEW v \in Workers, Cancel(v)
  PROVE  IInv'
<1>0. /\ TypeOK /\ v \in Cancelled /\ Release(v)
      /\ seen' = [seen EXCEPT ![v] = "gone"] /\ state' = [state EXCEPT ![v] = "freed"]
      /\ fault' \in {"worker", fault}
      /\ UNCHANGED <<abort, reg, wait, ran, thr, hand, kill, destroy, early>>
  BY Zenon DEF IInv, Cancel, Release, threadVars, destroyVars
<1>1. queue' \in Seq(Workers)
  BY Zenon, <1>0, ReleaseUnlinks
<1>2. TypeOK'
  BY Zenon, <1>0, <1>1 DEF TypeOK
<1>3. ASSUME NEW w \in Workers \ Cancelled PROVE Place(w)' /\ Kept(w)'
  <2>1. Place(w) /\ Kept(w) /\ w # v
    BY Zenon, <1>0 DEF IInv
  <2>2. state'[w] = state[w]
    BY Zenon, <1>0, <2>1 DEF TypeOK
  <2>3. (In(queue', w) <=> In(queue, w)) /\ (Once(queue, w) => Once(queue', w))
    BY Zenon, <1>0, <2>1, ReleaseUnlinks
  <2>4. Place(w)'
    BY Zenon, <2>1, <2>2, <2>3, <1>0 DEF Place
  <2>5. Kept(w)'
    BY Zenon, <2>1, <2>3, <1>0 DEF Kept
  <2>6. QED
    BY <2>4, <2>5
<1>4. Ending'
  BY Zenon, <1>0 DEF IInv, Ending
<1>5. QED
  BY <1>2, <1>3, <1>4 DEF IInv
-----------------------------------------------------------------------------
\* A thread that only moves, with empty hands before and after.
LEMMA MoveOK ==
  ASSUME IInv, NEW t \in Threads, thr[t] \in {"top", "lock", "sleep"},
         NEW s \in {"lock", "sleep", "exited"}, thr' = [thr EXCEPT ![t] = s],
         UNCHANGED <<queue, abort, hand, state, ran, fault, callerVars, destroyVars>>
  PROVE  IInv'
<1>0. /\ TypeOK /\ UNCHANGED <<reg, seen, wait, kill, destroy, early>>
      /\ \A u \in Threads : thr'[u] = IF u = t THEN s ELSE thr[u]
  BY Zenon DEF IInv, TypeOK, callerVars, destroyVars
<1>1. TypeOK'
  BY <1>0 DEF TypeOK
<1>2. ASSUME NEW w \in Workers \ Cancelled PROVE Place(w)' /\ Kept(w)'
  <2>1. Place(w) /\ Kept(w)
    BY Zenon DEF IInv
  <2>2. hand[t] # w
    BY Zenon, <1>0, PoolAssumption DEF TypeOK
  <2>3. QED
    BY <2>1, <2>2, <1>0 DEF Place, Kept
<1>3. Ending'
  BY Zenon, <1>0 DEF IInv, Ending
<1>4. QED
  BY Zenon, <1>1, <1>2, <1>3 DEF IInv

\* The first worker leaves the queue into the hands of one thread.
LEMMA TakeOK ==
  ASSUME IInv, NEW t \in Threads, Take(t)
  PROVE  IInv'
<1>1. CASE queue = << >>
  <2>1. PICK s \in {"lock", "sleep", "exited"} : thr' = [thr EXCEPT ![t] = s]
    BY Zenon, <1>1 DEF Take
  <2>2. QED
    BY Zenon, <1>1, <2>1, MoveOK DEF Take
<1>2. CASE queue # << >>
  <2>0. /\ TypeOK /\ thr[t] = "lock" /\ thr' = [thr EXCEPT ![t] = "taken"]
        /\ hand' = [hand EXCEPT ![t] = Head(queue)] /\ queue' = Tail(queue)
        /\ UNCHANGED <<abort, state, ran, fault, reg, seen, wait, kill, destroy, early>>
    BY Zenon, <1>2 DEF IInv, Take, callerVars, destroyVars
  <2>1. queue \in Seq(Workers)
    BY Zenon, <2>0 DEF TypeOK
  <2>2. PICK v \in Workers : v = Head(queue)
    BY Zenon, <2>1, <1>2, TailShrinks
  <2>3. queue' \in Seq(Workers) /\ In(queue, v)
    BY Zenon, <2>0, <2>1, <2>2, <1>2, TailShrinks
  <2>4. \A u \in Threads : /\ hand'[u] = IF u = t THEN v ELSE hand[u]
                           /\ thr'[u] = IF u = t THEN "taken" ELSE thr[u]
    BY <2>0, <2>2 DEF TypeOK
  <2>5. TypeOK'
    BY Zenon, <2>0, <2>2, <2>3, <2>4, PoolAssumption DEF TypeOK
  <2>6. ASSUME NEW w \in Workers \ Cancelled PROVE Place(w)' /\ Kept(w)'
    <3>1. Place(w) /\ Kept(w)
      BY Zenon DEF IInv
    <3>2. hand[t] # w
      BY Zenon, <2>0, PoolAssumption DEF TypeOK
    <3>3. /\ In(queue', w) => In(queue, w)
          /\ Once(queue, w) => Once(queue', w)
          /\ Once(queue, w) /\ v = w => ~In(queue', w)
          /\ v # w /\ In(queue, w) => In(queue', w)
      BY Zenon, <2>0, <2>1, <2>2, <1>2, TailShrinks
    <3>4. Place(w)'
      BY <3>1, <3>2, <3>3, <2>0, <2>3, <2>4 DEF Place
    <3>5. Kept(w)'
      BY Zenon, <3>1, <3>2, <3>3, <2>0, <2>4 DEF Kept
    <3>6. QED
      BY Zenon, <3>4, <3>5
  <2>7. Ending'
    BY Zenon, <2>0, <2>4 DEF IInv, Ending
  <2>8. QED
    BY Zenon, <2>5, <2>6, <2>7 DEF IInv
<1>3. QED
  BY Zenon, <1>1, <1>2

\* A worker that a step leaves alone, but for its place in the queue.
LEMMA PlaceKept ==
  ASSUME NEW w \in Workers, Place(w),
         state'[w] = state[w] /\ ran'[w] = ran[w] /\ reg'[w] = reg[w],
         In(queue', w) => In(queue, w), Once(queue, w) => Once(queue', w),
         \A u \in Threads : hand'[u] = w => hand[u] = w /\ thr'[u] = thr[u]
  PROVE  Place(w)'
<1>1. Once(queue', w) /\ \A t, u \in Threads : hand'[t] = w /\ hand'[u] = w => t = u
  BY Zenon DEF Place
<1>2. In(queue', w) => /\ \A t \in Threads : hand'[t] # w
                       /\ state[w] = "idle" /\ ran[w] = 0
  BY Zenon DEF Place
<1>3. \A t \in Threads : hand'[t] = w =>
        /\ thr'[t] = "taken" => state[w] = "idle" /\ ran[w] = 0
        /\ thr'[t] = "running" => state[w] = "busy" /\ ran[w] = 1
        /\ thr'[t] = "posted" => state[w] = "complete" /\ ran[w] = 1
  BY Zenon DEF Place
<1>4. /\ reg[w] # "registered" => /\ ~In(queue', w) /\ ran[w] = 0
                                  /\ \A t \in Threads : hand'[t] # w
      /\ ran[w] \in {0, 1}
  BY Zenon DEF Place
<1>5. QED
  BY Zenon, <1>1, <1>2, <1>3, <1>4 DEF Place

\* process_cb is called: the worker is idle in one thread's hands and has
\* not run.
LEMMA RunOK ==
  ASSUME IInv, NEW t \in Threads, Run(t)
  PROVE  IInv'
<1>0. /\ TypeOK /\ thr[t] = "taken" /\ thr' = [thr EXCEPT ![t] = "running"]
      /\ ran' = [ran EXCEPT ![hand[t]] = @ + 1]
      /\ UNCHANGED <<queue, abort, hand, reg, seen, wait, kill, destroy, early>>
  BY Zenon DEF IInv, Run, Advance, callerVars, destroyVars
<1>1. PICK v \in Workers : v = hand[t]
  BY <1>0 DEF TypeOK
<1>2. \/ state[v] = "freed" /\ fault' = "worker" /\ state' = state
      \/ state[v] # "freed" /\ state' = [state EXCEPT ![v] = "busy"] /\ fault' = fault
  BY Zenon, <1>1 DEF Run, Advance
<1>3. /\ \A u \in Threads : thr'[u] = IF u = t THEN "running" ELSE thr[u]
      /\ \A w \in Workers : ran'[w] = IF w = v THEN ran[w] + 1 ELSE ran[w]
      /\ ran' \in [Workers -> Nat]
  BY <1>0, <1>1 DEF TypeOK
<1>4. TypeOK'
  <2>1. thr' \in [Threads -> {"top", "lock", "sleep", "taken", "running", "posted", "exited"}]
    BY Zenon, <1>0 DEF TypeOK
  <2>2. state' \in [Workers -> {"none", "idle", "busy", "complete", "freed"}]
    BY Zenon, <1>0, <1>2 DEF TypeOK
  <2>3. \A u \in Threads : hand'[u] # NoWorker <=> thr'[u] \in {"taken", "running", "posted"}
    BY <1>0, <1>3 DEF TypeOK
  <2>4. QED
    BY Zenon, <1>0, <1>2, <1>3, <2>1, <2>2, <2>3 DEF TypeOK
<1>5. ASSUME NEW w \in Workers \ Cancelled PROVE Place(w)' /\ Kept(w)'
  <2>1. Place(w) /\ Kept(w)
    BY DEF IInv
  <2>2. CASE w = v
    <3>1. state[w] = "idle" /\ ran[w] = 0 /\ ~In(queue, w)
      BY Zenon, <2>1, <2>2, <1>0, <1>1 DEF Place
    <3>2. state'[w] = "busy" /\ ran'[w] = 1
      <4>1. DOMAIN state = Workers
        BY Zenon, <1>0 DEF TypeOK
      <4>2. state' = [state EXCEPT ![v] = "busy"]
        BY Zenon, <3>1, <2>2, <1>2
      <4>3. QED
        BY <4>1, <4>2, <3>1, <2>2, <1>3
    <3>3. \A u \in Threads : hand[u] = w => u = t
      BY Zenon, <2>1, <2>2, <1>1 DEF Place
    <3>4. Place(w)'
      <4>1. Once(queue, w) /\ reg[w] = "registered"
        BY Zenon, <2>1, <2>2, <1>1 DEF Place
      <4>2. \A u, x \in Threads : hand'[u] = w /\ hand'[x] = w => u = x
        BY Zenon, <3>3, <1>0
      <4>3. \A u \in Threads : hand'[u] = w => thr'[u] = "running"
        BY Zenon, <3>3, <1>0, <1>3
      <4>4. QED
        BY Zenon, <3>1, <3>2, <4>1, <4>2, <4>3, <1>0 DEF Place
    <3>5. Kept(w)'
      BY Zenon, <2>1, <3>1, <3>2, <1>0 DEF Kept
    <3>6. QED
      BY <3>4, <3>5
  <2>3. CASE w # v
    <3>1. state'[w] = state[w] /\ ran'[w] = ran[w] /\ hand[t] # w
      BY <2>3, <1>0, <1>1, <1>2, <1>3 DEF TypeOK
    <3>2. Place(w)'
      BY Zenon, <2>1, <3>1, <1>0, <1>3, PlaceKept
    <3>3. Kept(w)'
      BY Zenon, <2>1, <3>1, <1>0 DEF Kept
    <3>4. QED
      BY <3>2, <3>3
  <2>4. QED
    BY Zenon, <2>2, <2>3
<1>6. Ending'
  BY Zenon, <1>0, <1>3 DEF IInv, Ending
<1>7. QED
  BY <1>4, <1>5, <1>6 DEF IInv

\* process_cb returns: the worker is complete in the same hands.
LEMMA FinishOK ==
  ASSUME IInv, NEW t \in Threads, Finish(t)
  PROVE  IInv'
<1>0. /\ TypeOK /\ thr[t] = "running" /\ thr' = [thr EXCEPT ![t] = "posted"]
      /\ UNCHANGED <<queue, abort, hand, ran, reg, seen, wait, kill, destroy, early>>
  BY Zenon DEF IInv, Finish, Advance, callerVars, destroyVars
<1>1. PICK v \in Workers : v = hand[t]
  BY <1>0 DEF TypeOK
<1>2. \/ state[v] = "freed" /\ fault' = "worker" /\ state' = state
      \/ state[v] # "freed" /\ state' = [state EXCEPT ![v] = "complete"] /\ fault' = fault
  BY Zenon, <1>1 DEF Finish, Advance
<1>3. \A u \in Threads : thr'[u] = IF u = t THEN "posted" ELSE thr[u]
  BY Zenon, <1>0 DEF TypeOK
<1>4. TypeOK'
  BY <1>0, <1>2, <1>3 DEF TypeOK
<1>5. ASSUME NEW w \in Workers \ Cancelled PROVE Place(w)' /\ Kept(w)'
  <2>1. Place(w) /\ Kept(w)
    BY DEF IInv
  <2>2. CASE w = v
    <3>1. state[w] = "busy" /\ ran[w] = 1 /\ ~In(queue, w)
      BY Zenon, <2>1, <2>2, <1>0, <1>1 DEF Place
    <3>2. state'[w] = "complete"
      BY <3>1, <2>2, <1>0, <1>2 DEF TypeOK
    <3>3. \A u \in Threads : hand[u] = w => u = t
      BY <2>1, <2>2, <1>1 DEF Place
    <3>4. Place(w)'
      <4>1. Once(queue, w) /\ reg[w] = "registered"
        BY <2>1, <2>2, <1>1 DEF Place
      <4>2. \A u, x \in Threads : hand'[u] = w /\ hand'[x] = w => u = x
        BY Zenon, <3>3, <1>0
      <4>3. \A u \in Threads : hand'[u] = w => thr'[u] = "posted"
        BY Zenon, <3>3, <1>0, <1>3
      <4>4. QED
        BY Zenon, <3>1, <3>2, <4>1, <4>2, <4>3, <1>0 DEF Place
    <3>5. Kept(w)'
      BY Zenon, <2>1, <1>0 DEF Kept
    <3>6. QED
      BY <3>4, <3>5
  <2>3. CASE w # v
    <3>1. state'[w] = state[w] /\ hand[t] # w
      BY <2>3, <1>0, <1>1, <1>2 DEF TypeOK
    <3>2. Place(w)'
      BY Zenon, <2>1, <3>1, <1>0, <1>3, PlaceKept
    <3>3. Kept(w)'
      BY Zenon, <2>1, <3>1, <1>0 DEF Kept
    <3>4. QED
      BY <3>2, <3>3
  <2>4. QED
    BY <2>2, <2>3
<1>6. Ending'
  BY Zenon, <1>0, <1>3 DEF IInv, Ending
<1>7. QED
  BY <1>4, <1>5, <1>6 DEF IInv

\* The thread frees the worker it ran and lets go of it.
LEMMA FreeDoneOK ==
  ASSUME IInv, NEW t \in Threads, FreeDone(t)
  PROVE  IInv'
<1>0. /\ TypeOK /\ thr[t] = "posted" /\ Release(hand[t])
      /\ thr' = [thr EXCEPT ![t] = "top"] /\ hand' = [hand EXCEPT ![t] = NoWorker]
      /\ UNCHANGED <<abort, ran, reg, seen, wait, kill, destroy, early>>
  BY Zenon DEF IInv, FreeDone, callerVars, destroyVars
<1>1. PICK v \in Workers : v = hand[t]
  BY <1>0 DEF TypeOK
<1>2. Release(v)
  BY Zenon, <1>0, <1>1
<1>3. /\ state' = [state EXCEPT ![v] = "freed"] /\ fault' \in {"worker", fault}
      /\ queue' \in Seq(Workers)
  BY Zenon, <1>0, <1>2, ReleaseUnlinks DEF Release
<1>4. \A u \in Threads : /\ thr'[u] = IF u = t THEN "top" ELSE thr[u]
                         /\ hand'[u] = IF u = t THEN NoWorker ELSE hand[u]
  BY Zenon, <1>0 DEF TypeOK
<1>5. TypeOK'
  BY <1>0, <1>3, <1>4 DEF TypeOK
<1>6. ASSUME NEW w \in Workers \ Cancelled PROVE Place(w)' /\ Kept(w)'
  <2>1. Place(w) /\ Kept(w) /\ NoWorker # w
    BY Zenon, PoolAssumption DEF IInv
  <2>2. /\ In(queue', w) => In(queue, w)
        /\ Once(queue, w) => Once(queue', w)
        /\ w # v /\ In(queue, w) => In(queue', w)
    BY Zenon, <1>0, <1>2, ReleaseUnlinks
  <2>3. CASE w = v
    <3>1. /\ ran[w] = 1 /\ ~In(queue, w) /\ reg[w] = "registered"
          /\ \A u \in Threads : hand'[u] # w
      BY Zenon, <2>1, <2>3, <1>0, <1>1, <1>4 DEF Place
    <3>2. QED
      BY Zenon, <2>1, <2>2, <3>1, <1>0 DEF Place, Kept
  <2>4. CASE w # v
    <3>1. state'[w] = state[w] /\ hand[t] # w
      BY Zenon, <2>4, <1>0, <1>1, <1>3 DEF TypeOK
    <3>2. Place(w)'
      BY Zenon, <2>1, <2>2, <3>1, <1>0, <1>4, PlaceKept
    <3>3. Kept(w)'
      BY Zenon, <2>1, <2>2, <2>4, <3>1, <1>0, <1>4 DEF Kept
    <3>4. QED
      BY <3>2, <3>3
  <2>5. QED
    BY <2>3, <2>4
<1>7. Ending'
  BY Zenon, <1>0, <1>4 DEF IInv, Ending
<1>8. QED
  BY <1>5, <1>6, <1>7 DEF IInv
-----------------------------------------------------------------------------
\* ep_tp_destroy starts: what is queued now is what tp_kill_wait owes.
LEMMA DestroyEnterOK ==
  ASSUME IInv, NEW k \in {"wait", "immediate"}, DestroyEnter(k)
  PROVE  IInv'
<1>0. /\ TypeOK /\ destroy = "none" /\ kill' = k /\ early' = {queue[i] : i \in DOMAIN queue}
      /\ destroy' = IF k = "wait" THEN "poll" ELSE "abort"
      /\ UNCHANGED <<queue, abort, state, ran, fault, thr, hand, reg, seen, wait>>
  BY Zenon DEF IInv, DestroyEnter, threadVars, callerVars
<1>1. early' \in SUBSET Workers /\ \A w : w \in early' <=> In(queue, w)
  BY <1>0 DEF TypeOK, In
<1>2. TypeOK'
  BY Zenon, <1>0, <1>1 DEF TypeOK
<1>3. ASSUME NEW w \in Workers \ Cancelled PROVE Place(w)' /\ Kept(w)'
  <2>1. Place(w)
    BY Zenon DEF IInv
  <2>2. QED
    BY Zenon, <2>1, <1>0, <1>1 DEF Place, Kept
<1>4. Ending'
  BY Zenon, <1>0 DEF Ending
<1>5. QED
  BY Zenon, <1>2, <1>3, <1>4 DEF IInv

\* The poll ends on an empty queue.
LEMMA PollOK ==
  ASSUME IInv, Poll
  PROVE  IInv'
<1>0. /\ TypeOK /\ destroy = "poll" /\ queue = << >> /\ destroy' = "abort"
      /\ UNCHANGED <<queue, abort, state, ran, fault, kill, early, thr, hand, reg, seen, wait>>
  BY Zenon DEF IInv, Poll, threadVars, callerVars
<1>1. \A w : ~In(queue, w)
  BY <1>0 DEF In
<1>2. TypeOK'
  BY Zenon, <1>0 DEF TypeOK
<1>3. ASSUME NEW w \in Workers \ Cancelled PROVE Place(w)' /\ Kept(w)'
  <2>1. Place(w) /\ Kept(w)
    BY Zenon DEF IInv
  <2>2. QED
    BY Zenon, <2>1, <1>0, <1>1 DEF Place, Kept
<1>4. Ending'
  BY Zenon, <1>0 DEF Ending
<1>5. QED
  BY Zenon, <1>2, <1>3, <1>4 DEF IInv

\* The flag and the broadcast.
LEMMA AbortOK ==
  ASSUME IInv, Abort
  PROVE  IInv'
<1>0. /\ TypeOK /\ destroy = "abort" /\ destroy' = "join" /\ abort' = 1
      /\ thr' = [t \in Threads |-> IF thr[t] = "sleep" THEN "lock" ELSE thr[t]]
      /\ UNCHANGED <<queue, hand, state, ran, fault, kill, early, reg, seen, wait>>
  BY Zenon DEF IInv, Abort, Awake, callerVars
<1>1. \A t \in Threads : thr'[t] = IF thr[t] = "sleep" THEN "lock" ELSE thr[t]
  BY Zenon, <1>0
<1>2. TypeOK'
  BY Zenon, <1>0 DEF TypeOK
<1>3. ASSUME NEW w \in Workers \ Cancelled PROVE Place(w)' /\ Kept(w)'
  <2>1. Place(w) /\ Kept(w)
    BY DEF IInv
  <2>2. QED
    BY Zenon, <2>1, <1>0, <1>1 DEF Place, Kept
<1>4. Ending'
  BY Zenon, <1>0 DEF Ending
<1>5. QED
  BY <1>2, <1>3, <1>4 DEF IInv

\* What is left in the queue is freed; under tp_kill_wait it came late.
LEMMA DrainOK ==
  ASSUME IInv, Drain
  PROVE  IInv'
<1>0. /\ TypeOK /\ destroy = "join" /\ queue # << >> /\ queue' = Tail(queue)
      /\ state' = [state EXCEPT ![Head(queue)] = "freed"]
      /\ \A t \in Threads : thr[t] = "exited"
      /\ UNCHANGED <<abort, ran, fault, thr, hand, reg, seen, wait, kill, destroy, early>>
  BY Zenon DEF IInv, Drain, Joined, threadVars, callerVars, destroyVars
<1>1. queue \in Seq(Workers)
  BY Zenon, <1>0 DEF TypeOK
<1>2. PICK v \in Workers : v = Head(queue)
  BY Zenon, <1>0, <1>1, TailShrinks
<1>3. queue' \in Seq(Workers) /\ In(queue, v)
  BY Zenon, <1>0, <1>1, <1>2, TailShrinks
<1>4. TypeOK'
  BY Zenon, <1>0, <1>2, <1>3 DEF TypeOK
<1>5. ASSUME NEW w \in Workers \ Cancelled PROVE Place(w)' /\ Kept(w)'
  <2>1. Place(w) /\ Kept(w)
    BY Zenon DEF IInv
  <2>2. /\ In(queue', w) => In(queue, w)
        /\ Once(queue, w) => Once(queue', w)
        /\ Once(queue, w) /\ v = w => ~In(queue', w)
        /\ v # w /\ In(queue, w) => In(queue', w)
    BY Zenon, <1>0, <1>1, <1>2, TailShrinks
  <2>3. \A t \in Threads : hand[t] # w
    <3>1. \A t \in Threads : hand[t] # NoWorker <=> thr[t] \in {"taken", "running", "posted"}
      BY Zenon, <1>0 DEF TypeOK
    <3>2. \A t \in Threads : hand[t] = NoWorker
      BY Zenon, <1>0, <3>1
    <3>3. QED
      BY Zenon, <3>2, PoolAssumption
  <2>4. w # v => state'[w] = state[w]
    BY Zenon, <1>0, <1>2 DEF TypeOK
  <2>5. Place(w)'
    BY Zenon, <2>1, <2>2, <2>3, <2>4, <1>0, <1>3 DEF Place
  <2>6. Kept(w)'
    BY Zenon, <2>1, <2>2, <1>0 DEF Kept
  <2>7. QED
    BY Zenon, <2>5, <2>6
<1>6. Ending'
  BY Zenon, <1>0 DEF Ending
<1>7. QED
  BY Zenon, <1>4, <1>5, <1>6 DEF IInv

\* The pool is freed when every thread is gone.
LEMMA FreePoolOK ==
  ASSUME IInv, FreePool
  PROVE  IInv'
<1>0. /\ TypeOK /\ destroy = "join" /\ destroy' = "freed"
      /\ \A t \in Threads : thr[t] = "exited"
      /\ UNCHANGED <<queue, abort, state, ran, fault, kill, early, thr, hand, reg, seen, wait>>
  BY Zenon DEF IInv, FreePool, Joined, threadVars, callerVars
<1>1. TypeOK'
  BY Zenon, <1>0 DEF TypeOK
<1>2. ASSUME NEW w \in Workers \ Cancelled PROVE Place(w)' /\ Kept(w)'
  <2>1. Place(w) /\ Kept(w)
    BY DEF IInv
  <2>2. QED
    BY Zenon, <2>1, <1>0 DEF Place, Kept
<1>3. Ending'
  BY Zenon, <1>0 DEF Ending
<1>4. QED
  BY <1>1, <1>2, <1>3 DEF IInv
-----------------------------------------------------------------------------
\* An empty pool.
LEMMA InitOK == Init => IInv
<1>1. SUFFICES ASSUME Init PROVE IInv
  BY Zenon
<1>2. TypeOK
  BY <1>1, PoolAssumption DEF Init, TypeOK
<1>3. \A w : ~In(queue, w) /\ Once(queue, w)
  BY <1>1 DEF Init, In, Once
<1>4. ASSUME NEW w \in Workers \ Cancelled PROVE Place(w) /\ Kept(w)
  BY Zenon, <1>1, <1>3, PoolAssumption DEF Init, Place, Kept
<1>5. QED
  BY Zenon, <1>1, <1>2, <1>4 DEF IInv, Init, Ending

\* Every step keeps the invariant.
LEMMA StepOK == IInv /\ [Next]_vars => IInv'
<1>1. SUFFICES ASSUME IInv, [Next]_vars PROVE IInv'
  BY Zenon
<1>2. ASSUME NEW w \in Workers,
             \/ RegisterCheck(w) \/ RegisterInsert(w)
             \/ Touch(w) \/ Cancel(w) \/ WaitEnter(w) \/ WaitReturn(w)
      PROVE  IInv'
  BY Zenon, <1>1, <1>2, CallerOK, RegisterInsertOK, CancelOK
<1>3. ASSUME NEW t \in Threads, ThreadStep(t) \/ SpuriousWake(t) PROVE IInv'
  <2>1. CASE Top(t)
    <3>1. PICK s \in {"lock", "sleep", "exited"} : thr' = [thr EXCEPT ![t] = s]
      BY Zenon, <2>1 DEF Top
    <3>2. QED
      BY Zenon, <1>1, <2>1, <3>1, MoveOK DEF Top
  <2>2. CASE SpuriousWake(t)
    <3>1. PICK s \in {"lock", "sleep", "exited"} : s = "lock"
      BY Zenon
    <3>2. thr' = [thr EXCEPT ![t] = s]
      BY Zenon, <2>2, <3>1 DEF SpuriousWake
    <3>3. QED
      BY Zenon, <1>1, <2>2, <3>2, MoveOK DEF SpuriousWake
  <2>3. QED
    BY Zenon, <1>1, <1>3, <2>1, <2>2, TakeOK, RunOK, FinishOK, FreeDoneOK DEF ThreadStep
<1>4. ASSUME NEW k \in {"wait", "immediate"}, DestroyEnter(k) PROVE IInv'
  BY Zenon, <1>1, <1>4, DestroyEnterOK
<1>5. CASE DestroyStep
  BY Zenon, <1>1, <1>5, PollOK, AbortOK, DrainOK, FreePoolOK DEF DestroyStep
<1>6. CASE UNCHANGED vars
  <2>1. TypeOK'
    BY Zenon, <1>1, <1>6 DEF IInv, TypeOK, vars
  <2>2. QED
    BY Zenon, <1>1, <1>6, <2>1, Frame DEF vars
<1>7. QED
  BY Zenon, <1>1, <1>2, <1>3, <1>4, <1>5, <1>6 DEF Next

\* The inductive invariant holds in every state, for every number of
\* threads and workers.
THEOREM Invariance == Spec => []IInv
BY InitOK, StepOK, PTL DEF Spec

\* Variables keep their kinds, and a thread past Take holds a worker
\* (ep_tp_routine, ep_threadpool.c:50-89).
THEOREM TypeCorrect == Spec => []TypeOK
<1>1. IInv => TypeOK
  BY Zenon DEF IInv
<1>2. QED
  BY <1>1, Invariance, PTL

\* A worker that its caller leaves alone has one owner at a time and runs
\* at most once, whatever other callers cancel and however the pool is
\* destroyed (ep_threadpool.c:50-89, 210-231).
THEOREM WorkerHasOneOwner == Spec => []OneOwner
BY Invariance, IInvOneOwner, PTL

\* tp_kill_wait: what was queued when ep_tp_destroy was called has run when
\* the pool is gone.
THEOREM KillWaitKeepsWord == Spec => []KillWaitRunsQueued
BY Invariance, IInvKillWait, PTL
=============================================================================
