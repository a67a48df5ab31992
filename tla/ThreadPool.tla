----------------------------- MODULE ThreadPool -----------------------------
(***************************************************************************)
(* The thread pool of eventpack/src/ep_threadpool.c.  Pool threads,        *)
(* callers that register a worker and then touch, wait for or free it, and *)
(* the thread that destroys the pool run interleaved.  A critical section  *)
(* of the pool's mutex is one step; abort and the head of the queue are    *)
(* also read outside it, in steps of their own.                            *)
(***************************************************************************)
EXTENDS Integers, Sequences

CONSTANTS
  Threads,    \* the pool's threads
  Workers,    \* the workers that may be registered, each by its own caller
  Waited,     \* workers whose caller calls ep_tp_worker_wait
  Cancelled,  \* workers whose caller frees them when it sees them idle
  NoWorker

ASSUME PoolAssumption ==
  Waited \subseteq Workers /\ Cancelled \subseteq Workers /\ NoWorker \notin Workers

VARIABLES
  queue,    \* worker_queue
  abort,
  thr,      \* where each pool thread is in ep_tp_routine
  hand,     \* the worker each pool thread took
  reg,      \* where each caller is: none, checked, registered or refused
  state,    \* of each worker: none, idle, busy, complete, freed
  seen,     \* what the caller's last ep_tp_worker_touch returned
  wait,     \* the caller's ep_tp_worker_wait: no, waiting, result, garbage
  ran,      \* how often process_cb was called for each worker
  kill,     \* how the pool is destroyed
  destroy,  \* where ep_tp_destroy is: none, poll, abort, join, freed
  early,    \* workers that were queued when ep_tp_destroy was called
  fault     \* none, or what was used after it was freed: worker, pool

vars == <<queue, abort, thr, hand, reg, state, seen, wait, ran, kill, destroy, early, fault>>
threadVars == <<thr, hand>>
callerVars == <<reg, seen, wait>>
destroyVars == <<kill, destroy, early>>

Init ==
  /\ queue = << >> /\ abort = 0 /\ fault = "none"
  /\ thr = [t \in Threads |-> "top"] /\ hand = [t \in Threads |-> NoWorker]
  /\ reg = [w \in Workers |-> "none"] /\ state = [w \in Workers |-> "none"]
  /\ seen = [w \in Workers |-> "none"] /\ wait = [w \in Workers |-> "no"]
  /\ ran = [w \in Workers |-> 0]
  /\ kill = "none" /\ destroy = "none" /\ early = {}

\* pthread_cond_broadcast: every sleeper is on its way to the mutex.
Awake == [t \in Threads |-> IF thr[t] = "sleep" THEN "lock" ELSE thr[t]]
-----------------------------------------------------------------------------
\* ep_tp_worker_register: the look at abort, without the mutex; an abort is
\* an assert in a debug build and NULL otherwise.
RegisterCheck(w) ==
  /\ reg[w] = "none"
  /\ reg' = [reg EXCEPT ![w] = IF abort = 1 THEN "refused" ELSE "checked"]
  /\ UNCHANGED <<queue, abort, state, seen, wait, ran, fault, threadVars, destroyVars>>

\* Mutant of RegisterInsert: no thread is woken.
RegisterInsertSilent(w) ==
  /\ reg[w] = "checked" /\ destroy # "freed"
  /\ reg' = [reg EXCEPT ![w] = "registered"]
  /\ queue' = Append(queue, w) /\ state' = [state EXCEPT ![w] = "idle"]
  /\ UNCHANGED <<abort, seen, wait, ran, fault, threadVars, destroyVars>>

\* The rest of the call; by now the pool may be on its way down, or gone.
RegisterInsert(w) ==
  /\ reg[w] = "checked"
  /\ reg' = [reg EXCEPT ![w] = "registered"]
  /\ IF destroy = "freed"
       THEN fault' = "pool" /\ UNCHANGED <<queue, state, thr>>
       ELSE /\ queue' = Append(queue, w) /\ state' = [state EXCEPT ![w] = "idle"]
            /\ thr' = Awake
            /\ UNCHANGED fault
  /\ UNCHANGED <<abort, hand, seen, wait, ran, destroyVars>>

\* ep_tp_worker_touch; a freed worker shows anything.
Touch(w) ==
  /\ w \in Cancelled /\ reg[w] = "registered" /\ seen[w] # "idle"
  /\ \E s \in IF state[w] = "freed" THEN {"idle", "busy", "complete"} ELSE {state[w]} :
       seen' = [seen EXCEPT ![w] = s]
  /\ UNCHANGED <<queue, abort, reg, state, wait, ran, fault, threadVars, destroyVars>>

\* ep_tp_worker_wait: sem_wait, which a finished or a freed worker passes,
\* and then a read of the result.
WaitEnter(w) ==
  /\ w \in Waited /\ reg[w] = "registered" /\ wait[w] = "no"
  /\ wait' = [wait EXCEPT ![w] = "waiting"]
  /\ UNCHANGED <<queue, abort, reg, state, seen, ran, fault, threadVars, destroyVars>>

WaitReturn(w) ==
  /\ wait[w] = "waiting" /\ state[w] \in {"complete", "freed"}
  /\ wait' = [wait EXCEPT ![w] = IF state[w] = "complete" THEN "result" ELSE "garbage"]
  /\ UNCHANGED <<queue, abort, reg, state, seen, ran, fault, threadVars, destroyVars>>

\* ep_tp_worker_free(w): out of the queue if it is there, then freed.
Queued(w) == {i \in DOMAIN queue : queue[i] = w}
Unlink(i) == SubSeq(queue, 1, i - 1) \o SubSeq(queue, i + 1, Len(queue))
Release(w) ==
  /\ queue' = IF Queued(w) = {} THEN queue ELSE Unlink(CHOOSE i \in Queued(w) : TRUE)
  /\ state' = [state EXCEPT ![w] = "freed"]
  /\ fault' = IF state[w] = "freed" THEN "worker" ELSE fault

\* A caller that saw its worker idle frees it.
Cancel(w) ==
  /\ w \in Cancelled /\ seen[w] = "idle" /\ destroy # "freed"
  /\ seen' = [seen EXCEPT ![w] = "gone"]
  /\ Release(w)
  /\ UNCHANGED <<abort, reg, wait, ran, threadVars, destroyVars>>
-----------------------------------------------------------------------------
\* ep_tp_routine: the head of the loop, which reads abort without the mutex.
Top(t) ==
  /\ thr[t] = "top"
  /\ thr' = [thr EXCEPT ![t] = IF abort = 1 THEN "exited" ELSE "lock"]
  /\ UNCHANGED <<queue, abort, hand, state, ran, fault, callerVars, destroyVars>>

\* Mutant of Take: two threads woken together take the same worker.
TakeKeeps(t) ==
  /\ thr[t] = "lock"
  /\ IF queue = << >>
       THEN /\ thr' = [thr EXCEPT ![t] = IF abort = 1 THEN "exited" ELSE "sleep"]
            /\ UNCHANGED <<queue, hand>>
       ELSE /\ thr' = [thr EXCEPT ![t] = "taken"]
            /\ hand' = [hand EXCEPT ![t] = Head(queue)]
            /\ \E q \in {queue, Tail(queue)} : queue' = q
  /\ UNCHANGED <<abort, state, ran, fault, callerVars, destroyVars>>

\* Under the mutex: take the first worker, or leave on abort, or sleep.
Take(t) ==
  /\ thr[t] = "lock"
  /\ IF queue = << >>
       THEN /\ thr' = [thr EXCEPT ![t] = IF abort = 1 THEN "exited" ELSE "sleep"]
            /\ UNCHANGED <<queue, hand>>
       ELSE /\ thr' = [thr EXCEPT ![t] = "taken"]
            /\ hand' = [hand EXCEPT ![t] = Head(queue)]
            /\ queue' = Tail(queue)
  /\ UNCHANGED <<abort, state, ran, fault, callerVars, destroyVars>>

\* Mutant of SpuriousWake: the wait is not in a loop.
SpuriousWakeNoLoop(t) ==
  /\ thr[t] = "sleep"
  /\ thr' = [thr EXCEPT ![t] = "taken"]
  /\ UNCHANGED <<queue, abort, hand, state, ran, fault, callerVars, destroyVars>>

\* pthread_cond_wait returns without a signal; the loop looks again.
SpuriousWake(t) ==
  /\ thr[t] = "sleep"
  /\ thr' = [thr EXCEPT ![t] = "lock"]
  /\ UNCHANGED <<queue, abort, hand, state, ran, fault, callerVars, destroyVars>>

\* A pool thread writes to the worker it took: fault if somebody freed it.
Advance(t, from, to, s) ==
  LET w == hand[t]
  IN  /\ thr[t] = from
      /\ thr' = [thr EXCEPT ![t] = to]
      /\ IF state[w] = "freed" THEN fault' = "worker" /\ UNCHANGED state
         ELSE state' = [state EXCEPT ![w] = s] /\ UNCHANGED fault

\* The worker is busy and process_cb is called.
Run(t) ==
  /\ Advance(t, "taken", "running", "busy")
  /\ ran' = [ran EXCEPT ![hand[t]] = @ + 1]
  /\ UNCHANGED <<queue, abort, hand, callerVars, destroyVars>>

\* process_cb returns: the result, the state complete and sem_post.
Finish(t) ==
  /\ Advance(t, "running", "posted", "complete")
  /\ UNCHANGED <<queue, abort, hand, ran, callerVars, destroyVars>>

\* complete_cb and ep_tp_worker_free, which posts the semaphore once more.
FreeDone(t) ==
  /\ thr[t] = "posted"
  /\ thr' = [thr EXCEPT ![t] = "top"] /\ hand' = [hand EXCEPT ![t] = NoWorker]
  /\ Release(hand[t])
  /\ UNCHANGED <<abort, ran, callerVars, destroyVars>>
-----------------------------------------------------------------------------
\* ep_tp_destroy.
DestroyEnter(k) ==
  /\ destroy = "none"
  /\ kill' = k /\ early' = {queue[i] : i \in DOMAIN queue}
  /\ destroy' = IF k = "wait" THEN "poll" ELSE "abort"
  /\ UNCHANGED <<queue, abort, state, ran, fault, threadVars, callerVars>>

\* Mutant of Poll: the queue is not waited for.
PollOnce ==
  /\ destroy = "poll"
  /\ destroy' = "abort"
  /\ UNCHANGED <<queue, abort, state, ran, fault, kill, early, threadVars, callerVars>>

\* tp_kill_wait looks at the queue, without the mutex, until it is empty.
Poll ==
  /\ destroy = "poll" /\ queue = << >>
  /\ destroy' = "abort"
  /\ UNCHANGED <<queue, abort, state, ran, fault, kill, early, threadVars, callerVars>>

\* Mutant of Abort: sleeping threads are not told.
AbortSilent ==
  /\ destroy = "abort"
  /\ abort' = 1 /\ destroy' = "join"
  /\ UNCHANGED <<queue, hand, state, ran, fault, kill, early, thr, callerVars>>

\* The flag and the broadcast, under the mutex.
Abort ==
  /\ destroy = "abort"
  /\ abort' = 1 /\ destroy' = "join"
  /\ thr' = Awake
  /\ UNCHANGED <<queue, hand, state, ran, fault, kill, early, callerVars>>

\* Every thread is joined; then the workers left in the queue are freed one
\* by one, without the mutex, and last the pool.
Joined == destroy = "join" /\ \A t \in Threads : thr[t] = "exited"

Drain ==
  /\ Joined /\ queue # << >>
  /\ queue' = Tail(queue) /\ state' = [state EXCEPT ![Head(queue)] = "freed"]
  /\ UNCHANGED <<abort, ran, fault, threadVars, callerVars, destroyVars>>

FreePool ==
  /\ Joined /\ queue = << >>
  /\ destroy' = "freed"
  /\ UNCHANGED <<queue, abort, state, ran, fault, kill, early, threadVars, callerVars>>
-----------------------------------------------------------------------------
ThreadStep(t) == Top(t) \/ Take(t) \/ Run(t) \/ Finish(t) \/ FreeDone(t)
DestroyStep == Poll \/ Abort \/ Drain \/ FreePool

\* What happens after a use of freed memory is not described.
Next ==
  /\ fault = "none"
  /\ \/ \E w \in Workers :
          \/ RegisterCheck(w) \/ RegisterInsert(w)
          \/ Touch(w) \/ Cancel(w) \/ WaitEnter(w) \/ WaitReturn(w)
     \/ \E t \in Threads : ThreadStep(t) \/ SpuriousWake(t)
     \/ \E k \in {"wait", "immediate"} : DestroyEnter(k)
     \/ DestroyStep

\* The scheduler runs every thread, process_cb returns, and the thread that
\* destroys the pool goes on.
Fairness ==
  /\ \A t \in Threads : WF_vars(fault = "none" /\ ThreadStep(t))
  /\ WF_vars(fault = "none" /\ DestroyStep)

Spec == Init /\ [][Next]_vars /\ Fairness
-----------------------------------------------------------------------------
\* Variables hold values of their kinds; a thread past Take holds a worker.
TypeOK ==
  /\ queue \in Seq(Workers) /\ abort \in {0, 1} /\ fault \in {"none", "worker", "pool"}
  /\ thr \in [Threads -> {"top", "lock", "sleep", "taken", "running", "posted", "exited"}]
  /\ hand \in [Threads -> Workers \cup {NoWorker}]
  /\ \A t \in Threads : hand[t] # NoWorker <=> thr[t] \in {"taken", "running", "posted"}
  /\ reg \in [Workers -> {"none", "checked", "registered", "refused"}]
  /\ state \in [Workers -> {"none", "idle", "busy", "complete", "freed"}]
  /\ seen \in [Workers -> {"none", "idle", "busy", "complete", "freed", "gone"}]
  /\ wait \in [Workers -> {"no", "waiting", "result", "garbage"}]
  /\ ran \in [Workers -> Nat]
  /\ kill \in {"none", "wait", "immediate"} /\ early \in SUBSET Workers
  /\ destroy \in {"none", "poll", "abort", "join", "freed"}

\* A worker that its caller leaves alone is in one place: once in the queue
\* and idle, or in the hands of one thread, whose step its state tells, or
\* nowhere and freed.  So process_cb runs at most once for it, and nobody
\* writes to it after ep_tp_worker_free (ep_threadpool.c:50-89, 210-231).
Holders(w) == {t \in Threads : hand[t] = w}
OneOwner ==
  \A w \in Workers \ Cancelled :
    /\ \A t, u \in Holders(w) : t = u
    /\ \A i, j \in Queued(w) : i = j
    /\ Queued(w) # {} => Holders(w) = {} /\ state[w] = "idle"
    /\ Holders(w) # {} => state[w] \in {"idle", "busy", "complete"}
    /\ \A t \in Holders(w) : /\ thr[t] = "taken" => state[w] = "idle" /\ ran[w] = 0
                             /\ thr[t] = "running" => state[w] = "busy"
                             /\ thr[t] = "posted" => state[w] = "complete"
    /\ Queued(w) # {} => ran[w] = 0
    /\ ran[w] <= 1

\* tp_kill_wait keeps its word to the workers queued before ep_tp_destroy:
\* each has run by the time the pool is gone, although the queue is polled
\* without the mutex and the threads leave as soon as they see abort.
KillWaitRunsQueued ==
  kill = "wait" /\ destroy = "freed" => \A w \in early \ Cancelled : ran[w] = 1

\* A queued worker is run, or freed by a destroy or by its caller; no
\* sleeping thread misses it.
QueuedIsServed ==
  \A w \in Workers : state[w] = "idle" ~> (state[w] # "idle" \/ fault # "none")

\* ep_tp_destroy returns: no thread sleeps through the abort.
DestroyReturns == destroy # "none" ~> (destroy = "freed" \/ fault # "none")
=============================================================================
