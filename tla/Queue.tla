------------------------------- MODULE Queue -------------------------------
(***************************************************************************)
(* The blocking queue of eventpack/src/ep_queue.c: a list behind a mutex   *)
(* and a condition variable, shared by threads that push, get, stop and    *)
(* destroy.  Everything a call does while it holds the mutex is one step;  *)
(* ep_queue_get gives the mutex up inside pthread_cond_wait, so that a     *)
(* call that waits is two steps with anything between them.                *)
(***************************************************************************)
EXTENDS Integers, Sequences

CONSTANTS
  Getters,   \* threads that call ep_queue_get
  Spurious,  \* whether pthread_cond_wait may return with nobody signalling
  MaxPush    \* bound: how many bodies are ever pushed

ASSUME QueueAssumption == Spurious \in BOOLEAN /\ MaxPush \in Nat

VARIABLES
  queue,   \* the list of bodies; the i-th push pushes the body i
  stop,    \* stop_sign
  life,    \* "live", "destroyed", or "aborted" by the assert of destroy
  pc,      \* where each getter is: outside, in cond_wait, or woken from it
  tmo,     \* the timeout of its last call: 0, > 0 or < 0
  ret,     \* the result of its last call
  pushed,  \* how many bodies were pushed
  taken    \* the bodies handed out, in the order of their removal

vars == <<queue, stop, life, pc, tmo, ret, pushed, taken>>

Timeouts == {"zero", "positive", "infinite"}
Waiting == {g \in Getters : pc[g] = "wait"}
Woken   == {g \in Getters : pc[g] \in {"signalled", "timedout"}}

\* pthread_cond_broadcast, and pthread_cond_signal, which wakes one waiter.
Broadcast == pc' = [g \in Getters |-> IF pc[g] = "wait" THEN "signalled" ELSE pc[g]]
Signal ==
  IF Waiting = {} THEN UNCHANGED pc
  ELSE \E g \in Waiting : pc' = [pc EXCEPT ![g] = "signalled"]

Init ==
  /\ queue = << >> /\ stop = 0 /\ life = "live" /\ pushed = 0 /\ taken = << >>
  /\ pc  = [g \in Getters |-> "idle"]
  /\ tmo = [g \in Getters |-> "zero"]
  /\ ret = [g \in Getters |-> 0]

\* Mutant of Push: nobody is woken.
PushNoBroadcast ==
  /\ life = "live" /\ pushed < MaxPush
  /\ pushed' = pushed + 1
  /\ queue'  = Append(queue, pushed + 1)
  /\ UNCHANGED <<stop, life, pc, tmo, ret, taken>>

\* ep_queue_push: the tail of the list, and everybody awake.
Push ==
  /\ life = "live" /\ pushed < MaxPush
  /\ pushed' = pushed + 1
  /\ queue'  = Append(queue, pushed + 1)
  /\ Broadcast
  /\ UNCHANGED <<stop, life, tmo, ret, taken>>

\* The end of ep_queue_get: the result r, and the first body when r is 1.
Return(g, r) ==
  /\ pc'  = [pc EXCEPT ![g] = "idle"]
  /\ ret' = [ret EXCEPT ![g] = r]
  /\ IF r = 1 THEN queue' = Tail(queue) /\ taken' = Append(taken, Head(queue))
     ELSE UNCHANGED <<queue, taken>>

\* A call of ep_queue_get up to its return or its wait.  On a queue that is
\* stopped and empty the loop is not entered and ret keeps its initial 0.
GetEnter(g, t) ==
  /\ life = "live" /\ pc[g] = "idle"
  /\ tmo' = [tmo EXCEPT ![g] = t]
  /\ IF queue # << >> THEN Return(g, 1)
     ELSE IF stop = 1 \/ t = "zero" THEN Return(g, 0)
     ELSE pc' = [pc EXCEPT ![g] = "wait"] /\ UNCHANGED <<queue, taken, ret>>
  /\ UNCHANGED <<stop, life, pushed>>

\* Mutants of GetResume: a stop drops the body; an empty list sends the getter
\* back to sleep with a new deadline.
GetResumeDropsBody(g) ==
  /\ g \in Woken
  /\ pc'  = [pc EXCEPT ![g] = "idle"]
  /\ ret' = [ret EXCEPT ![g] = IF stop = 1 \/ queue = << >> THEN -1 ELSE 1]
  /\ queue' = IF queue = << >> THEN queue ELSE Tail(queue)
  /\ taken' = IF stop = 1 \/ queue = << >> THEN taken ELSE Append(taken, Head(queue))
  /\ UNCHANGED <<stop, life, tmo, pushed>>

GetResumeWaitsAgain(g) ==
  /\ g \in Woken
  /\ IF stop = 1 THEN Return(g, -1)
     ELSE IF queue # << >> THEN Return(g, 1)
     ELSE pc' = [pc EXCEPT ![g] = "wait"] /\ UNCHANGED <<queue, taken, ret>>
  /\ UNCHANGED <<stop, life, tmo, pushed>>

\* The rest of the call once the getter holds the mutex again.  The loop
\* around the wait never comes back to it: an empty queue ends the call with
\* 0 after a timeout and with -1 after any other wake-up.
GetResume(g) ==
  /\ g \in Woken
  /\ Return(g, IF stop = 1 THEN -1
               ELSE IF queue # << >> THEN 1
               ELSE IF pc[g] = "timedout" THEN 0
               ELSE -1)
  /\ UNCHANGED <<stop, life, tmo, pushed>>

\* Mutant of TimeOut: a call without a timeout gets a deadline too.
TimeOutAlways(g) ==
  /\ pc[g] = "wait"
  /\ pc' = [pc EXCEPT ![g] = "timedout"]
  /\ UNCHANGED <<queue, stop, life, tmo, ret, pushed, taken>>

\* The clock of pthread_cond_timedwait, and a wake-up without a signal.
TimeOut(g) ==
  /\ pc[g] = "wait" /\ tmo[g] = "positive"
  /\ pc' = [pc EXCEPT ![g] = "timedout"]
  /\ UNCHANGED <<queue, stop, life, tmo, ret, pushed, taken>>

SpuriousWake(g) ==
  /\ Spurious /\ pc[g] = "wait"
  /\ pc' = [pc EXCEPT ![g] = "signalled"]
  /\ UNCHANGED <<queue, stop, life, tmo, ret, pushed, taken>>

Stop ==
  /\ life = "live"
  /\ stop' = 1
  /\ Signal
  /\ UNCHANGED <<queue, life, tmo, ret, pushed, taken>>

\* ep_queue_destroy, called when no thread is inside a call: it stops the
\* queue and asserts that it is empty.
Destroy ==
  /\ life = "live" /\ \A g \in Getters : pc[g] = "idle"
  /\ stop' = 1
  /\ life' = IF queue = << >> THEN "destroyed" ELSE "aborted"
  /\ UNCHANGED <<queue, pc, tmo, ret, pushed, taken>>

Next ==
  \/ Push \/ Stop \/ Destroy
  \/ \E g \in Getters :
       \/ \E t \in Timeouts : GetEnter(g, t)
       \/ GetResume(g) \/ TimeOut(g) \/ SpuriousWake(g)

\* A woken getter gets the mutex, which is held for a few instructions at a
\* time, and clocks reach their deadline.
Fairness == \A g \in Getters : WF_vars(GetResume(g)) /\ WF_vars(TimeOut(g))

Spec == Init /\ [][Next]_vars /\ Fairness
-----------------------------------------------------------------------------
\* Every variable holds a value of its kind, and a thread that never gave a
\* timeout cannot time out.
TypeOK ==
  /\ queue \in Seq(Nat) /\ taken \in Seq(Nat) /\ pushed \in 0 .. MaxPush
  /\ stop \in {0, 1} /\ life \in {"live", "destroyed", "aborted"}
  /\ pc \in [Getters -> {"idle", "wait", "signalled", "timedout"}]
  /\ tmo \in [Getters -> Timeouts] /\ ret \in [Getters -> {-1, 0, 1}]
  /\ \A g \in Getters : pc[g] = "timedout" => tmo[g] = "positive"

\* Every body pushed is handed out once, in the order of the pushes, or is
\* still in the list: no wake-up, timeout or stop between the two halves of a
\* get loses, repeats or reorders one (ep_queue.c:57-181).
Delivered == taken \o queue = [i \in 1 .. pushed |-> i]

\* No lost wake-up: a getter sleeps only while there is nothing to get, since
\* every push wakes all of them and a getter looks again before it sleeps.
SleepOnlyWhenEmpty == queue # << >> => Waiting = {}

\* A get with a positive timeout always comes back.
TimedGetReturns ==
  \A g \in Getters : (pc[g] = "wait" /\ tmo[g] = "positive") ~> pc[g] = "idle"
=============================================================================
