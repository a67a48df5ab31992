---------------------------- MODULE QueueProofs ----------------------------
(***************************************************************************)
(* The safety of the queue for any set of getters, any number of pushes    *)
(* and with or without spurious wake-ups.                                  *)
(***************************************************************************)
EXTENDS Queue, SequenceTheorems, TLAPS

\* The bodies of the first n pushes, in order.
Bodies(n) == [i \in 1 .. n |-> i]

\* The inductive invariant: the three properties together.  Delivered needs
\* nothing but the types; SleepOnlyWhenEmpty is inductive with them, because
\* the only way to empty the list is a removal, and to fill it a push.
IInv == TypeOK /\ Delivered /\ SleepOnlyWhenEmpty

Assoc(a, b, c) == (a \o b) \o c = a \o (b \o c)

\* Concatenation is associative, here for sequences of bodies.
LEMMA Associative ==
  ASSUME NEW a \in Seq(Nat), NEW b \in Seq(Nat), NEW c \in Seq(Nat)
  PROVE  Assoc(a, b, c)
BY DEF Assoc

\* Appending to the second of two sequences appends to them both.
LEMMA AppendMoves ==
  ASSUME NEW a \in Seq(Nat), NEW b \in Seq(Nat), NEW x \in Nat
  PROVE  a \o Append(b, x) = Append(a \o b, x)
<1>1. <<x>> \in Seq(Nat)
  OBVIOUS
<1>2. a \o b \in Seq(Nat)
  BY ConcatProperties, Zenon
<1>3. Append(b, x) = b \o <<x>>
  BY AppendIsConcat, Zenon
<1>4. Append(a \o b, x) = (a \o b) \o <<x>>
  BY <1>2, AppendIsConcat, Zenon
<1>5. Assoc(a, b, <<x>>)
  BY Zenon, <1>1, Associative
<1>6. QED
  BY <1>3, <1>4, <1>5, Zenon DEF Assoc

\* Appending the next body extends the sequence of bodies by one.
LEMMA BodiesGrow ==
  ASSUME NEW n \in Nat, NEW a \in Seq(Nat), NEW b \in Seq(Nat), a \o b = Bodies(n)
  PROVE  a \o Append(b, n + 1) = Bodies(n + 1)
<1>1. n + 1 \in Nat
  OBVIOUS
<1>2. a \o Append(b, n + 1) = Append(a \o b, n + 1)
  BY Zenon, <1>1, AppendMoves
<1>3. Append(Bodies(n), n + 1) = Bodies(n + 1)
  BY DEF Bodies
<1>4. QED
  BY Zenon, <1>2, <1>3

\* Moving the head of the list to the end of what was taken changes nothing.
LEMMA HeadMoves ==
  ASSUME NEW a \in Seq(Nat), NEW b \in Seq(Nat), b # << >>
  PROVE  /\ Append(a, Head(b)) \o Tail(b) = a \o b
         /\ Append(a, Head(b)) \in Seq(Nat) /\ Tail(b) \in Seq(Nat)
<1>1. Head(b) \in Nat /\ Tail(b) \in Seq(Nat)
  BY HeadTailProperties, Zenon
<1>2. b = <<Head(b)>> \o Tail(b)
  BY <1>1
<1>3. Append(a, Head(b)) = a \o <<Head(b)>>
  BY <1>1, AppendIsConcat, Zenon
<1>4. Append(a, Head(b)) \in Seq(Nat)
  BY <1>1, AppendProperties, Zenon
<1>5. <<Head(b)>> \in Seq(Nat)
  BY <1>1
<1>6. Assoc(a, <<Head(b)>>, Tail(b))
  BY Zenon, <1>1, <1>5, Associative
<1>7. QED
  BY <1>1, <1>2, <1>3, <1>4, <1>6, Zenon DEF Assoc

\* An empty queue with nobody inside satisfies the invariant.
LEMMA InitOK == Init => IInv
  <1> SUFFICES ASSUME Init PROVE IInv
    OBVIOUS
  <1>1. TypeOK
    BY QueueAssumption DEF Init, TypeOK, Timeouts
  <1>2. Delivered
    BY DEF Init, Delivered
  <1>3. SleepOnlyWhenEmpty
    BY DEF Init, SleepOnlyWhenEmpty
  <1>4. QED
    BY <1>1, <1>2, <1>3 DEF IInv

\* A push appends the next body and leaves nobody asleep.
LEMMA PushOK == IInv /\ Push => IInv'
  <1> SUFFICES ASSUME IInv, Push PROVE IInv'
    OBVIOUS
  <1> USE DEF IInv
  <1>1. TypeOK'
    BY QueueAssumption DEF TypeOK, Push, Broadcast
  <1>2. Delivered'
    <2>1. pushed \in Nat /\ taken \in Seq(Nat) /\ queue \in Seq(Nat) /\ taken \o queue = Bodies(pushed)
      BY QueueAssumption DEF TypeOK, Delivered, Bodies
    <2>2. taken \o Append(queue, pushed + 1) = Bodies(pushed + 1)
      BY Zenon, <2>1, BodiesGrow
    <2>3. QED
      BY Zenon, <2>2 DEF Push, Delivered, Bodies
  <1>3. SleepOnlyWhenEmpty'
    BY DEF TypeOK, Push, Broadcast, SleepOnlyWhenEmpty, Waiting
  <1>4. QED
    BY <1>1, <1>2, <1>3

\* The end of a get: it takes the head or leaves the list alone, and the list
\* never grows.  The caller gives 1 only on a list that is not empty.
LEMMA ReturnOK ==
  ASSUME IInv, NEW g \in Getters, NEW r \in {-1, 0, 1}, Return(g, r),
         r = 1 => queue # << >>, pushed' = pushed
  PROVE  /\ queue' \in Seq(Nat) /\ taken' \in Seq(Nat)
         /\ pc' = [pc EXCEPT ![g] = "idle"] /\ ret' = [ret EXCEPT ![g] = r]
         /\ Delivered' /\ SleepOnlyWhenEmpty'
  <1> USE DEF IInv
  <1>0. queue \in Seq(Nat) /\ taken \in Seq(Nat) /\ pc' = [pc EXCEPT ![g] = "idle"]
        /\ ret' = [ret EXCEPT ![g] = r]
    BY DEF TypeOK, Return
  <1>1. /\ queue' \in Seq(Nat) /\ taken' \in Seq(Nat) /\ taken' \o queue' = taken \o queue
        /\ queue' # << >> => queue # << >>
    <2>1. CASE r = 1
      <3>1. queue # << >> /\ queue' = Tail(queue) /\ taken' = Append(taken, Head(queue))
        BY <2>1 DEF Return
      <3>2. QED
        BY Zenon, <1>0, <3>1, HeadMoves
    <2>2. CASE r # 1
      BY <1>0, <2>2 DEF Return
    <2>3. QED
      BY Zenon, <2>1, <2>2
  <1>2. Delivered'
    BY <1>1 DEF Delivered
  <1>3. SleepOnlyWhenEmpty'
    BY <1>0, <1>1 DEF SleepOnlyWhenEmpty, Waiting, TypeOK
  <1>4. QED
    BY <1>0, <1>1, <1>2, <1>3

\* A call of ep_queue_get goes to sleep only after it saw the list empty.
LEMMA GetEnterOK == ASSUME NEW g \in Getters, NEW t \in Timeouts PROVE IInv /\ GetEnter(g, t) => IInv'
  <1> SUFFICES ASSUME IInv, GetEnter(g, t) PROVE IInv'
    OBVIOUS
  <1>0. pushed' = pushed /\ stop' = stop /\ life' = life /\ tmo' = [tmo EXCEPT ![g] = t] /\ pc[g] = "idle"
    BY DEF GetEnter
  <1>1. ASSUME NEW r \in {0, 1}, Return(g, r), r = 1 => queue # << >> PROVE IInv'
    <2>1. /\ queue' \in Seq(Nat) /\ taken' \in Seq(Nat)
          /\ pc' = [pc EXCEPT ![g] = "idle"] /\ ret' = [ret EXCEPT ![g] = r]
          /\ Delivered' /\ SleepOnlyWhenEmpty'
      BY <1>0, <1>1, ReturnOK
    <2>2. TypeOK'
      BY <1>0, <2>1 DEF IInv, TypeOK
    <2>3. QED
      BY <2>1, <2>2 DEF IInv
  <1>2. ASSUME queue = << >>, pc' = [pc EXCEPT ![g] = "wait"], UNCHANGED <<queue, taken, ret>>
        PROVE IInv'
    <2>1. TypeOK'
      BY <1>0, <1>2 DEF IInv, TypeOK
    <2>2. Delivered' /\ SleepOnlyWhenEmpty'
      BY <1>0, <1>2 DEF IInv, Delivered, SleepOnlyWhenEmpty
    <2>3. QED
      BY <2>1, <2>2 DEF IInv
  <1>3. QED
    BY <1>1, <1>2 DEF GetEnter

\* A woken getter takes the head or leaves the list alone.
LEMMA GetResumeOK == ASSUME NEW g \in Getters PROVE IInv /\ GetResume(g) => IInv'
  <1> SUFFICES ASSUME IInv, GetResume(g) PROVE IInv'
    OBVIOUS
  <1>1. PICK r \in {-1, 0, 1} : Return(g, r) /\ (r = 1 => queue # << >>)
    BY DEF GetResume
  <1>2. pushed' = pushed /\ stop' = stop /\ life' = life /\ tmo' = tmo
    BY DEF GetResume
  <1>3. /\ queue' \in Seq(Nat) /\ taken' \in Seq(Nat)
        /\ pc' = [pc EXCEPT ![g] = "idle"] /\ ret' = [ret EXCEPT ![g] = r]
        /\ Delivered' /\ SleepOnlyWhenEmpty'
    BY <1>1, <1>2, ReturnOK
  <1>4. TypeOK'
    BY <1>2, <1>3 DEF IInv, TypeOK
  <1>5. QED
    BY <1>3, <1>4 DEF IInv

\* Wake-ups of any kind, a stop and a destroy leave the list alone and put
\* nobody to sleep.
LEMMA WakeOK ==
  ASSUME IInv, UNCHANGED <<queue, tmo, ret, pushed, taken>>,
         stop' \in {0, 1}, life' \in {"live", "destroyed", "aborted"},
         pc' \in [Getters -> {"idle", "wait", "signalled", "timedout"}],
         \A g \in Getters : /\ pc'[g] = "wait" => pc[g] = "wait"
                            /\ pc'[g] = "timedout" => tmo[g] = "positive"
  PROVE  IInv'
  <1>1. TypeOK'
    BY DEF IInv, TypeOK
  <1>2. Delivered'
    BY DEF IInv, Delivered
  <1>3. SleepOnlyWhenEmpty'
    BY DEF IInv, SleepOnlyWhenEmpty, Waiting
  <1>4. QED
    BY <1>1, <1>2, <1>3 DEF IInv

\* Every step of the queue preserves the invariant.
LEMMA Inductive == IInv /\ [Next]_vars => IInv'
  <1> SUFFICES ASSUME IInv, [Next]_vars PROVE IInv'
    OBVIOUS
  <1>1. CASE Push
    BY <1>1, PushOK
  <1>2. CASE Stop
    BY <1>2, WakeOK DEF Stop, Signal, Waiting, IInv, TypeOK
  <1>3. CASE Destroy
    BY <1>3, WakeOK DEF Destroy, IInv, TypeOK
  <1>4. ASSUME NEW g \in Getters, NEW t \in Timeouts, GetEnter(g, t) PROVE IInv'
    BY <1>4, GetEnterOK
  <1>5. ASSUME NEW g \in Getters, GetResume(g) PROVE IInv'
    BY <1>5, GetResumeOK
  <1>6. ASSUME NEW g \in Getters, TimeOut(g) PROVE IInv'
    BY <1>6, WakeOK DEF TimeOut, IInv, TypeOK
  <1>7. ASSUME NEW g \in Getters, SpuriousWake(g) PROVE IInv'
    BY <1>7, WakeOK DEF SpuriousWake, IInv, TypeOK
  <1>8. CASE UNCHANGED vars
    BY <1>8, WakeOK DEF vars, IInv, TypeOK
  <1>9. QED
    BY <1>1, <1>2, <1>3, <1>4, <1>5, <1>6, <1>7, <1>8 DEF Next

\* The invariant holds of every reachable state of the queue.
THEOREM Invariance == Spec => []IInv
  BY InitOK, Inductive, PTL DEF Spec

\* The list, the flags and every getter keep their kinds of values, and only
\* a call with a deadline times out.
THEOREM TypeCorrect == Spec => []TypeOK
  BY Invariance, PTL DEF IInv

\* ep_queue_get hands out every pushed body once and in order, whatever
\* wake-ups, timeouts and stops come between.
THEOREM EveryBodyOnce == Spec => []Delivered
  BY Invariance, PTL DEF IInv

\* No getter sleeps in pthread_cond_wait while a body is in the list.
THEOREM NoLostWakeup == Spec => []SleepOnlyWhenEmpty
  BY Invariance, PTL DEF IInv
=============================================================================
