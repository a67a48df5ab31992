------------------------------ MODULE ByteFifo ------------------------------
(***************************************************************************)
(* What the ring buffer of ep_ringbuffer.c promises: an unbounded FIFO of  *)
(* bytes.  fifo holds the bytes written and not yet read, out the last     *)
(* call: its operation, the count it returned, the bytes it wrote or read. *)
(***************************************************************************)
EXTENDS Integers, Sequences

CONSTANTS Byte, Limit, MaxWrite, MaxRead

VARIABLES fifo, out

Blocks(n) == UNION {[1 .. m -> Byte] : m \in 0 .. n}

\* A write appends the first k bytes of data and reports k.  A block that is
\* no longer than the limit given to ep_rb_new is taken whole.
Write(data) ==
  \E k \in 0 .. Len(data) :
    /\ Len(data) <= Limit => k = Len(data)
    /\ fifo' = fifo \o SubSeq(data, 1, k)
    /\ out'  = [op |-> "write", count |-> k, data |-> data]

\* A read takes the oldest count bytes, or all there are.
Read(count) ==
  LET k == IF count <= Len(fifo) THEN count ELSE Len(fifo)
  IN  /\ fifo' = SubSeq(fifo, k + 1, Len(fifo))
      /\ out'  = [op |-> "read", count |-> k, data |-> SubSeq(fifo, 1, k)]

Init == fifo = << >> /\ out = [op |-> "new", count |-> 0, data |-> << >>]

Next == \/ \E data \in Blocks(MaxWrite) : Write(data)
        \/ \E count \in 0 .. MaxRead : Read(count)

Spec == Init /\ [][Next]_<<fifo, out>>
=============================================================================
