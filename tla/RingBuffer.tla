----------------------------- MODULE RingBuffer -----------------------------
(***************************************************************************)
(* The life of one ring buffer: ep_rb_new, then any sequence of calls of   *)
(* ep_rb_write and ep_rb_read (eventpack/src/ep_ringbuffer.c).  Its only   *)
(* user, ep_io.c, calls it under the lock of the io manager, so that a     *)
(* call is one step.                                                       *)
(***************************************************************************)
EXTENDS RingBufferOps

CONSTANTS
  Byte,         \* the values of a byte
  DefCapacity,  \* the capacity ep_rb_new is given
  Limit,        \* the limit ep_rb_new is given
  MaxWrite,     \* longest block a caller writes
  MaxRead,      \* longest read a caller asks for
  MaxCapacity   \* bound: no write is made that would expand beyond this

ASSUME RingBufferAssumption ==
  /\ DefCapacity \in Nat \ {0} /\ Limit \in Nat \ {0}    \* assert of ep_rb_new
  /\ MaxWrite \in Nat /\ MaxRead \in Nat /\ MaxCapacity \in Nat
  /\ Zero \in Byte /\ Undef \notin Byte

VARIABLES
  rb,    \* the struct ep_rb
  out    \* the last call: operation, count returned, bytes written or read

vars == <<rb, out>>

Blocks(n) == UNION {[1 .. m -> Byte] : m \in 0 .. n}

Init ==
  /\ rb  = New(DefCapacity, Limit)
  /\ out = [op |-> "new", count |-> 0, data |-> << >>]

Write(data) ==
  /\ Expand(rb, Len(data)).capacity <= MaxCapacity
  /\ rb'  = AfterWrite(rb, data)
  /\ out' = [op |-> "write", count |-> Written(rb, data), data |-> data]

Read(count) ==
  LET n == Min2(count, CanRead(rb))
  IN  /\ rb'  = AfterRead(rb, n)
      /\ out' = [op |-> "read", count |-> n, data |-> ReadData(rb, n)]

Next == \/ \E data \in Blocks(MaxWrite) : Write(data)
        \/ \E count \in 0 .. MaxRead : Read(count)

Spec == Init /\ [][Next]_vars
-----------------------------------------------------------------------------
\* Indices stay inside the memory, and the memory is as long as capacity says.
TypeOK ==
  /\ IsRing(rb, Byte \cup {Undef}) /\ rb.limit = Limit
  /\ out \in [op : {"new", "write", "read"}, count : Nat, data : Seq(Byte)]

\* wrap is never stale in the way that matters: while it is set the unread
\* bytes reach the end of the memory, so that head = tail with wrap set means
\* full and never empty, although a read that stops short of the end leaves
\* wrap as it was (lines 142-147 against 177-180).
WrapMeansData == rb.wrap = 1 => rb.head + CanRead(rb) >= rb.capacity

\* Every unread cell was written by a caller: no byte of the uninitialised
\* memory an expansion adds is ever counted as data.
UnreadWritten == \A i \in 1 .. CanRead(rb) : ReadData(rb, CanRead(rb))[i] \in Byte

\* can_write never promises room that the memory does not have once
\* ep_rb_expand_limit has run, so that memcpy stays inside the buffer.
WriteFits ==
  \A n \in 0 .. MaxWrite :
    Min2(n, CanWrite(Expand(rb, n)))
      <= Expand(rb, n).capacity - CanRead(Expand(rb, n))

\* The buffer is a FIFO: every call returns what ByteFifo's call returns.
Fifo == INSTANCE ByteFifo WITH fifo <- ReadData(rb, CanRead(rb))
IsFifo == Fifo!Spec
=============================================================================
