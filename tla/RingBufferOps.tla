--------------------------- MODULE RingBufferOps ---------------------------
(***************************************************************************)
(* The receive buffer of one connection (eventpack/src/ep_ringbuffer.c) as *)
(* pure operators on a record with the fields of struct ep_rb: buffer,     *)
(* head, tail, wrap, capacity and limit.  The scratch area retval, into    *)
(* which a read that wraps is assembled, is left out: what a read hands to *)
(* its caller is the value ReadData.                                       *)
(***************************************************************************)
EXTENDS Integers, Sequences

CONSTANTS
  Zero,    \* the byte ep_rb_new fills a new buffer with
  Undef    \* what a cell of freshly malloc'ed, never written memory holds

Min2(a, b) == IF a <= b THEN a ELSE b

New(capacity, limit) ==
  [ buffer |-> [i \in 0 .. capacity - 1 |-> Zero], head |-> 0, tail |-> 0,
    wrap |-> 0, capacity |-> capacity, limit |-> limit ]

CanRead(rb) ==
  IF rb.tail = rb.head THEN (IF rb.wrap = 1 THEN rb.capacity ELSE 0)
  ELSE IF rb.tail > rb.head THEN rb.tail - rb.head
  ELSE rb.capacity + rb.tail - rb.head

CanWrite(rb) ==
  LET free == rb.capacity - CanRead(rb)
  IN  IF free = 0 /\ rb.limit > rb.capacity
        THEN rb.limit - CanRead(rb)
        ELSE free

\* The shape of struct ep_rb: indices inside the memory, the memory as long
\* as capacity says and holding values of Cell.
IsRing(rb, Cell) ==
  /\ rb = [buffer |-> rb.buffer, head |-> rb.head, tail |-> rb.tail,
           wrap |-> rb.wrap, capacity |-> rb.capacity, limit |-> rb.limit]
  /\ rb.capacity \in Nat \ {0} /\ rb.limit \in Nat \ {0}
  /\ rb.head \in 0 .. rb.capacity - 1 /\ rb.tail \in 0 .. rb.capacity - 1
  /\ rb.wrap \in {0, 1}
  /\ rb.buffer \in [0 .. rb.capacity - 1 -> Cell]

\* The n bytes of memory that start at index from.
Chunk(buffer, from, n) == [i \in 1 .. n |-> buffer[from + i - 1]]

\* The bytes a read of n <= CanRead(rb) bytes returns, one chunk up to the
\* end of the memory and one from its start.  The path that needs no second
\* chunk returns a pointer into the buffer; its bytes are the same.
ReadData(rb, n) ==
  LET tail_chunk == Min2(n, rb.capacity - rb.head)
      head1      == (rb.head + tail_chunk) % rb.capacity
  IN  Chunk(rb.buffer, rb.head, tail_chunk) \o Chunk(rb.buffer, head1, n - tail_chunk)

\* Mutant of AfterRead: head runs off the end of the memory.
AfterReadNoModulo(rb, n) ==
  IF rb.capacity - rb.head > n THEN [rb EXCEPT !.head = @ + n]
  ELSE [rb EXCEPT !.head = @ + Min2(n, rb.capacity - rb.head), !.wrap = 0]

\* The buffer after that read.  Only the path that reaches the end of the
\* memory clears wrap.
AfterRead(rb, n) ==
  LET tail_chunk == Min2(n, rb.capacity - rb.head)
      head1      == (rb.head + tail_chunk) % rb.capacity
  IN  IF n = 0 THEN rb
      ELSE IF rb.capacity - rb.head > n
        THEN [rb EXCEPT !.head = (rb.head + n) % rb.capacity]
      ELSE [rb EXCEPT !.head = (head1 + (n - tail_chunk)) % rb.capacity,
                      !.wrap = 0]

\* Mutant of Expand: the new tail one cell too far.
ExpandTailOffByOne(rb, count) ==
  LET readed == CanRead(rb)
      data   == ReadData(rb, readed)
      cap    == rb.capacity + Min2(count, rb.limit)
  IN  IF rb.capacity - readed >= count THEN rb
      ELSE [AfterRead(rb, readed) EXCEPT
              !.buffer   = [i \in 0 .. cap - 1 |->
                              IF i < readed THEN data[i + 1] ELSE Undef],
              !.head     = 0,
              !.capacity = cap,
              !.tail     = (readed + 1) % cap]

\* ep_rb_expand_limit: larger memory when count bytes do not fit, the
\* unread bytes moved to its start.
Expand(rb, count) ==
  LET readed  == CanRead(rb)
      data    == ReadData(rb, readed)
      drained == AfterRead(rb, readed)
      cap     == rb.capacity + Min2(count, rb.limit)
  IN  IF rb.capacity - readed >= count THEN rb
      ELSE [drained EXCEPT
              !.buffer   = [i \in 0 .. cap - 1 |->
                              IF i < readed THEN data[i + 1] ELSE Undef],
              !.head     = 0,
              !.capacity = cap,
              !.tail     = readed % cap]

\* How many bytes of data ep_rb_write accepts.
Written(rb, data) == Min2(Len(data), CanWrite(Expand(rb, Len(data))))

\* Mutant of Copy: the second piece starts one byte early in data.
CopySourceOffByOne(buffer, dst, data, src, n) ==
  [i \in DOMAIN buffer |->
     IF dst <= i /\ i < dst + n
       THEN data[IF src = 1 THEN 1 + (i - dst) ELSE src - 1 + (i - dst)]
       ELSE buffer[i]]

\* memcpy of n bytes of data, from its index src on, to address dst.
Copy(buffer, dst, data, src, n) ==
  [i \in DOMAIN buffer |->
     IF dst <= i /\ i < dst + n THEN data[src + (i - dst)] ELSE buffer[i]]

\* The buffer after ep_rb_write of data.
AfterWrite(rb, data) ==
  LET big        == Expand(rb, Len(data))
      n          == Written(rb, data)
      tail_chunk == Min2(n, big.capacity - big.tail)
      tail1      == (big.tail + tail_chunk) % big.capacity
      tail2      == (tail1 + (n - tail_chunk)) % big.capacity
      first      == Copy(big.buffer, big.tail, data, 1, tail_chunk)
      both       == Copy(first, tail1, data, tail_chunk + 1, n - tail_chunk)
  IN  IF n = 0 THEN big
      ELSE [big EXCEPT !.buffer = both,
                       !.tail   = tail2,
                       !.wrap   = IF big.head = tail2 THEN 1 ELSE @]
=============================================================================
