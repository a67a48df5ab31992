-------------------------- MODULE RingBufferProofs --------------------------
(***************************************************************************)
(* The ring buffer for every capacity, limit and block size.  The core is  *)
(* two facts about positions counted round the end of the memory: a read   *)
(* returns the first unread cells, and a write fills the free cells behind *)
(* them.  From these follow the invariants and the refinement of ByteFifo. *)
(***************************************************************************)
EXTENDS RingBuffer, SequenceTheorems, TLAPS

\* The index of the p-th cell counted from the start of a memory of c cells,
\* for p less than two laps: p % c without the division.
Idx(c, p) == IF p < c THEN p ELSE p - c

\* A sound buffer: of the right shape, and with wrap set only while the
\* unread bytes reach the end of the memory.
Good(r, C) == IsRing(r, C) /\ (r.wrap = 1 => r.head + CanRead(r) >= r.capacity)

\* Positions inside the memory are their own remainder.
LEMMA ModBelow ==
  ASSUME NEW c, NEW p, c \in Nat \ {0}, p \in Nat, p < c
  PROVE  p % c = p
  OBVIOUS

\* Positions of the second lap are one capacity less.
LEMMA ModAbove ==
  ASSUME NEW c, NEW p, c \in Nat \ {0}, p \in Nat, c <= p, p < c + c
  PROVE  p % c = p - c
  OBVIOUS

\* Both together: p % c is Idx(c, p) for less than two laps.
LEMMA ModIdx ==
  ASSUME NEW c, NEW p, c \in Nat \ {0}, p \in Nat, p < c + c
  PROVE  p % c = Idx(c, p)
  <1>1. CASE p < c
    BY <1>1, ModBelow DEF Idx
  <1>2. CASE c <= p
    BY <1>2, ModAbove DEF Idx
  <1>3. QED
    BY <1>1, <1>2

\* ep_rb_can_read is at most the capacity, and tail is that far past head.
LEMMA CanReadRange ==
  ASSUME NEW C, NEW r, IsRing(r, C)
  PROVE  /\ CanRead(r) \in 0 .. r.capacity
         /\ r.tail = Idx(r.capacity, r.head + CanRead(r))
  BY DEF IsRing, CanRead, Idx

\* A chunk of n cells has length n and holds the cells in order.
LEMMA ChunkLen ==
  ASSUME NEW buf, NEW from, NEW n, n \in Nat
  PROVE  /\ Len(Chunk(buf, from, n)) = n
         /\ \A i \in 1 .. n : Chunk(buf, from, n)[i] = buf[from + i - 1]
  BY DEF Chunk

\* A chunk inside the memory is a sequence of cells.
LEMMA ChunkType ==
  ASSUME NEW C, NEW c, NEW buf, NEW from, NEW n,
         c \in Nat, buf \in [0 .. c - 1 -> C],
         from \in Nat, n \in Nat, from + n <= c
  PROVE  Chunk(buf, from, n) \in Seq(C)
  <1>1. \A i \in 1 .. n : buf[from + i - 1] \in C
    OBVIOUS
  <1>2. Chunk(buf, from, n) \in [1 .. n -> C]
    BY <1>1 DEF Chunk
  <1>3. QED
    BY <1>2

\* The two chunks of a read (and of a write) of n bytes at position p of a
\* memory of c cells.
Lap(buf, c, p, n) ==
  LET t == Min2(n, c - p)
  IN  Chunk(buf, p, t) \o Chunk(buf, (p + t) % c, n - t)

\* s holds n bytes, the cells of buf from position p on, round the end.
Holds(s, C, buf, c, p, n) ==
  /\ s \in Seq(C)
  /\ Len(s) = n
  /\ \A i \in 1 .. n : s[i] = buf[Idx(c, p + i - 1)]

\* Two chunks that together are at most one lap hold the cells from p on,
\* round the end.
LEMMA LapProps ==
  ASSUME NEW C, NEW c, NEW buf, NEW p, NEW n,
         c \in Nat \ {0}, buf \in [0 .. c - 1 -> C],
         p \in 0 .. c - 1, n \in 0 .. c
  PROVE  Holds(Lap(buf, c, p, n), C, buf, c, p, n)
  <1> DEFINE t == Min2(n, c - p)
             h == (p + t) % c
             a == Chunk(buf, p, t)
             b == Chunk(buf, h, n - t)
  <1>1. /\ t \in 0 .. n /\ p + t <= c
        /\ n - t > 0 => p + t = c
        /\ c \in Nat
    BY DEF Min2
  <1> HIDE DEF t
  <1>2. h = Idx(c, p + t)
    BY <1>1, ModIdx
  <1> HIDE DEF h
  <1>3. h \in 0 .. c - 1 /\ h + (n - t) <= c /\ n - t \in Nat
    BY <1>1, <1>2 DEF Idx
  <1>c. p \in Nat /\ t \in Nat /\ h \in Nat
    BY <1>1, <1>3
  <1>s. a \in Seq(C) /\ b \in Seq(C)
    BY <1>1, <1>3, <1>c, ChunkType, Zenon
  <1>4. Len(a) = t /\ \A i \in 1 .. t : a[i] = buf[p + i - 1]
    BY <1>c, ChunkLen
  <1>5. Len(b) = n - t /\ \A i \in 1 .. (n - t) : b[i] = buf[h + i - 1]
    BY <1>3, ChunkLen
  <1> HIDE DEF a, b
  <1>6. /\ a \o b \in Seq(C) /\ Len(a \o b) = n
        /\ \A i \in 1 .. n : (a \o b)[i] = IF i <= t THEN a[i] ELSE b[i - t]
    <2>1. /\ a \o b \in Seq(C) /\ Len(a \o b) = Len(a) + Len(b)
          /\ \A i \in 1 .. Len(a) + Len(b) :
               (a \o b)[i] = IF i <= Len(a) THEN a[i] ELSE b[i - Len(a)]
      BY <1>s, ConcatProperties, Zenon
    <2>2. Len(a) + Len(b) = n
      BY <1>1, <1>4, <1>5
    <2>3. QED
      BY <2>1, <2>2, <1>4, Zenon
  <1>7. \A i \in 1 .. n : (a \o b)[i] = buf[Idx(c, p + i - 1)]
    BY SMTT(20), <1>1, <1>2, <1>3, <1>4, <1>5, <1>6 DEF Idx
  <1>8. QED
    BY Zenon, <1>6, <1>7 DEF Holds, Lap, t, h, a, b

\* What ep_rb_read returns are the n cells from head on.
LEMMA ReadDataProps ==
  ASSUME NEW C, NEW r, NEW n, IsRing(r, C), n \in 0 .. r.capacity
  PROVE  Holds(ReadData(r, n), C, r.buffer, r.capacity, r.head, n)
  <1>1. /\ r.capacity \in Nat \ {0} /\ r.head \in 0 .. r.capacity - 1
        /\ r.buffer \in [0 .. r.capacity - 1 -> C]
    BY DEF IsRing
  <1>2. ReadData(r, n) = Lap(r.buffer, r.capacity, r.head, n)
    BY DEF ReadData, Lap
  <1>3. QED
    BY <1>1, <1>2, LapProps, Zenon

\* What ep_rb_read leaves behind: only head and wrap change, head moves by
\* the count, and wrap is cleared when the read reaches the end of the memory.
ReadFields(r, n, q) ==
  /\ q = [r EXCEPT !.head = Idx(r.capacity, r.head + n), !.wrap = q.wrap]
  /\ q.wrap \in {0, r.wrap}
  /\ q.wrap = 1 => n = 0 \/ r.head + n < r.capacity
  /\ n > 0 /\ n = CanRead(r) => q.wrap = 0
  /\ n = 0 => q.wrap = r.wrap

\* The fields after a read of at most CanRead bytes.
LEMMA AfterReadFields ==
  ASSUME NEW C, NEW r, NEW n, Good(r, C), n \in 0 .. CanRead(r)
  PROVE  ReadFields(r, n, AfterRead(r, n))
  <1> DEFINE c == r.capacity
             h == r.head
             t == Min2(n, c - h)
  <1>0. IsRing(r, C) /\ (r.wrap = 1 => r.head + CanRead(r) >= r.capacity)
    BY DEF Good
  <1>1. c \in Nat \ {0} /\ h \in 0 .. c - 1
    BY <1>0 DEF IsRing
  <1>2. r = [buffer |-> r.buffer, head |-> r.head, tail |-> r.tail,
             wrap |-> r.wrap, capacity |-> r.capacity, limit |-> r.limit]
        /\ r.wrap \in {0, 1}
    BY <1>0 DEF IsRing
  <1>3. CanRead(r) \in 0 .. c
    BY <1>0, CanReadRange, Zenon
  <1> HIDE DEF c, h
  <1>4. n \in 0 .. c /\ h + n < c + c /\ h + n \in Nat /\ t \in 0 .. n /\ h + t <= c
        /\ n - t \in Nat /\ (n - t > 0 => h + t = c) /\ n - t < c
    BY <1>1, <1>3 DEF Min2
  <1> HIDE DEF t
  <1>5. (h + n) % c = Idx(c, h + n)
    BY <1>1, <1>4, ModIdx
  <1>6. (((h + t) % c) + (n - t)) % c = Idx(c, h + n)
    <2>1. (h + t) % c = Idx(c, h + t)
      BY <1>1, <1>4, ModIdx
    <2>2. Idx(c, h + t) + (n - t) \in Nat /\ Idx(c, h + t) + (n - t) < c + c
      BY <1>1, <1>4 DEF Idx
    <2>3. (Idx(c, h + t) + (n - t)) % c = Idx(c, Idx(c, h + t) + (n - t))
      BY <1>1, <2>2, ModIdx
    <2>4. Idx(c, Idx(c, h + t) + (n - t)) = Idx(c, h + n)
      BY <1>1, <1>4 DEF Idx
    <2>5. QED
      BY <2>1, <2>3, <2>4
  <1>7. CASE n = 0
    <2>1. AfterRead(r, n) = r
      BY <1>7 DEF AfterRead
    <2>2. Idx(c, h + n) = h
      BY <1>7, <1>1 DEF Idx
    <2>3. r = [r EXCEPT !.head = r.head, !.wrap = r.wrap]
      BY Zenon, <1>2
    <2>4. AfterRead(r, n) = [r EXCEPT !.head = Idx(c, h + n), !.wrap = AfterRead(r, n).wrap]
      BY Zenon, <2>1, <2>2, <2>3 DEF h
    <2>5. QED
      BY <1>7, <2>1, <2>4 DEF ReadFields, c, h
  <1>8. CASE n # 0 /\ c - h > n
    <2>1. AfterRead(r, n) = [r EXCEPT !.head = (h + n) % c]
      BY <1>8 DEF AfterRead, c, h
    <2>2. AfterRead(r, n) = [r EXCEPT !.head = Idx(c, h + n), !.wrap = r.wrap]
          /\ AfterRead(r, n).wrap = r.wrap
      BY Zenon, <1>2, <1>5, <2>1
    <2>3. h + n < c /\ (r.wrap = 1 => n # CanRead(r))
      BY <1>0, <1>1, <1>4, <1>8, <1>3 DEF c, h
    <2>4. QED
      BY <1>2, <1>8, <2>2, <2>3 DEF ReadFields, c, h
  <1>9. CASE n # 0 /\ ~(c - h > n)
    <2>1. AfterRead(r, n)
            = [r EXCEPT !.head = (((h + t) % c) + (n - t)) % c, !.wrap = 0]
      BY <1>9 DEF AfterRead, c, h, t
    <2>2. AfterRead(r, n) = [r EXCEPT !.head = Idx(c, h + n), !.wrap = 0]
          /\ AfterRead(r, n).wrap = 0
      BY Zenon, <1>2, <1>6, <2>1
    <2>3. QED
      BY <1>2, <1>9, <2>2 DEF ReadFields, c, h
  <1>10. QED
    BY <1>7, <1>8, <1>9

\* A read keeps the buffer well formed and takes exactly n bytes off it.
Taken(r, n, C, q) ==
  /\ Good(q, C) /\ CanRead(q) = CanRead(r) - n
  /\ q.head = Idx(r.capacity, r.head + n) /\ q.buffer = r.buffer
  /\ q.capacity = r.capacity /\ q.limit = r.limit

\* A read keeps the buffer sound and consumes exactly what it returns.
LEMMA AfterReadGood ==
  ASSUME NEW C, NEW r, NEW n, Good(r, C), n \in 0 .. CanRead(r)
  PROVE  Taken(r, n, C, AfterRead(r, n))
  <1> DEFINE q == AfterRead(r, n)
             c == r.capacity
             h == r.head
             k == CanRead(r)
             w == q.wrap
  <1>0. IsRing(r, C) /\ (r.wrap = 1 => r.head + CanRead(r) >= r.capacity)
    BY DEF Good
  <1>1. /\ c \in Nat \ {0} /\ h \in 0 .. c - 1 /\ r.limit \in Nat \ {0}
        /\ r.wrap \in {0, 1} /\ r.tail \in 0 .. c - 1
        /\ r.buffer \in [0 .. c - 1 -> C]
        /\ r = [buffer |-> r.buffer, head |-> r.head, tail |-> r.tail,
                wrap |-> r.wrap, capacity |-> r.capacity, limit |-> r.limit]
    BY <1>0 DEF IsRing
  <1>2. k \in 0 .. c /\ r.tail = Idx(c, h + k)
    BY <1>0, CanReadRange, Zenon
  <1>3. /\ q = [r EXCEPT !.head = Idx(c, h + n), !.wrap = w]
        /\ w \in {0, r.wrap}
        /\ w = 1 => n = 0 \/ h + n < c
        /\ n > 0 /\ n = k => w = 0
        /\ n = 0 => w = r.wrap
    <2>1. ReadFields(r, n, q)
      BY AfterReadFields, Zenon
    <2>2. QED
      BY <2>1 DEF ReadFields
  <1>4. r.wrap = 1 => h + k >= c
    BY <1>0
  <1>5. r.wrap = 0 => k < c
    BY <1>1 DEF CanRead, c, k
  <1> HIDE DEF q, c, h, k, w
  <1>6. /\ q = [buffer |-> r.buffer, head |-> Idx(c, h + n), tail |-> r.tail,
                wrap |-> w, capacity |-> c, limit |-> r.limit]
    BY Zenon, <1>1, <1>3 DEF c, h
  <1>7. Idx(c, h + n) \in 0 .. c - 1 /\ w \in {0, 1}
    BY SMTT(20), <1>1, <1>2, <1>3 DEF Idx, k
  <1>8. IsRing(q, C)
    BY <1>1, <1>6, <1>7 DEF IsRing
  <1>9. CanRead(q) = k - n
    <2>1. CanRead(q) = IF r.tail = Idx(c, h + n) THEN (IF w = 1 THEN c ELSE 0)
                       ELSE IF r.tail > Idx(c, h + n) THEN r.tail - Idx(c, h + n)
                       ELSE c + r.tail - Idx(c, h + n)
      BY <1>6 DEF CanRead
    <2>2. n \in 0 .. k
      BY DEF k
    <2>3. CASE n = k
      <3>1. r.tail = Idx(c, h + n) /\ (w = 1 => k = 0)
        BY <2>3, <1>2, <1>3
      <3>2. w = 1 => c <= h
        BY <1>1, <1>2, <1>3, <1>4, <2>3
      <3>3. QED
        BY <2>1, <2>3, <3>1, <3>2, <1>1, <1>2, <1>7
    <2>4. CASE n < k
      BY SMTT(20), <1>1, <1>2, <1>3, <1>4, <1>5, <2>1, <2>2, <2>4 DEF Idx
    <2>5. QED
      BY <1>2, <2>2, <2>3, <2>4
  <1>10. w = 1 => Idx(c, h + n) + (k - n) >= c
    <2>1. n \in 0 .. k
      BY DEF k
    <2>2. QED
      BY <1>1, <1>2, <1>3, <1>4, <2>1 DEF Idx
  <1>11. /\ q.head = Idx(c, h + n) /\ q.wrap = w /\ q.capacity = c
         /\ q.limit = r.limit /\ q.buffer = r.buffer
    BY <1>6
  <1>12. Good(q, C)
    BY <1>8, <1>9, <1>10, <1>11 DEF Good
  <1>13. QED
    BY <1>9, <1>11, <1>12 DEF Taken, q, c, h, k

\* Sequences of equal length and equal elements are equal.
LEMMA SameSeq ==
  ASSUME NEW S, NEW s, NEW t, s \in Seq(S), t \in Seq(S), Len(s) = Len(t),
         \A i \in 1 .. Len(s) : s[i] = t[i]
  PROVE  s = t
  BY SeqEqual

\* The unread bytes, oldest first.
Content(r) == ReadData(r, CanRead(r))

\* The fields ep_rb_expand_limit leaves when it does expand.
Grown(r, e, cap) ==
  /\ e = [buffer |-> [i \in 0 .. cap - 1 |->
                        IF i < CanRead(r) THEN Content(r)[i + 1] ELSE Undef],
          head |-> 0, tail |-> CanRead(r), wrap |-> 0,
          capacity |-> cap, limit |-> r.limit]

\* When count bytes do not fit, ep_rb_expand_limit adds min(count, limit)
\* cells and moves the unread bytes to the front.
LEMMA ExpandGrows ==
  ASSUME NEW C, NEW r, NEW count, Good(r, C), count \in Nat,
         ~(r.capacity - CanRead(r) >= count)
  PROVE  Grown(r, Expand(r, count), r.capacity + Min2(count, r.limit))
  <1> DEFINE k   == CanRead(r)
             q   == AfterRead(r, k)
             cap == r.capacity + Min2(count, r.limit)
             buf == [i \in 0 .. cap - 1 |->
                        IF i < k THEN ReadData(r, k)[i + 1] ELSE Undef]
  <1>0. IsRing(r, C) /\ (r.wrap = 1 => r.head + CanRead(r) >= r.capacity)
    BY DEF Good
  <1>1. /\ r.capacity \in Nat \ {0} /\ r.head \in 0 .. r.capacity - 1
        /\ r.limit \in Nat \ {0} /\ r.wrap \in {0, 1}
        /\ r = [buffer |-> r.buffer, head |-> r.head, tail |-> r.tail,
                wrap |-> r.wrap, capacity |-> r.capacity, limit |-> r.limit]
    BY <1>0 DEF IsRing
  <1>2. k \in 0 .. r.capacity
    BY <1>0, CanReadRange, Zenon
  <1>k. k \in 0 .. k
    BY <1>1, <1>2
  <1>3. ReadFields(r, k, q)
    BY <1>k, AfterReadFields, Zenon
  <1>4. q.wrap = 0
    BY <1>0, <1>1, <1>2, <1>3 DEF ReadFields
  <1>5. q = [r EXCEPT !.head = Idx(r.capacity, r.head + k), !.wrap = 0]
    BY <1>3, <1>4 DEF ReadFields
  <1>6. Expand(r, count) = [q EXCEPT !.buffer = buf, !.head = 0,
                                     !.capacity = cap, !.tail = k % cap]
    BY <1>1, <1>2 DEF Expand
  <1>7. k < cap /\ cap \in Nat \ {0}
    BY <1>1, <1>2 DEF Min2
  <1> HIDE DEF k, q, cap, buf
  <1>8. k % cap = k
    BY <1>1, <1>2, <1>7, ModBelow
  <1>9. Expand(r, count) = [buffer |-> buf, head |-> 0, tail |-> k, wrap |-> 0,
                            capacity |-> cap, limit |-> r.limit]
    BY Zenon, <1>1, <1>5, <1>6, <1>8
  <1>10. QED
    BY <1>9 DEF Grown, Content, k, cap, buf

\* ep_rb_expand_limit keeps the unread bytes and makes room for count bytes,
\* or for limit bytes when count is larger.
Expanded(r, count, C, e) ==
  /\ Good(e, C)
  /\ CanRead(e) = CanRead(r)
  /\ Content(e) = Content(r)
  /\ e.limit = r.limit
  /\ e.capacity >= CanRead(e) + Min2(count, e.limit)

\* e is r with m more cells and the same unread bytes.
Enlarges(e, r, m, C) ==
  /\ Good(e, C) /\ CanRead(e) = CanRead(r) /\ Content(e) = Content(r)
  /\ e.limit = r.limit /\ e.capacity = r.capacity + m

\* The expanded memory is sound and starts with the unread bytes.
LEMMA GrownExpanded ==
  ASSUME NEW C, NEW r, NEW m, NEW e, Good(r, C), Undef \in C, m \in Nat \ {0},
         Grown(r, e, r.capacity + m)
  PROVE  Enlarges(e, r, m, C)
  <1> DEFINE k   == CanRead(r)
             c   == r.capacity
             s   == Content(r)
             cap == c + m
             buf == [i \in 0 .. cap - 1 |-> IF i < k THEN s[i + 1] ELSE Undef]
  <1>0. IsRing(r, C)
    BY DEF Good
  <1>1. c \in Nat \ {0} /\ r.limit \in Nat \ {0}
    BY <1>0 DEF IsRing
  <1>2. k \in 0 .. c
    BY <1>0, CanReadRange, Zenon
  <1>3. Holds(s, C, r.buffer, c, r.head, k)
    BY <1>0, <1>2, ReadDataProps, Zenon DEF Content
  <1>4. s \in Seq(C) /\ Len(s) = k
    BY <1>3 DEF Holds
  <1>5. e = [buffer |-> buf, head |-> 0, tail |-> k, wrap |-> 0,
             capacity |-> cap, limit |-> r.limit]
    BY DEF Grown
  <1>6. cap \in Nat \ {0} /\ k \in 0 .. cap - 1
    BY <1>1, <1>2
  <1> HIDE DEF k, c, s, cap
  <1>7. buf \in [0 .. cap - 1 -> C]
    BY <1>2, <1>4, <1>6
  <1> HIDE DEF buf
  <1>8. IsRing(e, C)
    BY <1>1, <1>5, <1>6, <1>7 DEF IsRing
  <1>9. CanRead(e) = k
    BY <1>5, <1>6 DEF CanRead
  <1>10. e.wrap = 0 /\ e.capacity = cap /\ e.limit = r.limit /\ e.head = 0
         /\ e.buffer = buf
    BY <1>5
  <1>11. Good(e, C)
    BY <1>8, <1>10 DEF Good
  <1>12. Content(e) = s
    <2>1. k \in 0 .. e.capacity
      BY <1>6, <1>10
    <2>2. Holds(Content(e), C, e.buffer, e.capacity, e.head, k)
      BY <1>8, <1>9, <2>1, ReadDataProps, Zenon DEF Content
    <2>3. Content(e) \in Seq(C) /\ Len(Content(e)) = k
          /\ \A i \in 1 .. k : Content(e)[i] = buf[Idx(cap, 0 + i - 1)]
      BY <2>2, <1>10 DEF Holds
    <2>4. \A i \in 1 .. k : buf[Idx(cap, 0 + i - 1)] = s[i]
      BY <1>6 DEF Idx, buf
    <2>5. QED
      BY Zenon, <1>4, <2>3, <2>4, SameSeq
  <1>13. QED
    BY <1>9, <1>10, <1>11, <1>12 DEF Enlarges, k, c, s, cap

\* Expansion keeps the unread bytes and their order.
LEMMA ExpandKeeps ==
  ASSUME NEW C, NEW r, NEW count, Good(r, C), Undef \in C, count \in Nat
  PROVE  Expanded(r, count, C, Expand(r, count))
  <1>0. IsRing(r, C)
    BY DEF Good
  <1>1. r.capacity \in Nat \ {0} /\ r.limit \in Nat \ {0}
    BY <1>0 DEF IsRing
  <1>2. CanRead(r) \in 0 .. r.capacity
    BY <1>0, CanReadRange, Zenon
  <1>3. CASE r.capacity - CanRead(r) >= count
    <2>1. Expand(r, count) = r
      BY <1>3 DEF Expand
    <2>2. QED
      BY <1>1, <1>2, <1>3, <2>1 DEF Expanded, Min2
  <1>4. CASE ~(r.capacity - CanRead(r) >= count)
    <2> DEFINE m == Min2(count, r.limit)
               e == Expand(r, count)
    <2>1. m \in Nat \ {0}
      BY <1>1, <1>2, <1>4 DEF Min2
    <2>2. Grown(r, e, r.capacity + m)
      BY <1>4, ExpandGrows, Zenon
    <2> HIDE DEF m, e
    <2>3. /\ Good(e, C) /\ CanRead(e) = CanRead(r) /\ Content(e) = Content(r)
          /\ e.limit = r.limit /\ e.capacity = r.capacity + m
      <3>1. Enlarges(e, r, m, C)
        BY Zenon, <2>1, <2>2, GrownExpanded
      <3>2. QED
        BY Zenon, <3>1 DEF Enlarges
    <2>4. e.capacity >= CanRead(e) + Min2(count, e.limit)
      BY <1>1, <1>2, <2>1, <2>3 DEF m
    <2>5. QED
      BY <2>3, <2>4 DEF Expanded, e
  <1>5. QED
    BY <1>3, <1>4

\* ep_rb_write never copies more than fits, and takes a block no longer than
\* the limit whole.
LEMMA WrittenFits ==
  ASSUME NEW C, NEW r, NEW data, Good(r, C), Undef \in C, Len(data) \in Nat
  PROVE  /\ Written(r, data) \in 0 .. Len(data)
         /\ CanRead(r) + Written(r, data) <= Expand(r, Len(data)).capacity
         /\ Len(data) <= r.limit => Written(r, data) = Len(data)
  <1> DEFINE e == Expand(r, Len(data))
             m == Len(data)
             c == e.capacity
             l == e.limit
             k == CanRead(e)
  <1>1. Expanded(r, m, C, e)
    BY ExpandKeeps, Zenon
  <1>2. IsRing(e, C) /\ k = CanRead(r) /\ l = r.limit /\ c >= k + Min2(m, l)
    BY <1>1 DEF Expanded, Good
  <1>3. c \in Nat \ {0} /\ l \in Nat \ {0}
    BY <1>2 DEF IsRing
  <1>4. k \in 0 .. c
    BY <1>2, CanReadRange, Zenon
  <1>5. Written(r, data)
          = Min2(m, IF c - k = 0 /\ l > c THEN l - k ELSE c - k)
    BY DEF Written, CanWrite
  <1> HIDE DEF e, c, l, k
  <1>6. QED
    BY SMTT(20), <1>2, <1>3, <1>4, <1>5 DEF Min2, c, e

\* Copying n bytes in two pieces round the end of the memory puts data[i] in
\* the i-th cell from position p on, and changes no other cell.
Wrapped(buf, c, p, data, n) ==
  LET t == Min2(n, c - p)
  IN  Copy(Copy(buf, p, data, 1, t), (p + t) % c, data, t + 1, n - t)

Filled(new, C, buf, c, p, data, n) ==
  /\ new \in [0 .. c - 1 -> C]
  /\ \A i \in 1 .. n : new[Idx(c, p + i - 1)] = data[i]
  /\ \A i \in n + 1 .. c : new[Idx(c, p + i - 1)] = buf[Idx(c, p + i - 1)]

\* The two copies of a write put data into the n cells from p on, and leave
\* the other cells alone.
LEMMA WrappedFills ==
  ASSUME NEW C, NEW buf, NEW c, NEW p, NEW data, NEW n, c \in Nat \ {0},
         buf \in [0 .. c - 1 -> C], p \in 0 .. c - 1, n \in 0 .. c,
         \A i \in 1 .. n : data[i] \in C
  PROVE  Filled(Wrapped(buf, c, p, data, n), C, buf, c, p, data, n)
  <1> DEFINE t == Min2(n, c - p)
             h == (p + t) % c
             new == Wrapped(buf, c, p, data, n)
  <1>1. /\ t \in 0 .. n /\ p + t <= c /\ n - t \in 0 .. n
        /\ n - t > 0 => p + t = c
    BY DEF Min2
  <1>2. new = [j \in 0 .. c - 1 |->
                 IF h <= j /\ j < h + (n - t) THEN data[t + 1 + (j - h)]
                 ELSE IF p <= j /\ j < p + t THEN data[1 + (j - p)] ELSE buf[j]]
    BY DEF Wrapped, Copy
  <1> HIDE DEF t, new
  <1>3. h = Idx(c, p + t)
    BY <1>1, ModIdx
  <1> HIDE DEF h
  <1>4. h \in 0 .. c - 1 /\ (n - t > 0 => h = 0)
    BY <1>1, <1>3 DEF Idx
  <1>5. ASSUME NEW j \in 0 .. c - 1
        PROVE  new[j] \in C
    <2>1. CASE h <= j /\ j < h + (n - t)
      <3>1. t + 1 + (j - h) \in 1 .. n
        BY <1>1, <1>4, <2>1
      <3>2. QED
        BY <1>2, <2>1, <3>1
    <2>2. CASE ~(h <= j /\ j < h + (n - t)) /\ p <= j /\ j < p + t
      <3>1. 1 + (j - p) \in 1 .. n
        BY <1>1, <1>4, <2>2
      <3>2. QED
        BY <1>2, <2>2, <3>1
    <2>3. CASE ~(h <= j /\ j < h + (n - t)) /\ ~(p <= j /\ j < p + t)
      BY <1>2, <2>3
    <2>4. QED
      BY <2>1, <2>2, <2>3
  <1>6. ASSUME NEW i \in 1 .. n
        PROVE  new[Idx(c, p + i - 1)] = data[i]
    <2>1. CASE i <= t
      <3>1. Idx(c, p + i - 1) = p + i - 1 /\ p + i - 1 \in 0 .. c - 1
        BY <1>1, <2>1 DEF Idx
      <3>2. ~(h <= p + i - 1 /\ p + i - 1 < h + (n - t))
        BY <1>1, <1>4, <2>1
      <3>3. 1 + ((p + i - 1) - p) = i /\ p <= p + i - 1 /\ p + i - 1 < p + t
        BY <1>1, <2>1
      <3>4. QED
        BY <1>2, <3>1, <3>2, <3>3
    <2>2. CASE i > t
      <3>1. Idx(c, p + i - 1) = i - t - 1 /\ i - t - 1 \in 0 .. c - 1 /\ h = 0
        BY <1>1, <1>4, <2>2 DEF Idx
      <3>2. t + 1 + ((i - t - 1) - h) = i /\ h <= i - t - 1 /\ i - t - 1 < h + (n - t)
        BY <1>1, <2>2, <3>1
      <3>3. QED
        BY <1>2, <3>1, <3>2
    <2>3. QED
      BY <1>1, <2>1, <2>2
  <1>7. ASSUME NEW i \in n + 1 .. c
        PROVE  new[Idx(c, p + i - 1)] = buf[Idx(c, p + i - 1)]
    <2> DEFINE j == Idx(c, p + i - 1)
    <2>1. j \in 0 .. c - 1 /\ ~(h <= j /\ j < h + (n - t)) /\ ~(p <= j /\ j < p + t)
      BY <1>1, <1>4 DEF Idx
    <2> HIDE DEF j
    <2>2. new[j] = buf[j]
      BY <1>2, <2>1
    <2>3. QED
      BY <2>2 DEF j
  <1>8. new \in [0 .. c - 1 -> C]
    BY <1>2, <1>5
  <1>9. QED
    BY <1>6, <1>7, <1>8 DEF Filled, new

\* The second half of ep_rb_write, after the expansion: n > 0 bytes of data
\* behind the unread ones of e.
Appended(e, data, n, w) ==
  LET tail2 == Idx(e.capacity, e.tail + n)
  IN  w = [buffer |-> Wrapped(e.buffer, e.capacity, e.tail, data, n),
           head |-> e.head, tail |-> tail2,
           wrap |-> IF e.head = tail2 THEN 1 ELSE e.wrap,
           capacity |-> e.capacity, limit |-> e.limit]

Joined(C, e, data, n, w) ==
  /\ Good(w, C) /\ CanRead(w) = CanRead(e) + n /\ w.limit = e.limit
  /\ Content(w) = Content(e) \o SubSeq(data, 1, n)

\* Writing into real room behind the unread bytes appends to them.
LEMMA AppendGood ==
  ASSUME NEW C, NEW e, NEW data, NEW n, NEW w, Good(e, C), data \in Seq(C),
         n \in 1 .. Len(data), CanRead(e) + n <= e.capacity,
         Appended(e, data, n, w)
  PROVE  Joined(C, e, data, n, w)
  <1> DEFINE c   == e.capacity
             h   == e.head
             t   == e.tail
             k   == CanRead(e)
             t2  == Idx(c, t + n)
             x   == IF h = t2 THEN 1 ELSE e.wrap
             buf == e.buffer
             new == Wrapped(buf, c, t, data, n)
             a   == Content(e)
             b   == SubSeq(data, 1, n)
  <1>0. IsRing(e, C) /\ (e.wrap = 1 => h + k >= c)
    BY DEF Good
  <1>1. /\ c \in Nat \ {0} /\ e.limit \in Nat \ {0} /\ h \in 0 .. c - 1
        /\ t \in 0 .. c - 1 /\ buf \in [0 .. c - 1 -> C] /\ e.wrap \in {0, 1}
    BY <1>0 DEF IsRing
  <1>2. k \in 0 .. c /\ t = Idx(c, h + k)
    BY <1>0, CanReadRange, Zenon
  <1>3. n \in 0 .. c /\ n \in 1 .. c /\ k + n <= c /\ Len(data) \in Nat
    BY <1>1, <1>2
  <1>4. \A i \in 1 .. n : data[i] \in C
    BY <1>3
  <1>5. Filled(new, C, buf, c, t, data, n)
    BY <1>1, <1>3, <1>4, WrappedFills, Zenon
  <1>6. w = [buffer |-> new, head |-> h, tail |-> t2, wrap |-> x,
             capacity |-> c, limit |-> e.limit]
    BY DEF Appended
  <1>a. Holds(a, C, buf, c, h, k)
    BY <1>0, <1>2, ReadDataProps, Zenon DEF Content
  <1> HIDE DEF c, h, t, k, buf, new, a
  <1>7. t2 \in 0 .. c - 1 /\ x \in {0, 1}
    BY <1>1, <1>3 DEF Idx
  <1>8. h = t2 <=> k + n = c
    BY <1>1, <1>2, <1>3 DEF Idx
  <1>9. x = 1 => h + (k + n) >= c
    BY <1>0, <1>1, <1>2, <1>3, <1>8
  <1>w. t2 = Idx(c, h + (k + n))
    BY <1>1, <1>2, <1>3 DEF Idx
  <1> HIDE DEF t2, x
  <1>10. IsRing(w, C)
    BY <1>1, <1>5, <1>6, <1>7 DEF IsRing, Filled
  <1>11. CanRead(w) = k + n
    <2>1. CanRead(w) = IF t2 = h THEN (IF x = 1 THEN c ELSE 0)
                       ELSE IF t2 > h THEN t2 - h ELSE c + t2 - h
      BY <1>6 DEF CanRead
    <2>2. CASE h = t2
      BY <2>1, <2>2, <1>8 DEF x
    <2>3. CASE h # t2
      BY <2>1, <2>3, <1>1, <1>2, <1>3, <1>8, <1>w DEF Idx
    <2>4. QED
      BY <2>2, <2>3
  <1>12. w.buffer = new /\ w.head = h /\ w.wrap = x /\ w.capacity = c
         /\ w.limit = e.limit
    BY Zenon, <1>6
  <1>13. Good(w, C)
    BY <1>9, <1>10, <1>11, <1>12 DEF Good
  <1>14. Content(w) = a \o b
    <2>1. k + n \in 0 .. w.capacity
      BY <1>1, <1>2, <1>3, <1>12
    <2>2. Holds(Content(w), C, w.buffer, w.capacity, w.head, k + n)
      BY <1>10, <1>11, <2>1, ReadDataProps, Zenon DEF Content
    <2>3. Content(w) \in Seq(C) /\ Len(Content(w)) = k + n
          /\ \A i \in 1 .. k + n : Content(w)[i] = new[Idx(c, h + i - 1)]
      BY Zenon, <2>2, <1>12 DEF Holds
    <2>4. a \in Seq(C) /\ Len(a) = k /\ \A i \in 1 .. k : a[i] = buf[Idx(c, h + i - 1)]
      BY <1>a DEF Holds
    <2>5. b \in Seq(C) /\ Len(b) = n /\ \A i \in 1 .. n : b[i] = data[i]
      BY <1>3
    <2> HIDE DEF b
    <2>6. /\ a \o b \in Seq(C) /\ Len(a \o b) = Len(a) + Len(b)
          /\ \A i \in 1 .. Len(a) + Len(b) :
               (a \o b)[i] = IF i <= Len(a) THEN a[i] ELSE b[i - Len(a)]
      BY <2>4, <2>5, ConcatProperties, Zenon
    <2>l. /\ a \o b \in Seq(C) /\ Len(a \o b) = k + n
          /\ \A i \in 1 .. k + n : (a \o b)[i] = IF i <= k THEN a[i] ELSE b[i - k]
      BY <2>4, <2>5, <2>6, Zenon
    <2>7. ASSUME NEW i \in 1 .. k
          PROVE  new[Idx(c, h + i - 1)] = buf[Idx(c, h + i - 1)]
      <3>1. PICK j \in n + 1 .. c : Idx(c, h + i - 1) = Idx(c, t + j - 1)
        <4>1. (c - k) + i \in n + 1 .. c
          BY <1>1, <1>2, <1>3
        <4>2. Idx(c, h + i - 1) = Idx(c, t + ((c - k) + i) - 1)
          BY <1>1, <1>2, <1>3 DEF Idx
        <4>3. QED
          BY <4>1, <4>2
      <3>2. QED
        BY <3>1, <1>5 DEF Filled
    <2>8. ASSUME NEW i \in 1 .. n
          PROVE  new[Idx(c, h + (k + i) - 1)] = data[i]
      <3>1. Idx(c, h + (k + i) - 1) = Idx(c, t + i - 1)
        BY <1>1, <1>2, <1>3 DEF Idx
      <3>2. QED
        BY <3>1, <1>5 DEF Filled
    <2>9. ASSUME NEW i \in 1 .. k + n
          PROVE  Content(w)[i] = (a \o b)[i]
      <3>1. CASE i <= k
        <4>1. i \in 1 .. k
          BY <3>1, <1>2, <1>3
        <4>2. (a \o b)[i] = a[i]
          BY <3>1, <2>l
        <4>3. QED
          BY <4>1, <4>2, <2>3, <2>4, <2>7, Zenon
      <3>2. CASE i > k
        <4>1. i - k \in 1 .. n /\ k + (i - k) = i
          BY <3>2, <1>2, <1>3
        <4>2. new[Idx(c, h + i - 1)] = data[i - k]
          BY <4>1, <2>8
        <4>3. QED
          <5>1. (a \o b)[i] = b[i - k]
            BY <3>2, <1>2, <1>3, <2>l
          <5>2. QED
            BY <5>1, <4>1, <4>2, <2>3, <2>5, Zenon
      <3>3. i <= k \/ i > k
        BY <1>1, <1>2, <1>3
      <3>4. QED
        BY <3>1, <3>2, <3>3, Zenon
    <2>10. QED
      <3>1. Len(Content(w)) = Len(a \o b)
            /\ \A i \in 1 .. Len(Content(w)) : Content(w)[i] = (a \o b)[i]
        BY <2>3, <2>l, <2>9, Zenon
      <3>2. QED
        BY <2>3, <2>l, <3>1, SameSeq, Zenon
  <1>15. QED
    BY <1>11, <1>12, <1>13, <1>14 DEF Joined, k, a

\* What ep_rb_write promises about the whole buffer.
Stored(r, data, C, w) ==
  /\ Good(w, C)
  /\ w.limit = r.limit
  /\ Content(w) = Content(r) \o SubSeq(data, 1, Written(r, data))

\* ep_rb_write appends exactly the bytes it says it accepted.
LEMMA AfterWriteStores ==
  ASSUME NEW C, NEW r, NEW data, Good(r, C), Undef \in C, data \in Seq(C)
  PROVE  Stored(r, data, C, AfterWrite(r, data))
  <1> DEFINE e == Expand(r, Len(data))
             n == Written(r, data)
             w == AfterWrite(r, data)
             c == e.capacity
             p == e.tail
             t == Min2(n, c - p)
             h == (p + t) % c
  <1>0. Len(data) \in Nat
    OBVIOUS
  <1>1. Expanded(r, Len(data), C, e)
    BY <1>0, ExpandKeeps, Zenon
  <1>2. n \in 0 .. Len(data) /\ CanRead(r) + n <= e.capacity
    BY <1>0, WrittenFits, Zenon
  <1>3. /\ Good(e, C) /\ IsRing(e, C) /\ CanRead(e) + n <= e.capacity
        /\ e.limit = r.limit /\ Content(e) = Content(r)
    BY <1>1, <1>2 DEF Expanded, Good
  <1>4. CASE n = 0
    <2>1. w = e
      BY <1>4 DEF AfterWrite
    <2>2. SubSeq(data, 1, n) = << >>
      BY <1>4
    <2>3. Content(r) \in Seq(C)
      <3>1. IsRing(r, C)
        BY DEF Good
      <3>2. CanRead(r) \in 0 .. r.capacity
        BY <3>1, CanReadRange, Zenon
      <3>3. Holds(Content(r), C, r.buffer, r.capacity, r.head, CanRead(r))
        BY <3>1, <3>2, ReadDataProps, Zenon DEF Content
      <3>4. QED
        BY <3>3 DEF Holds
    <2>4. Content(r) \o << >> = Content(r)
      BY <2>3, ConcatEmptySeq
    <2>5. QED
      BY Zenon, <1>3, <2>1, <2>2, <2>4 DEF Stored
  <1>5. CASE n # 0
    <2>1. c \in Nat \ {0} /\ p \in 0 .. c - 1
      BY <1>3 DEF IsRing
    <2>2. CanRead(e) \in 0 .. c
      BY <1>3, CanReadRange, Zenon
    <2>n. n \in 1 .. c /\ n \in 1 .. Len(data)
      BY <1>0, <1>2, <1>3, <1>5, <2>1, <2>2
    <2>3. w = [e EXCEPT !.buffer = Wrapped(e.buffer, c, p, data, n),
                        !.tail = (h + (n - t)) % c,
                        !.wrap = IF e.head = (h + (n - t)) % c THEN 1 ELSE e.wrap]
      BY <1>5 DEF AfterWrite, Wrapped
    <2>4. e = [buffer |-> e.buffer, head |-> e.head, tail |-> e.tail,
               wrap |-> e.wrap, capacity |-> e.capacity, limit |-> e.limit]
      BY <1>3 DEF IsRing
    <2> HIDE DEF c, p, n, e, w
    <2>5. (h + (n - t)) % c = Idx(c, p + n)
      <3>1. t \in 0 .. n /\ p + t <= c /\ n - t \in 0 .. c /\ (n - t > 0 => p + t = c)
        BY <2>1, <2>n DEF Min2
      <3> HIDE DEF t
      <3>2. h = Idx(c, p + t)
        BY SMTT(20), <2>1, <3>1, ModIdx
      <3> HIDE DEF h
      <3>3. h + (n - t) \in Nat /\ h + (n - t) < c + c
        BY <2>1, <2>n, <3>1, <3>2 DEF Idx
      <3>4. (h + (n - t)) % c = Idx(c, h + (n - t))
        BY <2>1, <3>3, ModIdx
      <3>5. Idx(c, h + (n - t)) = Idx(c, p + n)
        BY <2>1, <2>n, <3>1, <3>2 DEF Idx
      <3>6. QED
        BY <3>4, <3>5
    <2> HIDE DEF t, h
    <2>6. Appended(e, data, n, w)
      <3>1. w = [e EXCEPT !.buffer = Wrapped(e.buffer, c, p, data, n),
                          !.tail = Idx(c, p + n),
                          !.wrap = IF e.head = Idx(c, p + n) THEN 1 ELSE e.wrap]
        BY Zenon, <2>3, <2>5
      <3>2. w = [buffer |-> Wrapped(e.buffer, c, p, data, n),
                 head |-> e.head, tail |-> Idx(c, p + n),
                 wrap |-> IF e.head = Idx(c, p + n) THEN 1 ELSE e.wrap,
                 capacity |-> e.capacity, limit |-> e.limit]
        BY Zenon, <2>4, <3>1
      <3>3. QED
        BY <3>2 DEF Appended, c, p
    <2>7. /\ Good(w, C) /\ w.limit = e.limit
          /\ Content(w) = Content(e) \o SubSeq(data, 1, n)
      <3>1. Good(e, C) /\ n \in 1 .. Len(data) /\ CanRead(e) + n <= e.capacity
        BY <1>3, <2>n
      <3>2. Joined(C, e, data, n, w)
        BY <3>1, <2>6, AppendGood, Zenon
      <3>3. QED
        BY <3>2 DEF Joined
    <2>8. QED
      BY <1>3, <2>7 DEF Stored, n, w
  <1>6. QED
    BY <1>4, <1>5

\* A read returns the oldest n bytes and leaves the others.
Split(r, n, q) ==
  /\ ReadData(r, n) = SubSeq(Content(r), 1, n)
  /\ Content(q) = SubSeq(Content(r), n + 1, CanRead(r))

\* A read splits the unread bytes into what it returns and what stays.
LEMMA ReadSplits ==
  ASSUME NEW C, NEW r, NEW n, Good(r, C), n \in 0 .. CanRead(r)
  PROVE  Split(r, n, AfterRead(r, n))
  <1> DEFINE q == AfterRead(r, n)
             c == r.capacity
             h == r.head
             k == CanRead(r)
             a == Content(r)
             h2 == Idx(c, h + n)
  <1>0. IsRing(r, C)
    BY DEF Good
  <1>1. c \in Nat \ {0} /\ h \in 0 .. c - 1
    BY <1>0 DEF IsRing
  <1>2. k \in 0 .. c
    BY <1>0, CanReadRange, Zenon
  <1>3. n \in 0 .. k /\ n \in 0 .. c
    BY <1>1, <1>2
  <1>4. /\ Good(q, C) /\ CanRead(q) = k - n /\ q.capacity = c
        /\ q.buffer = r.buffer /\ q.head = h2
    <2>1. Taken(r, n, C, q)
      BY AfterReadGood, Zenon
    <2>2. QED
      BY <2>1 DEF Taken
  <1>5. IsRing(q, C) /\ k - n \in 0 .. q.capacity
    BY <1>1, <1>2, <1>3, <1>4 DEF Good
  <1>6. Holds(a, C, r.buffer, c, h, k)
    BY <1>0, <1>2, ReadDataProps, Zenon DEF Content
  <1>7. Holds(ReadData(r, n), C, r.buffer, c, h, n)
    BY <1>0, <1>3, ReadDataProps, Zenon
  <1>8. Holds(Content(q), C, r.buffer, c, h2, k - n)
    BY <1>4, <1>5, ReadDataProps, Zenon DEF Content
  <1> DEFINE b == ReadData(r, n)
             d == Content(q)
             s == SubSeq(a, 1, n)
             t == SubSeq(a, n + 1, k)
  <1> HIDE DEF q, c, h, k, a, b, d
  <1>9. a \in Seq(C) /\ Len(a) = k /\ \A i \in 1 .. k : a[i] = r.buffer[Idx(c, h + i - 1)]
    BY <1>6 DEF Holds
  <1>10. b \in Seq(C) /\ Len(b) = n /\ \A i \in 1 .. n : b[i] = r.buffer[Idx(c, h + i - 1)]
    BY <1>7 DEF Holds, b
  <1>11. d \in Seq(C) /\ Len(d) = k - n
         /\ \A i \in 1 .. k - n : d[i] = r.buffer[Idx(c, h2 + i - 1)]
    BY <1>8 DEF Holds, d
  <1>12. s \in Seq(C) /\ Len(s) = n /\ \A i \in 1 .. n : s[i] = a[i]
    BY <1>1, <1>2, <1>3, <1>9
  <1>13. t \in Seq(C) /\ Len(t) = k - n /\ \A i \in 1 .. k - n : t[i] = a[n + i]
    BY <1>1, <1>2, <1>3, <1>9
  <1> HIDE DEF s, t
  <1>14. b = s
    <2>1. \A i \in 1 .. n : i \in 1 .. k
      BY <1>1, <1>2, <1>3
    <2>2. Len(b) = Len(s) /\ \A i \in 1 .. Len(b) : b[i] = s[i]
      BY <1>9, <1>10, <1>12, <2>1, Zenon
    <2>3. QED
      BY <1>10, <1>12, <2>2, SameSeq, Zenon
  <1>15. d = t
    <2>1. \A i \in 1 .. k - n : n + i \in 1 .. k
      BY <1>1, <1>2, <1>3
    <2>2. \A i \in 1 .. k - n : Idx(c, h2 + i - 1) = Idx(c, h + (n + i) - 1)
      BY <1>1, <1>2, <1>3 DEF Idx
    <2> HIDE DEF h2
    <2>3. Len(d) = Len(t) /\ \A i \in 1 .. Len(d) : d[i] = t[i]
      <3>1. ASSUME NEW i \in 1 .. k - n
            PROVE  d[i] = t[i]
        <4>1. d[i] = r.buffer[Idx(c, h2 + i - 1)] /\ t[i] = a[n + i]
          BY <1>11, <1>13, Zenon
        <4>2. a[n + i] = r.buffer[Idx(c, h + (n + i) - 1)]
          BY <1>9, <2>1, Zenon
        <4>3. Idx(c, h2 + i - 1) = Idx(c, h + (n + i) - 1)
          BY <2>2, Zenon
        <4>4. QED
          BY <4>1, <4>2, <4>3, Zenon
      <3>2. QED
        BY <1>11, <1>13, <3>1, Zenon
    <2>4. QED
      BY <1>11, <1>13, <2>3, SameSeq, Zenon
  <1>16. QED
    BY <1>14, <1>15 DEF Split, b, d, s, t, a, k, q

Cell == Byte \cup {Undef}

IInv == TypeOK /\ WrapMeansData /\ UnreadWritten

\* UnreadWritten as a statement about the sequence of unread bytes.
LEMMA UnreadIsSeq ==
  ASSUME NEW r, IsRing(r, Cell)
  PROVE  /\ Content(r) \in Seq(Cell) /\ Len(Content(r)) = CanRead(r)
         /\ CanRead(r) \in Nat
         /\ (\A i \in 1 .. CanRead(r) : Content(r)[i] \in Byte)
              <=> Content(r) \in Seq(Byte)
  <1>1. CanRead(r) \in 0 .. r.capacity
    BY CanReadRange, Zenon
  <1>n. CanRead(r) \in Nat
    BY <1>1 DEF IsRing
  <1>2. Holds(Content(r), Cell, r.buffer, r.capacity, r.head, CanRead(r))
    BY <1>1, ReadDataProps, Zenon DEF Content
  <1>3. Content(r) \in Seq(Cell) /\ Len(Content(r)) = CanRead(r)
    BY <1>2 DEF Holds
  <1>4. QED
    BY <1>3, <1>n

\* ep_rb_new makes a sound, empty buffer.
LEMMA InitGood == Init => IInv
  <1> SUFFICES ASSUME Init PROVE IInv
    OBVIOUS
  <1> USE RingBufferAssumption
  <1>1. rb = [buffer |-> [i \in 0 .. DefCapacity - 1 |-> Zero], head |-> 0,
              tail |-> 0, wrap |-> 0, capacity |-> DefCapacity, limit |-> Limit]
        /\ out = [op |-> "new", count |-> 0, data |-> << >>]
    BY DEF Init, New
  <1>2. IsRing(rb, Cell) /\ rb.limit = Limit
    BY <1>1 DEF IsRing, Cell
  <1>3. out \in [op : {"new", "write", "read"}, count : Nat, data : Seq(Byte)]
    BY <1>1
  <1>4. CanRead(rb) = 0 /\ rb.wrap = 0
    BY <1>1 DEF CanRead
  <1>5. QED
    BY <1>2, <1>3, <1>4 DEF IInv, TypeOK, WrapMeansData, UnreadWritten, Cell

\* IInv as a predicate of the values of the two variables, so that one lemma
\* serves the states before and after a step.
IInvOf(r, o) ==
  /\ IsRing(r, Cell) /\ r.limit = Limit
  /\ o \in [op : {"new", "write", "read"}, count : Nat, data : Seq(Byte)]
  /\ r.wrap = 1 => r.head + CanRead(r) >= r.capacity
  /\ \A i \in 1 .. CanRead(r) : Content(r)[i] \in Byte

\* A sound buffer of written bytes satisfies the invariant.
LEMMA GoodGivesIInv ==
  ASSUME NEW r, NEW o, Good(r, Cell), r.limit = Limit, Content(r) \in Seq(Byte),
         o \in [op : {"new", "write", "read"}, count : Nat, data : Seq(Byte)]
  PROVE  IInvOf(r, o)
  <1>1. IsRing(r, Cell)
    BY DEF Good
  <1>2. \A i \in 1 .. CanRead(r) : Content(r)[i] \in Byte
    BY <1>1, UnreadIsSeq
  <1>3. QED
    BY <1>1, <1>2 DEF IInvOf, Good

\* The invariant gives a sound buffer.
LEMMA GoodFromIInv ==
  ASSUME IInv
  PROVE  Good(rb, Cell) /\ rb.limit = Limit /\ Content(rb) \in Seq(Byte)
         /\ Len(Content(rb)) = CanRead(rb) /\ CanRead(rb) \in Nat
  <1>1. IsRing(rb, Cell) /\ rb.limit = Limit
    BY DEF IInv, TypeOK, Cell
  <1>2. \A i \in 1 .. CanRead(rb) : Content(rb)[i] \in Byte
    BY DEF IInv, UnreadWritten, Content
  <1>3. Content(rb) \in Seq(Byte) /\ Len(Content(rb)) = CanRead(rb) /\ CanRead(rb) \in Nat
    BY <1>1, <1>2, UnreadIsSeq
  <1>4. QED
    BY <1>1, <1>3 DEF Good, IInv, WrapMeansData

\* The blocks a caller writes are sequences of bytes.
LEMMA BlocksAreSeqs ==
  ASSUME NEW n \in Nat, NEW data \in Blocks(n)
  PROVE  data \in Seq(Byte) /\ Len(data) \in 0 .. n
  <1>1. PICK m \in 0 .. n : data \in [1 .. m -> Byte]
    BY DEF Blocks
  <1>2. QED
    BY <1>1

\* A write preserves the invariant and appends to the unread bytes.
LEMMA WriteStep ==
  ASSUME IInv, NEW data \in Blocks(MaxWrite), Write(data)
  PROVE  /\ IInv'
         /\ Content(rb)' = Content(rb) \o SubSeq(data, 1, Written(rb, data))
         /\ out' = [op |-> "write", count |-> Written(rb, data), data |-> data]
         /\ Written(rb, data) \in 0 .. Len(data)
         /\ Len(data) <= Limit => Written(rb, data) = Len(data)
  <1> DEFINE n == Written(rb, data)
  <1>1. data \in Seq(Byte) /\ Len(data) \in Nat
    BY BlocksAreSeqs, RingBufferAssumption
  <1>2. data \in Seq(Cell) /\ Undef \in Cell
    BY <1>1 DEF Cell
  <1>3. /\ Good(rb, Cell) /\ rb.limit = Limit /\ Content(rb) \in Seq(Byte)
    BY GoodFromIInv
  <1>4. /\ n \in 0 .. Len(data)
        /\ Len(data) <= rb.limit => n = Len(data)
    BY <1>1, <1>2, <1>3, WrittenFits, Zenon
  <1>5. Stored(rb, data, Cell, rb')
    BY <1>2, <1>3, AfterWriteStores, Zenon DEF Write
  <1>6. /\ Good(rb, Cell)' /\ rb'.limit = Limit
        /\ Content(rb)' = Content(rb) \o SubSeq(data, 1, n)
    BY Zenon, <1>3, <1>5 DEF Stored, Good, IsRing, CanRead, Content, ReadData, Chunk, Min2
  <1>7. out' = [op |-> "write", count |-> n, data |-> data]
    BY Zenon DEF Write
  <1> HIDE DEF n
  <1>8. out' \in [op : {"new", "write", "read"}, count : Nat, data : Seq(Byte)]
    BY <1>4, <1>7, <1>1
  <1>9. SubSeq(data, 1, n) \in Seq(Byte)
    BY <1>1, <1>4
  <1>10. Content(rb)' \in Seq(Byte)
    BY <1>3, <1>6, <1>9, ConcatProperties, Zenon
  <1>11. IInv'
    <2>1. IInvOf(rb', out')
      BY <1>5, <1>6, <1>8, <1>10, GoodGivesIInv, Zenon DEF Stored, Content
    <2>2. QED
      BY Zenon, <2>1 DEF IInvOf, IInv, TypeOK, WrapMeansData, UnreadWritten, Content, Cell
  <1>12. QED
    BY <1>3, <1>4, <1>6, <1>7, <1>11 DEF n

\* A read preserves the invariant and takes the first unread bytes.
LEMMA ReadStep ==
  ASSUME IInv, NEW count \in Nat, Read(count)
  PROVE  LET k == Min2(count, Len(Content(rb)))
         IN  /\ IInv'
             /\ Content(rb)' = SubSeq(Content(rb), k + 1, Len(Content(rb)))
             /\ out' = [op |-> "read", count |-> k, data |-> SubSeq(Content(rb), 1, k)]
  <1> DEFINE n == Min2(count, CanRead(rb))
             a == Content(rb)
  <1>1. /\ Good(rb, Cell) /\ rb.limit = Limit /\ a \in Seq(Byte)
        /\ Len(a) = CanRead(rb) /\ CanRead(rb) \in Nat
    BY GoodFromIInv
  <1>2. n \in 0 .. CanRead(rb)
    BY <1>1 DEF Min2
  <1>3. rb' = AfterRead(rb, n)
        /\ out' = [op |-> "read", count |-> n, data |-> ReadData(rb, n)]
    BY DEF Read
  <1> HIDE DEF n
  <1>4. Good(AfterRead(rb, n), Cell) /\ AfterRead(rb, n).limit = rb.limit
    <2>1. Taken(rb, n, Cell, AfterRead(rb, n))
      BY <1>1, <1>2, AfterReadGood, Zenon
    <2>2. QED
      BY <2>1 DEF Taken
  <1>5. Split(rb, n, AfterRead(rb, n))
    BY <1>1, <1>2, ReadSplits, Zenon
  <1>6. /\ ReadData(rb, n) = SubSeq(a, 1, n)
        /\ Content(AfterRead(rb, n)) = SubSeq(a, n + 1, Len(a))
    BY <1>1, <1>5 DEF Split
  <1>7. Content(rb)' = Content(rb')
    BY DEF Content, ReadData, CanRead, Chunk, Min2
  <1> HIDE DEF a
  <1>8. SubSeq(a, 1, n) \in Seq(Byte) /\ SubSeq(a, n + 1, Len(a)) \in Seq(Byte)
    BY <1>1, <1>2
  <1>9. out' \in [op : {"new", "write", "read"}, count : Nat, data : Seq(Byte)]
    BY <1>2, <1>3, <1>6, <1>8, <1>1
  <1>10. IInv'
    <2>1. IInvOf(rb', out')
      <3>1. Good(rb', Cell) /\ rb'.limit = Limit /\ Content(rb') \in Seq(Byte)
        BY Zenon, <1>1, <1>3, <1>4, <1>6, <1>8
      <3>2. QED
        BY <1>9, <3>1, GoodGivesIInv, Zenon
    <2>2. QED
      BY Zenon, <2>1 DEF IInvOf, IInv, TypeOK, WrapMeansData, UnreadWritten, Content, Cell
  <1>11. QED
    BY Zenon, <1>1, <1>3, <1>6, <1>7, <1>10 DEF n, a

\* Every call preserves the invariant.
LEMMA Inductive == IInv /\ [Next]_vars => IInv'
  <1> SUFFICES ASSUME IInv, [Next]_vars PROVE IInv'
    OBVIOUS
  <1>1. CASE \E data \in Blocks(MaxWrite) : Write(data)
    BY <1>1, WriteStep
  <1>2. CASE \E count \in 0 .. MaxRead : Read(count)
    <2>1. PICK count \in 0 .. MaxRead : Read(count)
      BY <1>2
    <2>2. count \in Nat
      BY RingBufferAssumption
    <2>3. QED
      BY <2>1, <2>2, ReadStep
  <1>3. CASE UNCHANGED vars
    BY Zenon, <1>3 DEF vars, IInv, TypeOK, WrapMeansData, UnreadWritten
  <1>4. QED
    BY <1>1, <1>2, <1>3 DEF Next

\* The invariant holds of every reachable buffer.
THEOREM Invariance == Spec => []IInv
  <1>1. QED
    BY InitGood, Inductive, PTL DEF Spec

\* ep_rb_read, ep_rb_write and the expansion between them keep both indices
\* inside the memory, whatever the capacity, the limit and the block sizes.
THEOREM TypeCorrect == Spec => []TypeOK
  <1>1. IInv => TypeOK
    BY Zenon DEF IInv
  <1>2. QED
    BY <1>1, Invariance, PTL

\* head = tail with wrap set always means full: the read path that does not
\* clear wrap cannot leave it set on an empty buffer.
THEOREM WrapSound == Spec => []WrapMeansData
  <1>1. IInv => WrapMeansData
    BY DEF IInv
  <1>2. QED
    BY <1>1, Invariance, PTL

\* No byte of the uninitialised memory that ep_rb_expand_limit adds is ever
\* counted as readable.
THEOREM NoUninitialisedRead == Spec => []UnreadWritten
  <1>1. IInv => UnreadWritten
    BY DEF IInv
  <1>2. QED
    BY <1>1, Invariance, PTL

\* ep_rb_write never copies past the end of the memory: after the expansion
\* the room ep_rb_can_write promises is there, also in its second case, which
\* counts room up to the limit that was never allocated.
THEOREM RoomIsReal == Spec => []WriteFits
  <1>1. ASSUME IInv PROVE WriteFits
    <2> SUFFICES ASSUME NEW n \in 0 .. MaxWrite
                 PROVE  Min2(n, CanWrite(Expand(rb, n)))
                          <= Expand(rb, n).capacity - CanRead(Expand(rb, n))
      BY DEF WriteFits
    <2> DEFINE e == Expand(rb, n)
               c == e.capacity
               l == e.limit
               k == CanRead(e)
    <2>1. Good(rb, Cell) /\ Undef \in Cell /\ n \in Nat
      BY <1>1, GoodFromIInv, RingBufferAssumption DEF Cell
    <2>2. Expanded(rb, n, Cell, e)
      BY <2>1, ExpandKeeps, Zenon
    <2>3. IsRing(e, Cell) /\ c >= k + Min2(n, l)
      BY Zenon, <2>2 DEF Expanded, Good
    <2>4. c \in Nat \ {0} /\ l \in Nat \ {0}
      BY Zenon, <2>3 DEF IsRing
    <2>5. k \in 0 .. c
      BY <2>3, CanReadRange, Zenon
    <2>6. CanWrite(e) = IF c - k = 0 /\ l > c THEN l - k ELSE c - k
      BY Zenon DEF CanWrite
    <2> HIDE DEF e, c, l, k
    <2>7. Min2(n, CanWrite(e)) <= c - k
      BY <2>1, <2>3, <2>4, <2>5, <2>6 DEF Min2
    <2>8. QED
      BY <2>7 DEF e, c, k
  <1>2. QED
    BY <1>1, Invariance, PTL

\* Every call of the ring buffer is a step of the byte FIFO.
LEMMA FifoStep == IInv /\ [Next]_vars => [Fifo!Next]_<<Content(rb), out>>
  <1> SUFFICES ASSUME IInv, [Next]_vars
               PROVE  [Fifo!Next]_<<Content(rb), out>>
    OBVIOUS
  <1>1. CASE \E data \in Blocks(MaxWrite) : Write(data)
    <2>1. PICK data \in Blocks(MaxWrite) : Write(data)
      BY <1>1
    <2> DEFINE n == Written(rb, data)
    <2>2. /\ Content(rb)' = Content(rb) \o SubSeq(data, 1, n)
          /\ out' = [op |-> "write", count |-> n, data |-> data]
          /\ n \in 0 .. Len(data)
          /\ Len(data) <= Limit => n = Len(data)
      BY Zenon, <2>1, WriteStep
    <2> HIDE DEF n
    <2>3. Fifo!Write(data)
      BY Zenon, <2>2 DEF Fifo!Write, Content
    <2>4. data \in Fifo!Blocks(MaxWrite)
      BY DEF Blocks, Fifo!Blocks
    <2>5. QED
      BY <2>3, <2>4 DEF Fifo!Next
  <1>2. CASE \E count \in 0 .. MaxRead : Read(count)
    <2>1. PICK count \in 0 .. MaxRead : Read(count)
      BY <1>2
    <2>2. count \in Nat
      BY RingBufferAssumption
    <2>3. Fifo!Read(count)
      BY Zenon, <2>1, <2>2, ReadStep DEF Fifo!Read, Content, Min2
    <2>4. QED
      BY <2>3 DEF Fifo!Next
  <1>3. CASE UNCHANGED vars
    BY <1>3 DEF vars, Content, ReadData, CanRead, Chunk, Min2
  <1>4. QED
    BY Zenon, <1>1, <1>2, <1>3 DEF Next

\* A new ring buffer is an empty FIFO.
LEMMA FifoInit == Init => Fifo!Init
  <1> SUFFICES ASSUME Init PROVE Fifo!Init
    OBVIOUS
  <1>1. Content(rb) \in Seq(Byte) /\ Len(Content(rb)) = CanRead(rb)
    BY InitGood, GoodFromIInv
  <1>2. CanRead(rb) = 0
    BY DEF Init, New, CanRead
  <1>3. Content(rb) = << >>
    BY <1>1, <1>2
  <1>4. QED
    BY <1>3 DEF Init, Fifo!Init, Content

\* The ring buffer implements a FIFO of bytes: every call returns what the
\* abstract call returns, and no byte is lost, repeated or reordered by
\* wrapping or by expansion.
THEOREM ImplementsFifo == Spec => IsFifo
  <1>1. QED
    BY FifoInit, FifoStep, Invariance, PTL DEF Spec, IsFifo, Fifo!Spec, Content
=============================================================================
