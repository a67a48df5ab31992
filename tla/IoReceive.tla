----------------------------- MODULE IoReceive ------------------------------
(***************************************************************************)
(* The receive path of one connection: the peer writes frames, the network *)
(* delivers their bytes in blocks of any size, and ep_io_enqueue           *)
(* (eventpack/src/ep_io.c) puts every block into the ring buffer and       *)
(* dispatches the frames that are complete.  A frame is a header of two    *)
(* bytes, standing for ep_shell_t (the magic number and the size of the    *)
(* body), and a body.  A call of ep_io_enqueue holds the manager's mutex   *)
(* throughout; it is a sequence of steps, with call = "loop" in between.   *)
(***************************************************************************)
EXTENDS RingBufferOps, SequencesExt

CONSTANTS
  Magic,        \* EP_MAGIC_NUMBER
  BadMagic,     \* any other first byte of a header
  Bodies,       \* the bodies a peer may send
  DefCapacity,  \* def_capacity of the manager
  MaxCapacity,  \* its max_capacity
  MaxBlock,     \* the size of the buffer of the recv loop
  MaxFrames     \* bound: how many frames the peer sends

HeaderSize == 2

ASSUME ReceiveAssumption ==
  /\ DefCapacity \in Nat \ {0} /\ MaxCapacity \in Nat /\ MaxCapacity > DefCapacity
  /\ MaxBlock \in 1 .. MaxCapacity /\ MaxFrames \in Nat
  /\ Magic # BadMagic
  /\ Bodies \subseteq Seq(Nat)

VARIABLES
  wire,     \* bytes on their way to this end
  frames,   \* the bodies of the frames sent, in order
  rb,       \* recv
  shell,    \* the header last read: magic and shell_size
  cached,   \* b_shell_cached
  call,     \* "idle", or "loop" inside ep_io_enqueue
  ret,      \* its last result
  got,      \* how many frames its last call dispatched
  tasks,    \* the bodies given to ep_io_request_dispatcher, in order
  conn      \* "open", or "closed" after ep_io_del

vars == <<wire, frames, rb, shell, cached, call, ret, got, tasks, conn>>

Encode(magic, body) == <<magic, Len(body)>> \o body

Init ==
  /\ wire = << >> /\ frames = << >> /\ tasks = << >>
  /\ rb = New(DefCapacity, MaxCapacity)
  /\ shell = [magic |-> 0, size |-> 0] /\ cached = 0
  /\ call = "idle" /\ ret = 0 /\ got = 0 /\ conn = "open"

\* The peer writes a frame; one that is not a frame of ours has another magic
\* number.  ep_io_combine_shell writes the size of the body into the header.
PeerSends(magic, body) ==
  /\ Len(frames) < MaxFrames
  /\ wire' = wire \o Encode(magic, body)
  /\ frames' = Append(frames, [magic |-> magic, body |-> body])
  /\ UNCHANGED <<rb, shell, cached, call, ret, got, tasks, conn>>

\* The result of ep_io_enqueue.  On a negative one the caller deletes the io
\* and closes the socket.
Return(r) ==
  /\ call' = "idle" /\ ret' = r
  /\ conn' = IF r < 0 THEN "closed" ELSE conn

\* ep_io_enqueue is called with the next n bytes; the part up to its loop.
Enqueue(n) ==
  /\ call = "idle" /\ conn = "open" /\ n \in 1 .. Min2(MaxBlock, Len(wire))
  /\ wire' = SubSeq(wire, n + 1, Len(wire))
  /\ got' = 0
  /\ LET block == SubSeq(wire, 1, n)
     IN  /\ rb' = AfterWrite(rb, block)
         /\ IF Written(rb, block) < n THEN Return(-2)
            ELSE call' = "loop" /\ UNCHANGED <<ret, conn>>
  /\ UNCHANGED <<frames, shell, cached, tasks>>

\* Mutant of NeedHeader: a call ends after its first frame.
NeedHeaderOneFrame ==
  /\ call = "loop" /\ cached = 0 /\ (CanRead(rb) < HeaderSize \/ got > 0)
  /\ Return(0)
  /\ UNCHANGED <<wire, frames, rb, shell, cached, got, tasks>>

\* Too few bytes for a header.
NeedHeader ==
  /\ call = "loop" /\ cached = 0 /\ CanRead(rb) < HeaderSize
  /\ Return(0)
  /\ UNCHANGED <<wire, frames, rb, shell, cached, got, tasks>>

\* Mutant of Turn: the size is not compared with max_capacity.
TurnNoLimit(h, r) ==
  /\ shell' = h
  /\ \/ /\ h.magic # Magic
        /\ rb' = r /\ Return(-1) /\ UNCHANGED <<cached, got, tasks>>
     \/ /\ h.magic = Magic /\ CanRead(r) < h.size
        /\ rb' = r /\ cached' = 1 /\ Return(1) /\ UNCHANGED <<got, tasks>>
     \/ /\ h.magic = Magic /\ CanRead(r) >= h.size
        /\ rb' = AfterRead(r, h.size)
        /\ tasks' = Append(tasks, ReadData(r, h.size))
        /\ cached' = 0 /\ got' = got + 1
        /\ UNCHANGED <<call, ret, conn>>
  /\ UNCHANGED <<wire, frames>>

\* One turn of the loop with the header h and the ring r behind it: a header
\* that is refused, a body that is not there yet, or a frame.
Turn(h, r) ==
  /\ shell' = h
  /\ \/ /\ h.magic # Magic
        /\ rb' = r /\ Return(-1) /\ UNCHANGED <<cached, got, tasks>>
     \/ /\ h.magic = Magic /\ h.size > MaxCapacity
        /\ rb' = r /\ Return(-2) /\ UNCHANGED <<cached, got, tasks>>
     \/ /\ h.magic = Magic /\ h.size <= MaxCapacity /\ CanRead(r) < h.size
        /\ rb' = r /\ cached' = 1 /\ Return(1) /\ UNCHANGED <<got, tasks>>
     \/ /\ h.magic = Magic /\ h.size <= MaxCapacity /\ CanRead(r) >= h.size
        /\ rb' = AfterRead(r, h.size)
        /\ tasks' = Append(tasks, ReadData(r, h.size))
        /\ cached' = 0 /\ got' = got + 1
        /\ UNCHANGED <<call, ret, conn>>
  /\ UNCHANGED <<wire, frames>>

\* Mutant of TurnHeader: the header is only looked at, not consumed.
TurnHeaderPeeks ==
  LET h == ReadData(rb, HeaderSize)
  IN  /\ call = "loop" /\ cached = 0 /\ CanRead(rb) >= HeaderSize
      /\ Turn([magic |-> h[1], size |-> h[2]], rb)

\* A turn that reads a header first, and one that has kept it.
TurnHeader ==
  LET h == ReadData(rb, HeaderSize)
  IN  /\ call = "loop" /\ cached = 0 /\ CanRead(rb) >= HeaderSize
      /\ Turn([magic |-> h[1], size |-> h[2]], AfterRead(rb, HeaderSize))

TurnCached ==
  /\ call = "loop" /\ cached = 1
  /\ Turn(shell, rb)

Next ==
  \/ \E body \in Bodies, magic \in {Magic, BadMagic} : PeerSends(magic, body)
  \/ \E n \in 1 .. MaxBlock : Enqueue(n)
  \/ NeedHeader \/ TurnHeader \/ TurnCached

Spec == Init /\ [][Next]_vars
-----------------------------------------------------------------------------
\* Bytes that were received and are not dispatched yet, the header kept in
\* shell among them.
Pending ==
  (IF cached = 1 THEN <<shell.magic, shell.size>> ELSE << >>) \o ReadData(rb, CanRead(rb))

\* The bytes of the frames whose bodies are given.
Stream(fs) == FlattenSeq([i \in DOMAIN fs |-> Encode(fs[i].magic, fs[i].body)])

\* Variables hold values of their kinds.
TypeOK ==
  /\ IsRing(rb, Int) /\ cached \in {0, 1} /\ call \in {"idle", "loop"}
  /\ ret \in {-2, -1, 0, 1} /\ conn \in {"open", "closed"}
  /\ got \in Nat /\ shell \in [magic : Int, size : Int]
  /\ tasks \in Seq(Seq(Int)) /\ wire \in Seq(Int)

\* However the network cuts the stream into blocks, no byte of it is lost,
\* repeated or moved: the dispatched frames, what is pending and what is on
\* the wire are the frames that were sent (ep_io.c:609-705).  After an error,
\* too, the dispatched bodies are the first ones sent, in order.
StreamKept ==
  /\ conn = "open" =>
       Stream([i \in DOMAIN tasks |-> [magic |-> Magic, body |-> tasks[i]]]) \o Pending \o wire
         = Stream(frames)
  /\ Len(tasks) <= Len(frames)
  /\ \A i \in DOMAIN tasks : frames[i] = [magic |-> Magic, body |-> tasks[i]]

\* Between two calls no complete frame waits in the buffer for bytes that may
\* never come: when all has been delivered, all has been dispatched.
NothingLeftBehind ==
  call = "idle" /\ conn = "open" /\ wire = << >> => Len(tasks) = Len(frames)

\* What a connection costs is bounded by the largest frame and two blocks,
\* although ep_rb_expand_limit adds to the capacity without regard to limit.
\* And -2 says that a frame is too large, never that a block was cut short.
MemoryBounded ==
  LET most == (IF MaxCapacity > HeaderSize THEN MaxCapacity ELSE HeaderSize) - 1
  IN  /\ rb.capacity < most + 2 * MaxBlock
      /\ ret = -2 => shell.magic = Magic /\ shell.size > MaxCapacity
=============================================================================
