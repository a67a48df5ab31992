------------------------------ MODULE Request -------------------------------
(***************************************************************************)
(* Requests of a client and their answers: ep_req_new, ep_req_wait and     *)
(* ep_req_destroy (eventpack/src/ep_request.c) over the table of callbacks *)
(* by category (ep_dispatch.c).  An answer carries its category and        *)
(* nothing else that names its request.  Calls wait with a timeout, the    *)
(* server answers late, out of order or never, and the connection breaks   *)
(* at any moment.                                                          *)
(*                                                                         *)
(* What is done under the mutex of the table is one step.  The n-th        *)
(* request made has the handle n and, if the server answers it, the answer *)
(* n.  A use of a freed handle, or a failing assert, sets fault, and the   *)
(* model goes no further.                                                  *)
(***************************************************************************)
EXTENDS Integers, Sequences, FiniteSets

CONSTANTS
  Callers,     \* threads that make requests
  Category,    \* the category of each caller's requests
  MaxRequests  \* bound: how many requests are made

ASSUME RequestAssumption == MaxRequests \in Nat /\ IsFiniteSet(Callers)

\* Each function of the client has a category, and is used by one thread.
ASSUME OwnCategories == \A c, d \in Callers : Category[c] = Category[d] => c = d

Handles == 1 .. MaxRequests

VARIABLES
  entries,  \* disp_list: the handles registered, the newest first
  made,     \* how many handles were made
  cat,      \* the category of each handle
  life,     \* of each handle: none, live, freed
  packs,    \* pack_queue of each handle
  at,       \* where each caller is
  cur,      \* its handle
  got,      \* the answer each request returned, 0 for none
  late,     \* requests that were given up
  asked,    \* requests at the server
  answers,  \* answers on their way to ep_disp_processor
  conn,     \* up, or the steps of a disconnect: iodel, down
  fault     \* none, handle, assert

vars == <<entries, made, cat, life, packs, at, cur, got, late, asked, answers, conn, fault>>

Init ==
  /\ entries = {} /\ made = 0 /\ late = {} /\ asked = {} /\ answers = {}
  /\ cat = [h \in Handles |-> 0] /\ life = [h \in Handles |-> "none"]
  /\ packs = [h \in Handles |-> << >>] /\ got = [h \in Handles |-> 0]
  /\ at = [c \in Callers |-> "idle"] /\ cur = [c \in Callers |-> 0]
  /\ conn = "up" /\ fault = "none"

Go(c, to) == at' = [at EXCEPT ![c] = to]
OfCategory(k) == {h \in entries : cat[h] = k}
-----------------------------------------------------------------------------
\* ep_req_new: the count of ep_disp_add_cb, under the mutex.  A conflict ends
\* the call with -2.
NewCount(c) ==
  /\ at[c] = "idle" /\ conn # "down"
  /\ made + Cardinality({d \in Callers : at[d] = "counted"}) < MaxRequests
  /\ Go(c, IF OfCategory(Category[c]) # {} THEN "conflict" ELSE "counted")
  /\ UNCHANGED <<entries, made, cat, life, packs, cur, got, late, asked, answers, conn, fault>>

Conflict(c) ==
  /\ at[c] = "conflict" /\ Go(c, "idle")
  /\ UNCHANGED <<entries, made, cat, life, packs, cur, got, late, asked, answers, conn, fault>>

\* The entry goes to the head of the list, under the mutex again.
NewAdd(c) ==
  LET h == made + 1
  IN  /\ at[c] = "counted"
      /\ made' = h /\ cur' = [cur EXCEPT ![c] = h]
      /\ cat' = [cat EXCEPT ![h] = Category[c]] /\ life' = [life EXCEPT ![h] = "live"]
      /\ entries' = entries \cup {h}
      /\ Go(c, "added")
      /\ UNCHANGED <<packs, got, late, asked, answers, conn, fault>>

\* Mutant of NewSend: the error path does not return.
NewSendNoReturn(c) ==
  /\ at[c] = "added" /\ Go(c, "wait")
  /\ IF conn = "up" THEN asked' = asked \cup {cur[c]} /\ UNCHANGED life
     ELSE life' = [life EXCEPT ![cur[c]] = "freed"] /\ UNCHANGED asked
  /\ UNCHANGED <<entries, made, cat, packs, cur, got, late, answers, conn, fault>>

\* ep_io_nodify_fd finds the io and the request is sent, or it does not: the
\* handle is freed, with an assert that its queue is empty, and its entry
\* stays in the table.
NewSend(c) ==
  /\ at[c] = "added"
  /\ IF conn = "up"
       THEN Go(c, "wait") /\ asked' = asked \cup {cur[c]} /\ UNCHANGED life
       ELSE Go(c, "idle") /\ life' = [life EXCEPT ![cur[c]] = "freed"] /\ UNCHANGED asked
  /\ fault' = IF conn # "up" /\ packs[cur[c]] # << >> THEN "assert" ELSE fault
  /\ UNCHANGED <<entries, made, cat, packs, cur, got, late, answers, conn>>

\* ep_req_wait returns 1 with the first pack of the queue ...
WaitAnswer(c) ==
  /\ at[c] = "wait" /\ packs[cur[c]] # << >>
  /\ got' = [got EXCEPT ![cur[c]] = Head(packs[cur[c]])]
  /\ packs' = [packs EXCEPT ![cur[c]] = Tail(@)]
  /\ Go(c, "done")
  /\ UNCHANGED <<entries, made, cat, life, cur, late, asked, answers, conn, fault>>

\* Mutant of WaitTimeout: the wait ends with the connection only.
WaitTimeoutInfinite(c) ==
  /\ at[c] = "wait" /\ packs[cur[c]] = << >> /\ conn = "down"
  /\ late' = late \cup {cur[c]} /\ Go(c, "done")
  /\ UNCHANGED <<entries, made, cat, life, packs, cur, got, asked, answers, conn, fault>>

\* ... or 0 after the timeout, or when its wait is woken for nothing.
WaitTimeout(c) ==
  /\ at[c] = "wait" /\ packs[cur[c]] = << >>
  /\ late' = late \cup {cur[c]} /\ Go(c, "done")
  /\ UNCHANGED <<entries, made, cat, life, packs, cur, got, asked, answers, conn, fault>>

\* Mutant of DestroyDel: nothing is deleted.
DestroyDelNone(c) ==
  /\ at[c] = "done" /\ Go(c, "deleted")
  /\ UNCHANGED <<entries, made, cat, life, packs, cur, got, late, asked, answers, conn, fault>>

\* ep_req_destroy: ep_disp_del removes every entry of the category, and
\* asserts that there was one; it is not called after a disconnect.
DestroyDel(c) ==
  /\ at[c] = "done" /\ Go(c, "deleted")
  /\ IF conn = "down" THEN UNCHANGED <<entries, fault>>
     ELSE /\ entries' = entries \ OfCategory(Category[c])
          /\ fault' = IF OfCategory(Category[c]) = {} THEN "assert" ELSE fault
  /\ UNCHANGED <<made, cat, life, packs, cur, got, late, asked, answers, conn>>

\* One pack is taken from the queue; ep_queue_destroy asserts that there was
\* no other.
DestroyFree(c) ==
  /\ at[c] = "deleted" /\ Go(c, "idle")
  /\ fault' = IF Len(packs[cur[c]]) > 1 THEN "assert" ELSE fault
  /\ life' = [life EXCEPT ![cur[c]] = "freed"] /\ packs' = [packs EXCEPT ![cur[c]] = << >>]
  /\ UNCHANGED <<entries, made, cat, cur, got, late, asked, answers, conn>>
-----------------------------------------------------------------------------
\* The server answers a request.
Answer(h) ==
  /\ h \in asked
  /\ asked' = asked \ {h} /\ answers' = answers \cup {h}
  /\ UNCHANGED <<entries, made, cat, life, packs, at, cur, got, late, conn, fault>>

\* The callback of the first of some entries gets the answer h.
Deliver(found, h) ==
  IF found = {} THEN UNCHANGED <<packs, fault>>
  ELSE \E to \in found :
         /\ \A e \in found : e <= to
         /\ IF life[to] = "freed" THEN fault' = "handle" /\ UNCHANGED packs
            ELSE packs' = [packs EXCEPT ![to] = Append(@, h)] /\ UNCHANGED fault

\* Mutant of Dispatch: the category is not compared.
DispatchFirst(h) ==
  /\ h \in answers /\ answers' = answers \ {h} /\ Deliver(entries, h)
  /\ UNCHANGED <<entries, made, cat, life, at, cur, got, late, asked, conn>>

\* ep_disp_processor in the client's pool: the first entry of the category,
\* whose callback runs under the mutex; without one the pack is destroyed.
Dispatch(h) ==
  /\ h \in answers /\ answers' = answers \ {h} /\ Deliver(OfCategory(cat[h]), h)
  /\ UNCHANGED <<entries, made, cat, life, at, cur, got, late, asked, conn>>

\* ep_client_routine sees the connection end: ep_io_del, then fd = -1.
Disconnect ==
  /\ conn # "down"
  /\ conn' = IF conn = "up" THEN "iodel" ELSE "down"
  /\ UNCHANGED <<entries, made, cat, life, packs, at, cur, got, late, asked, answers, fault>>

CallerStep(c) ==
  \/ Conflict(c) \/ NewAdd(c) \/ NewSend(c) \/ WaitAnswer(c) \/ WaitTimeout(c)
  \/ DestroyDel(c) \/ DestroyFree(c)

Next ==
  /\ fault = "none"
  /\ \/ \E c \in Callers : NewCount(c) \/ CallerStep(c)
     \/ \E h \in Handles : Answer(h) \/ Dispatch(h)
     \/ Disconnect

\* A thread inside a call goes on, and its timeout passes.
Fairness == \A c \in Callers : WF_vars(fault = "none" /\ CallerStep(c))

Spec == Init /\ [][Next]_vars /\ Fairness
-----------------------------------------------------------------------------
\* Variables hold values of their kinds; a caller that waits or destroys has a
\* live handle, and one that waits is the one its category's answers go to.
TypeOK ==
  /\ made \in 0 .. MaxRequests /\ conn \in {"up", "iodel", "down"}
  /\ entries \subseteq 1 .. made /\ cur \in [Callers -> 0 .. made]
  /\ cat \in [Handles -> {0} \cup {Category[c] : c \in Callers}]
  /\ life \in [Handles -> {"none", "live", "freed"}]
  /\ packs \in [Handles -> Seq(Handles)] /\ got \in [Handles -> 0 .. MaxRequests]
  /\ at \in [Callers -> {"idle", "conflict", "counted", "added", "wait", "done", "deleted"}]
  /\ late \subseteq 1 .. made /\ asked \subseteq 1 .. made /\ answers \subseteq 1 .. made
  /\ fault \in {"none", "handle", "assert"}
  /\ \A c \in Callers : at[c] \in {"added", "wait", "done", "deleted"} => life[cur[c]] = "live"
  /\ \A c \in Callers : at[c] = "wait" => OfCategory(Category[c]) = {cur[c]}

\* As long as the connection holds, no answer is pushed to a freed handle,
\* however late it comes: the entry is removed under the mutex the callback
\* runs under, before the handle is freed (ep_request.c:250-269).
NoFreedHandleWhileUp == fault = "handle" => conn # "up"

\* A request returns an answer that is not its own only if it is an older one
\* of the same category, and that one or one before it was given up:
\* one timeout may shift every later answer by one, and nothing else does.
WrongAnswerOnlyAfterTimeout ==
  \A h \in Handles : got[h] \notin {0, h} =>
    /\ got[h] < h /\ cat[got[h]] = cat[h]
    /\ \E l \in late : l <= got[h] /\ cat[l] = cat[h]

\* Every call comes back, whatever the server and the connection do: no
\* request is waited for for ever (ep_req_wait always has a timeout).
RequestsEnd == \A c \in Callers : at[c] # "idle" ~> (at[c] = "idle" \/ fault # "none")

\* "we make sure category is remove before we wait timeout but service
\* processed this after time" (ep_request.c:37): an answer that comes after
\* its request timed out is not taken for the answer to a later one.
AnswerIsForRequest == \A h \in Handles : got[h] \in {0, h}
=============================================================================
