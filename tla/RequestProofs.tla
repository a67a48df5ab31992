--------------------------- MODULE RequestProofs ----------------------------
(***************************************************************************)
(* Requests and their answers, for any number of callers, each with a      *)
(* category of its own, and any number of requests: no answer is pushed to *)
(* a freed handle while the connection holds, and a request gets another   *)
(* one's answer only after a timeout.                                      *)
(***************************************************************************)
EXTENDS Request, FiniteSetTheorems, TLAPS

Counted == {c \in Callers : at[c] = "counted"}
Active == {"added", "wait", "done", "deleted"}

\* The part of TypeOK about one variable at a time.
Kinds ==
  /\ made \in 0 .. MaxRequests /\ conn \in {"up", "iodel", "down"}
  /\ entries \subseteq 1 .. made /\ cur \in [Callers -> 0 .. made]
  /\ cat \in [Handles -> {0} \cup {Category[c] : c \in Callers}]
  /\ life \in [Handles -> {"none", "live", "freed"}]
  /\ packs \in [Handles -> Seq(Handles)] /\ got \in [Handles -> 0 .. MaxRequests]
  /\ at \in [Callers -> {"idle", "conflict", "counted", "added", "wait", "done", "deleted"}]
  /\ late \subseteq 1 .. made /\ asked \subseteq 1 .. made /\ answers \subseteq 1 .. made
  /\ fault \in {"none", "handle", "assert"}

\* There is a handle left for every request that was counted.
Room == made + Cardinality(Counted) <= MaxRequests

\* Of the handles made, the live ones are those that callers hold, and the
\* newest of a category is the one its caller had last.
HandlesHeld ==
  /\ \A h \in 1 .. made :
       /\ life[h] # "none"
       /\ life[h] = "live" => \E c \in Callers : at[c] \in Active /\ cur[c] = h
       /\ \E c \in Callers : cat[h] = Category[c] /\ h <= cur[c]
  /\ \A c \in Callers :
       /\ cur[c] # 0 => cat[cur[c]] = Category[c]
       /\ at[c] \in Active => cur[c] # 0 /\ life[cur[c]] = "live"

\* The entries of a category, by where its caller is.  A request that cannot
\* be sent, or is destroyed after the disconnect, leaves its entry behind.
TableFollows ==
  \A c \in Callers :
    /\ at[c] = "counted" => OfCategory(Category[c]) = {}
    /\ at[c] \in {"added", "wait", "done"} => OfCategory(Category[c]) = {cur[c]}
    /\ at[c] \in {"idle", "conflict", "deleted"} /\ conn = "up" => OfCategory(Category[c]) = {}

\* A request of p's category, p or an older one, was given up.
GivenUp(p) == \E l \in late : l <= p /\ cat[l] = cat[p]

\* A pack p in the queue of e is the answer to e, or a late one to an older
\* request of the category.
PackOK(e, p) ==
  /\ e \in 1 .. made /\ p \in 1 .. made /\ p \notin asked \cup answers
  /\ p # e => p < e /\ cat[p] = cat[e] /\ GivenUp(p)

PacksOwnOrLate == \A e \in Handles : \A i \in DOMAIN packs[e] : PackOK(e, packs[e][i])

\* A request without its answer is waited for, or it was given up, or it took
\* another one's answer.
Explained(p) ==
  /\ got[p] # p
  /\ (\E c \in Callers : cur[c] = p /\ at[c] = "wait") \/ p \in late \/ got[p] # 0

\* The answer to h is nowhere yet.
Unsent(h) ==
  /\ h \notin asked \cup answers /\ got[h] = 0
  /\ \A e \in Handles : \A i \in DOMAIN packs[e] : packs[e][i] # h

UnansweredKnown ==
  /\ asked \cap answers = {}
  /\ \A p \in asked \cup answers : Explained(p)
  /\ \A c \in Callers : at[c] = "added" => Unsent(cur[c])
  /\ \A h \in Handles : got[h] # 0 => h \in 1 .. made /\ got[h] \in 1 .. made

\* The inductive invariant.
IInv ==
  /\ Kinds /\ NoFreedHandleWhileUp /\ WrongAnswerOnlyAfterTimeout
  /\ Room /\ HandlesHeld /\ TableFollows /\ PacksOwnOrLate /\ UnansweredKnown

\* The elements of a tail are those of the sequence, one place further on.
LEMMA TailShifts ==
  ASSUME NEW S, NEW s \in Seq(S), s # << >>
  PROVE  \A i \in DOMAIN Tail(s) : i + 1 \in DOMAIN s /\ Tail(s)[i] = s[i + 1]
<1>1. /\ Len(s) \in Nat /\ DOMAIN s = 1 .. Len(s) /\ Len(Tail(s)) = Len(s) - 1
      /\ DOMAIN Tail(s) = 1 .. Len(Tail(s))
  OBVIOUS
<1>2. \A i \in 1 .. Len(Tail(s)) : Tail(s)[i] = s[i + 1]
  OBVIOUS
<1>3. QED
  BY <1>1, <1>2

\* It has TypeOK: a caller that waits holds the one entry of its category.
LEMMA IInvTypeOK == IInv => TypeOK
  BY Zenon DEF IInv, Kinds, HandlesHeld, TableFollows, Active, TypeOK

\* What is said of the callers and their handles holds on while these, the
\* entries and the late requests stay, and the connection does not come back.
LEMMA CallersKept ==
  ASSUME WrongAnswerOnlyAfterTimeout, Room, HandlesHeld, TableFollows,
         UNCHANGED <<entries, made, cat, life, at, cur, got, late>>, conn' = "up" => conn = "up"
  PROVE  WrongAnswerOnlyAfterTimeout' /\ Room' /\ HandlesHeld' /\ TableFollows'
  <1>1. WrongAnswerOnlyAfterTimeout'
    BY DEF WrongAnswerOnlyAfterTimeout
  <1>2. Room'
    <2>1. Counted' = Counted
      BY DEF Counted
    <2>2. QED
      BY <2>1 DEF Room
  <1>3. HandlesHeld'
    BY DEF HandlesHeld
  <1>4. TableFollows'
    <2>1. \A k : OfCategory(k)' = OfCategory(k)
      BY DEF OfCategory
    <2>2. QED
      BY <2>1 DEF TableFollows
  <1>5. QED
    BY <1>1, <1>2, <1>3, <1>4

\* The same of the answers, wherever they are.
LEMMA AnswersKept ==
  ASSUME PacksOwnOrLate, UnansweredKnown, UNCHANGED <<made, cat, packs, at, cur, got, late, asked, answers>>
  PROVE  PacksOwnOrLate' /\ UnansweredKnown'
  <1>1. \A d, r : PackOK(d, r) => PackOK(d, r)'
    BY DEF PackOK, GivenUp
  <1>2. \A q : Explained(q) => Explained(q)'
    BY DEF Explained
  <1>3. \A q : Unsent(q) => Unsent(q)'
    BY DEF Unsent
  <1>4. PacksOwnOrLate'
    BY <1>1 DEF PacksOwnOrLate
  <1>5. UnansweredKnown'
    BY <1>2, <1>3 DEF UnansweredKnown
  <1>6. QED
    BY <1>4, <1>5

\* A count reserves a handle, and finds the entries of its category.
LEMMA NewCountOK ==
  ASSUME IInv, NEW c \in Callers, NewCount(c)
  PROVE  IInv'
  <1> USE RequestAssumption, OwnCategories DEF IInv
  <1>0. /\ at \in [Callers -> {"idle", "conflict", "counted", "added", "wait", "done", "deleted"}]
        /\ at[c] = "idle" /\ at' = [at EXCEPT ![c] = at'[c]] /\ at'[c] = IF OfCategory(Category[c]) # {} THEN "conflict" ELSE "counted"
        /\ UNCHANGED <<entries, made, cat, life, packs, cur, got, late, asked, answers, conn, fault>>
    BY Zenon DEF NewCount, Go, Kinds
  <1>a. \A k : OfCategory(k)' = OfCategory(k)
    BY <1>0 DEF OfCategory
  <1>1. Kinds'
    BY Zenon, <1>0 DEF Kinds
  <1>2. NoFreedHandleWhileUp'
    BY <1>0 DEF NoFreedHandleWhileUp
  <1>3. WrongAnswerOnlyAfterTimeout'
    BY <1>0 DEF WrongAnswerOnlyAfterTimeout
  <1>4. Room'
    <2>1. IsFiniteSet(Counted) /\ Cardinality(Counted) \in Nat
      BY FS_Subset, FS_CardinalityType DEF Counted
    <2>2. Counted' \in {Counted, Counted \cup {c}}
      BY <1>0 DEF Counted
    <2>3. Cardinality(Counted \cup {c}) \in {Cardinality(Counted), Cardinality(Counted) + 1}
      BY Zenon, <2>1, FS_AddElement
    <2>4. Cardinality(Counted') \in {Cardinality(Counted), Cardinality(Counted) + 1}
      BY <2>2, <2>3
    <2>5. made + Cardinality(Counted) < MaxRequests /\ made' = made /\ made \in Nat
      BY <1>0 DEF NewCount, Counted, Kinds
    <2>6. QED
      BY <2>1, <2>4, <2>5 DEF Room
  <1>5. HandlesHeld'
    BY <1>0 DEF HandlesHeld, Active
  <1>6. TableFollows'
    BY <1>0, <1>a DEF TableFollows
  <1>7. PacksOwnOrLate'
    BY <1>0 DEF PacksOwnOrLate, PackOK, GivenUp
  <1>8. UnansweredKnown'
    <2>1. \A p : Explained(p) => Explained(p)'
      BY Zenon, <1>0 DEF Explained
    <2>2. \A p : Unsent(p) => Unsent(p)'
      BY <1>0 DEF Unsent
    <2>3. QED
      BY <1>0, <2>1, <2>2 DEF UnansweredKnown
  <1>9. QED
    BY <1>1, <1>2, <1>3, <1>4, <1>5, <1>6, <1>7, <1>8

\* A conflict ends the call and changes nothing.
LEMMA ConflictOK ==
  ASSUME IInv, NEW c \in Callers, Conflict(c)
  PROVE  IInv'
  <1> USE RequestAssumption, OwnCategories DEF IInv
  <1>0. /\ at \in [Callers -> {"idle", "conflict", "counted", "added", "wait", "done", "deleted"}]
        /\ at[c] = "conflict" /\ at' = [at EXCEPT ![c] = at'[c]] /\ at'[c] = "idle"
        /\ UNCHANGED <<entries, made, cat, life, packs, cur, got, late, asked, answers, conn, fault>>
    BY Zenon DEF Conflict, Go, Kinds
  <1>a. \A k : OfCategory(k)' = OfCategory(k)
    BY <1>0 DEF OfCategory
  <1>1. Kinds'
    BY Zenon, <1>0 DEF Kinds
  <1>2. NoFreedHandleWhileUp'
    BY <1>0 DEF NoFreedHandleWhileUp
  <1>3. WrongAnswerOnlyAfterTimeout'
    BY Zenon, <1>0 DEF WrongAnswerOnlyAfterTimeout
  <1>4. Room'
    <2>1. Counted' = Counted
      BY Zenon, <1>0 DEF Counted
    <2>2. QED
      BY <1>0, <2>1 DEF Room
  <1>5. HandlesHeld'
    BY <1>0 DEF HandlesHeld, Active
  <1>6. TableFollows'
    BY Zenon, <1>0, <1>a DEF TableFollows
  <1>7. PacksOwnOrLate'
    BY <1>0 DEF PacksOwnOrLate, PackOK, GivenUp
  <1>8. UnansweredKnown'
    <2>1. \A p : Explained(p) => Explained(p)'
      BY Zenon, <1>0 DEF Explained
    <2>2. \A p : Unsent(p) => Unsent(p)'
      BY <1>0 DEF Unsent
    <2>3. QED
      BY Zenon, <1>0, <2>1, <2>2 DEF UnansweredKnown
  <1>9. QED
    BY <1>1, <1>2, <1>3, <1>4, <1>5, <1>6, <1>7, <1>8

\* A timeout puts the request among the late ones.
LEMMA WaitTimeoutOK ==
  ASSUME IInv, NEW c \in Callers, WaitTimeout(c)
  PROVE  IInv'
  <1> USE RequestAssumption, OwnCategories DEF IInv
  <1>0. /\ at \in [Callers -> {"idle", "conflict", "counted", "added", "wait", "done", "deleted"}]
        /\ at[c] = "wait" /\ at' = [at EXCEPT ![c] = at'[c]] /\ at'[c] = "done"
        /\ late' = late \cup {cur[c]} /\ cur[c] \in 1 .. made
        /\ UNCHANGED <<entries, made, cat, life, packs, cur, got, asked, answers, conn, fault>>
    BY DEF WaitTimeout, Go, Kinds, HandlesHeld, Active
  <1>a. \A k : OfCategory(k)' = OfCategory(k)
    BY Zenon, <1>0 DEF OfCategory
  <1>1. Kinds'
    BY Zenon, <1>0 DEF Kinds
  <1>2. NoFreedHandleWhileUp'
    BY <1>0 DEF NoFreedHandleWhileUp
  <1>3. WrongAnswerOnlyAfterTimeout'
    BY Zenon, <1>0 DEF WrongAnswerOnlyAfterTimeout
  <1>4. Room'
    <2>1. Counted' = Counted
      BY <1>0 DEF Counted
    <2>2. QED
      BY <1>0, <2>1 DEF Room
  <1>5. HandlesHeld'
    BY <1>0 DEF HandlesHeld, Active
  <1>6. TableFollows'
    BY Zenon, <1>0, <1>a DEF TableFollows
  <1>7. PacksOwnOrLate'
    BY <1>0 DEF PacksOwnOrLate, PackOK, GivenUp
  <1>8. UnansweredKnown'
    <2>1. \A p : Explained(p) => Explained(p)'
      BY Zenon, <1>0 DEF Explained
    <2>2. \A p : Unsent(p) => Unsent(p)'
      BY <1>0 DEF Unsent
    <2>3. QED
      BY Zenon, <1>0, <2>1, <2>2 DEF UnansweredKnown
  <1>9. QED
    BY <1>1, <1>2, <1>3, <1>4, <1>5, <1>6, <1>7, <1>8

\* The entries of the category go, unless the connection is down.
LEMMA DestroyDelOK ==
  ASSUME IInv, NEW c \in Callers, DestroyDel(c)
  PROVE  IInv'
  <1> USE RequestAssumption, OwnCategories DEF IInv
  <1>0. /\ at \in [Callers -> {"idle", "conflict", "counted", "added", "wait", "done", "deleted"}]
        /\ at[c] = "done" /\ at' = [at EXCEPT ![c] = at'[c]] /\ at'[c] = "deleted"
        /\ fault' \in {fault, "assert"}
        /\ entries' = IF conn = "down" THEN entries ELSE entries \ OfCategory(Category[c])
        /\ UNCHANGED <<made, cat, life, packs, cur, got, late, asked, answers, conn>>
    BY Zenon DEF DestroyDel, Go, Kinds
  <1>a. \A k : OfCategory(k)' = IF conn # "down" /\ k = Category[c] THEN {} ELSE OfCategory(k)
    BY <1>0 DEF OfCategory
  <1>1. Kinds'
    <2>1. entries' \subseteq entries
      BY Zenon, <1>0
    <2>2. at' \in [Callers -> {"idle", "conflict", "counted", "added", "wait", "done", "deleted"}]
      BY Zenon, <1>0
    <2>3. QED
      BY Zenon, <1>0, <2>1, <2>2 DEF Kinds
  <1>2. NoFreedHandleWhileUp'
    BY Zenon, <1>0 DEF NoFreedHandleWhileUp
  <1>3. WrongAnswerOnlyAfterTimeout'
    BY <1>0 DEF WrongAnswerOnlyAfterTimeout
  <1>4. Room'
    <2>1. Counted' = Counted
      BY <1>0 DEF Counted
    <2>2. QED
      BY <1>0, <2>1 DEF Room
  <1>5. HandlesHeld'
    BY <1>0 DEF HandlesHeld, Active
  <1>6. TableFollows'
    BY Zenon, <1>0, <1>a DEF TableFollows
  <1>7. PacksOwnOrLate'
    BY <1>0 DEF PacksOwnOrLate, PackOK, GivenUp
  <1>8. UnansweredKnown'
    <2>1. \A p : Explained(p) => Explained(p)'
      BY Zenon, <1>0 DEF Explained
    <2>2. \A p : Unsent(p) => Unsent(p)'
      BY <1>0 DEF Unsent
    <2>3. QED
      BY Zenon, <1>0, <2>1, <2>2 DEF UnansweredKnown
  <1>9. QED
    BY <1>1, <1>2, <1>3, <1>4, <1>5, <1>6, <1>7, <1>8

\* The new handle is the newest of all, and the one entry of its category.
LEMMA NewAddOK ==
  ASSUME IInv, NEW c \in Callers, NewAdd(c)
  PROVE  IInv'
  <1> USE RequestAssumption, OwnCategories DEF IInv
  <1>n. PICK n : n = made + 1
    BY Zenon
  <1>0. /\ at \in [Callers -> {"idle", "conflict", "counted", "added", "wait", "done", "deleted"}]
        /\ at[c] = "counted" /\ at' = [at EXCEPT ![c] = "added"]
        /\ made \in Nat /\ n = made + 1 /\ made' = n /\ cur' = [cur EXCEPT ![c] = n]
        /\ cat' = [cat EXCEPT ![n] = Category[c]] /\ life' = [life EXCEPT ![n] = "live"]
        /\ entries' = entries \cup {n}
        /\ UNCHANGED <<packs, got, late, asked, answers, conn, fault>>
    BY <1>n DEF NewAdd, Go, Kinds
  <1>r. n \in Handles /\ Room'
    <2>1. IsFiniteSet(Counted) /\ Cardinality(Counted) \in Nat
      BY FS_Subset, FS_CardinalityType DEF Counted
    <2>2. Counted' = Counted \ {c} /\ c \in Counted
      BY Zenon, <1>0 DEF Counted
    <2>3. IsFiniteSet(Counted \ {c}) /\ Cardinality(Counted \ {c}) = Cardinality(Counted) - 1
      BY <2>1, <2>2, FS_RemoveElement
    <2>4. Cardinality(Counted \ {c}) \in Nat
      BY <2>3, FS_CardinalityType
    <2>5. QED
      BY <1>0, <2>1, <2>2, <2>3, <2>4 DEF Room, Handles
  <1>k. /\ cat \in [Handles -> {0} \cup {Category[d] : d \in Callers}]
        /\ life \in [Handles -> {"none", "live", "freed"}] /\ cur \in [Callers -> 0 .. made]
        /\ entries \subseteq 1 .. made /\ late \subseteq 1 .. made
        /\ asked \subseteq 1 .. made /\ answers \subseteq 1 .. made
    BY Zenon DEF Kinds
  <1>l. /\ n \notin 1 .. made /\ 1 .. made' = (1 .. made) \cup {n} /\ 1 .. made' \subseteq Handles
        /\ cat'[n] = Category[c] /\ \A h \in 1 .. made : cat'[h] = cat[h] /\ life'[h] = life[h]
    BY <1>0, <1>r, <1>k DEF Handles
  <1>a. \A k : OfCategory(k)' = IF k = Category[c] THEN OfCategory(k) \cup {n} ELSE OfCategory(k)
    BY <1>0, <1>k, <1>l DEF OfCategory
  <1>1. Kinds'
    <2>1. cat' \in [Handles -> {0} \cup {Category[d] : d \in Callers}]
      BY Zenon, <1>0, <1>k
    <2>2. life' \in [Handles -> {"none", "live", "freed"}]
      BY Zenon, <1>0, <1>k
    <2>c. cur' \in [Callers -> 0 .. made']
      <3>1. n \in 0 .. made' /\ 0 .. made \subseteq 0 .. made'
        BY <1>0
      <3>2. cur \in [Callers -> 0 .. made']
        BY <1>k, <3>1
      <3>3. QED
        BY <1>0, <3>1, <3>2
    <2>3. entries' \subseteq 1 .. made' /\ late \subseteq 1 .. made' /\ asked \subseteq 1 .. made'
          /\ answers \subseteq 1 .. made' /\ made' \in 0 .. MaxRequests
      BY <1>0, <1>r, <1>k, <1>l DEF Handles
    <2>4. at' \in [Callers -> {"idle", "conflict", "counted", "added", "wait", "done", "deleted"}]
      BY <1>0
    <2>5. QED
      BY Zenon, <1>0, <2>1, <2>2, <2>c, <2>3, <2>4 DEF Kinds
  <1>2. NoFreedHandleWhileUp'
    BY <1>0 DEF NoFreedHandleWhileUp
  <1>3. WrongAnswerOnlyAfterTimeout'
    <2>1. \A h \in Handles : got[h] # 0 => h \in 1 .. made /\ got[h] \in 1 .. made
      BY Zenon DEF UnansweredKnown
    <2>2. \A l \in late : cat'[l] = cat[l]
      BY Zenon, <1>k, <1>l
    <2>3. QED
      BY <1>0, <1>l, <2>1, <2>2 DEF WrongAnswerOnlyAfterTimeout
  <1>5. HandlesHeld'
    <2>1. life'[n] = "live" /\ cur'[c] = n /\ at'[c] = "added"
      BY Zenon, <1>0, <1>r, <1>k
    <2>2. \A d \in Callers : d # c => cur'[d] = cur[d] /\ at'[d] = at[d]
      BY Zenon, <1>0, <1>k
    <2>3. \A d \in Callers : cur[d] <= cur'[d] /\ cur[d] \in 0 .. made
      BY <1>0, <1>k
    <2>4. ASSUME NEW h \in 1 .. made
          PROVE  /\ life'[h] # "none"
                 /\ life'[h] = "live" => \E d \in Callers : at'[d] \in Active /\ cur'[d] = h
                 /\ \E d \in Callers : cat'[h] = Category[d] /\ h <= cur'[d]
      <3>1. /\ life[h] # "none"
            /\ life[h] = "live" => \E d \in Callers : d # c /\ at[d] \in Active /\ cur[d] = h
        BY <1>0 DEF HandlesHeld, Active
      <3>2. PICK d \in Callers : cat[h] = Category[d] /\ h <= cur[d]
        BY Zenon DEF HandlesHeld
      <3>3. h <= cur'[d]
        BY <2>3, <3>2, <1>0, <1>k
      <3>4. QED
        BY Zenon, <1>l, <2>2, <3>1, <3>2, <3>3
    <2>5. ASSUME NEW d \in Callers
          PROVE  /\ cur'[d] # 0 => cat'[cur'[d]] = Category[d]
                 /\ at'[d] \in Active => cur'[d] # 0 /\ life'[cur'[d]] = "live"
      <3>1. CASE d = c
        BY <1>0, <1>l, <2>1, <3>1
      <3>2. CASE d # c
        BY <1>0, <1>k, <1>l, <2>2, <2>3, <3>2 DEF HandlesHeld
      <3>3. QED
        BY Zenon, <3>1, <3>2
    <2>6. n <= cur'[c] /\ at'[c] \in Active
      BY <1>0, <2>1 DEF Active
    <2>7. QED
      BY <1>l, <2>1, <2>4, <2>5, <2>6 DEF HandlesHeld
  <1>6. TableFollows'
    BY Zenon, <1>0, <1>k, <1>a DEF TableFollows
  <1>7. PacksOwnOrLate'
    <2>1. \A p \in 1 .. made : GivenUp(p) => GivenUp(p)'
      BY Zenon, <1>0, <1>k, <1>l DEF GivenUp
    <2>2. \A e, p : PackOK(e, p) => PackOK(e, p)'
      BY Zenon, <1>0, <1>l, <2>1 DEF PackOK
    <2>3. QED
      BY Zenon, <1>0, <2>2 DEF PacksOwnOrLate
  <1>8. UnansweredKnown'
    <2>1. \A p : Explained(p) => Explained(p)'
      BY Zenon, <1>0, <1>k DEF Explained
    <2>2. \A p : Unsent(p) => Unsent(p)'
      BY Zenon, <1>0 DEF Unsent
    <2>3. Unsent(n)'
      <3>1. got[n] = 0
        BY Zenon, <1>r, <1>l DEF UnansweredKnown
      <3>2. \A e \in Handles : \A i \in DOMAIN packs[e] : packs[e][i] # n
        BY Zenon, <1>l DEF PacksOwnOrLate, PackOK
      <3>3. QED
        BY <1>0, <1>k, <1>l, <3>1, <3>2 DEF Unsent
    <2>4. ASSUME NEW d \in Callers, at'[d] = "added", NEW h, h = cur'[d]
          PROVE  Unsent(h)'
      BY Zenon, <1>0, <1>k, <2>2, <2>3, <2>4 DEF UnansweredKnown
    <2>5. (\A d \in Callers : at[d] = "added" => Unsent(cur[d]))'
      BY Zenon, <2>4
    <2>6. QED
      BY Zenon, <1>0, <1>l, <2>1, <2>5 DEF UnansweredKnown
  <1>9. QED
    BY <1>1, <1>2, <1>3, <1>r, <1>5, <1>6, <1>7, <1>8

\* A caller inside a call has a handle that was made.
LEMMA HeldMade ==
  ASSUME IInv, NEW c \in Callers, at[c] \in Active
  PROVE  made \in Nat /\ cur[c] \in 1 .. made /\ cur[c] \in Handles
  BY RequestAssumption DEF IInv, Kinds, HandlesHeld, Handles

\* Callers that hold handles hold different ones, of their own categories.
LEMMA HeldApart ==
  ASSUME IInv, NEW c \in Callers, NEW d \in Callers, c # d,
         at[c] \in Active, at[d] \in Active
  PROVE  cur[c] # cur[d]
  BY OwnCategories DEF IInv, HandlesHeld

\* When a caller frees its handle, the others' stay live and held.
LEMMA FreeKeepsHeld ==
  ASSUME IInv, NEW c \in Callers, at[c] \in Active, at' = [at EXCEPT ![c] = "idle"],
         life' = [life EXCEPT ![cur[c]] = "freed"], UNCHANGED <<made, cat, cur>>
  PROVE  HandlesHeld'
  <1>1. /\ at \in [Callers -> {"idle", "conflict", "counted", "added", "wait", "done", "deleted"}]
        /\ cur \in [Callers -> 0 .. made] /\ 1 .. made \subseteq Handles
        /\ life \in [Handles -> {"none", "live", "freed"}] /\ cur[c] \in 1 .. made
    <2>1. /\ at \in [Callers -> {"idle", "conflict", "counted", "added", "wait", "done", "deleted"}]
          /\ cur \in [Callers -> 0 .. made] /\ made \in 0 .. MaxRequests
          /\ life \in [Handles -> {"none", "live", "freed"}]
      BY Zenon DEF IInv, Kinds
    <2>2. cur[c] # 0
      BY Zenon DEF IInv, HandlesHeld
    <2>3. QED
      BY <2>1, <2>2, RequestAssumption DEF Handles
  <1>2. \A h \in 1 .. made : life'[h] = IF h = cur[c] THEN "freed" ELSE life[h]
    BY <1>1
  <1>3. \A d \in Callers : d # c => at'[d] = at[d] /\ (at[d] \in Active => cur[d] # cur[c])
    BY Zenon, <1>1, HeldApart
  <1>4. at'[c] \notin Active
    BY <1>1 DEF Active
  <1>5. ASSUME NEW h \in 1 .. made
        PROVE  /\ life'[h] # "none"
               /\ life'[h] = "live" => \E d \in Callers : at'[d] \in Active /\ cur'[d] = h
               /\ \E d \in Callers : cat'[h] = Category[d] /\ h <= cur'[d]
    BY <1>2, <1>3 DEF IInv, HandlesHeld
  <1>6. ASSUME NEW d \in Callers
        PROVE  /\ cur'[d] # 0 => cat'[cur'[d]] = Category[d]
               /\ at'[d] \in Active => cur'[d] # 0 /\ life'[cur'[d]] = "live"
    <2>1. at'[d] \in Active => cur[d] \in 1 .. made /\ cur[d] # cur[c] /\ life[cur[d]] = "live"
      BY <1>1, <1>3, <1>4 DEF IInv, HandlesHeld
    <2>2. QED
      BY <1>2, <2>1 DEF IInv, HandlesHeld
  <1>7. QED
    BY Zenon, <1>5, <1>6 DEF HandlesHeld

\* A request that is sent is waited for; one that is not is freed.
LEMMA NewSendOK ==
  ASSUME IInv, NEW c \in Callers, NewSend(c)
  PROVE  IInv'
  <1> USE RequestAssumption, OwnCategories DEF IInv
  <1>0. /\ at \in [Callers -> {"idle", "conflict", "counted", "added", "wait", "done", "deleted"}]
        /\ at[c] = "added" /\ cur[c] \in 1 .. made /\ made \in Nat /\ at[c] \in Active
        /\ fault' \in {fault, "assert"}
        /\ UNCHANGED <<entries, made, cat, packs, cur, got, late, answers, conn>>
    BY DEF NewSend, Kinds, HandlesHeld, Active
  <1>a. \A k : OfCategory(k)' = OfCategory(k)
    BY Zenon, <1>0 DEF OfCategory
  <1>b. CASE conn = "up"
    <2>0. /\ at' = [at EXCEPT ![c] = "wait"] /\ asked' = asked \cup {cur[c]} /\ UNCHANGED life
      BY Zenon, <1>b DEF NewSend, Go
    <2>u. Unsent(cur[c])
      BY Zenon, <1>0 DEF UnansweredKnown
    <2>1. Kinds'
      BY Zenon, <1>0, <2>0 DEF Kinds
    <2>2. NoFreedHandleWhileUp' /\ WrongAnswerOnlyAfterTimeout'
      BY Zenon, <1>0 DEF NoFreedHandleWhileUp, WrongAnswerOnlyAfterTimeout
    <2>3. Room'
      <3>1. Counted' = Counted
        BY Zenon, <1>0, <2>0 DEF Counted
      <3>2. QED
        BY Zenon, <1>0, <3>1 DEF Room
    <2>4. HandlesHeld'
      BY <1>0, <2>0 DEF HandlesHeld, Active
    <2>5. TableFollows'
      BY Zenon, <1>0, <1>a, <2>0 DEF TableFollows
    <2>6. PacksOwnOrLate'
      <3>1. \A p : GivenUp(p) => GivenUp(p)'
        BY Zenon, <1>0 DEF GivenUp
      <3>2. \A e, p : PackOK(e, p) /\ p # cur[c] => PackOK(e, p)'
        BY Zenon, <1>0, <2>0, <3>1 DEF PackOK
      <3>3. QED
        BY Zenon, <1>0, <2>u, <3>2 DEF PacksOwnOrLate, Unsent
    <2>7. UnansweredKnown'
      <3>1. \A p : Explained(p) => Explained(p)'
        BY Zenon, <1>0, <2>0 DEF Explained
      <3>2. Explained(cur[c])'
        BY <1>0, <2>0, <2>u DEF Explained, Unsent
      <3>3. \A h : Unsent(h) /\ h # cur[c] => Unsent(h)'
        BY Zenon, <1>0, <2>0 DEF Unsent
      <3>4. \A d \in Callers : at'[d] = "added" => d # c /\ at[d] = "added" /\ cur[d] # cur[c]
        BY Zenon, <1>0, <2>0, HeldApart DEF Active
      <3>5. (\A d \in Callers : at[d] = "added" => Unsent(cur[d]))'
        BY Zenon, <1>0, <3>3, <3>4 DEF UnansweredKnown
      <3>6. (\A p \in asked \cup answers : Explained(p))'
        BY Zenon, <1>0, <2>0, <3>1, <3>2 DEF UnansweredKnown
      <3>7. QED
        BY <1>0, <2>0, <2>u, <3>5, <3>6 DEF UnansweredKnown, Unsent
    <2>8. QED
      BY Zenon, <2>1, <2>2, <2>3, <2>4, <2>5, <2>6, <2>7
  <1>c. CASE conn # "up"
    <2>0. /\ at' = [at EXCEPT ![c] = "idle"] /\ asked' = asked
          /\ life' = [life EXCEPT ![cur[c]] = "freed"]
      BY Zenon, <1>c DEF NewSend, Go
    <2>1. Kinds'
      BY Zenon, <1>0, <2>0 DEF Kinds
    <2>2. NoFreedHandleWhileUp' /\ WrongAnswerOnlyAfterTimeout'
      BY <1>0 DEF NoFreedHandleWhileUp, WrongAnswerOnlyAfterTimeout
    <2>3. Room'
      <3>1. Counted' = Counted
        BY Zenon, <1>0, <2>0 DEF Counted
      <3>2. QED
        BY <1>0, <3>1 DEF Room
    <2>4. HandlesHeld'
      BY Zenon, <1>0, <2>0, FreeKeepsHeld
    <2>5. TableFollows'
      BY Zenon, <1>0, <1>a, <1>c, <2>0 DEF TableFollows
    <2>6. PacksOwnOrLate'
      BY <1>0, <2>0 DEF PacksOwnOrLate, PackOK, GivenUp
    <2>7. UnansweredKnown'
      <3>1. \A p : Explained(p) => Explained(p)'
        BY Zenon, <1>0, <2>0 DEF Explained
      <3>2. \A p : Unsent(p) => Unsent(p)'
        BY Zenon, <1>0, <2>0 DEF Unsent
      <3>3. QED
        BY Zenon, <1>0, <2>0, <3>1, <3>2 DEF UnansweredKnown
    <2>8. QED
      BY <2>1, <2>2, <2>3, <2>4, <2>5, <2>6, <2>7
  <1>9. QED
    BY Zenon, <1>b, <1>c

\* A wait takes the first pack: the own answer, or a late one.
LEMMA WaitAnswerOK ==
  ASSUME IInv, NEW c \in Callers, WaitAnswer(c)
  PROVE  IInv'
  <1> USE RequestAssumption, OwnCategories DEF IInv
  <1>n. PICK e, p : e = cur[c] /\ p = Head(packs[e])
    BY Zenon
  <1>0. /\ at \in [Callers -> {"idle", "conflict", "counted", "added", "wait", "done", "deleted"}]
        /\ at[c] = "wait" /\ at' = [at EXCEPT ![c] = "done"] /\ at[c] \in Active
        /\ e = cur[c]
        /\ packs \in [Handles -> Seq(Handles)] /\ got \in [Handles -> 0 .. MaxRequests]
        /\ packs[e] # << >> /\ packs' = [packs EXCEPT ![e] = Tail(packs[e])]
        /\ got' = [got EXCEPT ![e] = p]
        /\ UNCHANGED <<entries, made, cat, life, cur, late, asked, answers, conn, fault>>
    BY Zenon, <1>n DEF WaitAnswer, Go, Kinds, Active
  <1>h. made \in Nat /\ e \in 1 .. made /\ e \in Handles
    BY Zenon, <1>0, HeldMade
  <1>p. /\ p = packs[e][1] /\ 1 \in DOMAIN packs[e] /\ PackOK(e, p) /\ p \in Handles
        /\ Tail(packs[e]) \in Seq(Handles)
    <2>1. packs[e] \in Seq(Handles) /\ packs[e] # << >>
      BY Zenon, <1>0, <1>h
    <2>2. 1 \in DOMAIN packs[e] /\ Head(packs[e]) = packs[e][1] /\ packs[e][1] \in Handles
          /\ Tail(packs[e]) \in Seq(Handles)
      BY <2>1
    <2>3. QED
      BY Zenon, <1>n, <1>h, <2>2 DEF PacksOwnOrLate
  <1>t. \A d \in Handles : \A i \in DOMAIN packs'[d] :
          \E j \in DOMAIN packs[d] : packs'[d][i] = packs[d][j]
    <2>1. \A i \in DOMAIN Tail(packs[e]) : i + 1 \in DOMAIN packs[e] /\ Tail(packs[e])[i] = packs[e][i + 1]
      <3>1. packs[e] \in Seq(Handles) /\ packs[e] # << >>
        BY Zenon, <1>0, <1>h
      <3>2. QED
        BY <3>1, TailShifts, Zenon
    <2>2. \A d \in Handles : packs'[d] = IF d = e THEN Tail(packs[e]) ELSE packs[d]
      BY Zenon, <1>0
    <2>3. QED
      BY Zenon, <2>1, <2>2
  <1>q. p \in 1 .. made /\ p # 0 /\ p \notin asked \cup answers
    BY <1>p DEF PackOK
  <1>a. \A k : OfCategory(k)' = OfCategory(k)
    BY Zenon, <1>0 DEF OfCategory
  <1>1. Kinds'
    <2>1. p \in 0 .. MaxRequests
      BY <1>p DEF Handles
    <2>2. QED
      BY Zenon, <1>0, <1>p, <2>1 DEF Kinds
  <1>2. NoFreedHandleWhileUp'
    BY Zenon, <1>0 DEF NoFreedHandleWhileUp
  <1>3. WrongAnswerOnlyAfterTimeout'
    <2>1. p # e => p < e /\ cat[p] = cat[e] /\ \E l \in late : l <= p /\ cat[l] = cat[e]
      BY Zenon, <1>p DEF PackOK, GivenUp
    <2>2. \A h \in Handles : got'[h] = IF h = e THEN p ELSE got[h]
      BY Zenon, <1>0
    <2>3. QED
      BY <1>0, <2>1, <2>2 DEF WrongAnswerOnlyAfterTimeout
  <1>4. Room'
    <2>1. Counted' = Counted
      BY Zenon, <1>0 DEF Counted
    <2>2. QED
      BY Zenon, <1>0, <2>1 DEF Room
  <1>5. HandlesHeld'
    <2>1. \A d \in Callers : at'[d] \in Active <=> at[d] \in Active
      BY Zenon, <1>0 DEF Active
    <2>2. QED
      BY <1>0, <2>1 DEF HandlesHeld
  <1>6. TableFollows'
    BY Zenon, <1>0, <1>a DEF TableFollows
  <1>7. PacksOwnOrLate'
    <2>1. \A d, r : PackOK(d, r) => PackOK(d, r)'
      BY Zenon, <1>0 DEF PackOK, GivenUp
    <2>2. QED
      BY <1>t, <2>1 DEF PacksOwnOrLate
  <1>8. UnansweredKnown'
    <2>1. ASSUME NEW r \in asked \cup answers
          PROVE  Explained(r)'
      <3>1. Explained(r) /\ r # p /\ r \in Handles
        <4>1. Explained(r) /\ r # p
          BY Zenon, <1>q DEF UnansweredKnown
        <4>2. r \in 1 .. made /\ made \in 0 .. MaxRequests
          BY Zenon DEF Kinds
        <4>3. QED
          BY <4>1, <4>2 DEF Handles
      <3>2. CASE r = e
        BY Zenon, <1>0, <1>h, <1>q, <3>1, <3>2 DEF Explained
      <3>3. CASE r # e
        BY Zenon, <1>0, <3>1, <3>3 DEF Explained
      <3>4. QED
        BY Zenon, <3>2, <3>3
    <2>2. ASSUME NEW h \in Handles, Unsent(h), h # e
          PROVE  Unsent(h)'
      <3>1. got'[h] = 0 /\ h \notin asked' \cup answers'
        BY Zenon, <1>0, <2>2 DEF Unsent
      <3>2. \A d \in Handles : \A i \in DOMAIN packs'[d] : packs'[d][i] # h
        BY <1>t, <2>2 DEF Unsent
      <3>3. QED
        BY Zenon, <3>1, <3>2 DEF Unsent
    <2>3. \A d \in Callers : at'[d] = "added" => at[d] = "added" /\ cur[d] # e /\ cur[d] \in Handles
      <3>1. \A d \in Callers : at'[d] = "added" => d # c /\ at[d] = "added" /\ at[d] \in Active
        BY Zenon, <1>0 DEF Active
      <3>2. QED
        BY Zenon, <1>0, <3>1, HeldMade, HeldApart
    <2>4. (\A d \in Callers : at[d] = "added" => Unsent(cur[d]))'
      BY Zenon, <1>0, <2>2, <2>3 DEF UnansweredKnown
    <2>5. QED
      BY Zenon, <1>0, <1>h, <1>q, <2>1, <2>4 DEF UnansweredKnown
  <1>9. QED
    BY <1>1, <1>2, <1>3, <1>4, <1>5, <1>6, <1>7, <1>8

\* The handle is freed with its queue; its entry is gone, or the connection.
LEMMA DestroyFreeOK ==
  ASSUME IInv, NEW c \in Callers, DestroyFree(c)
  PROVE  IInv'
  <1> USE RequestAssumption, OwnCategories DEF IInv
  <1>0. /\ at \in [Callers -> {"idle", "conflict", "counted", "added", "wait", "done", "deleted"}]
        /\ at[c] = "deleted" /\ at' = [at EXCEPT ![c] = "idle"] /\ at[c] \in Active
        /\ packs \in [Handles -> Seq(Handles)] /\ packs' = [packs EXCEPT ![cur[c]] = << >>]
        /\ life' = [life EXCEPT ![cur[c]] = "freed"] /\ fault' \in {fault, "assert"}
        /\ UNCHANGED <<entries, made, cat, cur, got, late, asked, answers, conn>>
    BY Zenon DEF DestroyFree, Go, Kinds, Active
  <1>t. ASSUME NEW d \in Handles, NEW i \in DOMAIN packs'[d]
        PROVE  i \in DOMAIN packs[d] /\ packs'[d][i] = packs[d][i]
    <2>1. packs'[d] = IF d = cur[c] THEN << >> ELSE packs[d]
      BY Zenon, <1>0
    <2>2. d # cur[c]
      BY <1>t, <2>1
    <2>3. QED
      BY Zenon, <1>t, <2>1, <2>2
  <1>a. \A k : OfCategory(k)' = OfCategory(k)
    BY Zenon, <1>0 DEF OfCategory
  <1>1. Kinds'
    <2>1. packs' \in [Handles -> Seq(Handles)]
      <3>1. << >> \in Seq(Handles)
        OBVIOUS
      <3>2. QED
        BY Zenon, <1>0, <3>1
    <2>2. life' \in [Handles -> {"none", "live", "freed"}]
      BY Zenon, <1>0 DEF Kinds
    <2>3. QED
      BY Zenon, <1>0, <2>1, <2>2 DEF Kinds
  <1>2. NoFreedHandleWhileUp'
    BY Zenon, <1>0 DEF NoFreedHandleWhileUp
  <1>3. WrongAnswerOnlyAfterTimeout'
    BY Zenon, <1>0 DEF WrongAnswerOnlyAfterTimeout
  <1>4. Room'
    <2>1. Counted' = Counted
      BY Zenon, <1>0 DEF Counted
    <2>2. QED
      BY Zenon, <1>0, <2>1 DEF Room
  <1>5. HandlesHeld'
    BY Zenon, <1>0, FreeKeepsHeld
  <1>6. TableFollows'
    BY Zenon, <1>0, <1>a DEF TableFollows
  <1>7. PacksOwnOrLate'
    <2>1. \A d, r : PackOK(d, r) => PackOK(d, r)'
      BY Zenon, <1>0 DEF PackOK, GivenUp
    <2>2. QED
      BY <1>t, <2>1 DEF PacksOwnOrLate
  <1>8. UnansweredKnown'
    <2>1. \A p : Explained(p) => Explained(p)'
      BY Zenon, <1>0 DEF Explained
    <2>2. \A h : Unsent(h) => Unsent(h)'
      BY <1>0, <1>t DEF Unsent
    <2>3. QED
      BY Zenon, <1>0, <2>1, <2>2 DEF UnansweredKnown
  <1>9. QED
    BY <1>1, <1>2, <1>3, <1>4, <1>5, <1>6, <1>7, <1>8

\* The server moves a request from asked to answers.
LEMMA AnswerOK ==
  ASSUME IInv, NEW h \in Handles, Answer(h)
  PROVE  IInv'
  <1> USE DEF IInv
  <1>0. /\ h \in asked /\ asked' = asked \ {h} /\ answers' = answers \cup {h}
        /\ asked' \cup answers' = asked \cup answers
        /\ UNCHANGED <<entries, made, cat, life, packs, at, cur, got, late, conn, fault>>
    BY Zenon DEF Answer
  <1>1. Kinds'
    BY Zenon, <1>0 DEF Kinds
  <1>2. NoFreedHandleWhileUp'
    BY <1>0 DEF NoFreedHandleWhileUp
  <1>3. WrongAnswerOnlyAfterTimeout' /\ Room' /\ HandlesHeld' /\ TableFollows'
    BY Zenon, <1>0, CallersKept
  <1>4. PacksOwnOrLate'
    <2>1. \A d, r : PackOK(d, r) => PackOK(d, r)'
      BY Zenon, <1>0 DEF PackOK, GivenUp
    <2>2. QED
      BY <1>0, <2>1 DEF PacksOwnOrLate
  <1>5. UnansweredKnown'
    <2>1. \A p : Explained(p) => Explained(p)'
      BY Zenon, <1>0 DEF Explained
    <2>2. \A p : Unsent(p) => Unsent(p)'
      BY Zenon, <1>0 DEF Unsent
    <2>3. QED
      BY Zenon, <1>0, <2>1, <2>2 DEF UnansweredKnown
  <1>6. QED
    BY <1>1, <1>2, <1>3, <1>4, <1>5

\* A disconnect may leave entries behind, and says so.
LEMMA DisconnectOK ==
  ASSUME IInv, Disconnect
  PROVE  IInv'
  <1> USE DEF IInv
  <1>0. /\ conn' \in {"iodel", "down"}
        /\ UNCHANGED <<entries, made, cat, life, packs, at, cur, got, late, asked, answers, fault>>
    BY DEF Disconnect
  <1>1. Kinds'
    BY Zenon, <1>0 DEF Kinds
  <1>2. NoFreedHandleWhileUp'
    BY <1>0 DEF NoFreedHandleWhileUp
  <1>3. WrongAnswerOnlyAfterTimeout' /\ Room' /\ HandlesHeld' /\ TableFollows'
    BY <1>0, CallersKept
  <1>4. PacksOwnOrLate' /\ UnansweredKnown'
    BY <1>0, AnswersKept
  <1>5. QED
    BY <1>1, <1>2, <1>3, <1>4

\* The request e that has the newest entry of the category of an answer h and
\* is not freed is h, or a newer one, and h is then the answer to a request
\* that was given up or took another answer.
LEMMA LateIsExplained ==
  ASSUME IInv, NEW h \in answers, NEW e \in OfCategory(cat[h]), life[e] # "freed"
  PROVE  e \in 1 .. made /\ h \in 1 .. made /\ (e # h => h < e /\ GivenUp(h))
  <1> USE DEF IInv
  <1>1. e \in 1 .. made /\ h \in 1 .. made /\ cat[e] = cat[h] /\ made \in Nat /\ made <= MaxRequests
    <2>1. e \in entries /\ cat[e] = cat[h]
      BY DEF OfCategory
    <2>2. made \in 0 .. MaxRequests /\ entries \subseteq 1 .. made /\ answers \subseteq 1 .. made
      BY Zenon DEF Kinds
    <2>3. e \in 1 .. made /\ h \in 1 .. made
      BY <2>1, <2>2
    <2>4. QED
      BY <2>1, <2>2, <2>3, RequestAssumption
  <1>2. PICK c \in Callers : at[c] \in Active /\ cur[c] = e
    <2>1. life[e] = "live"
      BY <1>1, RequestAssumption DEF HandlesHeld, Kinds, Handles
    <2>2. QED
      BY Zenon, <1>1, <2>1 DEF HandlesHeld
  <1>3. cat[e] = Category[c] /\ cur[c] \in Nat
    <2>1. \A d \in Callers : cur[d] # 0 => cat[cur[d]] = Category[d]
      BY Zenon DEF HandlesHeld
    <2>2. QED
      BY <1>1, <1>2, <2>1
  <1>4. h <= e
    <2>1. PICK d \in Callers : cat[h] = Category[d] /\ h <= cur[d]
      BY Zenon, <1>1 DEF HandlesHeld
    <2>2. d = c
      BY Zenon, <1>1, <1>3, <2>1, OwnCategories
    <2>3. QED
      BY Zenon, <1>2, <2>1, <2>2
  <1>5. ASSUME e # h PROVE GivenUp(h)
    <2>0. Explained(h)
      BY Zenon DEF UnansweredKnown
    <2>1. h \in Handles
      BY <1>1, RequestAssumption DEF Handles
    <2>2. ~ \E d \in Callers : cur[d] = h /\ at[d] = "wait"
      <3>1. SUFFICES ASSUME NEW d \in Callers, cur[d] = h, at[d] = "wait" PROVE FALSE
        BY Zenon
      <3>2. cat[h] = Category[d]
        BY <1>1, <3>1 DEF HandlesHeld
      <3>3. d = c
        BY Zenon, <1>1, <1>3, <3>2, OwnCategories
      <3>4. QED
        BY Zenon, <1>2, <1>5, <3>1, <3>3
    <2>3. CASE h \in late
      BY <1>1, <2>3 DEF GivenUp
    <2>4. CASE got[h] \notin {0, h}
      <3>1. PICK l \in late : l <= got[h] /\ cat[l] = cat[h] /\ got[h] < h
        BY Zenon, <2>1, <2>4 DEF WrongAnswerOnlyAfterTimeout
      <3>2. l \in Nat /\ got[h] \in Nat
        BY <2>1, RequestAssumption DEF Kinds
      <3>3. QED
        BY <1>1, <3>1, <3>2 DEF GivenUp
    <2>5. QED
      BY Zenon, <2>0, <2>2, <2>3, <2>4 DEF Explained
  <1>6. QED
    BY <1>1, <1>4, <1>5

\* A dispatched answer is pushed to the newest request of its category, if
\* there is one; while the connection holds, that one is live.
LEMMA DispatchOK ==
  ASSUME IInv, NEW h \in Handles, Dispatch(h)
  PROVE  IInv'
  <1> USE DEF IInv
  <1>0. /\ h \in answers /\ answers' = answers \ {h}
        /\ UNCHANGED <<entries, made, cat, life, at, cur, got, late, asked, conn>>
    BY Zenon DEF Dispatch
  <1>1. WrongAnswerOnlyAfterTimeout' /\ Room' /\ HandlesHeld' /\ TableFollows'
    BY <1>0, CallersKept
  <1>2. \A d, r : PackOK(d, r) => PackOK(d, r)'
    BY Zenon, <1>0 DEF PackOK, GivenUp
  <1>3. /\ asked' \cap answers' = {} /\ (\A p \in asked \cup answers : Explained(p))'
        /\ \A g \in Handles : got'[g] # 0 => g \in 1 .. made' /\ got'[g] \in 1 .. made'
    <2>1. \A p : Explained(p) => Explained(p)'
      BY Zenon, <1>0 DEF Explained
    <2>2. QED
      BY Zenon, <1>0, <2>1 DEF UnansweredKnown
  <1>4. CASE UNCHANGED packs /\ fault' \in {fault, "handle"} /\ (fault' = "handle" => conn # "up")
    <2>1. Kinds'
      BY Zenon, <1>0, <1>4 DEF Kinds
    <2>2. NoFreedHandleWhileUp'
      BY Zenon, <1>0, <1>4 DEF NoFreedHandleWhileUp
    <2>3. PacksOwnOrLate'
      BY <1>2, <1>4 DEF PacksOwnOrLate
    <2>4. \A g : Unsent(g) => Unsent(g)'
      BY Zenon, <1>0, <1>4 DEF Unsent
    <2>5. UnansweredKnown'
      BY Zenon, <1>0, <1>3, <2>4 DEF UnansweredKnown
    <2>6. QED
      BY <1>1, <2>1, <2>2, <2>3, <2>5
  <1>5. ASSUME NEW e \in OfCategory(cat[h]), life[e] # "freed",
               packs' = [packs EXCEPT ![e] = Append(packs[e], h)], UNCHANGED fault
        PROVE  IInv'
    <2>1. e \in 1 .. made /\ h \in 1 .. made /\ (e # h => h < e /\ GivenUp(h)) /\ cat[e] = cat[h]
      BY Zenon, <1>0, <1>5, LateIsExplained DEF OfCategory
    <2>2. e \in Handles
      BY <2>1, RequestAssumption DEF Kinds, Handles
    <2>3. PackOK(e, h)'
      BY Zenon, <1>0, <2>1 DEF PackOK, GivenUp, UnansweredKnown
    <2>4. packs \in [Handles -> Seq(Handles)]
      BY Zenon DEF Kinds
    <2>5. \A d \in Handles : \A i \in DOMAIN packs'[d] :
            (i \in DOMAIN packs[d] /\ packs'[d][i] = packs[d][i]) \/ (d = e /\ packs'[d][i] = h)
      BY <1>5, <2>2, <2>4
    <2>6. PacksOwnOrLate'
      BY Zenon, <1>2, <2>3, <2>5 DEF PacksOwnOrLate
    <2>7. Kinds'
      <3>1. Append(packs[e], h) \in Seq(Handles)
        BY <2>2, <2>4
      <3>2. packs' \in [Handles -> Seq(Handles)]
        BY Zenon, <1>5, <2>4, <3>1
      <3>3. QED
        BY Zenon, <1>0, <1>5, <3>2 DEF Kinds
    <2>8. NoFreedHandleWhileUp'
      BY Zenon, <1>0, <1>5 DEF NoFreedHandleWhileUp
    <2>9. (\A c \in Callers : at[c] = "added" => Unsent(cur[c]))'
      <3>1. SUFFICES ASSUME NEW g, Unsent(g) PROVE Unsent(g)'
        BY Zenon, <1>0 DEF UnansweredKnown
      <3>2. g # h
        BY Zenon, <1>0, <3>1 DEF Unsent
      <3>3. \A d \in Handles : \A i \in DOMAIN packs'[d] : packs'[d][i] # g
        BY Zenon, <2>5, <3>1, <3>2 DEF Unsent
      <3>4. QED
        BY Zenon, <1>0, <3>1, <3>3 DEF Unsent
    <2>10. UnansweredKnown'
      BY Zenon, <1>3, <2>9 DEF UnansweredKnown
    <2>11. QED
      BY <1>1, <2>6, <2>7, <2>8, <2>10
  <1>6. CASE OfCategory(cat[h]) = {}
    BY Zenon, <1>4, <1>6 DEF Dispatch, Deliver, NoFreedHandleWhileUp
  <1>7. CASE OfCategory(cat[h]) # {}
    <2>1. PICK e \in OfCategory(cat[h]) :
            IF life[e] = "freed" THEN fault' = "handle" /\ UNCHANGED packs
            ELSE packs' = [packs EXCEPT ![e] = Append(@, h)] /\ UNCHANGED fault
      BY Zenon, <1>7 DEF Dispatch, Deliver
    <2>2. CASE life[e] # "freed"
      BY Zenon, <1>5, <2>1, <2>2
    <2>3. CASE life[e] = "freed"
      <3>1. conn # "up"
        <4>1. SUFFICES ASSUME conn = "up" PROVE FALSE
          OBVIOUS
        <4>2. h \in 1 .. made /\ e \in OfCategory(cat[h])
          BY Zenon, <1>0 DEF Kinds
        <4>3. PICK c \in Callers : cat[h] = Category[c]
          BY <4>2 DEF HandlesHeld
        <4>4. at[c] \in {"added", "wait", "done"} /\ e = cur[c]
          BY Zenon, <4>1, <4>2, <4>3 DEF TableFollows, Kinds
        <4>5. life[e] = "live"
          BY Zenon, <4>4 DEF HandlesHeld, Active
        <4>6. QED
          BY Zenon, <2>3, <4>5
      <3>2. QED
        BY Zenon, <1>4, <2>1, <2>3, <3>1
    <2>4. QED
      BY Zenon, <2>2, <2>3
  <1>8. QED
    BY Zenon, <1>6, <1>7

\* Nobody has called, and nothing is asked.
LEMMA InitOK == Init => IInv
  <1> SUFFICES ASSUME Init PROVE IInv
    OBVIOUS
  <1> USE RequestAssumption
  <1>1. Kinds
    <2>1. << >> \in Seq(Handles)
      OBVIOUS
    <2>2. QED
      BY <2>1 DEF Init, Kinds, Handles
  <1>2. NoFreedHandleWhileUp /\ WrongAnswerOnlyAfterTimeout
    BY DEF Init, NoFreedHandleWhileUp, WrongAnswerOnlyAfterTimeout
  <1>3. Room
    <2>1. Counted = {}
      BY DEF Init, Counted
    <2>2. QED
      BY <2>1, FS_EmptySet DEF Init, Room
  <1>4. HandlesHeld /\ TableFollows
    BY DEF Init, HandlesHeld, TableFollows, OfCategory, Active
  <1>5. PacksOwnOrLate
    BY DEF Init, PacksOwnOrLate
  <1>6. UnansweredKnown
    BY Zenon DEF Init, UnansweredKnown
  <1>7. QED
    BY <1>1, <1>2, <1>3, <1>4, <1>5, <1>6 DEF IInv

\* No step leaves the invariant.
LEMMA StepOK == IInv /\ [Next]_vars => IInv'
  <1> SUFFICES ASSUME IInv, [Next]_vars PROVE IInv'
    OBVIOUS
  <1>1. ASSUME NEW c \in Callers, NewCount(c) \/ CallerStep(c) PROVE IInv'
    BY Zenon, <1>1, NewCountOK, ConflictOK, NewAddOK, NewSendOK, WaitAnswerOK, WaitTimeoutOK, DestroyDelOK,
       DestroyFreeOK DEF CallerStep
  <1>2. ASSUME NEW h \in Handles, Answer(h) \/ Dispatch(h) PROVE IInv'
    BY Zenon, <1>2, AnswerOK, DispatchOK
  <1>3. CASE Disconnect
    BY <1>3, DisconnectOK
  <1>4. CASE UNCHANGED vars
    <2>0. /\ UNCHANGED <<entries, made, cat, life, packs, at, cur, got, late, asked, answers, conn, fault>>
          /\ Kinds /\ NoFreedHandleWhileUp /\ WrongAnswerOnlyAfterTimeout
          /\ Room /\ HandlesHeld /\ TableFollows /\ PacksOwnOrLate /\ UnansweredKnown
      BY Zenon, <1>4 DEF vars, IInv
    <2>1. Kinds'
      BY Zenon, <2>0 DEF Kinds
    <2>2. NoFreedHandleWhileUp'
      BY <2>0 DEF NoFreedHandleWhileUp
    <2>3. WrongAnswerOnlyAfterTimeout' /\ Room' /\ HandlesHeld' /\ TableFollows'
      BY Zenon, <2>0, CallersKept
    <2>4. PacksOwnOrLate' /\ UnansweredKnown'
      BY Zenon, <2>0, AnswersKept
    <2>5. QED
      BY <2>1, <2>2, <2>3, <2>4 DEF IInv
  <1>5. QED
    BY <1>1, <1>2, <1>3, <1>4 DEF Next

\* The invariant holds of every behaviour of ep_request.c, whatever fairness.
THEOREM Invariance == Spec => []IInv
  BY InitOK, StepOK, PTL DEF Spec

\* Every variable keeps its kind of value; a caller inside a call has a live
\* handle, and while it waits the one entry of its category is its own.
THEOREM TypeCorrect == Spec => []TypeOK
  BY Invariance, IInvTypeOK, PTL

\* However many callers and requests there are, and however late answers
\* come, no answer is pushed to a freed handle while the connection holds.
THEOREM NoFreedHandle == Spec => []NoFreedHandleWhileUp
  <1>1. IInv => NoFreedHandleWhileUp
    BY Zenon DEF IInv
  <1>2. QED
    BY Invariance, <1>1, PTL

\* A request takes another one's answer only if that is an older one of its
\* category, and a request that old or older was given up.
THEOREM OnlyLateAnswersShift == Spec => []WrongAnswerOnlyAfterTimeout
  <1>1. IInv => WrongAnswerOnlyAfterTimeout
    BY DEF IInv
  <1>2. QED
    BY Invariance, <1>1, PTL
=============================================================================
