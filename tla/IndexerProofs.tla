---------------------------- MODULE IndexerProofs ----------------------------
(***************************************************************************)
(* That the search index matches the store once the worker is idle, for    *)
(* any number of collections, requests and texts and any batch size, and   *)
(* however many saves, moves, deletions, failures, restarts and changes of *)
(* account there are.                                                      *)
(*                                                                         *)
(* IndexMatchesStore speaks of the idle worker.  What makes it inductive   *)
(* is what holds while collections are queued: a collection that is not    *)
(* queued is indexed already, but for the one request that is being moved  *)
(* out of it; and a collection of an account that was left, still queued   *)
(* with what it once held, comes before all that was stored since.         *)
(***************************************************************************)
EXTENDS SearchIndexer, FiniteSetTheorems, TLAPS

Queued == DOMAIN pending

IndexWellTyped ==
  /\ store \in [Collections -> Payload \cup {Unissued, Gone, Wiped}]
  /\ index \in [Requests -> Row \cup {NoRow}]
  /\ vectors \in [Requests -> Descriptions \cup {NoVector}]
  /\ Queued \subseteq Collections /\ pending \in [Queued -> Payload \cup {Gone}]
  /\ queue \in Seq(Collections) /\ state \in {"idle", "indexing"}
  /\ job \subseteq Requests /\ moving \in [request : Requests, from : Collections] \cup {NoMove}
  /\ restarts \in Nat /\ switches \in Nat

\* What is queued is in the queue, at what is stored; the collections of an
\* account that was left come first and are stored no more.
QueueIsCurrent ==
  /\ Queued \subseteq Range(queue)
  /\ \A c \in Queued : store[c] # Wiped => pending[c] = store[c]
  /\ \A i \in DOMAIN queue : store[queue[i]] # Unissued
  /\ \A i, j \in DOMAIN queue : i < j /\ store[queue[j]] = Wiped => store[queue[i]] = Wiped
  /\ (\E c \in Queued : store[c] = Wiped) => Stored \subseteq Queued
  /\ Idle => queue = <<>> /\ Queued = {} /\ job = {}

\* A request is in one collection, or in two while it is moved out of one that
\* is not queued.
OneOwner ==
  /\ \A a, b \in Collections : \A r \in Requests :
       Holds(a, r) /\ Holds(b, r) /\ a # b => moving # NoMove /\ r = moving.request /\ moving.from \in {a, b}
  /\ moving # NoMove => Holds(moving.from, moving.request) /\ moving.from \notin Queued

\* What is embedded is a row with a text.
JobHasRows == \A r \in job : index[r] # NoRow /\ index[r].text # NoText

\* What is not queued is indexed, but for the request that is being moved out of it.
IndexedUnlessQueued ==
  \A c \in Stored \ Queued : \A r \in DOMAIN store[c] :
    \/ index[r] # NoRow /\ index[r].owner = c /\ index[r].label = store[c][r].label /\ index[r].text = store[c][r].text
    \/ moving # NoMove /\ moving.from = c /\ moving.request = r

\* and what is indexed is stored, or its collection queued.
RowsAreStored ==
  restarts = 0 /\ switches = 0 =>
    /\ \A c \in Collections : store[c] # Wiped
    /\ \A r \in Requests : index[r] # NoRow => index[r].owner \in Queued \/ Holds(index[r].owner, r)

IndexInv ==
  /\ IndexWellTyped /\ QueueIsCurrent /\ OneOwner /\ JobHasRows /\ IndexedUnlessQueued
  /\ RowsAreStored /\ VectorsMatchRows

-----------------------------------------------------------------------------
(* Payloads, functions, queues.                                            *)

LEMMA PayloadIs ==
  ASSUME NEW p \in Payload
  PROVE  DOMAIN p \subseteq Requests /\ \A r \in DOMAIN p : p[r] \in Entry
BY DEF Payload

LEMMA PayloadMade ==
  ASSUME NEW S \in SUBSET Requests, NEW p \in [S -> Entry]
  PROVE  p \in Payload
BY DEF Payload

LEMMA PayloadWith ==
  ASSUME NEW p \in Payload, NEW r \in Requests, NEW e \in Entry
  PROVE  With(p, r, e) \in Payload /\ DOMAIN With(p, r, e) = DOMAIN p \cup {r}
<1>1. With(p, r, e) \in [DOMAIN p \cup {r} -> Entry]
  BY PayloadIs DEF With
<1> QED
  BY <1>1, PayloadIs, PayloadMade

LEMMA PayloadRestricted ==
  ASSUME NEW p \in Payload, NEW S \in SUBSET (DOMAIN p)
  PROVE  Restrict(p, S) \in Payload /\ DOMAIN Restrict(p, S) = S
<1>1. Restrict(p, S) \in [S -> Entry]
  BY PayloadIs DEF Restrict
<1> QED
  BY <1>1, PayloadIs, PayloadMade

\* A collection is stored when its content is a payload.
LEMMA StoredIs ==
  ASSUME IndexWellTyped
  PROVE  /\ \A c \in Collections : c \in Stored <=> store[c] \in Payload
         /\ Stored \subseteq Collections
         /\ \A c \in Collections : c \notin Stored <=> store[c] \in {Unissued, Gone, Wiped}
BY AbsenceAssumption DEF IndexWellTyped, Stored

LEMMA RangeOfAppend ==
  ASSUME NEW q \in Seq(Collections), NEW c \in Collections
  PROVE  /\ Append(q, c) \in Seq(Collections) /\ Range(q) \cup {c} \subseteq Range(Append(q, c))
         /\ DOMAIN q = 1 .. Len(q) /\ Len(q) \in Nat
         /\ DOMAIN Append(q, c) = 1 .. (Len(q) + 1) /\ Append(q, c)[Len(q) + 1] = c
         /\ \A i \in DOMAIN q : Append(q, c)[i] = q[i]
BY DEF Range

LEMMA RangeOfTail ==
  ASSUME NEW q \in Seq(Collections), q # <<>>
  PROVE  /\ Tail(q) \in Seq(Collections) /\ Head(q) \in Collections /\ Head(q) = q[1] /\ 1 \in DOMAIN q
         /\ Range(q) \subseteq Range(Tail(q)) \cup {Head(q)}
         /\ DOMAIN Tail(q) = 1 .. (Len(q) - 1) /\ DOMAIN q = 1 .. Len(q) /\ Len(q) \in Nat
         /\ \A i \in DOMAIN Tail(q) : Tail(q)[i] = q[i + 1] /\ i + 1 \in DOMAIN q
<1>1. /\ Tail(q) \in Seq(Collections) /\ Head(q) \in Collections /\ Head(q) = q[1] /\ 1 \in DOMAIN q
      /\ DOMAIN Tail(q) = 1 .. (Len(q) - 1) /\ DOMAIN q = 1 .. Len(q) /\ Len(q) \in Nat
      /\ \A i \in DOMAIN Tail(q) : Tail(q)[i] = q[i + 1] /\ i + 1 \in DOMAIN q
  OBVIOUS
<1>2. ASSUME NEW i \in DOMAIN q PROVE q[i] \in Range(Tail(q)) \cup {Head(q)}
  <2>1. CASE i = 1
    BY <1>1, <2>1
  <2>2. CASE i # 1
    <3>1. i - 1 \in DOMAIN Tail(q) /\ Tail(q)[i - 1] = q[i]
      BY <1>1, <2>2
    <3> QED
      BY <3>1 DEF Range
  <2> QED
    BY <2>1, <2>2
<1> QED
  BY <1>1, <1>2 DEF Range

\* The queue a start makes has every stored collection in it.
LEMMA RangeOfSetToSeqs ==
  ASSUME NEW S \in SUBSET Collections, NEW q \in SetToSeqs(S)
  PROVE  q \in Seq(Collections) /\ Range(q) = S
<1> DEFINE n == Cardinality(S)
<1>1. IsFiniteSet(S)
  BY FS_Subset, IndexerAssumption
<1>2. n \in Nat
  BY <1>1, FS_CardinalityType
<1>3. q \in [1..n -> S] /\ \A i, j \in 1..n : i # j => q[i] # q[j]
  BY DEF SetToSeqs
<1>4. q \in Injection(1..n, S)
  BY <1>3 DEF Injection, IsInjective
<1>5. IsFiniteSet(1..n) /\ Cardinality(1..n) = n
  BY <1>2, FS_Interval
<1>6. q \in Surjection(1..n, S)
  BY <1>1, <1>4, <1>5, FS_Injection
<1> HIDE DEF n
<1>7. Range(q) = S
  BY <1>3, <1>6 DEF Surjection, Range
<1>8. q \in Seq(Collections)
  BY <1>2, <1>3
<1> QED
  BY <1>7, <1>8

-----------------------------------------------------------------------------
LEMMA IndexStart == Init => IndexInv
<1> SUFFICES ASSUME Init PROVE IndexInv
  OBVIOUS
<1>1. Queued = {} /\ Stored = {} /\ queue = <<>> /\ job = {} /\ moving = NoMove /\ state = "idle"
  BY DEF Init, Queued, Stored
<1>2. \A c \in Collections, r \in Requests : ~Holds(c, r)
  BY <1>1 DEF Holds
<1>3. \A r \in Requests : index[r] = NoRow /\ vectors[r] = NoVector
  BY DEF Init
<1>4. IndexWellTyped
  BY <1>1 DEF Init, IndexWellTyped
<1>5. QueueIsCurrent
  BY <1>1 DEF QueueIsCurrent
<1> QED
  BY <1>1, <1>2, <1>3, <1>4, <1>5, AbsenceAssumption
  DEF IndexInv, OneOwner, JobHasRows, IndexedUnlessQueued, RowsAreStored, VectorsMatchRows, Init

\* Who is stored, and holds what, after one collection was stored.
LEMMA StoreAsHolds ==
  ASSUME IndexWellTyped, NEW c \in Collections, NEW content \in Payload \cup {Gone}, StoreAs(c, content)
  PROVE  /\ \A d \in Collections \ {c} : store'[d] = store[d] /\ (d \in Stored' <=> d \in Stored)
         /\ store'[c] = content /\ (c \in Stored' <=> content # Gone)
         /\ \A d \in Collections \ {c} : \A r \in Requests : Holds(d, r)' <=> Holds(d, r)
         /\ \A r \in Requests : Holds(c, r)' <=> content # Gone /\ r \in DOMAIN content
<1>1. store' = [store EXCEPT ![c] = content] /\ store \in [Collections -> Payload \cup {Unissued, Gone, Wiped}]
  BY DEF StoreAs, IndexWellTyped
<1>2. /\ \A d \in Collections \ {c} : store'[d] = store[d]
      /\ store'[c] = content
  BY <1>1
<1>3. content # Unissued /\ content # Wiped /\ (content = Gone <=> content \notin Payload)
  BY AbsenceAssumption
<1>4. /\ \A d \in Collections \ {c} : d \in Stored' <=> d \in Stored
      /\ c \in Stored' <=> content # Gone
  BY <1>2, <1>3 DEF Stored
<1> QED
  BY <1>2, <1>4 DEF Holds

\* Whatever a route stores, it queues.
LEMMA StoreAsKeeps ==
  ASSUME IndexInv, NEW c \in Collections, store[c] # Wiped,
         NEW content \in Payload \cup {Gone}, StoreAs(c, content),
         moving' \in [request : Requests, from : Collections] \cup {NoMove},
         moving' = moving \/ moving = NoMove \/ (moving.from = c /\ moving' = NoMove),
         OneOwner'
  PROVE  IndexInv'
<1>1. /\ store' = [store EXCEPT ![c] = content] /\ pending' = With(pending, c, content)
      /\ queue' = Append(queue, c) /\ state' = "indexing"
      /\ UNCHANGED <<index, vectors, job, restarts, switches>>
  BY DEF StoreAs, Enqueue
<1>2. /\ Queued' = Queued \cup {c} /\ pending'[c] = content
      /\ \A d \in Queued : d # c => pending'[d] = pending[d]
      /\ pending' \in [Queued' -> Payload \cup {Gone}]
  <2>1. pending \in [Queued -> Payload \cup {Gone}]
    BY DEF IndexInv, IndexWellTyped
  <2> QED
    BY <1>1, <2>1 DEF Queued, With
<1>3. /\ queue' \in Seq(Collections) /\ Range(queue) \cup {c} \subseteq Range(queue')
      /\ DOMAIN queue = 1 .. Len(queue) /\ Len(queue) \in Nat
      /\ DOMAIN queue' = 1 .. (Len(queue) + 1) /\ queue'[Len(queue) + 1] = c
      /\ \A i \in DOMAIN queue : queue'[i] = queue[i]
  BY <1>1, RangeOfAppend DEF IndexInv, IndexWellTyped
<1>4. /\ \A d \in Collections \ {c} : store'[d] = store[d] /\ (d \in Stored' <=> d \in Stored)
      /\ store'[c] = content /\ (c \in Stored' <=> content # Gone)
      /\ \A d \in Collections \ {c} : \A r \in Requests : Holds(d, r)' <=> Holds(d, r)
  BY StoreAsHolds DEF IndexInv
<1>5. content # Unissued /\ content # Wiped
  BY AbsenceAssumption
<1>6. IndexWellTyped'
  BY <1>1, <1>2, <1>3 DEF IndexInv, IndexWellTyped
<1>7. QueueIsCurrent'
  <2>1. Queued' \subseteq Range(queue')
    BY <1>2, <1>3 DEF IndexInv, QueueIsCurrent
  <2>2. \A d \in Queued' : store'[d] # Wiped => pending'[d] = store'[d]
    BY <1>2, <1>4 DEF IndexInv, QueueIsCurrent, IndexWellTyped
  <2>3. \A i \in DOMAIN queue : queue[i] \in Collections
    BY DEF IndexInv, IndexWellTyped
  <2>4. \A i \in DOMAIN queue' : store'[queue'[i]] # Unissued
    BY <1>3, <1>4, <1>5, <2>3 DEF IndexInv, QueueIsCurrent
  <2>5. ASSUME NEW i \in DOMAIN queue', NEW j \in DOMAIN queue', i < j, store'[queue'[j]] = Wiped
        PROVE  store'[queue'[i]] = Wiped
    <3>1. j # Len(queue) + 1
      BY <1>3, <1>4, <1>5, <2>5
    <3>2. i \in DOMAIN queue /\ j \in DOMAIN queue
      BY <1>3, <2>5, <3>1
    <3>3. queue[j] # c /\ store[queue[j]] = Wiped
      BY <1>3, <1>4, <1>5, <2>3, <2>5, <3>2
    <3>4. store[queue[i]] = Wiped
      BY <2>5, <3>2, <3>3 DEF IndexInv, QueueIsCurrent
    <3> QED
      BY <1>3, <1>4, <2>3, <3>2, <3>4
  <2>6. (\E d \in Queued' : store'[d] = Wiped) => Stored' \subseteq Queued'
    <3>1. Queued \subseteq Collections /\ Stored' \subseteq Collections
      BY DEF IndexInv, IndexWellTyped, Stored
    <3>2. (\E d \in Queued' : store'[d] = Wiped) => \E d \in Queued : store[d] = Wiped
      BY <1>2, <1>4, <1>5, <3>1
    <3> QED
      BY <1>2, <1>4, <3>1, <3>2 DEF IndexInv, QueueIsCurrent
  <2>7. ~Idle'
    BY <1>1 DEF Idle
  <2> QED
    BY <2>1, <2>2, <2>4, <2>5, <2>6, <2>7 DEF QueueIsCurrent
<1>8. JobHasRows' /\ VectorsMatchRows'
  BY <1>1 DEF IndexInv, JobHasRows, VectorsMatchRows
<1>9. IndexedUnlessQueued'
  <2> SUFFICES ASSUME NEW d \in Stored' \ Queued', NEW r \in DOMAIN store'[d]
               PROVE \/ index'[r] # NoRow /\ index'[r].owner = d /\ index'[r].label = store'[d][r].label
                        /\ index'[r].text = store'[d][r].text
                     \/ moving' # NoMove /\ moving'.from = d /\ moving'.request = r
    BY DEF IndexedUnlessQueued
  <2>1. d \in Collections /\ d # c /\ d \in Stored \ Queued /\ store'[d] = store[d]
    BY <1>2, <1>4 DEF Stored
  <2> QED
    BY <1>1, <2>1 DEF IndexInv, IndexedUnlessQueued
<1>10. RowsAreStored'
  <2> SUFFICES ASSUME restarts = 0, switches = 0, NEW r \in Requests, index[r] # NoRow
               PROVE  index[r].owner \in Queued' \/ Holds(index[r].owner, r)'
    BY <1>1, <1>4, <1>5 DEF IndexInv, RowsAreStored
  <2>1. index[r].owner \in Queued \/ Holds(index[r].owner, r)
    BY DEF IndexInv, RowsAreStored
  <2>2. index[r].owner \in Collections
    BY DEF IndexInv, IndexWellTyped, Row
  <2> QED
    BY <1>1, <1>2, <1>4, <2>1, <2>2
<1> QED
  BY <1>6, <1>7, <1>8, <1>9, <1>10 DEF IndexInv

LEMMA SaveKeeps ==
  ASSUME IndexInv, NEW c \in Collections, Save(c)
  PROVE  IndexInv'
<1>1. PICK p \in Payload : /\ \A r \in DOMAIN p : \A o \in Collections \ {c} : ~Holds(o, r)
                           /\ StoreAs(c, p)
  BY DEF Save
<1>2. moving' = moving /\ store[c] # Wiped /\ (moving # NoMove => ~Holds(c, moving.request))
  BY DEF Save
<1>3. /\ \A d \in Collections \ {c} : \A r \in Requests : Holds(d, r)' <=> Holds(d, r)
      /\ \A r \in Requests : Holds(c, r)' => r \in DOMAIN p
  BY <1>1, StoreAsHolds DEF IndexInv
<1>4. moving # NoMove => moving.from \in Collections \ {c} /\ moving.request \in Requests
  BY <1>2 DEF IndexInv, IndexWellTyped, OneOwner
<1>5. Queued' = Queued \cup {c}
  BY <1>1 DEF StoreAs, Enqueue, Queued, With
<1>6. ASSUME NEW a \in Collections, NEW b \in Collections, NEW r \in Requests, Holds(a, r)', Holds(b, r)', a # b
      PROVE  moving # NoMove /\ r = moving.request /\ moving.from \in {a, b}
  <2>1. a # c /\ b # c
    BY <1>1, <1>3, <1>6
  <2> QED
    BY <1>3, <1>6, <2>1 DEF IndexInv, OneOwner
<1>7. OneOwner'
  BY <1>2, <1>3, <1>4, <1>5, <1>6 DEF IndexInv, OneOwner
<1> QED
  BY <1>1, <1>2, <1>7, StoreAsKeeps DEF IndexInv, IndexWellTyped

LEMMA DeleteKeeps ==
  ASSUME IndexInv, NEW c \in Collections, Delete(c)
  PROVE  IndexInv'
<1>1. c \in Stored /\ moving = NoMove /\ moving' = moving /\ StoreAs(c, Gone)
  BY DEF Delete
<1>2. /\ \A d \in Collections \ {c} : \A r \in Requests : Holds(d, r)' <=> Holds(d, r)
      /\ \A r \in Requests : ~Holds(c, r)'
  BY <1>1, StoreAsHolds DEF IndexInv
<1>3. OneOwner'
  BY <1>1, <1>2 DEF IndexInv, OneOwner
<1> QED
  BY <1>1, <1>3, StoreAsKeeps DEF IndexInv, IndexWellTyped, Stored

LEMMA MoveInKeeps ==
  ASSUME ~QueuedMoves, IndexInv, NEW c \in Collections, MoveIn(c)
  PROVE  IndexInv'
<1>1. moving = NoMove /\ c \in Stored
  BY DEF MoveIn
<1>2. PICK o \in Stored \ {c} : \E r \in DOMAIN store[o] :
        /\ QueuedMoves \/ o \notin DOMAIN pending
        /\ StoreAs(c, With(store[c], r, store[o][r]))
        /\ moving' = [request |-> r, from |-> o]
  BY DEF MoveIn
<1>3. PICK r \in DOMAIN store[o] :
        /\ o \notin Queued /\ StoreAs(c, With(store[c], r, store[o][r]))
        /\ moving' = [request |-> r, from |-> o]
  BY <1>2 DEF Queued
<1>4. PICK content : content = With(store[c], r, store[o][r])
  OBVIOUS
<1>5. /\ o \in Collections /\ store[c] \in Payload /\ store[o] \in Payload /\ store[c] # Wiped
  BY <1>1, StoredIs, AbsenceAssumption DEF IndexInv, Stored
<1>6. r \in Requests /\ content \in Payload /\ DOMAIN content = DOMAIN store[c] \cup {r}
  BY <1>4, <1>5, PayloadIs, PayloadWith
<1>7. StoreAs(c, content)
  BY <1>3, <1>4
<1>8. moving' # NoMove /\ moving'.request = r /\ moving'.from = o
      /\ moving' \in [request : Requests, from : Collections]
  BY <1>3, <1>5, <1>6, AbsenceAssumption
<1>9. /\ \A d \in Collections \ {c} : \A q \in Requests : Holds(d, q)' <=> Holds(d, q)
      /\ \A q \in Requests : Holds(c, q)' => Holds(c, q) \/ q = r
  BY <1>1, <1>6, <1>7, StoreAsHolds DEF IndexInv, Holds
<1>10. Holds(o, r) /\ \A d \in Collections : Holds(d, r) => d = o
  BY <1>1, <1>5, <1>6 DEF IndexInv, OneOwner, Holds
<1>11. Queued' = Queued \cup {c}
  BY <1>7 DEF StoreAs, Enqueue, Queued, With
<1>12. ASSUME NEW a \in Collections, NEW b \in Collections, NEW q \in Requests, Holds(a, q)', Holds(b, q)', a # b
       PROVE  q = r /\ o \in {a, b}
  <2>1. q = r
    BY <1>1, <1>9, <1>12 DEF IndexInv, OneOwner
  <2>2. \A d \in {a, b} : d # c => d = o
    BY <1>9, <1>10, <1>12, <2>1
  <2> QED
    BY <1>12, <2>1, <2>2
<1>13. OneOwner'
  BY <1>3, <1>5, <1>6, <1>8, <1>9, <1>10, <1>11, <1>12 DEF OneOwner
<1> QED
  BY <1>1, <1>5, <1>6, <1>7, <1>8, <1>13, StoreAsKeeps

LEMMA MoveOutKeeps ==
  ASSUME IndexInv, NEW c \in Collections, MoveOut(c)
  PROVE  IndexInv'
<1>1. moving # NoMove /\ moving.from = c /\ moving' = NoMove
  BY DEF MoveOut
<1>2. PICK content : content = Restrict(store[c], DOMAIN store[c] \ {moving.request})
  OBVIOUS
<1>3. StoreAs(c, content)
  BY <1>2 DEF MoveOut
<1>4. c \in Stored
  BY <1>1 DEF IndexInv, OneOwner, Holds
<1>5. store[c] \in Payload /\ store[c] # Wiped
  BY <1>4, StoredIs DEF IndexInv, Stored
<1>6. content \in Payload /\ DOMAIN content = DOMAIN store[c] \ {moving.request}
  BY <1>2, <1>5, PayloadRestricted
<1>7. /\ \A d \in Collections \ {c} : \A q \in Requests : Holds(d, q)' <=> Holds(d, q)
      /\ \A q \in Requests : Holds(c, q)' => Holds(c, q) /\ q # moving.request
  BY <1>3, <1>4, <1>6, StoreAsHolds DEF IndexInv, Holds
<1>8. OneOwner'
  BY <1>1, <1>7 DEF IndexInv, OneOwner
<1> QED
  BY <1>1, <1>3, <1>5, <1>6, <1>8, StoreAsKeeps

\* What was stored is gone, what is queued of it comes first.
LEMMA SwitchAccountKeeps ==
  ASSUME IndexInv, SwitchAccount
  PROVE  IndexInv'
<1>1. /\ store' = [c \in Collections |-> IF store[c] = Unissued THEN Unissued ELSE Wiped]
      /\ switches' = switches + 1 /\ moving = NoMove
      /\ UNCHANGED <<index, vectors, pending, queue, state, job, moving, restarts>>
  BY DEF SwitchAccount
<1>2. Stored' = {} /\ \A c, r : ~Holds(c, r)'
  BY <1>1 DEF Stored, Holds
<1>3. Queued' = Queued /\ IndexWellTyped'
  BY <1>1 DEF IndexInv, IndexWellTyped, Queued
<1>4. QueueIsCurrent'
  <2>1. \A i \in DOMAIN queue : queue[i] \in Collections /\ store'[queue[i]] = Wiped
    BY <1>1 DEF IndexInv, IndexWellTyped, QueueIsCurrent
  <2>2. Queued \subseteq Range(queue)
    BY DEF IndexInv, QueueIsCurrent
  <2>3. \A c \in Queued : store'[c] = Wiped
    BY <2>1, <2>2 DEF Range
  <2> QED
    BY <1>1, <1>2, <1>3, <2>1, <2>3, AbsenceAssumption DEF IndexInv, QueueIsCurrent, Idle
<1>5. RowsAreStored'
  BY <1>1 DEF IndexInv, IndexWellTyped, RowsAreStored
<1> QED
  BY <1>1, <1>2, <1>3, <1>4, <1>5 DEF IndexInv, OneOwner, JobHasRows, IndexedUnlessQueued, VectorsMatchRows
\* What was queued last is in the queue; whoever is at its head is not queued
\* again, and nobody who left is behind somebody who did not.
LEMMA TakingKeepsQueue ==
  ASSUME IndexWellTyped, QueueIsCurrent, queue # <<>>, queue' = Tail(queue), UNCHANGED store,
         Queued' = Queued \ {Head(queue)}, \A c \in Queued' : pending'[c] = pending[c],
         Idle' => queue' = <<>> /\ Queued' = {} /\ job' = {}
  PROVE  QueueIsCurrent' /\ queue' \in Seq(Collections)
<1>1. /\ queue' \in Seq(Collections) /\ Head(queue) = queue[1] /\ 1 \in DOMAIN queue
      /\ Range(queue) \subseteq Range(queue') \cup {Head(queue)}
      /\ DOMAIN queue' = 1 .. (Len(queue) - 1) /\ DOMAIN queue = 1 .. Len(queue) /\ Len(queue) \in Nat
      /\ \A i \in DOMAIN queue' : queue'[i] = queue[i + 1] /\ i + 1 \in DOMAIN queue
  BY RangeOfTail DEF IndexWellTyped
<1>2. Queued' \subseteq Range(queue')
  BY <1>1 DEF QueueIsCurrent
<1>3. \A i \in DOMAIN queue' : store'[queue'[i]] # Unissued
  BY <1>1 DEF QueueIsCurrent
<1>4. ASSUME NEW i \in DOMAIN queue', NEW j \in DOMAIN queue', i < j, store'[queue'[j]] = Wiped
      PROVE  store'[queue'[i]] = Wiped
  <2>1. i + 1 \in DOMAIN queue /\ j + 1 \in DOMAIN queue /\ i + 1 < j + 1
    BY <1>1, <1>4
  <2> QED
    BY <1>1, <1>4, <2>1 DEF QueueIsCurrent
<1>5. ASSUME NEW d \in Queued', store'[d] = Wiped PROVE Stored' \subseteq Queued'
  <2>1. Stored \subseteq Queued /\ Stored' = Stored
    BY <1>5 DEF QueueIsCurrent, Stored
  <2>2. PICK j \in DOMAIN queue : queue[j] = d
    BY <1>5 DEF QueueIsCurrent, Range
  <2>3. j # 1 /\ 1 < j
    BY <1>1, <1>5, <2>2
  <2>4. store[Head(queue)] = Wiped
    BY <1>1, <1>5, <2>2, <2>3 DEF QueueIsCurrent
  <2> QED
    BY <2>1, <2>4 DEF Stored
<1> QED
  BY <1>1, <1>2, <1>3, <1>4, <1>5 DEF QueueIsCurrent

\* Queued in one step, taken in another: the state says so.
LEMMA SettlesWhenDone ==
  ASSUME IndexInv, queue # <<>>,
         \/ Finish(pending', queue')
         \/ job' # {} /\ UNCHANGED state
  PROVE  /\ state' \in {"idle", "indexing"}
         /\ Idle' => queue' = <<>> /\ Queued' = {} /\ job' = {}
BY DEF IndexInv, IndexWellTyped, QueueIsCurrent, Idle, Finish, Settled, Queued

\* The rows of the collection taken become what it is; those of others are
\* taken over only if they are in it.
LEMMA TakeKeeps ==
  ASSUME IndexInv, Take
  PROVE  IndexInv'
<1>1. PICK c : c = Head(queue)
  OBVIOUS
<1>2. PICK content : content = pending[c]
  OBVIOUS
<1>3. /\ job = {} /\ queue # <<>> /\ c \in Queued /\ queue' = Tail(queue)
      /\ pending' = Restrict(pending, DOMAIN pending \ {c})
      /\ index' = [r \in Requests |->
              IF r \in Dropped(c, content) THEN NoRow
              ELSE IF content = Gone \/ r \notin DOMAIN content THEN index[r]
              ELSE IF Unchanged(r, c, content[r]) THEN index[r]
              ELSE Upserted(r, c, content[r])]
      /\ vectors' = RemainingVectors(Dropped(c, content))
      /\ IF ToEmbed(c, content) = {} THEN Finish(pending', queue')
                         ELSE job' = ToEmbed(c, content) /\ UNCHANGED state
      /\ UNCHANGED <<store, moving, restarts, switches>>
  BY <1>1, <1>2 DEF Take, bounds, Queued
<1>4. /\ c \in Collections /\ content \in Payload \cup {Gone}
      /\ content # Gone => content \in Payload /\ DOMAIN content \subseteq Requests
                           /\ \A r \in DOMAIN content : content[r] \in Entry
  BY <1>2, <1>3, PayloadIs DEF IndexInv, IndexWellTyped
<1>5. /\ Queued' = Queued \ {c} /\ \A d \in Queued' : pending'[d] = pending[d]
      /\ pending' \in [Queued' -> Payload \cup {Gone}]
  BY <1>3 DEF Queued, Restrict, IndexInv, IndexWellTyped
<1>6. job' = ToEmbed(c, content)
  BY <1>3 DEF Finish
<1>7. /\ state' \in {"idle", "indexing"}
      /\ Idle' => queue' = <<>> /\ Queued' = {} /\ job' = {}
  BY <1>3, SettlesWhenDone
<1>8. QueueIsCurrent' /\ queue' \in Seq(Collections)
  BY <1>1, <1>3, <1>5, <1>7, TakingKeepsQueue DEF IndexInv
\* What becomes of a row.
<1>9. ASSUME NEW r \in Requests
      PROVE  \/ r \in Dropped(c, content) /\ index'[r] = NoRow
             \/ /\ r \notin Dropped(c, content) /\ (content = Gone \/ r \notin DOMAIN content)
                /\ index'[r] = index[r]
             \/ /\ content # Gone /\ r \in DOMAIN content /\ index'[r] \in Row
                /\ index'[r].owner = c /\ index'[r].label = content[r].label /\ index'[r].text = content[r].text
                /\ index'[r] = index[r] \/ index'[r].status # "ready"
  <2>1. CASE r \in Dropped(c, content)
    BY <1>3, <2>1
  <2>2. CASE r \notin Dropped(c, content) /\ (content = Gone \/ r \notin DOMAIN content)
    BY <1>3, <2>2
  <2>3. CASE r \notin Dropped(c, content) /\ content # Gone /\ r \in DOMAIN content
    <3>1. PICK e \in Entry : e = content[r]
      BY <1>4, <2>3
    <3>2. e.label \in Labels /\ e.text \in Descriptions \cup {NoText}
      BY DEF Entry
    <3>3. CASE Unchanged(r, c, e)
      <4>1. index'[r] = index[r] /\ index[r] \in Row
        BY <1>3, <2>3, <3>1, <3>3 DEF Unchanged, SameText, Kept, IndexInv, IndexWellTyped
      <4> QED
        BY <2>3, <3>1, <3>3, <4>1 DEF Unchanged, SameText, Kept
    <3>4. CASE ~Unchanged(r, c, e)
      <4>1. index'[r] = Upserted(r, c, e)
        BY <1>3, <2>3, <3>1, <3>4
      <4>2. /\ Upserted(r, c, e) \in Row /\ Upserted(r, c, e).owner = c /\ Upserted(r, c, e).label = e.label
            /\ Upserted(r, c, e).text = e.text /\ Upserted(r, c, e).status # "ready"
        BY <1>4, <3>2 DEF Upserted, Row, Status
      <4> QED
        BY <2>3, <3>1, <4>1, <4>2
    <3> QED
      BY <3>3, <3>4
  <2> QED
    BY <2>1, <2>2, <2>3
<1>10. \A r \in Requests : r \in Dropped(c, content) <=>
         index[r] # NoRow /\ index[r].owner = c /\ (content = Gone \/ r \notin DOMAIN content)
  BY DEF Dropped, Kept
<1>11. \A r \in Requests : vectors'[r] = IF r \in Dropped(c, content) THEN NoVector ELSE vectors[r]
  BY <1>3 DEF RemainingVectors
<1>12. IndexWellTyped'
  <2>1. index' \in [Requests -> Row \cup {NoRow}]
    <3>1. \A r \in Requests : index'[r] \in Row \cup {NoRow}
      BY <1>9 DEF IndexInv, IndexWellTyped
    <3>2. index' = [r \in Requests |-> index'[r]]
      BY <1>3
    <3> QED
      BY <3>1, <3>2
  <2>2. vectors' \in [Requests -> Descriptions \cup {NoVector}]
    BY <1>3 DEF RemainingVectors, IndexInv, IndexWellTyped
  <2>3. job' \subseteq Requests
    BY <1>4, <1>6 DEF ToEmbed
  <2> QED
    BY <1>3, <1>5, <1>7, <1>8, <2>1, <2>2, <2>3 DEF IndexInv, IndexWellTyped
<1>13. OneOwner'
  BY <1>3, <1>5 DEF IndexInv, OneOwner, Holds, Stored
<1>14. JobHasRows'
  BY <1>4, <1>6, <1>9, <1>10, AbsenceAssumption DEF ToEmbed, JobHasRows
<1>15. VectorsMatchRows'
  <2> SUFFICES ASSUME NEW r \in Requests
               PROVE  /\ vectors'[r] # NoVector => index'[r] # NoRow
                      /\ index'[r] # NoRow => (index'[r].status = "ready" => vectors'[r] = index'[r].text)
    BY DEF VectorsMatchRows
  <2>1. /\ vectors[r] # NoVector => index[r] # NoRow
        /\ index[r] # NoRow => (index[r].status = "ready" => vectors[r] = index[r].text)
    BY DEF IndexInv, VectorsMatchRows
  <2> QED
    BY <1>9, <1>10, <1>11, <2>1, AbsenceAssumption
<1>16. IndexedUnlessQueued'
  <2> SUFFICES ASSUME NEW d \in Stored \ Queued', NEW r \in DOMAIN store[d],
                      ~(moving # NoMove /\ moving.from = d /\ moving.request = r)
               PROVE  /\ index'[r] # NoRow /\ index'[r].owner = d /\ index'[r].label = store[d][r].label
                      /\ index'[r].text = store[d][r].text
    BY <1>3 DEF IndexedUnlessQueued, Stored
  <2>1. d \in Collections /\ r \in Requests /\ Holds(d, r)
    BY StoredIs, PayloadIs DEF IndexInv, Holds
  <2>2. CASE d = c
    <3>1. content = store[c] /\ content # Gone
      BY <1>2, <1>3, <2>2 DEF IndexInv, QueueIsCurrent, Stored
    <3> QED
      BY <1>9, <1>10, <2>1, <2>2, <3>1, AbsenceAssumption
  <2>3. CASE d # c
    <3>1. d \in Stored \ Queued
      BY <1>5, <2>3
    <3>2. /\ index[r] # NoRow /\ index[r].owner = d /\ index[r].label = store[d][r].label
          /\ index[r].text = store[d][r].text
      BY <3>1 DEF IndexInv, IndexedUnlessQueued
    <3>3. store[c] # Wiped
      BY <1>3, <3>1 DEF IndexInv, QueueIsCurrent
    <3>4. content = Gone \/ r \notin DOMAIN content
      <4> SUFFICES ASSUME content # Gone, r \in DOMAIN content PROVE FALSE
        OBVIOUS
      <4>1. content = store[c]
        BY <1>2, <1>3, <3>3 DEF IndexInv, QueueIsCurrent
      <4>2. c \in Stored
        BY <1>4, <4>1, StoredIs DEF IndexInv
      <4>3. Holds(c, r)
        BY <4>1, <4>2 DEF Holds
      <4>4. moving # NoMove /\ r = moving.request /\ moving.from \in {c, d} /\ moving.from \notin Queued
        BY <1>4, <2>1, <2>3, <4>3 DEF IndexInv, OneOwner
      <4> QED
        BY <1>3, <4>4
    <3> QED
      BY <1>9, <1>10, <2>1, <2>3, <3>2, <3>4
  <2> QED
    BY <2>2, <2>3
<1>17. RowsAreStored'
  <2> SUFFICES ASSUME restarts = 0, switches = 0, NEW r \in Requests, index'[r] # NoRow
               PROVE  index'[r].owner \in Queued' \/ Holds(index'[r].owner, r)
    BY <1>3 DEF IndexInv, RowsAreStored, Holds, Stored
  <2>1. index[r] # NoRow => index[r].owner \in Queued \/ Holds(index[r].owner, r)
    BY DEF IndexInv, RowsAreStored
  <2>2. CASE index'[r] = index[r] /\ index[r].owner # c
    BY <1>5, <2>1, <2>2
  <2>3. CASE index'[r].owner = c
    <3>1. content # Gone /\ r \in DOMAIN content
      BY <1>9, <1>10, <2>3
    <3>2. content \in Payload
      BY <1>4, <3>1
    <3>3. store[c] # Wiped
      BY <1>4 DEF IndexInv, RowsAreStored
    <3>4. content = store[c] /\ c \in Stored
      BY <1>2, <1>3, <1>4, <3>2, <3>3, StoredIs DEF IndexInv, QueueIsCurrent
    <3> QED
      BY <2>3, <3>1, <3>4 DEF Holds
  <2> QED
    BY <1>9, <2>2, <2>3
<1> QED
  BY <1>8, <1>12, <1>13, <1>14, <1>15, <1>16, <1>17 DEF IndexInv

LEMMA TakeDuplicateKeeps ==
  ASSUME IndexInv, TakeDuplicate
  PROVE  IndexInv'
<1>1. /\ job = {} /\ queue # <<>> /\ Head(queue) \notin Queued /\ queue' = Tail(queue) /\ Finish(pending', queue')
      /\ UNCHANGED <<store, index, vectors, pending, moving, restarts, switches>>
  BY DEF TakeDuplicate, tables, bounds, Queued
<1>2. job' = {} /\ Queued' = Queued
  BY <1>1 DEF Finish, Queued
<1>3. /\ state' \in {"idle", "indexing"}
      /\ Idle' => queue' = <<>> /\ Queued' = {} /\ job' = {}
  BY <1>1, SettlesWhenDone
<1>4. QueueIsCurrent' /\ queue' \in Seq(Collections)
  BY <1>1, <1>2, <1>3, TakingKeepsQueue DEF IndexInv
<1>5. IndexWellTyped'
  BY <1>1, <1>2, <1>3, <1>4 DEF IndexInv, IndexWellTyped
<1> QED
  BY <1>1, <1>2, <1>4, <1>5 DEF IndexInv, OneOwner, Holds, Stored, JobHasRows, IndexedUnlessQueued,
     RowsAreStored, VectorsMatchRows

\* A batch changes only how its rows are marked.
LEMMA BatchKeeps ==
  ASSUME IndexInv, job # {}, NEW batch \in SUBSET job, NEW status \in {"ready", "error"},
         MarkRows(batch, status), AfterBatch(batch), UNCHANGED <<store, pending, queue, moving, restarts, switches>>,
         vectors' = IF status = "ready" THEN [r \in Requests |-> IF r \in batch THEN index[r].text ELSE vectors[r]]
                    ELSE vectors
  PROVE  IndexInv'
<1>1. \A r \in Requests :
        /\ index'[r] \in Row \cup {NoRow} /\ (index'[r] = NoRow <=> index[r] = NoRow)
        /\ index[r] # NoRow => /\ index'[r].owner = index[r].owner /\ index'[r].label = index[r].label
                               /\ index'[r].text = index[r].text
                               /\ index'[r].status = IF r \in batch THEN status ELSE index[r].status
  <2> TAKE r \in Requests
  <2>1. index[r] \in Row \cup {NoRow} /\ NoRow \notin Row
    BY AbsenceAssumption DEF IndexInv, IndexWellTyped
  <2>2. CASE r \in batch /\ index[r] # NoRow
    <3>1. index'[r] = [index[r] EXCEPT !.status = status] /\ index[r] \in Row
      BY <2>1, <2>2 DEF MarkRows
    <3> QED
      BY <2>1, <2>2, <3>1 DEF Row, Status
  <2>3. CASE ~(r \in batch /\ index[r] # NoRow)
    <3>1. index'[r] = index[r]
      BY <2>3 DEF MarkRows
    <3> QED
      BY <2>1, <2>3, <3>1
  <2> QED
    BY <2>2, <2>3
<1>2. job' \subseteq job
  BY DEF AfterBatch, Finish
<1>3. /\ state' \in {"idle", "indexing"}
      /\ Idle' => queue' = <<>> /\ Queued' = {} /\ job' = {}
  BY DEF AfterBatch, Finish, Settled, IndexInv, IndexWellTyped, QueueIsCurrent, Idle, Queued
<1>4. Queued' = Queued /\ QueueIsCurrent'
  BY <1>3 DEF IndexInv, QueueIsCurrent, Queued, Stored
<1>5. \A r \in batch : r \in Requests /\ index[r] # NoRow /\ index[r].text \in Descriptions
  BY DEF IndexInv, IndexWellTyped, JobHasRows, Row
<1>6. IndexWellTyped'
  <2>1. index' \in [Requests -> Row \cup {NoRow}]
    <3>1. index' = [r \in Requests |-> index'[r]]
      BY DEF MarkRows
    <3> QED
      BY <1>1, <3>1
  <2>2. vectors' \in [Requests -> Descriptions \cup {NoVector}]
    BY <1>5 DEF IndexInv, IndexWellTyped
  <2> QED
    BY <1>2, <1>3, <1>4, <2>1, <2>2 DEF IndexInv, IndexWellTyped
<1>7. JobHasRows'
  BY <1>1, <1>2 DEF IndexInv, IndexWellTyped, JobHasRows
<1>8. VectorsMatchRows'
  <2> SUFFICES ASSUME NEW r \in Requests
               PROVE  /\ vectors'[r] # NoVector => index'[r] # NoRow
                      /\ index'[r] # NoRow => (index'[r].status = "ready" => vectors'[r] = index'[r].text)
    BY DEF VectorsMatchRows
  <2>1. /\ vectors[r] # NoVector => index[r] # NoRow
        /\ index[r] # NoRow => (index[r].status = "ready" => vectors[r] = index[r].text)
    BY DEF IndexInv, VectorsMatchRows
  <2>2. vectors'[r] = IF status = "ready" /\ r \in batch THEN index[r].text ELSE vectors[r]
    OBVIOUS
  <2> QED
    BY <1>1, <1>5, <2>1, <2>2
<1>9. OneOwner'
  BY <1>4 DEF IndexInv, OneOwner, Holds, Stored
<1>10. IndexedUnlessQueued'
  <2>1. \A d \in Stored : \A r \in DOMAIN store[d] : r \in Requests
    BY StoredIs, PayloadIs DEF IndexInv
  <2> QED
    BY <1>1, <1>4, <2>1 DEF IndexInv, IndexedUnlessQueued, Stored
<1>11. RowsAreStored'
  BY <1>1, <1>4 DEF IndexInv, RowsAreStored, Holds, Stored
<1> QED
  BY <1>4, <1>6, <1>7, <1>8, <1>9, <1>10, <1>11 DEF IndexInv

\* After a start everything that is stored is queued.
LEMMA RestartKeeps ==
  ASSUME IndexInv, Restart
  PROVE  IndexInv'
<1>1. /\ restarts' = restarts + 1 /\ moving = NoMove /\ pending' = Restrict(store, Stored)
      /\ queue' \in SetToSeqs(Stored) /\ state' = (IF Stored = {} THEN "idle" ELSE "indexing") /\ job' = {}
      /\ UNCHANGED <<store, index, vectors, moving, switches>>
  BY DEF Restart, tables
<1>2. /\ Stored' = Stored /\ Queued' = Stored /\ Stored \subseteq Collections
      /\ \A c \in Stored : pending'[c] = store[c] /\ store[c] \in Payload
      /\ pending' \in [Stored -> Payload \cup {Gone}]
  BY <1>1, StoredIs DEF Stored, Queued, Restrict, IndexInv
<1>3. queue' \in Seq(Collections) /\ Range(queue') = Stored
  BY <1>1, <1>2, RangeOfSetToSeqs
<1>4. Stored = {} => queue' = <<>>
  <2>1. queue' # <<>> => 1 \in DOMAIN queue'
    BY <1>3
  <2> QED
    BY <1>3, <2>1 DEF Range
<1>5. \A i \in DOMAIN queue' : queue'[i] \in Stored
  BY <1>3 DEF Range
<1>6. QueueIsCurrent'
  BY <1>1, <1>2, <1>3, <1>4, <1>5 DEF QueueIsCurrent, Idle, Stored
<1>7. IndexWellTyped'
  BY <1>1, <1>2, <1>3 DEF IndexInv, IndexWellTyped
<1>8. RowsAreStored'
  BY <1>1 DEF RowsAreStored, IndexInv, IndexWellTyped
<1> QED
  BY <1>1, <1>2, <1>6, <1>7, <1>8 DEF IndexInv, OneOwner, Holds, Stored, JobHasRows, IndexedUnlessQueued,
     VectorsMatchRows

LEMMA IndexSteps == ~QueuedMoves /\ IndexInv /\ [Next]_vars => IndexInv'
<1> SUFFICES ASSUME ~QueuedMoves, IndexInv, [Next]_vars PROVE IndexInv'
  OBVIOUS
<1>1. CASE Embed
  <2>1. PICK batch \in Batches :
          /\ vectors' = [r \in Requests |-> IF r \in batch THEN index[r].text ELSE vectors[r]]
          /\ MarkRows(batch, "ready") /\ AfterBatch(batch)
    BY <1>1 DEF Embed
  <2> QED
    BY <1>1, <2>1, BatchKeeps DEF Embed, Batches, bounds
<1>2. CASE EmbedFails
  <2>1. PICK batch \in Batches : MarkRows(batch, "error") /\ AfterBatch(batch)
    BY <1>2 DEF EmbedFails
  <2> QED
    BY <1>2, <2>1, BatchKeeps DEF EmbedFails, Batches
<1>3. CASE Routes
  BY <1>3, SaveKeeps, MoveInKeeps, MoveOutKeeps, DeleteKeeps DEF Routes
<1>4. CASE UNCHANGED vars
  BY <1>4 DEF vars, tables, bounds, IndexInv, IndexWellTyped, QueueIsCurrent, OneOwner, JobHasRows,
     IndexedUnlessQueued, RowsAreStored, VectorsMatchRows, Holds, Stored, Queued, Idle
<1> QED
  BY <1>1, <1>2, <1>3, <1>4, TakeKeeps, TakeDuplicateKeeps, SwitchAccountKeeps, RestartKeeps DEF Next, Worker

LEMMA IndexInvSuffices == IndexInv => IndexMatchesStore
<1> SUFFICES ASSUME IndexInv PROVE IndexMatchesStore
  OBVIOUS
<1>1. ASSUME Idle, moving = NoMove, NEW c \in Stored, NEW r \in DOMAIN store[c]
      PROVE  \E s \in Status : index[r] = [owner |-> c, label |-> store[c][r].label,
                                           text |-> store[c][r].text, status |-> s]
  <2>1. /\ index[r] # NoRow /\ index[r].owner = c /\ index[r].label = store[c][r].label
        /\ index[r].text = store[c][r].text
    BY <1>1 DEF IndexInv, IndexedUnlessQueued, QueueIsCurrent
  <2>2. r \in Requests
    BY StoredIs, PayloadIs DEF IndexInv
  <2>3. index[r] \in Row
    BY <2>1, <2>2 DEF IndexInv, IndexWellTyped
  <2>4. index[r].status \in Status /\ index[r] = [owner |-> index[r].owner, label |-> index[r].label,
                                                  text |-> index[r].text, status |-> index[r].status]
    BY <2>3 DEF Row
  <2> QED
    BY <2>1, <2>4
<1>2. ASSUME Idle, restarts = 0, switches = 0, NEW r \in Requests, index[r] # NoRow
      PROVE  index[r].owner \in Stored /\ r \in DOMAIN store[index[r].owner]
  BY <1>2 DEF IndexInv, RowsAreStored, QueueIsCurrent, Holds
<1> QED
  BY <1>1, <1>2 DEF IndexInv, IndexMatchesStore

\* As long as no request is moved out of a collection that is still queued,
\* the idle index has every stored request as it is, and unless the queue was
\* lost or the account changed nothing else, whatever was saved, moved and
\* deleted meanwhile and whatever failed (services/search_indexer.py,
\* reindex_collection).
THEOREM IndexIsCurrent == ASSUME ~QueuedMoves PROVE FairSpec => []IndexMatchesStore
<1>1. Init => IndexInv
  BY IndexStart
<1>2. IndexInv /\ [Next]_vars => IndexInv'
  BY IndexSteps
<1> QED
  BY <1>1, <1>2, IndexInvSuffices, PTL DEF FairSpec, Spec
==============================================================================
