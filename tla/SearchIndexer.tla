---------------------------- MODULE SearchIndexer ----------------------------
(***************************************************************************)
(* The search index over the requests of all collections: the queue and    *)
(* worker of services/search_indexer.py over the tables of                 *)
(* db/search_index.py, fed by the routes of routes/local_store.py.         *)
(*                                                                         *)
(* The sidecar is one event loop.  A route stores a collection and queues  *)
(* it in one step; the worker takes a collection and updates its rows in   *)
(* one step, and then awaits the embedding model batch by batch.  Rows and *)
(* vectors survive a restart; the queue does not.                          *)
(***************************************************************************)
EXTENDS Naturals, Sequences, FiniteSets, Functions, SequencesExt

CONSTANTS
  Collections,    \* local ids of collections; each is issued once
  Requests,       \* request ids, unique over all collections
  Labels,         \* what name and URL of a request say
  Descriptions,   \* texts with a hash of their own
  NoText,         \* the empty description, which has no hash
  Unissued, Gone, Wiped,   \* not stored: yet, deleted, deleted by a switch
  NoRow, NoVector, NoMove,
  BatchSize,      \* EMBED_BATCH_SIZE
  QueuedMoves,    \* whether a request is moved out of a collection still queued
  MaxSaves, MaxIncidents   \* bounds; an incident is one of the last three counters

ASSUME IndexerAssumption ==
  /\ NoText \notin Descriptions /\ IsFiniteSet(Collections)
  /\ BatchSize \in Nat \ {0} /\ QueuedMoves \in BOOLEAN
  /\ {MaxSaves, MaxIncidents} \subseteq Nat

Entry   == [label: Labels, text: Descriptions \cup {NoText}]
Payload == UNION {[S -> Entry] : S \in SUBSET Requests}
Status  == {"pending", "skipped", "ready", "error"}
Row     == [owner: Collections, label: Labels, text: Descriptions \cup {NoText},
            status: Status]

ASSUME AbsenceAssumption ==
  /\ {Unissued, Gone, Wiped} \cap Payload = {}
  /\ Unissued # Gone /\ Unissued # Wiped /\ Gone # Wiped
  /\ NoRow \notin Row /\ NoVector \notin Descriptions
  /\ NoMove \notin [request : Requests, from : Collections]

VARIABLES
  store,     \* store[c]: the collection entity's content
  index,     \* index[r]: the row of request_index
  vectors,   \* vectors[r]: the text whose embedding request_vec holds
  pending,   \* _pending: the content each queued collection is to be indexed at
  queue,     \* _queue
  state,     \* _status["state"]
  job,       \* the requests the worker still has to embed
  moving,    \* the request that is being moved, stored twice for the moment
  saves, failures, restarts, switches   \* what has happened so far

tables == <<store, index, vectors>>
bounds == <<saves, failures, restarts, switches>>
vars   == <<tables, pending, queue, state, job, moving, bounds>>

Incidents == failures + restarts + switches
Stored == {c \in Collections : store[c] \notin {Unissued, Gone, Wiped}}
Idle   == state = "idle"

Init ==
  /\ store = [c \in Collections |-> Unissued]
  /\ index = [r \in Requests |-> NoRow]
  /\ vectors = [r \in Requests |-> NoVector]
  /\ pending = <<>> /\ queue = <<>> /\ state = "idle" /\ job = {}
  /\ moving = NoMove
  /\ saves = 0 /\ failures = 0 /\ restarts = 0 /\ switches = 0

-----------------------------------------------------------------------------
(* Routes. *)

With(f, c, v) == [k \in DOMAIN f \cup {c} |-> IF k = c THEN v ELSE f[k]]

\* Deviation: what was queued first is kept.
EnqueueFirst(c, content) ==
  /\ pending' = IF c \in DOMAIN pending THEN pending ELSE With(pending, c, content)
  /\ queue' = Append(queue, c)
  /\ state' = "indexing"

\* enqueue_reindex: the newest content replaces the queued one.
Enqueue(c, content) ==
  /\ pending' = With(pending, c, content)
  /\ queue' = Append(queue, c)
  /\ state' = "indexing"

StoreAs(c, content) ==
  /\ saves < MaxSaves /\ saves' = saves + 1
  /\ store' = [store EXCEPT ![c] = content]
  /\ Enqueue(c, content)
  /\ UNCHANGED <<index, vectors, job, failures, restarts, switches>>

Holds(c, r) == c \in Stored /\ r \in DOMAIN store[c]

\* A collection is created, edited, pulled, or overwritten by mark-synced,
\* which also brings a deleted one back.
\* Request ids stay unique; only handleMoveNode stores one twice for a moment,
\* in which nobody else saves the two collections.
Save(c) ==
  /\ store[c] # Wiped
  /\ moving # NoMove => ~Holds(c, moving.request)
  /\ \E p \in Payload :
       /\ \A r \in DOMAIN p, o \in Collections \ {c} : ~Holds(o, r)
       /\ StoreAs(c, p)
  /\ UNCHANGED moving

\* handleMoveNode saves the target first ...
MoveIn(c) ==
  /\ moving = NoMove /\ c \in Stored
  /\ \E o \in Stored \ {c} : \E r \in DOMAIN store[o] :
       /\ QueuedMoves \/ o \notin DOMAIN pending
       /\ StoreAs(c, With(store[c], r, store[o][r]))
       /\ moving' = [request |-> r, from |-> o]

\* ... and the source second.
MoveOut(c) ==
  /\ moving # NoMove /\ moving.from = c
  /\ StoreAs(c, Restrict(store[c], DOMAIN store[c] \ {moving.request}))
  /\ moving' = NoMove

\* Deleted by the user, or by mark-synced.
Delete(c) ==
  /\ c \in Stored /\ moving = NoMove
  /\ StoreAs(c, Gone)
  /\ UNCHANGED moving

\* set_active_user deletes every entity; the routes queue nothing.
SwitchAccount ==
  /\ Incidents < MaxIncidents /\ switches' = switches + 1
  /\ moving = NoMove /\ Stored # {}
  /\ store' = [c \in Collections |-> IF store[c] = Unissued THEN Unissued ELSE Wiped]
  /\ UNCHANGED <<index, vectors, pending, queue, state, job, moving, saves, failures, restarts>>

-----------------------------------------------------------------------------
(* The worker. *)

\* What a row of collection c becomes: unchanged rows are left alone.
Kept(r, c)       == index[r] # NoRow /\ index[r].owner = c
SameText(r, c, e) == Kept(r, c) /\ index[r].text = e.text
Unchanged(r, c, e) == SameText(r, c, e) /\ index[r].label = e.label

\* upsert_row: pending even if only the label changed.
Upserted(r, c, e) ==
  [owner |-> c, label |-> e.label, text |-> e.text,
   status |-> IF e.text = NoText THEN "skipped" ELSE "pending"]

\* The rows of c that are dropped: of all its requests if it is gone.
Dropped(c, content) ==
  {r \in Requests : Kept(r, c) /\ (content = Gone \/ r \notin DOMAIN content)}

ToEmbed(c, content) ==
  IF content = Gone THEN {}
  ELSE {r \in DOMAIN content :
          content[r].text # NoText /\ ~SameText(r, c, content[r])}

\* delete_rows takes the vectors along.
RemainingVectors(dropped) ==
  [r \in Requests |-> IF r \in dropped THEN NoVector ELSE vectors[r]]

Settled(nowPending, nowQueued) ==
  IF DOMAIN nowPending = {} /\ nowQueued = <<>> THEN "idle" ELSE state

Finish(nowPending, nowQueued) ==
  /\ job' = {}
  /\ state' = Settled(nowPending, nowQueued)

\* First part of reindex_collection, in one transaction.
Take ==
  /\ job = {} /\ queue # <<>>
  /\ LET c == Head(queue)
         content == pending[c]
         dropped == Dropped(c, content)
         todo == ToEmbed(c, content)
     IN  /\ c \in DOMAIN pending
         /\ queue' = Tail(queue)
         /\ pending' = Restrict(pending, DOMAIN pending \ {c})
         /\ index' = [r \in Requests |->
              IF r \in dropped THEN NoRow
              ELSE IF content = Gone \/ r \notin DOMAIN content THEN index[r]
              ELSE IF Unchanged(r, c, content[r]) THEN index[r]
              ELSE Upserted(r, c, content[r])]
         /\ vectors' = RemainingVectors(dropped)
         /\ IF todo = {} THEN Finish(pending', queue')
                         ELSE job' = todo /\ UNCHANGED state
  /\ UNCHANGED <<store, moving, bounds>>

\* Deviation: the state is not looked at when there is nothing to index.
TakeDuplicateSilently ==
  /\ job = {} /\ queue # <<>>
  /\ Head(queue) \notin DOMAIN pending
  /\ queue' = Tail(queue)
  /\ UNCHANGED <<tables, pending, state, job, moving, bounds>>

\* The collection was indexed already, at the content queued last.
TakeDuplicate ==
  /\ job = {} /\ queue # <<>>
  /\ Head(queue) \notin DOMAIN pending
  /\ queue' = Tail(queue)
  /\ Finish(pending, queue')
  /\ UNCHANGED <<tables, pending, moving, bounds>>

Lesser(a, b) == IF a < b THEN a ELSE b
Batches == {b \in SUBSET job : Cardinality(b) = Lesser(BatchSize, Cardinality(job))}

\* Whether or not a batch could be embedded, the next one follows.
AfterBatch(batch) ==
  IF job = batch THEN Finish(pending, queue) ELSE job' = job \ batch /\ UNCHANGED state

MarkRows(batch, status) ==
  index' = [r \in Requests |->
              IF r \in batch /\ index[r] # NoRow THEN [index[r] EXCEPT !.status = status]
                                               ELSE index[r]]

Embed ==
  /\ job # {}
  /\ \E batch \in Batches :
       /\ vectors' = [r \in Requests |-> IF r \in batch THEN index[r].text ELSE vectors[r]]
       /\ MarkRows(batch, "ready")
       /\ AfterBatch(batch)
  /\ UNCHANGED <<store, pending, queue, moving, bounds>>

EmbedFails ==
  /\ job # {} /\ Incidents < MaxIncidents /\ failures' = failures + 1
  /\ \E batch \in Batches : MarkRows(batch, "error") /\ AfterBatch(batch)
  /\ UNCHANGED <<store, vectors, pending, queue, moving, saves, restarts, switches>>

\* The sidecar is killed and started again: the queue is lost, and every
\* collection that is stored is queued anew.
Restart ==
  /\ Incidents < MaxIncidents /\ restarts' = restarts + 1
  /\ moving = NoMove
  /\ pending' = Restrict(store, Stored)
  /\ queue' \in SetToSeqs(Stored)
  /\ state' = IF Stored = {} THEN "idle" ELSE "indexing"
  /\ job' = {}
  /\ UNCHANGED <<tables, moving, saves, failures, switches>>

-----------------------------------------------------------------------------

Worker == Take \/ TakeDuplicate \/ Embed
Routes == \E c \in Collections : Save(c) \/ MoveIn(c) \/ MoveOut(c) \/ Delete(c)

Next == Worker \/ Routes \/ SwitchAccount \/ EmbedFails \/ Restart

Spec == Init /\ [][Next]_vars
\* The event loop runs the worker whenever it has something to do.
FairSpec == Spec /\ WF_vars(Worker)

-----------------------------------------------------------------------------
(* Properties. *)

\* A vector that is searched belongs to a row, and one that is declared ready
\* was computed from the row's present text, whatever batches came between.
VectorsMatchRows ==
  \A r \in Requests :
    /\ vectors[r] # NoVector => index[r] # NoRow
    /\ index[r] # NoRow => (index[r].status = "ready" => vectors[r] = index[r].text)

\* Once the index says it is idle, every request of every collection can be
\* found, under its collection and with what it says now, and nothing else is
\* found: whatever was queued meanwhile, in whichever order.  A restart loses the
\* queue and with it the rows of what was deleted, a change of account leaves the
\* rows of the last one; both leave the first half as it is.  (Not with
\* QueuedMoves: the source, still queued with the request in it, claims the row
\* back from the target, and drops it when the second save comes.)
IndexMatchesStore ==
  /\ VectorsMatchRows
  /\ Idle /\ moving = NoMove =>
    /\ \A c \in Stored : \A r \in DOMAIN store[c] :
         \E s \in Status : index[r] = [owner |-> c, label |-> store[c][r].label,
                                       text |-> store[c][r].text, status |-> s]
    /\ restarts = 0 /\ switches = 0 =>
         \A r \in Requests : index[r] # NoRow =>
            index[r].owner \in Stored /\ r \in DOMAIN store[index[r].owner]

\* When the saves stop, the indicator stops: the worker catches up.
CatchesUp == <>[]Idle
=============================================================================
