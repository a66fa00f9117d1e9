---------------------------- MODULE StudioProofs ----------------------------
(***************************************************************************)
(* What holds in the API studio: of links that travel in files, of the     *)
(* canvas, the drafts, the collections, the tokens of requests and the     *)
(* runs of the legacy editor.                                              *)
(***************************************************************************)
EXTENDS FlowTransfer, FlowCanvas, RequestDraft, CollectionTree, RequestExecutor, LegacyStudio,
        FiniteSetTheorems, TLAPS

-----------------------------------------------------------------------------
(***************************************************************************)
(* That links keep their meaning, for any number of installations,         *)
(* requests and flows, and however often files are passed on.              *)
(*                                                                         *)
(* LinksMeanTheSame speaks of one installation at a time.  What makes it   *)
(* inductive is about all of them at once: an id stands for the same       *)
(* request wherever it is found, so that a link carried in a file is still *)
(* good, and a file either describes what its block refers to or refers to *)
(* something that was deleted.                                             *)
(***************************************************************************)

Request == [id : Nat \ {0}, is : Interfaces, auth : Installations \union {Nothing}]
Ref == [request : Nat, expected : Interfaces \union {Nothing}, meant : Interfaces]
Flow == [id : Nat, block : Ref]
File == [block : Ref, describes : Interfaces \union {Nothing}]

TransferTyped ==
  /\ shelf \in [Installations -> SUBSET Request] /\ flows \in [Installations -> SUBSET Flow]
  /\ flowFile \subseteq File /\ requestIds \in Nat /\ flowIds \in Nat

RequestsAreFew == \A w \in Installations : IsFiniteSet(shelf[w])

\* Only ids that were issued are used, and they stand for one request.
IdsMeanOne ==
  /\ \A w \in Installations : \A r \in shelf[w] : r.id <= requestIds
  /\ \A v, w \in Installations : \A q \in shelf[v], r \in shelf[w] : q.id = r.id => q.is = r.is

AuthIsHere == \A w \in Installations : \A r \in shelf[w] : r.auth \in {w, Nothing}

\* What block b refers to is what its author meant, wherever it is found.
GoodBlock(b) ==
  /\ b.request <= requestIds /\ b.expected \in {b.meant, Nothing}
  /\ \A w \in Installations : \A r \in shelf[w] : r.id = b.request => r.is = b.meant

\* At w, block b runs its request, or says which one is missing.
Accounted(w, b) ==
  b.request # 0 /\ RequestsOf(w, b.request) = {} /\ b.expected = Nothing => b.request \in gone

GoodFlows == \A w \in Installations : \A f \in flows[w] : GoodBlock(f.block) /\ Accounted(w, f.block)

GoodFile ==
  \A file \in flowFile :
    /\ GoodBlock(file.block) /\ file.describes \in {file.block.meant, Nothing}
    /\ file.describes = Nothing =>
         /\ file.block.expected = Nothing
         /\ file.block.request # 0 => file.block.request \in gone

TransferInv ==
  TransferTyped /\ RequestsAreFew /\ IdsMeanOne /\ AuthIsHere /\ GoodFlows /\ GoodFile

-----------------------------------------------------------------------------
LEMMA TransferStarts == TransferInit => TransferInv
BY FS_EmptySet
DEF TransferInit, TransferInv, TransferTyped, RequestsAreFew, IdsMeanOne, AuthIsHere, GoodFlows, GoodFile

LEMMA TransferInvSuffices == TransferInv => LinksMeanTheSame
BY DEF TransferInv, AuthIsHere, GoodFlows, GoodBlock, Accounted, LinksMeanTheSame, RequestsOf

-----------------------------------------------------------------------------
(* What happens to requests.                                               *)

\* New requests, with ids of their own, disturb no link.
LEMMA NewRequestsKeep ==
  ASSUME TransferInv, NEW w \in Installations, NEW N, N \subseteq Request, IsFiniteSet(N),
         shelf' = [shelf EXCEPT ![w] = @ \union N],
         \A r \in N : requestIds < r.id /\ r.id <= requestIds' /\ r.auth \in {w, Nothing},
         \A q, r \in N : q.id = r.id => q.is = r.is,
         requestIds' \in Nat, requestIds <= requestIds', UNCHANGED <<flows, flowFile, flowIds, gone>>
  PROVE  TransferInv'
<1> USE DEF TransferInv
<1>1. \A v \in Installations : shelf'[v] = IF v = w THEN shelf[v] \union N ELSE shelf[v]
  BY DEF TransferTyped
<1>2. \A v \in Installations : \A r \in shelf'[v] : r \in shelf[v] \/ (v = w /\ r \in N)
  BY <1>1
<1>3. \A v \in Installations : \A r \in shelf[v] : r \in Request /\ r.id \in Nat /\ r.id <= requestIds
  BY DEF TransferTyped, IdsMeanOne, Request
<1>4. \A r \in N : r.id \in Nat /\ r.id # 0
  BY DEF Request
<1>5. requestIds \in Nat
  BY DEF TransferTyped
<1>6. TransferTyped'
  BY DEF TransferTyped
<1>7. RequestsAreFew'
  <2>1. ASSUME NEW v \in Installations PROVE IsFiniteSet(shelf'[v])
    <3>1. IsFiniteSet(shelf[v])
      BY DEF RequestsAreFew
    <3>2. IsFiniteSet(shelf[v] \union N)
      BY <3>1, FS_Union
    <3> QED
      BY <1>1, <3>1, <3>2
  <2> QED
    BY <2>1 DEF RequestsAreFew
<1>8. IdsMeanOne'
  <2>1. \A v \in Installations : \A r \in shelf'[v] : r.id <= requestIds'
    BY <1>2, <1>3, <1>5
  <2>2. ASSUME NEW u \in Installations, NEW v \in Installations, NEW q \in shelf'[u], NEW r \in shelf'[v],
               q.id = r.id
        PROVE  q.is = r.is
    <3>1. CASE q \in shelf[u] /\ r \in shelf[v]
      BY <2>2, <3>1 DEF IdsMeanOne
    <3>2. CASE q \in N /\ r \in N
      BY <2>2, <3>2
    <3>3. CASE q \in shelf[u] /\ r \in N
      BY <1>3, <1>4, <1>5, <2>2, <3>3
    <3>4. CASE q \in N /\ r \in shelf[v]
      BY <1>3, <1>4, <1>5, <2>2, <3>4
    <3> QED
      BY <1>2, <3>1, <3>2, <3>3, <3>4
  <2> QED
    BY <2>1, <2>2 DEF IdsMeanOne
<1>9. AuthIsHere'
  BY <1>2 DEF AuthIsHere
<1>10. ASSUME NEW b \in Ref, GoodBlock(b) PROVE GoodBlock(b)'
  <2>1. b.request \in Nat /\ b.request <= requestIds
    BY <1>10 DEF Ref, GoodBlock
  <2>2. \A r \in N : r.id # b.request
    BY <1>4, <1>5, <2>1
  <2> QED
    BY <1>2, <1>5, <1>10, <2>1, <2>2 DEF GoodBlock
<1>11. \A v \in Installations : \A b : RequestsOf(v, b.request)' = {} => RequestsOf(v, b.request) = {}
  BY <1>1 DEF RequestsOf
<1>12. GoodFlows'
  BY <1>10, <1>11 DEF GoodFlows, Accounted, TransferTyped, Flow
<1>13. GoodFile'
  BY <1>10 DEF GoodFile, TransferTyped, File
<1> QED
  BY <1>6, <1>7, <1>8, <1>9, <1>12, <1>13

LEMMA MakeRequestKeeps ==
  ASSUME TransferInv, NEW w \in Installations, NEW is \in Interfaces, MakeRequest(w, is)
  PROVE  TransferInv'
<1> DEFINE r == [id |-> requestIds + 1, is |-> is, auth |-> w]
<1>1. requestIds \in Nat
  BY DEF TransferInv, TransferTyped
<1>2. r \in Request /\ r.id = requestIds + 1 /\ r.auth = w
  BY <1>1 DEF Request
<1>3. /\ requestIds' = requestIds + 1 /\ shelf' = [shelf EXCEPT ![w] = @ \union {r}]
      /\ UNCHANGED <<flows, flowFile, flowIds, gone>>
  BY DEF MakeRequest
<1> HIDE DEF r
<1> DEFINE N == {r}
<1>4. IsFiniteSet(N)
  <2>1. IsFiniteSet({} \union {r})
    BY FS_AddElement, FS_EmptySet
  <2> QED
    BY <2>1
<1>5. /\ N \subseteq Request /\ shelf' = [shelf EXCEPT ![w] = @ \union N]
      /\ \A q \in N : requestIds < q.id /\ q.id <= requestIds' /\ q.auth \in {w, Nothing}
      /\ \A p, q \in N : p.id = q.id => p.is = q.is
  BY <1>1, <1>2, <1>3
<1>6. requestIds' \in Nat /\ requestIds <= requestIds'
  BY <1>1, <1>3
<1> HIDE DEF N
<1> QED
  BY <1>3, <1>4, <1>5, <1>6, NewRequestsKeep

\* The copies of different requests get different ids, all of them new.
LEMMA RanksTellApart ==
  ASSUME NEW R, R \subseteq Request, IsFiniteSet(R)
  PROVE  LET Rank(r) == Cardinality({q \in R : q.id <= r.id})
         IN /\ \A r \in R : Rank(r) \in 1 .. Cardinality(R)
            /\ \A q, r \in R : Rank(q) = Rank(r) => q.id = r.id
<1> DEFINE UpTo(r) == {q \in R : q.id <= r.id}
           Rank(r) == Cardinality(UpTo(r))
<1>1. \A r \in R : r.id \in Nat
  BY DEF Request
<1>2. ASSUME NEW r \in R PROVE IsFiniteSet(UpTo(r)) /\ Rank(r) \in 1 .. Cardinality(R)
  <2>1. UpTo(r) \in SUBSET R /\ r \in UpTo(r)
    BY <1>1
  <2> HIDE DEF UpTo
  <2>2. IsFiniteSet(UpTo(r)) /\ Rank(r) <= Cardinality(R)
    BY <2>1, FS_Subset
  <2>3. Rank(r) \in Nat /\ Cardinality(R) \in Nat /\ Rank(r) # 0
    BY <2>1, <2>2, FS_CardinalityType, FS_EmptySet
  <2> QED
    BY <2>2, <2>3
<1>3. ASSUME NEW q \in R, NEW r \in R, q.id <= r.id, Rank(q) = Rank(r) PROVE q.id = r.id
  <2>1. UpTo(q) \in SUBSET UpTo(r)
    BY <1>1, <1>3
  <2>2. r \in UpTo(r)
    BY <1>1
  <2>3. UpTo(q) = UpTo(r)
    <3> HIDE DEF UpTo
    <3> QED
      BY <1>2, <1>3, <2>1, FS_Subset
  <2>4. r.id <= q.id
    BY <2>2, <2>3
  <2> QED
    BY <1>1, <1>3, <2>4
<1>4. ASSUME NEW q \in R, NEW r \in R, Rank(q) = Rank(r) PROVE q.id = r.id
  <2> HIDE DEF Rank
  <2>1. q.id <= r.id \/ r.id <= q.id
    BY <1>1
  <2> QED
    BY <1>3, <1>4, <2>1
<1> QED
  BY <1>2, <1>4

LEMMA ImportCollectionKeeps ==
  ASSUME TransferInv, NEW v \in Installations, NEW w \in Installations, NEW R \in SUBSET shelf[v],
         ImportCollection(w, R)
  PROVE  TransferInv'
<1> DEFINE Rank(r) == Cardinality({q \in R : q.id <= r.id})
           Copy(r) == CopyOf(w, r, requestIds + Rank(r))
           N == {Copy(r) : r \in R}
<1>1. R \subseteq Request /\ IsFiniteSet(R) /\ requestIds \in Nat
  BY FS_Subset DEF TransferInv, TransferTyped, RequestsAreFew
<1>2. Cardinality(R) \in Nat
  BY <1>1, FS_CardinalityType
<1>3. /\ \A r \in R : Rank(r) \in 1 .. Cardinality(R)
      /\ \A q, r \in R : Rank(q) = Rank(r) => q.id = r.id
  BY <1>1, RanksTellApart
<1>4. /\ requestIds' = requestIds + Cardinality(R) /\ shelf' = [shelf EXCEPT ![w] = @ \union N]
      /\ UNCHANGED <<flows, flowFile, flowIds, gone>>
  BY DEF ImportCollection
<1> HIDE DEF Rank
<1>5. ASSUME NEW r \in R
      PROVE  /\ Copy(r) \in Request /\ Copy(r).id = requestIds + Rank(r) /\ Copy(r).is = r.is
             /\ Copy(r).auth \in {w, Nothing}
  <2>1. r \in Request /\ requestIds + Rank(r) \in Nat \ {0}
    BY <1>1, <1>2, <1>3
  <2> QED
    BY <2>1 DEF CopyOf, Request
<1> HIDE DEF Copy
<1>6. IsFiniteSet(N)
  <2> DEFINE f == [r \in R |-> Copy(r)]
  <2>1. f \in Surjection(R, N)
    BY DEF Surjection
  <2> QED
    BY <1>1, <2>1, FS_Surjection
<1>7. N \subseteq Request
  BY <1>5
<1>8. \A c \in N : requestIds < c.id /\ c.id <= requestIds' /\ c.auth \in {w, Nothing}
  BY <1>1, <1>2, <1>3, <1>4, <1>5
<1>9. \A c, d \in N : c.id = d.id => c.is = d.is
  <2> SUFFICES ASSUME NEW q \in R, NEW r \in R, Copy(q).id = Copy(r).id PROVE Copy(q).is = Copy(r).is
    OBVIOUS
  <2>1. Rank(q) = Rank(r)
    BY <1>1, <1>2, <1>3, <1>5
  <2>2. q.id = r.id
    BY <1>3, <2>1
  <2>3. q.is = r.is
    BY <2>2 DEF TransferInv, IdsMeanOne
  <2> QED
    BY <1>5, <2>3
<1>10. requestIds' \in Nat /\ requestIds <= requestIds'
  BY <1>1, <1>2, <1>4
<1> HIDE DEF N
<1> QED
  BY <1>4, <1>6, <1>7, <1>8, <1>9, <1>10, NewRequestsKeep

\* A deletion is remembered.
LEMMA DropRequestKeeps ==
  ASSUME TransferInv, NEW w \in Installations, NEW r \in shelf[w], DropRequest(w, r)
  PROVE  TransferInv'
<1> USE DEF TransferInv
<1>1. /\ shelf' = [shelf EXCEPT ![w] = @ \ {r}] /\ gone' = gone \union {r.id}
      /\ UNCHANGED <<flows, flowFile, requestIds, flowIds>>
  BY DEF DropRequest
<1>2. \A v \in Installations : shelf'[v] = IF v = w THEN shelf[v] \ {r} ELSE shelf[v]
  BY <1>1 DEF TransferTyped
<1>3. TransferTyped' /\ IdsMeanOne' /\ AuthIsHere'
  BY <1>1, <1>2 DEF TransferTyped, IdsMeanOne, AuthIsHere
<1>4. RequestsAreFew'
  <2>1. \A v \in Installations : shelf'[v] \in SUBSET shelf[v]
    BY <1>2
  <2> QED
    BY <2>1, FS_Subset DEF RequestsAreFew
<1>5. \A b : GoodBlock(b) => GoodBlock(b)'
  BY <1>1, <1>2 DEF GoodBlock
<1>6. ASSUME NEW v \in Installations, NEW b, Accounted(v, b) PROVE Accounted(v, b)'
  BY <1>1, <1>2, <1>6 DEF Accounted, RequestsOf
<1>7. GoodFlows'
  BY <1>1, <1>5, <1>6 DEF GoodFlows
<1>8. GoodFile'
  BY <1>1, <1>5 DEF GoodFile
<1> QED
  BY <1>3, <1>4, <1>7, <1>8

-----------------------------------------------------------------------------
(* What happens to flows.                                                  *)

\* A request of this installation is a good link.
LEMMA LinkToGood ==
  ASSUME TransferInv, NEW w \in Installations, NEW r \in shelf[w]
  PROVE  LinkTo(r) \in Ref /\ GoodBlock(LinkTo(r)) /\ Accounted(w, LinkTo(r))
<1>1. r \in Request /\ r.id <= requestIds
  BY DEF TransferInv, TransferTyped, IdsMeanOne
<1>2. \A v \in Installations : \A q \in shelf[v] : q.id = r.id => q.is = r.is
  BY DEF TransferInv, IdsMeanOne
<1>3. LinkTo(r) \in Ref /\ GoodBlock(LinkTo(r))
  BY <1>1, <1>2 DEF LinkTo, Ref, Request, GoodBlock
<1>4. r \in RequestsOf(w, LinkTo(r).request)
  BY DEF RequestsOf, LinkTo
<1> QED
  BY <1>3, <1>4 DEF Accounted

LEMMA UnlinkedGood ==
  ASSUME TransferInv, NEW w \in Installations, NEW is \in Interfaces
  PROVE  Unlinked(is) \in Ref /\ GoodBlock(Unlinked(is)) /\ Accounted(w, Unlinked(is))
<1>1. \A v \in Installations : \A r \in shelf[v] : r.id # 0
  BY DEF TransferInv, TransferTyped, Request
<1> QED
  BY <1>1 DEF TransferInv, TransferTyped, Unlinked, Ref, GoodBlock, Accounted

\* Flows of one installation change, and good blocks are put in.
LEMMA GoodFlowsKeep ==
  ASSUME TransferInv, NEW w \in Installations, NEW F, F \subseteq Flow,
         flows' = [flows EXCEPT ![w] = F], flowIds' \in Nat,
         \A f \in F : GoodBlock(f.block) /\ Accounted(w, f.block),
         UNCHANGED <<shelf, flowFile, requestIds, gone>>
  PROVE  TransferInv'
<1>1. \A v \in Installations : flows'[v] = IF v = w THEN F ELSE flows[v]
  BY DEF TransferInv, TransferTyped
<1>2. /\ \A b : GoodBlock(b)' = GoodBlock(b)
      /\ \A v, b : Accounted(v, b)' = Accounted(v, b)
  BY DEF GoodBlock, Accounted, RequestsOf
<1>3. GoodFlows'
  BY <1>1, <1>2 DEF TransferInv, GoodFlows
<1> QED
  BY <1>2, <1>3 DEF TransferInv, TransferTyped, RequestsAreFew, IdsMeanOne, AuthIsHere, GoodFile

LEMMA CreatesKeeps ==
  ASSUME TransferInv, NEW w \in Installations, NEW block \in Ref, GoodBlock(block), Accounted(w, block),
         Creates(w, block)
  PROVE  TransferInv'
<1>1. PICK b \in {block, Unlinked(block.meant)} :
        flows' = [flows EXCEPT ![w] = @ \union {[id |-> flowIds + 1, block |-> b]}]
  BY DEF Creates
<1> DEFINE f == [id |-> flowIds + 1, block |-> b]
           F == flows[w] \union {f}
<1>2. b \in Ref /\ GoodBlock(b) /\ Accounted(w, b)
  BY <1>1, UnlinkedGood DEF Ref
<1>3. flowIds' \in Nat /\ f \in Flow /\ f.block = b /\ UNCHANGED <<shelf, flowFile, requestIds, gone>>
  BY <1>2 DEF Creates, TransferInv, TransferTyped, Flow
<1> HIDE DEF f
<1>4. flows' = [flows EXCEPT ![w] = F] /\ F \subseteq Flow
  BY <1>1, <1>3 DEF f, TransferInv, TransferTyped
<1>5. \A g \in F : GoodBlock(g.block) /\ Accounted(w, g.block)
  BY <1>2, <1>3 DEF TransferInv, GoodFlows
<1> HIDE DEF F
<1> QED
  BY <1>3, <1>4, <1>5, GoodFlowsKeep

LEMMA ChooseRequestKeeps ==
  ASSUME TransferInv, NEW w \in Installations, NEW f \in flows[w], NEW r \in shelf[w], ChooseRequest(w, f, r)
  PROVE  TransferInv'
<1> DEFINE With(g) == IF g.id = f.id THEN [g EXCEPT !.block = LinkTo(r)] ELSE g
           F == {With(g) : g \in flows[w]}
<1>1. flows' = [flows EXCEPT ![w] = F] /\ UNCHANGED <<shelf, flowFile, requestIds, flowIds, gone>>
  BY DEF ChooseRequest, SetBlock
<1>2. LinkTo(r) \in Ref /\ GoodBlock(LinkTo(r)) /\ Accounted(w, LinkTo(r))
  BY LinkToGood
<1>3. ASSUME NEW g \in flows[w]
      PROVE  With(g) \in Flow /\ GoodBlock(With(g).block) /\ Accounted(w, With(g).block)
  <2>1. g \in Flow /\ GoodBlock(g.block) /\ Accounted(w, g.block)
    BY DEF TransferInv, TransferTyped, GoodFlows
  <2>2. CASE g.id = f.id
    <3>1. With(g) \in Flow /\ With(g).block = LinkTo(r)
      BY <1>2, <2>1, <2>2 DEF Flow
    <3> QED
      BY <1>2, <3>1
  <2>3. CASE g.id # f.id
    BY <2>1, <2>3
  <2> QED
    BY <2>2, <2>3
<1> HIDE DEF With
<1>4. flowIds' \in Nat
  BY <1>1 DEF TransferInv, TransferTyped
<1>5. F \subseteq Flow /\ \A g \in F : GoodBlock(g.block) /\ Accounted(w, g.block)
  BY <1>3
<1> HIDE DEF F
<1> QED
  BY <1>1, <1>4, <1>5, GoodFlowsKeep

LEMMA ExportFlowKeeps ==
  ASSUME TransferInv, NEW w \in Installations, NEW f \in flows[w], ExportFlow(w, f)
  PROVE  TransferInv'
<1> DEFINE b == f.block
<1>1. b \in Ref /\ GoodBlock(b) /\ Accounted(w, b)
  BY DEF TransferInv, TransferTyped, GoodFlows, Flow
<1>2. UNCHANGED <<shelf, flows, requestIds, flowIds, gone>>
  BY DEF ExportFlow
<1>3. ASSUME NEW file \in flowFile'
      PROVE  /\ file \in File /\ GoodBlock(file.block) /\ file.describes \in {file.block.meant, Nothing}
             /\ file.describes = Nothing =>
                  file.block.expected = Nothing /\ (file.block.request # 0 => file.block.request \in gone)
  <2>1. CASE \E r \in RequestsOf(w, b.request) :
               flowFile' = {[block |-> [b EXCEPT !.expected = Nothing], describes |-> r.is]}
    <3> DEFINE plain == [b EXCEPT !.expected = Nothing]
    <3>1. PICK r \in RequestsOf(w, b.request) : flowFile' = {[block |-> plain, describes |-> r.is]}
      BY <2>1
    <3>2. r.is = b.meant
      BY <1>1 DEF RequestsOf, GoodBlock
    <3>3. plain \in Ref /\ plain.request = b.request /\ plain.meant = b.meant /\ plain.expected = Nothing
      BY <1>1 DEF Ref
    <3> HIDE DEF plain
    <3>4. GoodBlock(plain)
      BY <1>1, <3>3 DEF GoodBlock
    <3>5. b.meant \in Interfaces /\ Nothing \notin Interfaces
      BY <1>1, TransferAssumption DEF Ref, Interfaces
    <3>6. file.block = plain /\ file.describes = b.meant /\ file \in File
      BY <3>1, <3>2, <3>3, <3>5 DEF File
    <3> QED
      BY <3>3, <3>4, <3>5, <3>6
  <2>2. CASE RequestsOf(w, b.request) = {} /\ flowFile' = {[block |-> b, describes |-> b.expected]}
    <3>1. file.block = b /\ file.describes = b.expected /\ file \in File
      BY <1>1, <2>2 DEF File, Ref
    <3> QED
      BY <1>1, <2>2, <3>1 DEF Accounted, GoodBlock
  <2> QED
    BY <2>1, <2>2 DEF ExportFlow
<1>4. /\ \A c : GoodBlock(c)' = GoodBlock(c)
      /\ \A v, c : Accounted(v, c)' = Accounted(v, c)
  BY <1>2 DEF GoodBlock, Accounted, RequestsOf
<1>5. GoodFile' /\ flowFile' \subseteq File
  BY <1>2, <1>3, <1>4 DEF GoodFile
<1> QED
  BY <1>2, <1>4, <1>5 DEF TransferInv, TransferTyped, RequestsAreFew, IdsMeanOne, AuthIsHere, GoodFlows

\* Whichever way an import finds the request, it is the one that was meant.
LEMMA ResolvedGood ==
  ASSUME TransferInv, NEW w \in Installations, NEW file \in flowFile
  PROVE  Resolved(w, file) \in Ref /\ GoodBlock(Resolved(w, file)) /\ Accounted(w, Resolved(w, file))
<1> DEFINE b == file.block
           snapshot == IF file.describes # Nothing THEN file.describes ELSE b.expected
           candidates == {r \in shelf[w] : Answers(r, snapshot)}
<1>1. /\ file \in File /\ b \in Ref /\ GoodBlock(b) /\ file.describes \in {b.meant, Nothing}
      /\ file.describes = Nothing => b.expected = Nothing /\ (b.request # 0 => b.request \in gone)
  BY DEF TransferInv, TransferTyped, GoodFile, File
<1>2. snapshot \in {b.meant, Nothing} /\ (snapshot = Nothing /\ b.request # 0 => b.request \in gone)
  BY <1>1
<1>3. b.meant \in Interfaces
  BY <1>1 DEF Ref
<1>4. CASE b.request = 0
  <2>1. Resolved(w, file) = b
    BY <1>4 DEF Resolved
  <2> QED
    BY <1>1, <1>4, <2>1 DEF Accounted
<1>5. CASE b.request # 0 /\ RequestsOf(w, b.request) # {}
  <2>1. Resolved(w, file) = [b EXCEPT !.expected = Nothing]
    BY <1>5 DEF Resolved
  <2>2. /\ Resolved(w, file) \in Ref /\ Resolved(w, file).request = b.request
        /\ Resolved(w, file).meant = b.meant /\ Resolved(w, file).expected = Nothing
    BY <1>1, <2>1 DEF Ref
  <2> QED
    BY <1>1, <1>5, <2>2 DEF GoodBlock, Accounted
<1>6. CASE b.request # 0 /\ RequestsOf(w, b.request) = {} /\ Cardinality(candidates) = 1
  <2> DEFINE r == CHOOSE r \in candidates : TRUE
  <2>1. candidates # {}
    BY <1>6, FS_EmptySet
  <2>2. r \in candidates
    BY <2>1
  <2>3. r \in shelf[w] /\ Answers(r, snapshot)
    BY <2>2
  <2>4. Resolved(w, file) = [b EXCEPT !.request = r.id, !.expected = Nothing]
    BY <1>6 DEF Resolved
  <2> HIDE DEF r, candidates
  <2>5. r \in Request /\ r.id <= requestIds
    BY <2>3 DEF TransferInv, TransferTyped, IdsMeanOne
  <2>6. r.is = b.meant
    <3>1. snapshot = b.meant /\ r.is.name = b.meant.name /\ r.is.method = b.meant.method
      BY <1>2, <2>3 DEF Answers
    <3>2. r.is \in Interfaces
      BY <2>5 DEF Request
    <3> QED
      BY <1>3, <3>1, <3>2 DEF Interfaces
  <2>7. /\ Resolved(w, file) \in Ref /\ Resolved(w, file).request = r.id
        /\ Resolved(w, file).meant = b.meant /\ Resolved(w, file).expected = Nothing
    BY <1>1, <2>4, <2>5 DEF Ref, Request
  <2>8. \A v \in Installations : \A q \in shelf[v] : q.id = r.id => q.is = b.meant
    BY <2>3, <2>6 DEF TransferInv, IdsMeanOne
  <2>9. r \in RequestsOf(w, r.id)
    BY <2>3 DEF RequestsOf
  <2> QED
    BY <2>5, <2>7, <2>8, <2>9 DEF GoodBlock, Accounted
<1>7. CASE b.request # 0 /\ RequestsOf(w, b.request) = {} /\ Cardinality(candidates) # 1
  <2>1. Resolved(w, file) = [b EXCEPT !.expected = snapshot]
    BY <1>7 DEF Resolved
  <2> HIDE DEF snapshot
  <2>2. /\ Resolved(w, file) \in Ref /\ Resolved(w, file).request = b.request
        /\ Resolved(w, file).meant = b.meant /\ Resolved(w, file).expected = snapshot
    BY <1>1, <1>2, <1>3, <2>1 DEF Ref
  <2> QED
    BY <1>1, <1>2, <1>7, <2>2 DEF GoodBlock, Accounted
<1> QED
  BY <1>4, <1>5, <1>6, <1>7

-----------------------------------------------------------------------------
LEMMA TransferSteps == TransferInv /\ [TransferNext]_transferVars => TransferInv'
<1> SUFFICES ASSUME TransferInv, [TransferNext]_transferVars PROVE TransferInv'
  OBVIOUS
<1>1. ASSUME NEW w \in Installations, NEW r \in shelf[w], NewFlow(w, r) PROVE TransferInv'
  BY <1>1, LinkToGood, CreatesKeeps DEF NewFlow
<1>2. ASSUME NEW w \in Installations, NEW f \in flows[w], DuplicateFlow(w, f) PROVE TransferInv'
  <2>1. f.block \in Ref /\ GoodBlock(f.block) /\ Accounted(w, f.block)
    BY DEF TransferInv, TransferTyped, GoodFlows, Flow
  <2> QED
    BY <1>2, <2>1, CreatesKeeps DEF DuplicateFlow
<1>3. ASSUME NEW w \in Installations, ImportFlow(w) PROVE TransferInv'
  BY <1>3, ResolvedGood, CreatesKeeps DEF ImportFlow
<1>4. CASE UNCHANGED transferVars
  BY <1>4 DEF transferVars, TransferInv, TransferTyped, RequestsAreFew, IdsMeanOne, AuthIsHere, GoodFlows,
              GoodFile, GoodBlock, Accounted, RequestsOf
<1> QED
  BY <1>1, <1>2, <1>3, <1>4, MakeRequestKeeps, ImportCollectionKeeps, DropRequestKeeps, ExportFlowKeeps,
     ChooseRequestKeeps DEF TransferNext

\* However often collections and flows are passed on, back and further, a block
\* runs the request its author meant, or says which one is missing
\* (flowTransfer.ts, prepareImportedFlow).
THEOREM LinksKeepTheirMeaning == TransferSpec => []LinksMeanTheSame
BY TransferStarts, TransferSteps, TransferInvSuffices, PTL DEF TransferSpec

-----------------------------------------------------------------------------
(***************************************************************************)
(* That a canvas which does not count as changed is stored, for any flows, *)
(* blocks and graphs, while no flow is renamed or loaded during a save     *)
(* (~RashCalls) and no sync pass replaces a stored flow                    *)
(* (~PulledMeanwhile).                                                     *)
(*                                                                         *)
(* A save and a rename both send the whole flow, and a canvas counts as    *)
(* changed when it differs from what was signed last. So the invariant     *)
(* follows what was signed, what a call carries and what is stored from    *)
(* step to step.                                                           *)
(***************************************************************************)

IsCall(p) == p = NoCall \/ p = [state |-> p.state, flow |-> p.flow, title |-> p.title, graph |-> p.graph]

\* There is at most one call, of the flow that is shown.
CallsApart ==
  /\ loaded \in CanvasFlows /\ kept = [f \in CanvasFlows |-> kept[f]]
  /\ canvasPuts = [k \in Kinds |-> canvasPuts[k]]
  /\ \A k \in Kinds : /\ IsCall(canvasPuts[k])
                      /\ canvasPuts[k].state \in {"none", "sent", "stored"}
                      /\ Busy(k) => canvasPuts[k].flow = loaded
  /\ ~Busy("save") \/ ~Busy("rename")

\* What was signed is stored, or the save that replaced it has still to end.
SignedIsStored ==
  /\ (\A k \in Kinds : canvasPuts[k].state # "stored") => fetched = kept
  /\ canvasPuts["save"].state = "stored" => kept[loaded].graph = canvasPuts["save"].graph
  /\ canvasPuts["save"].state # "stored" => kept[loaded].graph = signed
  /\ Busy("rename") => canvasPuts["rename"].graph = signed

CanvasInv == CallsApart /\ SignedIsStored

LEMMA CanvasStarts == CanvasInit => CanvasInv
<1> SUFFICES ASSUME CanvasInit PROVE CanvasInv
  OBVIOUS
<1>1. loaded \in CanvasFlows /\ kept[loaded].graph = Opening /\ signed = Opening /\ fetched = kept
  BY CanvasAssumption DEF CanvasInit
<1>2. kept = [f \in CanvasFlows |-> kept[f]]
  BY DEF CanvasInit
<1>3. \A k \in Kinds : canvasPuts[k] = NoCall /\ canvasPuts = [j \in Kinds |-> canvasPuts[j]]
  BY DEF CanvasInit
<1>4. NoCall.state = "none" /\ {"save", "rename"} = Kinds
  BY DEF NoCall, Kinds
<1> QED
  BY <1>1, <1>2, <1>3, <1>4 DEF CanvasInv, CallsApart, SignedIsStored, IsCall, Busy

LEMMA SaveStartsKeeps ==
  ASSUME CanvasInv, SaveStarts
  PROVE  CanvasInv'
<1>1. /\ \A k \in Kinds : canvasPuts[k].state = "none"
      /\ canvasPuts' = [canvasPuts EXCEPT !["save"] = Sent(fetched[loaded].title, canvas)]
      /\ UNCHANGED <<loaded, signed, kept, fetched>>
  BY DEF SaveStarts, Busy
<1>2. canvasPuts = [k \in Kinds |-> canvasPuts[k]] /\ {"save", "rename"} = Kinds
  BY DEF CanvasInv, CallsApart, Kinds
<1>3. /\ canvasPuts' = [k \in Kinds |-> canvasPuts'[k]]
      /\ canvasPuts'["save"] = Sent(fetched[loaded].title, canvas)
      /\ canvasPuts'["rename"] = canvasPuts["rename"]
  BY <1>1, <1>2
<1>4. canvasPuts'["save"].state = "sent" /\ canvasPuts'["save"].flow = loaded /\ IsCall(canvasPuts'["save"])
  BY <1>3 DEF Sent, IsCall
<1> QED
  BY <1>1, <1>2, <1>3, <1>4 DEF CanvasInv, CallsApart, SignedIsStored, Busy

LEMMA RenameStartsKeeps ==
  ASSUME ~RashCalls, CanvasInv, RenameStarts
  PROVE  CanvasInv'
<1>1. /\ \A k \in {"save", "rename"} : canvasPuts[k].state = "none"
      /\ canvasPuts' = [canvasPuts EXCEPT !["rename"] = Sent(fetched[loaded].title + 1, fetched[loaded].graph)]
      /\ UNCHANGED <<loaded, signed, kept, fetched>>
  BY DEF RenameStarts, Busy
<1>2. canvasPuts = [k \in Kinds |-> canvasPuts[k]] /\ {"save", "rename"} = Kinds
  BY DEF CanvasInv, CallsApart, Kinds
<1>3. /\ canvasPuts' = [k \in Kinds |-> canvasPuts'[k]]
      /\ canvasPuts'["rename"] = Sent(fetched[loaded].title + 1, fetched[loaded].graph)
      /\ canvasPuts'["save"] = canvasPuts["save"]
  BY <1>1, <1>2
<1>4. /\ canvasPuts'["rename"].state = "sent" /\ canvasPuts'["rename"].flow = loaded /\ IsCall(canvasPuts'["rename"])
      /\ canvasPuts'["rename"].graph = fetched[loaded].graph
  BY <1>3 DEF Sent, IsCall
<1>5. fetched[loaded].graph = signed
  BY <1>1, <1>2 DEF CanvasInv, SignedIsStored
<1> QED
  BY <1>1, <1>2, <1>3, <1>4, <1>5 DEF CanvasInv, CallsApart, SignedIsStored, Busy

LEMMA CallStoredKeeps ==
  ASSUME CanvasInv, NEW kind \in Kinds, CallStored(kind)
  PROVE  CanvasInv'
<1>1. PICK p : p = canvasPuts[kind]
  OBVIOUS
<1>2. /\ p.state = "sent" /\ canvasPuts' = [canvasPuts EXCEPT ![kind] = [p EXCEPT !.state = "stored"]]
      /\ kept' = [kept EXCEPT ![p.flow] = [title |-> p.title, graph |-> p.graph]]
      /\ UNCHANGED <<loaded, signed, fetched>>
  BY <1>1 DEF CallStored
<1>3. canvasPuts = [k \in Kinds |-> canvasPuts[k]] /\ {"save", "rename"} = Kinds
  BY DEF CanvasInv, CallsApart, Kinds
<1>4. p = [state |-> "sent", flow |-> loaded, title |-> p.title, graph |-> p.graph]
  BY <1>1, <1>2 DEF CanvasInv, CallsApart, IsCall, NoCall, Busy
<1>5. /\ canvasPuts' = [k \in Kinds |-> canvasPuts'[k]]
      /\ canvasPuts'[kind] = [state |-> "stored", flow |-> loaded, title |-> p.title, graph |-> p.graph]
      /\ \A k \in Kinds \ {kind} : canvasPuts'[k] = canvasPuts[k]
  BY <1>2, <1>3, <1>4
<1>6. /\ canvasPuts'[kind].state = "stored" /\ canvasPuts'[kind].flow = loaded /\ IsCall(canvasPuts'[kind])
      /\ canvasPuts'[kind].graph = p.graph
  BY <1>5 DEF IsCall
<1>7. kept' = [f \in CanvasFlows |-> kept'[f]] /\ kept'[loaded].graph = p.graph
  BY <1>2, <1>4 DEF CanvasInv, CallsApart
<1>8. CallsApart'
  BY <1>1, <1>2, <1>3, <1>5, <1>6, <1>7 DEF CanvasInv, CallsApart, Busy
<1>9. kind = "rename" => p.graph = signed /\ canvasPuts["save"].state = "none"
  BY <1>1, <1>2, <1>3 DEF CanvasInv, CallsApart, SignedIsStored, Busy
<1>10. SignedIsStored'
  BY <1>1, <1>2, <1>3, <1>5, <1>6, <1>7, <1>9 DEF CanvasInv, CallsApart, SignedIsStored, Busy
<1> QED
  BY <1>8, <1>10 DEF CanvasInv

LEMMA CallEndsKeeps ==
  ASSUME CanvasInv, NEW kind \in Kinds, CallEnds(kind) \/ CallFails(kind)
  PROVE  CanvasInv'
<1>1. /\ canvasPuts' = [canvasPuts EXCEPT ![kind] = NoCall] /\ UNCHANGED <<loaded, kept>>
      /\ canvasPuts[kind].state \in {"sent", "stored"}
      /\ canvasPuts[kind].state = "sent" => UNCHANGED <<signed, fetched>>
      /\ canvasPuts[kind].state = "stored" =>
           fetched' = kept /\ signed' = IF kind = "save" THEN canvasPuts["save"].graph ELSE signed
  BY DEF CallEnds, CallFails, SignatureSent
<1>2. canvasPuts = [k \in Kinds |-> canvasPuts[k]] /\ {"save", "rename"} = Kinds
  BY DEF CanvasInv, CallsApart, Kinds
<1>3. /\ canvasPuts' = [k \in Kinds |-> canvasPuts'[k]]
      /\ canvasPuts'[kind] = NoCall /\ \A k \in Kinds \ {kind} : canvasPuts'[k] = canvasPuts[k]
  BY <1>1, <1>2
<1>4. NoCall.state = "none" /\ IsCall(NoCall)
  BY DEF NoCall, IsCall
<1>5. \A k \in Kinds \ {kind} : canvasPuts[k].state = "none"
  BY <1>1, <1>2 DEF CanvasInv, CallsApart, Busy
<1> QED
  BY <1>1, <1>2, <1>3, <1>4, <1>5 DEF CanvasInv, CallsApart, SignedIsStored, Busy

LEMMA LoadFlowKeeps ==
  ASSUME ~RashCalls, CanvasInv, NEW f \in CanvasFlows, LoadFlow(f)
  PROVE  CanvasInv'
<1>1. /\ \A k \in Kinds : canvasPuts[k].state = "none"
      /\ loaded' = f /\ signed' = fetched[f].graph /\ UNCHANGED <<kept, fetched, canvasPuts>>
  BY DEF LoadFlow, Busy
<1> QED
  BY <1>1 DEF CanvasInv, CallsApart, SignedIsStored, Busy, Kinds

LEMMA CanvasSteps == ~RashCalls /\ ~PulledMeanwhile /\ CanvasInv /\ [CanvasNext]_canvasVars => CanvasInv'
<1> SUFFICES ASSUME ~RashCalls, ~PulledMeanwhile, CanvasInv, [CanvasNext]_canvasVars PROVE CanvasInv'
  OBVIOUS
<1> DEFINE Edited == UNCHANGED <<loaded, signed, kept, fetched, canvasPuts>>
<1>1. Edited => CanvasInv'
  BY DEF CanvasInv, CallsApart, SignedIsStored, Busy
<1>2. CASE AddBlock \/ UndoDeletion \/ Paste
  BY <1>1, <1>2 DEF AddBlock, UndoDeletion, Paste
<1>3. ASSUME NEW b \in Blocks, NEW n \in Names, NameBlock(b, n) PROVE Edited
  BY <1>3 DEF NameBlock
<1>4. ASSUME NEW a \in Blocks, NEW b \in Blocks, ConnectBlocks(a, b) PROVE Edited
  BY <1>4 DEF ConnectBlocks
<1>5. ASSUME NEW B, CopyBlocks(B) PROVE Edited
  BY <1>5 DEF CopyBlocks
<1>6. ASSUME NEW B, NEW E, DeleteParts(B, E) PROVE Edited
  BY <1>6 DEF DeleteParts
<1>7. ASSUME NEW f \in CanvasFlows, FlowPulled(f) PROVE FALSE
  BY <1>7 DEF FlowPulled
<1>8. CASE UNCHANGED canvasVars
  BY <1>1, <1>8 DEF canvasVars
<1> QED
  BY <1>1, <1>2, <1>3, <1>4, <1>5, <1>6, <1>7, <1>8, SaveStartsKeeps, RenameStartsKeeps, CallStoredKeeps,
     CallEndsKeeps, LoadFlowKeeps DEF CanvasNext

\* While calls are made one after the other and no pass replaces the flow, a
\* canvas without the dot is what is stored, whatever was edited during a save
\* and whether or not it succeeded (EditorV2.tsx, onSave).
THEOREM CleanCanvasIsStored == ASSUME ~RashCalls, ~PulledMeanwhile PROVE CanvasSpec => []CleanIsStored
<1>1. CanvasInv => CleanIsStored
  BY DEF CanvasInv, CallsApart, SignedIsStored, CleanIsStored, Busy, Kinds
<1> QED
  BY <1>1, CanvasStarts, CanvasSteps, PTL DEF CanvasSpec

-----------------------------------------------------------------------------
(***************************************************************************)
(* That the canvas is sound, for any blocks, flows and bounds, when no     *)
(* deletion is undone that something was connected after.                  *)
(*                                                                         *)
(* CanvasIsSound speaks of the canvas shown.  What makes it inductive is   *)
(* that every graph a step can put there is sound too: the copied blocks,  *)
(* the flows as stored, as last listed and as they are sent; and that the  *)
(* connections a Ctrl+Z can still bring back are sound together with those *)
(* that are there.  A block is out of all circles because of a set without *)
(* it that takes in what feeds it (NoCircle): the sets of an edited canvas *)
(* are made from those of the canvas before.                               *)
(***************************************************************************)

\* Connections, for any number of them.
EdgeOf == [id : Nat, source : Blocks, target : Blocks]
EdgesSound(E) ==
  /\ E \subseteq EdgeOf
  /\ \A d, e \in E : d.target = e.target => d = e
  /\ \A b \in Blocks : b \notin Upstream(E, b)

Parts == {"blocks", "edges"}

\* A graph of blocks out of U.
GraphSound(g, U) ==
  /\ DOMAIN g = Parts /\ Ids(g) \subseteq U /\ IsFiniteSet(g.edges) /\ EdgesSound(g.edges)
  /\ \A e \in g.edges : {e.source, e.target} \subseteq Ids(g)

\* The graphs a step can show.
FlowsSound ==
  /\ used.blocks \subseteq Blocks /\ DOMAIN used = Parts /\ used.edges \in Nat
  /\ GraphSound(canvas, used.blocks) /\ GraphSound(clip, used.blocks)
  /\ loaded \in CanvasFlows /\ DOMAIN kept = CanvasFlows
  /\ \A f \in CanvasFlows : DOMAIN kept[f] = {"title", "graph"}
  /\ \A f \in CanvasFlows : GraphSound(kept[f].graph, used.blocks) /\ GraphSound(fetched[f].graph, used.blocks)

PutsSound ==
  /\ DOMAIN canvasPuts = Kinds
  /\ \A k \in Kinds : canvasPuts[k].state # "none" =>
       DOMAIN canvasPuts[k] = {"state", "flow", "title", "graph"} /\ GraphSound(canvasPuts[k].graph, used.blocks)

\* What the stack would bring back, as far as nothing was connected since.
ToComeBack(stack, s) == UNION {stack[j].edges : j \in (Len(stack) - s + 1) .. Len(stack)}

\* A deletion holds blocks that were given out, and connections.
EntrySound(entry, U) ==
  DOMAIN entry = Parts /\ Ids(entry) \subseteq U /\ IsFiniteSet(entry.edges) /\ entry.edges \subseteq EdgeOf

StackSound ==
  /\ undo \in Seq(Range(undo)) /\ Len(undo) <= MaxUndo /\ sound \in 0 .. Len(undo)
  /\ \A i \in 1 .. Len(undo) : EntrySound(undo[i], used.blocks)
  /\ UndoLosesNothing
  /\ EdgesSound(canvas.edges \union ToComeBack(undo, sound))

SoundInv == FlowsSound /\ PutsSound /\ StackSound

\* What feeds a block is at the other end of a connection to it.
LEMMA FedBy ==
  ASSUME NEW E, NEW b, NEW x
  PROVE  x \in Feeding(E, b) <=> \E e \in E : e.target = b /\ e.source = x
BY DEF Feeding

\* A set that takes in what feeds it has all that is upstream.
LEMMA UpstreamWithin ==
  ASSUME NEW E, NEW b, NEW S \in SUBSET Blocks, \A c \in S \union {b} : Feeding(E, c) \subseteq S
  PROVE  Upstream(E, b) \subseteq S
BY DEF Upstream

\* What is upstream takes in what feeds it.
LEMMA UpstreamCloses ==
  ASSUME NEW E, E \subseteq EdgeOf, NEW b
  PROVE  /\ Upstream(E, b) \subseteq Blocks
         /\ \A c \in Upstream(E, b) \union {b} : Feeding(E, c) \subseteq Upstream(E, b)
<1>1. Upstream(E, b) \subseteq Blocks
  BY DEF Upstream
<1>2. ASSUME NEW c \in Upstream(E, b) \union {b}, NEW x \in Feeding(E, c) PROVE x \in Upstream(E, b)
  <2>1. x \in Blocks
    BY <1>2, FedBy DEF EdgeOf
  <2>2. ASSUME NEW S \in SUBSET Blocks, \A k \in S \union {b} : Feeding(E, k) \subseteq S
        PROVE  x \in S
    <3>1. c \in S \union {b}
      BY <1>2, <2>2, UpstreamWithin
    <3> QED
      BY <1>2, <2>2, <3>1
  <2> QED
    BY <2>1, <2>2 DEF Upstream
<1> QED
  BY <1>1, <1>2

\* Who is in no circle: one set that closes without him shows it.
LEMMA NoCircle ==
  ASSUME NEW E, NEW x, NEW S \in SUBSET Blocks, \A c \in S \union {x} : Feeding(E, c) \subseteq S, x \notin S
  PROVE  x \notin Upstream(E, x)
BY UpstreamWithin

LEMMA SoundShrinks ==
  ASSUME NEW E, EdgesSound(E), NEW D, D \subseteq E
  PROVE  EdgesSound(D)
<1>1. D \subseteq EdgeOf /\ E \subseteq EdgeOf /\ \A d, e \in D : d.target = e.target => d = e
  BY DEF EdgesSound
<1>2. ASSUME NEW x \in Blocks PROVE x \notin Upstream(D, x)
  <2> DEFINE S == Upstream(E, x)
  <2>1. S \in SUBSET Blocks /\ \A c \in S \union {x} : Feeding(E, c) \subseteq S
    BY <1>1, UpstreamCloses
  <2>2. x \notin S
    BY DEF EdgesSound
  <2>3. \A c : Feeding(D, c) \subseteq Feeding(E, c)
    BY DEF Feeding
  <2> HIDE DEF S
  <2> QED
    BY <2>1, <2>2, <2>3, NoCircle
<1> QED
  BY <1>1, <1>2 DEF EdgesSound

\* A connection that connectionRejection lets pass.
LEMMA EdgeAdded ==
  ASSUME NEW E, EdgesSound(E), NEW a \in Blocks, NEW b \in Blocks, NEW n \in Nat,
         a # b, ~InputTaken(E, b), b \notin Upstream(E, a)
  PROVE  EdgesSound(E \union {[id |-> n, source |-> a, target |-> b]})
<1> DEFINE new == [id |-> n, source |-> a, target |-> b]
           D == E \union {new}
           U == Upstream(E, a) \union {a}
<1>1. E \subseteq EdgeOf /\ new \in EdgeOf
  BY DEF EdgesSound, EdgeOf
<1>2. D \subseteq EdgeOf /\ \A d, e \in D : d.target = e.target => d = e
  BY <1>1 DEF EdgesSound, InputTaken
<1>3. \A c : Feeding(D, c) = IF c = b THEN Feeding(E, c) \union {a} ELSE Feeding(E, c)
  <2>1. new.target = b /\ new.source = a
    OBVIOUS
  <2> HIDE DEF new
  <2>2. \A c, x : x \in Feeding(D, c) <=> x \in Feeding(E, c) \/ (c = b /\ x = a)
    BY <2>1, FedBy
  <2> HIDE DEF D
  <2> QED
    BY <2>2
<1>4. U \in SUBSET Blocks /\ b \notin U /\ \A c \in U : Feeding(E, c) \subseteq U
  BY <1>1, UpstreamCloses
<1>5. ASSUME NEW x \in Blocks PROVE x \notin Upstream(D, x)
  <2> DEFINE S == Upstream(E, x)
  <2>1. S \in SUBSET Blocks /\ \A c \in S \union {x} : Feeding(E, c) \subseteq S
    BY <1>1, UpstreamCloses
  <2>2. x \notin S
    BY DEF EdgesSound
  <2>3. CASE x \in U
    <3>1. Feeding(E, x) \subseteq Upstream(E, a) /\ \A c \in Upstream(E, a) : Feeding(E, c) \subseteq Upstream(E, a)
      BY <1>1, <2>3, UpstreamCloses
    <3>2. S \subseteq U
      BY <1>1, <3>1, UpstreamCloses, UpstreamWithin
    <3>3. \A c \in S \union {x} : Feeding(D, c) \subseteq S
      BY <1>3, <1>4, <2>1, <2>3, <3>2
    <3> HIDE DEF S, D
    <3> QED
      BY <2>1, <2>2, <3>3, NoCircle
  <2>4. CASE x \notin U
    <3>1. \A c \in (S \union U) \union {x} : Feeding(D, c) \subseteq S \union U
      BY <1>3, <1>4, <2>1
    <3>2. S \union U \in SUBSET Blocks /\ x \notin S \union U
      BY <1>4, <2>1, <2>2, <2>4
    <3> HIDE DEF S, D, U
    <3> QED
      BY <3>1, <3>2, NoCircle
  <2> QED
    BY <2>3, <2>4
<1> QED
  BY <1>2, <1>5 DEF EdgesSound

\* Connections among blocks that have none with the blocks of the others.
LEMMA EdgesAside ==
  ASSUME NEW E, EdgesSound(E), NEW D, EdgesSound(D), NEW A, NEW B, A \cap B = {},
         \A e \in E : e.source \in A /\ e.target \in A, \A e \in D : e.source \in B /\ e.target \in B
  PROVE  EdgesSound(E \union D)
<1>1. E \union D \subseteq EdgeOf /\ E \subseteq EdgeOf /\ D \subseteq EdgeOf
      /\ \A d, e \in E \union D : d.target = e.target => d = e
  BY DEF EdgesSound
<1>2. ASSUME NEW x \in Blocks PROVE x \notin Upstream(E \union D, x)
  <2>1. CASE x \notin B
    <3> DEFINE S == Upstream(E, x) \cap A
    <3>1. \A c : c \notin B => Feeding(E \union D, c) = Feeding(E, c) /\ Feeding(E, c) \subseteq A
      BY DEF Feeding
    <3>2. \A c \in S \union {x} : Feeding(E, c) \subseteq Upstream(E, x)
      BY <1>1, UpstreamCloses
    <3>3. \A c \in S \union {x} : Feeding(E \union D, c) \subseteq S
      BY <2>1, <3>1, <3>2
    <3>4. S \in SUBSET Blocks /\ x \notin S
      BY <1>1, UpstreamCloses DEF EdgesSound
    <3> HIDE DEF S
    <3> QED
      BY <3>3, <3>4, NoCircle
  <2>2. CASE x \notin A
    <3> DEFINE S == Upstream(D, x) \cap B
    <3>1. \A c : c \notin A => Feeding(E \union D, c) = Feeding(D, c) /\ Feeding(D, c) \subseteq B
      BY DEF Feeding
    <3>2. \A c \in S \union {x} : Feeding(D, c) \subseteq Upstream(D, x)
      BY <1>1, UpstreamCloses
    <3>3. \A c \in S \union {x} : Feeding(E \union D, c) \subseteq S
      BY <2>2, <3>1, <3>2
    <3>4. S \in SUBSET Blocks /\ x \notin S
      BY <1>1, UpstreamCloses DEF EdgesSound
    <3> HIDE DEF S
    <3> QED
      BY <3>3, <3>4, NoCircle
  <2> QED
    BY <2>1, <2>2
<1> QED
  BY <1>1, <1>2 DEF EdgesSound

\* The copies of connections, between the copies of their blocks.
Copies(n, new, order) ==
  {[id |-> n + i, source |-> new[order[i].source], target |-> new[order[i].target]] : i \in 1..Len(order)}

LEMMA EdgesCopied ==
  ASSUME NEW C, EdgesSound(C), NEW K, \A e \in C : e.source \in K /\ e.target \in K,
         NEW new \in [K -> Blocks], IsInjective(new),
         NEW n \in Nat, NEW order \in Seq(C), IsInjective(order)
  PROVE  EdgesSound(Copies(n, new, order))
<1> DEFINE copy(i) == [id |-> n + i, source |-> new[order[i].source], target |-> new[order[i].target]]
           P == {copy(i) : i \in 1..Len(order)}
<1>1. \A i \in 1..Len(order) : order[i] \in C /\ order[i].source \in K /\ order[i].target \in K
  OBVIOUS
<1>2. \A i \in 1..Len(order) : /\ copy(i) \in EdgeOf
                               /\ copy(i).source = new[order[i].source] /\ copy(i).target = new[order[i].target]
  BY <1>1 DEF EdgeOf
<1>3. \A i, j \in 1..Len(order) : copy(i).target = copy(j).target => i = j
  BY <1>1, <1>2 DEF EdgesSound, IsInjective
<1>4. P \subseteq EdgeOf /\ \A d, e \in P : d.target = e.target => d = e
  <2> HIDE DEF copy
  <2> QED
    BY <1>2, <1>3
<1>5. ASSUME NEW x \in Blocks PROVE x \notin Upstream(P, x)
  <2>1. CASE \A k \in K : new[k] # x
    <3>1. Feeding(P, x) = {}
      BY <1>1, <1>2, <2>1, FedBy
    <3> HIDE DEF P
    <3> QED
      BY <3>1, NoCircle
  <2>2. CASE \E k \in K : new[k] = x
    <3>1. PICK k \in K : new[k] = x
      BY <2>2
    <3> DEFINE Up == Upstream(C, k)
               S == {new[c] : c \in Up \cap K}
    <3>2. Up \subseteq Blocks /\ \A c \in Up \union {k} : Feeding(C, c) \subseteq Up
      BY UpstreamCloses DEF EdgesSound
    <3>3. k \notin Up
      <4>1. ASSUME k \in Blocks PROVE k \notin Up
        BY <4>1 DEF EdgesSound
      <4> QED
        BY <3>2, <4>1
    <3> HIDE DEF Up
    <3>4. ASSUME NEW y \in S \union {x}, NEW z \in Feeding(P, y) PROVE z \in S
      <4>1. PICK c \in K : c \in Up \union {k} /\ y = new[c]
        BY <3>1, <3>4
      <4>2. PICK i \in 1..Len(order) : copy(i).target = y /\ copy(i).source = z
        BY <3>4, FedBy
      <4>3. order[i].target = c
        BY <1>1, <1>2, <4>1, <4>2 DEF IsInjective
      <4>4. order[i].source \in Up
        BY <1>1, <3>2, <4>1, <4>3, FedBy
      <4> QED
        BY <1>1, <1>2, <4>2, <4>4
    <3>5. x \notin S
      BY <3>1, <3>3 DEF IsInjective
    <3>6. S \in SUBSET Blocks
      OBVIOUS
    <3> HIDE DEF S, P
    <3> QED
      BY <3>4, <3>5, <3>6, NoCircle
  <2> QED
    BY <2>1, <2>2
<1>6. EdgesSound(P)
  BY <1>4, <1>5 DEF EdgesSound
<1> QED
  BY <1>6 DEF Copies

\* The order that SetToSeq gives a finite set names each element once.
LEMMA OrderIs ==
  ASSUME NEW S, IsFiniteSet(S)
  PROVE  LET s == SeqExt!SetToSeq(S) IN s \in [1..Cardinality(S) -> S] /\ IsInjective(s)
<1>1. \E f \in [1..Cardinality(S) -> S] : IsInjective(f)
  <2>1. ExistsBijection(1..Cardinality(S), S)
    BY FS_CardinalityType
  <2> QED
    BY <2>1 DEF ExistsBijection, Bijection, Injection
<1>2. \A f : SeqExt!IsInjective(f) <=> IsInjective(f)
  BY DEF IsInjective, SeqExt!IsInjective
<1>3. SeqExt!Cardinality(S) = Cardinality(S)
  BY DEF SeqExt!Cardinality, Cardinality
<1>4. SeqExt!SetToSeq(S) = CHOOSE f \in [1..Cardinality(S) -> S] : IsInjective(f)
  BY <1>2, <1>3 DEF SeqExt!SetToSeq
<1> QED
  BY <1>1, <1>4

LEMMA GraphGrows ==
  ASSUME NEW g, NEW U, NEW V, U \subseteq V, GraphSound(g, U)
  PROVE  GraphSound(g, V)
BY DEF GraphSound

\* An edit of the canvas leaves what is stored, listed, copied and on its way.
LEMMA RestStays ==
  ASSUME FlowsSound, PutsSound, used.blocks \subseteq used'.blocks, used'.blocks \subseteq Blocks,
         DOMAIN used' = Parts, used'.edges \in Nat, GraphSound(canvas', used'.blocks),
         clip' = clip, loaded' = loaded, kept' = kept, fetched' = fetched, canvasPuts' = canvasPuts
  PROVE  FlowsSound' /\ PutsSound'
<1>1. /\ GraphSound(clip, used.blocks)
      /\ \A f \in CanvasFlows : GraphSound(kept[f].graph, used.blocks) /\ GraphSound(fetched[f].graph, used.blocks)
  BY DEF FlowsSound
<1>2. /\ GraphSound(clip, used'.blocks)
      /\ \A f \in CanvasFlows : GraphSound(kept[f].graph, used'.blocks) /\ GraphSound(fetched[f].graph, used'.blocks)
  BY <1>1, GraphGrows
<1>3. FlowsSound'
  BY <1>2 DEF FlowsSound
<1>4. \A k \in Kinds : canvasPuts[k].state # "none" => GraphSound(canvasPuts[k].graph, used'.blocks)
  BY GraphGrows DEF PutsSound
<1>5. PutsSound'
  BY <1>4 DEF PutsSound
<1> QED
  BY <1>3, <1>5

LEMMA StackStays ==
  ASSUME StackSound, used.blocks \subseteq used'.blocks, undo' = undo, sound' = sound,
         Ids(canvas) \subseteq Ids(canvas'), EdgesSound(canvas'.edges \union ToComeBack(undo, sound))
  PROVE  StackSound'
<1>1. \A i \in 1..Len(undo) : EntrySound(undo[i], used'.blocks)
  BY DEF StackSound, EntrySound
<1>2. UndoLosesNothing'
  BY DEF StackSound, UndoLosesNothing
<1> QED
  BY <1>1, <1>2 DEF StackSound

LEMMA JoinedIds ==
  ASSUME NEW f, NEW g
  PROVE  DOMAIN Joined(f, g) = DOMAIN f \union DOMAIN g
BY DEF Joined

LEMMA AddBlockSound ==
  ASSUME SoundInv, AddBlock
  PROVE  SoundInv'
<1>1. PICK b \in Fresh : /\ Ids(canvas') = Ids(canvas) \union {b} /\ canvas'.edges = canvas.edges
                         /\ DOMAIN canvas' = Parts
                         /\ used' = [used EXCEPT !.blocks = @ \union {b}]
  <2> DEFINE b == CHOOSE x \in Fresh : TRUE
             name == Deduped(1, Range(canvas.blocks))
             more == [x \in {b} |-> name]
  <2>1. b \in Fresh
    BY DEF AddBlock
  <2>2. /\ canvas' = [canvas EXCEPT !.blocks = Joined(@, more)]
        /\ used' = [used EXCEPT !.blocks = @ \union {b}]
    BY DEF AddBlock
  <2>3. DOMAIN more = {b}
    OBVIOUS
  <2>4. DOMAIN canvas = Parts
    BY DEF SoundInv, FlowsSound, GraphSound
  <2> HIDE DEF b, name, more
  <2>5. DOMAIN canvas' = Parts /\ canvas'.edges = canvas.edges /\ canvas'.blocks = Joined(canvas.blocks, more)
    BY <2>2, <2>4 DEF Parts
  <2>6. Ids(canvas') = Ids(canvas) \union {b}
    BY <2>3, <2>5, JoinedIds DEF Ids
  <2> QED
    BY <2>1, <2>2, <2>5, <2>6
<1>2. used'.blocks = used.blocks \union {b} /\ used'.edges = used.edges /\ DOMAIN used' = Parts
  BY <1>1 DEF SoundInv, FlowsSound, Parts
<1>3. GraphSound(canvas', used'.blocks)
  BY <1>1, <1>2 DEF SoundInv, FlowsSound, GraphSound
<1>4. FlowsSound' /\ PutsSound'
  BY <1>1, <1>2, <1>3, RestStays DEF SoundInv, AddBlock, FlowsSound, Fresh
<1>5. StackSound'
  BY <1>1, <1>2, StackStays DEF SoundInv, AddBlock, StackSound
<1> QED
  BY <1>4, <1>5 DEF SoundInv

LEMMA NameBlockSound ==
  ASSUME SoundInv, NEW b, NEW name, NameBlock(b, name)
  PROVE  SoundInv'
<1>1. /\ Ids(canvas') = Ids(canvas) /\ canvas'.edges = canvas.edges /\ DOMAIN canvas' = Parts
      /\ used' = used
  BY DEF NameBlock, SoundInv, FlowsSound, GraphSound, Ids, Parts
<1>2. GraphSound(canvas', used'.blocks)
  BY <1>1 DEF SoundInv, FlowsSound, GraphSound
<1>3. FlowsSound' /\ PutsSound'
  BY <1>1, <1>2, RestStays DEF SoundInv, NameBlock, FlowsSound
<1>4. StackSound'
  BY <1>1, StackStays DEF SoundInv, NameBlock, StackSound
<1> QED
  BY <1>3, <1>4 DEF SoundInv

\* Once something was connected nothing is recalled.
LEMMA NothingRecalled ==
  ASSUME NEW stack, Len(stack) \in Nat
  PROVE  ToComeBack(stack, 0) = {}
BY DEF ToComeBack

LEMMA ConnectBlocksSound ==
  ASSUME SoundInv, NEW a \in Blocks, NEW b \in Blocks, ConnectBlocks(a, b)
  PROVE  SoundInv'
<1> DEFINE new == [id |-> used.edges + 1, source |-> a, target |-> b]
<1>1. /\ canvas'.edges = canvas.edges \union {new} /\ DOMAIN canvas' = Parts
      /\ Ids(canvas') = Ids(canvas) /\ used'.blocks = used.blocks /\ DOMAIN used' = Parts
      /\ used'.edges = used.edges + 1 /\ used.edges \in Nat
  BY DEF ConnectBlocks, SoundInv, FlowsSound, GraphSound, Ids, Parts
<1>2. EdgesSound(canvas'.edges)
  <2>1. used.edges + 1 \in Nat /\ EdgesSound(canvas.edges)
    BY <1>1 DEF SoundInv, FlowsSound, GraphSound
  <2>2. a # b /\ ~InputTaken(canvas.edges, b) /\ b \notin Upstream(canvas.edges, a)
    BY DEF ConnectBlocks, Rejected
  <2> HIDE DEF new
  <2> QED
    BY <1>1, <2>1, <2>2, EdgeAdded DEF new
<1>3. GraphSound(canvas', used'.blocks)
  <2>1. IsFiniteSet(canvas'.edges)
    <3>1. IsFiniteSet(canvas.edges)
      BY DEF SoundInv, FlowsSound, GraphSound
    <3> HIDE DEF new
    <3> QED
      BY <1>1, <3>1, FS_AddElement
  <2>2. {new.source, new.target} \subseteq Ids(canvas)
    BY DEF ConnectBlocks
  <2> QED
    BY <1>1, <1>2, <2>1, <2>2 DEF SoundInv, FlowsSound, GraphSound
<1>4. FlowsSound' /\ PutsSound'
  BY <1>1, <1>3, RestStays DEF SoundInv, ConnectBlocks, FlowsSound
<1>5. UndoLosesNothing'
  BY <1>1 DEF SoundInv, StackSound, UndoLosesNothing, ConnectBlocks
<1>6. StackSound'
  <2>1. undo' = undo /\ sound' = 0 /\ Len(undo) \in Nat
    BY DEF ConnectBlocks, SoundInv, StackSound
  <2>2. EdgesSound(canvas'.edges \union ToComeBack(undo', sound'))
    BY <1>2, <2>1, NothingRecalled
  <2> QED
    BY <1>1, <1>5, <2>1, <2>2 DEF StackSound, SoundInv
<1> QED
  BY <1>4, <1>6 DEF SoundInv

LEMMA OfItsRange ==
  ASSUME NEW T, NEW s \in Seq(T)
  PROVE  s \in Seq(Range(s)) /\ Len(s) \in Nat
<1>1. DOMAIN s = 1..Len(s) /\ Len(s) \in Nat /\ s = [i \in 1..Len(s) |-> s[i]]
  OBVIOUS
<1>2. \A i \in 1..Len(s) : s[i] \in Range(s)
  BY <1>1 DEF Range
<1> QED
  BY <1>1, <1>2

\* A deletion goes on top; the oldest one falls off a full stack.
LEMMA Pushed ==
  ASSUME NEW stack, stack \in Seq(Range(stack)), Len(stack) <= MaxUndo, NEW entry,
         NEW s, s = Capped(Append(stack, entry))
  PROVE  /\ s \in Seq(Range(s)) /\ Len(s) \in 1..MaxUndo /\ s[Len(s)] = entry
         /\ Lesser(Len(stack) + 1, MaxUndo) = Len(s)
         /\ \E k \in {0, 1} : /\ Len(s) = Len(stack) + 1 - k
                              /\ \A i \in 1..(Len(s) - 1) : i + k \in 1..Len(stack) /\ s[i] = stack[i + k]
<1> DEFINE T == Range(stack) \union {entry}
           a == Append(stack, entry)
<1>1. Len(stack) \in Nat /\ MaxUndo \in Nat \ {0}
  BY CanvasAssumption
<1>2. /\ a \in Seq(T) /\ Len(a) = Len(stack) + 1 /\ a[Len(stack) + 1] = entry
      /\ \A i \in 1..Len(stack) : a[i] = stack[i]
  <2>1. stack \in Seq(T) /\ entry \in T
    OBVIOUS
  <2> HIDE DEF T
  <2> QED
    BY <2>1
<1> HIDE DEF a, T
<1>3. CASE Len(a) > MaxUndo
  <2>1. s = Tail(a) /\ Len(stack) = MaxUndo
    BY <1>1, <1>2, <1>3 DEF Capped, a
  <2>2. s \in Seq(T) /\ Len(s) = Len(stack) /\ \A i \in 1..Len(s) : s[i] = a[i + 1]
    BY <1>1, <1>2, <2>1
  <2>3. s[Len(s)] = entry /\ \A i \in 1..(Len(s) - 1) : i + 1 \in 1..Len(stack) /\ s[i] = stack[i + 1]
    BY <1>1, <1>2, <2>1, <2>2
  <2> QED
    <3>1. s \in Seq(Range(s)) /\ Len(s) = MaxUndo
      BY <2>1, <2>2, OfItsRange
    <3> QED
      BY <1>1, <2>1, <2>3, <3>1 DEF Lesser
<1>4. CASE Len(a) <= MaxUndo
  <2>1. s = a
    BY <1>1, <1>2, <1>4 DEF Capped, a
  <2>2. s[Len(s)] = entry /\ \A i \in 1..(Len(s) - 1) : i + 0 \in 1..Len(stack) /\ s[i] = stack[i + 0]
    BY <1>1, <1>2, <2>1
  <2> QED
    BY <1>1, <1>2, <1>4, <2>1, <2>2, OfItsRange DEF Lesser
<1> QED
  BY <1>1, <1>2, <1>3, <1>4, SMTT(30)

LEMMA Popped ==
  ASSUME NEW stack, stack \in Seq(Range(stack)), stack # <<>>, NEW s, s = Remaining(stack)
  PROVE  /\ s \in Seq(Range(s)) /\ Len(s) = Len(stack) - 1 /\ Len(stack) \in Nat \ {0}
         /\ \A i \in 1..Len(s) : s[i] = stack[i]
<1>1. Len(stack) \in Nat \ {0}
  OBVIOUS
<1>2. s = SubSeq(stack, 1, Len(stack) - 1)
  BY DEF Remaining
<1>3. s \in Seq(Range(stack)) /\ Len(s) = Len(stack) - 1 /\ \A i \in 1..Len(s) : s[i] = stack[i]
  <2> DEFINE T == Range(stack)
  <2>1. stack \in Seq(T)
    OBVIOUS
  <2> HIDE DEF T
  <2>2. \A i \in 1..Len(stack) : stack[i] \in T
    BY <2>1
  <2>3. s = [i \in 1..(Len(stack) - 1) |-> stack[i]]
    BY <1>1, <1>2
  <2>4. Len(stack) - 1 \in Nat /\ \A i \in 1..(Len(stack) - 1) : stack[i] \in T
    BY <1>1, <2>2
  <2> QED
    BY <2>3, <2>4 DEF T
<1> QED
  BY <1>1, <1>3, OfItsRange

LEMMA RecalledIs ==
  ASSUME NEW stack, NEW s, NEW e
  PROVE  e \in ToComeBack(stack, s) <=> \E j \in (Len(stack) - s + 1)..Len(stack) : e \in stack[j].edges
BY DEF ToComeBack

\* Whether an end of an edge is there when its turn comes.
BroughtBack(stack, g, i, x) == x \in Ids(g) \/ \E j \in i..Len(stack) : x \in Ids(stack[j])

LEMMA NothingLostMeans ==
  UndoLosesNothing <=>
    \A i \in 1..Len(undo) : \A e \in undo[i].edges :
      BroughtBack(undo, canvas, i, e.source) /\ BroughtBack(undo, canvas, i, e.target)
BY DEF UndoLosesNothing, BroughtBack

LEMMA DeletePartsSound ==
  ASSUME SoundInv, NEW B \in SUBSET Ids(canvas), NEW E \in SUBSET canvas.edges, DeleteParts(B, E)
  PROVE  SoundInv'
<1> DEFINE edges == E \union Touching(canvas, B)
           entry == [Part(canvas, B) EXCEPT !.edges = edges]
<1>1. /\ undo' = Capped(Append(undo, entry)) /\ sound' = Lesser(sound + 1, MaxUndo) /\ used' = used
      /\ canvas' = [blocks |-> Restrict(canvas.blocks, Ids(canvas) \ B), edges |-> canvas.edges \ edges]
      /\ clip' = clip /\ loaded' = loaded /\ kept' = kept /\ fetched' = fetched /\ canvasPuts' = canvasPuts
  BY DEF DeleteParts
<1>2. /\ DOMAIN entry = Parts /\ entry.edges = edges /\ Ids(entry) = B
      /\ edges \subseteq canvas.edges
      /\ \A e \in canvas.edges : e \in edges \/ (e.source \notin B /\ e.target \notin B)
  BY DEF Part, Parts, Ids, Restrict, Touching
<1>3. DOMAIN canvas' = Parts /\ Ids(canvas') = Ids(canvas) \ B /\ canvas'.edges = canvas.edges \ edges
  BY <1>1 DEF Parts, Ids, Restrict
<1>4. /\ Ids(canvas) \subseteq used.blocks /\ IsFiniteSet(canvas.edges) /\ EdgesSound(canvas.edges)
      /\ \A e \in canvas.edges : e.source \in Ids(canvas) /\ e.target \in Ids(canvas)
      /\ canvas.edges \subseteq EdgeOf /\ used.blocks \subseteq Blocks
  BY DEF SoundInv, FlowsSound, GraphSound, EdgesSound
<1> HIDE DEF edges, entry
<1>5. IsFiniteSet(edges) /\ IsFiniteSet(canvas.edges \ edges)
  BY <1>2, <1>4, FS_Subset
<1>6. GraphSound(canvas', used.blocks)
  <2>1. EdgesSound(canvas.edges \ edges)
    BY <1>4, SoundShrinks
  <2>2. \A e \in canvas'.edges : e.source \in Ids(canvas') /\ e.target \in Ids(canvas')
    BY <1>2, <1>3, <1>4
  <2> QED
    BY <1>3, <1>4, <1>5, <2>1, <2>2 DEF GraphSound
<1>7. FlowsSound' /\ PutsSound'
  BY <1>1, <1>6, RestStays DEF SoundInv, FlowsSound
<1>8. /\ undo \in Seq(Range(undo)) /\ Len(undo) <= MaxUndo /\ sound \in 0..Len(undo)
      /\ \A i \in 1..Len(undo) : EntrySound(undo[i], used.blocks)
      /\ EdgesSound(canvas.edges \union ToComeBack(undo, sound)) /\ UndoLosesNothing
      /\ Len(undo) \in Nat /\ MaxUndo \in Nat \ {0}
  BY CanvasAssumption DEF SoundInv, StackSound
<1>9. /\ undo' \in Seq(Range(undo')) /\ Len(undo') \in 1..MaxUndo /\ undo'[Len(undo')] = entry
      /\ Lesser(Len(undo) + 1, MaxUndo) = Len(undo')
  BY <1>1, <1>8, Pushed
<1>10. PICK k \in {0, 1} :
         /\ Len(undo') = Len(undo) + 1 - k
         /\ \A i \in 1..(Len(undo') - 1) : i + k \in 1..Len(undo) /\ undo'[i] = undo[i + k]
  BY <1>1, <1>8, Pushed
<1>11. sound' \in 0..Len(undo') /\ sound' <= sound + 1
  BY <1>1, <1>8, <1>9 DEF Lesser
<1>12. \A i \in 1..Len(undo') : EntrySound(undo'[i], used.blocks)
  <2>1. EntrySound(entry, used.blocks)
    BY <1>2, <1>4, <1>5 DEF EntrySound
  <2> SUFFICES ASSUME NEW i \in 1..Len(undo') PROVE EntrySound(undo'[i], used.blocks)
    OBVIOUS
  <2>2. CASE i = Len(undo')
    BY <1>9, <2>1, <2>2
  <2>3. CASE i # Len(undo')
    <3>1. i \in 1..(Len(undo') - 1)
      BY <1>9, <2>3
    <3>2. i + k \in 1..Len(undo) /\ undo'[i] = undo[i + k]
      BY <1>10, <3>1
    <3> QED
      BY <1>8, <3>2
  <2> QED
    BY <2>2, <2>3
<1>13. UndoLosesNothing'
  <2> SUFFICES ASSUME NEW i \in 1..Len(undo'), NEW e \in undo'[i].edges, NEW x \in {e.source, e.target}
               PROVE  BroughtBack(undo', canvas', i, x)
    BY NothingLostMeans DEF UndoLosesNothing, BroughtBack
  <2>1. ASSUME x \in Ids(canvas) PROVE BroughtBack(undo', canvas', i, x)
    <3>1. x \in Ids(canvas') \/ x \in Ids(undo'[Len(undo')])
      BY <1>2, <1>3, <1>9, <2>1
    <3>2. Len(undo') \in i..Len(undo')
      BY <1>9
    <3> QED
      BY <3>1, <3>2 DEF BroughtBack
  <2>2. CASE i = Len(undo')
    BY <1>2, <1>4, <1>9, <2>1, <2>2
  <2>3. CASE i < Len(undo')
    <3>1. i \in 1..(Len(undo') - 1)
      BY <1>9, <2>3
    <3>2. i + k \in 1..Len(undo) /\ e \in undo[i + k].edges
      BY <1>10, <3>1
    <3>3. BroughtBack(undo, canvas, i + k, x)
      BY <1>8, <3>2, NothingLostMeans
    <3>4. ASSUME NEW j \in (i + k)..Len(undo), x \in Ids(undo[j]) PROVE BroughtBack(undo', canvas', i, x)
      <4>1. j - k \in 1..(Len(undo') - 1) /\ j - k \in i..Len(undo') /\ (j - k) + k = j
        BY <1>8, <1>9, <1>10, <3>1, <3>4
      <4>2. undo'[j - k] = undo[j]
        BY <1>10, <4>1
      <4> QED
        BY <3>4, <4>1, <4>2 DEF BroughtBack
    <3> QED
      BY <2>1, <3>3, <3>4 DEF BroughtBack
  <2> QED
    BY <1>9, <2>2, <2>3
<1>14. EdgesSound(canvas'.edges \union ToComeBack(undo', sound'))
  <2>1. ASSUME NEW e \in ToComeBack(undo', sound') PROVE e \in canvas.edges \union ToComeBack(undo, sound)
    <3>1. PICK j \in (Len(undo') - sound' + 1)..Len(undo') : e \in undo'[j].edges
      BY <2>1, RecalledIs
    <3>2. CASE j = Len(undo')
      BY <1>2, <1>9, <3>1, <3>2
    <3>3. CASE j # Len(undo')
      <4>1. j \in 1..(Len(undo') - 1)
        BY <1>9, <1>11, <3>3
      <4>2. j + k \in (Len(undo) - sound + 1)..Len(undo)
        BY <1>8, <1>9, <1>10, <1>11, <4>1, SMTT(30)
      <4>3. e \in undo[j + k].edges
        BY <1>10, <3>1, <4>1
      <4> QED
        BY <4>2, <4>3, RecalledIs
    <3> QED
      BY <3>2, <3>3
  <2>2. canvas'.edges \union ToComeBack(undo', sound') \subseteq canvas.edges \union ToComeBack(undo, sound)
    BY <1>3, <2>1
  <2> QED
    BY <1>8, <2>2, SoundShrinks
<1>15. StackSound'
  BY <1>1, <1>9, <1>11, <1>12, <1>13, <1>14 DEF StackSound
<1> QED
  BY <1>7, <1>15 DEF SoundInv

LEMMA UndoDeletionSound ==
  ASSUME ~RashUndo, SoundInv, UndoDeletion
  PROVE  SoundInv'
<1> DEFINE entry == Taken(undo)
           back == {e \in entry.edges : {e.source, e.target} \subseteq Ids(canvas')}
<1>1. /\ canvas' = Restored(canvas, entry) /\ undo' = Remaining(undo) /\ undo # <<>>
      /\ sound # 0 /\ sound' = sound - 1 /\ used' = used
      /\ clip' = clip /\ loaded' = loaded /\ kept' = kept /\ fetched' = fetched /\ canvasPuts' = canvasPuts
  BY DEF UndoDeletion
<1>2. /\ undo \in Seq(Range(undo)) /\ Len(undo) <= MaxUndo /\ sound \in 0..Len(undo)
      /\ \A i \in 1..Len(undo) : EntrySound(undo[i], used.blocks)
      /\ EdgesSound(canvas.edges \union ToComeBack(undo, sound)) /\ UndoLosesNothing
      /\ MaxUndo \in Nat \ {0}
  BY CanvasAssumption DEF SoundInv, StackSound
<1>3. /\ undo' \in Seq(Range(undo')) /\ Len(undo') = Len(undo) - 1 /\ Len(undo) \in Nat \ {0}
      /\ \A i \in 1..Len(undo') : undo'[i] = undo[i]
  BY <1>1, <1>2, Popped
<1>4. EntrySound(entry, used.blocks) /\ entry = undo[Len(undo)]
  BY <1>2, <1>3 DEF Taken
<1> HIDE DEF entry
<1>5. /\ DOMAIN canvas' = Parts /\ Ids(canvas') = Ids(canvas) \union Ids(entry)
      /\ canvas'.edges = canvas.edges \union back
  BY <1>1, JoinedIds DEF Restored, Parts, Ids
<1>6. /\ Ids(canvas) \subseteq used.blocks /\ IsFiniteSet(canvas.edges) /\ DOMAIN canvas = Parts
      /\ \A e \in canvas.edges : e.source \in Ids(canvas) /\ e.target \in Ids(canvas)
  BY DEF SoundInv, FlowsSound, GraphSound
<1>7. back \subseteq entry.edges /\ \A e \in back : e.source \in Ids(canvas') /\ e.target \in Ids(canvas')
  OBVIOUS
<1> HIDE DEF back
<1>8. canvas'.edges \union ToComeBack(undo', sound') \subseteq canvas.edges \union ToComeBack(undo, sound)
  <2>1. \A e \in back : e \in ToComeBack(undo, sound)
    <3>1. Len(undo) \in (Len(undo) - sound + 1)..Len(undo)
      BY <1>1, <1>2, <1>3
    <3> QED
      BY <1>4, <1>7, <3>1, RecalledIs
  <2>2. ASSUME NEW e \in ToComeBack(undo', sound') PROVE e \in ToComeBack(undo, sound)
    <3>1. PICK j \in (Len(undo') - sound' + 1)..Len(undo') : e \in undo'[j].edges
      BY <2>2, RecalledIs
    <3>2. j \in (Len(undo) - sound + 1)..Len(undo) /\ j \in 1..Len(undo')
      BY <1>1, <1>2, <1>3
    <3> QED
      BY <1>3, <3>1, <3>2, RecalledIs
  <2> QED
    BY <1>5, <2>1, <2>2
<1>9. EdgesSound(canvas'.edges \union ToComeBack(undo', sound')) /\ EdgesSound(canvas'.edges)
  <2>1. canvas'.edges \subseteq canvas.edges \union ToComeBack(undo, sound)
    BY <1>8
  <2> QED
    BY <1>2, <1>8, <2>1, SoundShrinks
<1>10. GraphSound(canvas', used.blocks)
  <2>1. IsFiniteSet(canvas'.edges)
    <3>1. IsFiniteSet(back)
      BY <1>4, <1>7, FS_Subset DEF EntrySound
    <3> QED
      BY <1>5, <1>6, <3>1, FS_Union
  <2>2. Ids(canvas') \subseteq used.blocks
    BY <1>4, <1>5, <1>6 DEF EntrySound
  <2>3. \A e \in canvas'.edges : e.source \in Ids(canvas') /\ e.target \in Ids(canvas')
    BY <1>5, <1>6, <1>7
  <2> QED
    BY <1>5, <1>9, <2>1, <2>2, <2>3 DEF GraphSound
<1>11. FlowsSound' /\ PutsSound'
  BY <1>1, <1>10, RestStays DEF SoundInv, FlowsSound
<1>12. UndoLosesNothing'
  <2> SUFFICES ASSUME NEW i \in 1..Len(undo'), NEW e \in undo'[i].edges, NEW x \in {e.source, e.target}
               PROVE  BroughtBack(undo', canvas', i, x)
    BY NothingLostMeans DEF UndoLosesNothing, BroughtBack
  <2>1. i \in 1..Len(undo) /\ e \in undo[i].edges
    BY <1>3
  <2>2. BroughtBack(undo, canvas, i, x)
    BY <1>2, <2>1, NothingLostMeans
  <2>3. ASSUME NEW j \in i..Len(undo), x \in Ids(undo[j]) PROVE BroughtBack(undo', canvas', i, x)
    <3>1. CASE j = Len(undo)
      BY <1>4, <1>5, <2>3, <3>1 DEF BroughtBack
    <3>2. CASE j # Len(undo)
      <4>1. j \in i..Len(undo') /\ undo'[j] = undo[j]
        BY <1>3, <2>1, <2>3, <3>2
      <4> QED
        BY <2>3, <4>1 DEF BroughtBack
    <3> QED
      BY <3>1, <3>2
  <2> QED
    BY <1>5, <2>2, <2>3 DEF BroughtBack
<1>13. StackSound'
  <2>1. \A i \in 1..Len(undo') : EntrySound(undo'[i], used.blocks)
    BY <1>2, <1>3
  <2>2. Len(undo') <= MaxUndo /\ sound' \in 0..Len(undo')
    BY <1>1, <1>2, <1>3
  <2> QED
    BY <1>1, <1>3, <1>9, <1>12, <2>1, <2>2 DEF StackSound
<1> QED
  BY <1>11, <1>13 DEF SoundInv

LEMMA CopyBlocksSound ==
  ASSUME SoundInv, NEW B \in SUBSET Ids(canvas), CopyBlocks(B)
  PROVE  SoundInv'
<1>1. /\ DOMAIN clip' = Parts /\ Ids(clip') = B /\ clip'.edges = Within(canvas, B)
  BY DEF CopyBlocks, Part, Parts, Ids, Restrict
<1>2. /\ canvas' = canvas /\ undo' = undo /\ sound' = sound /\ used' = used
      /\ loaded' = loaded /\ kept' = kept /\ fetched' = fetched /\ canvasPuts' = canvasPuts
  BY DEF CopyBlocks
<1>3. Within(canvas, B) \subseteq canvas.edges /\ \A e \in Within(canvas, B) : e.source \in B /\ e.target \in B
  BY DEF Within
<1>4. IsFiniteSet(canvas.edges) /\ EdgesSound(canvas.edges) /\ B \subseteq used.blocks
  BY DEF SoundInv, FlowsSound, GraphSound
<1>5. GraphSound(clip', used.blocks)
  BY <1>1, <1>3, <1>4, SoundShrinks, FS_Subset DEF GraphSound
<1>6. FlowsSound' /\ PutsSound'
  BY <1>2, <1>5 DEF SoundInv, FlowsSound, PutsSound
<1>7. StackSound'
  BY <1>2 DEF SoundInv, StackSound, UndoLosesNothing
<1> QED
  BY <1>6, <1>7 DEF SoundInv

\* As many things as there are numbers up to n.
LEMMA FiniteMany ==
  ASSUME NEW n \in Nat, NEW f, DOMAIN f = 1..n
  PROVE  IsFiniteSet({f[i] : i \in 1..n})
<1> DEFINE T == {f[i] : i \in 1..n}
           g == [i \in 1..n |-> f[i]]
<1>1. IsFiniteSet(1..n)
  BY FS_Interval
<1>2. g \in Surjection(1..n, T)
  BY DEF Surjection
<1> HIDE DEF g, T
<1>3. IsFiniteSet(T)
  BY <1>1, <1>2, FS_Surjection
<1> QED
  BY <1>3 DEF T

LEMMA FiniteUnion ==
  ASSUME NEW S, IsFiniteSet(S), NEW T, IsFiniteSet(T)
  PROVE  IsFiniteSet(S \union T)
BY FS_Union

LEMMA PasteSound ==
  ASSUME SoundInv, Paste
  PROVE  SoundInv'
<1> DEFINE K == Ids(clip)
           C == clip.edges
           names == PastedNames(Range(canvas.blocks))
           order == SeqExt!SetToSeq(C)
<1>1. /\ undo' = undo /\ sound' = sound /\ clip' = clip
      /\ loaded' = loaded /\ kept' = kept /\ fetched' = fetched /\ canvasPuts' = canvasPuts
  BY DEF Paste
<1>2. /\ K \subseteq used.blocks /\ IsFiniteSet(C) /\ EdgesSound(C)
      /\ \A e \in C : e.source \in K /\ e.target \in K
      /\ Ids(canvas) \subseteq used.blocks /\ IsFiniteSet(canvas.edges) /\ DOMAIN canvas = Parts
      /\ \A e \in canvas.edges : e.source \in Ids(canvas) /\ e.target \in Ids(canvas)
      /\ used.blocks \subseteq Blocks /\ used.edges \in Nat /\ DOMAIN used = Parts
  BY DEF SoundInv, FlowsSound, GraphSound
<1> DEFINE named(new) == [b \in Range(new) |-> names[CHOOSE c \in K : new[c] = b]]
<1>3. PICK new \in [K -> Fresh] :
        /\ IsInjective(new)
        /\ canvas' = [blocks |-> Joined(canvas.blocks, named(new)), edges |-> canvas.edges \union Copies(used.edges, new, order)]
        /\ used' = [blocks |-> used.blocks \union Range(new), edges |-> used.edges + Cardinality(C)]
  BY DEF Paste, Copies
<1> DEFINE P == Copies(used.edges, new, order)
           N == Range(new)
<1>4. N \subseteq Fresh /\ \A c \in K : new[c] \in N
  BY DEF Range
<1>5. order \in [1..Cardinality(C) -> C] /\ IsInjective(order) /\ Cardinality(C) \in Nat
  BY <1>2, OrderIs, FS_CardinalityType
<1>6. order \in Seq(C) /\ Len(order) = Cardinality(C)
  <2> HIDE DEF order, C
  <2> QED
    BY <1>5
<1>7. DOMAIN named(new) = N
  OBVIOUS
<1>8. /\ DOMAIN canvas' = Parts /\ Ids(canvas') = Ids(canvas) \union N /\ canvas'.edges = canvas.edges \union P
      /\ DOMAIN used' = Parts /\ used'.blocks = used.blocks \union N /\ used'.edges = used.edges + Cardinality(C)
  <2> HIDE DEF named, N, C
  <2>1. DOMAIN Joined(canvas.blocks, named(new)) = DOMAIN canvas.blocks \union N
    BY <1>7, JoinedIds
  <2> QED
    BY <1>3, <2>1 DEF Parts, Ids, N
<1>9. EdgesSound(P)
  <2>1. new \in [K -> Blocks] /\ IsInjective(new)
    BY <1>3 DEF Fresh
  <2>2. IsInjective(order) /\ order \in Seq(C)
    BY <1>5, <1>6
  <2>3. EdgesSound(C) /\ used.edges \in Nat /\ \A e \in C : e.source \in K /\ e.target \in K
    BY <1>2
  <2> HIDE DEF order, C, K
  <2> QED
    BY <2>1, <2>2, <2>3, EdgesCopied
<1>10. \A e \in P : e.source \in N /\ e.target \in N
  <2>1. \A i \in 1..Len(order) : order[i].source \in K /\ order[i].target \in K
    BY <1>2, <1>6
  <2> HIDE DEF order, N, K
  <2> QED
    BY <1>4, <2>1 DEF Copies
<1>11. IsFiniteSet(P)
  <2> DEFINE f == [i \in 1..Len(order) |-> [id |-> used.edges + i, source |-> new[order[i].source],
                                           target |-> new[order[i].target]]]
  <2>1. P = {f[i] : i \in 1..Len(order)} /\ DOMAIN f = 1..Len(order)
    BY DEF Copies
  <2>2. Len(order) \in Nat
    BY <1>5, <1>6
  <2> HIDE DEF P, order, f
  <2> QED
    BY <2>1, <2>2, FiniteMany
<1> HIDE DEF P, N, K, C, order, names
<1>12. Fresh \cap used.blocks = {} /\ Fresh \subseteq Blocks
  BY DEF Fresh
<1>13. EdgesSound(canvas.edges \union ToComeBack(undo, sound))
       /\ \A e \in canvas.edges \union ToComeBack(undo, sound) : e.source \in used.blocks /\ e.target \in used.blocks
  <2>1. EdgesSound(canvas.edges \union ToComeBack(undo, sound))
    BY DEF SoundInv, StackSound
  <2>2. ASSUME NEW e \in ToComeBack(undo, sound), NEW x \in {e.source, e.target} PROVE x \in used.blocks
    <3>1. /\ Len(undo) \in Nat /\ sound \in 0..Len(undo) /\ UndoLosesNothing
          /\ \A i \in 1..Len(undo) : EntrySound(undo[i], used.blocks)
      BY DEF SoundInv, StackSound
    <3>2. PICK j \in 1..Len(undo) : e \in undo[j].edges
      BY <2>2, <3>1, RecalledIs
    <3>3. BroughtBack(undo, canvas, j, x)
      BY <2>2, <3>1, <3>2, NothingLostMeans
    <3>4. \A k \in j..Len(undo) : Ids(undo[k]) \subseteq used.blocks
      BY <3>1, <3>2 DEF EntrySound
    <3> QED
      BY <1>2, <3>3, <3>4 DEF BroughtBack
  <2> QED
    BY <1>2, <2>1, <2>2
<1>14. EdgesSound((canvas.edges \union ToComeBack(undo, sound)) \union P)
  <2>1. N \cap used.blocks = {}
    BY <1>4, <1>12
  <2> QED
    BY <1>9, <1>10, <1>13, <2>1, EdgesAside
<1>15. EdgesSound(canvas'.edges) /\ EdgesSound(canvas'.edges \union ToComeBack(undo, sound))
  <2>1. /\ canvas'.edges \subseteq (canvas.edges \union ToComeBack(undo, sound)) \union P
        /\ canvas'.edges \union ToComeBack(undo, sound) \subseteq (canvas.edges \union ToComeBack(undo, sound)) \union P
    BY <1>8
  <2> QED
    BY <1>14, <2>1, SoundShrinks
<1>16. GraphSound(canvas', used'.blocks)
  <2>1. IsFiniteSet(canvas'.edges)
    <3>1. IsFiniteSet(canvas.edges)
      BY <1>2
    <3> QED
      BY <1>8, <1>11, <3>1, FiniteUnion
  <2> QED
    BY <1>2, <1>8, <1>10, <1>15, <2>1 DEF GraphSound
<1>17. FlowsSound' /\ PutsSound'
  <2>1. used.blocks \subseteq used'.blocks /\ used'.blocks \subseteq Blocks /\ used'.edges \in Nat
    BY <1>2, <1>4, <1>5, <1>8, <1>12
  <2> QED
    BY <1>1, <1>8, <1>16, <2>1, RestStays DEF SoundInv
<1>18. StackSound'
  BY <1>1, <1>8, <1>15, StackStays DEF SoundInv
<1> QED
  BY <1>17, <1>18 DEF SoundInv

\* A step that leaves the canvas, the stack and the ids alone.
LEMMA OnlyFlows ==
  ASSUME SoundInv, canvas' = canvas, undo' = undo, sound' = sound, used' = used, clip' = clip,
         loaded' = loaded, DOMAIN kept' = CanvasFlows, DOMAIN canvasPuts' = Kinds,
         \A f \in CanvasFlows : /\ DOMAIN kept'[f] = {"title", "graph"}
                               /\ GraphSound(kept'[f].graph, used.blocks)
                               /\ GraphSound(fetched'[f].graph, used.blocks),
         \A k \in Kinds : canvasPuts'[k].state # "none" =>
           DOMAIN canvasPuts'[k] = {"state", "flow", "title", "graph"} /\ GraphSound(canvasPuts'[k].graph, used.blocks)
  PROVE  SoundInv'
<1>1. FlowsSound' /\ PutsSound'
  BY DEF SoundInv, FlowsSound, PutsSound
<1>2. StackSound'
  BY DEF SoundInv, StackSound, UndoLosesNothing
<1> QED
  BY <1>1, <1>2 DEF SoundInv

LEMMA SaveStartsSound ==
  ASSUME SoundInv, SaveStarts
  PROVE  SoundInv'
<1>1. /\ DOMAIN canvas = Parts /\ GraphSound(canvas, used.blocks) /\ DOMAIN canvasPuts = Kinds
  BY DEF SoundInv, FlowsSound, PutsSound, GraphSound
<1>2. /\ undo' = undo /\ sound' = sound /\ clip' = clip /\ used' = used
      /\ loaded' = loaded /\ kept' = kept /\ fetched' = fetched
      /\ canvas' = [canvas EXCEPT !.blocks = Distinct(@)]
      /\ canvasPuts' = [canvasPuts EXCEPT !["save"] = Sent(fetched[loaded].title, canvas)]
  BY DEF SaveStarts
<1>3. DOMAIN canvas' = Parts /\ Ids(canvas') = Ids(canvas) /\ canvas'.edges = canvas.edges
  <2>1. DOMAIN Distinct(canvas.blocks) = DOMAIN canvas.blocks
    BY DEF Distinct
  <2> QED
    BY <1>1, <1>2, <2>1 DEF Parts, Ids
<1>4. GraphSound(canvas', used.blocks)
  BY <1>1, <1>3 DEF GraphSound
<1>5. FlowsSound'
  BY <1>2, <1>4 DEF SoundInv, FlowsSound
<1>6. PutsSound'
  BY <1>1, <1>2 DEF SoundInv, PutsSound, Sent
<1>7. StackSound'
  BY <1>2, <1>3, StackStays DEF SoundInv, StackSound
<1> QED
  BY <1>5, <1>6, <1>7 DEF SoundInv

LEMMA RenameStartsSound ==
  ASSUME SoundInv, RenameStarts
  PROVE  SoundInv'
<1>1. /\ GraphSound(fetched[loaded].graph, used.blocks) /\ DOMAIN canvasPuts = Kinds
  BY DEF SoundInv, FlowsSound, PutsSound
<1>2. \A k \in Kinds : canvasPuts'[k].state # "none" =>
        DOMAIN canvasPuts'[k] = {"state", "flow", "title", "graph"} /\ GraphSound(canvasPuts'[k].graph, used.blocks)
  BY <1>1 DEF RenameStarts, SoundInv, PutsSound, Sent
<1>3. DOMAIN canvasPuts' = Kinds
  BY <1>1 DEF RenameStarts
<1> QED
  BY <1>2, <1>3, OnlyFlows DEF RenameStarts, SoundInv, FlowsSound

LEMMA CallsSound ==
  ASSUME SoundInv, NEW kind \in Kinds, CallStored(kind) \/ CallEnds(kind) \/ CallFails(kind)
  PROVE  SoundInv'
<1>1. /\ DOMAIN canvasPuts = Kinds /\ DOMAIN kept = CanvasFlows
      /\ \A f \in CanvasFlows : /\ DOMAIN kept[f] = {"title", "graph"} /\ GraphSound(kept[f].graph, used.blocks)
                                /\ GraphSound(fetched[f].graph, used.blocks)
      /\ \A k \in Kinds : canvasPuts[k].state # "none" =>
           DOMAIN canvasPuts[k] = {"state", "flow", "title", "graph"} /\ GraphSound(canvasPuts[k].graph, used.blocks)
  BY DEF SoundInv, FlowsSound, PutsSound
<1>2. CASE CallStored(kind)
  <2>1. /\ canvas' = canvas /\ undo' = undo /\ sound' = sound /\ used' = used /\ clip' = clip
        /\ loaded' = loaded /\ fetched' = fetched
        /\ canvasPuts[kind].state = "sent" /\ canvasPuts' = [canvasPuts EXCEPT ![kind].state = "stored"]
        /\ kept' = [kept EXCEPT ![canvasPuts[kind].flow] =
                      [title |-> canvasPuts[kind].title, graph |-> canvasPuts[kind].graph]]
    BY <1>2 DEF CallStored
  <2>2. DOMAIN kept' = CanvasFlows
        /\ \A f \in CanvasFlows : DOMAIN kept'[f] = {"title", "graph"} /\ GraphSound(kept'[f].graph, used.blocks)
    BY <1>1, <2>1
  <2>3. DOMAIN canvasPuts' = Kinds
        /\ \A k \in Kinds : canvasPuts'[k].state # "none" =>
             DOMAIN canvasPuts'[k] = {"state", "flow", "title", "graph"} /\ GraphSound(canvasPuts'[k].graph, used.blocks)
    BY <1>1, <2>1
  <2> QED
    BY <1>1, <2>1, <2>2, <2>3, OnlyFlows
<1>3. CASE CallEnds(kind) \/ CallFails(kind)
  <2>1. /\ canvas' = canvas /\ undo' = undo /\ sound' = sound /\ used' = used /\ clip' = clip
        /\ loaded' = loaded /\ kept' = kept /\ fetched' \in {fetched, kept}
        /\ canvasPuts' = [canvasPuts EXCEPT ![kind] = NoCall]
    BY <1>3 DEF CallEnds, CallFails
  <2>2. DOMAIN canvasPuts' = Kinds
        /\ \A k \in Kinds : canvasPuts'[k].state # "none" =>
             DOMAIN canvasPuts'[k] = {"state", "flow", "title", "graph"} /\ GraphSound(canvasPuts'[k].graph, used.blocks)
    BY <1>1, <2>1 DEF NoCall
  <2> QED
    BY <1>1, <2>1, <2>2, OnlyFlows
<1> QED
  BY <1>2, <1>3

LEMMA LoadFlowSound ==
  ASSUME SoundInv, NEW f \in CanvasFlows, LoadFlow(f)
  PROVE  SoundInv'
<1>1. /\ canvas' = fetched[f].graph /\ undo' = <<>> /\ sound' = 0 /\ loaded' = f
      /\ clip' = clip /\ kept' = kept /\ fetched' = fetched /\ canvasPuts' = canvasPuts /\ used' = used
  BY DEF LoadFlow
<1>2. GraphSound(canvas', used.blocks)
  BY <1>1 DEF SoundInv, FlowsSound
<1>3. FlowsSound' /\ PutsSound'
  BY <1>1, <1>2 DEF SoundInv, FlowsSound, PutsSound
<1>4. undo' \in Seq(Range(undo')) /\ Len(undo') = 0 /\ MaxUndo \in Nat
  BY <1>1, CanvasAssumption
<1>5. EdgesSound(canvas'.edges \union ToComeBack(undo', sound'))
  <2>1. ToComeBack(undo', sound') = {}
    BY <1>1, <1>4, NothingRecalled
  <2>2. canvas'.edges \union {} = canvas'.edges
    OBVIOUS
  <2> QED
    BY <1>2, <2>1, <2>2 DEF GraphSound
<1>6. StackSound'
  BY <1>1, <1>4, <1>5 DEF StackSound, UndoLosesNothing
<1> QED
  BY <1>3, <1>6 DEF SoundInv

LEMMA NoEdgesSound == EdgesSound({}) /\ \A x, y : y \notin Upstream({}, x)
<1>1. \A x : Feeding({}, x) = {}
  BY DEF Feeding
<1>2. ASSUME NEW x PROVE Upstream({}, x) = {}
  BY <1>1, UpstreamWithin
<1> QED
  BY <1>2 DEF EdgesSound

LEMMA EmptySound == ASSUME NEW U PROVE GraphSound(Empty, U)
<1>1. DOMAIN Empty = Parts /\ Ids(Empty) = {} /\ Empty.edges = {}
  BY DEF Empty, Parts, Ids
<1> QED
  BY <1>1, NoEdgesSound, FS_EmptySet DEF GraphSound

LEMMA FlowPulledSound ==
  ASSUME SoundInv, NEW f \in CanvasFlows, FlowPulled(f)
  PROVE  SoundInv'
<1>1. /\ DOMAIN canvasPuts = Kinds /\ DOMAIN kept = CanvasFlows
      /\ \A g \in CanvasFlows : /\ DOMAIN kept[g] = {"title", "graph"} /\ GraphSound(kept[g].graph, used.blocks)
      /\ \A k \in Kinds : canvasPuts[k].state # "none" =>
           DOMAIN canvasPuts[k] = {"state", "flow", "title", "graph"} /\ GraphSound(canvasPuts[k].graph, used.blocks)
  BY DEF SoundInv, FlowsSound, PutsSound
<1>2. /\ canvas' = canvas /\ undo' = undo /\ sound' = sound /\ used' = used /\ clip' = clip
      /\ loaded' = loaded /\ fetched' = kept' /\ canvasPuts' = canvasPuts
      /\ kept' = [kept EXCEPT ![f].graph = Empty]
  BY DEF FlowPulled
<1>3. DOMAIN kept' = CanvasFlows
      /\ \A g \in CanvasFlows : DOMAIN kept'[g] = {"title", "graph"} /\ kept'[g].graph \in {kept[g].graph, Empty}
  BY <1>1, <1>2
<1>4. \A g \in CanvasFlows : GraphSound(kept'[g].graph, used.blocks)
  BY <1>1, <1>3, EmptySound
<1> QED
  BY <1>1, <1>2, <1>3, <1>4, OnlyFlows

LEMMA OpeningSound ==
  /\ GraphSound(Opening, Ids(Opening)) /\ Ids(Opening) \subseteq Blocks
<1> DEFINE pair == CHOOSE p \in [1..2 -> Blocks] : p[1] # p[2]
           a == pair[1]
           b == pair[2]
           new == [id |-> 1, source |-> a, target |-> b]
<1>1. pair \in [1..2 -> Blocks] /\ a # b
  <2>1. PICK x, y \in Blocks : x # y
    BY CanvasAssumption
  <2> DEFINE q == [i \in 1..2 |-> IF i = 1 THEN x ELSE y]
  <2>2. q \in [1..2 -> Blocks] /\ q[1] = x /\ q[2] = y
    OBVIOUS
  <2> HIDE DEF q
  <2>3. \E p \in [1..2 -> Blocks] : p[1] # p[2]
    BY <2>1, <2>2
  <2> HIDE DEF pair
  <2>4. pair \in [1..2 -> Blocks] /\ pair[1] # pair[2]
    BY <2>3 DEF pair
  <2> QED
    BY <2>4
<1>2. a \in Blocks /\ b \in Blocks
  BY <1>1
<1>3. Opening = [blocks |-> [x \in {a, b} |-> IF x = a THEN 1 ELSE 2], edges |-> {new}]
  BY DEF Opening
<1> HIDE DEF a, b, pair
<1>4. DOMAIN Opening = Parts /\ Ids(Opening) = {a, b} /\ Opening.edges = {new}
  BY <1>3 DEF Parts, Ids
<1>5. EdgesSound({new})
  <2>1. EdgesSound({}) /\ ~InputTaken({}, b) /\ b \notin Upstream({}, a)
    BY NoEdgesSound DEF InputTaken
  <2>2. EdgesSound({} \union {new})
    BY <1>1, <1>2, <2>1, EdgeAdded
  <2>3. {} \union {new} = {new}
    OBVIOUS
  <2> QED
    BY <2>2, <2>3
<1>6. new.source = a /\ new.target = b
  OBVIOUS
<1> HIDE DEF new
<1>7. IsFiniteSet({new})
  BY FS_Singleton
<1> QED
  BY <1>2, <1>4, <1>5, <1>6, <1>7 DEF GraphSound

LEMMA SoundStarts == CanvasInit => SoundInv
<1> SUFFICES ASSUME CanvasInit PROVE SoundInv
  OBVIOUS
<1>1. /\ canvas = Opening /\ clip = Empty /\ used = [blocks |-> Ids(Opening), edges |-> 1]
      /\ kept = [f \in CanvasFlows |-> [title |-> 1, graph |-> IF f = loaded THEN Opening ELSE Empty]]
      /\ fetched = kept /\ loaded \in CanvasFlows /\ undo = <<>> /\ sound = 0
      /\ canvasPuts = [k \in Kinds |-> NoCall]
  BY CanvasAssumption DEF CanvasInit
<1>2. GraphSound(Opening, used.blocks) /\ used.blocks \subseteq Blocks /\ GraphSound(Empty, used.blocks)
  BY <1>1, OpeningSound, EmptySound
<1>3. FlowsSound
  BY <1>1, <1>2 DEF FlowsSound, Parts
<1>4. PutsSound
  BY <1>1 DEF PutsSound, NoCall
<1>5. undo \in Seq(Range(undo)) /\ Len(undo) = 0 /\ MaxUndo \in Nat
  BY <1>1, CanvasAssumption
<1>6. EdgesSound(canvas.edges \union ToComeBack(undo, sound))
  <2>1. ToComeBack(undo, sound) = {}
    BY <1>1, <1>5, NothingRecalled
  <2>2. canvas.edges \union {} = canvas.edges
    OBVIOUS
  <2> QED
    BY <1>1, <1>2, <2>1, <2>2 DEF GraphSound
<1>7. StackSound
  BY <1>1, <1>5, <1>6 DEF StackSound, UndoLosesNothing
<1> QED
  BY <1>3, <1>4, <1>7 DEF SoundInv

LEMMA SoundSteps == ~RashUndo /\ SoundInv /\ [CanvasNext]_canvasVars => SoundInv'
<1> SUFFICES ASSUME ~RashUndo, SoundInv, [CanvasNext]_canvasVars PROVE SoundInv'
  OBVIOUS
<1>1. CASE UNCHANGED canvasVars
  BY <1>1 DEF canvasVars, SoundInv, FlowsSound, PutsSound, StackSound, UndoLosesNothing
<1>2. CASE CanvasNext
  BY <1>2, AddBlockSound, UndoDeletionSound, PasteSound, SaveStartsSound, RenameStartsSound, NameBlockSound,
     ConnectBlocksSound, CopyBlocksSound, DeletePartsSound, CallsSound, LoadFlowSound, FlowPulledSound
     DEF CanvasNext
<1> QED
  BY <1>1, <1>2

\* CanvasIsSound: no edit, copy, undone deletion, save or load leaves an input
\* connected twice, a circle of blocks, or a connection that misses an end
\* (connectionRejection and the handlers of EditorV2.tsx).
THEOREM CanvasStaysSound == ASSUME ~RashUndo PROVE CanvasSpec => []CanvasIsSound
<1>1. SoundInv => CanvasIsSound
  BY DEF SoundInv, FlowsSound, GraphSound, StackSound, EdgesSound, CanvasIsSound
<1> QED
  BY <1>1, SoundStarts, SoundSteps, PTL DEF CanvasSpec

-----------------------------------------------------------------------------
(***************************************************************************)
(* That a draft comes back: to select a request again shows what was typed *)
(* for it last, for any requests and texts and any number of calls under   *)
(* way, while the user waits until a draft was read (~Hasty) and no read   *)
(* of a pref fails (~ReadsFail).                                           *)
(*                                                                         *)
(* The last word on a request may be in the editor, in a call on its way   *)
(* or in the prefs. The invariant says where it is (IsFinal), and that an  *)
(* answer on its way tells it or is not listened to.                       *)
(***************************************************************************)

MaybeText == DraftTexts \cup {NoDraft}
PrefCall == [call : {"get"}, of : DraftRequests, text : {NoDraft}]
            \cup [call : {"put"}, of : DraftRequests, text : MaybeText]

DraftWellTyped ==
  /\ {selectedReq, hydratedFor} \subseteq DraftRequests \cup {NoDraft}
  /\ text \in DraftTexts /\ savedText \in [DraftRequests -> DraftTexts]
  /\ draftPref \in [DraftRequests -> MaybeText]
  /\ calls \in Seq(PrefCall) /\ answers \in Seq([of : DraftRequests, read : {TRUE}, text : MaybeText])
  /\ saving \in [of : DraftRequests, text : DraftTexts] \cup {NotSaving}

\* What the pref of r will be when the calls under way have been handled, and
\* what selecting r will show then.
Puts(r) == {k \in DOMAIN calls : calls[k].call = "put" /\ calls[k].of = r}
IsFinal(r, v) ==
  \/ Puts(r) = {} /\ draftPref[r] = v
  \/ \E k \in Puts(r) : calls[k].text = v /\ \A j \in Puts(r) : j <= k
WillBeRecalled(r, t) == \E v \in MaybeText : IsFinal(r, v) /\ t = IF v = NoDraft THEN savedText[r] ELSE v

\* One draft is read at a time, that of the request selected, which is not
\* hydrated until then; nothing is put for it meanwhile.
Gets == {k \in DOMAIN calls : calls[k].call = "get"}
OneRead ==
  /\ \A k \in Gets : calls[k].of = selectedReq /\ \A j \in Puts(selectedReq) : j < k
  /\ \A j, k \in Gets : j = k
  /\ answers # <<>> => /\ Len(answers) = 1 /\ Gets = {} /\ Puts(selectedReq) = {}
                       /\ answers[1].of = selectedReq /\ answers[1].text = draftPref[selectedReq]
  /\ hydratedFor = selectedReq <=> Gets = {} /\ answers = <<>>

\* The editor shows what will be recalled, or will once the draft is read.
ShownWillBeRecalled ==
  selectedReq # NoDraft =>
    /\ hydratedFor = selectedReq => WillBeRecalled(selectedReq, text)
    /\ hydratedFor # selectedReq => (IsFinal(selectedReq, NoDraft) => text = savedText[selectedReq])

\* What is being saved is what would be recalled without the save.
SavedWillBeRecalled == saving # NotSaving => WillBeRecalled(saving.of, saving.text)

DraftInv == DraftWellTyped /\ OneRead /\ ShownWillBeRecalled /\ SavedWillBeRecalled

-----------------------------------------------------------------------------
LEMMA DraftStart == DraftInit => DraftInv
<1> SUFFICES ASSUME DraftInit PROVE DraftInv
  OBVIOUS
<1>1. calls = <<>> /\ answers = <<>> /\ selectedReq = NoDraft /\ hydratedFor = NoDraft /\ saving = NotSaving
  BY DEF DraftInit
<1>2. DraftWellTyped
  BY <1>1 DEF DraftInit, DraftWellTyped, MaybeText
<1>3. Gets = {} /\ \A r : Puts(r) = {}
  BY <1>1 DEF Gets, Puts
<1> QED
  BY <1>1, <1>2, <1>3 DEF DraftInv, OneRead, ShownWillBeRecalled, SavedWillBeRecalled

\* The queue of calls.
LEMMA CallTypes ==
  ASSUME DraftWellTyped
  PROVE  /\ DOMAIN calls = 1 .. Len(calls) /\ Len(calls) \in Nat
         /\ \A k \in DOMAIN calls : calls[k] \in PrefCall
         /\ Gets \subseteq 1 .. Len(calls) /\ \A r : Puts(r) \subseteq 1 .. Len(calls)
         /\ \A k \in DOMAIN calls : k \in Gets <=> calls[k] = Get(calls[k].of)
BY DEF DraftWellTyped, Gets, Puts, PrefCall, Get

LEMMA AnswerTypes ==
  ASSUME DraftWellTyped, Len(answers) = 1
  PROVE  answers[1] \in [of : DraftRequests, read : {TRUE}, text : MaybeText]
<1> DEFINE R == [of : DraftRequests, read : {TRUE}, text : MaybeText]
<1>1. answers \in Seq(R)
  BY DEF DraftWellTyped
<1> HIDE DEF R
<1>2. answers[1] \in R
  BY <1>1
<1> QED
  BY <1>2 DEF R

LEMMA GetsAndPuts ==
  ASSUME NEW r \in DraftRequests, NEW t \in MaybeText
  PROVE  /\ Get(r) \in PrefCall /\ Get(r).call = "get" /\ Get(r).of = r
         /\ Put(r, t) \in PrefCall /\ Put(r, t).call = "put" /\ Put(r, t).of = r /\ Put(r, t).text = t
         /\ Delete(r) = Put(r, NoDraft) /\ NoDraft \in MaybeText
BY DEF Get, Put, PrefCall, MaybeText, Delete

LEMMA CallAdded ==
  ASSUME DraftWellTyped, NEW c \in PrefCall, calls' = Append(calls, c)
  PROVE  /\ calls' \in Seq(PrefCall) /\ calls'[Len(calls) + 1] = c
         /\ \A k \in 1 .. Len(calls) : calls'[k] = calls[k]
         /\ Gets' = IF c.call = "get" THEN Gets \cup {Len(calls) + 1} ELSE Gets
         /\ \A r : Puts(r)' = IF c.call = "put" /\ c.of = r THEN Puts(r) \cup {Len(calls) + 1} ELSE Puts(r)
<1>1. /\ calls' \in Seq(PrefCall) /\ calls'[Len(calls) + 1] = c /\ calls \in Seq(PrefCall)
      /\ \A k \in 1 .. Len(calls) : calls'[k] = calls[k]
      /\ DOMAIN calls' = 1 .. (Len(calls) + 1) /\ DOMAIN calls = 1 .. Len(calls) /\ Len(calls) \in Nat
  BY DEF DraftWellTyped
<1>2. Gets' = IF c.call = "get" THEN Gets \cup {Len(calls) + 1} ELSE Gets
  BY <1>1 DEF Gets
<1>3. ASSUME NEW r PROVE Puts(r)' = IF c.call = "put" /\ c.of = r THEN Puts(r) \cup {Len(calls) + 1} ELSE Puts(r)
  BY <1>1 DEF Puts
<1> QED
  BY <1>1, <1>2, <1>3

\* What is put last is what there will be; other prefs are left alone.
LEMMA AddedIsFinal ==
  ASSUME DraftWellTyped, NEW c \in PrefCall, calls' = Append(calls, c), UNCHANGED draftPref,
         NEW r \in DraftRequests
  PROVE  /\ c.call = "put" /\ c.of = r => \A v : IsFinal(r, v)' <=> v = c.text
         /\ ~(c.call = "put" /\ c.of = r) => \A v : IsFinal(r, v)' <=> IsFinal(r, v)
<1>1. /\ calls'[Len(calls) + 1] = c /\ \A k \in 1 .. Len(calls) : calls'[k] = calls[k]
      /\ Puts(r)' = IF c.call = "put" /\ c.of = r THEN Puts(r) \cup {Len(calls) + 1} ELSE Puts(r)
  BY CallAdded
<1>2. Puts(r) \subseteq 1 .. Len(calls) /\ Len(calls) \in Nat
  BY CallTypes
<1>3. CASE c.call = "put" /\ c.of = r
  <2>1. /\ Len(calls) + 1 \in Puts(r)' /\ \A j \in Puts(r)' : j <= Len(calls) + 1
        /\ \A k \in Puts(r)' : (\A j \in Puts(r)' : j <= k) => k = Len(calls) + 1
    BY <1>1, <1>2, <1>3
  <2>2. ASSUME NEW v PROVE IsFinal(r, v)' <=> v = c.text
    BY <1>1, <2>1 DEF IsFinal
  <2> QED
    BY <1>3, <2>2
<1>4. CASE ~(c.call = "put" /\ c.of = r)
  <2>1. Puts(r)' = Puts(r) /\ \A k \in Puts(r) : calls'[k] = calls[k]
    BY <1>1, <1>2, <1>4
  <2>2. ASSUME NEW v PROVE IsFinal(r, v)' <=> IsFinal(r, v)
    BY <2>1 DEF IsFinal
  <2> QED
    BY <1>4, <2>2
<1> QED
  BY <1>3, <1>4

LEMMA FinalIsOne ==
  ASSUME DraftWellTyped, NEW r \in DraftRequests, NEW v, NEW w, IsFinal(r, v), IsFinal(r, w)
  PROVE  v = w
<1>1. Puts(r) \subseteq 1 .. Len(calls) /\ Len(calls) \in Nat
  BY CallTypes
<1>2. \A j, k \in Puts(r) : j <= k /\ k <= j => j = k
  BY <1>1
<1> QED
  BY <1>2 DEF IsFinal

LEMMA CallTaken ==
  ASSUME DraftWellTyped, calls # <<>>, calls' = Tail(calls)
  PROVE  /\ calls' \in Seq(PrefCall) /\ Head(calls) = calls[1] /\ 1 \in DOMAIN calls /\ calls[1] \in PrefCall
         /\ \A k \in Nat : k \in Gets' <=> k + 1 \in Gets /\ k # 0
         /\ \A r : \A k \in Nat : k \in Puts(r)' <=> k + 1 \in Puts(r) /\ k # 0
         /\ \A k \in Nat : k # 0 /\ k + 1 \in DOMAIN calls => calls'[k] = calls[k + 1]
         /\ Gets' \subseteq Nat /\ \A r : Puts(r)' \subseteq Nat
<1>1. /\ calls \in Seq(PrefCall) /\ calls' \in Seq(PrefCall) /\ Head(calls) = calls[1] /\ 1 \in DOMAIN calls
      /\ calls[1] \in PrefCall
      /\ DOMAIN calls = 1 .. Len(calls) /\ Len(calls) \in Nat /\ DOMAIN calls' = 1 .. (Len(calls) - 1)
      /\ \A k \in 1 .. (Len(calls) - 1) : calls'[k] = calls[k + 1]
  BY DEF DraftWellTyped
<1>2. \A k \in Nat : k \in Gets' <=> k + 1 \in Gets /\ k # 0
  BY <1>1 DEF Gets
<1>3. ASSUME NEW r PROVE (\A k \in Nat : k \in Puts(r)' <=> k + 1 \in Puts(r) /\ k # 0) /\ Puts(r)' \subseteq Nat
  BY <1>1 DEF Puts
<1>4. Gets' \subseteq Nat
  BY <1>1 DEF Gets
<1>5. \A k \in Nat : k # 0 /\ k + 1 \in DOMAIN calls => calls'[k] = calls[k + 1]
  BY <1>1
<1> QED
  BY <1>1, <1>2, <1>3, <1>4, <1>5

\* Handling a call does not change what there will be.
LEMMA TakenIsFinal ==
  ASSUME DraftWellTyped, calls # <<>>, calls' = Tail(calls), NEW r \in DraftRequests,
         draftPref' = IF calls[1].call = "put" THEN [draftPref EXCEPT ![calls[1].of] = calls[1].text] ELSE draftPref
  PROVE  \A v : IsFinal(r, v)' <=> IsFinal(r, v)
<1> SUFFICES ASSUME NEW v PROVE IsFinal(r, v)' <=> IsFinal(r, v)
  OBVIOUS
<1>1. /\ calls[1] \in PrefCall /\ 1 \in DOMAIN calls
      /\ \A k \in Nat : k \in Puts(r)' <=> k + 1 \in Puts(r) /\ k # 0
      /\ \A k \in Nat : k # 0 /\ k + 1 \in DOMAIN calls => calls'[k] = calls[k + 1]
      /\ Puts(r)' \subseteq Nat
  BY CallTaken
<1>2. Puts(r) \subseteq 1 .. Len(calls) /\ Len(calls) \in Nat /\ DOMAIN calls = 1 .. Len(calls)
  BY CallTypes
<1>3. draftPref \in [DraftRequests -> MaybeText]
  BY DEF DraftWellTyped
<1>4. ASSUME Puts(r) = {}, draftPref[r] = v PROVE IsFinal(r, v)'
  <2>1. Puts(r)' = {}
    BY <1>1, <1>4
  <2>2. ~(calls[1].call = "put" /\ calls[1].of = r)
    BY <1>1, <1>4 DEF Puts
  <2>3. draftPref'[r] = v
    BY <1>1, <1>3, <1>4, <2>2 DEF PrefCall
  <2> QED
    BY <2>1, <2>3 DEF IsFinal
<1>5. ASSUME NEW k \in Puts(r), calls[k].text = v, \A j \in Puts(r) : j <= k PROVE IsFinal(r, v)'
  <2>1. CASE k = 1
    <3>1. Puts(r)' = {}
      BY <1>1, <1>2, <1>5, <2>1
    <3>2. calls[1].call = "put" /\ calls[1].of = r
      BY <2>1 DEF Puts
    <3>3. draftPref'[r] = v
      BY <1>3, <1>5, <2>1, <3>2
    <3> QED
      BY <3>1, <3>3 DEF IsFinal
  <2>2. CASE k # 1
    <3>1. PICK i \in Nat : i = k - 1 /\ i # 0 /\ i + 1 = k
      BY <1>2, <1>5, <2>2
    <3>2. i \in Puts(r)' /\ calls'[i] = calls[k]
      BY <1>1, <1>2, <1>5, <3>1
    <3>3. \A j \in Puts(r)' : j <= i
      BY <1>1, <1>5, <3>1
    <3> QED
      BY <1>5, <3>2, <3>3 DEF IsFinal
  <2> QED
    BY <2>1, <2>2
<1>6. ASSUME Puts(r)' = {}, draftPref'[r] = v PROVE IsFinal(r, v)
  <2>1. Puts(r) \subseteq {1}
    <3>1. SUFFICES ASSUME NEW k \in Puts(r), k # 1 PROVE FALSE
      OBVIOUS
    <3>2. PICK i \in Nat : i # 0 /\ i + 1 = k
      <4>1. k - 1 \in Nat /\ k - 1 # 0 /\ (k - 1) + 1 = k
        BY <1>2, <3>1
      <4> QED
        BY <4>1
    <3>3. i \in Puts(r)'
      BY <1>1, <3>1, <3>2
    <3> QED
      BY <1>6, <3>3
  <2>2. CASE Puts(r) = {}
    <3>1. ~(calls[1].call = "put" /\ calls[1].of = r)
      BY <1>1, <2>2 DEF Puts
    <3>2. draftPref'[r] = draftPref[r]
      BY <1>1, <1>3, <3>1 DEF PrefCall
    <3> QED
      BY <1>6, <2>2, <3>2 DEF IsFinal
  <2>3. CASE Puts(r) = {1}
    <3>1. calls[1].call = "put" /\ calls[1].of = r
      BY <2>3 DEF Puts
    <3>2. calls[1].text = v
      BY <1>3, <1>6, <3>1
    <3> QED
      BY <2>3, <3>2 DEF IsFinal
  <2> QED
    BY <2>1, <2>2, <2>3
<1>7. ASSUME NEW k \in Puts(r)', calls'[k].text = v, \A j \in Puts(r)' : j <= k PROVE IsFinal(r, v)
  <2>1. k \in Nat /\ k # 0 /\ k + 1 \in Puts(r) /\ calls[k + 1] = calls'[k]
    BY <1>1, <1>2, <1>7
  <2>2. ASSUME NEW j \in Puts(r) PROVE j <= k + 1
    <3>1. CASE j = 1
      BY <2>1, <3>1
    <3>2. CASE j # 1
      <4>1. PICK i \in Nat : i = j - 1 /\ i # 0 /\ i + 1 = j
        BY <1>2, <3>2
      <4>2. i \in Puts(r)'
        BY <1>1, <4>1
      <4> QED
        BY <1>7, <2>1, <4>1, <4>2
    <3> QED
      BY <3>1, <3>2
  <2> QED
    BY <1>7, <2>1, <2>2 DEF IsFinal
<1> QED
  BY <1>4, <1>5, <1>6, <1>7 DEF IsFinal

-----------------------------------------------------------------------------
\* What ReadUnderWay says of the request selected.
LEMMA ReadIs ==
  ASSUME DraftWellTyped, OneRead
  PROVE  /\ ~ReadUnderWay(selectedReq) <=> Gets = {} /\ answers = <<>>
         /\ ~ReadUnderWay(selectedReq) <=> hydratedFor = selectedReq
<1>1. /\ \A k \in Gets : k \in DOMAIN calls /\ calls[k] = Get(selectedReq)
      /\ \A k \in DOMAIN calls : calls[k] = Get(selectedReq) => k \in Gets
  BY CallTypes DEF OneRead, Gets, Get
<1>2. (\E k \in DOMAIN calls : calls[k] = Get(selectedReq)) <=> Gets # {}
  BY <1>1
<1>3. AnswersFor(selectedReq) # {} <=> answers # <<>>
  <2>1. answers # <<>> => 1 \in DOMAIN answers /\ answers[1].of = selectedReq
    BY DEF OneRead, DraftWellTyped
  <2> QED
    BY <2>1 DEF AnswersFor, DraftWellTyped
<1> QED
  BY <1>2, <1>3 DEF ReadUnderWay, OneRead

\* Two texts that will be recalled are the same.
LEMMA RecalledIsOne ==
  ASSUME DraftWellTyped, NEW r \in DraftRequests, NEW t, NEW u, WillBeRecalled(r, t), WillBeRecalled(r, u)
  PROVE  t = u
BY FinalIsOne DEF WillBeRecalled

\* What is put will be recalled, whatever was before.
LEMMA PutIsRecalled ==
  ASSUME DraftWellTyped, NEW r \in DraftRequests, NEW t \in DraftTexts, UNCHANGED <<draftPref, savedText>>,
         calls' = Append(calls, Put(r, t))
  PROVE  WillBeRecalled(r, t)'
<1>1. IsFinal(r, t)'
  BY GetsAndPuts, AddedIsFinal DEF MaybeText
<1> QED
  BY <1>1, DraftAssumption DEF WillBeRecalled, MaybeText

LEMMA SelectRequestKeeps ==
  ASSUME ~Hasty, DraftInv, NEW r \in DraftRequests, SelectRequest(r)
  PROVE  DraftInv'
<1>1. /\ selectedReq # r /\ hydratedFor = selectedReq /\ Gets = {} /\ answers = <<>>
      /\ selectedReq' = r /\ text' = savedText[r]
      /\ calls' = calls \o <<Get(r)>> \o Kept(r, hydratedFor, savedText[r], text # savedText[r])
      /\ UNCHANGED <<hydratedFor, savedText, draftPref, answers, saving>>
  BY ReadIs DEF SelectRequest, DraftInv
<1>2. calls' = Append(calls, Get(r)) /\ Get(r) \in PrefCall /\ Get(r).call = "get" /\ Get(r).of = r
  BY <1>1, GetsAndPuts DEF Kept, DraftInv, DraftWellTyped, MaybeText
<1>3. /\ calls' \in Seq(PrefCall) /\ Gets' = {Len(calls) + 1} /\ calls'[Len(calls) + 1] = Get(r)
      /\ Puts(r)' = Puts(r) /\ Puts(r) \subseteq 1 .. Len(calls) /\ Len(calls) \in Nat
  BY <1>1, <1>2, CallAdded, CallTypes DEF DraftInv
<1>4. \A q \in DraftRequests : \A v : IsFinal(q, v)' <=> IsFinal(q, v)
  BY <1>1, <1>2, AddedIsFinal DEF DraftInv
<1>5. DraftWellTyped'
  BY <1>1, <1>3 DEF DraftInv, DraftWellTyped
<1>6. OneRead'
  BY <1>1, <1>2, <1>3 DEF OneRead
<1>7. ShownWillBeRecalled'
  BY <1>1 DEF ShownWillBeRecalled
<1>8. SavedWillBeRecalled'
  BY <1>1, <1>4 DEF DraftInv, DraftWellTyped, SavedWillBeRecalled, WillBeRecalled
<1> QED
  BY <1>5, <1>6, <1>7, <1>8 DEF DraftInv

LEMMA EditTextKeeps ==
  ASSUME ~Hasty, DraftInv, NEW t \in DraftTexts, EditText(t)
  PROVE  DraftInv'
<1>1. /\ selectedReq \in DraftRequests /\ hydratedFor = selectedReq /\ Gets = {} /\ answers = <<>>
      /\ saving = NotSaving /\ text' = t /\ calls' = calls \o <<Put(selectedReq, t)>>
      /\ UNCHANGED <<selectedReq, hydratedFor, savedText, draftPref, answers, saving>>
  BY ReadIs DEF EditText, Kept, DraftInv, DraftWellTyped
<1>2. PICK r \in DraftRequests : r = selectedReq
  BY <1>1
<1>3. calls' = Append(calls, Put(r, t)) /\ Put(r, t) \in PrefCall /\ Put(r, t).call = "put" /\ Put(r, t).of = r
  BY <1>1, <1>2, GetsAndPuts DEF DraftInv, DraftWellTyped, MaybeText
<1>4. calls' \in Seq(PrefCall) /\ Gets' = {}
  BY <1>1, <1>3, CallAdded DEF DraftInv
<1>5. WillBeRecalled(r, t)'
  BY <1>1, <1>3, PutIsRecalled DEF DraftInv
<1>6. DraftWellTyped'
  BY <1>1, <1>4 DEF DraftInv, DraftWellTyped
<1> QED
  BY <1>1, <1>2, <1>4, <1>5, <1>6 DEF DraftInv, OneRead, ShownWillBeRecalled, SavedWillBeRecalled

LEMMA HandledKeeps ==
  ASSUME ~ReadsFail, DraftInv, Handled
  PROVE  DraftInv'
<1>1. PICK c : c = calls[1]
  OBVIOUS
<1>2. /\ calls # <<>> /\ calls' = Tail(calls) /\ Head(calls) = c /\ c \in PrefCall /\ 1 \in DOMAIN calls
      /\ calls' \in Seq(PrefCall)
      /\ \A k \in Nat : k \in Gets' <=> k + 1 \in Gets /\ k # 0
      /\ \A r : \A k \in Nat : k \in Puts(r)' <=> k + 1 \in Puts(r) /\ k # 0
      /\ \A k \in Nat : k # 0 /\ k + 1 \in DOMAIN calls => calls'[k] = calls[k + 1]
      /\ Gets' \subseteq Nat /\ \A r : Puts(r)' \subseteq Nat
      /\ UNCHANGED <<selectedReq, hydratedFor, text, savedText, saving>>
  <2>1. calls # <<>> /\ calls' = Tail(calls) /\ UNCHANGED <<selectedReq, hydratedFor, text, savedText, saving>>
    BY DEF Handled
  <2> QED
    BY <1>1, <2>1, CallTaken DEF DraftInv
<1>3. /\ c.call \in {"get", "put"} /\ c.of \in DraftRequests /\ c.text \in MaybeText
  BY <1>2 DEF PrefCall, MaybeText
<1>4. /\ c.call = "get" => /\ draftPref' = draftPref
                           /\ answers' = Append(answers, [of |-> c.of, read |-> TRUE, text |-> draftPref[c.of]])
      /\ c.call = "put" => answers' = answers /\ draftPref' = [draftPref EXCEPT ![c.of] = c.text]
  BY <1>2, <1>3 DEF Handled
<1>5. /\ Gets \subseteq 1 .. Len(calls) /\ \A r : Puts(r) \subseteq 1 .. Len(calls)
      /\ DOMAIN calls = 1 .. Len(calls) /\ Len(calls) \in Nat
  BY CallTypes DEF DraftInv
<1>6. \A r \in DraftRequests : \A v : IsFinal(r, v)' <=> IsFinal(r, v)
  BY <1>1, <1>2, <1>3, <1>4, TakenIsFinal DEF DraftInv
<1>7. /\ ShownWillBeRecalled' /\ SavedWillBeRecalled'
  <2>1. selectedReq # NoDraft => selectedReq \in DraftRequests
    BY DEF DraftInv, DraftWellTyped
  <2>2. \A r \in DraftRequests : \A t : WillBeRecalled(r, t)' <=> WillBeRecalled(r, t)
    BY <1>2, <1>6 DEF WillBeRecalled
  <2>3. ShownWillBeRecalled'
    BY <1>2, <1>6, <2>1, <2>2 DEF DraftInv, ShownWillBeRecalled
  <2>4. saving # NotSaving => saving.of \in DraftRequests
    BY DEF DraftInv, DraftWellTyped
  <2>5. SavedWillBeRecalled'
    BY <1>2, <2>2, <2>4 DEF DraftInv, SavedWillBeRecalled
  <2> QED
    BY <2>3, <2>5
<1>8. CASE c.call = "get"
  <2>1. 1 \in Gets
    BY <1>1, <1>2, <1>8 DEF Gets
  <2>2. answers = <<>> /\ Gets = {1} /\ c.of = selectedReq /\ hydratedFor # selectedReq
    BY <1>1, <2>1 DEF DraftInv, OneRead
  <2>3. Puts(selectedReq) = {}
    BY <1>5, <2>1 DEF DraftInv, OneRead
  <2>4. Gets' = {} /\ Puts(selectedReq)' = {}
    BY <1>2, <2>2, <2>3
  <2>5. /\ answers' = <<[of |-> selectedReq, read |-> TRUE, text |-> draftPref[selectedReq]]>>
        /\ draftPref' = draftPref
    BY <1>4, <1>8, <2>2
  <2>6. OneRead'
    BY <1>2, <2>2, <2>4, <2>5 DEF OneRead
  <2>7. DraftWellTyped'
    BY <1>2, <1>3, <2>2, <2>5 DEF DraftInv, DraftWellTyped
  <2> QED
    BY <1>7, <2>6, <2>7 DEF DraftInv
<1>9. CASE c.call = "put"
  <2>1. 1 \notin Gets /\ 1 \in Puts(c.of)
    BY <1>1, <1>2, <1>9 DEF Gets, Puts
  <2>2. \A k \in Gets : k - 1 \in Gets' /\ k - 1 \in Nat
    BY <1>2, <1>5, <2>1
  <2>3. Gets' = {} <=> Gets = {}
    BY <1>2, <2>2
  <2>4. \A k \in Gets' : k + 1 \in Gets /\ calls'[k] = calls[k + 1]
    BY <1>2, <1>5
  <2>5. \A k \in Gets' : calls'[k].of = selectedReq /\ \A j \in Puts(selectedReq)' : j < k
    BY <1>2, <1>5, <2>4 DEF DraftInv, OneRead
  <2>6. \A j, k \in Gets' : j = k
    BY <1>2, <2>4 DEF DraftInv, OneRead
  <2>7. ASSUME answers # <<>> PROVE Puts(selectedReq)' = {} /\ draftPref'[selectedReq] = draftPref[selectedReq]
    <3>1. Puts(selectedReq) = {} /\ Len(answers) = 1 /\ answers[1].of = selectedReq
      BY <2>7 DEF DraftInv, OneRead
    <3>2. c.of # selectedReq
      BY <2>1, <3>1
    <3>5. selectedReq \in DraftRequests
      BY <3>1, AnswerTypes DEF DraftInv
    <3>3. Puts(selectedReq)' = {}
      BY <1>2, <3>1
    <3>4. draftPref'[selectedReq] = draftPref[selectedReq]
      BY <1>3, <1>4, <1>9, <3>2, <3>5 DEF DraftInv, DraftWellTyped
    <3> QED
      BY <3>3, <3>4
  <2>8. answers' = answers
    BY <1>4, <1>9
  <2>9. OneRead'
    BY <1>2, <2>3, <2>5, <2>6, <2>7, <2>8 DEF DraftInv, OneRead
  <2>10. DraftWellTyped'
    BY <1>2, <1>3, <1>4, <1>9 DEF DraftInv, DraftWellTyped
  <2> QED
    BY <1>7, <2>9, <2>10 DEF DraftInv
<1> QED
  BY <1>3, <1>8, <1>9

LEMMA OverlaidKeeps ==
  ASSUME DraftInv, Overlaid
  PROVE  DraftInv'
<1>1. PICK a : a = answers[1]
  OBVIOUS
<1>2. PICK t : t = Overlay(a)
  OBVIOUS
<1>3. /\ answers # <<>> /\ Len(answers) = 1 /\ Gets = {} /\ Puts(selectedReq) = {} /\ hydratedFor # selectedReq
      /\ a.of = selectedReq /\ a.text = draftPref[selectedReq] /\ a.read /\ selectedReq \in DraftRequests
      /\ a.text \in MaybeText
  <2>1. answers # <<>> /\ Len(answers) = 1 /\ Gets = {} /\ Puts(selectedReq) = {} /\ hydratedFor # selectedReq
    BY DEF Overlaid, DraftInv, OneRead
  <2>2. a.of = selectedReq /\ a.text = draftPref[selectedReq]
    BY <1>1, <2>1 DEF DraftInv, OneRead
  <2>3. a \in [of : DraftRequests, read : {TRUE}, text : MaybeText]
    BY <1>1, <2>1, AnswerTypes DEF DraftInv
  <2> QED
    BY <2>1, <2>2, <2>3
<1>4. /\ answers' = <<>> /\ text' = t /\ hydratedFor' = selectedReq
      /\ calls' = calls \o Kept(selectedReq, selectedReq, t, t # text)
      /\ UNCHANGED <<selectedReq, savedText, draftPref, saving>>
  <2>1. answers' = Tail(answers) /\ Head(answers) = a /\ Tail(answers) = <<>>
    BY <1>1, <1>3 DEF Overlaid, DraftInv, DraftWellTyped
  <2> QED
    BY <1>1, <1>2, <1>3, <2>1 DEF Overlaid, ForLoaded
<1>5. PICK r \in DraftRequests : r = selectedReq
  BY <1>3
<1>6. IsFinal(r, a.text)
  BY <1>3, <1>5 DEF IsFinal
<1>7. t \in DraftTexts /\ WillBeRecalled(r, t) /\ (a.text = NoDraft => t = text)
  BY <1>2, <1>3, <1>5, <1>6, DraftAssumption
  DEF Overlay, DraftInv, DraftWellTyped, ShownWillBeRecalled, WillBeRecalled, MaybeText
<1>8. CASE t = text
  <2>1. calls' = calls
    BY <1>4, <1>8 DEF Kept, DraftInv, DraftWellTyped
  <2>2. /\ Gets' = Gets /\ \A q : Puts(q)' = Puts(q)
        /\ \A q : \A u : WillBeRecalled(q, u)' <=> WillBeRecalled(q, u)
    BY <1>4, <2>1 DEF Gets, Puts, WillBeRecalled, IsFinal
  <2>3. DraftWellTyped'
    <3>1. answers' \in Seq([of : DraftRequests, read : {TRUE}, text : MaybeText])
      BY <1>4
    <3>2. {selectedReq, hydratedFor}' \subseteq DraftRequests \cup {NoDraft}
      BY <1>3, <1>4
    <3> QED
      BY <1>4, <1>7, <2>1, <3>1, <3>2 DEF DraftInv, DraftWellTyped
  <2> QED
    BY <1>3, <1>4, <1>5, <1>7, <2>2, <2>3 DEF DraftInv, OneRead, ShownWillBeRecalled, SavedWillBeRecalled
<1>9. CASE t # text
  <2>1. calls' = Append(calls, Put(r, t)) /\ Put(r, t) \in PrefCall /\ Put(r, t).call = "put" /\ Put(r, t).of = r
    BY <1>4, <1>5, <1>7, <1>9, GetsAndPuts DEF Kept, DraftInv, DraftWellTyped, MaybeText
  <2>2. calls' \in Seq(PrefCall) /\ Gets' = {}
    BY <1>3, <2>1, CallAdded DEF DraftInv
  <2>3. WillBeRecalled(r, t)'
    BY <1>4, <1>7, <2>1, PutIsRecalled DEF DraftInv
  <2>4. SavedWillBeRecalled'
    <3> SUFFICES ASSUME saving # NotSaving PROVE WillBeRecalled(saving.of, saving.text)'
      BY <1>4 DEF SavedWillBeRecalled
    <3>1. saving.of \in DraftRequests /\ WillBeRecalled(saving.of, saving.text)
      BY DEF DraftInv, DraftWellTyped, SavedWillBeRecalled
    <3>2. CASE saving.of = r
      BY <1>4, <1>7, <2>3, <3>1, <3>2, RecalledIsOne DEF DraftInv
    <3>3. CASE saving.of # r
      <4>1. \A q \in DraftRequests \ {r} : \A v : IsFinal(q, v)' <=> IsFinal(q, v)
        BY <1>4, <2>1, AddedIsFinal DEF DraftInv
      <4> QED
        BY <1>4, <3>1, <3>3, <4>1 DEF WillBeRecalled
    <3> QED
      BY <3>2, <3>3
  <2>5. DraftWellTyped'
    BY <1>3, <1>4, <1>7, <2>2 DEF DraftInv, DraftWellTyped
  <2> QED
    BY <1>3, <1>4, <1>5, <2>2, <2>3, <2>4, <2>5 DEF DraftInv, OneRead, ShownWillBeRecalled
<1> QED
  BY <1>8, <1>9

LEMMA SaveRequestKeeps ==
  ASSUME ~Hasty, DraftInv, SaveRequest
  PROVE  DraftInv'
<1>1. /\ selectedReq \in DraftRequests /\ hydratedFor = selectedReq
      /\ saving' = [of |-> selectedReq, text |-> text]
      /\ UNCHANGED <<selectedReq, hydratedFor, text, savedText, draftPref, calls, answers>>
  BY DEF SaveRequest, DraftInv, DraftWellTyped
<1>2. saving'.of = selectedReq /\ saving'.text = text
  BY <1>1
<1>3. WillBeRecalled(selectedReq, text) /\ text \in DraftTexts
  BY <1>1, DraftAssumption DEF DraftInv, DraftWellTyped, ShownWillBeRecalled
<1>4. /\ Gets' = Gets /\ \A q : Puts(q)' = Puts(q)
      /\ \A q : \A u : WillBeRecalled(q, u)' <=> WillBeRecalled(q, u)
      /\ \A q : \A v : IsFinal(q, v)' <=> IsFinal(q, v)
  BY <1>1 DEF Gets, Puts, WillBeRecalled, IsFinal
<1>5. SavedWillBeRecalled'
  BY <1>2, <1>3, <1>4 DEF SavedWillBeRecalled
<1>6. DraftWellTyped'
  BY <1>1, <1>3 DEF DraftInv, DraftWellTyped
<1> QED
  BY <1>1, <1>4, <1>5, <1>6 DEF DraftInv, OneRead, ShownWillBeRecalled

LEMMA RequestSavedKeeps ==
  ASSUME DraftInv, RequestSaved
  PROVE  DraftInv'
<1>1. PICK r : r = saving.of
  OBVIOUS
<1>2. PICK t : t = saving.text
  OBVIOUS
<1>3. /\ r \in DraftRequests /\ t \in DraftTexts /\ WillBeRecalled(r, t)
      /\ savedText' = [savedText EXCEPT ![r] = t] /\ saving' = NotSaving /\ calls' = calls \o Dropped(r)
      /\ UNCHANGED <<selectedReq, hydratedFor, text, draftPref, answers>>
  BY <1>1, <1>2 DEF RequestSaved, DraftInv, DraftWellTyped, SavedWillBeRecalled
<1>4. savedText'[r] = t /\ \A q \in DraftRequests \ {r} : savedText'[q] = savedText[q]
  BY <1>3 DEF DraftInv, DraftWellTyped
<1>5. SavedWillBeRecalled'
  BY <1>3 DEF SavedWillBeRecalled
<1>6. CASE hydratedFor = r
  <2>1. /\ calls' = Append(calls, Put(r, NoDraft)) /\ Put(r, NoDraft) \in PrefCall
        /\ Put(r, NoDraft).call = "put" /\ Put(r, NoDraft).of = r /\ Put(r, NoDraft).text = NoDraft
    BY <1>3, <1>6, GetsAndPuts DEF Dropped, DraftInv, DraftWellTyped, MaybeText
  <2>2. /\ calls' \in Seq(PrefCall) /\ Gets' = Gets /\ \A q \in DraftRequests \cup {NoDraft} : q # r => Puts(q)' = Puts(q)
        /\ \A k \in 1 .. Len(calls) : calls'[k] = calls[k]
        /\ Gets \subseteq 1 .. Len(calls)
    BY <2>1, CallAdded, CallTypes DEF DraftInv
  <2>3. /\ \A q \in DraftRequests \ {r} : \A v : IsFinal(q, v)' <=> IsFinal(q, v)
        /\ IsFinal(r, NoDraft)'
    BY <1>3, <2>1, AddedIsFinal DEF DraftInv
  <2>4. OneRead'
    <3>1. selectedReq = r => Gets = {} /\ answers = <<>>
      BY <1>6 DEF DraftInv, OneRead
    <3> QED
      BY <1>3, <2>2, <3>1 DEF DraftInv, DraftWellTyped, OneRead
  <2>5. ShownWillBeRecalled'
    <3>1. CASE selectedReq = r
      <4>1. text = t
        BY <1>3, <1>6, <3>1, RecalledIsOne, DraftAssumption DEF DraftInv, ShownWillBeRecalled
      <4>2. WillBeRecalled(r, t)'
        BY <1>4, <2>3 DEF WillBeRecalled, MaybeText
      <4> QED
        BY <1>3, <1>6, <3>1, <4>1, <4>2 DEF ShownWillBeRecalled
    <3>2. CASE selectedReq # r
      BY <1>3, <1>4, <1>6, <2>3, <3>2 DEF DraftInv, DraftWellTyped, ShownWillBeRecalled
    <3> QED
      BY <3>1, <3>2
  <2>6. DraftWellTyped'
    BY <1>3, <2>2 DEF DraftInv, DraftWellTyped
  <2> QED
    BY <1>5, <2>4, <2>5, <2>6 DEF DraftInv
<1>7. CASE hydratedFor # r
  <2>1. calls' = calls
    BY <1>3, <1>7 DEF Dropped, DraftInv, DraftWellTyped
  <2>2. /\ Gets' = Gets /\ \A q : Puts(q)' = Puts(q)
        /\ \A q : \A v : IsFinal(q, v)' <=> IsFinal(q, v)
    BY <1>3, <2>1 DEF Gets, Puts, IsFinal
  <2>3. \A q \in DraftRequests \ {r} : \A u : WillBeRecalled(q, u)' <=> WillBeRecalled(q, u)
    BY <1>4, <2>2 DEF WillBeRecalled
  <2>4. IsFinal(r, NoDraft) => t = savedText[r]
    BY <1>3, FinalIsOne DEF DraftInv, WillBeRecalled
  <2>5. ShownWillBeRecalled'
    BY <1>3, <1>4, <1>7, <2>2, <2>3, <2>4 DEF DraftInv, DraftWellTyped, ShownWillBeRecalled
  <2>6. DraftWellTyped'
    BY <1>3, <2>1 DEF DraftInv, DraftWellTyped
  <2> QED
    BY <1>3, <1>5, <2>1, <2>2, <2>5, <2>6 DEF DraftInv, OneRead
<1> QED
  BY <1>6, <1>7

LEMMA DraftSteps == ~Hasty /\ ~ReadsFail /\ DraftInv /\ [DraftNext]_draftVars => DraftInv'
<1> SUFFICES ASSUME ~Hasty, ~ReadsFail, DraftInv, [DraftNext]_draftVars PROVE DraftInv'
  OBVIOUS
<1>1. CASE UNCHANGED draftVars
  BY <1>1 DEF draftVars, DraftInv, DraftWellTyped, OneRead, ShownWillBeRecalled, SavedWillBeRecalled, Gets, Puts,
     WillBeRecalled, IsFinal
<1> QED
  BY <1>1, SelectRequestKeeps, EditTextKeeps, HandledKeeps, OverlaidKeeps, SaveRequestKeeps, RequestSavedKeeps
  DEF DraftNext

LEMMA DraftInvSuffices == DraftInv => DraftComesBack
<1> SUFFICES ASSUME DraftInv, calls = <<>>, hydratedFor = selectedReq, selectedReq # NoDraft
             PROVE  text = Recalled(selectedReq)
  BY DEF DraftComesBack, DraftAtRest
<1>1. WillBeRecalled(selectedReq, text) /\ Puts(selectedReq) = {}
  BY DEF DraftInv, ShownWillBeRecalled, Puts
<1> QED
  BY <1>1 DEF WillBeRecalled, IsFinal, Recalled

\* While the user waits for a draft to be read back and for a save, and reads
\* succeed: when all calls have ended, what the editor shows comes back
\* whenever the request is selected again, however many requests, edits and
\* saves there were (context/AppContext.tsx, handleSaveRequest and the effects).
THEOREM DraftsComeBack == ASSUME ~Hasty, ~ReadsFail PROVE DraftSpec => []DraftComesBack
BY DraftStart, DraftSteps, DraftInvSuffices, PTL DEF DraftSpec

-----------------------------------------------------------------------------
(***************************************************************************)
(* That requests of the explorer go out with a token that is current.      *)
(***************************************************************************)

\* The token of a run that goes out is of the script as it is, made now or kept.
LEMMA TokensAreUsable ==
  ASSUME NEW token \in Tokens
  PROVE  token.script = authScript /\ (token.made # execClock => token.expires > execClock + Margin)
BY DEF Tokens, Usable

ExecCounts == execClock \in Int

\* For any runs, lives and margin, and however often the script, the environment
\* and the clock have moved: a run that goes out has a token of the script as it
\* is now, made for it or with more than the margin to live (TokensAreCurrent).
THEOREM TokensStayCurrent == ExecSpec => TokensAreCurrent
<1> DEFINE Current == \A r \in DOMAIN execRuns' \ DOMAIN execRuns :
       /\ execRuns'[r].token.script = authScript
       /\ execRuns'[r].token.made < execClock => execRuns'[r].token.expires > execClock + Margin
<1>1. ExecInit => ExecCounts
  BY DEF ExecInit, ExecCounts
<1>2. ExecCounts /\ [ExecNext]_execVars => ExecCounts'
  BY DEF ExecNext, execVars, Execute, Response, SaveEnv, OpenEnv, EditScript, ExecTick, ExecCounts
<1>3. ExecCounts /\ [ExecNext]_execVars => [Current]_execVars
  <2> SUFFICES ASSUME ExecCounts, [ExecNext]_execVars, NEW r \in DOMAIN execRuns' \ DOMAIN execRuns
               PROVE  /\ execRuns'[r].token.script = authScript
                      /\ execRuns'[r].token.made < execClock => execRuns'[r].token.expires > execClock + Margin
    OBVIOUS
  <2>1. PICK q \in ExecRuns : Execute(q) \/ Response(q)
    BY DEF ExecNext, execVars, SaveEnv, OpenEnv, EditScript, ExecTick
  <2>2. ~Response(q)
    BY DEF Response, Settled
  <2>3. PICK token \in Tokens : execRuns' = Added(execRuns, q, [token |-> token, vars |-> execEnv])
    BY <2>1, <2>2 DEF Execute
  <2>4. r = q /\ execRuns'[r].token = token
    BY <2>3 DEF Added
  <2> QED
    BY <2>4, TokensAreUsable DEF ExecCounts
<1> QED
  BY <1>1, <1>2, <1>3, PTL DEF ExecSpec, TokensAreCurrent

-----------------------------------------------------------------------------
(***************************************************************************)
(* That what the legacy editor shows and keeps of its runs is whole.       *)
(*                                                                         *)
(* A summary is made when nothing runs any more; that it is whole then     *)
(* needs to be known of the run at every step: a node starts when all that *)
(* feeds it has succeeded (so that nothing below a failure can be running),*)
(* its records are those of one attempt and agree with the calls it has    *)
(* left, the context holds what succeeded, and what an earlier run had     *)
(* completed is as its own summary, which is whole, tells.                 *)
(***************************************************************************)

NodeStates == {"pending", "running", "interval"} \cup LegacyTerminal
Nodes(r) == LegacyNodes(r.graph)

RunFields == {"on", "flow", "graph", "prior", "cancelled", "ctx", "waits", "left", "records", "node"}
RunTyped(r) ==
  /\ DOMAIN r = RunFields /\ r.on = TRUE /\ r.cancelled \in BOOLEAN
  /\ r.flow \in LegacyFlows /\ r.graph = LegacyGraph[r.flow]
  /\ r.node \in [Nodes(r) -> NodeStates] /\ r.waits \in [Nodes(r) -> Int] /\ r.left \in [Nodes(r) -> Nat]
  /\ r.records \in [Nodes(r) -> Seq(LegacyTerminal)]

SummaryFields == {"none", "of", "graph", "node", "records", "ctx", "truncated", "status"}
SummaryTyped(s) ==
  /\ DOMAIN s = SummaryFields /\ s.none = FALSE /\ s.truncated \in BOOLEAN
  /\ \E f \in LegacyFlows : s.graph = LegacyGraph[f]
  /\ s.node \in [LegacyNodes(s.graph) -> LegacyTerminal]
  /\ s.records \in [LegacyNodes(s.graph) -> Seq(LegacyTerminal)]

GoodSummary(s) == s = NoSummary \/ (SummaryTyped(s) /\ WholeSummary(s))

\* A node that a retried run had completed already.
DoneBefore(r, n) == r.prior # NoSummary /\ r.prior.node[n] = "success"

\* A node waits for what feeds it and has not succeeded; it starts when that is
\* nothing, so that what runs has only successes before it.
Waiting(r, n) == {m \in LegacyPred(r.graph, n) : r.node[m] # "success"}
StartsInTurn(r) ==
  \A n \in Nodes(r) :
    /\ r.waits[n] = Cardinality(Waiting(r, n))
    /\ r.node[n] = "pending" /\ r.waits[n] = 0 => r.cancelled
    /\ r.node[n] \in {"running", "interval"} => r.waits[n] = 0

\* What was skipped or cancelled comes with a failure, if not at once.
FailureIsKnown(r) ==
  /\ (\E n \in Nodes(r) : r.node[n] = "skipped") => \E n \in Nodes(r) : r.node[n] = "failed"
  /\ r.cancelled => \E n \in Nodes(r) : r.node[n] \in {"running", "interval", "failed"}

\* The records of an attempt at a node of c calls that ended with a status.
Tells(c, status, told) ==
  /\ status = "skipped" => told = <<"skipped">>
  /\ IF status = "success" /\ c = 0 THEN told = <<>>
     ELSE Len(told) \in 1 .. Max({1, c}) /\ told[Len(told)] = status

RecordsSoFar(r, n) ==
  LET due == r.graph.calls[n]  told == Len(r.records[n]) IN
  /\ DoneBefore(r, n) => r.records[n] = <<>>
  /\ r.node[n] = "pending" => told = 0 /\ r.left[n] = due
  /\ r.node[n] \in {"running", "interval"} => told + r.left[n] = due
  /\ (r.node[n] = "interval" \/ (r.node[n] = "running" /\ due # 0)) => r.left[n] >= 1
  /\ r.node[n] \in LegacyTerminal /\ ~DoneBefore(r, n) => Tells(due, r.node[n], r.records[n])

ContextIsWhole(r) ==
  r.ctx = {n \in Nodes(r) : r.node[n] = "success" /\ r.graph.kind[n] # "delay"}

PriorIsWhole(r) ==
  /\ GoodSummary(r.prior) /\ (r.prior # NoSummary => r.prior.graph = r.graph)
  /\ \A n \in Nodes(r) : DoneBefore(r, n) => r.node[n] = "success"

\* All of it but the records of n.
SoundBut(r, n) ==
  /\ RunTyped(r) /\ StartsInTurn(r) /\ FailureIsKnown(r) /\ ContextIsWhole(r) /\ PriorIsWhole(r)
  /\ \A m \in Nodes(r) \ {n} : RecordsSoFar(r, m)
SoundRun(r) ==
  /\ RunTyped(r) /\ StartsInTurn(r) /\ FailureIsKnown(r) /\ ContextIsWhole(r) /\ PriorIsWhole(r)
  /\ \A m \in Nodes(r) : RecordsSoFar(r, m)

LegacyInv ==
  /\ legacyShown \in LegacyFlows
  /\ legacyRun = NoLegacyRun \/ SoundRun(legacyRun)
  /\ GoodSummary(legacySummary)
  /\ legacyStored = [f \in LegacyFlows |-> legacyStored[f]]
  /\ \A f \in LegacyFlows : GoodSummary(legacyStored[f])

-----------------------------------------------------------------------------
LEMMA MaxIs ==
  ASSUME NEW c \in Nat
  PROVE  Max({1, c}) = IF c = 0 THEN 1 ELSE c
BY DEF Max

LEMMA GraphIs ==
  ASSUME NEW f \in LegacyFlows
  PROVE  /\ IsFiniteSet(LegacyNodes(LegacyGraph[f])) /\ Acyclic(LegacyGraph[f])
         /\ LegacyGraph[f].calls \in [LegacyNodes(LegacyGraph[f]) -> Nat]
         /\ \A n \in LegacyNodes(LegacyGraph[f]) :
              LegacyGraph[f].calls[n] = 0 => LegacyGraph[f].kind[n] = "looper"
BY LegacyAssumption DEF LegacyNodes

LEMMA AppendTold ==
  ASSUME NEW s \in Seq(LegacyTerminal), NEW e \in LegacyTerminal
  PROVE  /\ Append(s, e) \in Seq(LegacyTerminal) /\ Len(Append(s, e)) = Len(s) + 1
         /\ Append(s, e)[Len(s) + 1] = e /\ Len(s) \in Nat
         /\ (Len(s) = 0 <=> s = <<>>)
OBVIOUS

LEMMA SkippedAlone ==
  ASSUME NEW c \in Nat
  PROVE  Append(<<>>, "skipped") = <<"skipped">> /\ Tells(c, "skipped", <<"skipped">>)
BY MaxIs DEF Tells

\* What the runner's helpers make of a run.
Framed(s, r) ==
  /\ DOMAIN s = RunFields /\ s.on = TRUE /\ s.flow = r.flow /\ s.graph = r.graph /\ s.prior = r.prior
  /\ s.cancelled = r.cancelled

LEMMA NodeSet ==
  ASSUME NEW r, RunTyped(r), NEW n \in Nodes(r), NEW v
  PROVE  LET s == InState(r, n, v) IN
         /\ Framed(s, r) /\ s.ctx = r.ctx /\ s.waits = r.waits /\ s.left = r.left /\ s.records = r.records
         /\ s.node = [m \in Nodes(r) |-> IF m = n THEN v ELSE r.node[m]]
BY DEF RunTyped, RunFields, Framed, InState

LEMMA SkipIs ==
  ASSUME NEW r, RunTyped(r), NEW S
  PROVE  LET s == Skip(r, S) IN
         /\ Framed(s, r) /\ s.ctx = r.ctx /\ s.waits = r.waits /\ s.left = r.left
         /\ s.node = [m \in Nodes(r) |-> IF m \in S THEN "skipped" ELSE r.node[m]]
BY DEF RunTyped, RunFields, Skip, Framed

LEMMA SkipRecords ==
  ASSUME NEW r, RunTyped(r), NEW S
  PROVE  Skip(r, S).records =
           [m \in Nodes(r) |-> IF m \in S THEN Append(r.records[m], "skipped") ELSE r.records[m]]
BY DEF RunTyped, RunFields, Skip

LEMMA SucceededIs ==
  ASSUME NEW r, RunTyped(r), NEW n
  PROVE  LET s == NodeSucceeded(r.graph, r, n) IN
         /\ Framed(s, r) /\ s.left = r.left /\ s.records = r.records
         /\ s.ctx = IF r.graph.kind[n] = "delay" THEN r.ctx ELSE r.ctx \cup {n}
BY DEF RunTyped, RunFields, NodeSucceeded, Nodes, Framed

LEMMA SucceededNodes ==
  ASSUME NEW r, RunTyped(r), NEW n
  PROVE  LET waits == [m \in Nodes(r) |-> IF m \in LegacySucc(r.graph, n) THEN r.waits[m] - 1 ELSE r.waits[m]] IN
         NodeSucceeded(r.graph, r, n).node =
           [m \in Nodes(r) |-> IF m = n THEN "success"
              ELSE IF m \in Ready(r.graph, r, n, waits) THEN "running" ELSE r.node[m]]
BY DEF RunTyped, RunFields, NodeSucceeded, Nodes

LEMMA SucceededWaits ==
  ASSUME NEW r, RunTyped(r), NEW n
  PROVE  NodeSucceeded(r.graph, r, n).waits =
           [m \in Nodes(r) |-> IF m \in LegacySucc(r.graph, n) THEN r.waits[m] - 1 ELSE r.waits[m]]
BY DEF RunTyped, RunFields, NodeSucceeded, Nodes

\* A node that ended is one less to wait for.
LEMMA OneLessToWaitFor ==
  ASSUME NEW r, RunTyped(r), StartsInTurn(r), NEW n \in Nodes(r), r.node[n] # "success",
         NEW r2, r2.graph = r.graph, r2.node \in [Nodes(r) -> NodeStates], r2.node[n] = "success",
         \A m \in Nodes(r) \ {n} : r2.node[m] = "success" <=> r.node[m] = "success",
         NEW m \in Nodes(r)
  PROVE  Cardinality(Waiting(r2, m)) =
           IF m \in LegacySucc(r.graph, n) THEN r.waits[m] - 1 ELSE r.waits[m]
<1>1. IsFiniteSet(Waiting(r, m))
  <2>1. IsFiniteSet(Nodes(r)) /\ Waiting(r, m) \in SUBSET Nodes(r)
    BY GraphIs DEF RunTyped, Nodes, Waiting, LegacyPred
  <2> QED
    BY <2>1, FS_Subset
<1>2. Waiting(r2, m) = Waiting(r, m) \ {n}
  BY DEF Waiting, Nodes, LegacyPred
<1>3. n \in Waiting(r, m) <=> m \in LegacySucc(r.graph, n)
  BY DEF Waiting, Nodes, LegacyPred, LegacySucc
<1>4. r.waits[m] = Cardinality(Waiting(r, m)) /\ Cardinality(Waiting(r, m)) \in Nat
  BY <1>1, FS_CardinalityType DEF StartsInTurn
<1>5. Cardinality(Waiting(r, m) \ {n}) =
        IF n \in Waiting(r, m) THEN Cardinality(Waiting(r, m)) - 1 ELSE Cardinality(Waiting(r, m))
  BY <1>1, FS_RemoveElement
<1> QED
  BY <1>2, <1>3, <1>4, <1>5

\* What does not become a success leaves the counts as they are.
LEMMA SameToWaitFor ==
  ASSUME NEW r, NEW r2, r2.graph = r.graph,
         \A m \in Nodes(r) : r2.node[m] = "success" <=> r.node[m] = "success",
         NEW m \in Nodes(r)
  PROVE  Waiting(r2, m) = Waiting(r, m)
BY DEF Waiting, Nodes, LegacyPred

\* "Descendants of a failed node can never already be running".
LEMMA NothingBelowRuns ==
  ASSUME NEW r, RunTyped(r), StartsInTurn(r), NEW n \in Nodes(r), r.node[n] \in {"running", "interval"}
  PROVE  SkippedBelow(r.graph, r, n) \subseteq {m \in Nodes(r) : r.node[m] = "pending"}
<1> DEFINE P == {m \in Nodes(r) : r.node[m] = "pending"}
           open == {m \in Nodes(r) : r.node[m] \notin LegacyTerminal}
<1>1. P \in SUBSET open
  BY DEF LegacyTerminal
<1>2. ASSUME NEW m \in open, NEW x \in P \cup {n}, <<x, m>> \in r.graph.edges PROVE m \in P
  <2>1. x \in LegacyPred(r.graph, m) /\ r.node[x] # "success"
    BY <1>2 DEF LegacyPred, Nodes
  <2>2. IsFiniteSet(Waiting(r, m)) /\ x \in Waiting(r, m)
    <3>1. IsFiniteSet(Nodes(r)) /\ Waiting(r, m) \in SUBSET Nodes(r)
      BY GraphIs DEF RunTyped, Nodes, Waiting, LegacyPred
    <3> QED
      BY <2>1, <3>1, FS_Subset DEF Waiting
  <2>3. r.waits[m] # 0
    BY <2>2, FS_EmptySet DEF StartsInTurn
  <2> QED
    BY <2>3 DEF StartsInTurn, RunTyped, NodeStates
<1> QED
  BY <1>1, <1>2 DEF SkippedBelow, Nodes

-----------------------------------------------------------------------------
(* A node's end.                                                           *)

LEMMA SkipKeeps ==
  ASSUME NEW r, NEW n \in Nodes(r), SoundBut(r, n), r.node[n] = "failed", ~DoneBefore(r, n),
         Tells(r.graph.calls[n], "failed", r.records[n]),
         NEW S \in SUBSET {m \in Nodes(r) : r.node[m] = "pending"}
  PROVE  SoundRun(Skip(r, S))
<1> DEFINE s == Skip(r, S)
<1>1. /\ DOMAIN s = RunFields /\ s.on = TRUE /\ s.flow = r.flow /\ s.graph = r.graph /\ s.prior = r.prior
      /\ s.cancelled = r.cancelled /\ s.ctx = r.ctx /\ s.waits = r.waits /\ s.left = r.left
      /\ s.node = [m \in Nodes(r) |-> IF m \in S THEN "skipped" ELSE r.node[m]]
      /\ s.records = [m \in Nodes(r) |-> IF m \in S THEN Append(r.records[m], "skipped") ELSE r.records[m]]
  <2>1. RunTyped(r)
    BY DEF SoundBut
  <2>2. /\ DOMAIN s = RunFields /\ s.on = TRUE /\ s.flow = r.flow /\ s.graph = r.graph /\ s.prior = r.prior
        /\ s.cancelled = r.cancelled /\ s.ctx = r.ctx /\ s.waits = r.waits /\ s.left = r.left
        /\ s.node = [m \in Nodes(r) |-> IF m \in S THEN "skipped" ELSE r.node[m]]
    <3>1. /\ Framed(s, r) /\ s.ctx = r.ctx /\ s.waits = r.waits /\ s.left = r.left
          /\ s.node = [m \in Nodes(r) |-> IF m \in S THEN "skipped" ELSE r.node[m]]
      BY <2>1, SkipIs
    <3> QED
      BY <3>1 DEF Framed
  <2>3. s.records = [m \in Nodes(r) |-> IF m \in S THEN Append(r.records[m], "skipped") ELSE r.records[m]]
    BY <2>1, SkipRecords
  <2> QED
    BY <2>2, <2>3
<1>2. RunTyped(s)
  BY <1>1, AppendTold DEF SoundBut, RunTyped, Nodes, NodeStates, LegacyTerminal
<1>3. StartsInTurn(s)
  <2>1. \A m \in Nodes(r) : Waiting(s, m) = Waiting(r, m)
    <3>1. s.graph = r.graph /\ \A m \in Nodes(r) : s.node[m] = "success" <=> r.node[m] = "success"
      BY <1>1
    <3> QED
      BY <3>1, SameToWaitFor
  <2> QED
    BY <1>1, <2>1 DEF SoundBut, StartsInTurn, Nodes
<1>4. FailureIsKnown(s)
  BY <1>1 DEF SoundBut, FailureIsKnown, Nodes
<1>5. ContextIsWhole(s) /\ PriorIsWhole(s)
  BY <1>1 DEF SoundBut, ContextIsWhole, PriorIsWhole, DoneBefore, Nodes
<1>6. ASSUME NEW m \in Nodes(s) PROVE RecordsSoFar(s, m)
  <2>1. CASE m \in S
    <3>1. r.records[m] = <<>> /\ ~DoneBefore(r, m) /\ r.graph.calls[m] \in Nat
      BY <1>1, <2>1, <1>6, AppendTold, GraphIs DEF SoundBut, RecordsSoFar, RunTyped, PriorIsWhole, Nodes
    <3>2. s.node[m] = "skipped" /\ s.records[m] = <<"skipped">> /\ s.graph.calls = r.graph.calls
      BY <1>1, <2>1, <3>1, SkippedAlone
    <3>3. Tells(s.graph.calls[m], s.node[m], s.records[m])
      BY <3>1, <3>2, SkippedAlone
    <3>4. ~DoneBefore(s, m)
      BY <1>1, <3>1 DEF DoneBefore
    <3> QED
      BY <3>2, <3>3, <3>4 DEF RecordsSoFar
  <2>2. CASE m \notin S
    BY <1>1, <1>6, <2>2 DEF SoundBut, RecordsSoFar, DoneBefore, LegacyTerminal, Nodes
  <2> QED
    BY <2>1, <2>2
<1> QED
  BY <1>2, <1>3, <1>4, <1>5, <1>6 DEF SoundRun

LEMMA FailureKeeps ==
  ASSUME NEW r, NEW n \in Nodes(r), SoundBut(r, n), r.node[n] \in {"running", "interval"},
         Tells(r.graph.calls[n], "failed", r.records[n])
  PROVE  SoundRun(NodeFailed(r.graph, r, n))
<1> DEFINE s == InState(r, n, "failed")
<1>1. /\ DOMAIN s = RunFields /\ s.on = TRUE /\ s.flow = r.flow /\ s.graph = r.graph /\ s.prior = r.prior
      /\ s.cancelled = r.cancelled /\ s.ctx = r.ctx /\ s.waits = r.waits /\ s.left = r.left /\ s.records = r.records
      /\ s.node = [m \in Nodes(r) |-> IF m = n THEN "failed" ELSE r.node[m]]
  <2>1. RunTyped(r)
    BY DEF SoundBut
  <2>2. /\ Framed(s, r) /\ s.ctx = r.ctx /\ s.waits = r.waits /\ s.left = r.left /\ s.records = r.records
        /\ s.node = [m \in Nodes(r) |-> IF m = n THEN "failed" ELSE r.node[m]]
    BY <2>1, NodeSet
  <2> QED
    BY <2>2 DEF Framed
<1>2. \A m \in Nodes(r) : Waiting(s, m) = Waiting(r, m)
  <2>1. s.graph = r.graph /\ \A m \in Nodes(r) : s.node[m] = "success" <=> r.node[m] = "success"
    BY <1>1
  <2> QED
    BY <2>1, SameToWaitFor
<1>3. SoundBut(s, n)
  <2>1. RunTyped(s)
    BY <1>1 DEF SoundBut, RunTyped, Nodes, NodeStates, LegacyTerminal
  <2>2. StartsInTurn(s)
    <3> SUFFICES ASSUME NEW m \in Nodes(r)
                 PROVE  /\ s.waits[m] = Cardinality(Waiting(s, m))
                        /\ s.node[m] = "pending" /\ s.waits[m] = 0 => s.cancelled
                        /\ s.node[m] \in {"running", "interval"} => s.waits[m] = 0
      BY <1>1 DEF StartsInTurn, Nodes
    <3> QED
      BY <1>1, <1>2 DEF SoundBut, StartsInTurn
  <2>3. FailureIsKnown(s)
    BY <1>1 DEF SoundBut, FailureIsKnown, RunTyped, Nodes
  <2>4. ContextIsWhole(s) /\ PriorIsWhole(s)
    BY <1>1 DEF SoundBut, ContextIsWhole, PriorIsWhole, DoneBefore, RunTyped, Nodes
  <2>5. \A m \in Nodes(s) \ {n} : RecordsSoFar(s, m)
    <3>1. ASSUME NEW m \in Nodes(s) \ {n} PROVE RecordsSoFar(s, m)
      <4>1. m \in Nodes(r) \ {n} /\ s.node[m] = r.node[m]
        BY <1>1, <3>1 DEF Nodes
      <4> QED
        BY <1>1, <4>1 DEF SoundBut, RecordsSoFar, DoneBefore
    <3> QED
      BY <3>1
  <2> QED
    BY <2>1, <2>2, <2>3, <2>4, <2>5 DEF SoundBut
<1>4. SkippedBelow(r.graph, r, n) \subseteq {m \in Nodes(s) : s.node[m] = "pending"}
  <2>1. RunTyped(r) /\ StartsInTurn(r) /\ r.node[n] \in {"running", "interval"}
    BY DEF SoundBut
  <2>2. SkippedBelow(r.graph, r, n) \subseteq {m \in Nodes(r) : r.node[m] = "pending"}
    BY <2>1, NothingBelowRuns
  <2>3. {m \in Nodes(r) : r.node[m] = "pending"} = {m \in Nodes(s) : s.node[m] = "pending"}
    BY <1>1, <2>1 DEF Nodes
  <2> QED
    BY <2>2, <2>3
<1>5. ~DoneBefore(s, n) /\ s.node[n] = "failed" /\ n \in Nodes(s)
  BY <1>1 DEF SoundBut, PriorIsWhole, DoneBefore, RunTyped, Nodes
<1> QED
  BY <1>1, <1>3, <1>4, <1>5, SkipKeeps DEF NodeFailed

LEMMA SuccessKeeps ==
  ASSUME NEW r, NEW n \in Nodes(r), SoundBut(r, n), r.node[n] = "running", ~r.cancelled,
         Tells(r.graph.calls[n], "success", r.records[n])
  PROVE  SoundRun(NodeSucceeded(r.graph, r, n))
<1> DEFINE s == NodeSucceeded(r.graph, r, n)
           waits == [m \in Nodes(r) |-> IF m \in LegacySucc(r.graph, n) THEN r.waits[m] - 1 ELSE r.waits[m]]
           ready == Ready(r.graph, r, n, waits)
<1>1. /\ DOMAIN s = RunFields /\ s.on = TRUE /\ s.flow = r.flow /\ s.graph = r.graph /\ s.prior = r.prior
      /\ s.cancelled = r.cancelled /\ s.left = r.left /\ s.records = r.records /\ s.waits = waits
      /\ s.ctx = IF r.graph.kind[n] = "delay" THEN r.ctx ELSE r.ctx \cup {n}
      /\ s.node = [m \in Nodes(r) |-> IF m = n THEN "success" ELSE IF m \in ready THEN "running" ELSE r.node[m]]
  <2>1. RunTyped(r)
    BY DEF SoundBut
  <2>2. s.waits = waits
    BY <2>1, SucceededWaits
  <2>3. /\ Framed(s, r) /\ s.left = r.left /\ s.records = r.records
        /\ s.ctx = IF r.graph.kind[n] = "delay" THEN r.ctx ELSE r.ctx \cup {n}
    BY <2>1, SucceededIs
  <2>4. s.node = [m \in Nodes(r) |-> IF m = n THEN "success" ELSE IF m \in ready THEN "running" ELSE r.node[m]]
    BY <2>1, SucceededNodes
  <2> QED
    BY <2>2, <2>3, <2>4 DEF Framed
<1>2. \A m \in ready : m \in Nodes(r) /\ waits[m] = 0 /\ r.node[m] = "pending"
  BY DEF Ready, LegacySucc, Nodes
<1>3. RunTyped(s)
  BY <1>1 DEF SoundBut, RunTyped, Nodes, NodeStates, LegacyTerminal
<1>4. \A m \in Nodes(r) : Cardinality(Waiting(s, m)) = waits[m]
  <2>1. s.node \in [Nodes(r) -> NodeStates] /\ s.node[n] = "success"
        /\ \A m \in Nodes(r) \ {n} : s.node[m] = "success" <=> r.node[m] = "success"
    BY <1>1, <1>2, <1>3 DEF RunTyped, Nodes
  <2>2. RunTyped(r) /\ StartsInTurn(r) /\ s.graph = r.graph /\ r.node[n] # "success"
    BY <1>1 DEF SoundBut
  <2>3. \A m \in Nodes(r) : Cardinality(Waiting(s, m)) =
           IF m \in LegacySucc(r.graph, n) THEN r.waits[m] - 1 ELSE r.waits[m]
    BY <2>1, <2>2, OneLessToWaitFor
  <2> QED
    BY <2>3
<1>5. StartsInTurn(s)
  <2> SUFFICES ASSUME NEW m \in Nodes(r)
               PROVE  /\ s.node[m] = "pending" /\ s.waits[m] = 0 => s.cancelled
                      /\ s.node[m] \in {"running", "interval"} => s.waits[m] = 0
    BY <1>1, <1>4 DEF StartsInTurn, Nodes
  <2>1. m \in LegacySucc(r.graph, n) => r.waits[m] # 0
    <3>1. m \in LegacySucc(r.graph, n) => n \in Waiting(r, m)
      BY DEF LegacySucc, Waiting, LegacyPred, Nodes
    <3>2. IsFiniteSet(Waiting(r, m))
      <4>1. IsFiniteSet(Nodes(r)) /\ Waiting(r, m) \in SUBSET Nodes(r)
        BY GraphIs DEF SoundBut, RunTyped, Nodes, Waiting, LegacyPred
      <4> QED
        BY <4>1, FS_Subset
    <3> QED
      BY <3>1, <3>2, FS_EmptySet DEF SoundBut, StartsInTurn
  <2>2. m \notin LegacySucc(r.graph, n) => waits[m] = r.waits[m]
    OBVIOUS
  <2>3. CASE s.node[m] = "pending" /\ s.waits[m] = 0
    <3>1. m \notin ready /\ r.node[m] = "pending" /\ m # n
      BY <1>1, <2>3
    <3>2. m \notin LegacySucc(r.graph, n)
      BY <1>1, <2>3, <3>1 DEF Ready
    <3> QED
      BY <1>1, <2>2, <2>3, <3>1, <3>2 DEF SoundBut, StartsInTurn
  <2>4. CASE s.node[m] \in {"running", "interval"}
    <3>1. m \notin ready => r.node[m] \in {"running", "interval"} /\ m # n
      BY <1>1, <2>4
    <3> QED
      BY <1>1, <1>2, <2>1, <2>2, <3>1 DEF SoundBut, StartsInTurn
  <2> QED
    BY <2>3, <2>4
<1>6. FailureIsKnown(s)
  BY <1>1, <1>2 DEF SoundBut, FailureIsKnown, Nodes
<1>7. ContextIsWhole(s)
  BY <1>1, <1>2 DEF SoundBut, ContextIsWhole, Nodes
<1>8. PriorIsWhole(s)
  BY <1>1, <1>2 DEF SoundBut, PriorIsWhole, DoneBefore, Nodes
<1>9. ASSUME NEW m \in Nodes(s) PROVE RecordsSoFar(s, m)
  <2>1. CASE m = n
    BY <1>1, <2>1, <1>9 DEF SoundBut, RecordsSoFar, PriorIsWhole, DoneBefore, LegacyTerminal, Nodes
  <2>2. CASE m # n /\ m \in ready
    <3>1. r.node[m] = "pending" /\ RecordsSoFar(r, m) /\ r.graph.calls[m] \in Nat
      BY <1>1, <1>2, <2>2, <1>9, GraphIs DEF SoundBut, RunTyped, Nodes
    <3>2. ~DoneBefore(r, m)
      BY <1>1, <1>9, <3>1 DEF SoundBut, PriorIsWhole, Nodes
    <3> QED
      BY <1>1, <2>2, <1>9, <3>1, <3>2 DEF RecordsSoFar, DoneBefore, LegacyTerminal, Nodes
  <2>3. CASE m # n /\ m \notin ready
    BY <1>1, <2>3, <1>9 DEF SoundBut, RecordsSoFar, DoneBefore, Nodes
  <2> QED
    BY <2>1, <2>2, <2>3
<1> QED
  BY <1>3, <1>5, <1>6, <1>7, <1>8, <1>9 DEF SoundRun

-----------------------------------------------------------------------------
(* A call that ends.                                                       *)

LEMMA SameButRecords ==
  ASSUME NEW r, NEW n, SoundBut(r, n), NEW s, RunTyped(s), s.graph = r.graph, s.prior = r.prior,
         s.cancelled = r.cancelled, s.ctx = r.ctx, s.waits = r.waits, s.node = r.node,
         \A m \in Nodes(r) \ {n} : s.left[m] = r.left[m] /\ s.records[m] = r.records[m]
  PROVE  SoundBut(s, n)
<1>1. \A m \in Nodes(r) : Waiting(s, m) = Waiting(r, m)
  BY SameToWaitFor
<1>2. StartsInTurn(s)
  BY <1>1 DEF SoundBut, StartsInTurn, Nodes
<1>3. FailureIsKnown(s) /\ ContextIsWhole(s)
  BY DEF SoundBut, FailureIsKnown, ContextIsWhole, Nodes
<1>4. PriorIsWhole(s)
  BY DEF SoundBut, PriorIsWhole, DoneBefore, Nodes
<1>5. \A m \in Nodes(s) \ {n} : RecordsSoFar(s, m)
  BY DEF SoundBut, RecordsSoFar, DoneBefore, Nodes
<1> QED
  BY <1>2, <1>3, <1>4, <1>5 DEF SoundBut

LEMMA CallCounts ==
  ASSUME NEW r, NEW n \in Nodes(r), SoundBut(r, n), r.left[n] >= 1
  PROVE  LET s == [r EXCEPT !.left[n] = @ - 1] IN
         /\ SoundBut(s, n) /\ s.node = r.node /\ s.graph = r.graph /\ s.cancelled = r.cancelled
         /\ s.records = r.records /\ s.left[n] = r.left[n] - 1
<1> DEFINE s == [r EXCEPT !.left[n] = @ - 1]
<1>1. RunTyped(r)
  BY DEF SoundBut
<1>2. /\ DOMAIN s = RunFields /\ s.on = TRUE /\ s.flow = r.flow /\ s.graph = r.graph /\ s.prior = r.prior
      /\ s.cancelled = r.cancelled /\ s.ctx = r.ctx /\ s.waits = r.waits /\ s.node = r.node
      /\ s.records = r.records /\ s.left = [m \in Nodes(r) |-> IF m = n THEN r.left[n] - 1 ELSE r.left[m]]
  BY <1>1 DEF RunTyped, RunFields
<1>3. RunTyped(s)
  BY <1>1, <1>2 DEF RunTyped, Nodes
<1>4. \A m \in Nodes(r) \ {n} : s.left[m] = r.left[m] /\ s.records[m] = r.records[m]
  BY <1>2
<1>5. SoundBut(s, n)
  BY <1>2, <1>3, <1>4, SameButRecords, ZenonT(60)
<1> QED
  BY <1>2, <1>5

LEMMA RecordCounts ==
  ASSUME NEW r, NEW n \in Nodes(r), SoundBut(r, n), NEW e \in LegacyTerminal
  PROVE  LET s == Recorded(r, n, e) IN
         /\ SoundBut(s, n) /\ s.node = r.node /\ s.graph = r.graph /\ s.cancelled = r.cancelled
         /\ s.prior = r.prior /\ s.left = r.left /\ s.records[n] = Append(r.records[n], e)
<1> DEFINE s == Recorded(r, n, e)
<1>1. RunTyped(r)
  BY DEF SoundBut
<1>2. /\ DOMAIN s = RunFields /\ s.on = TRUE /\ s.flow = r.flow /\ s.graph = r.graph /\ s.prior = r.prior
      /\ s.cancelled = r.cancelled /\ s.ctx = r.ctx /\ s.waits = r.waits /\ s.node = r.node
      /\ s.left = r.left
      /\ s.records = [m \in Nodes(r) |-> IF m = n THEN Append(r.records[n], e) ELSE r.records[m]]
  BY <1>1 DEF RunTyped, RunFields, Recorded
<1>3. RunTyped(s)
  BY <1>1, <1>2, AppendTold DEF RunTyped, Nodes
<1>4. \A m \in Nodes(r) \ {n} : s.left[m] = r.left[m] /\ s.records[m] = r.records[m]
  BY <1>2
<1>5. SoundBut(s, n)
  BY <1>2, <1>3, <1>4, SameButRecords
<1> QED
  BY <1>2, <1>5

LEMMA BothSound ==
  ASSUME NEW r, NEW n \in Nodes(r)
  PROVE  SoundRun(r) <=> SoundBut(r, n) /\ RecordsSoFar(r, n)
BY DEF SoundRun, SoundBut

\* A verifier waits for its next attempt, or makes it.
LEMMA IntervalKeeps ==
  ASSUME NEW r, NEW n \in Nodes(r), SoundBut(r, n), r.node[n] \in {"running", "interval"}, r.left[n] >= 1,
         Len(r.records[n]) + r.left[n] = r.graph.calls[n], NEW v \in {"running", "interval"}
  PROVE  SoundRun(InState(r, n, v))
<1> DEFINE s == InState(r, n, v)
<1>1. RunTyped(r) /\ StartsInTurn(r) /\ FailureIsKnown(r) /\ ContextIsWhole(r) /\ PriorIsWhole(r)
  BY DEF SoundBut
<1>2. /\ Framed(s, r) /\ s.ctx = r.ctx /\ s.waits = r.waits /\ s.left = r.left /\ s.records = r.records
      /\ s.node = [m \in Nodes(r) |-> IF m = n THEN v ELSE r.node[m]]
  BY <1>1, NodeSet
<1>3. /\ DOMAIN s = RunFields /\ s.on = TRUE /\ s.flow = r.flow /\ s.graph = r.graph /\ s.prior = r.prior
      /\ s.cancelled = r.cancelled
  BY <1>2 DEF Framed
<1>4. RunTyped(s)
  BY <1>1, <1>2, <1>3 DEF RunTyped, Nodes, NodeStates
<1>5. \A m \in Nodes(r) : Waiting(s, m) = Waiting(r, m)
  <2>1. s.graph = r.graph /\ \A m \in Nodes(r) : s.node[m] = "success" <=> r.node[m] = "success"
    BY <1>2, <1>3
  <2> QED
    BY <2>1, SameToWaitFor
<1>6. StartsInTurn(s)
  <2> SUFFICES ASSUME NEW m \in Nodes(r)
               PROVE  /\ s.waits[m] = Cardinality(Waiting(s, m))
                      /\ s.node[m] = "pending" /\ s.waits[m] = 0 => s.cancelled
                      /\ s.node[m] \in {"running", "interval"} => s.waits[m] = 0
    BY <1>3 DEF StartsInTurn, Nodes
  <2> QED
    BY <1>1, <1>2, <1>3, <1>5 DEF StartsInTurn
<1>7. FailureIsKnown(s)
  BY <1>1, <1>2, <1>3 DEF FailureIsKnown, Nodes
<1>8. ContextIsWhole(s) /\ PriorIsWhole(s)
  BY <1>1, <1>2, <1>3 DEF ContextIsWhole, PriorIsWhole, DoneBefore, Nodes
<1>9. ASSUME NEW m \in Nodes(s) PROVE RecordsSoFar(s, m)
  <2>1. CASE m = n
    <3>1. ~DoneBefore(r, n)
      BY <1>1 DEF PriorIsWhole
    <3> QED
      BY <1>2, <1>3, <2>1, <3>1 DEF RecordsSoFar, DoneBefore, LegacyTerminal
  <2>2. CASE m # n
    BY <1>2, <1>3, <1>9, <2>2 DEF SoundBut, RecordsSoFar, DoneBefore, Nodes
  <2> QED
    BY <2>1, <2>2
<1> QED
  BY <1>4, <1>6, <1>7, <1>8, <1>9 DEF SoundRun

\* What is noted of a call under way.
LEMMA NotedKeeps ==
  ASSUME NEW r, NEW n \in Nodes(r), SoundRun(r), r.node[n] = "running", r.left[n] >= 1,
         NEW e \in {"success", "failed"}
  PROVE  LET s == Called(r, n, e) IN
         /\ SoundBut(s, n) /\ s.node = r.node /\ s.graph = r.graph /\ s.cancelled = r.cancelled
         /\ s.left[n] = r.left[n] - 1 /\ Len(s.records[n]) + s.left[n] = r.graph.calls[n]
         /\ ~DoneBefore(s, n) /\ Tells(r.graph.calls[n], e, s.records[n])
<1> DEFINE q == [r EXCEPT !.left[n] = @ - 1]
           s == Recorded(q, n, e)
<1>0. Called(r, n, e) = s
  BY DEF Called
<1>1. SoundBut(r, n) /\ RecordsSoFar(r, n) /\ RunTyped(r)
  BY BothSound DEF SoundBut
<1>2. /\ SoundBut(q, n) /\ q.node = r.node /\ q.graph = r.graph /\ q.cancelled = r.cancelled
      /\ q.records = r.records /\ q.left[n] = r.left[n] - 1
  BY <1>1, CallCounts
<1>3. n \in Nodes(q) /\ e \in LegacyTerminal
  BY <1>2 DEF Nodes, LegacyTerminal
<1> HIDE DEF q
<1>4. /\ SoundBut(s, n) /\ s.node = q.node /\ s.graph = q.graph /\ s.cancelled = q.cancelled
      /\ s.left = q.left /\ s.records[n] = Append(q.records[n], e)
  BY <1>2, <1>3, RecordCounts
<1> HIDE DEF s
<1>5. r.graph.calls[n] \in Nat /\ r.left[n] \in Nat /\ r.records[n] \in Seq(LegacyTerminal)
  BY <1>1, GraphIs DEF RunTyped, Nodes
<1>6. Len(r.records[n]) \in Nat /\ Len(r.records[n]) + r.left[n] = r.graph.calls[n]
  BY <1>1, <1>5, AppendTold DEF RecordsSoFar
<1>7. Len(s.records[n]) = Len(r.records[n]) + 1 /\ s.records[n][Len(r.records[n]) + 1] = e
  BY <1>2, <1>4, <1>5, AppendTold
<1>8. r.graph.calls[n] # 0 /\ Max({1, r.graph.calls[n]}) = r.graph.calls[n]
  BY <1>5, <1>6, MaxIs
<1>9. ~DoneBefore(s, n)
  <2>1. s.node[n] = "running" /\ n \in Nodes(s)
    BY <1>2, <1>4 DEF Nodes
  <2> QED
    BY <1>4, <2>1 DEF SoundBut, PriorIsWhole
<1>10. /\ SoundBut(s, n) /\ s.node = r.node /\ s.graph = r.graph /\ s.cancelled = r.cancelled
       /\ s.left[n] = r.left[n] - 1 /\ ~DoneBefore(s, n)
  BY <1>2, <1>4, <1>9
<1>11. Len(s.records[n]) + s.left[n] = r.graph.calls[n] /\ Tells(r.graph.calls[n], e, s.records[n])
  <2> DEFINE told == Len(r.records[n])  left == r.left[n]  due == r.graph.calls[n]
  <2>1. told \in Nat /\ left \in Nat /\ due \in Nat /\ left >= 1 /\ told + left = due
    BY <1>5, <1>6
  <2>2. s.left[n] = left - 1 /\ Len(s.records[n]) = told + 1 /\ s.records[n][told + 1] = e
    BY <1>7, <1>10
  <2> HIDE DEF told, left, due
  <2>3. Len(s.records[n]) \in 1 .. Max({1, due})
    <3>1. told + 1 \in 1 .. due
      BY <2>1
    <3> QED
      BY <1>8, <2>2, <3>1 DEF due
  <2>4. s.records[n][Len(s.records[n])] = e
    BY <2>2
  <2>5. Tells(due, e, s.records[n])
    BY <1>8, <2>3, <2>4 DEF Tells, due
  <2> QED
    <3>1. (told + 1) + (left - 1) = due
      BY <2>1
    <3> QED
      BY <2>2, <2>5, <3>1 DEF due
<1> QED
  BY <1>0, <1>10, <1>11

-----------------------------------------------------------------------------
(* The runner's steps.                                                     *)

LEMMA AnswerKeeps ==
  ASSUME LegacyInv, NEW n, legacyRun.on, n \in DOMAIN legacyRun.node, NEW ok \in BOOLEAN, NodeAnswers(n, ok)
  PROVE  LegacyInv'
<1> DEFINE r == legacyRun
           e == IF ok THEN "success" ELSE "failed"
           q == Called(r, n, e)
<1>1. SoundRun(r) /\ RunTyped(r) /\ n \in Nodes(r) /\ r.node[n] = "running" /\ ~r.cancelled
  BY DEF LegacyInv, NoLegacyRun, NodeAnswers, SoundRun, RunTyped
<1>2. SoundBut(r, n) /\ RecordsSoFar(r, n)
  BY <1>1, BothSound
<1>3. r.left[n] \in Nat /\ r.graph.calls[n] \in Nat /\ r.records[n] \in Seq(LegacyTerminal)
  BY <1>1, GraphIs, SMTT(30) DEF RunTyped, Nodes
<1> SUFFICES SoundRun(legacyRun')
  BY DEF LegacyInv, NodeAnswers
<1>4. CASE r.left[n] = 0
  <2>1. r.graph.calls[n] = 0 /\ r.records[n] = <<>>
    BY <1>1, <1>2, <1>3, <1>4, AppendTold DEF RecordsSoFar
  <2>2. r.graph.kind[n] = "looper" /\ ok
    BY <1>1, <1>4, <2>1, GraphIs DEF RunTyped, Nodes, NodeAnswers
  <2>3. legacyRun' = NodeSucceeded(r.graph, r, n)
    BY <1>4, <2>2 DEF NodeAnswers
  <2>4. Tells(r.graph.calls[n], "success", r.records[n])
    BY <2>1 DEF Tells
  <2> QED
    BY <1>1, <1>2, <2>3, <2>4, SuccessKeeps
<1>5. CASE r.left[n] # 0
  <2>1. r.left[n] >= 1 /\ e \in {"success", "failed"}
    BY <1>3, <1>5
  <2>2. /\ SoundBut(q, n) /\ q.node = r.node /\ q.graph = r.graph /\ q.cancelled = r.cancelled
        /\ q.left[n] = r.left[n] - 1 /\ Len(q.records[n]) + q.left[n] = r.graph.calls[n]
        /\ ~DoneBefore(q, n) /\ Tells(r.graph.calls[n], e, q.records[n])
    BY <1>1, <2>1, NotedKeeps
  <2>3. n \in Nodes(q) /\ q.node[n] = "running" /\ ~q.cancelled
    BY <1>1, <2>2 DEF Nodes
  <2>4. Tells(q.graph.calls[n], e, q.records[n])
    BY <2>2
  <2>5. CASE legacyRun' = NodeSucceeded(r.graph, q, n) /\ ok
    BY <2>2, <2>3, <2>4, <2>5, SuccessKeeps
  <2>6. CASE legacyRun' = NodeFailed(r.graph, q, n) /\ ~ok
    BY <2>2, <2>3, <2>4, <2>6, FailureKeeps
  <2>7. CASE legacyRun' = q /\ r.left[n] > 1
    <3>1. q.left[n] >= 1
      BY <1>3, <2>2, <2>7
    <3>2. RecordsSoFar(q, n)
      BY <2>2, <2>3, <3>1 DEF RecordsSoFar, LegacyTerminal
    <3> QED
      BY <2>2, <2>3, <2>7, <3>2, BothSound
  <2>8. CASE legacyRun' = InState(q, n, "interval") /\ r.left[n] > 1
    BY <1>3, <2>2, <2>3, <2>8, IntervalKeeps
  <2> QED
    BY <1>3, <1>5, <2>5, <2>6, <2>7, <2>8 DEF NodeAnswers
<1> QED
  BY <1>4, <1>5

LEMMA CancelKeeps ==
  ASSUME LegacyInv, NEW n, n \in DOMAIN legacyRun.node, NodeCancelled(n)
  PROVE  LegacyInv'
<1> DEFINE r == legacyRun
           q == Recorded(r, n, "failed")
<1>1. SoundRun(r) /\ RunTyped(r) /\ n \in Nodes(r) /\ r.node[n] \in {"running", "interval"}
  BY DEF LegacyInv, NoLegacyRun, NodeCancelled, Active, SoundRun, RunTyped
<1>2. SoundBut(r, n) /\ RecordsSoFar(r, n)
  BY <1>1, BothSound
<1>3. r.left[n] \in Nat /\ r.graph.calls[n] \in Nat /\ r.records[n] \in Seq(LegacyTerminal)
  BY <1>1, GraphIs DEF RunTyped, Nodes
<1>4. SoundBut(q, n) /\ q.node = r.node /\ q.graph = r.graph /\ q.records[n] = Append(r.records[n], "failed")
  <2>1. "failed" \in LegacyTerminal
    BY DEF LegacyTerminal
  <2> QED
    BY <1>1, <1>2, <2>1, RecordCounts
<1>5. Tells(r.graph.calls[n], "failed", q.records[n])
  <2> DEFINE told == Len(r.records[n])  left == r.left[n]  due == r.graph.calls[n]
  <2>1. told \in Nat /\ left \in Nat /\ due \in Nat /\ told + left = due /\ (due # 0 => left >= 1)
    BY <1>1, <1>2, <1>3, AppendTold DEF RecordsSoFar
  <2>2. Len(q.records[n]) = told + 1 /\ q.records[n][told + 1] = "failed"
    <3>1. "failed" \in LegacyTerminal
      BY DEF LegacyTerminal
    <3> QED
      BY <1>3, <1>4, <3>1, AppendTold
  <2> HIDE DEF told, left, due, q
  <2>3. told + 1 \in 1 .. Max({1, due})
    BY <2>1, MaxIs
  <2> QED
    BY <2>2, <2>3 DEF Tells, due
<1>6. SoundRun(NodeFailed(q.graph, q, n))
  <2>1. n \in Nodes(q) /\ q.node[n] \in {"running", "interval"} /\ Tells(q.graph.calls[n], "failed", q.records[n])
    BY <1>1, <1>4, <1>5 DEF Nodes
  <2> QED
    BY <1>4, <2>1, FailureKeeps
<1> QED
  BY <1>4, <1>6 DEF LegacyInv, NodeCancelled

LEMMA TryKeeps ==
  ASSUME LegacyInv, NEW n, n \in DOMAIN legacyRun.node, NodeTriesAgain(n)
  PROVE  LegacyInv'
<1> DEFINE r == legacyRun
<1>1. SoundRun(r) /\ RunTyped(r) /\ n \in Nodes(r) /\ r.node[n] = "interval"
  BY DEF LegacyInv, NoLegacyRun, NodeTriesAgain, SoundRun, RunTyped
<1>2. SoundBut(r, n) /\ RecordsSoFar(r, n)
  BY <1>1, BothSound
<1>3. r.left[n] >= 1 /\ Len(r.records[n]) + r.left[n] = r.graph.calls[n]
  BY <1>1, <1>2 DEF RecordsSoFar
<1>4. SoundRun(InState(r, n, "running"))
  BY <1>1, <1>2, <1>3, IntervalKeeps
<1> QED
  BY <1>4 DEF LegacyInv, NodeTriesAgain

LEMMA StopKeeps ==
  ASSUME LegacyInv, LegacyStop
  PROVE  LegacyInv'
<1> DEFINE r == legacyRun
           s == [r EXCEPT !.cancelled = TRUE]
<1>1. SoundRun(r) /\ RunTyped(r)
  BY DEF LegacyInv, NoLegacyRun, LegacyStop, SoundRun
<1>2. /\ DOMAIN s = RunFields /\ s.on = TRUE /\ s.flow = r.flow /\ s.graph = r.graph /\ s.prior = r.prior
      /\ s.cancelled = TRUE /\ s.ctx = r.ctx /\ s.waits = r.waits /\ s.left = r.left /\ s.records = r.records
      /\ s.node = r.node
  BY <1>1 DEF RunTyped, RunFields
<1>3. legacyRun' = s
  BY DEF LegacyStop
<1> HIDE DEF s
<1>4. RunTyped(s)
  BY <1>1, <1>2 DEF RunTyped, Nodes
<1>5. StartsInTurn(s)
  <2>1. \A m \in Nodes(r) : Waiting(s, m) = Waiting(r, m)
    BY <1>2, SameToWaitFor
  <2> QED
    BY <1>1, <1>2, <2>1 DEF SoundRun, StartsInTurn, Nodes
<1>6. FailureIsKnown(s)
  BY <1>1, <1>2 DEF SoundRun, RunTyped, FailureIsKnown, LegacyStop, Active, Nodes
<1>7. ContextIsWhole(s) /\ PriorIsWhole(s)
  BY <1>1, <1>2 DEF SoundRun, ContextIsWhole, PriorIsWhole, DoneBefore, Nodes
<1>8. \A m \in Nodes(s) : RecordsSoFar(s, m)
  BY <1>1, <1>2 DEF SoundRun, RecordsSoFar, DoneBefore, Nodes
<1> QED
  BY <1>3, <1>4, <1>5, <1>6, <1>7, <1>8 DEF SoundRun, LegacyInv, LegacyStop

\* A run starts, or resumes what an earlier one completed.
LEMMA ResumedIsSound ==
  ASSUME NEW f \in LegacyFlows, NEW C \in SUBSET LegacyNodes(LegacyGraph[f]), NEW ctx, NEW prior,
         ctx = {n \in C : LegacyGraph[f].kind[n] # "delay"}, GoodSummary(prior),
         prior = NoSummary => C = {},
         prior # NoSummary => /\ prior.graph = LegacyGraph[f]
                              /\ C = {n \in LegacyNodes(LegacyGraph[f]) : prior.node[n] = "success"}
  PROVE  SoundRun(Resumed(LegacyGraph[f], f, ctx, C, prior))
<1> DEFINE g == LegacyGraph[f]
           s == Resumed(g, f, ctx, C, prior)
           N == LegacyNodes(g)
<1>1. /\ DOMAIN s = RunFields /\ s.on = TRUE /\ s.flow = f /\ s.graph = g /\ s.prior = prior
      /\ s.cancelled = FALSE /\ s.ctx = ctx /\ s.left = g.calls
  BY DEF Resumed, RunFields
<1>2. s.waits = [n \in N |-> Cardinality(LegacyPred(g, n) \ C)] /\ s.records = [n \in N |-> <<>>]
  BY DEF Resumed
<1>3. s.node = [n \in N |-> IF n \in C THEN "success" ELSE IF s.waits[n] = 0 THEN "running" ELSE "pending"]
  BY DEF Resumed
<1>4. Nodes(s) = N /\ IsFiniteSet(N) /\ g.calls \in [N -> Nat]
  BY <1>1, GraphIs DEF Nodes
<1> HIDE DEF s
<1>5. \A n \in N : Waiting(s, n) = LegacyPred(g, n) \ C
  BY <1>1, <1>3 DEF Waiting, LegacyPred
<1>6. \A n \in N : Cardinality(LegacyPred(g, n) \ C) \in Nat
  <2> SUFFICES ASSUME NEW n \in N PROVE IsFiniteSet(LegacyPred(g, n) \ C)
    BY FS_CardinalityType
  <2>1. LegacyPred(g, n) \ C \in SUBSET N
    BY DEF LegacyPred
  <2> QED
    BY <1>4, <2>1, FS_Subset
<1>7. RunTyped(s)
  <2>1. s.node \in [N -> NodeStates] /\ s.waits \in [N -> Int] /\ s.left \in [N -> Nat]
    BY <1>1, <1>2, <1>3, <1>4, <1>6 DEF NodeStates, LegacyTerminal
  <2>2. s.records \in [N -> Seq(LegacyTerminal)]
    BY <1>2
  <2> QED
    BY <1>1, <1>4, <2>1, <2>2 DEF RunTyped
<1>8. StartsInTurn(s)
  BY <1>2, <1>3, <1>4, <1>5, ZenonT(60) DEF StartsInTurn
<1>9. FailureIsKnown(s)
  BY <1>1, <1>3, <1>4 DEF FailureIsKnown
<1>10. ContextIsWhole(s)
  BY <1>1, <1>3, <1>4 DEF ContextIsWhole
<1>11. \A n \in N : DoneBefore(s, n) <=> n \in C
  BY <1>1 DEF DoneBefore
<1>12. PriorIsWhole(s)
  BY <1>1, <1>3, <1>4, <1>11 DEF PriorIsWhole
<1>13. ASSUME NEW n \in N PROVE RecordsSoFar(s, n)
  <2>1. s.records[n] = <<>> /\ Len(s.records[n]) = 0 /\ s.left[n] = g.calls[n] /\ s.graph = g /\ g.calls[n] \in Nat
    BY <1>1, <1>2, <1>4
  <2>2. /\ n \in C => s.node[n] = "success" /\ DoneBefore(s, n)
        /\ n \notin C => s.node[n] \in {"running", "pending"} /\ ~DoneBefore(s, n)
    BY <1>3, <1>11
  <2> QED
    BY <2>1, <2>2 DEF RecordsSoFar, LegacyTerminal
<1>14. \A n \in Nodes(s) : RecordsSoFar(s, n)
  BY <1>4, <1>13
<1>15. SoundRun(s)
  BY <1>7, <1>8, <1>9, <1>10, <1>12, <1>14 DEF SoundRun
<1> QED
  BY <1>15 DEF s

LEMMA StartKeeps ==
  ASSUME LegacyInv, LegacyRunStart
  PROVE  LegacyInv'
<1>1. legacyShown \in LegacyFlows /\ GoodSummary(NoSummary)
  BY DEF LegacyInv, GoodSummary
<1>2. SoundRun(Resumed(LegacyGraph[legacyShown], legacyShown, {}, {}, NoSummary))
  BY <1>1, ResumedIsSound
<1> QED
  BY <1>1, <1>2 DEF LegacyInv, LegacyRunStart

LEMMA RetryKeeps ==
  ASSUME LegacyInv, LegacyRetry
  PROVE  LegacyInv'
<1> DEFINE s == legacySummary  g == LegacyGraph[legacyShown]
           C == {n \in DOMAIN s.node : s.node[n] = "success"}
<1>1. legacyShown \in LegacyFlows /\ GoodSummary(s) /\ s # NoSummary
  BY DEF LegacyInv, LegacyRetry, Retryable, NoSummary
<1>2. SummaryTyped(s) /\ WholeSummary(s) /\ s.graph = g /\ ~s.truncated
  BY <1>1 DEF GoodSummary, LegacyRetry, Retryable
<1>3. DOMAIN s.node = LegacyNodes(g)
  BY <1>2 DEF SummaryTyped
<1>4. s.ctx = {n \in C : g.kind[n] # "delay"}
  BY <1>2, <1>3 DEF WholeSummary
<1>5. SoundRun(Resumed(g, legacyShown, s.ctx, C, s))
  BY <1>1, <1>2, <1>3, <1>4, ResumedIsSound
<1> QED
  BY <1>5 DEF LegacyInv, LegacyRetry

\* A run in which nothing runs, failed or was stopped has nothing left to start:
\* what waits waits for something that waits, and a flow has no cycle.
LEMMA NothingStranded ==
  ASSUME NEW r, SoundRun(r), Active(r) = {}, ~r.cancelled, \A n \in Nodes(r) : r.node[n] # "failed"
  PROVE  \A n \in Nodes(r) : r.node[n] = "success"
<1> DEFINE P == {n \in Nodes(r) : r.node[n] # "success"}
<1>1. RunTyped(r) /\ StartsInTurn(r) /\ FailureIsKnown(r)
  BY DEF SoundRun
<1>2. \A n \in P : r.node[n] = "pending"
  BY <1>1 DEF RunTyped, FailureIsKnown, Active, NodeStates, LegacyTerminal
<1>3. P = {}
  <2> SUFFICES ASSUME P # {} PROVE FALSE
    OBVIOUS
  <2>1. Acyclic(r.graph) /\ P \in SUBSET DOMAIN r.graph.kind
    BY <1>1, GraphIs DEF RunTyped, Nodes, LegacyNodes
  <2>2. PICK n \in P : \A m \in P : <<m, n>> \notin r.graph.edges
    BY <2>1 DEF Acyclic
  <2>3. Waiting(r, n) = {}
    BY <2>2 DEF Waiting, LegacyPred, Nodes
  <2>4. r.waits[n] = 0 /\ r.node[n] = "pending"
    BY <1>1, <1>2, <2>2, <2>3, FS_EmptySet DEF StartsInTurn
  <2> QED
    BY <1>1, <2>2, <2>4 DEF StartsInTurn
<1> QED
  BY <1>3

\* The summary of a run that has settled, merged with that of the run it retried.
Recounted(r) == IF r.prior.none THEN Summary(r) ELSE Merged(r.prior, Summary(r))

LEMMA SummaryIs ==
  ASSUME NEW r, SoundRun(r), Active(r) = {}
  PROVE  LET s == Recounted(r)  P == {n \in Nodes(r) : r.node[n] = "pending"} IN
         /\ DOMAIN s = SummaryFields /\ s.none = FALSE /\ s.of = r.flow /\ s.graph = r.graph
         /\ s.ctx = r.ctx /\ s.truncated = FALSE /\ s.status = Summary(r).status
         /\ s.node = [n \in Nodes(r) |-> IF n \in P THEN "skipped" ELSE r.node[n]]
         /\ s.records = [n \in Nodes(r) |->
              IF n \in P THEN <<"skipped">> ELSE IF DoneBefore(r, n) THEN r.prior.records[n] ELSE r.records[n]]
<1> DEFINE P == {n \in Nodes(r) : r.node[n] = "pending"}
           all == Skip(r, P)
           t == Summary(r)
           s == Recounted(r)
<1>1. RunTyped(r) /\ GoodSummary(r.prior) /\ (r.prior # NoSummary => r.prior.graph = r.graph)
  BY DEF SoundRun, PriorIsWhole
<1>2. \A n \in Nodes(r) : /\ DoneBefore(r, n) => r.records[n] = <<>> /\ n \notin P
                          /\ n \in P => r.records[n] = <<>>
  <2> SUFFICES ASSUME NEW n \in Nodes(r)
               PROVE  /\ DoneBefore(r, n) => r.records[n] = <<>> /\ n \notin P
                      /\ n \in P => r.records[n] = <<>>
    OBVIOUS
  <2>1. RecordsSoFar(r, n) /\ (DoneBefore(r, n) => r.node[n] = "success") /\ r.records[n] \in Seq(LegacyTerminal)
    BY <1>1 DEF SoundRun, PriorIsWhole, RunTyped
  <2> QED
    BY <2>1, AppendTold DEF RecordsSoFar
<1>3. all.node = [n \in Nodes(r) |-> IF n \in P THEN "skipped" ELSE r.node[n]]
  BY <1>1, SkipIs
<1>4. all.records = [n \in Nodes(r) |-> IF n \in P THEN <<"skipped">> ELSE r.records[n]]
  <2>1. all.records = [n \in Nodes(r) |-> IF n \in P THEN Append(r.records[n], "skipped") ELSE r.records[n]]
    BY <1>1, SkipRecords
  <2>2. \A n \in P : Append(r.records[n], "skipped") = <<"skipped">>
    BY <1>2, SkippedAlone
  <2> QED
    BY <2>1, <2>2
<1>5. {n \in DOMAIN r.node : r.node[n] = "pending"} = P
  BY <1>1 DEF RunTyped
<1>6. /\ DOMAIN t = SummaryFields /\ t.none = FALSE /\ t.of = r.flow /\ t.graph = r.graph
      /\ t.ctx = r.ctx /\ t.truncated = FALSE /\ t.node = all.node /\ t.records = all.records
  BY <1>5 DEF Summary, SummaryFields
<1> HIDE DEF all, t
<1>7. CASE r.prior = NoSummary
  <2>1. s = t /\ \A n \in Nodes(r) : ~DoneBefore(r, n)
    BY <1>7 DEF Recounted, DoneBefore, NoSummary, t
  <2> QED
    BY <1>3, <1>4, <1>6, <2>1 DEF t
<1>8. CASE r.prior # NoSummary
  <2>1. SummaryTyped(r.prior) /\ r.prior.graph = r.graph
    BY <1>1, <1>8 DEF GoodSummary
  <2>2. s = Merged(r.prior, t)
    BY <2>1 DEF Recounted, SummaryTyped, t
  <2>3. /\ DOMAIN s = SummaryFields /\ s.none = FALSE /\ s.of = r.flow /\ s.graph = r.graph
        /\ s.ctx = r.ctx /\ s.truncated = FALSE /\ s.status = t.status /\ s.node = all.node
    BY <1>6, <2>2 DEF Merged, SummaryFields
  <2>4. s.records = [n \in Nodes(r) |->
           IF r.prior.node[n] = "success" THEN r.prior.records[n] \o t.records[n] ELSE t.records[n]]
    BY <1>4, <1>6, <2>2 DEF Merged, SummaryFields
  <2>5. \A n \in Nodes(r) : r.prior.records[n] \in Seq(LegacyTerminal)
    BY <2>1 DEF SummaryTyped, Nodes
  <2>6. \A n \in Nodes(r) : s.records[n] =
           IF n \in P THEN <<"skipped">> ELSE IF DoneBefore(r, n) THEN r.prior.records[n] ELSE r.records[n]
    <3> SUFFICES ASSUME NEW n \in Nodes(r)
                 PROVE  s.records[n] = IF n \in P THEN <<"skipped">>
                                       ELSE IF DoneBefore(r, n) THEN r.prior.records[n] ELSE r.records[n]
      OBVIOUS
    <3>1. CASE DoneBefore(r, n)
      <4>1. r.records[n] = <<>> /\ n \notin P /\ r.prior.node[n] = "success"
        BY <1>2, <3>1 DEF DoneBefore
      <4>2. s.records[n] = r.prior.records[n] \o <<>>
        <5>1. t.records[n] = <<>>
          BY <1>4, <1>6, <4>1
        <5> QED
          BY <2>4, <4>1, <5>1
      <4> QED
        BY <2>5, <3>1, <4>1, <4>2
    <3>2. CASE ~DoneBefore(r, n)
      <4>1. s.records[n] = t.records[n]
        BY <1>8, <2>4, <3>2 DEF DoneBefore
      <4> QED
        BY <1>4, <1>6, <3>2, <4>1
    <3> QED
      BY <3>1, <3>2
  <2>7. s.records = [n \in Nodes(r) |->
           IF n \in P THEN <<"skipped">> ELSE IF DoneBefore(r, n) THEN r.prior.records[n] ELSE r.records[n]]
    BY <2>4, <2>6
  <2> QED
    BY <1>3, <2>3, <2>7 DEF t
<1> QED
  BY <1>7, <1>8

LEMMA ToldIsWhole ==
  ASSUME NEW r, SoundRun(r), Active(r) = {}
  PROVE  SummaryTyped(Recounted(r)) /\ WholeSummary(Recounted(r))
<1> DEFINE s == Recounted(r)
           P == {n \in Nodes(r) : r.node[n] = "pending"}
<1>1. RunTyped(r) /\ FailureIsKnown(r) /\ ContextIsWhole(r) /\ PriorIsWhole(r)
  BY DEF SoundRun
<1>2. /\ DOMAIN s = SummaryFields /\ s.none = FALSE /\ s.of = r.flow /\ s.graph = r.graph
      /\ s.ctx = r.ctx /\ s.truncated = FALSE /\ s.status = Summary(r).status
      /\ s.node = [n \in Nodes(r) |-> IF n \in P THEN "skipped" ELSE r.node[n]]
      /\ s.records = [n \in Nodes(r) |->
           IF n \in P THEN <<"skipped">> ELSE IF DoneBefore(r, n) THEN r.prior.records[n] ELSE r.records[n]]
  BY SummaryIs
<1> HIDE DEF s
<1>3. LegacyNodes(s.graph) = Nodes(r) /\ DOMAIN r.node = Nodes(r) /\ DOMAIN s.node = Nodes(r)
  BY <1>1, <1>2 DEF Nodes, RunTyped
<1>4. \A n \in Nodes(r) : r.node[n] \in LegacyTerminal \cup {"pending"}
  BY <1>1 DEF RunTyped, NodeStates, Active
<1>5. \A n \in Nodes(r) : DoneBefore(r, n) =>
        /\ SummaryTyped(r.prior) /\ WholeSummary(r.prior) /\ r.prior.graph = r.graph
        /\ r.prior.node[n] = "success" /\ r.node[n] = "success"
  BY <1>1 DEF PriorIsWhole, DoneBefore, GoodSummary
<1>6. ASSUME NEW n \in Nodes(r)
      PROVE  /\ s.node[n] \in LegacyTerminal /\ s.records[n] \in Seq(LegacyTerminal)
             /\ Tells(s.graph.calls[n], s.node[n], s.records[n])
  <2>1. r.graph.calls[n] \in Nat /\ RecordsSoFar(r, n)
    BY <1>1, GraphIs DEF RunTyped, Nodes, SoundRun
  <2>2. CASE n \in P
    <3>1. s.node[n] = "skipped" /\ s.records[n] = <<"skipped">>
      BY <1>2, <2>2
    <3>2. <<"skipped">> \in Seq(LegacyTerminal) /\ "skipped" \in LegacyTerminal
      BY DEF LegacyTerminal
    <3> QED
      BY <1>2, <2>1, <3>1, <3>2, SkippedAlone
  <2>3. CASE n \notin P /\ DoneBefore(r, n)
    <3>1. s.node[n] = "success" /\ s.records[n] = r.prior.records[n] /\ s.graph.calls[n] = r.prior.graph.calls[n]
      BY <1>2, <1>5, <2>3
    <3>2. n \in DOMAIN r.prior.node /\ r.prior.records[n] \in Seq(LegacyTerminal)
      BY <1>5, <2>3 DEF SummaryTyped, Nodes
    <3>3. Tells(r.prior.graph.calls[n], "success", r.prior.records[n])
      BY <1>5, <2>3, <3>2 DEF WholeSummary, Tells
    <3> QED
      BY <3>1, <3>2, <3>3 DEF LegacyTerminal
  <2>4. CASE n \notin P /\ ~DoneBefore(r, n)
    <3>1. s.node[n] = r.node[n] /\ s.records[n] = r.records[n] /\ s.node[n] \in LegacyTerminal
      BY <1>2, <1>4, <2>4
    <3>2. r.records[n] \in Seq(LegacyTerminal)
      BY <1>1 DEF RunTyped
    <3> QED
      BY <1>2, <2>1, <2>4, <3>1, <3>2 DEF RecordsSoFar
  <2> QED
    BY <2>2, <2>3, <2>4
<1>7. s.status = "success" <=> \A n \in Nodes(r) : s.node[n] = "success"
  <2>1. s.status = CASE r.cancelled -> "cancelled"
                     [] ~r.cancelled /\ \E n \in DOMAIN r.node : r.node[n] = "failed" -> "failed"
                     [] OTHER -> "success"
    BY <1>2 DEF Summary
  <2>2. r.cancelled \in BOOLEAN
    BY <1>1 DEF RunTyped
  <2>3. s.status = "success" <=> ~r.cancelled /\ \A n \in Nodes(r) : r.node[n] # "failed"
    BY <1>3, <2>1, <2>2
  <2>4. (\A n \in Nodes(r) : s.node[n] = "success") <=> \A n \in Nodes(r) : r.node[n] = "success"
    BY <1>2
  <2>5. (\A n \in Nodes(r) : r.node[n] = "success") => ~r.cancelled
    BY <1>1 DEF FailureIsKnown
  <2>6. ~r.cancelled /\ (\A n \in Nodes(r) : r.node[n] # "failed") => \A n \in Nodes(r) : r.node[n] = "success"
    BY NothingStranded
  <2> QED
    BY <2>3, <2>4, <2>5, <2>6
<1>8. s.ctx = {n \in Nodes(r) : s.node[n] = "success" /\ s.graph.kind[n] # "delay"}
  BY <1>1, <1>2 DEF ContextIsWhole
<1>9. SummaryTyped(s)
  <2>1. s.node \in [LegacyNodes(s.graph) -> LegacyTerminal] /\ s.records \in [LegacyNodes(s.graph) -> Seq(LegacyTerminal)]
    BY <1>2, <1>3, <1>6
  <2>2. \E f \in LegacyFlows : s.graph = LegacyGraph[f]
    BY <1>1, <1>2 DEF RunTyped
  <2> QED
    BY <1>2, <2>1, <2>2 DEF SummaryTyped
<1>10. WholeSummary(s)
  BY <1>3, <1>6, <1>7, <1>8 DEF WholeSummary, Tells
<1> QED
  BY <1>9, <1>10 DEF s

LEMMA StoredIsWhole ==
  ASSUME NEW s, SummaryTyped(s), WholeSummary(s), NEW oversized \in BOOLEAN
  PROVE  GoodSummary(Stored(s, oversized))
<1> DEFINE t == [s EXCEPT !.ctx = {}, !.truncated = TRUE]
<1>1. /\ DOMAIN t = SummaryFields /\ t.none = FALSE /\ t.graph = s.graph /\ t.node = s.node
      /\ t.records = s.records /\ t.truncated = TRUE /\ t.status = s.status
  BY DEF SummaryTyped, SummaryFields
<1>2. Stored(s, oversized) = IF oversized THEN t ELSE s
  BY DEF Stored
<1> HIDE DEF t
<1>3. SummaryTyped(t)
  BY <1>1 DEF SummaryTyped
<1>4. WholeSummary(t)
  <2>1. t.status = "success" <=> \A n \in DOMAIN t.node : t.node[n] = "success"
    BY <1>1 DEF WholeSummary
  <2>2. \A n \in DOMAIN t.node : t.node[n] \in LegacyTerminal /\ Tells(t.graph.calls[n], t.node[n], t.records[n])
    <3>1. \A n \in DOMAIN s.node : s.node[n] \in LegacyTerminal /\ Tells(s.graph.calls[n], s.node[n], s.records[n])
      BY DEF WholeSummary, Tells
    <3> QED
      BY <1>1, <3>1
  <2> QED
    BY <1>1, <2>1, <2>2 DEF WholeSummary, Tells
<1> QED
  BY <1>2, <1>3, <1>4 DEF GoodSummary

LEMMA SettleKeeps ==
  ASSUME LegacyInv, LegacySettle
  PROVE  LegacyInv'
<1> DEFINE s == Recounted(legacyRun)
<1>1. SoundRun(legacyRun) /\ RunTyped(legacyRun)
  BY DEF LegacyInv, NoLegacyRun, LegacySettle, SoundRun
<1>2. SummaryTyped(s) /\ WholeSummary(s)
  BY <1>1, ToldIsWhole DEF LegacySettle
<1>3. legacySummary' = s /\ legacyRun' = NoLegacyRun /\ legacyShown' = legacyShown
  BY DEF LegacySettle, Recounted
<1>4. PICK oversized \in BOOLEAN :
        legacyStored' = [legacyStored EXCEPT ![legacyRun.flow] = Stored(s, oversized)]
  BY DEF LegacySettle, Recounted, StoredFor
<1> HIDE DEF s
<1>5. GoodSummary(Stored(s, oversized))
  BY <1>2, StoredIsWhole
<1>6. /\ legacyStored' = [f \in LegacyFlows |-> legacyStored'[f]]
      /\ \A f \in LegacyFlows : GoodSummary(legacyStored'[f])
  BY <1>4, <1>5 DEF LegacyInv
<1> QED
  BY <1>2, <1>3, <1>6 DEF LegacyInv, GoodSummary

-----------------------------------------------------------------------------

LEMMA LegacyInvIsInductive ==
  ASSUME LegacyInv, [LegacyNext]_legacyVars
  PROVE  LegacyInv'
<1>1. CASE LegacyNodeStep
  BY <1>1, AnswerKeeps, CancelKeeps, TryKeeps DEF LegacyNodeStep
<1>2. CASE \E f \in LegacyFlows : LegacySelect(f)
  BY <1>2 DEF LegacyInv, LegacySelect
<1>3. CASE LegacyReload
  BY <1>3 DEF LegacyInv, LegacyReload
<1>4. CASE UNCHANGED legacyVars
  BY <1>4 DEF LegacyInv, legacyVars
<1> QED
  BY <1>1, <1>2, <1>3, <1>4, SettleKeeps, StartKeeps, RetryKeeps, StopKeeps DEF LegacyNext

\* For any flows without a cycle, however they fail, are stopped, retried, lost
\* to a reload or run while another flow is shown, what the editor shows and
\* keeps of a run tells of one whole run (SummariesAreWhole).
THEOREM SummariesStayWhole == LegacySpec => []SummariesAreWhole
<1>1. LegacyInit => LegacyInv
  BY DEF LegacyInit, LegacyInv, GoodSummary
<1>2. LegacyInv => SummariesAreWhole
  BY DEF LegacyInv, GoodSummary, SummaryTyped, NoSummary, SummariesAreWhole
<1> QED
  BY <1>1, <1>2, LegacyInvIsInductive, PTL DEF LegacySpec

-----------------------------------------------------------------------------
(***************************************************************************)
(* That nothing is lost of the collections, for any trees and any number   *)
(* of changes, while one change ends before the next begins.               *)
(*                                                                         *)
(* What is written was worked out on what is shown, and what is shown is   *)
(* what is stored whenever a change begins.  So each write that is yet to  *)
(* be made leaves all that is wanted somewhere: of a move between roots    *)
(* the first only adds, and the second takes away what the first added     *)
(* elsewhere.                                                              *)
(***************************************************************************)

\* A tree's nodes say something each, and hang from roots and collections only.
TreeSound(t) ==
  /\ DOMAIN t.says = NodesIn(t) /\ NodesIn(t) \subseteq TreeNodes
  /\ \A n \in NodesIn(t) : t.up[n] \in TreeTargets
StoreSound == DOMAIN storedTrees \subseteq TreeRoots /\ \A r \in DOMAIN storedTrees : TreeSound(storedTrees[r])

After(trees, w) == [trees EXCEPT ![w.root] = w.tree]
\* What told says is said somewhere in trees.
Holds(trees, told) ==
  \A n \in DOMAIN told : \E r \in DOMAIN trees : n \in NodesIn(trees[r]) /\ trees[r].says[n] = told[n]

OpFields == {"at", "writes", "gone", "news", "rows"}
WriteSound(w) == w.root \in DOMAIN storedTrees /\ TreeSound(w.tree)

\* A change that is yet to write has been worked out on what is stored, and
\* loses nothing: after none of its writes is anything wanted gone.
WritesSafely(op) ==
  /\ shownTrees = storedTrees /\ \A i \in 1..Len(op.writes) : WriteSound(op.writes[i])
  /\ \/ Len(op.writes) = 1 /\ Holds(After(storedTrees, op.writes[1]), Told(op))
     \/ /\ Len(op.writes) = 2 /\ op.gone = {} /\ DOMAIN op.news = {}
        /\ Holds(After(storedTrees, op.writes[1]), wanted)
        /\ Holds(After(After(storedTrees, op.writes[1]), op.writes[2]), wanted)
\* One that has written is read back before the next write.
ReadsBack(op) ==
  /\ op.at = "showing" => op.rows = storedTrees
  /\ \/ Len(op.writes) = 0 \/ Len(op.writes) = 1
     \/ /\ Len(op.writes) = 2 /\ op.gone = {} /\ DOMAIN op.news = {} /\ WriteSound(op.writes[2])
        /\ Holds(After(storedTrees, op.writes[2]), wanted)
IsWrites(s) == s \in Seq(Range(s))
OpSound(op) ==
  /\ DOMAIN op = OpFields /\ IsWrites(op.writes)
  /\ op.at \in {"calling", "writing", "reading", "showing"}
  /\ op.at \in {"calling", "writing"} => WritesSafely(op)
  /\ op.at \in {"reading", "showing"} => ReadsBack(op)

TreeInv ==
  /\ treeCount \in Nat /\ StoreSound /\ NothingLost
  /\ DOMAIN treeOps \subseteq {treeCount}
  /\ treeCount \in DOMAIN treeOps => OpSound(treeOps[treeCount])
  /\ DOMAIN treeOps = {} => shownTrees = storedTrees

-----------------------------------------------------------------------------
(* What the tree operators do. *)

LEMMA FirstRootHasIt ==
  ASSUME NEW trees, NEW n, Found(trees, n)
  PROVE  RootOf(trees, n) \in DOMAIN trees /\ InTree(trees[RootOf(trees, n)], RootOf(trees, n), n)
BY DEF Found, RootOf

LEMMA NodeIsInIts ==
  ASSUME NEW trees, NEW n \in TreeNodes, DOMAIN trees \subseteq TreeRoots, Found(trees, n)
  PROVE  RootOf(trees, n) \in DOMAIN trees /\ n \in NodesIn(trees[RootOf(trees, n)])
BY FirstRootHasIt, TreeAssumption DEF InTree

LEMMA RequestsHaveNoneBelow ==
  ASSUME NEW t, TreeSound(t), NEW n \in TreeNodes, TreeKind[n] # "collection"
  PROVE  Below(t, n) = {}
<1>1. n \notin TreeTargets
  BY TreeAssumption DEF TreeTargets
<1>2. Range(t.up) \subseteq TreeTargets
  BY DEF TreeSound, NodesIn, Range
<1> QED
  BY <1>1, <1>2 DEF Below, Above

LEMMA CutKeeps ==
  ASSUME NEW t, TreeSound(t), NEW n
  PROVE  /\ TreeSound(Cut(t, n)) /\ NodesIn(Cut(t, n)) = NodesIn(t) \ ({n} \cup Below(t, n))
         /\ \A m \in NodesIn(Cut(t, n)) : Cut(t, n).says[m] = t.says[m]
BY DEF Cut, TreeSound, NodesIn

LEMMA GraftKeeps ==
  ASSUME NEW t, TreeSound(t), NEW branch, TreeSound(branch), NEW root, NEW target \in TreeTargets,
         NEW n \in NodesIn(branch), InTree(t, root, target)
  PROVE  LET g == Graft(t, root, target, branch, n)
         IN /\ TreeSound(g) /\ NodesIn(g) = NodesIn(t) \cup {n} \cup Below(branch, n)
            /\ \A m \in {n} \cup Below(branch, n) : g.says[m] = branch.says[m]
            /\ \A m \in NodesIn(t) \ ({n} \cup Below(branch, n)) : g.says[m] = t.says[m]
<1> DEFINE new == {n} \cup Below(branch, n)
<1>1. new \subseteq NodesIn(branch)
  BY DEF Below
<1> HIDE DEF new
<1> DEFINE g == [up |-> [m \in NodesIn(t) \cup new |-> IF m = n THEN target ELSE IF m \in new THEN branch.up[m] ELSE t.up[m]],
                 says |-> [m \in NodesIn(t) \cup new |-> IF m \in new THEN branch.says[m] ELSE t.says[m]]]
<1>2. Graft(t, root, target, branch, n) = g
  BY DEF Graft, new
<1>3. TreeSound(g)
  BY <1>1 DEF TreeSound, NodesIn
<1>4. NodesIn(g) = NodesIn(t) \cup new
  BY DEF NodesIn
<1>5. (\A m \in new : g.says[m] = branch.says[m]) /\ (\A m \in NodesIn(t) \ new : g.says[m] = t.says[m])
  OBVIOUS
<1> HIDE DEF g
<1> QED
  BY <1>2, <1>3, <1>4, <1>5 DEF new

LEMMA ChangedKeeps ==
  ASSUME NEW t, TreeSound(t), NEW n, NEW what
  PROVE  /\ TreeSound(Changed(t, n, what)) /\ NodesIn(Changed(t, n, what)) = NodesIn(t)
         /\ \A m \in NodesIn(t) : Changed(t, n, what).says[m] = IF m = n THEN what ELSE t.says[m]
BY DEF Changed, TreeSound, NodesIn

LEMMA TwigIsSound ==
  ASSUME NEW n \in TreeNodes, NEW target \in TreeTargets, NEW what
  PROVE  /\ TreeSound(Twig(n, target, what)) /\ NodesIn(Twig(n, target, what)) = {n}
         /\ Twig(n, target, what).says[n] = what
BY DEF Twig, Just, TreeSound, NodesIn

\* Writing a tree that has what it replaces loses nothing.
LEMMA MoreHoldsMore ==
  ASSUME NEW trees, NEW told, Holds(trees, told), NEW w, w.root \in DOMAIN trees,
         \A m \in NodesIn(trees[w.root]) :
           m \in DOMAIN told => m \in NodesIn(w.tree) /\ w.tree.says[m] = trees[w.root].says[m]
  PROVE  Holds(After(trees, w), told)
BY DEF Holds, After

-----------------------------------------------------------------------------
(* Each change, as it begins, is worked out on what is stored. *)

LEMMA SingleWriteIsSafe ==
  ASSUME TreeInv, shownTrees = storedTrees, NEW root \in DOMAIN storedTrees, NEW tree, TreeSound(tree), NEW away, NEW news,
         \A m \in DOMAIN news : m \in NodesIn(tree) /\ tree.says[m] = news[m],
         \A m \in NodesIn(storedTrees[root]) \ DOMAIN news : m \in DOMAIN wanted \ away =>
           m \in NodesIn(tree) /\ tree.says[m] = storedTrees[root].says[m]
  PROVE  OpSound(Op(<<Write(root, tree)>>, away, news))
         /\ OpSound([Op(<<Write(root, tree)>>, away, news) EXCEPT !.at = "calling"])
<1> DEFINE w == Write(root, tree)  op == Op(<<w>>, away, news)  sent == [op EXCEPT !.at = "calling"]
           told == [n \in DOMAIN news \cup (DOMAIN wanted \ away) |-> IF n \in DOMAIN news THEN news[n] ELSE wanted[n]]
<1>1. w.root = root /\ w.tree = tree
  BY DEF Write
<1>2. /\ DOMAIN op = OpFields /\ op.at = "writing" /\ op.writes = <<w>> /\ op.gone = away /\ op.news = news
      /\ DOMAIN sent = OpFields /\ sent.at = "calling" /\ sent.writes = <<w>> /\ sent.gone = away /\ sent.news = news
  BY DEF Op, OpFields
<1> HIDE DEF w, op, sent
<1>3. <<w>> \in Seq(Range(<<w>>)) /\ Len(<<w>>) = 1 /\ <<w>>[1] = w
  BY DEF Range
<1>4. WriteSound(w)
  BY <1>1 DEF WriteSound
<1>5. Told(op) = told /\ Told(sent) = told
  BY <1>2, <1>3 DEF Told
<1>6. Holds(After(storedTrees, w), told)
  <2> DEFINE trees == After(storedTrees, w)
  <2>1. /\ DOMAIN trees = DOMAIN storedTrees /\ trees[root] = tree
        /\ \A r \in DOMAIN storedTrees : r # root => trees[r] = storedTrees[r]
    BY <1>1 DEF After
  <2> HIDE DEF trees
  <2> SUFFICES ASSUME NEW m \in DOMAIN told
               PROVE  \E r \in DOMAIN trees : m \in NodesIn(trees[r]) /\ trees[r].says[m] = told[m]
    BY DEF Holds, trees
  <2>2. CASE m \in DOMAIN news
    BY <2>1, <2>2
  <2>3. CASE m \notin DOMAIN news
    <3>1. m \in DOMAIN wanted \ away /\ told[m] = wanted[m]
      BY <2>3
    <3>2. PICK r \in DOMAIN storedTrees : m \in NodesIn(storedTrees[r]) /\ storedTrees[r].says[m] = wanted[m]
      BY <3>1 DEF TreeInv, NothingLost
    <3> QED
      BY <2>1, <2>3, <3>1, <3>2
  <2> QED
    BY <2>2, <2>3
<1>7. WritesSafely(op)
  BY <1>2, <1>3, <1>4, <1>5, <1>6 DEF WritesSafely
<1>8. WritesSafely(sent)
  BY <1>2, <1>3, <1>4, <1>5, <1>6 DEF WritesSafely
<1>9. OpSound(op) /\ OpSound(sent)
  BY <1>2, <1>3, <1>7, <1>8 DEF OpSound, IsWrites
<1> QED
  BY <1>9 DEF op, sent, w

LEMMA BegunStays ==
  ASSUME ~Overlap, TreeInv, NEW op, MayBegin, Begin(op), OpSound(op)
  PROVE  TreeInv'
<1> USE DEF MayBegin, Begin
<1>1. DOMAIN treeOps' = {treeCount'} /\ treeOps'[treeCount'] = op /\ treeCount' \in Nat
  BY DEF TreeInv, Numbered
<1>2. OpSound(op)'
  BY DEF OpSound, WritesSafely, ReadsBack, WriteSound, Told
<1>3. (StoreSound /\ NothingLost)'
  BY DEF TreeInv, StoreSound, NothingLost
<1> QED
  BY <1>1, <1>2, <1>3 DEF TreeInv

LEMMA IdleShowsStored ==
  ASSUME ~Overlap, TreeInv, Overlap \/ DOMAIN treeOps = {}
  PROVE  shownTrees = storedTrees /\ DOMAIN storedTrees \subseteq TreeRoots
         /\ \A r \in DOMAIN storedTrees : TreeSound(storedTrees[r])
BY DEF TreeInv, StoreSound

LEMMA CreateIsSafe ==
  ASSUME ~Overlap, TreeInv, NEW n \in TreeNodes, NEW target \in TreeTargets, Create(n, target)
  PROVE  TreeInv'
<1> DEFINE root == RootOf(shownTrees, target)  twig == Twig(n, target, Content)
           g == Graft(shownTrees[root], root, target, twig, n)
<1>1. shownTrees = storedTrees /\ \A r \in DOMAIN storedTrees : TreeSound(storedTrees[r])
  BY IdleShowsStored DEF Create, MayBegin
<1>2. root \in DOMAIN storedTrees /\ InTree(shownTrees[root], root, target)
  BY <1>1, FirstRootHasIt DEF Create, Shown
<1>3. TreeSound(twig) /\ NodesIn(twig) = {n} /\ twig.says[n] = Content
  BY TwigIsSound
<1>4. n \notin NodesIn(storedTrees[root])
  BY <1>2 DEF Create, Unused, Found, InTree
<1>5. Below(twig, n) \subseteq {n}
  BY <1>3 DEF Below
<1> HIDE DEF root, twig
<1>6. /\ TreeSound(g) /\ NodesIn(g) = NodesIn(shownTrees[root]) \cup {n} /\ g.says[n] = Content
      /\ \A m \in NodesIn(shownTrees[root]) \ {n} : g.says[m] = shownTrees[root].says[m]
  BY <1>1, <1>2, <1>3, <1>5, GraftKeeps
<1> HIDE DEF g
<1>7. DOMAIN Just(n, Content) = {n} /\ Just(n, Content)[n] = Content
  BY DEF Just
<1>8. OpSound(Op(<<Write(root, g)>>, {}, Just(n, Content)))
  BY <1>1, <1>2, <1>6, <1>7, SingleWriteIsSafe
<1>9. MayBegin /\ Begin(Op(<<Write(root, g)>>, {}, Just(n, Content)))
  BY DEF Create, Creating, root, g, twig
<1> QED
  BY <1>8, <1>9, BegunStays

LEMMA ChangeIsSafe ==
  ASSUME ~Overlap, TreeInv, NEW n \in TreeNodes, Change(n)
  PROVE  TreeInv'
<1> DEFINE root == RootOf(shownTrees, n)  g == Changed(shownTrees[root], n, Content)
<1>1. shownTrees = storedTrees /\ \A r \in DOMAIN storedTrees : TreeSound(storedTrees[r])
  BY IdleShowsStored DEF Change, MayBegin
<1>2. root \in DOMAIN storedTrees /\ n \in NodesIn(storedTrees[root])
  BY <1>1, NodeIsInIts DEF Change, Shown, TreeInv, StoreSound
<1> HIDE DEF root
<1>3. /\ TreeSound(g) /\ NodesIn(g) = NodesIn(shownTrees[root])
      /\ \A m \in NodesIn(shownTrees[root]) : g.says[m] = IF m = n THEN Content ELSE shownTrees[root].says[m]
  BY <1>1, <1>2, ChangedKeeps
<1> HIDE DEF g
<1>4. DOMAIN Just(n, Content) = {n} /\ Just(n, Content)[n] = Content
  BY DEF Just
<1>5. OpSound(Op(<<Write(root, g)>>, {}, Just(n, Content)))
  BY <1>1, <1>2, <1>3, <1>4, SingleWriteIsSafe
<1>6. MayBegin /\ Begin(Op(<<Write(root, g)>>, {}, Just(n, Content)))
  BY DEF Change, Changing, root, g
<1> QED
  BY <1>5, <1>6, BegunStays

LEMMA SendIsSafe ==
  ASSUME ~Overlap, TreeInv, NEW n \in TreeNodes, Send(n)
  PROVE  TreeInv'
<1> DEFINE root == RootOf(shownTrees, n)  g == Changed(shownTrees[root], n, shownTrees[root].says[n])
<1>1. shownTrees = storedTrees /\ \A r \in DOMAIN storedTrees : TreeSound(storedTrees[r])
  BY IdleShowsStored DEF Send, MayBegin
<1>2. root \in DOMAIN storedTrees /\ n \in NodesIn(storedTrees[root])
  BY <1>1, NodeIsInIts DEF Send, Shown, TreeInv, StoreSound
<1> HIDE DEF root
<1>3. /\ TreeSound(g) /\ NodesIn(g) = NodesIn(shownTrees[root])
      /\ \A m \in NodesIn(shownTrees[root]) : g.says[m] = shownTrees[root].says[m]
  BY <1>1, <1>2, ChangedKeeps
<1> HIDE DEF g
<1>4. DOMAIN << >> = {}
  OBVIOUS
<1>5. OpSound([Op(<<Write(root, g)>>, {}, << >>) EXCEPT !.at = "calling"])
  BY <1>1, <1>2, <1>3, <1>4, SingleWriteIsSafe
<1>6. MayBegin /\ Begin([Op(<<Write(root, g)>>, {}, << >>) EXCEPT !.at = "calling"])
  BY DEF Send, Changing, root, g
<1> QED
  BY <1>5, <1>6, BegunStays

LEMMA RemoveIsSafe ==
  ASSUME ~Overlap, TreeInv, NEW n \in TreeNodes, Remove(n)
  PROVE  TreeInv'
<1> DEFINE root == RootOf(shownTrees, n)  g == Cut(shownTrees[root], n)
           away == {n} \cup Below(shownTrees[root], n)
<1>1. shownTrees = storedTrees /\ \A r \in DOMAIN storedTrees : TreeSound(storedTrees[r])
  BY IdleShowsStored DEF Remove, MayBegin
<1>2. root \in DOMAIN storedTrees
  BY <1>1, FirstRootHasIt DEF Remove, Shown
<1> HIDE DEF root
<1>3. /\ TreeSound(g) /\ NodesIn(g) = NodesIn(shownTrees[root]) \ away
      /\ \A m \in NodesIn(g) : g.says[m] = shownTrees[root].says[m]
  BY <1>1, <1>2, CutKeeps
<1> HIDE DEF g, away
<1>4. DOMAIN << >> = {}
  OBVIOUS
<1>5. OpSound(Op(<<Write(root, g)>>, away, << >>))
  BY <1>1, <1>2, <1>3, <1>4, SingleWriteIsSafe
<1>6. MayBegin /\ Begin(Op(<<Write(root, g)>>, away, << >>))
  BY DEF Remove, Removing, root, g, away
<1> QED
  BY <1>5, <1>6, BegunStays

LEMMA MoveIsSafe ==
  ASSUME ~Overlap, TreeInv, NEW n \in TreeNodes, NEW target \in TreeTargets, Move(n, target)
  PROVE  TreeInv'
<1> DEFINE from == RootOf(shownTrees, n)  to == RootOf(shownTrees, target)
           cut == Cut(shownTrees[from], n)  new == {n} \cup Below(shownTrees[from], n)
           grown(t) == Graft(t, to, target, shownTrees[from], n)
<1>1. shownTrees = storedTrees /\ \A r \in DOMAIN storedTrees : TreeSound(storedTrees[r])
  BY IdleShowsStored DEF Move, MayBegin
<1>2. from \in DOMAIN storedTrees /\ n \in NodesIn(storedTrees[from])
  BY <1>1, NodeIsInIts DEF Move, Shown, TreeInv, StoreSound
<1>3. to \in DOMAIN storedTrees /\ InTree(storedTrees[to], to, target)
  BY <1>1, FirstRootHasIt DEF Move, Shown
<1>4. NodesIn(cut) = NodesIn(storedTrees[from]) \ new /\ TreeSound(cut)
      /\ \A m \in NodesIn(cut) : cut.says[m] = storedTrees[from].says[m]
  BY <1>1, <1>2, CutKeeps
<1>5. new \subseteq NodesIn(storedTrees[from])
  BY <1>1, <1>2 DEF Below
<1>6. CASE from = to
  <2>1. target \notin new
    <3>1. CASE TreeKind[n] = "collection"
      BY <1>1, <1>6, <3>1 DEF Move, Movable, Below
    <3>2. CASE TreeKind[n] # "collection"
      BY <1>1, <1>2, <3>2, RequestsHaveNoneBelow DEF Move, Movable
    <3> QED
      BY <3>1, <3>2
  <2>2. InTree(cut, to, target)
    BY <1>3, <1>4, <1>6, <2>1 DEF InTree
  <2> DEFINE g == grown(cut)
  <2> HIDE DEF from, to, cut
  <2>3. /\ TreeSound(g) /\ NodesIn(g) = NodesIn(cut) \cup new
        /\ \A m \in new : g.says[m] = storedTrees[from].says[m]
        /\ \A m \in NodesIn(cut) \ new : g.says[m] = cut.says[m]
    BY <1>1, <1>2, <1>4, <2>2, GraftKeeps
  <2> HIDE DEF g, new
  <2>4. \A m \in NodesIn(storedTrees[to]) : m \in NodesIn(g) /\ g.says[m] = storedTrees[to].says[m]
    BY <1>4, <1>6, <2>3
  <2>5. DOMAIN << >> = {}
    OBVIOUS
  <2>6. OpSound(Op(<<Write(to, g)>>, {}, << >>))
    BY <1>1, <1>3, <2>3, <2>4, <2>5, SingleWriteIsSafe
  <2>7. MayBegin /\ Begin(Op(<<Write(to, g)>>, {}, << >>))
    BY <1>6 DEF Move, Moving, from, to, cut, g, new
  <2> QED
    BY <2>6, <2>7, BegunStays
<1>7. CASE from # to
  <2> DEFINE g == grown(storedTrees[to])  first == Write(to, g)  second == Write(from, cut)
             op == Op(<<first, second>>, {}, << >>)
  <2> HIDE DEF from, to, cut
  <2>1. /\ TreeSound(g) /\ NodesIn(g) = NodesIn(storedTrees[to]) \cup new
        /\ \A m \in new : g.says[m] = storedTrees[from].says[m]
        /\ \A m \in NodesIn(storedTrees[to]) \ new : g.says[m] = storedTrees[to].says[m]
    BY <1>1, <1>2, <1>3, GraftKeeps
  <2> HIDE DEF g, new
  <2>2. NodesIn(storedTrees[from]) \cap NodesIn(storedTrees[to]) = {}
    BY <1>2, <1>3, <1>7 DEF Move, MayBegin, Singly
  <2>3. \A m \in NodesIn(storedTrees[to]) : m \in NodesIn(g) /\ g.says[m] = storedTrees[to].says[m]
    BY <1>5, <2>1, <2>2
  <2>4. MayBegin /\ Begin(op)
    BY <1>1, <1>7 DEF Move, Moving, from, to, cut, g, new
  <2>5. first.root = to /\ first.tree = g /\ second.root = from /\ second.tree = cut
    BY DEF Write
  <2> HIDE DEF first, second
  <2>6. /\ DOMAIN op = OpFields /\ op.at = "writing" /\ op.writes = <<first, second>> /\ op.gone = {}
        /\ op.news = << >>
    BY DEF Op, OpFields
  <2> HIDE DEF op
  <2>7. /\ <<first, second>> \in Seq(Range(<<first, second>>)) /\ Len(<<first, second>>) = 2
        /\ <<first, second>>[1] = first /\ <<first, second>>[2] = second
    BY DEF Range
  <2>8. DOMAIN << >> = {}
    OBVIOUS
  <2>9. WriteSound(first) /\ WriteSound(second)
    BY <1>2, <1>3, <1>4, <2>1, <2>5 DEF WriteSound
  <2>10. Holds(storedTrees, wanted)
    BY DEF TreeInv, NothingLost, Holds
  <2>11. Holds(After(storedTrees, first), wanted)
    BY <1>3, <2>3, <2>5, <2>10, MoreHoldsMore
  <2>12. Holds(After(After(storedTrees, first), second), wanted)
    <3> DEFINE trees == After(storedTrees, first)  last == After(trees, second)
    <3>1. /\ DOMAIN trees = DOMAIN storedTrees /\ DOMAIN last = DOMAIN storedTrees
          /\ last[to] = g /\ last[from] = cut
          /\ \A r \in DOMAIN storedTrees : r # from /\ r # to => last[r] = storedTrees[r]
      BY <1>2, <1>3, <1>7, <2>5 DEF After
    <3> HIDE DEF trees, last
    <3> SUFFICES ASSUME NEW m \in DOMAIN wanted
                 PROVE  \E r \in DOMAIN last : m \in NodesIn(last[r]) /\ last[r].says[m] = wanted[m]
      BY DEF Holds, trees, last
    <3>2. PICK r \in DOMAIN storedTrees : m \in NodesIn(storedTrees[r]) /\ storedTrees[r].says[m] = wanted[m]
      BY <2>10 DEF Holds
    <3>3. CASE r = from
      <4>1. CASE m \in new
        BY <1>3, <2>1, <3>1, <3>2, <3>3, <4>1
      <4>2. CASE m \notin new
        BY <1>2, <1>4, <3>1, <3>2, <3>3, <4>2
      <4> QED
        BY <4>1, <4>2
    <3>4. CASE r = to
      BY <1>3, <2>3, <3>1, <3>2, <3>4
    <3>5. CASE r # from /\ r # to
      BY <3>1, <3>2, <3>5
    <3> QED
      BY <3>3, <3>4, <3>5
  <2>13. WritesSafely(op)
    BY <1>1, <2>6, <2>7, <2>8, <2>9, <2>11, <2>12 DEF WritesSafely
  <2>14. OpSound(op)
    BY <2>6, <2>7, <2>13 DEF OpSound, IsWrites
  <2> QED
    BY <2>4, <2>14, BegunStays
<1> QED
  BY <1>6, <1>7

-----------------------------------------------------------------------------
(* The change under way, its writes and what is read back. *)

LEMMA OnlyOne ==
  ASSUME TreeInv, NEW k \in DOMAIN treeOps
  PROVE  k = treeCount /\ DOMAIN treeOps = {k} /\ OpSound(treeOps[k])
BY DEF TreeInv

LEMMA AnsweredIsSafe ==
  ASSUME TreeInv, NEW k, Answered(k) PROVE TreeInv'
<1>1. k = treeCount /\ DOMAIN treeOps = {k} /\ OpSound(treeOps[k])
  BY OnlyOne DEF Answered
<1>2. /\ DOMAIN treeOps' = {k} /\ DOMAIN treeOps[k]' = OpFields /\ treeOps[k]'.at = "writing"
      /\ treeOps[k]'.writes = treeOps[k].writes /\ treeOps[k]'.gone = treeOps[k].gone
      /\ treeOps[k]'.news = treeOps[k].news
  BY <1>1 DEF Answered, OpSound, OpFields
<1>3. WritesSafely(treeOps[k])
  BY <1>1 DEF Answered, OpSound
<1>4. WritesSafely(treeOps[k])'
  BY <1>2, <1>3 DEF WritesSafely, WriteSound, Told, Answered
<1>5. OpSound(treeOps[k])'
  BY <1>1, <1>2, <1>4 DEF OpSound
<1>6. (StoreSound /\ NothingLost)' /\ treeCount' = treeCount
  BY DEF TreeInv, StoreSound, NothingLost, Answered
<1> QED
  BY <1>1, <1>2, <1>5, <1>6 DEF TreeInv

LEMMA WrittenIsSafe ==
  ASSUME TreeInv, NEW k, Written(k) PROVE TreeInv'
<1> DEFINE op == treeOps[k]  w == Head(op.writes)
<1>1. k = treeCount /\ DOMAIN treeOps = {k} /\ OpSound(op) /\ WritesSafely(op)
  BY OnlyOne DEF Written, OpSound
<1>2. w = op.writes[1] /\ w.root \in DOMAIN storedTrees /\ TreeSound(w.tree) /\ op.writes \in Seq(Range(op.writes))
  BY <1>1 DEF WritesSafely, WriteSound, OpSound, IsWrites
<1>3. CASE treeOps' = Ended(k) /\ UNCHANGED <<storedTrees, wanted>>
  <2>1. DOMAIN treeOps' = {}
    BY <1>1, <1>3 DEF Ended
  <2>2. UNCHANGED <<shownTrees, treeCount>> /\ shownTrees = storedTrees
    BY <1>1 DEF Written, WritesSafely
  <2>3. (StoreSound /\ NothingLost)'
    BY <1>3 DEF TreeInv, StoreSound, NothingLost
  <2> QED
    BY <1>1, <1>3, <2>1, <2>2, <2>3 DEF TreeInv
<1>4. CASE /\ storedTrees' = IF w.root \in DOMAIN storedTrees
                             THEN [storedTrees EXCEPT ![w.root] = w.tree] ELSE storedTrees
           /\ wanted' = Told(op) /\ treeOps' = [treeOps EXCEPT ![k].at = "reading"]
  <2>1. storedTrees' = After(storedTrees, w) /\ treeCount' = treeCount
    BY <1>2, <1>4 DEF After, Written
  <2>2. /\ DOMAIN storedTrees' = DOMAIN storedTrees /\ storedTrees'[w.root] = w.tree
        /\ \A r \in DOMAIN storedTrees : r # w.root => storedTrees'[r] = storedTrees[r]
    BY <1>2, <1>4
  <2>3. StoreSound'
    <3> SUFFICES ASSUME NEW r \in DOMAIN storedTrees PROVE TreeSound(storedTrees'[r])
      BY <2>2 DEF StoreSound, TreeInv
    <3> QED
      BY <1>2, <2>2 DEF StoreSound, TreeInv
  <2>4. /\ DOMAIN treeOps' = {k} /\ DOMAIN treeOps[k]' = OpFields /\ treeOps[k]'.at = "reading"
        /\ treeOps[k]'.writes = op.writes /\ treeOps[k]'.gone = op.gone /\ treeOps[k]'.news = op.news
    BY <1>1, <1>4 DEF OpSound, OpFields
  <2> HIDE DEF w
  <2>5. CASE Len(op.writes) = 1 /\ Holds(After(storedTrees, op.writes[1]), Told(op))
    <3>1. Holds(storedTrees', wanted')
      BY <1>2, <1>4, <2>1, <2>5
    <3>2. ReadsBack(treeOps[k])'
      BY <2>4, <2>5 DEF ReadsBack
    <3>3. OpSound(treeOps[k])'
      BY <1>2, <2>4, <3>2 DEF OpSound, IsWrites
    <3>4. NothingLost'
      BY <3>1 DEF NothingLost, Holds
    <3> QED
      BY <1>1, <2>1, <2>3, <2>4, <3>3, <3>4 DEF TreeInv
  <2>6. CASE /\ Len(op.writes) = 2 /\ op.gone = {} /\ DOMAIN op.news = {}
             /\ Holds(After(storedTrees, op.writes[1]), wanted)
             /\ Holds(After(After(storedTrees, op.writes[1]), op.writes[2]), wanted)
    <3>1. wanted' = wanted
      BY <1>4, <2>6 DEF Told
    <3>2. Holds(storedTrees', wanted') /\ Holds(After(storedTrees', op.writes[2]), wanted')
      BY <1>2, <2>1, <2>6, <3>1
    <3>3. WriteSound(op.writes[2])'
      BY <1>1, <2>2, <2>4, <2>6 DEF WritesSafely, WriteSound
    <3>4. ReadsBack(treeOps[k])'
      BY <2>4, <2>6, <3>2, <3>3 DEF ReadsBack
    <3>5. OpSound(treeOps[k])'
      BY <1>2, <2>4, <3>4 DEF OpSound, IsWrites
    <3>6. NothingLost'
      BY <3>2 DEF NothingLost, Holds
    <3> QED
      BY <1>1, <2>1, <2>3, <2>4, <3>5, <3>6 DEF TreeInv
  <2> QED
    BY <1>1, <2>5, <2>6 DEF WritesSafely
<1> QED
  BY <1>3, <1>4 DEF Written

LEMMA FetchedIsSafe ==
  ASSUME TreeInv, NEW k, Fetched(k) PROVE TreeInv'
<1> DEFINE op == treeOps[k]
<1>1. k = treeCount /\ DOMAIN treeOps = {k} /\ OpSound(op) /\ ReadsBack(op)
  BY OnlyOne DEF Fetched, OpSound
<1>2. /\ DOMAIN treeOps' = {k} /\ DOMAIN treeOps[k]' = OpFields /\ treeOps[k]'.at = "showing"
      /\ treeOps[k]'.writes = op.writes /\ treeOps[k]'.gone = op.gone /\ treeOps[k]'.news = op.news
      /\ treeOps[k]'.rows = storedTrees
  BY <1>1 DEF Fetched, OpSound, OpFields, RowsListed
<1>3. UNCHANGED <<shownTrees, storedTrees, treeCount, wanted>>
  BY DEF Fetched
<1>4. ReadsBack(treeOps[k])'
  BY <1>1, <1>2, <1>3 DEF ReadsBack, WriteSound
<1>5. OpSound(treeOps[k])'
  BY <1>1, <1>2, <1>4 DEF OpSound
<1>6. (StoreSound /\ NothingLost)'
  BY <1>3 DEF TreeInv, StoreSound, NothingLost
<1> QED
  BY <1>1, <1>2, <1>3, <1>5, <1>6 DEF TreeInv

LEMMA AtMostOne == ASSUME NEW S, NEW s \in Seq(S), Len(s) = 0 \/ Len(s) = 1 PROVE Len(s) <= 1
<1>1. CASE Len(s) = 0
  BY <1>1
<1>2. CASE Len(s) = 1
  BY <1>2
<1> QED
  BY <1>1, <1>2

LEMMA TailOfTwo ==
  ASSUME NEW S, NEW s \in Seq(S), Len(s) = 2
  PROVE  Len(Tail(s)) = 1 /\ Tail(s)[1] = s[2] /\ Tail(s) \in Seq({s[2]}) /\ DOMAIN Tail(s) = {1}
<1>1. PICK p : p = Tail(s)
  OBVIOUS
<1>2. s # << >>
  OBVIOUS
<1>3. p \in Seq(S) /\ Len(p) = Len(s) - 1 /\ \A i \in 1..Len(p) : p[i] = s[i + 1]
  BY <1>1, <1>2
<1>4. Len(p) = 1 /\ p[1] = s[2]
  BY <1>3
<1>5. p = <<s[2]>>
  BY <1>3, <1>4
<1>6. p \in Seq({s[2]}) /\ DOMAIN p = {1}
  BY <1>5
<1> QED
  BY <1>1, <1>4, <1>6

LEMMA LastWriteHolds ==
  ASSUME NEW op, Len(op.writes) = 1, op.gone = {}, DOMAIN op.news = {}, NEW trees, Holds(trees, wanted)
  PROVE  Holds(trees, Told(op))
<1>1. DOMAIN Told(op) = DOMAIN wanted /\ \A n \in DOMAIN wanted : Told(op)[n] = wanted[n]
  BY DEF Told
<1> QED
  BY <1>1 DEF Holds

LEMMA DisplayedIsSafe ==
  ASSUME TreeInv, NEW k, Displayed(k) PROVE TreeInv'
<1> DEFINE op == treeOps[k]  rest == Op(Tail(op.writes), op.gone, op.news)
<1>1. k = treeCount /\ DOMAIN treeOps = {k} /\ OpSound(op) /\ ReadsBack(op)
  BY OnlyOne DEF Displayed, OpSound
<1>2. shownTrees' = storedTrees /\ UNCHANGED <<storedTrees, treeCount, wanted>>
  BY <1>1 DEF Displayed, ReadsBack
<1>3. (StoreSound /\ NothingLost)'
  BY <1>2 DEF TreeInv, StoreSound, NothingLost
<1>4. CASE Len(op.writes) = 0 \/ Len(op.writes) = 1
  <2>1. DOMAIN treeOps' = {}
    <3>1. Len(op.writes) <= 1
      <4>1. op.writes \in Seq(Range(op.writes))
        BY <1>1 DEF OpSound, IsWrites
      <4> QED
        BY <1>4, <4>1, AtMostOne
    <3>2. treeOps' = Ended(k)
      BY <3>1 DEF Displayed
    <3> QED
      BY <1>1, <3>2 DEF Ended
  <2> QED
    BY <1>1, <1>2, <1>3, <2>1 DEF TreeInv
<1>5. CASE /\ Len(op.writes) = 2 /\ op.gone = {} /\ DOMAIN op.news = {} /\ WriteSound(op.writes[2])
           /\ Holds(After(storedTrees, op.writes[2]), wanted)
  <2>1. op.writes \in Seq(Range(op.writes))
    BY <1>1 DEF OpSound, IsWrites
  <2>2. Len(Tail(op.writes)) = 1 /\ Tail(op.writes)[1] = op.writes[2]
    BY <1>5, <2>1, TailOfTwo
  <2>3. Tail(op.writes) \in Seq(Range(Tail(op.writes)))
    <3>1. Tail(op.writes) \in Seq({op.writes[2]}) /\ DOMAIN Tail(op.writes) = {1}
      BY <1>5, <2>1, TailOfTwo
    <3>2. Range(Tail(op.writes)) = {op.writes[2]}
      BY <2>2, <3>1 DEF Range
    <3> QED
      BY <3>1, <3>2
  <2>4. /\ DOMAIN rest = OpFields /\ rest.at = "writing" /\ rest.writes = Tail(op.writes)
        /\ rest.gone = {} /\ DOMAIN rest.news = {}
    BY <1>5 DEF Op, OpFields
  <2>5. DOMAIN treeOps' = {k} /\ treeOps[k]' = rest
    BY <1>1, <1>5 DEF Displayed
  <2> HIDE DEF rest
  <2>6. Told(treeOps[k])' = Told(rest)
    BY <1>2, <2>5 DEF Told
  <2>7. Holds(After(storedTrees, op.writes[2]), Told(rest))
    BY <1>5, <2>2, <2>4, LastWriteHolds
  <2>8. WritesSafely(treeOps[k])'
    <3>1. Holds(After(storedTrees, treeOps'[k].writes[1]), Told(treeOps[k])')
      BY <2>2, <2>4, <2>5, <2>6, <2>7
    <3>2. WriteSound(op.writes[2])
      BY <1>5
    <3>3. WriteSound(treeOps[k].writes[1])'
      BY <1>2, <2>2, <2>4, <2>5, <3>2 DEF WriteSound
    <3>4. Len(treeOps'[k].writes) = 1
      BY <2>2, <2>4, <2>5
    <3>5. \A i \in 1..Len(treeOps'[k].writes) : WriteSound(treeOps[k].writes[i])'
      BY <3>3, <3>4
    <3> QED
      BY <1>2, <3>1, <3>4, <3>5 DEF WritesSafely
  <2>9. OpSound(treeOps[k])'
    BY <2>3, <2>4, <2>5, <2>8 DEF OpSound, IsWrites
  <2> QED
    BY <1>1, <1>2, <1>3, <2>5, <2>9 DEF TreeInv
<1> QED
  BY <1>1, <1>4, <1>5 DEF ReadsBack

-----------------------------------------------------------------------------
(* What happens to the store without a change of the app's. *)

LEMMA ReadingBack ==
  ASSUME TreeInv, DOMAIN treeOps = {}, (StoreSound /\ NothingLost)', treeCount' = treeCount + 1,
         treeOps' = Numbered(treeCount + 1, [Op(<< >>, {}, << >>) EXCEPT !.at = "reading"])
  PROVE  TreeInv'
<1> DEFINE op == [Op(<< >>, {}, << >>) EXCEPT !.at = "reading"]
<1>1. DOMAIN op = OpFields /\ op.at = "reading" /\ op.writes = << >>
  BY DEF Op, OpFields
<1>2. << >> \in Seq(Range(<< >>)) /\ Len(<< >>) = 0
  OBVIOUS
<1>3. DOMAIN treeOps' = {treeCount'} /\ treeOps'[treeCount'] = op /\ treeCount' \in Nat
  BY DEF TreeInv, Numbered
<1> HIDE DEF op
<1>4. OpSound(op)'
  BY <1>1, <1>2 DEF OpSound, IsWrites, ReadsBack
<1> QED
  BY <1>3, <1>4 DEF TreeInv

LEMMA RemoveRootIsSafe ==
  ASSUME ~Overlap, TreeInv, NEW root, RemoveRoot(root) PROVE TreeInv'
<1>1. shownTrees = storedTrees /\ StoreSound /\ NothingLost /\ DOMAIN treeOps = {}
  BY DEF RemoveRoot, TreeInv
<1>2. StoreSound'
  BY <1>1 DEF RemoveRoot, StoreSound
<1>3. NothingLost'
  <2> SUFFICES ASSUME NEW n \in DOMAIN wanted'
               PROVE  \E r \in DOMAIN storedTrees' : n \in NodesIn(storedTrees'[r]) /\ storedTrees'[r].says[n] = wanted'[n]
    BY DEF NothingLost
  <2>1. n \in DOMAIN wanted /\ n \notin NodesIn(storedTrees[root]) /\ wanted'[n] = wanted[n]
    BY <1>1 DEF RemoveRoot
  <2>2. PICK r \in DOMAIN storedTrees : n \in NodesIn(storedTrees[r]) /\ storedTrees[r].says[n] = wanted[n]
    BY <1>1, <2>1 DEF NothingLost
  <2> QED
    BY <2>1, <2>2 DEF RemoveRoot
<1> QED
  BY <1>1, <1>2, <1>3, ReadingBack DEF RemoveRoot

LEMMA PulledIsSafe ==
  ASSUME ~Overlap, TreeInv, NEW n \in TreeNodes, PulledChange(n) PROVE TreeInv'
<1> DEFINE root == RootOf(storedTrees, n)  g == Changed(storedTrees[root], n, Content)
<1>1. StoreSound /\ NothingLost /\ DOMAIN treeOps = {}
  BY DEF PulledChange, TreeInv
<1>2. root \in DOMAIN storedTrees /\ n \in NodesIn(storedTrees[root])
  BY <1>1, NodeIsInIts DEF PulledChange, StoreSound
<1>3. /\ TreeSound(g) /\ NodesIn(g) = NodesIn(storedTrees[root])
      /\ \A m \in NodesIn(storedTrees[root]) : g.says[m] = IF m = n THEN Content ELSE storedTrees[root].says[m]
  BY <1>1, <1>2, ChangedKeeps DEF StoreSound
<1>4. /\ DOMAIN storedTrees' = DOMAIN storedTrees /\ storedTrees'[root] = g
      /\ \A r \in DOMAIN storedTrees : r # root => storedTrees'[r] = storedTrees[r]
  BY <1>2 DEF PulledChange
<1>5. /\ DOMAIN wanted' = DOMAIN wanted \cup {n} /\ wanted'[n] = Content
      /\ \A m \in DOMAIN wanted : m # n => wanted'[m] = wanted[m]
  BY DEF PulledChange
<1> HIDE DEF g, root
<1>6. StoreSound'
  <2> SUFFICES ASSUME NEW r \in DOMAIN storedTrees PROVE TreeSound(storedTrees'[r])
    BY <1>1, <1>4 DEF StoreSound
  <2> QED
    BY <1>1, <1>3, <1>4 DEF StoreSound
<1>7. NothingLost'
  <2> SUFFICES ASSUME NEW m \in DOMAIN wanted'
               PROVE  \E r \in DOMAIN storedTrees' : m \in NodesIn(storedTrees'[r]) /\ storedTrees'[r].says[m] = wanted'[m]
    BY DEF NothingLost
  <2>1. CASE m = n
    BY <1>2, <1>3, <1>4, <1>5, <2>1
  <2>2. CASE m # n
    <3>1. PICK r \in DOMAIN storedTrees : m \in NodesIn(storedTrees[r]) /\ storedTrees[r].says[m] = wanted[m]
      BY <1>1, <1>5, <2>2 DEF NothingLost
    <3> QED
      BY <1>3, <1>4, <1>5, <2>2, <3>1
  <2> QED
    BY <2>1, <2>2
<1> QED
  BY <1>1, <1>6, <1>7, ReadingBack DEF PulledChange

-----------------------------------------------------------------------------

LEMMA TreesStart == TreeInit => TreeInv
<1> SUFFICES ASSUME TreeInit PROVE TreeInv
  OBVIOUS
<1>1. StoreSound
  BY FirstTreesAssumption DEF TreeInit, TreesOK, StoreSound, TreeSound
<1>2. NothingLost
  <2> SUFFICES ASSUME NEW n \in DOMAIN wanted
               PROVE  \E r \in DOMAIN storedTrees : n \in NodesIn(storedTrees[r]) /\ storedTrees[r].says[n] = wanted[n]
    BY DEF NothingLost
  <2>1. PICK r \in TreeRoots : n \in NodesIn(FirstTrees[r])
    BY DEF TreeInit
  <2>2. n \in TreeNodes /\ Found(FirstTrees, n) /\ DOMAIN FirstTrees = TreeRoots
    BY <2>1, FirstTreesAssumption DEF TreesOK, Found, InTree
  <2>3. RootOf(FirstTrees, n) \in DOMAIN FirstTrees /\ n \in NodesIn(FirstTrees[RootOf(FirstTrees, n)])
    BY <2>2, NodeIsInIts
  <2> QED
    BY <2>3 DEF TreeInit
<1> QED
  BY <1>1, <1>2 DEF TreeInit, TreeInv

LEMMA TreesStep == ASSUME ~Overlap, TreeInv, [TreeNext]_treeVars PROVE TreeInv'
<1>1. CASE UNCHANGED treeVars
  BY <1>1 DEF treeVars, TreeInv, StoreSound, NothingLost, OpSound, WritesSafely, ReadsBack, WriteSound, Told
<1>2. ASSUME NEW n \in TreeNodes, Change(n) \/ Remove(n) \/ Send(n) \/ PulledChange(n) PROVE TreeInv'
  BY <1>2, ChangeIsSafe, RemoveIsSafe, SendIsSafe, PulledIsSafe
<1>3. ASSUME NEW n \in TreeNodes, NEW target \in TreeTargets, Create(n, target) \/ Move(n, target) PROVE TreeInv'
  BY <1>3, CreateIsSafe, MoveIsSafe
<1>4. ASSUME NEW root \in TreeRoots, RemoveRoot(root) PROVE TreeInv'
  BY <1>4, RemoveRootIsSafe
<1>5. ASSUME NEW k \in 1..MaxTreeOps, Answered(k) \/ Written(k) \/ Fetched(k) \/ Displayed(k) PROVE TreeInv'
  BY <1>5, AnsweredIsSafe, WrittenIsSafe, FetchedIsSafe, DisplayedIsSafe
<1> QED
  BY <1>1, <1>2, <1>3, <1>4, <1>5 DEF TreeNext

\* NothingLost: whatever is created, saved, renamed, moved, deleted, noted of a
\* response or pulled, and whichever write fails, what the user was told is saved
\* is in the store and says what it was told to.
THEOREM NothingGetsLost == ASSUME ~Overlap PROVE TreeSpec => []NothingLost
<1>1. TreeInv => NothingLost
  BY DEF TreeInv
<1> QED
  BY <1>1, TreesStart, TreesStep, PTL DEF TreeSpec

=============================================================================
