---------------------------- MODULE CollectionTree ----------------------------
(***************************************************************************)
(* The collections of the API explorer (context/AppContext.tsx): every     *)
(* change of a tree is worked out on the collections the app has on        *)
(* display, and written back as a whole (persistCollectionTree); then they *)
(* are read again.  A call of the app may be answered late, and other      *)
(* changes, or a sync pass, may come in between.                           *)
(*                                                                         *)
(* A tree has, for each of its nodes but the root, the collection it is in *)
(* and what it says (its name, or all of a request), a number.             *)
(***************************************************************************)
EXTENDS Integers, Sequences, FiniteSets, Functions

SetExt == INSTANCE FiniteSetsExt

CONSTANTS
  TreeRoots,        \* root collections
  TreeNodes,        \* requests and sub-collections
  TreeKind,         \* node -> "request" or "collection"
  FirstTrees,       \* the trees at the start
  MaxDepth,         \* the limit of 5 levels
  Overlap,          \* whether something else happens during a call
  MaxTreeOps        \* bound on the changes

ASSUME TreeAssumption ==
  /\ MaxDepth \in Nat \ {0} /\ MaxTreeOps \in Nat /\ Overlap \in BOOLEAN
  /\ TreeKind \in [TreeNodes -> {"request", "collection"}] /\ TreeNodes \cap TreeRoots = {}

VARIABLES
  shownTrees,       \* collections, the state of the app
  storedTrees,      \* the rows of the local store that are not deleted
  treeOps,          \* changes under way, by number
  treeCount,        \* changes so far
  wanted            \* what the user was told is saved: node -> content

treeVars == <<shownTrees, storedTrees, treeOps, treeCount, wanted>>

-----------------------------------------------------------------------------
(* Trees.                                                                  *)

NodesIn(t) == DOMAIN t.up
InTree(t, root, n) == n = root \/ n \in NodesIn(t)
\* findRequestInTree and its kin: the first root that has the node.
RootOf(trees, n) == CHOOSE root \in DOMAIN trees : InTree(trees[root], root, n)
Found(trees, n) == \E root \in DOMAIN trees : InTree(trees[root], root, n)

\* The least set with what n is in and, for each of its members, what that is in.
Above(t, n) ==
  {x \in Range(t.up) \ {n} :
     \A S \in SUBSET Range(t.up) :
       (\A m \in ({n} \cup S) \cap NodesIn(t) : t.up[m] \in S) => x \in S}
Below(t, n) == {m \in NodesIn(t) : n \in Above(t, m)}

\* findNodeDepthInTree and getCollectionHeight, which looks at collections only.
Depth(t, n) == 1 + Cardinality(Above(t, n))
Height(t, n) ==
  1 + SetExt!Max({0} \cup {Depth(t, m) - Depth(t, n) : m \in {x \in Below(t, n) : TreeKind[x] = "collection"}})

\* removeNodeFromTree; addRequestToNode and addSubCollectionToNode, which leave
\* a tree without the target as it is; updateRequestInTree and renameInTree.
Cut(t, n) ==
  LET stay == NodesIn(t) \ ({n} \cup Below(t, n))
  IN [up |-> [m \in stay |-> t.up[m]], says |-> [m \in stay |-> t.says[m]]]
Graft(t, root, target, branch, n) ==
  IF ~InTree(t, root, target) THEN t
  ELSE LET new == {n} \cup Below(branch, n)
           all == NodesIn(t) \cup new
       IN [up |-> [m \in all |-> IF m = n THEN target ELSE IF m \in new THEN branch.up[m] ELSE t.up[m]],
           says |-> [m \in all |-> IF m \in new THEN branch.says[m] ELSE t.says[m]]]
Just(n, what) == [m \in {n} |-> what]
Twig(n, target, what) == [up |-> Just(n, target), says |-> Just(n, what)]
Changed(t, n, what) ==
  IF n \in NodesIn(t) THEN [up |-> t.up, says |-> [t.says EXCEPT ![n] = what]] ELSE t

TreeTargets == TreeRoots \cup {x \in TreeNodes : TreeKind[x] = "collection"}
TreesOK(trees) ==
  \A root \in DOMAIN trees :
    /\ DOMAIN trees[root].says = NodesIn(trees[root])
    /\ \A n \in NodesIn(trees[root]) :
         n \in TreeNodes /\ root \in Above(trees[root], n) /\ trees[root].up[n] \in TreeTargets
ASSUME FirstTreesAssumption == DOMAIN FirstTrees = TreeRoots /\ TreesOK(FirstTrees)

-----------------------------------------------------------------------------
(* Changes: what is to be written, root by root, worked out on trees.      *)

Write(root, tree) == [root |-> root, tree |-> tree]

\* The checks of handleCreateSubCollection and handleMoveNode.
RoomFor(trees, target) == Depth(trees[RootOf(trees, target)], target) < MaxDepth
Fits(trees, n, target) ==
  Depth(trees[RootOf(trees, target)], target)
    + (IF TreeKind[n] = "collection" THEN Height(trees[RootOf(trees, n)], n) ELSE 1) <= MaxDepth
Movable(trees, n, target) ==
  n # target /\ (TreeKind[n] = "collection" => n \notin Above(trees[RootOf(trees, target)], target))

\* handleCreateRequest, handleDuplicateRequest, handleSaveNetworkRequestToCollection,
\* handleCreateSubCollection.
Creating(trees, n, target, what) ==
  LET root == RootOf(trees, target)
  IN <<Write(root, Graft(trees[root], root, target, Twig(n, target, what), n))>>
\* handleSaveRequest and handleRenameNode.
Changing(trees, n, what) ==
  <<Write(RootOf(trees, n), Changed(trees[RootOf(trees, n)], n, what))>>
\* handleDeleteNode, of a node that is not a root.
Removing(trees, n) == <<Write(RootOf(trees, n), Cut(trees[RootOf(trees, n)], n))>>

\* Deviation: the source is written first.
MovingAway(trees, n, target) ==
  LET from == RootOf(trees, n)  to == RootOf(trees, target)
      cut == Cut(trees[from], n)
      grown(t) == Graft(t, to, target, trees[from], n)
  IN IF from = to THEN <<Write(to, grown(cut))>>
     ELSE <<Write(from, cut), Write(to, grown(trees[to]))>>
\* handleMoveNode: across roots the target is written first.
Moving(trees, n, target) ==
  LET from == RootOf(trees, n)  to == RootOf(trees, target)
      cut == Cut(trees[from], n)
      grown(t) == Graft(t, to, target, trees[from], n)
  IN IF from = to THEN <<Write(to, grown(cut))>>
     ELSE <<Write(to, grown(trees[to])), Write(from, cut)>>

-----------------------------------------------------------------------------

TreeInit ==
  /\ shownTrees = FirstTrees /\ storedTrees = FirstTrees
  /\ treeOps = [k \in {} |-> "none"] /\ treeCount = 0
  /\ wanted = [n \in UNION {NodesIn(FirstTrees[r]) : r \in TreeRoots} |->
                 FirstTrees[RootOf(FirstTrees, n)].says[n]]

Unused(n) == ~Found(storedTrees, n) /\ ~Found(shownTrees, n) /\ n \notin DOMAIN wanted
             /\ \A k \in DOMAIN treeOps : \A j \in DOMAIN treeOps[k].writes :
                  n \notin NodesIn(treeOps[k].writes[j].tree)

\* Bound: no change is made while a move that failed half way has left an item
\* in two roots, where a tree may come to hold a node twice.
Singly == \A a, b \in DOMAIN storedTrees : a # b => NodesIn(storedTrees[a]) \cap NodesIn(storedTrees[b]) = {}
MayBegin == treeCount < MaxTreeOps /\ (Overlap \/ DOMAIN treeOps = {}) /\ Singly

\* An op: its writes to come, and what its success tells the user.
Numbered(k, op) == [j \in DOMAIN treeOps \cup {k} |-> IF j = k THEN op ELSE treeOps[j]]
Begin(op) ==
  /\ treeCount' = treeCount + 1
  /\ treeOps' = Numbered(treeCount + 1, op)
  /\ UNCHANGED <<shownTrees, storedTrees, wanted>>
Op(writes, gone, news) ==
  [at |-> "writing", writes |-> writes, gone |-> gone, news |-> news, rows |-> << >>]

Content == treeCount + 1
Shown(n) == Found(shownTrees, n)

Create(n, target) ==
  /\ MayBegin /\ Unused(n) /\ Shown(target)
  /\ TreeKind[n] = "collection" => RoomFor(shownTrees, target)
  /\ Begin(Op(Creating(shownTrees, n, target, Content), {}, Just(n, Content)))
Change(n) ==
  /\ MayBegin /\ Shown(n)
  /\ Begin(Op(Changing(shownTrees, n, Content), {}, Just(n, Content)))
Remove(n) ==
  /\ MayBegin /\ Shown(n)
  /\ Begin(Op(Removing(shownTrees, n), {n} \cup Below(shownTrees[RootOf(shownTrees, n)], n), << >>))
Move(n, target) ==
  /\ MayBegin /\ Shown(n) /\ Shown(target)
  /\ Movable(shownTrees, n, target) /\ Fits(shownTrees, n, target)
  /\ Begin(Op(Moving(shownTrees, n, target), {}, << >>))

\* handleExecuteRequest: the response will be noted in the request, as it is on
\* display when Send is pressed; the call takes its time.
Send(n) ==
  /\ MayBegin /\ Shown(n) /\ TreeKind[n] = "request"
  /\ Begin([Op(Changing(shownTrees, n, shownTrees[RootOf(shownTrees, n)].says[n]), {}, << >>)
              EXCEPT !.at = "calling"])
Answered(k) ==
  /\ k \in DOMAIN treeOps /\ treeOps[k].at = "calling"
  /\ treeOps' = [treeOps EXCEPT ![k].at = "writing"]
  /\ UNCHANGED <<shownTrees, storedTrees, treeCount, wanted>>

Ended(k) == [j \in DOMAIN treeOps \ {k} |-> treeOps[j]]

\* What the user is told when the last write has succeeded.
Told(op) ==
  IF Len(op.writes) > 1 THEN wanted
  ELSE LET stay == DOMAIN wanted \ op.gone
       IN [n \in DOMAIN op.news \cup stay |-> IF n \in DOMAIN op.news THEN op.news[n] ELSE wanted[n]]

\* The local store takes the next write, or it fails and with it the change.
Written(k) ==
  /\ k \in DOMAIN treeOps /\ treeOps[k].at = "writing"
  /\ LET op == treeOps[k]  w == Head(op.writes) IN
     \/ /\ storedTrees' = IF w.root \in DOMAIN storedTrees
                          THEN [storedTrees EXCEPT ![w.root] = w.tree] ELSE storedTrees
        /\ wanted' = Told(op)
        /\ treeOps' = [treeOps EXCEPT ![k].at = "reading"]
     \/ treeOps' = Ended(k) /\ UNCHANGED <<storedTrees, wanted>>
  /\ UNCHANGED <<shownTrees, treeCount>>

RowsListed == storedTrees
\* fetchCollections: the rows as they are now, on display later.
Fetched(k) ==
  /\ k \in DOMAIN treeOps /\ treeOps[k].at = "reading"
  /\ treeOps' = [treeOps EXCEPT ![k] = [@ EXCEPT !.at = "showing", !.rows = RowsListed]]
  /\ UNCHANGED <<shownTrees, storedTrees, treeCount, wanted>>
Displayed(k) ==
  /\ k \in DOMAIN treeOps /\ treeOps[k].at = "showing"
  /\ shownTrees' = treeOps[k].rows
  /\ treeOps' = IF Len(treeOps[k].writes) <= 1 THEN Ended(k)
                ELSE [treeOps EXCEPT ![k] = Op(Tail(@.writes), @.gone, @.news)]
  /\ UNCHANGED <<storedTrees, treeCount, wanted>>

\* A root is deleted in the store, and read back.
RemoveRoot(root) ==
  /\ treeCount < MaxTreeOps /\ (Overlap \/ DOMAIN treeOps = {}) /\ root \in DOMAIN shownTrees
  /\ storedTrees' = [r \in DOMAIN storedTrees \ {root} |-> storedTrees[r]]
  /\ wanted' = [n \in DOMAIN wanted \ NodesIn(shownTrees[root]) |-> wanted[n]]
  /\ treeCount' = treeCount + 1
  /\ treeOps' = Numbered(treeCount + 1, [Op(<< >>, {}, << >>) EXCEPT !.at = "reading"])
  /\ UNCHANGED shownTrees

\* A sync pass takes over what another device changed, and reads back.
PulledChange(n) ==
  /\ treeCount < MaxTreeOps /\ (Overlap \/ DOMAIN treeOps = {}) /\ Found(storedTrees, n)
  /\ LET root == RootOf(storedTrees, n) IN
     storedTrees' = [storedTrees EXCEPT ![root] = Changed(@, n, Content)]
  /\ wanted' = [m \in DOMAIN wanted \cup {n} |-> IF m = n THEN Content ELSE wanted[m]]
  /\ treeCount' = treeCount + 1
  /\ treeOps' = Numbered(treeCount + 1, [Op(<< >>, {}, << >>) EXCEPT !.at = "reading"])
  /\ UNCHANGED shownTrees

TreeNext ==
  \/ \E n \in TreeNodes : Change(n) \/ Remove(n) \/ Send(n) \/ PulledChange(n)
  \/ \E n \in TreeNodes, target \in TreeTargets :
       Create(n, target) \/ Move(n, target)
  \/ \E root \in TreeRoots : RemoveRoot(root)
  \/ \E k \in 1 .. MaxTreeOps : Answered(k) \/ Written(k) \/ Fetched(k) \/ Displayed(k)
TreeSpec == TreeInit /\ [][TreeNext]_treeVars

-----------------------------------------------------------------------------
TreeTypeOK == TreesOK(shownTrees) /\ TreesOK(storedTrees) /\ treeCount \in 0 .. MaxTreeOps

\* What the user was told is saved is there, and says what it was told to: each
\* change is merged "onto the current root collection", a move that fails half
\* way leaves its item in both roots, never in none.
NothingLost ==
  \A n \in DOMAIN wanted :
    \E root \in DOMAIN storedTrees :
      n \in NodesIn(storedTrees[root]) /\ storedTrees[root].says[n] = wanted[n]
=============================================================================
