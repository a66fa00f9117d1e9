----------------------------- MODULE FlowCanvas -----------------------------
(***************************************************************************)
(* The canvas on which V2 flows are edited (EditorV2.tsx): adding, naming, *)
(* connecting, copying and deleting blocks, undoing deletions, saving and  *)
(* renaming the flow, and loading another one.                             *)
(*                                                                         *)
(* A save and a rename are whole-blob replacements in the local store,     *)
(* built when they start from the canvas or from the flow as it was last   *)
(* listed; the list is fetched again before they end.  A block has one     *)
(* data input and one output; its name is one of as many as there can be   *)
(* blocks.                                                                 *)
(***************************************************************************)
EXTENDS Naturals, Sequences, FiniteSets, Functions, TLC

SeqExt == INSTANCE SequencesExt

CONSTANTS
  CanvasFlows,    \* local ids of the flows
  Blocks,         \* ids of blocks; a new block takes one that was never used
  MaxUndo,        \* entries the undo stack keeps
  MaxCanvasEdits, \* bound on what the user does to the canvas
  MaxConnections, \* bound on the ids of edges
  MaxCanvasCalls,       \* bound on saves, renames and loads
  PulledMeanwhile,          \* whether a sync pass replaces a stored flow meanwhile
  RashUndo,       \* whether a deletion is undone when something was connected since
  RashCalls       \* whether a flow is renamed, or another loaded, during a save

ASSUME CanvasAssumption ==
  /\ CanvasFlows # {} /\ IsFiniteSet(Blocks) /\ (\E a, b \in Blocks : a # b) /\ MaxConnections >= 1
  /\ {PulledMeanwhile, RashUndo, RashCalls} \subseteq BOOLEAN
  /\ {MaxCanvasEdits, MaxConnections, MaxCanvasCalls} \subseteq Nat /\ MaxUndo \in Nat \ {0}

VARIABLES
  canvas,    \* the blocks, with their names, and the edges shown
  undo,      \* undoStackRef
  clip,      \* clipboardRef
  loaded,    \* the flow that is shown
  signed,    \* savedSignature
  kept,      \* the flows of the local store
  fetched,   \* the flows of the app, as last listed
  canvasPuts,     \* the save and the rename under way
  used,      \* ids of blocks and edges that were given out
  canvasEdits, canvasCalls, \* bounds
  sound      \* entries of undo that were made since something was connected

canvasVars == <<canvas, undo, clip, loaded, signed, kept, fetched, canvasPuts, used, canvasEdits,
                canvasCalls, sound>>

Kinds == {"save", "rename"}
Names == 1..Cardinality(Blocks)
Edges == [id: 1..MaxConnections, source: Blocks, target: Blocks]
Empty == [blocks |-> <<>>, edges |-> {}]
Ids(g) == DOMAIN g.blocks

IsGraph(g) == Ids(g) \subseteq Blocks /\ Range(g.blocks) \subseteq Names /\ g.edges \subseteq Edges

CanvasTypeOK ==
  /\ IsGraph(canvas) /\ IsGraph(clip) /\ IsGraph(signed)
  /\ Len(undo) <= MaxUndo /\ \A i \in 1..Len(undo) : IsGraph(undo[i])
  /\ loaded \in CanvasFlows
  /\ \A f \in CanvasFlows : IsGraph(kept[f].graph) /\ IsGraph(fetched[f].graph)
  /\ \A k \in Kinds : canvasPuts[k].state \in {"none", "sent", "stored"}
  /\ used.blocks \subseteq Blocks /\ used.edges \in 0..MaxConnections
  /\ canvasEdits \in 0..MaxCanvasEdits /\ canvasCalls \in 0..MaxCanvasCalls /\ sound \in 0..MaxUndo

NoCall == [state |-> "none"]

\* One flow of two connected blocks, the others empty; one is loaded.
Opening ==
  LET pair == CHOOSE p \in [1..2 -> Blocks] : p[1] # p[2]
  IN [blocks |-> [b \in {pair[1], pair[2]} |-> IF b = pair[1] THEN 1 ELSE 2],
      edges |-> {[id |-> 1, source |-> pair[1], target |-> pair[2]]}]

CanvasInit ==
  /\ loaded = CHOOSE f \in CanvasFlows : TRUE
  /\ kept = [f \in CanvasFlows |-> [title |-> 1, graph |-> IF f = loaded THEN Opening ELSE Empty]]
  /\ fetched = kept /\ canvas = Opening /\ signed = Opening /\ undo = <<>> /\ clip = Empty
  /\ canvasPuts = [k \in Kinds |-> NoCall] /\ used = [blocks |-> Ids(Opening), edges |-> 1]
  /\ canvasEdits = 0 /\ canvasCalls = 0 /\ sound = 0

Edit == canvasEdits < MaxCanvasEdits /\ canvasEdits' = canvasEdits + 1
Fresh == Blocks \ used.blocks

\* More blocks on a canvas that keeps its own.
Joined(blocks, more) ==
  [b \in DOMAIN blocks \union DOMAIN more |-> IF b \in DOMAIN blocks THEN blocks[b] ELSE more[b]]

\* The name itself, or one made from it that is free.
Deduped(name, taken) ==
  IF name \notin taken THEN name ELSE CHOOSE n \in Names \ taken : \A k \in Names \ taken : n <= k

-----------------------------------------------------------------------------
(* Editing.                                                                *)

\* autoNodeName gives the first free name of the type.
AddBlock ==
  /\ Edit /\ Fresh # {}
  /\ LET b == CHOOSE x \in Fresh : TRUE
         name == Deduped(1, Range(canvas.blocks))
     IN /\ canvas' = [canvas EXCEPT !.blocks = Joined(@, [x \in {b} |-> name])]
        /\ used' = [used EXCEPT !.blocks = @ \union {b}]
  /\ UNCHANGED <<undo, clip, loaded, signed, kept, fetched, canvasPuts, canvasCalls, sound>>

\* The inspector takes any name, one that is taken too.
NameBlock(b, name) ==
  /\ Edit /\ b \in Ids(canvas) /\ canvas' = [canvas EXCEPT !.blocks[b] = name]
  /\ UNCHANGED <<undo, clip, loaded, signed, kept, fetched, canvasPuts, used, canvasCalls, sound>>

\* connectionRejection walks from the source back to what feeds it.
Feeding(edges, b) == {e.source : e \in {d \in edges : d.target = b}}
Upstream(edges, b) ==
  LET closed(S) == \A c \in S \union {b} : Feeding(edges, c) \subseteq S
  IN {c \in Blocks : \A S \in SUBSET Blocks : closed(S) => c \in S}
InputTaken(edges, b) == \E e \in edges : e.target = b
\* Deviation: only the blocks next to the source are looked at.
RejectedIfDirect(a, b) ==
  a = b \/ InputTaken(canvas.edges, b) \/ b \in Feeding(canvas.edges, a)
Rejected(a, b) ==
  a = b \/ InputTaken(canvas.edges, b) \/ b \in Upstream(canvas.edges, a)

ConnectBlocks(a, b) ==
  /\ Edit /\ {a, b} \subseteq Ids(canvas) /\ ~Rejected(a, b) /\ used.edges < MaxConnections
  /\ used' = [used EXCEPT !.edges = @ + 1]
  /\ canvas' = [canvas EXCEPT !.edges = @ \union {[id |-> used.edges + 1, source |-> a, target |-> b]}]
  /\ sound' = 0
  /\ UNCHANGED <<undo, clip, loaded, signed, kept, fetched, canvasPuts, canvasCalls>>

\* What is selected, with the edges at the deleted blocks.
Part(g, B) == [blocks |-> Restrict(g.blocks, B), edges |-> {}]
Touching(g, B) == {e \in g.edges : e.source \in B \/ e.target \in B}
Within(g, B) == {e \in g.edges : e.source \in B /\ e.target \in B}
Lesser(m, n) == IF m < n THEN m ELSE n
Capped(stack) == IF Len(stack) > MaxUndo THEN Tail(stack) ELSE stack

DeleteParts(B, E) ==
  /\ Edit /\ B \subseteq Ids(canvas) /\ E \subseteq canvas.edges /\ B \union E # {}
  /\ LET edges == E \union Touching(canvas, B) IN
       /\ undo' = Capped(Append(undo, [Part(canvas, B) EXCEPT !.edges = edges]))
       /\ canvas' = [blocks |-> Restrict(canvas.blocks, Ids(canvas) \ B), edges |-> canvas.edges \ edges]
  /\ sound' = Lesser(sound + 1, MaxUndo)
  /\ UNCHANGED <<clip, loaded, signed, kept, fetched, canvasPuts, used, canvasCalls>>

\* Ctrl+Z: what is still there is not added again, and an edge needs both ends.
Taken(stack) == stack[Len(stack)]
Remaining(stack) == SubSeq(stack, 1, Len(stack) - 1)
Restored(g, entry) ==
  LET blocks == Joined(g.blocks, entry.blocks)
  IN [blocks |-> blocks, edges |-> g.edges \union {e \in entry.edges : {e.source, e.target} \subseteq DOMAIN blocks}]

UndoDeletion ==
  /\ Edit /\ undo # <<>> /\ (sound = 0 => RashUndo)
  /\ canvas' = Restored(canvas, Taken(undo)) /\ undo' = Remaining(undo)
  /\ sound' = IF sound = 0 THEN 0 ELSE sound - 1
  /\ UNCHANGED <<clip, loaded, signed, kept, fetched, canvasPuts, used, canvasCalls>>

CopyBlocks(B) ==
  /\ Edit /\ B # {} /\ B \subseteq Ids(canvas)
  /\ clip' = [Part(canvas, B) EXCEPT !.edges = Within(canvas, B)]
  /\ UNCHANGED <<canvas, undo, loaded, signed, kept, fetched, canvasPuts, used, canvasCalls, sound>>

\* Every pasted block and edge gets a new id, every block a free name.
PastedNames(taken) ==
  LET order == SeqExt!SetToSeq(Ids(clip))
      named[i \in 0..Len(order)] ==
        IF i = 0 THEN <<>>
        ELSE (order[i] :> Deduped(clip.blocks[order[i]], taken \union Range(named[i - 1]))) @@ named[i - 1]
  IN named[Len(order)]

Paste ==
  /\ Edit /\ Ids(clip) # {}
  /\ used.edges + Cardinality(clip.edges) <= MaxConnections
  /\ \E new \in [Ids(clip) -> Fresh] :
       /\ IsInjective(new)
       /\ LET names == PastedNames(Range(canvas.blocks))
              edges == SeqExt!SetToSeq(clip.edges)
          IN canvas' =
               [blocks |-> Joined(canvas.blocks, [b \in Range(new) |-> names[CHOOSE c \in Ids(clip) : new[c] = b]]),
                edges |-> canvas.edges \union
                  {[id |-> used.edges + i, source |-> new[edges[i].source], target |-> new[edges[i].target]] :
                     i \in 1..Len(edges)}]
       /\ used' = [blocks |-> used.blocks \union Range(new), edges |-> used.edges + Cardinality(clip.edges)]
  /\ UNCHANGED <<undo, clip, loaded, signed, kept, fetched, canvasPuts, canvasCalls, sound>>

-----------------------------------------------------------------------------
(* Saving, renaming, loading.                                              *)

Making == canvasCalls < MaxCanvasCalls /\ canvasCalls' = canvasCalls + 1
Busy(kind) == canvasPuts[kind].state # "none"
Sent(title, graph) == [state |-> "sent", flow |-> loaded, title |-> title, graph |-> graph]

\* Equal names are told apart on the canvas, one after the other.
Distinct(blocks) ==
  LET order == SeqExt!SetToSeq(DOMAIN blocks)
      named[i \in 0..Len(order)] ==
        IF i = 0 THEN <<>>
        ELSE (order[i] :> Deduped(blocks[order[i]], Range(named[i - 1]))) @@ named[i - 1]
  IN [b \in DOMAIN blocks |-> named[Len(order)][b]]

\* onSave sends the canvas as it was before that, under the title last listed.
SaveStarts ==
  /\ Making /\ canvas # signed /\ \A k \in Kinds : ~Busy(k)
  /\ canvasPuts' = [canvasPuts EXCEPT !["save"] = Sent(fetched[loaded].title, canvas)]
  /\ canvas' = [canvas EXCEPT !.blocks = Distinct(@)]
  /\ UNCHANGED <<undo, clip, loaded, signed, kept, fetched, used, canvasEdits, sound>>

\* onRenameFlow sends the graph last listed under the new title.
RenameStarts ==
  /\ Making /\ ~Busy("rename") /\ (Busy("save") => RashCalls)
  /\ canvasPuts' = [canvasPuts EXCEPT !["rename"] = Sent(fetched[loaded].title + 1, fetched[loaded].graph)]
  /\ UNCHANGED <<canvas, undo, clip, loaded, signed, kept, fetched, used, canvasEdits, sound>>

\* The PUT of the local store.
CallStored(kind) ==
  /\ canvasPuts[kind].state = "sent"
  /\ canvasPuts' = [canvasPuts EXCEPT ![kind].state = "stored"]
  /\ kept' = [kept EXCEPT ![canvasPuts[kind].flow] = [title |-> canvasPuts[kind].title, graph |-> canvasPuts[kind].graph]]
  /\ UNCHANGED <<canvas, undo, clip, loaded, signed, fetched, used, canvasEdits, canvasCalls, sound>>

\* Deviation: what the canvas has become is signed.
SignatureNow == canvas
\* The flows are listed again; a save then signs what it sent.
SignatureSent == canvasPuts["save"].graph
CallEnds(kind) ==
  /\ canvasPuts[kind].state = "stored"
  /\ canvasPuts' = [canvasPuts EXCEPT ![kind] = NoCall]
  /\ fetched' = kept
  /\ signed' = IF kind = "save" THEN SignatureSent ELSE signed
  /\ UNCHANGED <<canvas, undo, clip, loaded, kept, used, canvasEdits, canvasCalls, sound>>

CallFails(kind) ==
  /\ canvasPuts[kind].state = "sent"
  /\ canvasPuts' = [canvasPuts EXCEPT ![kind] = NoCall]
  /\ UNCHANGED <<canvas, undo, clip, loaded, signed, kept, fetched, used, canvasEdits, canvasCalls, sound>>

\* What was not saved of the flow shown before is lost.
LoadFlow(f) ==
  /\ Making /\ f # loaded /\ ((\E k \in Kinds : Busy(k)) => RashCalls)
  /\ loaded' = f /\ canvas' = fetched[f].graph /\ signed' = canvas' /\ undo' = <<>> /\ sound' = 0
  /\ UNCHANGED <<clip, kept, fetched, canvasPuts, used, canvasEdits>>

\* A sync pass brings another device's content; the canvas stays as it is.
FlowPulled(f) ==
  /\ PulledMeanwhile /\ Making
  /\ kept' = [kept EXCEPT ![f].graph = Empty] /\ fetched' = kept'
  /\ UNCHANGED <<canvas, undo, clip, loaded, signed, canvasPuts, used, canvasEdits, sound>>

-----------------------------------------------------------------------------
CanvasNext ==
  \/ AddBlock \/ UndoDeletion \/ Paste \/ SaveStarts \/ RenameStarts
  \/ \E b \in Blocks, n \in Names : NameBlock(b, n)
  \/ \E a, b \in Blocks : ConnectBlocks(a, b)
  \/ \E B \in SUBSET Ids(canvas) : CopyBlocks(B)
  \/ \E B \in SUBSET Ids(canvas) : \E E \in SUBSET canvas.edges : DeleteParts(B, E)
  \/ \E k \in Kinds : CallStored(k) \/ CallEnds(k) \/ CallFails(k)
  \/ \E f \in CanvasFlows : LoadFlow(f) \/ FlowPulled(f)

CanvasSpec == CanvasInit /\ [][CanvasNext]_canvasVars

-----------------------------------------------------------------------------
(* Properties.                                                             *)

\* Undone in order, no deletion loses a connection: when its turn comes, both
\* ends of every deleted edge are on the canvas again.
UndoLosesNothing ==
  \A i \in 1..Len(undo) : \A e \in undo[i].edges :
    {e.source, e.target} \subseteq Ids(canvas) \union UNION {Ids(undo[j]) : j \in i..Len(undo)}

\* No input is connected twice and no blocks feed each other in a circle, however
\* blocks and connections are added, deleted, brought back, copied and loaded.
CanvasIsSound ==
  /\ \A d, e \in canvas.edges : d.target = e.target => d = e
  /\ \A b \in Ids(canvas) : b \notin Upstream(canvas.edges, b)
  /\ \A e \in canvas.edges : {e.source, e.target} \subseteq Ids(canvas)
  /\ UndoLosesNothing

\* While no save or rename is under way, a canvas without the dot that says
\* "unsaved changes" is what the local store holds of the flow.
CleanIsStored ==
  (\A k \in Kinds : ~Busy(k)) /\ canvas = signed => kept[loaded].graph = canvas
===============================================================================
