---------------------------- MODULE FlowTransfer ----------------------------
(***************************************************************************)
(* Collections and flows handed from one installation to another in files  *)
(* (collectionTransfer.ts, flowTransfer.ts and the pages that call them).  *)
(* A flow refers to saved requests by id, and the requests of an imported  *)
(* collection get ids of their own; so the file of a flow describes each   *)
(* request it refers to, and the import looks for one that fits.           *)
(*                                                                         *)
(* A flow has one block, which refers to a request; a description is the   *)
(* request's name and method.  Within what is modelled, a request keeps    *)
(* both, and requests of the same name and method do the same.  Names and *)
(* deletions of flows, and files that are refused, are left out.           *)
(***************************************************************************)
EXTENDS Naturals, FiniteSets

CONSTANTS
  Installations,
  RequestNames,
  Nothing,          \* no auth function, no description
  MaxRequestIds, \* bounds on the requests and flows ever made
  MaxFlowIds

ASSUME TransferAssumption ==
  /\ {MaxRequestIds, MaxFlowIds} \subseteq Nat
  /\ Nothing \notin Installations \union [name: RequestNames, method: {"GET", "POST"}]

VARIABLES
  shelf,          \* the requests of each installation
  flows,          \* its flows
  flowFile,       \* the last flow exported
  requestIds, flowIds, \* numbers of the last ones made
  gone            \* the requests that were deleted somewhere

transferVars == <<shelf, flows, flowFile, requestIds, flowIds, gone>>

Interfaces == [name: RequestNames, method: {"GET", "POST"}]
SharedRequests == [id: 1..MaxRequestIds, is: Interfaces, auth: Installations \union {Nothing}]
\* The block: requestId (0 if unset), config.expected, and what its author meant.
Refs == [request: 0..MaxRequestIds, expected: Interfaces \union {Nothing}, meant: Interfaces]
SharedFlows == [id: 1..MaxFlowIds, block: Refs]

TransferTypeOK ==
  /\ shelf \in [Installations -> SUBSET SharedRequests]
  /\ flows \in [Installations -> SUBSET SharedFlows]
  /\ flowFile \subseteq [block: Refs, describes: Interfaces \union {Nothing}] /\ Cardinality(flowFile) <= 1
  /\ requestIds \in 0..MaxRequestIds /\ flowIds \in 0..MaxFlowIds
  /\ gone \subseteq 1..MaxRequestIds

TransferInit ==
  /\ shelf = [w \in Installations |-> {}] /\ flows = [w \in Installations |-> {}]
  /\ flowFile = {}
  /\ requestIds = 0 /\ flowIds = 0 /\ gone = {}

\* lookupRequest.
RequestsOf(w, id) == {r \in shelf[w] : r.id = id}

-----------------------------------------------------------------------------
(* Requests.                                                               *)

\* It uses an auth function of the installation.
MakeRequest(w, is) ==
  /\ requestIds < MaxRequestIds /\ requestIds' = requestIds + 1
  /\ shelf' = [shelf EXCEPT ![w] = @ \union {[id |-> requestIds + 1, is |-> is, auth |-> w]}]
  /\ UNCHANGED <<flows, flowFile, flowIds, gone>>

DropRequest(w, r) ==
  /\ shelf' = [shelf EXCEPT ![w] = @ \ {r}] /\ gone' = gone \union {r.id}
  /\ UNCHANGED <<flows, flowFile, requestIds, flowIds>>

\* prepareImportedCollection: ids of its own, and only auth functions that are here.
CopyOf(w, r, id) == [r EXCEPT !.id = id, !.auth = IF @ = w THEN w ELSE Nothing]
\* A collection, with what is below it, is any set of requests.  Its file has no
\* state of its own: what is deleted before it is imported may as well be deleted
\* afterwards.
ImportCollection(w, R) ==
  LET Rank(r) == Cardinality({q \in R : q.id <= r.id})
  IN /\ R # {} /\ requestIds + Cardinality(R) <= MaxRequestIds
     /\ requestIds' = requestIds + Cardinality(R)
     /\ shelf' = [shelf EXCEPT ![w] = @ \union {CopyOf(w, r, requestIds + Rank(r)) : r \in R}]
     /\ UNCHANGED <<flows, flowFile, flowIds, gone>>

-----------------------------------------------------------------------------
(* Flows.                                                                  *)

Unlinked(is) == [request |-> 0, expected |-> Nothing, meant |-> is]
LinkTo(r) == [request |-> r.id, expected |-> Nothing, meant |-> r.is]

\* createFlow, then updateFlow with the content.  If the second fails, an empty flow
\* stays.  What happens in between may as well happen afterwards.
Creates(w, block) ==
  /\ flowIds < MaxFlowIds /\ flowIds' = flowIds + 1
  /\ \E b \in {block, Unlinked(block.meant)} :
       flows' = [flows EXCEPT ![w] = @ \union {[id |-> flowIds + 1, block |-> b]}]
  /\ UNCHANGED <<shelf, flowFile, requestIds, gone>>

SetBlock(w, id, block) ==
  flows' = [flows EXCEPT ![w] = {IF f.id = id THEN [f EXCEPT !.block = block] ELSE f : f \in @}]

NewFlow(w, r) == Creates(w, LinkTo(r))
DuplicateFlow(w, f) == Creates(w, f.block)

\* The block's request is chosen in the inspector, which drops the description.
ChooseRequest(w, f, r) ==
  /\ f.block.request # r.id /\ SetBlock(w, f.id, LinkTo(r))
  /\ UNCHANGED <<shelf, flowFile, requestIds, flowIds, gone>>

\* serializeFlowForExport: what is found here is described as it is here.  What is
\* missing here too travels with the description it came with.
ExportFlow(w, f) ==
  LET b == f.block IN
  /\ \/ \E r \in RequestsOf(w, b.request) :
          flowFile' = {[block |-> [b EXCEPT !.expected = Nothing], describes |-> r.is]}
     \/ RequestsOf(w, b.request) = {} /\ flowFile' = {[block |-> b, describes |-> b.expected]}
  /\ UNCHANGED <<shelf, flows, requestIds, flowIds, gone>>

\* Deviation: requests of the same name are taken for the same.
AnswersByName(r, is) == is # Nothing /\ r.is.name = is.name
Answers(r, is) == is # Nothing /\ r.is.name = is.name /\ r.is.method = is.method

\* prepareImportedFlow: the same id, else the only one that fits, else a block
\* that says what is missing.
Resolved(w, file) ==
  LET b == file.block
      snapshot == IF file.describes # Nothing THEN file.describes ELSE b.expected
      candidates == {r \in shelf[w] : Answers(r, snapshot)}
  IN IF b.request = 0 THEN b
     ELSE IF RequestsOf(w, b.request) # {} THEN [b EXCEPT !.expected = Nothing]
     ELSE IF Cardinality(candidates) = 1
          THEN [b EXCEPT !.request = (CHOOSE r \in candidates : TRUE).id, !.expected = Nothing]
     ELSE [b EXCEPT !.expected = snapshot]

ImportFlow(w) == \E file \in flowFile : Creates(w, Resolved(w, file))

-----------------------------------------------------------------------------
TransferNext ==
  \E w \in Installations :
    \/ \E is \in Interfaces : MakeRequest(w, is)
    \/ \E v \in Installations : \E R \in SUBSET shelf[v] : ImportCollection(w, R)
    \/ \E r \in shelf[w] : DropRequest(w, r) \/ NewFlow(w, r)
    \/ \E f \in flows[w] :
         \/ DuplicateFlow(w, f) \/ ExportFlow(w, f)
         \/ \E r \in shelf[w] : ChooseRequest(w, f, r)
    \/ ImportFlow(w)

TransferSpec == TransferInit /\ [][TransferNext]_transferVars

-----------------------------------------------------------------------------
(* Properties.                                                             *)

\* However often collections and flows are passed on, back and further, a block
\* runs the request its author meant; where that request is missing, the block
\* says which one it was, unless it was deleted after the block was linked to it
\* (flowTransfer.ts:7-12).  No request refers to an auth function that is not
\* here: the sync would defer its collection (AppContext.tsx:1776-1778).
LinksMeanTheSame ==
  \A w \in Installations :
    /\ \A r \in shelf[w] : r.auth \in {w, Nothing}
    /\ \A f \in flows[w] :
         LET b == f.block IN
         /\ \A r \in RequestsOf(w, b.request) : r.is = b.meant
         /\ b.expected \in {b.meant, Nothing}
         /\ b.request # 0 /\ RequestsOf(w, b.request) = {} /\ b.expected = Nothing => b.request \in gone
===============================================================================
