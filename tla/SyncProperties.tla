--------------------------- MODULE SyncProperties ---------------------------
(***************************************************************************)
(* What the sync of one entity type promises its users.                    *)
(***************************************************************************)
EXTENDS SyncEngine

Row(d, l)   == rows[d][l]
DocOf(d, l) == docs[rows[d][l].cloudId]

\* Rows of device d that are linked to a document and have nothing to push.
CleanRows(d) ==
  {l \in Local!Stored(d) : Local!Linked(Row(d, l)) /\ ~Local!Dirty(Row(d, l))}

\* The devices are interchangeable.
DeviceSymmetry == {[d \in Devices |-> f[d]] : f \in Bijection(Devices, Devices)}

-----------------------------------------------------------------------------
(* Invariants. *)

\* A clean row holds the very content the cloud has at the version the row
\* was synced at: "clean" never means "looks synced but differs".
CleanMeansSynced ==
  \A d \in Devices : \A l \in CleanRows(d) :
    Row(d, l).base = DocOf(d, l).version /\ ~Row(d, l).deleted
      => Row(d, l).payload = DocOf(d, l).payload

\* A device does not hold one cloud document in two rows (localByCloudId would
\* see only one of them).
OneRowPerDocument ==
  \A d \in Devices : \A k, l \in Local!Stored(d) :
    Local!Linked(Row(d, k)) /\ Row(d, k).cloudId = Row(d, l).cloudId => k = l

\* As long as no call is lost a record is created in the cloud once, unless it
\* was deleted there: only "keep local" on a tombstone creates it anew, and does
\* so on every device that gives this answer.
CreatedOnce ==
  faults = 0 =>
    \A i, j \in DocIds :
      Cloud!Live(i) /\ Cloud!Live(j) /\ docs[i].payload.edits \cap docs[j].payload.edits # {}
      => \/ i = j
         \/ \E k \in DocIds : /\ Cloud!Exists(k) /\ docs[k].deleted
                              /\ docs[k].payload.edits \cap docs[i].payload.edits # {}

\* A record is never doubled.
NothingDoubled == OneRowPerDocument /\ CreatedOnce

-----------------------------------------------------------------------------
(* Action properties. *)

\* A pass touches a dirty row only to confirm the push of exactly the content
\* (or the deletion) the row holds: an unsynced edit is never marked clean and
\* never overwritten by a pull.
PassKeepsLocalEdits ==
  [][\A d \in Devices : \A l \in Local!Stored(d) :
       /\ pass'[d] # pass[d] /\ rows'[d][l] # Row(d, l)
       /\ Local!Dirty(Row(d, l))
       => /\ pass[d].current # NoCall /\ pass[d].current.row = l
          /\ pass[d].current.local =
               IF Row(d, l).deleted THEN NoPayload ELSE Row(d, l).payload]_vars

\* A push without force never replaces content its author has not seen:
\* concurrent edits become conflicts.
PushesOnlySuperseded ==
  [][\A c \in Clients :
       /\ Cloud!Pending(c, "update") /\ ~handler[c].req.force
       /\ handler'[c].stage = "replied"
       => DerivesFrom(handler[c].req.payload, docs[handler[c].req.doc].payload)]_vars

\* A pass, skipped or not, does not take a conflict off the dialog that still
\* applies: its row is dirty and its document is past the row's base version.
ConflictsAreNotDropped ==
  [][\A d \in Devices : \A k \in conflicts[d] :
       /\ ReadFails(d) \/ EndPass(d)
       /\ k.row \in Local!Stored(d) /\ Local!Dirty(Row(d, k.row))
       /\ Row(d, k.row).cloudId = k.doc /\ docs[k.doc].version > Row(d, k.row).base
       => \E m \in conflicts'[d] : m.row = k.row]_vars

\* A pass none of whose calls was lost leaves no visible row behind in silence:
\* the row is in sync, or on a card of the dialog, or its name belongs to a
\* document of another row of the device, created earlier in this very pass
\* (comment on the name-collision branch, syncEngine.ts:162-166: without it
\* "the push would fail silently forever").
NothingLeftBehind ==
  [][\A d \in Devices : EndPass(d) /\ faults = 0 =>
       \A l \in Local!Visible(d) :
         \/ Local!Linked(Row(d, l)) /\ ~Local!Dirty(Row(d, l))
         \/ \E k \in conflicts'[d] : k.row = l
         \/ \E k \in Local!Visible(d) \ {l} :
              /\ Local!Linked(Row(d, k))
              /\ DocOf(d, k).payload.name = Row(d, l).payload.name]_vars

-----------------------------------------------------------------------------
(* Liveness. *)

InSync(d) ==
  /\ \A l \in Local!Stored(d) :
       /\ Local!Linked(Row(d, l)) /\ ~Local!Dirty(Row(d, l))
       /\ Row(d, l).deleted = DocOf(d, l).deleted
       /\ ~Row(d, l).deleted => Row(d, l).payload = DocOf(d, l).payload
  /\ \A i \in DocIds : Cloud!Live(i) => \E l \in Local!Visible(d) : Row(d, l).cloudId = i

\* Users make finitely many edits here; once they stop, all devices and the
\* cloud come to hold the same records, and stay so.
Converges == <>[](\A d \in Devices : InSync(d))

\* Passes are started for ever (the five-minute timer), calls are answered,
\* and the user sooner or later answers a conflict that keeps coming back.
EngineFairness ==
  /\ WF_vars(CloudStep)
  /\ \A d \in Devices : SF_vars(StartPass(d)) /\ WF_vars(PassStep(d)) /\ WF_vars(DialogStep(d))

FairSpec == Spec /\ EngineFairness /\ \A d \in Devices : SF_vars(KeepCloud(d) \/ KeepLocal(d))
=============================================================================
