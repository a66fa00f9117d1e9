--------------------------- MODULE SyncReferences ---------------------------
(***************************************************************************)
(* A pass over several entity types (runAllSync in syncEngine.ts, started  *)
(* by triggerSync in AppContext.tsx) and the references between them: a    *)
(* browser profile may name an auth function, by the local id the device   *)
(* gave the function or by its cloud id.  Functions sync first; a profile  *)
(* is sent with the cloud id of its function, and waits for a later pass   *)
(* while there is none.                                                    *)
(*                                                                         *)
(* The reconciliation of one type is one step here: what happens between   *)
(* its calls is the subject of SyncEngine.  Between the types of a pass    *)
(* users and the other devices go on.                                      *)
(***************************************************************************)
EXTENDS Naturals

CONSTANTS
  RefDevices,     \* the devices of one account
  AuthFunctions, Profiles,
  NoRef,          \* a profile without an auth function
  NoProfile,      \* no such row, no such document
  Unlinks,        \* users also take the function off a profile: by an edit, or by
                  \* keeping a local side without one
  MaxRefActs,     \* bound: what all users do together
  MaxRefFaults    \* bound: failed calls and closed windows

ASSUME RefAssumption ==
  /\ Unlinks \in BOOLEAN /\ MaxRefActs \in Nat /\ MaxRefFaults \in Nat
  /\ "cloud" \notin RefDevices /\ NoRef \notin AuthFunctions

VARIABLES
  functionRows,   \* functionRows[d][f]: the row of f in the local store of d
  functionDocs,   \* functionDocs[f]: its document in the cloud
  profileRows, profileDocs,
  refPass,        \* refPass[d]: the pass in flight in the window of d
  cards,          \* cards[d]: the profiles' cards in its conflict dialog
  refActs, refFaults

functionVars == <<functionRows, functionDocs>>
profileVars  == <<profileRows, profileDocs>>
refVars == <<functionVars, profileVars, refPass, cards, refActs, refFaults>>

-----------------------------------------------------------------------------
(* Identifiers, rows and documents. *)

\* Ids are random: no two places give a function the same one.
Id(place, f) == [at |-> place, names |-> f]
Ref      == [at: {"cloud"} \cup RefDevices, names: AuthFunctions] \cup {NoRef}
CloudRef == [at: {"cloud"}, names: AuthFunctions] \cup {NoRef}
RefOn(d) == [at: {"cloud", d}, names: AuthFunctions] \cup {NoRef}
Meaning(ref) == IF ref = NoRef THEN NoRef ELSE ref.names

\* "tombstone": deleted, and the cloud is to be told; "gone": it knows, or never
\* heard of the function.
FunctionRow == {"none", "new", "linked", "tombstone", "gone"}
FunctionDoc == {"none", "live", "deleted"}
FunctionList == [AuthFunctions -> FunctionRow]

\* base is 0 while the row has no cloud id.
ProfileRow == [ref: Ref, base: Nat, dirty: BOOLEAN]
ProfileDoc == [version: Nat \ {0}, ref: CloudRef]
RefRow(ref, base, dirty) == [ref |-> ref, base |-> base, dirty |-> dirty]
Document(version, ref) == [version |-> version, ref |-> ref]

Card == [profile: Profiles, local: Ref, cloud: CloudRef, version: Nat \ {0}]

ASSUME NothingAssumption ==
  /\ NoRef \notin [at: {"cloud"} \cup RefDevices, names: AuthFunctions]
  /\ NoProfile \notin ProfileRow \cup ProfileDoc

NoRefPass == [at |-> "idle"]
RefPass == {NoRefPass} \cup [at: {"functions"}, both: BOOLEAN] \cup [at: {"list"}]
             \cup [at: {"profiles"}, list: FunctionList]

RefTypeOK ==
  /\ functionRows \in [RefDevices -> FunctionList]
  /\ functionDocs \in [AuthFunctions -> FunctionDoc]
  /\ profileRows \in [RefDevices -> [Profiles -> ProfileRow \cup {NoProfile}]]
  /\ profileDocs \in [Profiles -> ProfileDoc \cup {NoProfile}]
  /\ refPass \in [RefDevices -> RefPass]
  /\ cards \in [RefDevices -> SUBSET Card]
  /\ refActs \in 0..MaxRefActs /\ refFaults \in 0..MaxRefFaults

RefInit ==
  /\ functionRows = [d \in RefDevices |-> [f \in AuthFunctions |-> "none"]]
  /\ functionDocs = [f \in AuthFunctions |-> "none"]
  /\ profileRows = [d \in RefDevices |-> [p \in Profiles |-> NoProfile]]
  /\ profileDocs = [p \in Profiles |-> NoProfile]
  /\ refPass = [d \in RefDevices |-> NoRefPass]
  /\ cards = [d \in RefDevices |-> {}]
  /\ refActs = 0 /\ refFaults = 0

-----------------------------------------------------------------------------
(* Users. *)

\* A pass in flight stands for the one asked for, whatever its types.
Triggered(d, both) ==
  IF refPass[d].at = "idle" THEN [refPass EXCEPT ![d] = [at |-> "functions", both |-> both]]
                            ELSE refPass

UserActed ==
  /\ refActs < MaxRefActs /\ refActs' = refActs + 1
  /\ UNCHANGED <<functionDocs, profileDocs, cards, refFaults>>

\* Whoever makes f makes it on one device.
CreateFunction(d, f) ==
  /\ \A e \in RefDevices : functionRows[e][f] = "none"
  /\ functionDocs[f] = "none"
  /\ functionRows' = [functionRows EXCEPT ![d][f] = "new"]
  /\ refPass' = Triggered(d, TRUE)
  /\ UserActed /\ UNCHANGED profileRows

\* Only the functions are asked to sync.
DeleteFunction(d, f) ==
  /\ functionRows[d][f] \in {"new", "linked"}
  /\ functionRows' = [functionRows EXCEPT ![d][f] =
                        IF functionRows[d][f] = "new" THEN "gone" ELSE "tombstone"]
  /\ refPass' = Triggered(d, FALSE)
  /\ UserActed /\ UNCHANGED profileRows

\* The dropdown offers the functions of this device by their local ids; a
\* reference it does not touch is saved as it is.
Offered(d) == {Id(d, f) : f \in {g \in AuthFunctions : functionRows[d][g] \in {"new", "linked"}}}

CreateProfile(d, p) ==
  /\ \A e \in RefDevices : profileRows[e][p] = NoProfile
  /\ profileDocs[p] = NoProfile
  /\ \E ref \in Offered(d) \cup {NoRef} :
       profileRows' = [profileRows EXCEPT ![d][p] = RefRow(ref, 0, TRUE)]
  /\ refPass' = Triggered(d, TRUE)
  /\ UserActed /\ UNCHANGED functionRows

\* The conflict dialog is answered before the profile is edited again.
EditProfile(d, p) ==
  /\ profileRows[d][p] # NoProfile
  /\ \A c \in cards[d] : c.profile # p
  /\ \E ref \in Offered(d) \cup {profileRows[d][p].ref} \cup (IF Unlinks THEN {NoRef} ELSE {}) :
       profileRows' = [profileRows EXCEPT ![d][p] = RefRow(ref, @.base, TRUE)]
  /\ refPass' = Triggered(d, TRUE)
  /\ UserActed /\ UNCHANGED functionRows

\* On load, on focus and every five minutes, for every type.
SyncTimer(d) ==
  /\ refPass[d].at = "idle"
  /\ refPass' = Triggered(d, TRUE)
  /\ UNCHANGED <<functionVars, profileVars, cards, refActs, refFaults>>

-----------------------------------------------------------------------------
(* The pass. *)

\* Calls that fail: none; a read, so that the type is skipped; one record's push.
Failing(all, pushed) == {{}, all} \cup {{x} : x \in pushed}
Faults(failed) ==
  /\ failed # {} => refFaults < MaxRefFaults
  /\ refFaults' = IF failed = {} THEN refFaults ELSE refFaults + 1

FunctionsToPush(d) == {f \in AuthFunctions : functionRows[d][f] \in {"new", "tombstone"}}

PushedFunction(d, f) ==
  CASE functionRows[d][f] = "new"       -> "live"
    [] functionRows[d][f] = "tombstone" -> "deleted"
    [] OTHER                            -> functionDocs[f]

\* The row after the push or the pull.
ReconciledFunction(d, f) ==
  CASE functionRows[d][f] = "new" -> "linked"
    [] functionRows[d][f] = "none" /\ functionDocs[f] = "live" -> "linked"
    [] functionRows[d][f] = "tombstone" -> "gone"
    [] functionRows[d][f] = "linked" /\ functionDocs[f] = "deleted" -> "gone"
    [] OTHER -> functionRows[d][f]

SyncFunctions(d) ==
  /\ refPass[d].at = "functions"
  /\ \E failed \in Failing(AuthFunctions, FunctionsToPush(d)) :
       /\ functionRows' = [functionRows EXCEPT ![d] =
            [f \in AuthFunctions |-> IF f \in failed THEN @[f] ELSE ReconciledFunction(d, f)]]
       /\ functionDocs' =
            [f \in AuthFunctions |-> IF f \in failed THEN functionDocs[f] ELSE PushedFunction(d, f)]
       /\ Faults(failed)
  /\ refPass' = [refPass EXCEPT ![d] = IF @.both THEN [at |-> "list"] ELSE NoRefPass]
  /\ UNCHANGED <<profileVars, cards, refActs>>

\* The functions that references are looked up in: none if the call fails.
ListFunctions(d) ==
  /\ refPass[d].at = "list"
  /\ \E failed \in {{}, AuthFunctions} :
       /\ refPass' = [refPass EXCEPT ![d] =
            [at |-> "profiles",
             list |-> [f \in AuthFunctions |-> IF f \in failed THEN "none" ELSE functionRows[d][f]]]]
       /\ Faults(failed)
  /\ UNCHANGED <<functionVars, profileVars, cards, refActs>>

\* Deviations: only local ids are looked up; what is not found is left out.
ResolvedByLocalId(d, list, ref) ==
  {Id("cloud", f) : f \in {g \in AuthFunctions : list[g] = "linked" /\ ref = Id(d, g)}}
    \cup ({NoRef} \cap {ref})
ResolvedOrDropped(d, list, ref) ==
  LET found == {g \in AuthFunctions : list[g] = "linked" /\ ref \in {Id(d, g), Id("cloud", g)}} IN
  IF found = {} THEN {NoRef} ELSE {Id("cloud", f) : f \in found}

\* The reference to send, if there is one: without it the push is deferred.
Resolved(d, list, ref) ==
  {Id("cloud", f) : f \in {g \in AuthFunctions :
                             list[g] = "linked" /\ ref \in {Id(d, g), Id("cloud", g)}}}
    \cup ({NoRef} \cap {ref})

\* update_profile leaves a field alone that is null in the request.
Updated(doc, ref) == Document(doc.version + 1, IF ref = NoRef THEN doc.ref ELSE ref)

\* What runSync makes of p with the list the references are looked up in: the row
\* and the document afterwards, and the conflict it reports.
Outcome(row, doc, conflict) == [row |-> row, doc |-> doc, conflict |-> conflict]

Sent(row, doc, p, ref) ==
  CASE row.base = 0 -> Outcome(RefRow(row.ref, 1, FALSE), Document(1, ref), {})
    [] row.base # 0 /\ row.base = doc.version ->
         Outcome(RefRow(row.ref, doc.version + 1, FALSE), Updated(doc, ref), {})
    [] OTHER -> Outcome(row, doc, {[profile |-> p, local |-> row.ref, cloud |-> doc.ref,
                                    version |-> doc.version]})

PushProfile(d, list, p) ==
  {Sent(profileRows[d][p], profileDocs[p], p, ref) :
     ref \in Resolved(d, list, profileRows[d][p].ref)}

PullProfile(d, p) ==
  LET row == profileRows[d][p]  doc == profileDocs[p] IN
  IF doc = NoProfile THEN Outcome(row, doc, {})
  ELSE IF row # NoProfile /\ doc.version <= row.base THEN Outcome(row, doc, {})
  ELSE Outcome(RefRow(doc.ref, doc.version, FALSE), doc, {})

ProfilesToPush(d) == {p \in Profiles : profileRows[d][p] # NoProfile /\ profileRows[d][p].dirty}

\* A deferred profile stays as it is.
Reconciled(d, list, p, failed) ==
  IF p \in failed THEN {Outcome(profileRows[d][p], profileDocs[p], {})}
  ELSE IF p \notin ProfilesToPush(d) THEN {PullProfile(d, p)}
  ELSE IF Resolved(d, list, profileRows[d][p].ref) = {}
       THEN {Outcome(profileRows[d][p], profileDocs[p], {})}
  ELSE PushProfile(d, list, p)

\* The conflicts found replace the cards of the profiles.
SyncProfiles(d) ==
  /\ refPass[d].at = "profiles"
  /\ \E failed \in Failing(Profiles, ProfilesToPush(d)) :
       /\ Faults(failed)
       /\ \E after \in [Profiles -> UNION {Reconciled(d, refPass[d].list, p, failed) : p \in Profiles}] :
            /\ \A p \in Profiles : after[p] \in Reconciled(d, refPass[d].list, p, failed)
            /\ profileRows' = [profileRows EXCEPT ![d] = [p \in Profiles |-> after[p].row]]
            /\ profileDocs' = [p \in Profiles |-> after[p].doc]
            /\ cards' = [cards EXCEPT ![d] = UNION {after[p].conflict : p \in Profiles}]
  /\ refPass' = [refPass EXCEPT ![d] = NoRefPass]
  /\ UNCHANGED <<functionVars, refActs>>

\* A window closed in a pass forgets it, and its cards.
CloseWindow(d) ==
  /\ refPass[d].at # "idle"
  /\ refPass' = [refPass EXCEPT ![d] = NoRefPass]
  /\ cards' = [cards EXCEPT ![d] = {}]
  /\ Faults({d})
  /\ UNCHANGED <<functionVars, profileVars, refActs>>

-----------------------------------------------------------------------------
(* Answers to a conflict. *)

AnswerKeepCloud(d, c) ==
  /\ profileRows' = [profileRows EXCEPT ![d][c.profile] = RefRow(c.cloud, c.version, FALSE)]
  /\ cards' = [cards EXCEPT ![d] = @ \ {c}]
  /\ UNCHANGED <<functionVars, profileDocs, refPass, refActs, refFaults>>

\* The captured reference goes out as it is: the cloud takes a local id for a
\* malformed ObjectId, and the card stays.
AnswerKeepLocal(d, c) ==
  /\ c.local \in CloudRef
  /\ c.local = NoRef /\ profileDocs[c.profile].ref # NoRef => Unlinks
  /\ profileDocs' = [profileDocs EXCEPT ![c.profile] = Updated(@, c.local)]
  /\ profileRows' = [profileRows EXCEPT ![d][c.profile] = RefRow(@.ref, profileDocs[c.profile].version + 1, FALSE)]
  /\ cards' = [cards EXCEPT ![d] = @ \ {c}]
  /\ UNCHANGED <<functionVars, refPass, refActs, refFaults>>

RefPassStep(d) == SyncFunctions(d) \/ ListFunctions(d) \/ SyncProfiles(d)

RefNext ==
  \E d \in RefDevices :
    \/ RefPassStep(d) \/ SyncTimer(d) \/ CloseWindow(d)
    \/ \E f \in AuthFunctions : CreateFunction(d, f) \/ DeleteFunction(d, f)
    \/ \E p \in Profiles : CreateProfile(d, p) \/ EditProfile(d, p)
    \/ \E c \in cards[d] : AnswerKeepCloud(d, c) \/ AnswerKeepLocal(d, c)

\* Calls are answered or fail, and the timer of an open window goes on.
RefFairness == \A d \in RefDevices : WF_refVars(RefPassStep(d)) /\ WF_refVars(SyncTimer(d))

RefSpec == RefInit /\ [][RefNext]_refVars /\ RefFairness

-----------------------------------------------------------------------------
\* What a device shows of a profile as synced is what the cloud holds: the same
\* auth function, if under another id; and no device holds an id it cannot look
\* up, because only another device knows it.  (The resolver of syncEngine.ts
\* rewrites what it sends and leaves the local row alone.)
ReferencesAgree ==
  \A d \in RefDevices : \A p \in Profiles :
    profileRows[d][p] # NoProfile =>
      LET row == profileRows[d][p] IN
      /\ row.ref \in RefOn(d)
      /\ ~row.dirty /\ row.base = profileDocs[p].version
           => Meaning(row.ref) = Meaning(profileDocs[p].ref)

\* A deferred push is only deferred: whatever failed, and whichever pass a save
\* met in flight, the profile arrives, or is asked about, or its device no longer
\* has the function it names.
Waiting(d, p) ==
  /\ profileRows[d][p] # NoProfile
  /\ profileRows[d][p].dirty
  /\ \A c \in cards[d] : c.profile # p
  /\ profileRows[d][p].ref # NoRef =>
       /\ functionRows[d][profileRows[d][p].ref.names] \notin {"tombstone", "gone"}
       /\ functionDocs[profileRows[d][p].ref.names] # "deleted"

ReferencesArrive == \A d \in RefDevices : \A p \in Profiles : Waiting(d, p) ~> ~Waiting(d, p)
=============================================================================
