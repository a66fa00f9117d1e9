----------------------------- MODULE RequestDraft -----------------------------
(***************************************************************************)
(* The unsaved description of a request in the API explorer                *)
(* (context/AppContext.tsx): it is seeded from the collection, overlaid by *)
(* the draft kept in the sidecar's prefs, and kept there at every edit,    *)
(* until a save makes it part of the collection.  The drafts of the        *)
(* declared outputs and of the auth selection go the same way, except that *)
(* a save leaves the draft of a HOOK binding.                              *)
(*                                                                         *)
(* The app's calls to the sidecar arrive in the order they are made.       *)
(***************************************************************************)
EXTENDS Integers, Sequences

CONSTANTS
  DraftRequests, DraftTexts,
  NoDraft,           \* no pref is stored; no request is selected
  Hasty,             \* the user goes on before a draft is read back, or edits during a save
  ReadsFail,         \* a read of a pref may fail
  MaxCalls           \* bound on the calls under way

ASSUME DraftAssumption == NoDraft \notin DraftRequests \cup DraftTexts

VARIABLES
  selectedReq,       \* selectedRequestId; after a render also prevSelectedRequestIdRef
                     \* and descriptionPersistIdRef
  hydratedFor,       \* descriptionHydratedIdRef
  text,              \* reqDescription
  savedText,         \* the description in the collection
  draftPref,         \* description_override:<id> in the sidecar
  calls,             \* to the sidecar, on their way
  answers,           \* of reads, on their way back
  saving             \* handleSaveRequest under way

draftVars == <<selectedReq, hydratedFor, text, savedText, draftPref, calls, answers, saving>>

Get(r) == [call |-> "get", of |-> r, text |-> NoDraft]
Put(r, t) == [call |-> "put", of |-> r, text |-> t]
Delete(r) == Put(r, NoDraft)
NotSaving == [of |-> NoDraft, text |-> NoDraft]
AnswersFor(r) == {k \in DOMAIN answers : answers[k].of = r}
ReadUnderWay(r) ==
  AnswersFor(r) # {} \/ \E k \in DOMAIN calls : calls[k] = Get(r)

DraftInit ==
  /\ selectedReq = NoDraft /\ hydratedFor = NoDraft
  /\ text \in DraftTexts
  /\ savedText \in [DraftRequests -> DraftTexts]
  /\ draftPref \in [DraftRequests -> DraftTexts \cup {NoDraft}]
  /\ calls = <<>> /\ answers = <<>> /\ saving = NotSaving

\* The effect that keeps the draft, in a render that changes the text.
Kept(r, hydrated, t, changed) == IF changed /\ hydrated = r THEN <<Put(r, t)>> ELSE <<>>

\* The effects of a selection: the fields are seeded and the draft is asked for;
\* the effect that keeps it skips the first render, not the one that follows.
SelectRequest(r) ==
  /\ selectedReq # r /\ Len(calls) < MaxCalls
  /\ Hasty \/ ~ReadUnderWay(selectedReq)
  /\ selectedReq' = r
  /\ text' = savedText[r]
  /\ calls' = calls \o <<Get(r)>> \o Kept(r, hydratedFor, savedText[r], text # savedText[r])
  /\ UNCHANGED <<hydratedFor, savedText, draftPref, answers, saving>>

\* The user types.
EditText(t) ==
  /\ selectedReq # NoDraft /\ t # text /\ Len(calls) < MaxCalls
  /\ Hasty \/ (hydratedFor = selectedReq /\ ~ReadUnderWay(selectedReq) /\ saving = NotSaving)
  /\ text' = t
  /\ calls' = calls \o Kept(selectedReq, hydratedFor, t, TRUE)
  /\ UNCHANGED <<selectedReq, hydratedFor, savedText, draftPref, answers, saving>>

\* The sidecar handles the next call; getPref tells a failed read from no draft.
Handled ==
  /\ calls # <<>> /\ calls' = Tail(calls)
  /\ LET c == Head(calls) IN
     \/ /\ c.call = "get" /\ UNCHANGED draftPref
        /\ answers' = Append(answers, [of |-> c.of, read |-> TRUE, text |-> draftPref[c.of]])
     \/ /\ c.call = "get" /\ ReadsFail /\ UNCHANGED draftPref
        /\ answers' = Append(answers, [of |-> c.of, read |-> FALSE, text |-> NoDraft])
     \/ /\ c.call = "put" /\ UNCHANGED answers
        /\ draftPref' = [draftPref EXCEPT ![c.of] = c.text]
  /\ UNCHANGED <<selectedReq, hydratedFor, text, savedText, saving>>

\* An answer counts while its request is the one loaded.
ForLoaded(r) == selectedReq = r

\* No draft is not an empty one.
Overlay(a) == IF a.text = NoDraft THEN text ELSE a.text

\* The draft is overlaid, and from now on kept.
Overlaid ==
  /\ answers # <<>> /\ answers' = Tail(answers)
  /\ LET a == Head(answers)
         t == Overlay(a)
     IN \/ /\ a.read /\ ForLoaded(a.of)
           /\ text' = t /\ hydratedFor' = a.of
           /\ calls' = calls \o Kept(selectedReq, a.of, t, t # text)
        \/ ~(a.read /\ ForLoaded(a.of)) /\ UNCHANGED <<text, hydratedFor, calls>>
  /\ UNCHANGED <<selectedReq, savedText, draftPref, saving>>

\* Deviation: the draft of the request selected by now.
DroppedSelected(r) == <<Delete(selectedReq)>>
\* What has been saved needs no draft, if it has been read back.
Dropped(r) == IF hydratedFor = r THEN <<Delete(r)>> ELSE <<>>
\* handleSaveRequest, up to the write of the collection and after it.
SaveRequest ==
  /\ selectedReq # NoDraft /\ saving = NotSaving
  /\ Hasty \/ (hydratedFor = selectedReq /\ ~ReadUnderWay(selectedReq))
  /\ saving' = [of |-> selectedReq, text |-> text]
  /\ UNCHANGED <<selectedReq, hydratedFor, text, savedText, draftPref, calls, answers>>
RequestSaved ==
  /\ saving # NotSaving /\ Len(calls) < MaxCalls
  /\ savedText' = [savedText EXCEPT ![saving.of] = saving.text]
  /\ calls' = calls \o Dropped(saving.of)
  /\ saving' = NotSaving
  /\ UNCHANGED <<selectedReq, hydratedFor, text, draftPref, answers>>

DraftNext ==
  \/ \E r \in DraftRequests : SelectRequest(r)
  \/ \E t \in DraftTexts : EditText(t)
  \/ Handled \/ Overlaid \/ SaveRequest \/ RequestSaved
DraftSpec == DraftInit /\ [][DraftNext]_draftVars

-----------------------------------------------------------------------------
DraftTypeOK ==
  /\ {selectedReq, hydratedFor, saving.of} \subseteq DraftRequests \cup {NoDraft}
  /\ text \in DraftTexts
  /\ \A r \in DraftRequests : savedText[r] \in DraftTexts /\ draftPref[r] \in DraftTexts \cup {NoDraft}
  /\ \A k \in DOMAIN calls : calls[k].of \in DraftRequests

DraftAtRest == calls = <<>> /\ answers = <<>> /\ saving = NotSaving
\* What selecting a request shows.
Recalled(r) == IF draftPref[r] = NoDraft THEN savedText[r] ELSE draftPref[r]

\* Whatever is edited, saved and selected, a save of one request still under
\* way while another is edited: once all calls have ended, what the editor shows is what comes
\* back when the request is selected again.
DraftComesBack ==
  DraftAtRest /\ hydratedFor = selectedReq /\ selectedReq # NoDraft => text = Recalled(selectedReq)

=============================================================================
