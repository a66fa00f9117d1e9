--------------------------- MODULE WorkspaceFiles ---------------------------
(***************************************************************************)
(* The editor of the workspace's scripts: selection, debounced auto-save   *)
(* and the chain of saves (web-explorer/hooks/useWorkspaceFiles.ts), the   *)
(* save a run does for itself (useScriptRunner.ts), and the sidecar's file *)
(* routes (local_sidecar.py).  A text is [of, n]: the file it was opened   *)
(* from, and the edit that made it (0: as the sidecar wrote it).           *)
(***************************************************************************)
EXTENDS Integers, Sequences, SequencesExt, FiniteSets

CONSTANTS
  WorkspaceFileNames, MainFile, RecordingFile, Protected,
  NoFile,
  MaxFileEdits,    \* bound on what is typed, reset, recorded and selected
  Hurried          \* the user goes on before a load or save has ended

ASSUME WorkspaceAssumption ==
  /\ {MainFile, RecordingFile} \subseteq Protected /\ Protected \subseteq WorkspaceFileNames
  /\ NoFile \notin WorkspaceFileNames /\ MaxFileEdits \in Nat /\ Hurried \in BOOLEAN

VARIABLES
  disk,            \* file -> its text, or Gone
  selected, shownText,
  loading,         \* isWorkspaceLoading: a spinner instead of the editor
  pendingSave,     \* dirtyFileRef and contentRef with the timer, or NoSave
  saveChain,       \* POSTs, one under way at a time
  saved,           \* POSTs done
  fileLoads,       \* the loads under way
  wanted,          \* file -> what the user last typed, or had made, in it
  fileSteps

fileVars == <<disk, selected, shownText, loading, pendingSave, saveChain, saved, fileLoads, wanted, fileSteps>>

Text(file, n) == [of |-> file, n |-> n]
Gone == Text(NoFile, 0)
NoSave == [file |-> NoFile, text |-> Gone]
Step == fileSteps < MaxFileEdits /\ fileSteps' = fileSteps + 1

\* Whether nothing is under way that concerns these files.
Patient(files) ==
  \/ Hurried
  \/ fileLoads = {} /\ \A i \in DOMAIN saveChain : saveChain[i].file \notin files

WorkspaceInit ==
  /\ disk = [f \in WorkspaceFileNames |-> IF f \in Protected THEN Text(f, 0) ELSE Gone]
  /\ wanted = disk
  /\ selected = MainFile /\ shownText = disk[MainFile] /\ loading = FALSE
  /\ pendingSave = NoSave /\ saveChain = <<>> /\ saved = 0 /\ fileLoads = {} /\ fileSteps = 0

\* Deviation: what is pending goes to the file selected now.
FlushedToSelected(target) == Append(saveChain, [file |-> target, text |-> pendingSave.text])
\* Deviation: saves overtake each other.
FlushedAhead(target) == <<pendingSave>> \o saveChain
\* flushPendingSave: what is pending joins the chain.
Flushed(target) == Append(saveChain, pendingSave)

\* A load of f that waits for the flush, which is over at once if nothing is
\* pending: earlier saves are not waited for.
Load(f, after) == [file |-> f, after |-> after, at |-> "waits", text |-> Gone]
Due(load) == load.at = "waits" /\ saved >= load.after

\* setSelectedWorkspaceFile and its effect.
SelectNow(f) ==
  /\ selected' = f
  /\ IF pendingSave = NoSave
     THEN /\ fileLoads' = fileLoads \cup {Load(f, saved)} /\ UNCHANGED saveChain
     ELSE /\ fileLoads' = fileLoads \cup {Load(f, saved + Len(saveChain) + 1)}
          /\ saveChain' = Flushed(f)
  /\ pendingSave' = NoSave

SelectFile(f) ==
  /\ f # selected /\ disk[f] # Gone /\ Patient({f}) /\ Step /\ SelectNow(f)
  /\ UNCHANGED <<disk, shownText, loading, saved, wanted>>

\* handleEditorChange: the spinner hides the editor once a load has asked, not
\* while it waits for the flush.  The debounce is armed with the file and its new text.
TypeText ==
  /\ ~loading /\ (\A load \in fileLoads : Hurried /\ ~Due(load)) /\ Step
  /\ shownText' = Text(shownText.of, fileSteps')
  /\ pendingSave' = [file |-> selected, text |-> shownText']
  /\ wanted' = [wanted EXCEPT ![selected] = shownText']
  /\ UNCHANGED <<disk, selected, loading, saveChain, saved, fileLoads>>

\* The debounce, or the flush on unmount.
FlushSave ==
  /\ pendingSave # NoSave /\ saveChain' = Flushed(selected) /\ pendingSave' = NoSave
  /\ UNCHANGED <<disk, selected, shownText, loading, saved, fileLoads, wanted, fileSteps>>

\* handleSaveWorkspaceFile: what is pending is superseded by what is shown.
SaveClicked ==
  /\ ~loading /\ Patient({selected}) /\ pendingSave # NoSave
  /\ pendingSave' = NoSave
  /\ saveChain' = Append(saveChain, [file |-> selected, text |-> shownText])
  /\ UNCHANGED <<disk, selected, shownText, loading, saved, fileLoads, wanted, fileSteps>>

\* save_workspace_file: a POST makes the file if it is not there; then the next
\* one is sent.
SaveLands ==
  /\ saveChain # <<>>
  /\ disk' = [disk EXCEPT ![Head(saveChain).file] = Head(saveChain).text]
  /\ saveChain' = Tail(saveChain) /\ saved' = saved + 1
  /\ UNCHANGED <<selected, shownText, loading, pendingSave, fileLoads, wanted, fileSteps>>

\* fetchFileContent.
LoadAsks(load) ==
  /\ load \in fileLoads /\ Due(load) /\ loading' = TRUE
  /\ fileLoads' = (fileLoads \ {load}) \cup {[load EXCEPT !.at = "asked"]}
  /\ UNCHANGED <<disk, selected, shownText, pendingSave, saveChain, saved, wanted, fileSteps>>
LoadRead(load) ==
  /\ load \in fileLoads /\ load.at = "asked"
  /\ fileLoads' = (fileLoads \ {load}) \cup {[load EXCEPT !.at = "read", !.text = disk[load.file]]}
  /\ UNCHANGED <<disk, selected, shownText, loading, pendingSave, saveChain, saved, wanted, fileSteps>>
\* The answer is shown whichever file is selected by then; a 404 changes nothing.
LoadShown(load) ==
  /\ load \in fileLoads /\ load.at = "read"
  /\ fileLoads' = fileLoads \ {load} /\ loading' = FALSE
  /\ shownText' = IF load.text = Gone THEN shownText ELSE load.text
  /\ UNCHANGED <<disk, selected, pendingSave, saveChain, saved, wanted, fileSteps>>

\* cancelPendingSave.
Cancelled(files) == IF pendingSave.file \in files THEN NoSave ELSE pendingSave

\* handleResetWorkspaceFile, behind a modal spinner.
ResetFile ==
  /\ ~loading /\ Patient({selected}) /\ Step
  /\ pendingSave' = Cancelled(WorkspaceFileNames)
  /\ disk' = [disk EXCEPT ![selected] = Text(selected, 0)]
  /\ wanted' = [wanted EXCEPT ![selected] = Text(selected, 0)]
  /\ shownText' = Text(selected, 0)
  /\ UNCHANGED <<selected, loading, saveChain, saved, fileLoads>>

\* createFile: posted beside the chain, then selected.
CreateFile(f) ==
  /\ f \notin Protected /\ disk[f] = Gone /\ Patient({f}) /\ Step
  /\ disk' = [disk EXCEPT ![f] = Text(f, 0)] /\ wanted' = [wanted EXCEPT ![f] = Text(f, 0)]
  /\ SelectNow(f)
  /\ UNCHANGED <<shownText, loading, saved>>

\* The selection falls back to main.py.
SelectedWithout(f) == IF selected = f THEN MainFile ELSE selected
\* handleDeleteFile: a flush after the DELETE would make the file again.
DeleteFile(f) ==
  /\ f \notin Protected /\ disk[f] # Gone /\ Patient({f, MainFile}) /\ Step
  /\ disk' = [disk EXCEPT ![f] = Gone] /\ wanted' = [wanted EXCEPT ![f] = Gone]
  /\ selected' = SelectedWithout(f)
  /\ IF selected = f
     THEN /\ saveChain' = IF Cancelled({f}) = NoSave THEN saveChain ELSE Flushed(f)
          /\ pendingSave' = NoSave /\ fileLoads' = fileLoads \cup {Load(MainFile, saved)}
     ELSE pendingSave' = Cancelled({f}) /\ UNCHANGED <<saveChain, fileLoads>>
  /\ UNCHANGED <<shownText, loading, saved>>

\* handleRunScript saves what is shown itself, beside the chain.
SaveAndRun ==
  /\ ~loading /\ Patient({selected}) /\ pendingSave # NoSave
  /\ pendingSave' = Cancelled(WorkspaceFileNames)
  /\ disk' = [disk EXCEPT ![selected] = shownText]
  /\ UNCHANGED <<selected, shownText, loading, saveChain, saved, fileLoads, wanted, fileSteps>>

\* The recorder rewrites its script; the editor reads it again if it is open.
Recorded ==
  /\ Patient({RecordingFile}) /\ (Hurried \/ pendingSave.file # RecordingFile) /\ Step
  /\ disk' = [disk EXCEPT ![RecordingFile] = Text(RecordingFile, fileSteps')]
  /\ wanted' = [wanted EXCEPT ![RecordingFile] = Text(RecordingFile, fileSteps')]
  /\ fileLoads' = IF selected = RecordingFile
       THEN fileLoads \cup {[file |-> RecordingFile, after |-> 0, at |-> "waits", text |-> Gone]} ELSE fileLoads
  /\ UNCHANGED <<selected, shownText, loading, pendingSave, saveChain, saved>>

WorkspaceNext ==
  \/ \E f \in WorkspaceFileNames : SelectFile(f) \/ CreateFile(f) \/ DeleteFile(f)
  \/ \E load \in fileLoads : LoadAsks(load) \/ LoadRead(load) \/ LoadShown(load)
  \/ TypeText \/ FlushSave \/ SaveClicked \/ SaveLands \/ ResetFile \/ SaveAndRun \/ Recorded

\* The debounce fires, requests are answered.
WorkspaceServed == FlushSave \/ SaveLands
WorkspaceSpec == WorkspaceInit /\ [][WorkspaceNext]_fileVars /\ WF_fileVars(WorkspaceServed)

-----------------------------------------------------------------------------
WorkspaceTypeOK ==
  /\ DOMAIN disk = WorkspaceFileNames /\ selected \in WorkspaceFileNames
  /\ Hurried \/ disk[selected] # Gone
  /\ (pendingSave = NoSave) = (pendingSave.file = NoFile)
  /\ \A load \in fileLoads : load.at \in {"waits", "asked", "read"} /\ load.after <= saved + Len(saveChain)

\* The text of one file is never saved into another, and a deleted file does
\* not come back: neither the debounce nor the chain outlives its file.
FilesKeepTheirOwn == \A f \in WorkspaceFileNames : disk[f].of \in {f, NoFile} /\ (wanted[f] = Gone => disk[f] = Gone)

\* What was typed is in the file in the end, whatever was cancelled on the way.
TypedIsSaved == \A f \in WorkspaceFileNames : <>[](disk[f] = wanted[f])
=============================================================================
