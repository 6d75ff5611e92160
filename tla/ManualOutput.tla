----------------------------- MODULE ManualOutput -----------------------------
(***************************************************************************)
(* Manual signing from the main window: signManualFile of ui/app.js, and   *)
(* the commands that sign the batch and save what it gave, one file under  *)
(* a free name or several in a ZIP.                                        *)
(*                                                                         *)
(* The button is disabled only after the dialog for the folder has closed, *)
(* so two runs may overlap.  A name is tested and used in separate steps.  *)
(***************************************************************************)
EXTENDS PdfSignature, FiniteSets, Functions

CONSTANTS
    Runs,       \* clicks on the button
    Batches,    \* the files a person selects: the JSON ones and the PDF ones
    ZipName,    \* firmados_<date and time>.zip: runs of the same second share it
    MaxIndex,   \* bound: the counter of unique_output_path
    MaxOthers,  \* bound: files other programs create in the folder,
    OtherNames, \* and the names they use
    Absent      \* no file of that name

ASSUME BoundsAssumption == MaxIndex \in Nat /\ MaxOthers \in Nat

\* What a file may hold: nothing else is a file's content.
Whole(r) == [run |-> r, whole |-> TRUE]
Part(r) == [run |-> r, whole |-> FALSE]
Other == [run |-> Absent, whole |-> TRUE]

ASSUME AbsentAssumption ==
    Absent \notin Runs /\ Absent # Other /\ \A r \in Runs : Absent \notin {Whole(r), Part(r)}

Files == UNION {Range(b.jws) \cup Range(b.pdf) : b \in Batches}

\* Some file can be signed, or the button stays disabled.
ASSUME BatchesAssumption ==
    /\ Batches \subseteq [jws : Seq(Files), pdf : Seq(Files)]
    /\ \A b \in Batches : b.jws # <<>> \/ b.pdf # <<>>
    /\ \A f \in Files : f.counters \in Seq(Nat) /\ f.source \in Seq(Range(f.source))

NoFiles == [jws |-> <<>>, pdf |-> <<>>]
Size(b) == Len(b.jws) + Len(b.pdf)

\* A file name: the counters in brackets are part of the stem.
OutputName(f, format) == [stem |-> f.stem, counters |-> f.counters, format |-> format]

Numbered(name, i) ==
    IF i = 0 THEN name ELSE [name EXCEPT !.counters = Append(@, i)]

Outputs == UNION {{OutputName(f, "jws") : f \in Range(b.jws)}
                      \cup {OutputName(f, "pdf") : f \in Range(b.pdf)} : b \in Batches}
Names == {Numbered(n, i) : n \in Outputs \cup {ZipName}, i \in 0..MaxIndex}

ASSUME OtherNamesAssumption == OtherNames \subseteq Names

VARIABLES
    directory,  \* what each name of the chosen folder holds
    others,     \* files created by other programs so far
    manualSigningInProgress,
    manualResults,  \* the runs with a result shown as signed
    pc,         \* where each run is
    batch,      \* the files it signs
    documents,  \* what sign_manual_batch returned: names and contents
    index,      \* the counter of the name it tests or uses
    entries,    \* the names of the ZIP's entries so far
    told,       \* what the window says in the end
    counted,    \* the runs whose results it counts as signed files there
    raced,      \* history: a name was taken between its test and its use
    mixed       \* history: a run began while another one worked, or the results
                \* of one were cleared before its end

uiVars == <<manualSigningInProgress, manualResults>>
histories == <<raced, mixed>>
vars == <<directory, others, uiVars, pc, batch, documents, index, entries,
          told, counted, histories>>

Saving == {"testing", "creating", "writing"}
Working == {"signing"} \cup Saving

TypeOK ==
    /\ directory \in [Names -> {Absent, Other} \cup {Whole(r) : r \in Runs}
                                   \cup {Part(r) : r \in Runs}]
    /\ others \in 0..MaxOthers
    /\ manualSigningInProgress \in BOOLEAN
    /\ manualResults \subseteq Runs
    /\ pc \in [Runs -> {"idle", "choosing", "ended"} \cup Working]
    /\ batch \in [Runs -> Batches \cup {NoFiles}]
    /\ \A r \in Runs : Len(documents[r]) \in {0, Size(batch[r])}
    /\ index \in [Runs -> 0..MaxIndex]
    /\ \A r \in Runs : Len(entries[r]) \in 0..Len(documents[r])
    /\ told \in [Runs -> {"nothing", "cancelled", "saved", "failed"}]
    /\ counted \in [Runs -> SUBSET Runs]
    /\ raced \in BOOLEAN
    /\ mixed \in BOOLEAN

Init ==
    /\ directory = [n \in Names |-> Absent]
    /\ others = 0
    /\ manualSigningInProgress = FALSE
    /\ manualResults = {}
    /\ pc = [r \in Runs |-> "idle"]
    /\ batch = [r \in Runs |-> NoFiles]
    /\ documents = [r \in Runs |-> <<>>]
    /\ index = [r \in Runs |-> 0]
    /\ entries = [r \in Runs |-> <<>>]
    /\ told = [r \in Runs |-> "nothing"]
    /\ counted = [r \in Runs |-> {}]
    /\ raced = FALSE
    /\ mixed = FALSE

Goto(r, next) == pc' = [pc EXCEPT ![r] = next]

\* The end of signManualFile, with the message it leaves; an error replaces all
\* results by failed ones.
End(r, message) ==
    /\ Goto(r, "ended")
    /\ told' = [told EXCEPT ![r] = message]
    /\ manualSigningInProgress' = FALSE
    /\ manualResults' = IF message = "failed" THEN {} ELSE manualResults

-----------------------------------------------------------------------------
(* The window. *)

ClickSign(r) ==
    /\ pc[r] = "idle"
    /\ ~manualSigningInProgress
    /\ manualResults = {}
    /\ Goto(r, "choosing")
    /\ UNCHANGED <<directory, others, uiVars, batch, documents, index, entries,
                   told, counted, histories>>

\* select_manual_output_directory: the files are those selected when it
\* returns.  If none is left by then, sign_manual_batch refuses.
DirectoryChosen(r) ==
    /\ pc[r] = "choosing"
    /\ \/ /\ Goto(r, "signing")
          /\ manualSigningInProgress' = TRUE
          /\ manualResults' = {}
          /\ mixed' = (mixed \/ \E q \in Runs \ {r} : pc[q] \in Working)
          /\ \E b \in Batches : batch' = [batch EXCEPT ![r] = b]
          /\ UNCHANGED told
       \/ /\ Goto(r, "ended")
          /\ told' = [told EXCEPT ![r] = "cancelled"]
          /\ UNCHANGED <<uiVars, batch, mixed>>
    /\ UNCHANGED <<directory, others, documents, index, entries, counted, raced>>

\* selectManualFile, removeManualFile and clearManualFiles: the results go with
\* the old selection.  "Quitar" stays enabled during a run, and the dialog of
\* the first may have been open since before it.
ChangeManualFiles ==
    /\ manualResults # {}
    /\ manualResults' = {}
    /\ mixed' = (mixed \/ \E r \in Runs : pc[r] \in Working)
    /\ UNCHANGED <<directory, others, manualSigningInProgress, pc, batch,
                   documents, index, entries, told, counted, raced>>

-----------------------------------------------------------------------------
(* sign_manual_batch: all or nothing, JSON before PDF. *)

SignedFile(f, format) ==
    [name |-> OutputName(f, format),
     source |-> f.source,
     data |-> IF format = "pdf" THEN SignedPdf(f.source) ELSE <<>>]

SignedFiles(files, format) == [i \in DOMAIN files |-> SignedFile(files[i], format)]

\* Wrong variant: PDFs are signed when there is no JSON.
SignedBatchOfOneFormat(b) ==
    IF b.jws # <<>> THEN SignedFiles(b.jws, "jws") ELSE SignedFiles(b.pdf, "pdf")

SignedBatch(b) == SignedFiles(b.jws, "jws") \o SignedFiles(b.pdf, "pdf")

\* An unreadable or unsupported file, an invalid PDF or the token stops the
\* batch, and the run with it.
SignManualBatch(r) ==
    /\ pc[r] = "signing"
    /\ \/ /\ documents' = [documents EXCEPT ![r] = SignedBatch(batch[r])]
          /\ manualResults' = manualResults \cup {r}
          /\ Goto(r, "testing")
          /\ UNCHANGED <<told, manualSigningInProgress>>
       \/ End(r, "failed") /\ UNCHANGED documents
    /\ UNCHANGED <<directory, others, batch, index, entries, counted, histories>>

-----------------------------------------------------------------------------
(* save_manual_output_file and save_manual_output_zip. *)

IsZip(r) == Len(documents[r]) > 1
Path(r) == Numbered(IF IsZip(r) THEN ZipName ELSE documents[r][1].name, index[r])

\* Somebody else relies on this name's being free.
Awaited(n, r) == \E q \in Runs \ {r} : pc[q] = "creating" /\ Path(q) = n

\* Wrong variant: only the suggested name is tested.
UniqueOutputPathOnce(r) ==
    /\ pc[r] = "testing"
    /\ index' = [index EXCEPT ![r] = IF directory[Path(r)] = Absent THEN 0 ELSE 1]
    /\ Goto(r, "creating")
    /\ UNCHANGED <<directory, others, uiVars, batch, documents, entries, told,
                   counted, histories>>

\* unique_output_path, one exists() at a time.
UniqueOutputPath(r) ==
    /\ pc[r] = "testing"
    /\ \/ /\ directory[Path(r)] = Absent
          /\ Goto(r, "creating")
          /\ UNCHANGED index
       \/ /\ directory[Path(r)] # Absent
          /\ index[r] < MaxIndex
          /\ index' = [index EXCEPT ![r] = @ + 1]
          /\ UNCHANGED pc
    /\ UNCHANGED <<directory, others, uiVars, batch, documents, entries, told,
                   counted, histories>>

\* fs::write or File::create: an existing file is truncated.
Create(r) ==
    /\ pc[r] = "creating"
    /\ directory' = [directory EXCEPT ![Path(r)] = Part(r)]
    /\ raced' = (raced \/ Awaited(Path(r), r))
    /\ Goto(r, "writing")
    /\ UNCHANGED <<others, uiVars, batch, documents, index, entries, told, counted, mixed>>

\* unique_zip_entry_name: the first counter that gives a new name.
UniqueZipEntryName(used, name) ==
    LET New(i) == \A k \in DOMAIN used : used[k] # Numbered(name, i) IN
    Numbered(name, CHOOSE i \in 0..Len(used) : New(i) /\ \A j \in 0..(i - 1) : ~New(j))

AddEntry(r) ==
    LET next == Len(entries[r]) + 1 IN
    /\ pc[r] = "writing"
    /\ IsZip(r)
    /\ next <= Len(documents[r])
    /\ entries' = [entries EXCEPT
           ![r] = Append(@, UniqueZipEntryName(@, documents[r][next].name))]
    /\ UNCHANGED <<directory, others, uiVars, pc, batch, documents, index, told,
                   counted, histories>>

\* Wrong variant: an error after the last byte, when the file is closed.
FinishThenFail(r) ==
    /\ pc[r] = "writing"
    /\ directory' = [directory EXCEPT ![Path(r)] = Whole(r)]
    /\ counted' = [counted EXCEPT ![r] = manualResults]
    /\ \E message \in {"saved", "failed"} : End(r, message)
    /\ UNCHANGED <<others, batch, documents, index, entries, histories>>

\* The last bytes are written; if another run has the file open too, the two
\* outputs are mixed in it.  The message counts all results on display.
Finish(r) ==
    /\ pc[r] = "writing"
    /\ IsZip(r) => Len(entries[r]) = Len(documents[r])
    /\ directory' = [directory EXCEPT
           ![Path(r)] = IF @ = Part(r) THEN Whole(r) ELSE Part(r)]
    /\ counted' = [counted EXCEPT ![r] = manualResults]
    /\ End(r, "saved")
    /\ UNCHANGED <<others, batch, documents, index, entries, histories>>

\* The folder is gone, the disk is full: what was written stays.
SaveFails(r) ==
    /\ pc[r] \in Saving
    /\ End(r, "failed")
    /\ UNCHANGED <<directory, others, batch, documents, index, entries, counted, histories>>

-----------------------------------------------------------------------------

\* External: another program creates a file in the folder.
OtherCreates(n) ==
    /\ others < MaxOthers
    /\ others' = others + 1
    /\ directory[n] = Absent
    /\ directory' = [directory EXCEPT ![n] = Other]
    /\ raced' = (raced \/ Awaited(n, Absent))
    /\ UNCHANGED <<uiVars, pc, batch, documents, index, entries, told, counted, mixed>>

Next ==
    \/ \E r \in Runs :
           \/ ClickSign(r)
           \/ DirectoryChosen(r)
           \/ SignManualBatch(r)
           \/ UniqueOutputPath(r)
           \/ Create(r)
           \/ AddEntry(r)
           \/ Finish(r)
           \/ SaveFails(r)
    \/ ChangeManualFiles
    \/ \E n \in OtherNames : OtherCreates(n)

Spec == Init /\ [][Next]_vars

-----------------------------------------------------------------------------
(* Properties. *)

\* README.md:551: a counter is added when the name is taken.  No complete file
\* of the folder, of an earlier run or of another program, is ever changed by a
\* save, unless somebody took the name between its test and its use
\* (commands.rs:1823 and 1213).
NothingIsLost ==
    [][~raced' => \A n \in Names :
           directory[n] = Other \/ (directory[n] # Absent /\ directory[n].whole)
               => directory'[n] = directory[n]]_vars

\* What the window says in the end is so.  "Guardado: <path>": the path holds
\* all that this run signed, and a ZIP one entry of its own for each file; the
\* number of files is that of this run, unless another one began meanwhile or
\* the selection was changed, since they share the results it is taken from.
\* "No se guardaron resultados porque el lote no se completo": no complete
\* output of the run is in the folder; a broken one may be.
ReportIsTrue ==
    \A r \in Runs :
        /\ told[r] = "saved" =>
            /\ directory[Path(r)] = Whole(r) \/ raced
            /\ IsZip(r) => Cardinality(Range(entries[r]))
                               = Size(batch[r])
            /\ counted[r] = {r} \/ mixed
        /\ told[r] = "failed" => \A n \in Names : directory[n] # Whole(r)

\* Every signed PDF verifies: its byte range covers the whole file but its own
\* Contents, and the digest is that of the file as saved, although the ranges
\* and the CMS are written into it after it was laid out, and whatever
\* signatures the source already had.
SignedPdfVerifies ==
    \A r \in Runs : \A i \in DOMAIN documents[r] :
        LET signed == documents[r][i] IN
        signed.name.format = "pdf" /\ HasNoPlaceholder(signed.source) =>
            Verifies(signed.data, Len(signed.source) + 2)
=============================================================================
