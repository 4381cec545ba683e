------------------------- MODULE SettingsTransaction -------------------------
(***************************************************************************)
(* Saving the project settings as one group of files, with a recovery      *)
(* journal: Publish, Recover and Rollback of                               *)
(* KeireCore/Source/Project/ProjectFileTransaction.cpp under the settings  *)
(* policy, called by Project::Open and by ProjectSettingsDocument.         *)
(*                                                                         *)
(* The editor is one thread of one process (Project::AcquireLock and the   *)
(* InterprocessMutex keep every other editor out), and an action is one    *)
(* file operation that changes something. A loop that only reads several   *)
(* files is one action: changes by others to different files commute, so   *)
(* there is a moment at which all the reads could have been made.          *)
(*                                                                         *)
(* Abstractions:                                                           *)
(*  - the content of a file is an opaque value and its digest is itself;   *)
(*    all contents parse, so a Load function fails only by an I/O error;   *)
(*  - AnchoredFileSystem::WriteFileAtomically happens at once or throws    *)
(*    and changes nothing; a crash in it may leave its temporary file,     *)
(*    which matters only inside the staging directory;                     *)
(*  - the two captures of OpenImpl, which must agree, are one read;        *)
(*  - the staged copies are never read, so only their presence is kept.    *)
(*                                                                         *)
(* A variant with one mistake in it, which no specification uses, stands   *)
(* before some definitions: see PROJECT.json.                              *)
(***************************************************************************)
EXTENDS Naturals

CONSTANTS
    FileCount,       \* MaximumSettingsFiles, the number of settings files (5)
    CleanedPayloads, \* how many payloads RemoveUnpreparedSettingsStaging knows (4)
    Supplied,        \* files whose values OpenImpl is given by its caller (the first two)
    Contents,        \* what a settings file may hold
    Default,         \* what a Load function makes of a missing file
    Absent,          \* no file
    MayFail,         \* file operations may throw
    MayCrash,        \* the process may end at any time
    Outsiders        \* programs that ignore the project lock change settings files

Files == 1..FileCount
Found == Contents \cup {Absent}
Rendering == 1

ASSUME SettingsAssumption ==
    /\ FileCount \in Nat \ {0} /\ CleanedPayloads \in Nat
    /\ Supplied \subseteq Files
    /\ Default \in Contents /\ Absent \notin Contents
    /\ MayFail \in BOOLEAN /\ MayCrash \in BOOLEAN /\ Outsiders \in BOOLEAN

VARIABLES
    disk,      \* the settings files of the project
    directory, \* Library/ProjectSettingsSave/active exists
    journal,   \* active/journal.json; its state is "none" when there is no such file
    staged,    \* the i for which active/i.staged exists
    backup,    \* active/i.backup
    litter,    \* active holds the temporary file of a write that a crash cut off
    pc,        \* the next step of the editor
    task,      \* what it is part of: "open", "retry", "publish" or "tidy"
    at,        \* the file a loop has reached
    baseline,  \* m_FileBaseline
    pending,   \* what the settings of the document are written as
    touched,   \* history: files that others changed since they last matched a baseline
    raced      \* history: file at was changed by others since the editor looked at it

stores == <<directory, staged, backup, litter>>
document == <<baseline, pending>>
vars == <<disk, stores, journal, pc, task, at, document, touched, raced>>

Blank == [i \in Files |-> Absent]
Defaults == [i \in Files |-> Default]
Loaded(c) == IF c = Absent THEN Default ELSE c
NoJournal == [state |-> "none", original |-> Blank, replacement |-> Defaults]

(* HasPending. *)
Prepared == journal.state = "prepared"

(* The files of the staging directory that belong to the first n settings   *)
(* files, in the order in which the cleanups remove them.                   *)
Payloads(n) == {2 * i - 1 : i \in {f \in Files : f <= n /\ backup[f] # Absent}}
                 \cup {2 * i : i \in {f \in staged : f <= n}}

RemovePayload(k) ==
    /\ \A l \in Payloads(FileCount) : k <= l
    /\ backup' = [i \in Files |-> IF k = 2 * i - 1 THEN Absent ELSE backup[i]]
    /\ staged' = {i \in staged : k # 2 * i}

Init ==
    /\ disk \in [Files -> Found]
    /\ directory = FALSE /\ journal = NoJournal /\ staged = {} /\ backup = Blank /\ litter = FALSE
    /\ pc = "closed" /\ task = "none" /\ at = 1
    /\ baseline = Blank /\ pending = Defaults /\ touched = {} /\ raced = FALSE

-----------------------------------------------------------------------------
(* Moving through the code *)

Goto(step) == pc' = step /\ at' = 1 /\ UNCHANGED task
Return == pc' = "idle" /\ task' = "none" /\ at' = 1

(* The loop that goes on from file at with step again, then with step done. *)
NextFileButLast(again, done) ==
    IF at + 1 < FileCount THEN pc' = again /\ at' = at + 1 /\ UNCHANGED task ELSE Goto(done)
NextFile(again, done) ==
    IF at < FileCount THEN pc' = again /\ at' = at + 1 /\ UNCHANGED task ELSE Goto(done)

(* ProjectSettingsDocument::Close, and what the end of the process does. *)
Closed ==
    /\ pc' = "closed" /\ task' = "none" /\ at' = 1
    /\ baseline' = Blank /\ pending' = Defaults

(* Save's assignments after Publish returned. *)
Saved == Return /\ baseline' = pending /\ UNCHANGED pending

(* An exception: opening fails; Publish rolls back once its journal exists, *)
(* even if only in part; its last cleanup is allowed to fail; any other one *)
(* leaves Save, and the document keeps its pending settings.                *)
ThrowSaved ==
    IF task = "open" THEN Closed
    ELSE IF task = "publish" /\ pc \in {"check", "write", "commit"} THEN Goto("preflight") /\ UNCHANGED document
    ELSE Saved
Throw ==
    IF task = "open" THEN Closed
    ELSE IF task = "tidy" THEN Saved
    ELSE IF pc \in {"check", "write", "commit"} THEN Goto("preflight") /\ UNCHANGED document
    ELSE Return /\ UNCHANGED document

-----------------------------------------------------------------------------
(* The document *)

(* Project::Open with exclusive access: Recover comes before any reading.   *)
OpenProject ==
    /\ pc = "closed"
    /\ pc' = "unprepared" /\ task' = "open"
    /\ UNCHANGED <<disk, stores, journal, at, document, touched, raced>>

(* The workspace reads the settings that it hands to OpenImpl; those it     *)
(* fails to read are defaults for the session.                              *)
Supply ==
    /\ pc = "supply"
    /\ \E unread \in SUBSET Supplied :
        /\ unread # {} => MayFail
        /\ pending' = [i \in Files |-> IF i \in Supplied \ unread THEN Loaded(disk[i]) ELSE Default]
    /\ Goto("load")
    /\ UNCHANGED <<disk, stores, journal, baseline, touched, raced>>

(* OpenImpl after RequireRecoveredSettings. *)
Load ==
    /\ pc = "load" /\ ~Prepared
    /\ baseline' = disk
    /\ pending' = [i \in Files |-> IF i \in Supplied THEN pending[i] ELSE Loaded(disk[i])]
    /\ touched' = {}
    /\ Return
    /\ UNCHANGED <<disk, stores, journal, raced>>

(* The user changes a setting. *)
Edit(i, c) ==
    /\ pc = "idle"
    /\ pending' = [pending EXCEPT ![i] = c]
    /\ UNCHANGED <<disk, stores, journal, pc, task, at, baseline, touched, raced>>

AcceptImportedRenderingSettings ==
    /\ pc = "idle" /\ ~Prepared
    /\ disk[Rendering] # Absent
    /\ baseline' = [baseline EXCEPT ![Rendering] = disk[Rendering]]
    /\ pending' = [pending EXCEPT ![Rendering] = disk[Rendering]]
    /\ UNCHANGED <<disk, stores, journal, pc, task, at, touched, raced>>

Close ==
    /\ pc = "idle"
    /\ Closed
    /\ UNCHANGED <<disk, stores, journal, touched, raced>>

(* Save up to HasPending: an interrupted publication is recovered first.    *)
Save ==
    /\ pc = "idle"
    /\ IF Prepared THEN pc' = "unprepared" /\ task' = "retry" ELSE pc' = "compare" /\ task' = "publish"
    /\ UNCHANGED <<disk, stores, journal, at, document, touched, raced>>

(* Save's loop over SettingsNames; then Publish, which refuses to begin     *)
(* over a prepared journal.                                                 *)
Compare ==
    /\ pc = "compare"
    /\ IF disk = baseline /\ ~Prepared THEN Goto("unprepared") /\ UNCHANGED document ELSE Throw
    /\ UNCHANGED <<disk, stores, journal, touched, raced>>

-----------------------------------------------------------------------------
(* RemoveUnpreparedSettingsStaging *)

UnpreparedOrNot == directory
Unprepared == directory /\ journal.state = "none"

AfterUnprepared ==
    Goto(IF task # "publish" /\ Prepared THEN "preflight" ELSE "completed")

NothingUnprepared ==
    /\ pc = "unprepared" /\ ~Unprepared
    /\ AfterUnprepared
    /\ UNCHANGED <<disk, stores, journal, document, touched, raced>>

RemoveStagedPayload ==
    /\ pc = "unprepared" /\ Unprepared
    /\ \E k \in Payloads(CleanedPayloads) : RemovePayload(k)
    /\ UNCHANGED <<disk, directory, litter, journal, pc, task, at, document, touched, raced>>

(* "Unprepared settings staging contains unknown files" *)
RefuseUnknownFiles ==
    /\ pc = "unprepared" /\ Unprepared
    /\ Payloads(CleanedPayloads) = {} /\ (litter \/ Payloads(FileCount) # {})
    /\ Throw
    /\ UNCHANGED <<disk, stores, journal, touched, raced>>

RemoveStaging ==
    /\ pc = "unprepared" /\ Unprepared
    /\ Payloads(FileCount) = {} /\ ~litter
    /\ directory' = FALSE
    /\ AfterUnprepared
    /\ UNCHANGED <<disk, staged, backup, litter, journal, document, touched, raced>>

-----------------------------------------------------------------------------
(* RemoveCompletedSettingsJournals, at the end of Recover and at both ends  *)
(* of Publish *)

IsCompleted == journal.state \in {"rolledBack", "committed"}

AfterCompleted ==
    \/ task = "open" /\ Goto("supply") /\ UNCHANGED document
    \/ task = "retry" /\ pc' = "compare" /\ task' = "publish" /\ at' = 1 /\ UNCHANGED document
    \/ task = "publish" /\ Goto("verify") /\ UNCHANGED document
    \/ task = "tidy" /\ Saved

NothingCompleted ==
    /\ pc = "completed" /\ ~IsCompleted
    /\ AfterCompleted
    /\ UNCHANGED <<disk, stores, journal, touched, raced>>

RemoveCompletedPayload ==
    /\ pc = "completed" /\ IsCompleted
    /\ \E k \in Payloads(FileCount) : RemovePayload(k)
    /\ UNCHANGED <<disk, directory, litter, journal, pc, task, at, document, touched, raced>>

RemoveCompletedJournal ==
    /\ pc = "completed" /\ IsCompleted
    /\ Payloads(FileCount) = {}
    /\ journal' = NoJournal
    /\ Goto("sweep")
    /\ UNCHANGED <<disk, stores, document, touched, raced>>

(* The directory goes too, unless it holds something unexpected. *)
RemoveCompletedDirectory ==
    /\ pc = "sweep"
    /\ directory' = litter
    /\ AfterCompleted
    /\ UNCHANGED <<disk, staged, backup, litter, journal, touched, raced>>

-----------------------------------------------------------------------------
(* Publish *)

(* ExpectedOriginal is what Compare found, that is, the baseline. *)
Verify ==
    /\ pc = "verify"
    /\ IF disk = baseline
       THEN directory' = TRUE /\ touched' = {} /\ Goto("stage") /\ UNCHANGED document
       ELSE Throw /\ UNCHANGED <<directory, touched>>
    /\ UNCHANGED <<disk, staged, backup, litter, journal, raced>>

(* The payloads are written with replaceExisting = false. *)
StagePayload ==
    /\ pc = "stage"
    /\ IF at \in staged
       THEN Throw /\ UNCHANGED staged
       ELSE /\ staged' = staged \cup {at}
            /\ UNCHANGED document
            /\ IF baseline[at] = Absent THEN NextFile("stage", "journal")
                                        ELSE pc' = "backup" /\ UNCHANGED <<task, at>>
    /\ UNCHANGED <<disk, directory, backup, litter, journal, touched, raced>>

BackUp ==
    /\ pc = "backup"
    /\ IF backup[at] # Absent
       THEN Throw /\ UNCHANGED backup
       ELSE /\ backup' = [backup EXCEPT ![at] = baseline[at]]
            /\ NextFile("stage", "journal")
            /\ UNCHANGED document
    /\ UNCHANGED <<disk, directory, staged, litter, journal, touched, raced>>

Prepare ==
    /\ pc = "journal"
    /\ journal' = [state |-> "prepared", original |-> baseline, replacement |-> pending]
    /\ Goto("check")
    /\ UNCHANGED <<disk, stores, document, touched, raced>>

CheckSource ==
    /\ pc = "check"
    /\ IF disk[at] = baseline[at]
       THEN pc' = "write" /\ UNCHANGED <<task, at, document>>
       ELSE Throw
    /\ raced' = FALSE
    /\ UNCHANGED <<disk, stores, journal, touched>>

(* A file that was missing is not replaced if it exists by now. *)
WriteReplacement ==
    /\ pc = "write"
    /\ IF baseline[at] = Absent /\ disk[at] # Absent
       THEN Throw /\ UNCHANGED disk
       ELSE /\ disk' = [disk EXCEPT ![at] = pending[at]]
            /\ NextFile("check", "commit")
            /\ UNCHANGED document
    /\ raced' = FALSE
    /\ UNCHANGED <<stores, journal, touched>>

Commit ==
    /\ pc = "commit"
    /\ journal' = [journal EXCEPT !.state = "committed"]
    /\ pc' = "completed" /\ task' = "tidy" /\ at' = 1
    /\ UNCHANGED <<disk, stores, document, touched, raced>>

-----------------------------------------------------------------------------
(* Rollback *)

(* ValidateRecoveryDestination. *)
Recoverable(i) ==
    IF disk[i] = Absent THEN journal.original[i] = Absent
                        ELSE disk[i] \in {journal.original[i], journal.replacement[i]}

HasBackup(i) == journal.original[i] # Absent => backup[i] = journal.original[i]

Preflight ==
    /\ pc = "preflight"
    /\ IF \A i \in Files : HasBackup(i) /\ Recoverable(i)
       THEN pc' = "recheck" /\ at' = FileCount /\ UNCHANGED <<task, document>>
       ELSE Throw
    /\ UNCHANGED <<disk, stores, journal, touched, raced>>

RecheckNothing ==
    /\ pc = "recheck"
    /\ pc' = "restore" /\ UNCHANGED <<task, at, document>>
    /\ raced' = FALSE
    /\ UNCHANGED <<disk, stores, journal, touched>>
Recheck ==
    /\ pc = "recheck"
    /\ IF Recoverable(at) THEN pc' = "restore" /\ UNCHANGED <<task, at, document>> ELSE Throw
    /\ raced' = FALSE
    /\ UNCHANGED <<disk, stores, journal, touched>>

RestoreFromSecond ==
    /\ pc = "restore"
    /\ disk' = [disk EXCEPT ![at] = IF journal.original[at] = Absent THEN Absent ELSE backup[at]]
    /\ IF at > 2 THEN pc' = "recheck" /\ at' = at - 1 /\ UNCHANGED task ELSE Goto("mark")
    /\ raced' = FALSE
    /\ UNCHANGED <<stores, journal, document, touched>>
Restore ==
    /\ pc = "restore"
    /\ disk' = [disk EXCEPT ![at] = IF journal.original[at] = Absent THEN Absent ELSE backup[at]]
    /\ IF at > 1 THEN pc' = "recheck" /\ at' = at - 1 /\ UNCHANGED task ELSE Goto("mark")
    /\ raced' = FALSE
    /\ UNCHANGED <<stores, journal, document, touched>>

(* The journal is marked; inside Publish the exception goes on. *)
MarkRolledBack ==
    /\ pc = "mark"
    /\ journal' = [journal EXCEPT !.state = "rolledBack"]
    /\ IF task = "publish" THEN Return ELSE Goto("completed")
    /\ UNCHANGED <<disk, stores, document, touched, raced>>

-----------------------------------------------------------------------------
(* What may happen besides *)

(* Any file operation may throw, before it changes anything. *)
Fault ==
    /\ MayFail
    /\ pc \notin {"closed", "idle", "supply"}
    /\ Throw
    /\ raced' = FALSE
    /\ UNCHANGED <<disk, stores, journal, touched>>

(* The process ends; a write to the staging directory leaves a temporary.   *)
Crash ==
    /\ MayCrash /\ pc # "closed"
    /\ Closed
    /\ \/ UNCHANGED litter
       \/ pc \in {"stage", "backup", "journal", "commit", "mark"} /\ litter' = TRUE
    /\ raced' = FALSE
    /\ UNCHANGED <<disk, directory, staged, backup, journal, touched>>

Outsider(i, c) ==
    /\ Outsiders
    /\ c # disk[i]
    /\ disk' = [disk EXCEPT ![i] = c]
    /\ touched' = touched \cup {i}
    /\ raced' = (raced \/ (i = at /\ pc \in {"write", "restore"}))
    /\ UNCHANGED <<stores, journal, pc, task, at, document>>

Document ==
    \/ OpenProject \/ Supply \/ Load
    \/ \E i \in Files, c \in Contents : Edit(i, c)
    \/ AcceptImportedRenderingSettings \/ Close \/ Save \/ Compare

Cleanup ==
    \/ NothingUnprepared \/ RemoveStagedPayload \/ RefuseUnknownFiles \/ RemoveStaging
    \/ NothingCompleted \/ RemoveCompletedPayload \/ RemoveCompletedJournal
    \/ RemoveCompletedDirectory

Publish ==
    \/ Verify \/ StagePayload \/ BackUp \/ Prepare
    \/ CheckSource \/ WriteReplacement \/ Commit

Rollback == Preflight \/ Recheck \/ Restore \/ MarkRolledBack

Next ==
    \/ Document \/ Cleanup \/ Publish \/ Rollback
    \/ Fault \/ Crash
    \/ \E i \in Files, c \in Found : Outsider(i, c)

Spec == Init /\ [][Next]_vars

=============================================================================
