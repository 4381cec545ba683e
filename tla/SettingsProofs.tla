---------------------------- MODULE SettingsProofs ----------------------------
(***************************************************************************)
(* Proofs about the saving of project settings, for any number of files    *)
(* and any contents, over errors, crashes and changes by others.           *)
(***************************************************************************)
EXTENDS SettingsProperties, TLAPS

-----------------------------------------------------------------------------
(* The inductive invariant *)

(* Which steps belong to which task. *)
Places ==
    /\ task = "none" <=> pc \in {"closed", "idle"}
    /\ pc \in {"supply", "load"} => task = "open"
    /\ pc \in {"compare", "verify", "stage", "backup", "journal", "check", "write", "commit"} =>
           task = "publish"
    /\ pc \in {"preflight", "recheck", "restore", "mark"} => task \in {"open", "retry", "publish"}
    /\ task = "tidy" => pc \in {"completed", "sweep"}

(* Where a prepared journal may be met. *)
JournalInStep ==
    /\ pc \in {"check", "write", "commit", "preflight", "recheck", "restore", "mark"} => Prepared
    /\ pc \in {"completed", "compare"} => ~Prepared
    /\ pc = "unprepared" /\ task = "publish" => ~Prepared
    /\ pc \in {"sweep", "supply", "load", "verify", "stage", "backup", "journal"} =>
           journal.state = "none"

Opened == pc # "closed" /\ task # "open"

(* Where only the editor has been, the files are as the document believes:  *)
(* as it found them, or, under a journal, as that journal remembers them.   *)
Agreement ==
    /\ Opened /\ Prepared => journal.original = baseline
    /\ Opened /\ ~Prepared /\ task # "tidy" => \A i \in Files \ touched : disk[i] = baseline[i]
    /\ task = "tidy" => \A i \in Files \ touched : disk[i] = pending[i]
    /\ pc \in {"check", "write", "commit"} => journal.replacement = pending

(* How far the staging has come. *)
BackedUp(i) == baseline[i] # Absent => backup[i] = baseline[i]
Staging ==
    /\ pc \in {"stage", "backup"} => \A i \in 1..(at - 1) : BackedUp(i)
    /\ pc = "journal" => \A i \in Files : BackedUp(i)

(* How far the publication or the rollback has come. *)
Published(i) == disk[i] = journal.replacement[i]
Restored(i) == disk[i] = journal.original[i]
Progress ==
    /\ pc \in {"check", "write"} =>
           \A i \in Files \ touched : IF i < at THEN Published(i) ELSE Restored(i)
    /\ pc = "commit" => \A i \in Files \ touched : Published(i)
    /\ pc \in {"recheck", "restore"} => \A i \in Files \ touched : i > at => Restored(i)
    /\ pc = "mark" => \A i \in Files \ touched : Restored(i)

(* What the editor saw when it last looked at a file is still there, unless *)
(* somebody else was faster.                                                *)
Watched ==
    /\ pc = "write" /\ ~raced => Restored(at)
    /\ pc = "restore" /\ ~raced => Recoverable(at)

Understanding ==
    /\ Places /\ JournalInStep /\ Agreement /\ Staging /\ Progress /\ Watched
    /\ BackupsKept /\ AllOrNothing

TransactionInv == TypeOK /\ Understanding

-----------------------------------------------------------------------------
(* Every variable keeps to its values *)

(* The parts of TypeOK: the editor's place in the code, its document, what   *)
(* is on the disk, and the flags.                                            *)
ControlOK == pc \in Steps /\ task \in {"none", "open", "retry", "publish", "tidy"} /\ at \in Files
DocumentOK == baseline \in [Files -> Found] /\ pending \in [Files -> Contents]
DiskOK == /\ disk \in [Files -> Found] /\ touched \subseteq Files
          /\ backup \in [Files -> Found] /\ staged \subseteq Files
          /\ journal \in Journals
FlagsOK == directory \in BOOLEAN /\ litter \in BOOLEAN /\ raced \in BOOLEAN

(* TypeOK is the conjunction of its parts.                                   *)
LEMMA TypeParts ==
    /\ TypeOK <=> ControlOK /\ DocumentOK /\ DiskOK /\ FlagsOK
    /\ TypeOK' <=> ControlOK' /\ DocumentOK' /\ DiskOK' /\ FlagsOK'
  BY DEF TypeOK, ControlOK, DocumentOK, DiskOK, FlagsOK

(* An exception, wherever it leads, keeps control and document in order.     *)
LEMMA ThrowTyped ==
    ASSUME TypeOK, Throw
    PROVE  ControlOK' /\ DocumentOK'
<1>1. ControlOK'
  BY SettingsAssumption DEF TypeOK, ControlOK, Throw, Closed, Saved, Return, Goto, Steps, Files
<1>2. baseline' \in [Files -> Found] /\ pending' \in [Files -> Contents]
  BY SettingsAssumption DEF TypeOK, Throw, Closed, Saved, document, Found, Blank, Defaults
<1> QED BY <1>1, <1>2 DEF TypeOK, DocumentOK

(* Removing a payload leaves backups and staged copies of settings files.    *)
LEMMA RemovePayloadTyped ==
    ASSUME TypeOK, NEW k, RemovePayload(k)
    PROVE  backup' \in [Files -> Found] /\ staged' \subseteq Files
  BY DEF TypeOK, RemovePayload, Found

(* The journal that replaces one in another state is a journal.              *)
LEMMA MarkedJournal ==
    ASSUME NEW j \in Journals, NEW s \in {"committed", "rolledBack"}
    PROVE  [j EXCEPT !.state = s] \in Journals
  BY DEF Journals

(* What the end of a cleanup leads to.                                       *)
LEMMA AfterCompletedTyped ==
    ASSUME TypeOK, AfterCompleted
    PROVE  ControlOK' /\ DocumentOK'
<1>1. ControlOK'
  BY SettingsAssumption DEF ControlOK, AfterCompleted, Saved, Return, Goto, Steps, Files
<1>2. baseline' \in [Files -> Found] /\ pending' \in [Files -> Contents]
  BY SettingsAssumption DEF TypeOK, AfterCompleted, Saved, document, Found
<1> QED BY <1>1, <1>2 DEF TypeOK, DocumentOK

(* Control and document over the steps of Document.                          *)
LEMMA DocumentControlTyped == TypeOK /\ Document => ControlOK' /\ DocumentOK'
<1> SUFFICES ASSUME TypeOK, Document PROVE ControlOK' /\ DocumentOK'
  OBVIOUS
<1>1. CASE OpenProject
  BY SettingsAssumption, <1>1 DEF TypeOK, ControlOK, DocumentOK, Steps, document, OpenProject
<1>2. CASE Supply
  BY SettingsAssumption, <1>2 DEF TypeOK, ControlOK, DocumentOK, Steps, Files, Found, Loaded, Goto,
     Supply
<1>3. CASE Load
  BY SettingsAssumption, <1>3 DEF TypeOK, ControlOK, DocumentOK, Steps, Files, Found, Loaded, Return,
     Load
<1>4. ASSUME NEW i \in Files, NEW c \in Contents, Edit(i, c) PROVE ControlOK' /\ DocumentOK'
  BY SettingsAssumption, <1>4 DEF TypeOK, ControlOK, DocumentOK, Edit
<1>5. CASE AcceptImportedRenderingSettings
  BY SettingsAssumption, <1>5 DEF TypeOK, ControlOK, DocumentOK, Found, AcceptImportedRenderingSettings
<1>6. CASE Close
  BY SettingsAssumption, <1>6 DEF ControlOK, DocumentOK, Steps, Files, Found, Blank, Defaults, Closed,
     Close
<1>7. CASE Save
  BY SettingsAssumption, <1>7 DEF TypeOK, ControlOK, DocumentOK, Steps, document, Save
<1>8. CASE Compare
  <2>1. ControlOK'
    BY SettingsAssumption, ThrowTyped, <1>8 DEF TypeOK, ControlOK, Steps, Files, Goto, Compare
  <2>2. DocumentOK'
    BY SettingsAssumption, ThrowTyped, <1>8 DEF TypeOK, DocumentOK, document, Compare
  <2> QED BY <2>1, <2>2
<1> QED BY <1>1, <1>2, <1>3, <1>4, <1>5, <1>6, <1>7, <1>8 DEF Document

(* The files over the steps of Document.                                     *)
LEMMA DocumentDiskTyped == TypeOK /\ Document => DiskOK'
<1> SUFFICES ASSUME TypeOK, Document PROVE DiskOK'
  OBVIOUS
<1>1. CASE OpenProject
  BY SettingsAssumption, <1>1 DEF TypeOK, DiskOK, stores, OpenProject
<1>2. CASE Supply
  BY SettingsAssumption, <1>2 DEF TypeOK, DiskOK, stores, Supply
<1>3. CASE Load
  BY SettingsAssumption, <1>3 DEF TypeOK, DiskOK, stores, Load
<1>4. ASSUME NEW i \in Files, NEW c \in Contents, Edit(i, c) PROVE DiskOK'
  BY SettingsAssumption, <1>4 DEF TypeOK, DiskOK, stores, Edit
<1>5. CASE AcceptImportedRenderingSettings
  BY SettingsAssumption, <1>5 DEF TypeOK, DiskOK, stores, AcceptImportedRenderingSettings
<1>6. CASE Close
  BY SettingsAssumption, <1>6 DEF TypeOK, DiskOK, stores, Close
<1>7. CASE Save
  BY SettingsAssumption, <1>7 DEF TypeOK, DiskOK, stores, Save
<1>8. CASE Compare
  BY SettingsAssumption, <1>8 DEF TypeOK, DiskOK, stores, Compare
<1> QED BY <1>1, <1>2, <1>3, <1>4, <1>5, <1>6, <1>7, <1>8 DEF Document

(* Control and document over the steps of Cleanup.                           *)
LEMMA CleanupControlTyped == TypeOK /\ Cleanup => ControlOK' /\ DocumentOK'
<1> SUFFICES ASSUME TypeOK, Cleanup PROVE ControlOK' /\ DocumentOK'
  OBVIOUS
<1>1. CASE NothingUnprepared
  BY SettingsAssumption, <1>1 DEF TypeOK, ControlOK, DocumentOK, Steps, Files, Goto, AfterUnprepared,
     document, NothingUnprepared
<1>2. CASE RemoveStagedPayload
  BY SettingsAssumption, <1>2 DEF TypeOK, ControlOK, DocumentOK, document, RemoveStagedPayload
<1>3. CASE RefuseUnknownFiles
  BY SettingsAssumption, ThrowTyped, <1>3 DEF RefuseUnknownFiles
<1>4. CASE RemoveStaging
  BY SettingsAssumption, <1>4 DEF TypeOK, ControlOK, DocumentOK, Steps, Files, Goto, AfterUnprepared,
     document, RemoveStaging
<1>5. CASE NothingCompleted
  BY SettingsAssumption, AfterCompletedTyped, <1>5 DEF NothingCompleted
<1>6. CASE RemoveCompletedPayload
  BY SettingsAssumption, <1>6 DEF TypeOK, ControlOK, DocumentOK, document, RemoveCompletedPayload
<1>7. CASE RemoveCompletedJournal
  BY SettingsAssumption, <1>7 DEF TypeOK, ControlOK, DocumentOK, Steps, Files, Goto, document,
     RemoveCompletedJournal
<1>8. CASE RemoveCompletedDirectory
  BY SettingsAssumption, AfterCompletedTyped, <1>8 DEF RemoveCompletedDirectory
<1> QED BY <1>1, <1>2, <1>3, <1>4, <1>5, <1>6, <1>7, <1>8 DEF Cleanup

(* The files over the steps of Cleanup.                                      *)
LEMMA CleanupDiskTyped == TypeOK /\ Cleanup => DiskOK'
<1> SUFFICES ASSUME TypeOK, Cleanup PROVE DiskOK'
  OBVIOUS
<1>1. CASE NothingUnprepared
  BY SettingsAssumption, <1>1 DEF TypeOK, DiskOK, stores, NothingUnprepared
<1>2. CASE RemoveStagedPayload
  BY SettingsAssumption, RemovePayloadTyped, <1>2 DEF TypeOK, DiskOK, RemoveStagedPayload
<1>3. CASE RefuseUnknownFiles
  BY SettingsAssumption, <1>3 DEF TypeOK, DiskOK, stores, RefuseUnknownFiles
<1>4. CASE RemoveStaging
  BY SettingsAssumption, <1>4 DEF TypeOK, DiskOK, RemoveStaging
<1>5. CASE NothingCompleted
  BY SettingsAssumption, <1>5 DEF TypeOK, DiskOK, stores, NothingCompleted
<1>6. CASE RemoveCompletedPayload
  BY SettingsAssumption, RemovePayloadTyped, <1>6 DEF TypeOK, DiskOK, RemoveCompletedPayload
<1>7. CASE RemoveCompletedJournal
  BY SettingsAssumption, <1>7 DEF TypeOK, DiskOK, Found, NoJournal, Blank, Defaults, Journals, stores,
     RemoveCompletedJournal
<1>8. CASE RemoveCompletedDirectory
  BY SettingsAssumption, <1>8 DEF TypeOK, DiskOK, RemoveCompletedDirectory
<1> QED BY <1>1, <1>2, <1>3, <1>4, <1>5, <1>6, <1>7, <1>8 DEF Cleanup

(* Control and document over the steps of Publish.                           *)
LEMMA PublishControlTyped == TypeOK /\ Publish => ControlOK' /\ DocumentOK'
<1> SUFFICES ASSUME TypeOK, Publish PROVE ControlOK' /\ DocumentOK'
  OBVIOUS
<1>1. CASE Verify
  <2>1. ControlOK'
    BY SettingsAssumption, ThrowTyped, <1>1 DEF TypeOK, ControlOK, Steps, Files, Goto, Verify
  <2>2. DocumentOK'
    BY SettingsAssumption, ThrowTyped, <1>1 DEF TypeOK, DocumentOK, document, Verify
  <2> QED BY <2>1, <2>2
<1>2. CASE StagePayload
  <2>1. ControlOK'
    BY SettingsAssumption, ThrowTyped, <1>2 DEF TypeOK, ControlOK, Steps, Files, Goto, NextFile,
       StagePayload
  <2>2. DocumentOK'
    BY SettingsAssumption, ThrowTyped, <1>2 DEF TypeOK, DocumentOK, document, StagePayload
  <2> QED BY <2>1, <2>2
<1>3. CASE BackUp
  <2>1. ControlOK'
    BY SettingsAssumption, ThrowTyped, <1>3 DEF TypeOK, ControlOK, Steps, Files, Goto, NextFile, BackUp
  <2>2. DocumentOK'
    BY SettingsAssumption, ThrowTyped, <1>3 DEF TypeOK, DocumentOK, document, BackUp
  <2> QED BY <2>1, <2>2
<1>4. CASE Prepare
  BY SettingsAssumption, <1>4 DEF TypeOK, ControlOK, DocumentOK, Steps, Files, Goto, document, Prepare
<1>5. CASE CheckSource
  BY SettingsAssumption, ThrowTyped, <1>5 DEF TypeOK, ControlOK, DocumentOK, Steps, document, CheckSource
<1>6. CASE WriteReplacement
  <2>1. ControlOK'
    BY SettingsAssumption, ThrowTyped, <1>6 DEF TypeOK, ControlOK, Steps, Files, Goto, NextFile,
       WriteReplacement
  <2>2. DocumentOK'
    BY SettingsAssumption, ThrowTyped, <1>6 DEF TypeOK, DocumentOK, document, WriteReplacement
  <2> QED BY <2>1, <2>2
<1>7. CASE Commit
  BY SettingsAssumption, <1>7 DEF TypeOK, ControlOK, DocumentOK, Steps, Files, document, Commit
<1> QED BY <1>1, <1>2, <1>3, <1>4, <1>5, <1>6, <1>7 DEF Publish

(* The files over the steps of Publish.                                      *)
LEMMA PublishDiskTyped == TypeOK /\ Publish => DiskOK'
<1> SUFFICES ASSUME TypeOK, Publish PROVE DiskOK'
  OBVIOUS
<1>1. CASE Verify
  BY SettingsAssumption, <1>1 DEF TypeOK, DiskOK, Verify
<1>2. CASE StagePayload
  BY SettingsAssumption, <1>2 DEF TypeOK, DiskOK, StagePayload
<1>3. CASE BackUp
  BY SettingsAssumption, <1>3 DEF TypeOK, DiskOK, BackUp
<1>4. CASE Prepare
  BY SettingsAssumption, <1>4 DEF TypeOK, DiskOK, Journals, stores, Prepare
<1>5. CASE CheckSource
  BY SettingsAssumption, <1>5 DEF TypeOK, DiskOK, stores, CheckSource
<1>6. CASE WriteReplacement
  BY SettingsAssumption, <1>6 DEF TypeOK, DiskOK, Found, stores, WriteReplacement
<1>7. CASE Commit
  BY SettingsAssumption, MarkedJournal, <1>7 DEF TypeOK, DiskOK, stores, Commit
<1> QED BY <1>1, <1>2, <1>3, <1>4, <1>5, <1>6, <1>7 DEF Publish

(* Control and document over the steps of Rollback.                          *)
LEMMA RollbackControlTyped == TypeOK /\ Rollback => ControlOK' /\ DocumentOK'
<1> SUFFICES ASSUME TypeOK, Rollback PROVE ControlOK' /\ DocumentOK'
  OBVIOUS
<1>1. CASE Preflight
  <2>1. ControlOK'
    BY SettingsAssumption, ThrowTyped, <1>1 DEF TypeOK, ControlOK, Steps, Files, Preflight
  <2>2. DocumentOK'
    BY SettingsAssumption, ThrowTyped, <1>1 DEF TypeOK, DocumentOK, document, Preflight
  <2> QED BY <2>1, <2>2
<1>2. CASE Recheck
  BY SettingsAssumption, ThrowTyped, <1>2 DEF TypeOK, ControlOK, DocumentOK, Steps, document, Recheck
<1>3. CASE Restore
  BY SettingsAssumption, <1>3 DEF TypeOK, ControlOK, DocumentOK, Steps, Files, Goto, document, Restore
<1>4. CASE MarkRolledBack
  BY SettingsAssumption, <1>4 DEF TypeOK, ControlOK, DocumentOK, Steps, Files, Goto, Return, document,
     MarkRolledBack
<1> QED BY <1>1, <1>2, <1>3, <1>4 DEF Rollback

(* The files over the steps of Rollback.                                     *)
LEMMA RollbackDiskTyped == TypeOK /\ Rollback => DiskOK'
<1> SUFFICES ASSUME TypeOK, Rollback PROVE DiskOK'
  OBVIOUS
<1>1. CASE Preflight
  BY SettingsAssumption, <1>1 DEF TypeOK, DiskOK, stores, Preflight
<1>2. CASE Recheck
  BY SettingsAssumption, <1>2 DEF TypeOK, DiskOK, stores, Recheck
<1>3. CASE Restore
  BY SettingsAssumption, <1>3 DEF TypeOK, DiskOK, Journals, stores, Restore
<1>4. CASE MarkRolledBack
  BY SettingsAssumption, MarkedJournal, <1>4 DEF TypeOK, DiskOK, stores, MarkRolledBack
<1> QED BY <1>1, <1>2, <1>3, <1>4 DEF Rollback

(* The flags over all steps.                                                 *)
LEMMA FlagsTyped == TypeOK /\ Next => FlagsOK'
<1> SUFFICES ASSUME TypeOK, Next PROVE FlagsOK'
  OBVIOUS
<1>1. CASE Document
  BY ZenonT(30), <1>1 DEF TypeOK, FlagsOK, stores, Document, OpenProject, Supply, Load, Edit,
     AcceptImportedRenderingSettings, Close, Save, Compare
<1>2. CASE Cleanup
  BY ZenonT(30), <1>2 DEF TypeOK, FlagsOK, stores, Cleanup, NothingUnprepared, RemoveStagedPayload,
     RefuseUnknownFiles, RemoveStaging, NothingCompleted, RemoveCompletedPayload,
     RemoveCompletedJournal, RemoveCompletedDirectory
<1>3. CASE Publish
  BY ZenonT(30), <1>3 DEF TypeOK, FlagsOK, stores, Publish, Verify, StagePayload, BackUp, Prepare,
     CheckSource, WriteReplacement, Commit
<1>4. CASE Rollback
  BY ZenonT(30), <1>4 DEF TypeOK, FlagsOK, stores, Rollback, Preflight, Recheck, Restore, MarkRolledBack
<1>5. CASE Fault \/ Crash
  BY ZenonT(30), <1>5 DEF TypeOK, FlagsOK, stores, Fault, Crash
<1>6. ASSUME NEW i \in Files, NEW c \in Found, Outsider(i, c) PROVE FlagsOK'
  BY ZenonT(30), <1>6 DEF TypeOK, FlagsOK, stores, Outsider
<1> QED BY <1>1, <1>2, <1>3, <1>4, <1>5, <1>6 DEF Next

(* The rest over accidents and outsiders.                                    *)
LEMMA AccidentTyped ==
    TypeOK /\ (Fault \/ Crash \/ \E i \in Files, c \in Found : Outsider(i, c)) =>
        ControlOK' /\ DocumentOK' /\ DiskOK'
<1> SUFFICES ASSUME TypeOK, Fault \/ Crash \/ \E i \in Files, c \in Found : Outsider(i, c)
             PROVE  ControlOK' /\ DocumentOK' /\ DiskOK'
  OBVIOUS
<1>1. CASE Fault
  BY ThrowTyped, <1>1 DEF TypeOK, DiskOK, Fault, stores
<1>2. CASE Crash
  BY SettingsAssumption, <1>2 DEF TypeOK, ControlOK, DocumentOK, DiskOK, Crash, Closed, Steps, Files,
     Found, Blank, Defaults
<1>3. ASSUME NEW i \in Files, NEW c \in Found, Outsider(i, c)
      PROVE  ControlOK' /\ DocumentOK' /\ DiskOK'
  BY <1>3 DEF TypeOK, ControlOK, DocumentOK, DiskOK, Outsider, stores, document
<1> QED BY <1>1, <1>2, <1>3

-----------------------------------------------------------------------------
(* The rest of the invariant *)

(* The steps of the document keep the invariant.                             *)
LEMMA DocumentInv == TransactionInv /\ Document => Understanding'
<1> SUFFICES ASSUME TransactionInv, Document PROVE Understanding'
  OBVIOUS
<1> USE DEF TransactionInv, Understanding, Places, JournalInStep, Agreement, Staging, Progress,
    Watched, BackupsKept, AllOrNothing, Prepared
<1>1. CASE OpenProject
  BY SettingsAssumption, <1>1 DEF HasBackup, Opened, stores, OpenProject
<1>2. CASE Supply
  BY SettingsAssumption, <1>2 DEF Opened, Goto, Supply
<1>3. CASE Load
  BY SettingsAssumption, <1>3 DEF Return, Load
<1>4. ASSUME NEW i \in Files, NEW c \in Contents, Edit(i, c) PROVE Understanding'
  BY SettingsAssumption, <1>4 DEF HasBackup, Opened, stores, Edit
<1>5. CASE AcceptImportedRenderingSettings
  BY SettingsAssumption, <1>5 DEF Opened, AcceptImportedRenderingSettings
<1>6. CASE Close
  BY SettingsAssumption, <1>6 DEF HasBackup, Opened, Closed, stores, Close
<1>7. CASE Save
  BY SettingsAssumption, <1>7 DEF HasBackup, Opened, stores, document, Save
<1>8. CASE Compare
  BY SettingsAssumption, <1>8 DEF Opened, Goto, Return, Throw, document, Compare
<1> QED BY <1>1, <1>2, <1>3, <1>4, <1>5, <1>6, <1>7, <1>8 DEF Document

(* The cleanups keep the invariant: none of them runs under a prepared journal. *)
LEMMA CleanupInv == TransactionInv /\ Cleanup => Understanding'
<1> SUFFICES ASSUME TransactionInv, Cleanup PROVE Understanding'
  OBVIOUS
<1> USE DEF TransactionInv, Understanding, Places, JournalInStep, Agreement, Staging, Progress,
    Watched, BackupsKept, AllOrNothing, Opened, Prepared, document
<1>1. CASE NothingUnprepared
  BY SettingsAssumption, <1>1 DEF TypeOK, HasBackup, Goto, AfterUnprepared, stores, NothingUnprepared
<1>2. CASE RemoveStagedPayload
  BY SettingsAssumption, <1>2 DEF Unprepared, RemoveStagedPayload
<1>3. CASE RefuseUnknownFiles
  BY SettingsAssumption, <1>3 DEF Unprepared, Return, Closed, Throw, RefuseUnknownFiles
<1>4. CASE RemoveStaging
  BY SettingsAssumption, <1>4 DEF Unprepared, Goto, AfterUnprepared, RemoveStaging
<1>5. CASE NothingCompleted
  BY SettingsAssumption, <1>5 DEF TypeOK, Journals, IsCompleted, Goto, Return, Saved, AfterCompleted,
     NothingCompleted
<1>6. CASE RemoveCompletedPayload
  BY SettingsAssumption, <1>6 DEF RemoveCompletedPayload
<1>7. CASE RemoveCompletedJournal
  BY SettingsAssumption, <1>7 DEF NoJournal, Goto, RemoveCompletedJournal
<1>8. CASE RemoveCompletedDirectory
  BY SettingsAssumption, <1>8 DEF Goto, Return, Saved, AfterCompleted, RemoveCompletedDirectory
<1> QED BY <1>1, <1>2, <1>3, <1>4, <1>5, <1>6, <1>7, <1>8 DEF Cleanup

(* The steps of Publish keep the invariant.                                  *)
LEMMA PublishInv == TransactionInv /\ Publish => Understanding'
<1> SUFFICES ASSUME TransactionInv, Publish PROVE Understanding'
  OBVIOUS
<1> USE DEF TransactionInv, Understanding, Places, JournalInStep, Agreement, Staging, Progress,
    Watched, BackupsKept, AllOrNothing, Prepared, document
<1>1. CASE Verify
  BY SettingsAssumption, <1>1 DEF Opened, Goto, Return, Throw, Verify
<1>2. CASE StagePayload
  BY SettingsAssumption, <1>2 DEF TypeOK, BackedUp, Opened, Files, Goto, Return, NextFile, Throw,
     StagePayload
<1>3. CASE BackUp
  BY SettingsAssumption, <1>3 DEF TypeOK, Journals, BackedUp, Opened, Files, Goto, Return, NextFile,
     Throw, BackUp
<1>4. CASE Prepare
  BY SettingsAssumption, <1>4 DEF HasBackup, BackedUp, Restored, Opened, Files, Goto, stores, Prepare
<1>5. CASE CheckSource
  BY SettingsAssumption, <1>5 DEF HasBackup, Published, Restored, Opened, Goto, Throw, stores,
     CheckSource
<1>6. CASE WriteReplacement
  BY SettingsAssumption, <1>6 DEF TypeOK, HasBackup, BackedUp, Published, Restored, Opened,
     Recoverable, Files, Goto, NextFile, Throw, stores, WriteReplacement
<1>7. CASE Commit
  BY SettingsAssumption, <1>7 DEF Published, Commit
<1> QED BY <1>1, <1>2, <1>3, <1>4, <1>5, <1>6, <1>7 DEF Publish

(* The steps of Rollback keep the invariant, in Publish as in Recover.       *)
LEMMA RollbackInv == TransactionInv /\ Rollback => Understanding'
<1> SUFFICES ASSUME TransactionInv, Rollback PROVE Understanding'
  OBVIOUS
<1> USE DEF TransactionInv, Understanding, Places, JournalInStep, Agreement, Staging, Progress,
    Watched, BackupsKept, AllOrNothing, Opened, Prepared, document
<1>1. CASE Preflight
  BY SettingsAssumption, <1>1 DEF HasBackup, Files, Return, Closed, Saved, Throw, stores, Preflight
<1>2. CASE Recheck
  BY SettingsAssumption, <1>2 DEF HasBackup, Restored, Recoverable, Return, Closed, Throw, stores,
     Recheck
<1>3. CASE Restore
  BY SettingsAssumption, <1>3 DEF TypeOK, HasBackup, Restored, Files, Goto, stores, Restore
<1>4. CASE MarkRolledBack
  BY SettingsAssumption, <1>4 DEF Restored, Goto, Return, MarkRolledBack
<1> QED BY <1>1, <1>2, <1>3, <1>4 DEF Rollback

-----------------------------------------------------------------------------
(* Faults, crashes and changes by others *)

(* An exception anywhere and the end of the process keep the invariant.      *)
LEMMA AccidentInv == TransactionInv /\ (Fault \/ Crash) => Understanding'
<1> USE DEF TransactionInv, Understanding, Places, JournalInStep, Agreement, Staging, Progress,
    Watched, BackupsKept, AllOrNothing, HasBackup, Opened, Prepared, Closed
<1>1. TransactionInv /\ Fault => Understanding'
  BY SettingsAssumption DEF Goto, Return, Saved, Throw, stores, document, Fault
<1>2. TransactionInv /\ Crash => Understanding'
  BY SettingsAssumption DEF Crash
<1> QED BY <1>1, <1>2

(* Another program changes a file: the file is touched from then on, and     *)
(* raced if the editor was about to write it.                                *)
LEMMA OutsiderInv ==
    ASSUME TransactionInv, NEW i \in Files, NEW c \in Found, Outsider(i, c)
    PROVE  Understanding'
<1>1. /\ Places' /\ JournalInStep' /\ Agreement' /\ Staging' /\ Progress'
      /\ BackupsKept' /\ AllOrNothing'
  BY DEF TransactionInv, Understanding, TypeOK, Places, JournalInStep, Agreement, Staging, Progress,
     BackupsKept, AllOrNothing, HasBackup, BackedUp, Published, Restored, Opened, Prepared, stores,
     document, Outsider
<1>2. Watched'
  <2>1. ~raced' => ~raced /\ ~(i = at /\ pc \in {"write", "restore"})
    BY Zenon DEF Outsider
  <2>2. /\ at' = at /\ pc' = pc /\ journal' = journal /\ disk \in [Files -> Found] /\ at \in Files
        /\ disk' = [disk EXCEPT ![i] = c]
    BY DEF Outsider, TransactionInv, TypeOK
  <2>3. \A j \in Files : j # i => disk'[j] = disk[j]
    BY <2>2
  <2>4. CASE raced'
    BY <2>4 DEF Watched
  <2>5. CASE ~raced'
    <3>1. ~raced /\ Watched
      BY <2>1, <2>5 DEF TransactionInv, Understanding
    <3>2. pc \in {"write", "restore"} => disk'[at] = disk[at]
      BY <2>1, <2>2, <2>3, <2>5
    <3> QED BY <2>2, <3>1, <3>2 DEF Watched, Restored, Recoverable
  <2> QED BY <2>4, <2>5
<1> QED BY <1>1, <1>2 DEF Understanding

-----------------------------------------------------------------------------
(* The theorems *)

(* A closed project satisfies the invariant.                                 *)
LEMMA InitInv == Init => TransactionInv
<1> SUFFICES ASSUME Init PROVE TransactionInv
  OBVIOUS
<1>1. TypeOK
  <2>1. ControlOK /\ DocumentOK
    BY SettingsAssumption DEF Init, ControlOK, DocumentOK, Steps, Files, Found, Blank, Defaults
  <2>2. DiskOK
    BY SettingsAssumption DEF Init, DiskOK, Journals, NoJournal, Found, Blank, Defaults
  <2>3. FlagsOK
    BY DEF Init, FlagsOK
  <2> QED BY <2>1, <2>2, <2>3, TypeParts
<1>2. Understanding
  BY DEF Init, NoJournal, Understanding, Places, JournalInStep, Agreement, Staging, Progress, Watched,
     BackupsKept, AllOrNothing, Opened, Prepared
<1> QED BY <1>1, <1>2 DEF TransactionInv

(* The inductive invariant holds of every reachable state: at each of its    *)
(* steps the editor knows what is on the disk wherever only it has been.     *)
THEOREM TransactionInvariant == Spec => []TransactionInv
<1>1. TransactionInv /\ [Next]_vars => TransactionInv'
  <2> SUFFICES ASSUME TransactionInv, [Next]_vars PROVE TransactionInv'
    OBVIOUS
  <2>1. CASE Next
    <3>1. TypeOK'
      BY <2>1, DocumentControlTyped, DocumentDiskTyped, CleanupControlTyped, CleanupDiskTyped,
         PublishControlTyped, PublishDiskTyped, RollbackControlTyped, RollbackDiskTyped, AccidentTyped,
         FlagsTyped, TypeParts DEF Next, TransactionInv
    <3>2. Understanding'
      BY <2>1, DocumentInv, CleanupInv, PublishInv, RollbackInv, AccidentInv, OutsiderInv DEF Next
    <3> QED BY <3>1, <3>2 DEF TransactionInv
  <2>2. CASE UNCHANGED vars
    <3>1. TypeOK'
      BY <2>2 DEF TransactionInv, TypeOK, vars, stores, document
    <3>2. Understanding'
      BY <2>2 DEF TransactionInv, Understanding, Places, JournalInStep, Agreement, Staging, Progress,
         Watched,
         BackupsKept, AllOrNothing, HasBackup, BackedUp, Published, Restored, Recoverable, Opened,
         Prepared,
         vars, stores, document
    <3> QED BY <3>1, <3>2 DEF TransactionInv
  <2> QED BY <2>1, <2>2
<1> QED BY InitInv, <1>1, PTL DEF Spec

(* Every variable stays in range; ReadJournal never meets a state that it    *)
(* does not know.                                                            *)
THEOREM TransactionTyped == Spec => []TypeOK
<1>1. TransactionInv => TypeOK
  BY DEF TransactionInv
<1> QED BY TransactionInvariant, <1>1, PTL

(* A save publishes all files or none, whatever fails, crashes or interferes *)
(* and however many files there are.                                         *)
THEOREM SaveIsAllOrNothing == Spec => []AllOrNothing
<1>1. TransactionInv => AllOrNothing
  BY DEF TransactionInv, Understanding
<1> QED BY TransactionInvariant, <1>1, PTL

(* No cleanup ever takes a backup that a prepared journal counts on.         *)
THEOREM BackupsSurvive == Spec => []BackupsKept
<1>1. TransactionInv => BackupsKept
  BY DEF TransactionInv, Understanding
<1> QED BY TransactionInvariant, <1>1, PTL

(* The document's baseline describes the files whenever the user may save,   *)
(* except where others changed them.                                         *)
THEOREM BaselineStaysTrue == Spec => []BaselineHolds
<1>1. TransactionInv => BaselineHolds
  BY DEF TransactionInv, Understanding, Places, Agreement, Opened, BaselineHolds
<1> QED BY TransactionInvariant, <1>1, PTL

(* Neither publication nor rollback overwrites a content the journal does    *)
(* not account for, unless it was written after the last look at the file.   *)
THEOREM ForeignEditsSurvive == Spec => ForeignEditsKept
<1> DEFINE Kept == \A i \in Files : disk'[i] # disk[i] /\ <<pc, at>>' # <<pc, at>> =>
                      raced \/ disk[i] \in {journal.original[i], journal.replacement[i]}
<1>1. TransactionInv /\ [Next]_vars => [Kept]_vars
  <2> SUFFICES ASSUME TransactionInv, Next PROVE Kept
    OBVIOUS
  <2>1. CASE WriteReplacement \/ Restore
    <3> SUFFICES ASSUME NEW i \in Files, disk'[i] # disk[i], ~raced
                 PROVE  disk[i] \in {journal.original[i], journal.replacement[i]}
      OBVIOUS
    <3>1. i = at
      BY <2>1 DEF WriteReplacement, Restore, TransactionInv, TypeOK
    <3>2. Restored(at) \/ Recoverable(at)
      BY <2>1 DEF WriteReplacement, Restore, TransactionInv, Understanding, Watched
    <3> QED BY <3>1, <3>2 DEF Restored, Recoverable
  <2>2. CASE (Publish \/ Rollback) /\ ~(WriteReplacement \/ Restore)
    BY <2>2 DEF Publish, Rollback, Verify, StagePayload, BackUp, Prepare, CheckSource, Commit, Preflight,
       Recheck, MarkRolledBack
  <2>3. CASE Document
    BY <2>3 DEF Document, OpenProject, Supply, Load, Edit, AcceptImportedRenderingSettings, Close,
       Save, Compare
  <2>4. CASE Cleanup
    BY <2>4 DEF Cleanup, NothingUnprepared, RemoveStagedPayload, RefuseUnknownFiles, RemoveStaging,
       NothingCompleted, RemoveCompletedPayload, RemoveCompletedJournal, RemoveCompletedDirectory
  <2>5. CASE Fault \/ Crash
    BY <2>5 DEF Fault, Crash
  <2>6. CASE \E i \in Files, c \in Found : Outsider(i, c)
    BY <2>6 DEF Outsider
  <2> QED BY <2>1, <2>2, <2>3, <2>4, <2>5, <2>6 DEF Next
<1> QED BY TransactionInvariant, <1>1, PTL DEF Spec, ForeignEditsKept

-----------------------------------------------------------------------------
(* The refinement of SettingsStore *)

(* A step that is not seen in the files is an edit of the document.          *)
LEMMA Unseen ==
    ASSUME TypeOK', Stored' = Stored, touched' = touched
    PROVE  Store!Next
<1>1. pending' \in [Files -> Found]
  BY DEF TypeOK, Found
<1> QED BY <1>1 DEF Store!Next, Store!Edit

(* The files stay as they are when no journal is prepared before or after.   *)
LEMMA StoredKept ==
    ASSUME UNCHANGED <<disk, journal, touched>>
    PROVE  Stored' = Stored
  BY DEF Stored, Prepared

(* A write of the editor only changes what others changed before: the rest   *)
(* is already accounted for by the prepared journal.                         *)
LEMMA WriteStored ==
    ASSUME TypeOK, TypeOK', Prepared, UNCHANGED <<journal, pending, touched>>,
           NEW c \in Found, disk' = [disk EXCEPT ![at] = c]
    PROVE  Store!Next
<1>1. at \in Files /\ disk \in [Files -> Found] /\ Prepared'
  BY DEF TypeOK, Prepared
<1>2. CASE at \in touched
  <2>1. Stored' = [Stored EXCEPT ![at] = c]
    BY <1>1, <1>2 DEF Stored
  <2>2. Store!Overwrite(at, c)
    BY <1>2, <2>1 DEF Store!Overwrite
  <2> QED BY <1>1, <2>2 DEF Store!Next
<1>3. CASE at \notin touched
  <2>1. Stored' = Stored
    BY <1>1, <1>3 DEF Stored
  <2> QED BY <2>1, Unseen
<1> QED BY <1>2, <1>3

(* Every step of the transaction is a step of the store or none.             *)
LEMMA StoreStep ==
    ASSUME TransactionInv, TypeOK', Next
    PROVE  Store!Next
<1> USE DEF TransactionInv
<1>1. CASE Document /\ ~Load
  BY <1>1, StoredKept, Unseen DEF Document, OpenProject, Supply, Edit, AcceptImportedRenderingSettings,
     Close, Save, Compare
<1>2. CASE Load
  <2>1. ~Prepared /\ ~Prepared' /\ disk' = disk /\ touched' = {}
    BY <1>2 DEF Load, Prepared
  <2>2. Stored' = Stored
    BY <2>1 DEF Stored
  <2>3. pending' \in [Files -> Found]
    BY DEF TypeOK, Found
  <2> QED BY <2>1, <2>2, <2>3 DEF Store!Next, Store!Review
<1>3. CASE Cleanup
  <2>1. CASE RemoveCompletedJournal
    <3>1. ~Prepared /\ ~Prepared' /\ UNCHANGED <<disk, touched>>
      BY <2>1 DEF RemoveCompletedJournal, IsCompleted, Prepared, NoJournal
    <3>2. Stored' = Stored
      BY <3>1 DEF Stored
    <3> QED BY <3>1, <3>2, Unseen
  <2>2. CASE ~RemoveCompletedJournal
    BY <1>3, <2>2, StoredKept, Unseen DEF Cleanup, NothingUnprepared, RemoveStagedPayload,
       RefuseUnknownFiles,
       RemoveStaging, NothingCompleted, RemoveCompletedPayload, RemoveCompletedDirectory
  <2> QED BY <2>1, <2>2
<1>4. CASE Verify
  <2>1. ~Prepared /\ ~Prepared' /\ disk' = disk
    BY <1>4 DEF Verify, Understanding, JournalInStep, Prepared
  <2>2. Stored' = Stored
    BY <2>1 DEF Stored
  <2>3. touched' = {} \/ touched' = touched
    BY <1>4 DEF Verify
  <2>4. pending' \in [Files -> Found]
    BY DEF TypeOK, Found
  <2> QED BY <2>2, <2>3, <2>4, Unseen DEF Store!Next, Store!Review
<1>5. CASE StagePayload \/ BackUp \/ CheckSource
  BY <1>5, StoredKept, Unseen DEF StagePayload, BackUp, CheckSource
<1>6. CASE Prepare
  <2>1. /\ ~Prepared /\ disk' = disk /\ touched' = touched /\ journal'.original = baseline
        /\ \A i \in Files \ touched : disk[i] = baseline[i]
    BY <1>6 DEF Prepare, Understanding, Places, JournalInStep, Agreement, Opened, Prepared
  <2>2. Stored' = Stored
    BY <2>1 DEF Stored
  <2> QED BY <2>1, <2>2, Unseen
<1>7. CASE WriteReplacement
  <2>1. Prepared /\ pending[at] \in Found
    BY <1>7 DEF WriteReplacement, Understanding, JournalInStep, TypeOK, Found
  <2>2. UNCHANGED <<journal, touched>>
    BY <1>7 DEF WriteReplacement
  <2>3. CASE UNCHANGED disk
    BY <2>2, <2>3, StoredKept, Unseen
  <2>4. CASE disk' # disk
    <3>1. disk' = [disk EXCEPT ![at] = pending[at]] /\ pending' = pending
      BY <1>7, <2>4 DEF WriteReplacement, document
    <3> QED BY <2>1, <2>2, <3>1, WriteStored
  <2> QED BY <2>3, <2>4
<1>8. CASE Commit
  <2>1. /\ Prepared /\ ~Prepared' /\ UNCHANGED <<disk, pending, touched>>
        /\ \A i \in Files \ touched : disk[i] = pending[i]
    BY <1>8 DEF Commit, Understanding, JournalInStep, Agreement, Progress, Published, Prepared, TypeOK,
       Journals, document
  <2>2. Stored' = [i \in Files |-> IF i \in touched THEN Stored[i] ELSE pending[i]]
    BY <2>1 DEF Stored
  <2> QED BY <2>1, <2>2 DEF Store!Next, Store!Save
<1>9. CASE Preflight \/ Recheck
  BY <1>9, StoredKept, Unseen DEF Preflight, Recheck
<1>10. CASE Restore
  <2> DEFINE c == IF journal.original[at] = Absent THEN Absent ELSE backup[at]
  <2>1. Prepared /\ c \in Found
    BY <1>10 DEF Restore, Understanding, JournalInStep, TypeOK, Found
  <2>2. UNCHANGED <<journal, pending, touched>> /\ disk' = [disk EXCEPT ![at] = c]
    BY <1>10 DEF Restore, document
  <2> QED BY <2>1, <2>2, WriteStored
<1>11. CASE MarkRolledBack
  <2>1. /\ Prepared /\ ~Prepared' /\ UNCHANGED <<disk, touched>>
        /\ \A i \in Files \ touched : disk[i] = journal.original[i]
    BY <1>11 DEF MarkRolledBack, Understanding, JournalInStep, Progress, Restored, Prepared
  <2>2. Stored' = Stored
    BY <2>1 DEF Stored
  <2> QED BY <2>1, <2>2, Unseen
<1>12. CASE Fault \/ Crash
  BY <1>12, StoredKept, Unseen DEF Fault, Crash
<1>13. ASSUME NEW i \in Files, NEW c \in Found, Outsider(i, c) PROVE Store!Next
  <2>1. /\ disk \in [Files -> Found] /\ disk' = [disk EXCEPT ![i] = c]
        /\ touched' = touched \cup {i} /\ journal' = journal /\ pending' = pending
    BY <1>13 DEF Outsider, TypeOK, document
  <2>2. Stored' = [Stored EXCEPT ![i] = c]
    BY <2>1 DEF Stored, Prepared
  <2> QED BY <2>1, <2>2 DEF Store!Next, Store!Disturb
<1> QED
  BY <1>1, <1>2, <1>3, <1>4, <1>5, <1>6, <1>7, <1>8, <1>9, <1>10, <1>11, <1>12, <1>13
  DEF Next, Publish, Rollback

(* The whole protocol implements saving all files in one step: what recovery *)
(* is bound to make of the files changes as SettingsStore says, with any     *)
(* number of files and whatever fails, crashes or interferes.                *)
THEOREM TransactionImplementsStore == Spec => ImplementsStore
<1>1. Init => Store!Init
  <2> SUFFICES ASSUME Init PROVE Store!Init
    OBVIOUS
  <2>1. Stored = disk
    BY DEF Init, Stored, Prepared, NoJournal
  <2>2. pending \in [Files -> Found]
    BY SettingsAssumption DEF Init, Defaults, Found
  <2> QED BY <2>1, <2>2 DEF Init, Store!Init
<1>2. TransactionInv /\ TransactionInv' /\ [Next]_vars => [Store!Next]_(Store!vars)
  <2> SUFFICES ASSUME TransactionInv, TransactionInv', [Next]_vars PROVE [Store!Next]_(Store!vars)
    OBVIOUS
  <2>1. CASE Next
    BY <2>1, StoreStep DEF TransactionInv
  <2>2. CASE UNCHANGED vars
    BY <2>2, StoredKept DEF vars, document, Store!vars
  <2> QED BY <2>1, <2>2
<1> QED BY <1>1, <1>2, TransactionInvariant, PTL DEF Spec, ImplementsStore, Store!Spec

=============================================================================
