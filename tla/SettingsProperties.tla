-------------------------- MODULE SettingsProperties --------------------------
(***************************************************************************)
(* What SettingsTransaction promises the owner of a project.               *)
(***************************************************************************)
EXTENDS SettingsTransaction

Steps == {"closed", "unprepared", "completed", "sweep", "supply", "load", "idle", "compare", "verify",
          "stage", "backup", "journal", "check", "write", "commit", "preflight", "recheck", "restore",
          "mark"}
Journals == [state: {"none", "prepared", "committed", "rolledBack"},
             original: [Files -> Found], replacement: [Files -> Contents]]

(* Every variable keeps to its values; in particular ReadJournal finds one  *)
(* of the three states it accepts.                                          *)
TypeOK ==
    /\ disk \in [Files -> Found] /\ baseline \in [Files -> Found] /\ backup \in [Files -> Found]
    /\ pending \in [Files -> Contents]
    /\ journal \in Journals
    /\ directory \in BOOLEAN /\ litter \in BOOLEAN /\ raced \in BOOLEAN
    /\ staged \subseteq Files /\ touched \subseteq Files
    /\ pc \in Steps /\ task \in {"none", "open", "retry", "publish", "tidy"} /\ at \in Files

(* A save publishes all files or none: under a committed journal every file *)
(* holds its replacement, under a rolled back one its original, whatever    *)
(* failed or crashed on the way there; until then each file holds one of    *)
(* the two. Files that others changed are theirs.                           *)
AllOrNothing == \A i \in Files \ touched :
    /\ journal.state = "committed" => disk[i] = journal.replacement[i]
    /\ journal.state = "rolledBack" => disk[i] = journal.original[i]
    /\ Prepared => disk[i] \in {journal.original[i], journal.replacement[i]}

(* As long as recovery may need them, the backups are there: no cleanup, at *)
(* whatever point the one before was cut off, removes those of a prepared   *)
(* journal.                                                                 *)
BackupsKept == Prepared => \A i \in Files : HasBackup(i)

(* "Recovery refuses to overwrite externally changed files"                 *)
(* (Docs/ProjectSettings.md:328), and so does publication: what the editor  *)
(* overwrites or removes is a content its journal accounts for, unless      *)
(* another program wrote the file after the editor's last look at it.       *)
ForeignEditsKept == [][\A i \in Files :
    disk'[i] # disk[i] /\ <<pc, at>>' # <<pc, at>> =>
        raced \/ disk[i] \in {journal.original[i], journal.replacement[i]}]_vars

(* The baseline describes the files whenever the user may save, after saves *)
(* that succeeded, failed or were rolled back: a save finds a difference to *)
(* its baseline only where somebody else changed a file.                    *)
BaselineHolds == pc = "idle" /\ ~Prepared => \A i \in Files \ touched : disk[i] = baseline[i]

(* The whole transaction is one save of SettingsStore: at any time the      *)
(* files are what they were or what they will be, all of them together.     *)
Stored == [i \in Files |-> IF Prepared /\ i \notin touched THEN journal.original[i] ELSE disk[i]]
Store == INSTANCE SettingsStore WITH stored <- Stored, values <- pending, disturbed <- touched
ImplementsStore == Store!Spec

=============================================================================
