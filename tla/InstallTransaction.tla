-------------------------- MODULE InstallTransaction --------------------------
(***************************************************************************)
(* Installation transactions of the install worker                         *)
(* (src/KeireHubRuntime/Source/InstallTransaction.cpp, its locator and its *)
(* anchored file operations), as they behave on Windows: one worker at a   *)
(* time installs, repairs, commits, recovers or uninstalls a product in    *)
(* one destination.  The disk survives a crash, the worker does not.       *)
(*                                                                         *)
(* A receipt is the version it describes, a file is its content, and a     *)
(* path is its position in the receipt: the marker is the last one.        *)
(* One step of the worker is one anchored rename, removal or publication   *)
(* (they are atomic), a copy is two, for a crash leaves it torn.  A user   *)
(* may change or delete installed files at any moment.                     *)
(***************************************************************************)
EXTENDS Naturals, FiniteSets

CONSTANTS
    PathCount,   \* paths are 1..PathCount, in the order of the receipts
    Version,     \* versions of the product
    Package,     \* the content of each path in each version, or None
    Content,     \* what a packaged file can hold
    None,        \* no file, no receipt, no journal, no registration
    Foreign,     \* what a user writes: no package holds it
    Torn,        \* a receipt whose copy a crash cut short
    MaxFaults    \* bound on crashes, failed calls and users' edits together

Path == 1..PathCount
Marker == PathCount
Tree == {"destination", "stage", "backup"}

ASSUME PathAssumption == PathCount \in Nat \ {0}
ASSUME ValueAssumption ==
    /\ None \notin Content /\ Foreign \notin Content /\ Foreign # None
    /\ None \notin Version /\ Torn \notin Version /\ Torn # None
ASSUME PackageAssumption ==
    /\ Package \in [Version -> [Path -> Content \cup {None}]]
    /\ \A v \in Version : Package[v][Marker] # None
    /\ \A v, w \in Version : Package[v][Marker] = Package[w][Marker] => v = w
ASSUME BoundAssumption == MaxFaults \in Nat

Inventory(v) == {p \in Path : Package[v][p] # None}
First(paths) == CHOOSE p \in paths : \A q \in paths : p <= q
Last(paths) == CHOOSE p \in paths : \A q \in paths : q <= p

(* InstallTransactionPhase, in its order. *)
Staged == 1
BackupMoved == 2
PayloadActivated == 3
RegistrationWritten == 4
Verified == 5
Committed == 6

Journal == [operation : {"install", "uninstall"}, phase : Staged..Committed,
            previous : Version \cup {None}, new : Version \cup {None},
            repair : BOOLEAN]

ASSUME JournalAssumption == None \notin Journal

Request ==
    [kind : {"install"}, version : Version, defer : BOOLEAN, repair : BOOLEAN]
        \cup [kind : {"commit", "recover", "uninstall"}]

VARIABLES
    \* The disk.
    files,         \* what each tree holds at each path
    receipt,       \* the receipt of each tree
    directories,   \* which of stage and backup exist
    registration,  \* the version in the registry
    locator,       \* the transaction's locator exists (and so does its root)
    owner,         \* the transaction's owner marker exists
    journal,       \* the published journal
    temporaries,   \* unpublished documents in the transaction's root
    \* The worker.
    pc,
    request,
    memory,        \* its copy of the journal
    held,          \* the version of the receipt it works from
    todo,          \* the receipt's paths it has yet to treat
    resume,        \* the request goes on after the cleanup
    \* The environment, and what the properties remember.
    faults,        \* how often it has interfered
    edited,        \* the paths a user has touched
    disturbed      \* an interruption came where recovery cannot cope with it

disk == <<files, receipt, directories, registration, locator, owner, journal, temporaries>>
payload == <<files, receipt, registration>>
books == <<directories, locator, owner, journal, temporaries>>
call == <<request, memory, held, resume>>
environment == <<faults, edited, disturbed>>
vars == <<disk, pc, call, todo, environment>>

Init ==
    /\ files = [t \in Tree |-> [p \in Path |-> None]]
    /\ receipt = [t \in Tree |-> None]
    /\ directories = {} /\ registration = None
    /\ locator = FALSE /\ owner = FALSE /\ journal = None /\ temporaries = 0
    /\ pc = "idle" /\ request = None /\ memory = None /\ held = None
    /\ todo = {} /\ resume = FALSE
    /\ faults = 0 /\ edited = {} /\ disturbed = FALSE

(* VerifyFile and VerifyReceiptFiles. *)
Holds(tree, v, p) == files[tree][p] = Package[v][p]
HoldsAll(tree, v, lenient) ==
    \A p \in Inventory(v) : Holds(tree, v, p) \/ (lenient /\ files[tree][p] = None)

(* VerifyIdentity: the marker and the registration match the receipt. *)
Identified(v, requireFiles) ==
    /\ Holds("destination", v, Marker)
    /\ registration = v
    /\ requireFiles => HoldsAll("destination", v, FALSE)

EmptyDestination ==
    receipt["destination"] = None /\ \A p \in Path : files["destination"][p] = None

(***************************************************************************)
(* What the worker's steps share.                                          *)
(***************************************************************************)

GoTo(where) == pc' = where /\ UNCHANGED <<call, todo>>

(* UpdatePhase: the phase changes in memory before it is written. *)
Record(phase) ==
    pc' = "write" /\ memory' = [memory EXCEPT !.phase = phase] /\ UNCHANGED <<request, held, resume, todo>>

Treat(where, v) ==
    pc' = where /\ held' = v /\ todo' = Inventory(v) /\ UNCHANGED <<request, memory, resume>>

Treated(p) == todo' = todo \ {p} /\ UNCHANGED <<pc, call>>

(* RenameVerifiedTo: a rename replaces nothing. *)
CanMove(from, to, lenient, p) ==
    \/ files[from][p] = None /\ lenient
    \/ Holds(from, held, p) /\ files[to][p] = None

Move(from, to, p) ==
    files' = IF files[from][p] = None THEN files
             ELSE [files EXCEPT ![from][p] = None, ![to][p] = files[from][p]]

Finish ==
    /\ pc' = "idle" /\ request' = None /\ memory' = None
    /\ held' = None /\ todo' = {} /\ resume' = FALSE

(* The worker's main function: after a commit that failed it recovers. *)
Return ==
    IF request.kind = "commit"
    THEN /\ pc' = "recover" /\ request' = [request EXCEPT !.kind = "recover"]
         /\ memory' = None /\ held' = None /\ todo' = {} /\ resume' = FALSE
    ELSE Finish

(* What the request does once there is no transaction to recover. *)
Proceed ==
    IF request.kind = "recover" THEN Finish
    ELSE /\ pc' = IF request.kind = "install" THEN "classify" ELSE "inspect"
         /\ resume' = FALSE
         /\ UNCHANGED <<request, memory, held, todo>>

(***************************************************************************)
(* The beginning of a request.                                             *)
(***************************************************************************)

Start(r) ==
    /\ pc = "idle"
    /\ r.kind = "commit" => registration # None
    /\ pc' = IF r.kind = "commit" THEN "commit" ELSE "recover"
    /\ request' = r
    /\ UNCHANGED <<disk, memory, held, resume, todo, environment>>

(* What recovery does follows from the phase that was published last. *)
RecoveryStepBack == "rollback"
RecoveryStep == IF journal.phase = Committed THEN "cleanup" ELSE "rollback"

(* RecoverExisting: a locator without its owner or journal is refused. *)
RecoverExisting ==
    /\ pc = "recover"
    /\ \/ ~locator /\ Proceed
       \/ /\ locator /\ owner /\ journal # None
          /\ pc' = RecoveryStep
          /\ memory' = journal /\ resume' = TRUE
          /\ UNCHANGED <<request, held, todo>>
       \/ locator /\ ~(owner /\ journal # None) /\ Return
    /\ UNCHANGED <<disk, environment>>

(* ClassifyDestination: which installation is replaced, if any. *)
ClassifyDestination ==
    /\ pc = "classify"
    /\ LET v == receipt["destination"]
           owned == /\ v \in Version
                    /\ Identified(v, ~request.repair)
                    /\ request.repair => HoldsAll("destination", v, TRUE)
       IN IF EmptyDestination \/ owned
          THEN pc' = "locate" /\ held' = v /\ UNCHANGED <<request, memory, resume, todo>>
          ELSE Return
    /\ UNCHANGED <<disk, environment>>

(* UninstallPackageTransaction, before its transaction. *)
InspectInstallation ==
    /\ pc = "inspect"
    /\ LET v == receipt["destination"]
       IN IF v \in Version /\ Identified(v, FALSE)
          THEN pc' = "locate" /\ held' = v /\ UNCHANGED <<request, memory, resume, todo>>
          ELSE Return
    /\ UNCHANGED <<disk, environment>>

(* CreateInstallTransactionLocator: the rename of the pending locator. *)
CreateLocator ==
    /\ pc = "locate"
    /\ locator' = TRUE
    /\ GoTo("prepare")
    /\ UNCHANGED <<payload, directories, owner, journal, temporaries, environment>>

(* The pinned trees, the owner marker, the registration that is replaced. *)
PrepareTransaction ==
    /\ pc = "prepare"
    /\ directories' = IF request.kind = "install" THEN {"stage", "backup"} ELSE {"backup"}
    /\ owner' = TRUE
    /\ memory' = [operation |-> request.kind, phase |-> Staged, previous |-> registration,
                  new |-> IF request.kind = "install" THEN request.version ELSE None,
                  repair |-> request.kind = "install" /\ request.repair]
    /\ pc' = IF request.kind = "install" THEN "stage" ELSE "write"
    /\ UNCHANGED <<payload, locator, journal, temporaries, request, held, todo, resume, environment>>

(* GuardNewFileCollisions *)
Collides ==
    \E p \in Inventory(request.version) :
        (held = None \/ Package[held][p] = None) /\ files["destination"][p] # None

(* StagePackage: no crash of it can be recovered, so it is one step. *)
StagePackage ==
    /\ pc = "stage"
    /\ files' = [files EXCEPT !["stage"] = Package[request.version]]
    /\ receipt' = [receipt EXCEPT !["stage"] = request.version]
    /\ GoTo(IF Collides THEN "cleanup" ELSE "write")
    /\ UNCHANGED <<registration, books, environment>>

(***************************************************************************)
(* The journal: WriteTextAtomically publishes a temporary file by a rename.*)
(***************************************************************************)

WriteTemporary ==
    /\ pc = "write"
    /\ temporaries' = temporaries + 1
    /\ GoTo("publish")
    /\ UNCHANGED <<payload, directories, locator, owner, journal, environment>>

(* WriteJournal, and what the operation does after the phase. *)
PublishJournal ==
    /\ pc = "publish"
    /\ journal' = memory
    /\ temporaries' = temporaries - 1
    /\ \/ memory.phase = Committed /\ GoTo("cleanup")
       \/ /\ memory.operation = "install"
          /\ \/ memory.phase = Staged /\ held # None /\ Treat("backup", held)
             \/ memory.phase = Staged /\ held = None /\ Record(BackupMoved)
             \/ memory.phase = BackupMoved /\ Treat("activate", memory.new)
             \/ memory.phase = PayloadActivated /\ GoTo("register")
             \/ memory.phase = RegistrationWritten /\ GoTo("verify")
             \/ memory.phase = Verified /\ request.defer /\ Finish
             \/ memory.phase = Verified /\ ~request.defer /\ Record(Committed)
       \/ /\ memory.operation = "uninstall"
          /\ \/ memory.phase = Staged /\ Treat("remove", held)
             \/ memory.phase = BackupMoved /\ GoTo("unregister")
             \/ memory.phase = RegistrationWritten /\ Record(Committed)
    /\ UNCHANGED <<payload, directories, locator, owner, environment>>

(***************************************************************************)
(* The payload moves forward.                                              *)
(***************************************************************************)

(* MoveReceiptInventory from the destination to the backup. *)
MoveToBackup ==
    /\ pc = "backup"
    /\ \/ \E p \in todo :
             /\ p = First(todo)
             /\ CanMove("destination", "backup", memory.repair, p)
             /\ Move("destination", "backup", p)
             /\ Treated(p) /\ UNCHANGED receipt
       \/ /\ todo = {} /\ receipt["destination"] = held
          /\ receipt' = [receipt EXCEPT !["destination"] = None, !["backup"] = held]
          /\ Record(BackupMoved) /\ UNCHANGED files
    /\ UNCHANGED <<registration, books, environment>>

(* MoveReceiptInventory from the stage; the receipt is copied, never moved. *)
Activate ==
    /\ pc = "activate"
    /\ \/ \E p \in todo :
             /\ p = First(todo)
             /\ CanMove("stage", "destination", FALSE, p)
             /\ Move("stage", "destination", p)
             /\ Treated(p) /\ UNCHANGED receipt
       \/ /\ todo = {} /\ receipt["destination"] = None
          /\ receipt' = [receipt EXCEPT !["destination"] = Torn]
          /\ GoTo("activateReceipt") /\ UNCHANGED files
    /\ UNCHANGED <<registration, books, environment>>

ActivateReceipt ==
    /\ pc = "activateReceipt"
    /\ receipt' = [receipt EXCEPT !["destination"] = held]
    /\ Record(PayloadActivated)
    /\ UNCHANGED <<files, registration, books, environment>>

WriteRegistration ==
    /\ pc = "register"
    /\ registration' = memory.new
    /\ Record(RegistrationWritten)
    /\ UNCHANGED <<files, receipt, books, environment>>

VerifyInstallation ==
    /\ pc = "verify"
    /\ Identified(memory.new, TRUE)
    /\ Record(Verified)
    /\ UNCHANGED <<disk, environment>>

(* An uninstall leaves what the user has changed where it is. *)
RemoveInstallation ==
    /\ pc = "remove"
    /\ \/ \E p \in todo :
             /\ p = First(todo)
             /\ IF Holds("destination", held, p) THEN Move("destination", "backup", p)
                ELSE UNCHANGED files
             /\ Treated(p) /\ UNCHANGED receipt
       \/ /\ todo = {} /\ receipt["destination"] = held
          /\ receipt' = [receipt EXCEPT !["destination"] = None, !["backup"] = held]
          /\ Record(BackupMoved) /\ UNCHANGED files
    /\ UNCHANGED <<registration, books, environment>>

RemoveRegistration ==
    /\ pc = "unregister"
    /\ registration \in {None, memory.previous}
    /\ registration' = None
    /\ Record(RegistrationWritten)
    /\ UNCHANGED <<files, receipt, books, environment>>

(* CommitInstallTransaction: the verified installation is still in place. *)
Committable ==
    /\ owner /\ journal # None /\ journal.operation = "install"
    /\ \/ journal.phase = Committed
       \/ /\ journal.phase = Verified
          /\ receipt["destination"] = journal.new /\ Identified(journal.new, TRUE)

CommitInstall ==
    /\ pc = "commit"
    /\ \/ ~locator /\ Finish
       \/ /\ locator /\ Committable
          /\ memory' = [journal EXCEPT !.phase = Committed]
          /\ pc' = IF journal.phase = Committed THEN "cleanup" ELSE "write"
          /\ UNCHANGED <<request, held, todo, resume>>
    /\ UNCHANGED <<disk, environment>>

(***************************************************************************)
(* Rollback.                                                               *)
(***************************************************************************)

(* Activation moves files while the journal still says BackupMoved. *)
ActivatedAtAnyPhase == memory.operation = "install"
ActivatedWithReceipt == memory.operation = "install" /\ memory.phase >= PayloadActivated
Activated == memory.operation = "install" /\ memory.phase >= BackupMoved

ActivatedVersion ==
    IF receipt["stage"] # None THEN receipt["stage"] ELSE receipt["destination"]

Rollback ==
    /\ pc = "rollback"
    /\ \/ ~Activated /\ GoTo("restore")
       \/ Activated /\ ActivatedVersion \in Version /\ Treat("deactivate", ActivatedVersion)
    /\ UNCHANGED <<disk, environment>>

(* RemoveActivatedFiles, from the last path to the first. *)
CanDeactivateUnverified(p) == p \in Path
CanDeactivate(p) == files["destination"][p] = None \/ Holds("destination", held, p)

RemoveActivatedFiles ==
    /\ pc = "deactivate"
    /\ \/ \E p \in todo :
             /\ p = Last(todo) /\ CanDeactivate(p)
             /\ files' = [files EXCEPT !["destination"][p] = None]
             /\ Treated(p) /\ UNCHANGED receipt
       \/ /\ todo = {} /\ receipt["destination"] \in {None, held}
          /\ receipt' = [receipt EXCEPT !["destination"] = None]
          /\ GoTo("restore") /\ UNCHANGED files
    /\ UNCHANGED <<registration, books, environment>>

(* RestoreBackup: the backup's receipt, or the active one, says what to restore. *)
PartialBackup ==
    /\ "backup" \in directories /\ receipt["backup"] = None
    /\ memory.previous # None /\ receipt["destination"] # None

RestoreBackup ==
    /\ pc = "restore"
    /\ \/ "backup" \notin directories /\ GoTo("cleanup")
       \/ /\ "backup" \in directories /\ receipt["backup"] # None
          /\ Treat("restoreFiles", receipt["backup"])
       \/ /\ PartialBackup /\ receipt["destination"] = memory.previous
          /\ Treat("restoreFiles", memory.previous)
       \/ /\ "backup" \in directories /\ receipt["backup"] = None /\ ~PartialBackup
          /\ GoTo("restoreRegistration")
    /\ UNCHANGED <<disk, environment>>

LenientByReceipt == memory.operation = "uninstall" \/ memory.repair
Lenient == memory.operation = "uninstall" \/ memory.repair \/ receipt["backup"] = None

RestoreFiles ==
    /\ pc = "restoreFiles"
    /\ \/ \E p \in todo :
             /\ p = First(todo)
             /\ CanMove("backup", "destination", Lenient, p)
             /\ Move("backup", "destination", p)
             /\ Treated(p) /\ UNCHANGED receipt
       \/ /\ todo = {} /\ receipt["backup"] = None
          /\ GoTo("restoreRegistration") /\ UNCHANGED <<files, receipt>>
       \/ /\ todo = {} /\ receipt["backup"] # None /\ receipt["destination"] = None
          /\ receipt' = [receipt EXCEPT !["destination"] = Torn]
          /\ GoTo("restoreReceipt") /\ UNCHANGED files
    /\ UNCHANGED <<registration, books, environment>>

RestoreReceipt ==
    /\ pc = "restoreReceipt"
    /\ receipt' = [receipt EXCEPT !["destination"] = held]
    /\ GoTo("restoreRegistration")
    /\ UNCHANGED <<files, registration, books, environment>>

RestoreNewRegistration ==
    /\ pc = "restoreRegistration"
    /\ registration' = IF registration = memory.new THEN None ELSE registration
    /\ GoTo("cleanup")
    /\ UNCHANGED <<files, receipt, books, environment>>
RestoreRegistration ==
    /\ pc = "restoreRegistration"
    /\ memory.previous # None \/ registration \in {None, memory.new}
    /\ registration' = memory.previous
    /\ GoTo("cleanup")
    /\ UNCHANGED <<files, receipt, books, environment>>

(***************************************************************************)
(* CleanupTransaction: all is inspected before anything is removed.        *)
(***************************************************************************)

(* InspectCleanupTree *)
Inspected(t) ==
    \/ t \notin directories
    \/ \A p \in Path : files[t][p] = None
    \/ /\ receipt[t] \in Version
       /\ \A p \in Path : files[t][p] = None \/ Holds(t, receipt[t], p)

Removable == owner /\ temporaries = 0 /\ Inspected("stage") /\ Inspected("backup")

CleanupTransaction ==
    /\ pc = "cleanup"
    /\ Removable
    /\ GoTo("clean")
    /\ UNCHANGED <<disk, environment>>

(* RemoveCleanupTree: the files, then the receipt, then the directory. *)
RemoveCleanupTree(t) ==
    LET left == {p \in Path : files[t][p] # None}
    IN /\ pc = "clean"
       /\ t \in directories /\ (t = "backup" => "stage" \notin directories)
       /\ \/ \E p \in left :
                /\ p = First(left)
                /\ files' = [files EXCEPT ![t][p] = None] /\ UNCHANGED <<receipt, directories>>
          \/ /\ left = {} /\ receipt[t] # None
             /\ receipt' = [receipt EXCEPT ![t] = None] /\ UNCHANGED <<files, directories>>
          \/ /\ left = {} /\ receipt[t] = None
             /\ directories' = directories \ {t} /\ UNCHANGED <<files, receipt>>
       /\ UNCHANGED <<registration, locator, owner, journal, temporaries, pc, call, todo, environment>>

RemoveBooks ==
    /\ pc = "clean" /\ directories = {}
    /\ \/ /\ journal # None /\ journal' = None
          /\ UNCHANGED <<owner, locator, pc, call, todo>>
       \/ /\ journal = None /\ owner /\ owner' = FALSE
          /\ UNCHANGED <<journal, locator, pc, call, todo>>
       \/ /\ journal = None /\ ~owner /\ locator' = FALSE
          /\ IF resume THEN Proceed ELSE Finish
          /\ UNCHANGED <<journal, owner>>
    /\ UNCHANGED <<payload, directories, temporaries, environment>>

(***************************************************************************)
(* Errors.                                                                 *)
(***************************************************************************)

(* What the step refuses: the file is missing, has drifted or is in the way. *)
Refuses ==
    LET target == receipt["destination"]
        next(from, to, lenient) == todo # {} /\ ~CanMove(from, to, lenient, First(todo))
    IN \/ /\ pc = "backup"
          /\ next("destination", "backup", memory.repair) \/ (todo = {} /\ target # held)
       \/ pc = "activate" /\ (next("stage", "destination", FALSE) \/ (todo = {} /\ target # None))
       \/ pc = "verify" /\ ~Identified(memory.new, TRUE)
       \/ pc = "remove" /\ todo = {} /\ target # held
       \/ pc = "unregister" /\ registration \notin {None, memory.previous}
       \/ pc = "commit" /\ locator /\ ~Committable
       \/ pc = "rollback" /\ Activated /\ ActivatedVersion \notin Version
       \/ /\ pc = "deactivate"
          /\ \/ todo # {} /\ ~CanDeactivate(Last(todo))
             \/ todo = {} /\ target \notin {None, held}
       \/ pc = "restore" /\ PartialBackup /\ target # memory.previous
       \/ /\ pc = "restoreFiles"
          /\ \/ next("backup", "destination", Lenient)
             \/ todo = {} /\ receipt["backup"] # None /\ target # None
       \/ pc = "restoreRegistration" /\ memory.previous = None /\ registration \notin {None, memory.new}
       \/ pc = "cleanup" /\ ~Removable

(* PreserveOriginalFailure: these errors roll the transaction back. *)
RolledBack ==
    /\ request.kind # "commit"
    /\ \/ pc \in {"backup", "activate", "activateReceipt", "register", "verify", "remove", "unregister"}
       \/ pc \in {"write", "publish"} /\ ~(memory.operation = "uninstall" /\ memory.phase = Staged)

(* Recovery starts from what the journal says: where an interruption leaves *)
(* a state for which that is not enough.                                    *)
Restoring ==
    /\ pc \in {"restoreFiles", "restoreReceipt", "restoreRegistration", "cleanup", "clean"}
    /\ journal # None /\ journal.phase # Committed
    /\ \/ journal.operation = "install" /\ journal.phase >= BackupMoved
       \/ receipt["backup"] # None /\ (~Lenient \/ receipt["destination"] # None)

(* The worker's error path: what was being created is deleted, and the     *)
(* request rolls back, or cleans up, or ends.                              *)
Abandon ==
    /\ receipt' = CASE pc \in {"activateReceipt", "restoreReceipt"} ->
                           [receipt EXCEPT !["destination"] = None]
                    [] pc = "stage" -> [receipt EXCEPT !["stage"] = request.version]
                    [] OTHER -> receipt
    /\ temporaries' = IF pc = "publish" THEN temporaries - 1 ELSE temporaries
    /\ \/ /\ RolledBack /\ GoTo("rollback") /\ UNCHANGED <<files, disturbed>>
       \/ /\ pc = "stage" /\ GoTo("cleanup") /\ UNCHANGED disturbed
          /\ \E copied \in SUBSET Inventory(request.version) :
                files' = [files EXCEPT !["stage"] =
                             [p \in Path |-> IF p \in copied THEN Package[request.version][p] ELSE None]]
       \/ /\ ~RolledBack \/ (pc = "remove" /\ todo = {})
          /\ pc # "stage" /\ Return /\ UNCHANGED files
          /\ disturbed' = (disturbed \/ Restoring \/ (locator /\ journal = None))
    /\ UNCHANGED <<registration, directories, locator, owner, journal, edited>>

Interfere == faults < MaxFaults /\ faults' = faults + 1

Refuse == Refuses /\ Abandon /\ UNCHANGED faults

Fail ==
    /\ pc # "idle"
    /\ Interfere
    /\ Abandon

(***************************************************************************)
(* The environment.                                                        *)
(***************************************************************************)

(* The worker dies; half of a copy and an unpublished document stay. *)
Crash ==
    /\ pc # "idle"
    /\ Interfere
    /\ Finish
    /\ disturbed' = \/ disturbed \/ Restoring
                    \/ locator /\ journal = None
                    \/ temporaries > 0
                    \/ receipt["destination"] = Torn
    /\ UNCHANGED <<disk, edited>>

(* A user changes, adds or deletes a file of the destination. *)
Edit(p, content) ==
    /\ files["destination"][p] # content
    /\ edited' = edited \cup {p}
    /\ Interfere
    /\ files' = [files EXCEPT !["destination"][p] = content]
    /\ UNCHANGED <<receipt, registration, books, pc, call, todo, disturbed>>

WorkerStep ==
    \/ RecoverExisting \/ ClassifyDestination \/ InspectInstallation
    \/ CreateLocator \/ PrepareTransaction \/ StagePackage
    \/ WriteTemporary \/ PublishJournal
    \/ MoveToBackup \/ Activate \/ ActivateReceipt \/ WriteRegistration \/ VerifyInstallation
    \/ RemoveInstallation \/ RemoveRegistration \/ CommitInstall
    \/ Rollback \/ RemoveActivatedFiles \/ RestoreBackup \/ RestoreFiles \/ RestoreReceipt
    \/ RestoreRegistration
    \/ CleanupTransaction \/ (\E t \in {"stage", "backup"} : RemoveCleanupTree(t)) \/ RemoveBooks
    \/ Refuse

Next ==
    \/ \E r \in Request : Start(r)
    \/ WorkerStep
    \/ Fail
    \/ Crash
    \/ \E p \in Path, content \in {None, Foreign} : Edit(p, content)

Spec == Init /\ [][Next]_vars

(* The installer runs the worker again: every request recovers first. *)
FairSpec == Spec /\ WF_vars(WorkerStep) /\ WF_vars(\E r \in Request : r.kind = "recover" /\ Start(r))
=============================================================================
