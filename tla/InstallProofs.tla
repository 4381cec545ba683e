---------------------------- MODULE InstallProofs ----------------------------
(***************************************************************************)
(* The inductive invariant of InstallTransaction and what it proves of the *)
(* installation transactions, for every number of paths, set of versions   *)
(* and number of interruptions.                                            *)
(*                                                                         *)
(* The invariant says what the worker knows at each of its steps (its      *)
(* request, its journal, the receipt it works through), which of the       *)
(* transaction's books are open there, and what the backup tree holds:     *)
(* only paths of the receipt it has, and none once they were restored,     *)
(* unless the transaction is committed.  RecoveryInv, in the second part,  *)
(* adds what destination, stage and backup hold of the previous and the    *)
(* new installation at each step.                                          *)
(***************************************************************************)
EXTENDS InstallProperties, TLAPS

(* The steps at which the worker knows the transaction's journal. *)
Journalled == {"stage", "write", "publish", "backup", "activate", "activateReceipt", "register",
               "verify", "remove", "unregister", "rollback", "deactivate", "restore",
               "restoreFiles", "restoreReceipt", "restoreRegistration"}

(* The steps at which it works through the receipt of a version. *)
Holding == {"backup", "activate", "activateReceipt", "remove", "deactivate", "restoreFiles",
            "restoreReceipt"}

(* The steps before the first journal is published. *)
Preparing == pc = "stage" \/ (pc \in {"write", "publish"} /\ memory.phase = Staged)

(* The journal of an installation names the new version. *)
Sound(j) == j \in Journal /\ (j.operation = "install" => j.new \in Version)

Emptied == \A p \in Path : files["backup"][p] = None

(* The types of what is on the disk. *)
DiskOK ==
    /\ files \in [Tree -> [Path -> Content \cup {None, Foreign}]]
    /\ receipt \in [Tree -> Version \cup {None, Torn}]
    /\ directories \subseteq {"stage", "backup"}
    /\ registration \in Version \cup {None}
    /\ journal \in Journal \cup {None}

(* The types of what the worker and the environment hold. *)
WorkerOK ==
    /\ pc \in Steps /\ request \in Request \cup {None} /\ memory \in Journal \cup {None}
    /\ held \in Version \cup {None} /\ todo \subseteq Path
    /\ temporaries \in Nat /\ faults \in 0..MaxFaults /\ edited \subseteq Path

FlagsOK == locator \in BOOLEAN /\ owner \in BOOLEAN /\ resume \in BOOLEAN /\ disturbed \in BOOLEAN

(* The worker has a request of the kind that its step serves. *)
RequestKnown ==
    /\ pc # "idle" => request \in Request
    /\ pc = "idle" => ~resume
    /\ pc = "recover" \/ resume => request.kind # "commit"
    /\ pc \in {"classify", "stage"} => request.kind = "install"
    /\ pc = "inspect" => request.kind = "uninstall"
    /\ pc \in {"locate", "prepare"} => request.kind \in {"install", "uninstall"}

(* It knows a sound journal where it works by one. *)
JournalKnown ==
    /\ pc \in Journalled => Sound(memory)
    /\ journal # None => Sound(journal)
    /\ pc = "stage" => memory.operation = "install" /\ memory.phase = Staged

(* It knows a receipt where it works through one, and no copy that the      *)
(* transaction keeps is torn.                                               *)
ReceiptKnown ==
    /\ pc \in Holding => held \in Version
    /\ pc \in {"locate", "prepare"} /\ request.kind = "uninstall" => held \in Version
    /\ Preparing /\ memory.operation = "uninstall" => held \in Version
    /\ receipt["stage"] # Torn /\ receipt["backup"] # Torn
    /\ pc \in {"backup", "remove"} => todo \subseteq Inventory(held)

(* An unpublished document is what a publication is about to replace, or   *)
(* what an interruption left.                                               *)
Unpublished ==
    /\ pc = "publish" => temporaries > 0
    /\ temporaries <= faults + (IF pc = "publish" THEN 1 ELSE 0)

(* The locator is there whenever something of the transaction is. *)
Opened ==
    /\ ~locator => journal = None /\ directories = {}
    /\ pc \in {"classify", "inspect", "locate"} => ~locator
    /\ pc \in Journalled \cup {"prepare", "cleanup", "clean"} => locator
    /\ pc \in {"prepare", "stage"} => journal = None
    /\ pc = "prepare" => directories = {}

(* After the commit the worker only cleans up. *)
CommittedPlaces ==
    journal # None /\ journal.phase = Committed =>
        pc \in {"idle", "recover", "commit", "cleanup", "clean"}

(* What the backup holds at each step. *)
BackedUp ==
    /\ Preparing \/ pc \in {"backup", "remove"} => "backup" \in directories /\ receipt["backup"] = None
    /\ "backup" \notin directories => receipt["backup"] = None /\ Emptied
    /\ receipt["backup"] # None =>
          \A p \in Path : files["backup"][p] # None => p \in Inventory(receipt["backup"])
    /\ pc \in {"backup", "remove"} => \A p \in Path : files["backup"][p] # None => p \in Inventory(held)
    /\ Preparing => Emptied
    /\ pc = "restoreFiles" /\ receipt["backup"] # None =>
          held = receipt["backup"] /\ \A p \in Inventory(held) \ todo : files["backup"][p] = None
    /\ pc = "restoreReceipt" => Emptied
    /\ pc \in {"restoreRegistration", "cleanup"} /\ receipt["backup"] # None =>
          Emptied \/ (journal # None /\ journal.phase = Committed)
    /\ pc = "clean" => Emptied \/ (journal # None /\ journal.phase = Committed)

(* The inductive invariant. *)
InstallInv ==
    /\ DiskOK /\ WorkerOK /\ FlagsOK
    /\ RequestKnown /\ JournalKnown /\ ReceiptKnown
    /\ Unpublished /\ Opened /\ CommittedPlaces /\ BackedUp

(***************************************************************************)
(* What the helpers of the steps do.                                       *)
(***************************************************************************)

(* A request is of one of four kinds. *)
LEMMA RequestShape ==
    \A r \in Request :
        /\ r.kind \in {"install", "commit", "recover", "uninstall"}
        /\ r.kind = "install" => r.version \in Version /\ r.repair \in BOOLEAN /\ r.defer \in BOOLEAN
  BY DEF Request

(* A commit that must recover first becomes a recovery. *)
LEMMA CommitRequest ==
    \A r \in Request :
        r.kind = "commit" =>
            [r EXCEPT !.kind = "recover"] \in Request /\ [r EXCEPT !.kind = "recover"].kind = "recover"
  BY DEF Request

(* A sound journal stays sound in every phase. *)
LEMMA SoundPhase ==
    ASSUME NEW j, Sound(j), NEW n \in 1..6
    PROVE  /\ Sound([j EXCEPT !.phase = n])
           /\ [j EXCEPT !.phase = n] \in Journal
           /\ [j EXCEPT !.phase = n].phase = n
           /\ [j EXCEPT !.phase = n].operation = j.operation
  BY DEF Sound, Journal, Staged, Committed

(* A return ends the call or goes on to a recovery. *)
LEMMA ReturnOutcome ==
    request \in Request /\ Return =>
        \/ Finish
        \/ /\ pc' = "recover" /\ request' \in Request /\ request'.kind = "recover"
           /\ memory' = None /\ held' = None /\ todo' = {} /\ resume' = FALSE
  BY CommitRequest DEF Return

(* After the recovery the request goes on to its own first step. *)
LEMMA ProceedOutcome ==
    request \in Request /\ request.kind # "commit" /\ Proceed =>
        \/ Finish
        \/ /\ \/ pc' = "classify" /\ request.kind = "install"
              \/ pc' = "inspect" /\ request.kind = "uninstall"
           /\ resume' = FALSE /\ UNCHANGED <<request, memory, held, todo>>
  BY RequestShape DEF Proceed

(* A refusal is an abandoned call without an interruption. *)
LEMMA RefuseOutcome == Refuse => pc # "idle" /\ Abandon /\ UNCHANGED faults
  BY DEF Refuse, Refuses

(* A rename moves one file from one tree to another. *)
LEMMA MoveTyped ==
    ASSUME files \in [Tree -> [Path -> Content \cup {None, Foreign}]],
           NEW from \in Tree, NEW to \in Tree, from # to, NEW p \in Path, Move(from, to, p)
    PROVE  /\ files' \in [Tree -> [Path -> Content \cup {None, Foreign}]]
           /\ \A t \in Tree, q \in Path : files'[t][q] =
                 IF files[from][p] = None \/ q # p \/ t \notin {from, to} THEN files[t][q]
                 ELSE IF t = to THEN files[from][p] ELSE None
<1>1. CASE files[from][p] = None
  BY <1>1 DEF Move
<1>2. CASE files[from][p] # None
  <2>1. files' = [files EXCEPT ![from][p] = None, ![to][p] = files[from][p]]
    BY <1>2 DEF Move
  <2>2. \A t \in Tree, q \in Path :
            files'[t][q] = IF q # p \/ t \notin {from, to} THEN files[t][q]
                           ELSE IF t = to THEN files[from][p] ELSE None
    BY <2>1, SMTT(20)
  <2>3. files' \in [Tree -> [Path -> Content \cup {None, Foreign}]]
    <3> PICK f, g : /\ f = [files[from] EXCEPT ![p] = None]
                    /\ g = [files[to] EXCEPT ![p] = files[from][p]]
      OBVIOUS
    <3>1. f \in [Path -> Content \cup {None, Foreign}] /\ g \in [Path -> Content \cup {None, Foreign}]
      OBVIOUS
    <3>2. files' = [[files EXCEPT ![from] = f] EXCEPT ![to] = g]
      BY <2>1
    <3> QED BY <3>1, <3>2
  <2> QED BY <1>2, <2>2, <2>3
<1> QED BY <1>1, <1>2

(* Classification leaves the disk alone; it goes on with the receipt it     *)
(* found, or with none, or returns.                                         *)
LEMMA ClassifyOutcome ==
    ClassifyDestination =>
        /\ pc = "classify" /\ UNCHANGED <<disk, environment>>
        /\ \/ pc' = "locate" /\ held' \in Version \cup {None} /\ UNCHANGED <<request, memory, resume, todo>>
           \/ Return
<1> SUFFICES ASSUME ClassifyDestination
             PROVE  \/ /\ pc' = "locate" /\ held' \in Version \cup {None}
                       /\ UNCHANGED <<request, memory, resume, todo>>
                    \/ Return
  BY DEF ClassifyDestination
<1> DEFINE v == receipt["destination"]
           owned == /\ v \in Version
                    /\ Identified(v, ~request.repair)
                    /\ request.repair => HoldsAll("destination", v, TRUE)
<1>1. IF EmptyDestination \/ owned
      THEN pc' = "locate" /\ held' = v /\ UNCHANGED <<request, memory, resume, todo>>
      ELSE Return
  BY DEF ClassifyDestination
<1>2. EmptyDestination \/ owned => v \in Version \cup {None}
  BY DEF EmptyDestination
<1> HIDE DEF v, owned
<1> QED BY <1>1, <1>2

(* Inspection leaves the disk alone; it goes on with the installed receipt, *)
(* or returns.                                                              *)
LEMMA InspectOutcome ==
    InspectInstallation =>
        /\ pc = "inspect" /\ UNCHANGED <<disk, environment>>
        /\ \/ pc' = "locate" /\ held' \in Version /\ UNCHANGED <<request, memory, resume, todo>>
           \/ Return
<1> SUFFICES ASSUME InspectInstallation
             PROVE  \/ pc' = "locate" /\ held' \in Version /\ UNCHANGED <<request, memory, resume, todo>>
                    \/ Return
  BY DEF InspectInstallation
<1> DEFINE v == receipt["destination"]
<1>1. IF v \in Version /\ Identified(v, FALSE)
      THEN pc' = "locate" /\ held' = v /\ UNCHANGED <<request, memory, resume, todo>>
      ELSE Return
  BY DEF InspectInstallation
<1> HIDE DEF v
<1> QED BY <1>1

(* What the removal of the books can do: take one of them, or close the    *)
(* transaction and end or resume the request.                               *)
BooksRemoved ==
    /\ pc = "clean" /\ directories = {} /\ request \in Request
    /\ UNCHANGED <<payload, directories, temporaries, environment>>
    /\ \/ /\ UNCHANGED <<pc, request, memory, held, todo>> /\ locator' = locator /\ resume' = resume
          /\ owner' \in BOOLEAN /\ journal' \in {journal, None}
       \/ /\ locator' = FALSE /\ owner' = owner /\ journal = None /\ journal' = None
          /\ \/ /\ pc' = "idle" /\ request' = None /\ memory' = None /\ held' = None
                /\ todo' = {} /\ resume' = FALSE
             \/ /\ \/ pc' = "classify" /\ request.kind = "install"
                   \/ pc' = "inspect" /\ request.kind = "uninstall"
                /\ resume' = FALSE /\ UNCHANGED <<request, memory, held, todo>>

LEMMA RemoveBooksOutcome == InstallInv /\ RemoveBooks => BooksRemoved
<1> SUFFICES ASSUME InstallInv, RemoveBooks PROVE BooksRemoved
  OBVIOUS
<1> USE DEF BooksRemoved
<1>1. request \in Request /\ (resume => request.kind # "commit") /\ owner \in BOOLEAN
  BY DEF InstallInv, RequestKnown, RemoveBooks, FlagsOK
<1>2. CASE UNCHANGED <<pc, call, todo, locator>>
  BY <1>1, <1>2 DEF RemoveBooks, call, InstallInv, FlagsOK
<1>3. CASE ~UNCHANGED <<pc, call, todo, locator>>
  <2>1. journal = None /\ ~locator' /\ UNCHANGED <<journal, owner>> /\ (Finish \/ (resume /\ Proceed))
    BY <1>3 DEF RemoveBooks
  <2> QED BY <1>1, <2>1, ProceedOutcome DEF RemoveBooks, Finish
<1> QED BY <1>2, <1>3

(* A commit ends without effect, or takes up a journal that is verified. *)
LEMMA CommitOutcome ==
    CommitInstall =>
        /\ pc = "commit" /\ UNCHANGED <<disk, environment>>
        /\ \/ Finish
           \/ /\ locator /\ journal # None /\ journal.operation = "install"
              /\ journal.phase \in {Verified, Committed}
              /\ memory' = [journal EXCEPT !.phase = Committed]
              /\ pc' = IF journal.phase = Committed THEN "cleanup" ELSE "write"
              /\ UNCHANGED <<request, held, todo, resume>>
  BY DEF CommitInstall, Committable

(***************************************************************************)
(* Every step keeps the invariant.                                         *)
(***************************************************************************)

(* A new request starts with nothing in hand. *)
LEMMA StartKeeps ==
    ASSUME InstallInv, NEW r \in Request, Start(r)
    PROVE  InstallInv'
<1>1. DiskOK'
  BY DEF InstallInv, DiskOK, disk, environment, Start
<1>2. WorkerOK'
  BY DEF InstallInv, WorkerOK, disk, environment, Start, Steps
<1>3. FlagsOK'
  BY ZenonT(10) DEF InstallInv, FlagsOK, disk, environment, Start
<1>4. RequestKnown'
  BY DEF InstallInv, RequestKnown, environment, Start
<1>5. JournalKnown'
  BY DEF InstallInv, JournalKnown, Journalled, Sound, disk, environment, Start
<1>6. ReceiptKnown'
  BY DEF InstallInv, ReceiptKnown, Preparing, Holding, disk, environment, Start
<1>7. Unpublished'
  BY DEF InstallInv, Unpublished, disk, environment, Start
<1>8. Opened'
  BY DEF InstallInv, Opened, Journalled, disk, environment, Start
<1>9. CommittedPlaces'
  BY DEF InstallInv, CommittedPlaces, environment, Start
<1>10. BackedUp'
  BY DEF InstallInv, BackedUp, Preparing, Emptied, disk, environment, Start
<1> QED BY <1>1, <1>2, <1>3, <1>4, <1>5, <1>6, <1>7, <1>8, <1>9, <1>10 DEF InstallInv

(* Recovery finds the journal, or an empty root. *)
LEMMA RecoverExistingKeeps ==
    ASSUME InstallInv, RecoverExisting
    PROVE  InstallInv'
<1>1. DiskOK'
  BY DEF InstallInv, DiskOK, disk, environment, Finish, Committed, RecoverExisting, RecoveryStep
<1>2. WorkerOK'
  BY JournalAssumption, ReturnOutcome, ProceedOutcome DEF InstallInv, WorkerOK, RequestKnown,
     JournalKnown, Opened, Journalled, Sound, disk, environment, Finish, Committed, RecoverExisting,
     RecoveryStep, Steps
<1>3. FlagsOK'
  BY ReturnOutcome, ProceedOutcome, ZenonT(10) DEF InstallInv, FlagsOK, RequestKnown, disk,
     environment, Finish, Committed, RecoverExisting, RecoveryStep
<1>4. RequestKnown'
  BY ReturnOutcome, ProceedOutcome DEF InstallInv, RequestKnown, environment, Finish, Committed,
     RecoverExisting, RecoveryStep
<1>5. JournalKnown'
  BY ReturnOutcome, ProceedOutcome DEF InstallInv, RequestKnown, JournalKnown, Journalled, Sound,
     disk, environment, Finish, Committed, RecoverExisting, RecoveryStep
<1>6. ReceiptKnown'
  BY ReturnOutcome, ProceedOutcome DEF InstallInv, RequestKnown, ReceiptKnown, Preparing, Holding,
     disk, environment, Finish, Committed, RecoverExisting, RecoveryStep
<1>7. Unpublished'
  BY ReturnOutcome, ProceedOutcome DEF InstallInv, RequestKnown, Unpublished, disk, environment,
     Finish, Committed, RecoverExisting, RecoveryStep
<1>8. Opened'
  BY ReturnOutcome, ProceedOutcome DEF InstallInv, RequestKnown, Opened, Journalled, disk,
     environment, Finish, Committed, RecoverExisting, RecoveryStep
<1>9. CommittedPlaces'
  BY JournalAssumption, ReturnOutcome DEF InstallInv, WorkerOK, RequestKnown, JournalKnown, Opened,
     CommittedPlaces, Journalled, Sound, disk, environment, Finish, Committed, RecoverExisting,
     RecoveryStep
<1>10. BackedUp'
  BY ReturnOutcome, ProceedOutcome DEF InstallInv, RequestKnown, BackedUp, Preparing, Emptied, disk,
     environment, Finish, Committed, RecoverExisting, RecoveryStep
<1> QED BY <1>1, <1>2, <1>3, <1>4, <1>5, <1>6, <1>7, <1>8, <1>9, <1>10 DEF InstallInv

(* Classification only reads the disk. *)
LEMMA ClassifyDestinationKeeps ==
    ASSUME InstallInv, ClassifyDestination
    PROVE  InstallInv'
<1>1. DiskOK'
  BY ClassifyOutcome DEF InstallInv, DiskOK, disk, environment
<1>2. WorkerOK'
  BY ReturnOutcome, ClassifyOutcome DEF InstallInv, WorkerOK, RequestKnown, disk, environment,
     Finish, Steps
<1>3. FlagsOK'
  BY ReturnOutcome, ClassifyOutcome, ZenonT(10) DEF InstallInv, FlagsOK, RequestKnown, disk,
     environment, Finish
<1>4. RequestKnown'
  BY ReturnOutcome, ClassifyOutcome DEF InstallInv, RequestKnown, environment, Finish
<1>5. JournalKnown'
  BY ReturnOutcome, ClassifyOutcome DEF InstallInv, RequestKnown, JournalKnown, Journalled, Sound,
     disk, environment, Finish
<1>6. ReceiptKnown'
  BY ReturnOutcome, ClassifyOutcome DEF InstallInv, RequestKnown, ReceiptKnown, Preparing, Holding,
     disk, environment, Finish
<1>7. Unpublished'
  BY ReturnOutcome, ClassifyOutcome DEF InstallInv, RequestKnown, Unpublished, disk, environment,
     Finish
<1>8. Opened'
  <2>1. UNCHANGED <<locator, journal, directories>>
    BY ClassifyOutcome DEF disk, environment
  <2>2. pc' \in {"locate", "idle", "recover"} /\ ~locator
    BY ClassifyOutcome, ReturnOutcome DEF InstallInv, RequestKnown, Opened, Finish
  <2> QED BY <2>1, <2>2 DEF InstallInv, Opened, Journalled
<1>9. CommittedPlaces'
  BY ClassifyOutcome DEF InstallInv, CommittedPlaces, disk, environment, Finish
<1>10. BackedUp'
  BY ReturnOutcome, ClassifyOutcome DEF InstallInv, RequestKnown, BackedUp, Preparing, Emptied,
     disk, environment, Finish
<1> QED BY <1>1, <1>2, <1>3, <1>4, <1>5, <1>6, <1>7, <1>8, <1>9, <1>10 DEF InstallInv

(* Inspection only reads the disk. *)
LEMMA InspectInstallationKeeps ==
    ASSUME InstallInv, InspectInstallation
    PROVE  InstallInv'
<1>1. DiskOK'
  BY InspectOutcome DEF InstallInv, DiskOK, disk, environment
<1>2. WorkerOK'
  BY ReturnOutcome, InspectOutcome DEF InstallInv, WorkerOK, RequestKnown, disk, environment,
     Finish, Steps
<1>3. FlagsOK'
  BY ReturnOutcome, InspectOutcome, ZenonT(10) DEF InstallInv, FlagsOK, RequestKnown, disk,
     environment, Finish
<1>4. RequestKnown'
  BY ReturnOutcome, InspectOutcome DEF InstallInv, RequestKnown, environment, Finish
<1>5. JournalKnown'
  BY ReturnOutcome, InspectOutcome DEF InstallInv, RequestKnown, JournalKnown, Journalled, Sound,
     disk, environment, Finish
<1>6. ReceiptKnown'
  BY ReturnOutcome, InspectOutcome DEF InstallInv, RequestKnown, ReceiptKnown, Preparing, Holding,
     disk, environment, Finish
<1>7. Unpublished'
  BY ReturnOutcome, InspectOutcome DEF InstallInv, RequestKnown, Unpublished, disk, environment,
     Finish
<1>8. Opened'
  <2>1. UNCHANGED <<locator, journal, directories>>
    BY InspectOutcome DEF disk, environment
  <2>2. pc' \in {"locate", "idle", "recover"} /\ ~locator
    BY InspectOutcome, ReturnOutcome DEF InstallInv, RequestKnown, Opened, Finish
  <2> QED BY <2>1, <2>2 DEF InstallInv, Opened, Journalled
<1>9. CommittedPlaces'
  BY InspectOutcome DEF InstallInv, CommittedPlaces, disk, environment, Finish
<1>10. BackedUp'
  BY ReturnOutcome, InspectOutcome DEF InstallInv, RequestKnown, BackedUp, Preparing, Emptied, disk,
     environment, Finish
<1> QED BY <1>1, <1>2, <1>3, <1>4, <1>5, <1>6, <1>7, <1>8, <1>9, <1>10 DEF InstallInv

(* The locator opens a transaction that has no journal yet. *)
LEMMA CreateLocatorKeeps ==
    ASSUME InstallInv, CreateLocator
    PROVE  InstallInv'
<1>1. DiskOK'
  BY DEF InstallInv, DiskOK, payload, environment, GoTo, CreateLocator
<1>2. WorkerOK'
  BY DEF InstallInv, WorkerOK, call, environment, GoTo, CreateLocator, Steps
<1>3. FlagsOK'
  BY ZenonT(10) DEF InstallInv, FlagsOK, call, environment, GoTo, CreateLocator
<1>4. RequestKnown'
  BY DEF InstallInv, RequestKnown, call, environment, GoTo, CreateLocator
<1>5. JournalKnown'
  BY DEF InstallInv, JournalKnown, Journalled, Sound, environment, GoTo, CreateLocator
<1>6. ReceiptKnown'
  BY DEF InstallInv, ReceiptKnown, Preparing, Holding, payload, call, environment, GoTo,
     CreateLocator
<1>7. Unpublished'
  BY DEF InstallInv, Unpublished, environment, GoTo, CreateLocator
<1>8. Opened'
  BY DEF InstallInv, Opened, Journalled, environment, GoTo, CreateLocator
<1>9. CommittedPlaces'
  BY DEF InstallInv, CommittedPlaces, environment, GoTo, CreateLocator
<1>10. BackedUp'
  BY DEF InstallInv, BackedUp, Preparing, Emptied, payload, environment, GoTo, CreateLocator
<1> QED BY <1>1, <1>2, <1>3, <1>4, <1>5, <1>6, <1>7, <1>8, <1>9, <1>10 DEF InstallInv

(* Preparation makes empty directories and the first journal in memory. *)
LEMMA PrepareTransactionKeeps ==
    ASSUME InstallInv, PrepareTransaction
    PROVE  InstallInv'
<1>1. DiskOK'
  BY DEF InstallInv, DiskOK, payload, environment, Staged, PrepareTransaction
<1>2. WorkerOK'
  BY RequestShape DEF InstallInv, DiskOK, WorkerOK, FlagsOK, RequestKnown, JournalKnown,
     ReceiptKnown, Opened, BackedUp, Preparing, Journalled, Holding, Sound, environment, Staged,
     Committed, PrepareTransaction, Steps, Journal
<1>3. FlagsOK'
  BY ZenonT(10) DEF InstallInv, FlagsOK, environment, Staged, PrepareTransaction
<1>4. RequestKnown'
  BY DEF InstallInv, RequestKnown, environment, Staged, PrepareTransaction
<1>5. JournalKnown'
  BY RequestShape DEF InstallInv, DiskOK, WorkerOK, FlagsOK, RequestKnown, JournalKnown,
     ReceiptKnown, Opened, BackedUp, Preparing, Journalled, Holding, Sound, environment, Staged,
     Committed, PrepareTransaction, Journal
<1>6. ReceiptKnown'
  BY DEF InstallInv, ReceiptKnown, Preparing, Holding, payload, environment, Staged,
     PrepareTransaction
<1>7. Unpublished'
  BY DEF InstallInv, Unpublished, environment, Staged, PrepareTransaction
<1>8. Opened'
  BY DEF InstallInv, Opened, Journalled, environment, Staged, PrepareTransaction
<1>9. CommittedPlaces'
  BY DEF InstallInv, CommittedPlaces, environment, Staged, PrepareTransaction
<1>10. BackedUp'
  BY DEF InstallInv, DiskOK, WorkerOK, FlagsOK, RequestKnown, JournalKnown, ReceiptKnown,
     Unpublished, Opened, CommittedPlaces, BackedUp, Preparing, Emptied, Journalled, Holding, Sound,
     payload, environment, Staged, PrepareTransaction
<1> QED BY <1>1, <1>2, <1>3, <1>4, <1>5, <1>6, <1>7, <1>8, <1>9, <1>10 DEF InstallInv

(* Staging writes the stage only. *)
LEMMA StagePackageKeeps ==
    ASSUME InstallInv, StagePackage
    PROVE  InstallInv'
<1>1. DiskOK'
  BY JournalAssumption, ValueAssumption, PackageAssumption, PathAssumption, BoundAssumption,
     RequestShape DEF InstallInv, DiskOK, WorkerOK, RequestKnown, JournalKnown, ReceiptKnown,
     BackedUp, Preparing, Emptied, Journalled, Holding, Sound, books, environment, GoTo, Staged,
     Committed, StagePackage, Tree
<1>2. WorkerOK'
  BY DEF InstallInv, WorkerOK, books, call, environment, GoTo, StagePackage, Steps
<1>3. FlagsOK'
  BY ZenonT(10) DEF InstallInv, FlagsOK, books, call, environment, GoTo, StagePackage
<1>4. RequestKnown'
  BY DEF InstallInv, RequestKnown, call, environment, GoTo, StagePackage
<1>5. JournalKnown'
  BY DEF InstallInv, JournalKnown, Journalled, Sound, books, call, environment, GoTo, StagePackage
<1>6. ReceiptKnown'
  BY JournalAssumption, ValueAssumption, PackageAssumption, PathAssumption, BoundAssumption,
     RequestShape DEF InstallInv, DiskOK, WorkerOK, RequestKnown, JournalKnown, ReceiptKnown,
     BackedUp, Preparing, Emptied, Journalled, Holding, Sound, call, environment, GoTo, Staged,
     Committed, StagePackage
<1>7. Unpublished'
  BY DEF InstallInv, Unpublished, books, environment, GoTo, StagePackage
<1>8. Opened'
  BY DEF InstallInv, Opened, Journalled, books, environment, GoTo, StagePackage
<1>9. CommittedPlaces'
  BY DEF InstallInv, CommittedPlaces, books, environment, GoTo, StagePackage
<1>10. BackedUp'
  BY DEF InstallInv, BackedUp, Preparing, Emptied, books, environment, GoTo, StagePackage
<1> QED BY <1>1, <1>2, <1>3, <1>4, <1>5, <1>6, <1>7, <1>8, <1>9, <1>10 DEF InstallInv

(* A temporary document precedes each publication. *)
LEMMA WriteTemporaryKeeps ==
    ASSUME InstallInv, WriteTemporary
    PROVE  InstallInv'
<1>1. DiskOK'
  BY DEF InstallInv, DiskOK, payload, environment, GoTo, WriteTemporary
<1>2. WorkerOK'
  BY DEF InstallInv, WorkerOK, call, environment, GoTo, WriteTemporary, Steps
<1>3. FlagsOK'
  BY ZenonT(10) DEF InstallInv, FlagsOK, call, environment, GoTo, WriteTemporary
<1>4. RequestKnown'
  BY DEF InstallInv, RequestKnown, call, environment, GoTo, WriteTemporary
<1>5. JournalKnown'
  BY DEF InstallInv, JournalKnown, Journalled, Sound, call, environment, GoTo, WriteTemporary
<1>6. ReceiptKnown'
  BY DEF InstallInv, ReceiptKnown, Preparing, Holding, payload, call, environment, GoTo,
     WriteTemporary
<1>7. Unpublished'
  BY DEF InstallInv, WorkerOK, JournalKnown, Unpublished, Journalled, Sound, environment, GoTo,
     WriteTemporary
<1>8. Opened'
  BY DEF InstallInv, Opened, Journalled, environment, GoTo, WriteTemporary
<1>9. CommittedPlaces'
  BY DEF InstallInv, CommittedPlaces, environment, GoTo, WriteTemporary
<1>10. BackedUp'
  BY DEF InstallInv, BackedUp, Preparing, Emptied, payload, call, environment, GoTo, WriteTemporary
<1> QED BY <1>1, <1>2, <1>3, <1>4, <1>5, <1>6, <1>7, <1>8, <1>9, <1>10 DEF InstallInv

(* Publication makes the journal in memory the one on the disk. *)
LEMMA PublishJournalKeeps ==
    ASSUME InstallInv, PublishJournal
    PROVE  InstallInv'
<1>1. DiskOK'
  BY DEF InstallInv, DiskOK, WorkerOK, JournalKnown, Journalled, Sound, payload, environment, GoTo,
     Record, Treat, Finish, Staged, BackupMoved, PayloadActivated, RegistrationWritten, Verified,
     Committed, PublishJournal
<1>2. WorkerOK'
  BY DEF InstallInv, DiskOK, WorkerOK, FlagsOK, RequestKnown, JournalKnown, ReceiptKnown,
     Unpublished, Opened, CommittedPlaces, BackedUp, Preparing, Emptied, Journalled, Holding, Sound,
     call, environment, GoTo, Record, Treat, Finish, Staged, BackupMoved, PayloadActivated,
     RegistrationWritten, Verified, Committed, PublishJournal, Steps, Journal, Inventory
<1>3. FlagsOK'
  BY ZenonT(10) DEF InstallInv, FlagsOK, call, environment, GoTo, Record, Treat, Finish, Staged,
     BackupMoved, PayloadActivated, RegistrationWritten, Verified, Committed, PublishJournal
<1>4. RequestKnown'
  BY DEF InstallInv, RequestKnown, call, environment, GoTo, Record, Treat, Finish, Staged,
     BackupMoved, PayloadActivated, RegistrationWritten, Verified, Committed, PublishJournal
<1>5. JournalKnown'
  BY DEF InstallInv, JournalKnown, Journalled, Sound, call, environment, GoTo, Record, Treat,
     Finish, Staged, BackupMoved, PayloadActivated, RegistrationWritten, Verified, Committed,
     PublishJournal, Journal
<1>6. ReceiptKnown'
  BY DEF InstallInv, WorkerOK, JournalKnown, ReceiptKnown, Preparing, Journalled, Holding, Sound,
     payload, environment, GoTo, Record, Treat, Finish, Staged, BackupMoved, PayloadActivated,
     RegistrationWritten, Verified, Committed, PublishJournal, Journal
<1>7. Unpublished'
  BY DEF InstallInv, WorkerOK, JournalKnown, Unpublished, Journalled, Sound, environment, GoTo,
     Record, Treat, Finish, Staged, BackupMoved, PayloadActivated, RegistrationWritten, Verified,
     Committed, PublishJournal
<1>8. Opened'
  BY DEF InstallInv, Opened, Journalled, environment, GoTo, Record, Treat, Finish, Staged,
     BackupMoved, PayloadActivated, RegistrationWritten, Verified, Committed, PublishJournal
<1>9. CommittedPlaces'
  BY DEF InstallInv, CommittedPlaces, environment, GoTo, Record, Treat, Finish, Staged, BackupMoved,
     PayloadActivated, RegistrationWritten, Verified, Committed, PublishJournal
<1>10. BackedUp'
  <2>1. UNCHANGED <<files, receipt, directories>> /\ journal' = memory
    BY DEF PublishJournal, payload
  <2>2. CASE memory.phase = Staged
    <3>1. Emptied /\ receipt["backup"] = None /\ "backup" \in directories
      BY <2>2 DEF InstallInv, BackedUp, Preparing, PublishJournal
    <3>2. pc' \notin {"restoreFiles"}
      BY <2>2 DEF PublishJournal, GoTo, Record, Treat, Finish
    <3> QED BY <2>1, <3>1, <3>2 DEF BackedUp, Emptied
  <2>3. CASE memory.phase # Staged
    <3>1. pc' \notin {"backup", "remove", "restoreFiles", "restoreReceipt", "restoreRegistration",
                     "clean", "stage"}
      BY <2>3 DEF PublishJournal, GoTo, Record, Treat, Finish
    <3>2. ~Preparing'
      <4>1. Sound(memory)
        BY DEF InstallInv, JournalKnown, Journalled, PublishJournal
      <4> QED BY <2>3, <4>1 DEF PublishJournal, GoTo, Record, Treat, Finish, Preparing,
           Staged, BackupMoved, Committed, PayloadActivated, RegistrationWritten, Verified,
           Sound, Journal
    <3>3. pc' = "cleanup" => journal'.phase = Committed /\ journal' # None
      <4>1. memory \in Journal
        BY DEF InstallInv, JournalKnown, Journalled, PublishJournal, Sound
      <4>2. memory # None
        BY <4>1, JournalAssumption
      <4> QED BY <2>1, <2>3, <4>2 DEF PublishJournal, GoTo, Record, Treat, Finish
    <3> QED BY <2>1, <3>1, <3>2, <3>3 DEF InstallInv, BackedUp, Emptied
  <2> QED BY <2>2, <2>3
<1> QED BY <1>1, <1>2, <1>3, <1>4, <1>5, <1>6, <1>7, <1>8, <1>9, <1>10 DEF InstallInv

(* The previous installation moves to a backup that holds its paths *)
(* only.                                                            *)
LEMMA MoveToBackupKeeps ==
    ASSUME InstallInv, MoveToBackup
    PROVE  InstallInv'
<1>1. DiskOK'
  BY DEF InstallInv, DiskOK, Move, books, environment, Record, Treated, CanMove, BackupMoved,
     MoveToBackup, Holds, Tree
<1>2. WorkerOK'
  <2>1. CASE todo # {}
    BY <2>1, SMTT(20) DEF InstallInv, WorkerOK, MoveToBackup, Treated, call, Steps, environment,
         books
  <2>2. CASE todo = {}
    <3>1. Sound(memory)
      BY DEF InstallInv, JournalKnown, Journalled, MoveToBackup
    <3>2. [memory EXCEPT !.phase = 2] \in Journal
      <4>1. 2 \in 1..6
        OBVIOUS
      <4> QED BY <3>1, <4>1, SoundPhase
    <3>3. /\ memory' \in Journal /\ pc' = "write"
          /\ UNCHANGED <<request, held, resume, todo, temporaries, faults, edited>>
      BY <2>2, <3>2 DEF MoveToBackup, Record, BackupMoved, books, environment
    <3> QED BY <3>3 DEF InstallInv, WorkerOK, Steps
  <2> QED BY <2>1, <2>2
<1>3. FlagsOK'
  BY ZenonT(10) DEF InstallInv, FlagsOK, Move, books, call, environment, Record, Treated, CanMove,
     BackupMoved, MoveToBackup, Holds
<1>4. RequestKnown'
  BY DEF InstallInv, RequestKnown, Move, call, environment, Record, Treated, CanMove, BackupMoved,
     MoveToBackup, Holds
<1>5. JournalKnown'
  BY DEF InstallInv, DiskOK, WorkerOK, FlagsOK, RequestKnown, JournalKnown, ReceiptKnown, Opened,
     BackedUp, Preparing, Journalled, Holding, Sound, Move, books, call, environment, Record,
     Treated, CanMove, Staged, BackupMoved, Committed, MoveToBackup, Holds, Journal
<1>6. ReceiptKnown'
  BY JournalAssumption, ValueAssumption, PackageAssumption, BoundAssumption DEF InstallInv, DiskOK,
     WorkerOK, FlagsOK, RequestKnown, JournalKnown, ReceiptKnown, Unpublished, Opened,
     CommittedPlaces, BackedUp, Preparing, Emptied, Journalled, Holding, Sound, Move, call,
     environment, Record, Treated, CanMove, BackupMoved, MoveToBackup, Holds, Tree
<1>7. Unpublished'
  BY DEF InstallInv, Unpublished, Move, books, environment, Record, Treated, CanMove, BackupMoved,
     MoveToBackup, Holds
<1>8. Opened'
  BY DEF InstallInv, Opened, Journalled, Move, books, environment, Record, Treated, CanMove,
     BackupMoved, MoveToBackup, Holds
<1>9. CommittedPlaces'
  BY DEF InstallInv, CommittedPlaces, Move, books, environment, Record, Treated, CanMove,
     BackupMoved, MoveToBackup, Holds
<1>10. BackedUp'
  <2>1. CASE todo # {}
    <3>1. PICK p \in todo : /\ p = First(todo) /\ CanMove("destination", "backup", memory.repair, p)
                            /\ Move("destination", "backup", p)
                            /\ Treated(p) /\ UNCHANGED receipt
      BY <2>1 DEF MoveToBackup
    <3>2. p \in Path /\ p \in Inventory(held) /\ held \in Version
      BY <3>1 DEF InstallInv, WorkerOK, ReceiptKnown, Holding, MoveToBackup
    <3>3. \A q \in Path : files'["backup"][q] # None => q = p \/ files["backup"][q] # None
      BY <3>1, <3>2, MoveTyped DEF InstallInv, DiskOK, Tree
    <3> QED BY <3>1, <3>2, <3>3 DEF InstallInv, BackedUp, Preparing, MoveToBackup, Treated,
         call, books
  <2>2. CASE todo = {}
    <3>1. pc' = "write" /\ memory'.phase # 1 /\ UNCHANGED <<files, directories, journal>>
          /\ receipt' = [receipt EXCEPT !["destination"] = None, !["backup"] = held]
      BY <2>2 DEF MoveToBackup, Record, BackupMoved, books, InstallInv, JournalKnown,
           Journalled, Sound, Journal
    <3> QED BY <3>1, SMTT(20) DEF InstallInv, BackedUp, Preparing, Emptied, Staged,
         MoveToBackup, ReceiptKnown, Holding, DiskOK, Tree, Opened
  <2> QED BY <2>1, <2>2
<1> QED BY <1>1, <1>2, <1>3, <1>4, <1>5, <1>6, <1>7, <1>8, <1>9, <1>10 DEF InstallInv

(* Activation moves staged files to their places. *)
LEMMA ActivateKeeps ==
    ASSUME InstallInv, Activate
    PROVE  InstallInv'
<1>1. DiskOK'
  BY DEF InstallInv, DiskOK, Move, books, environment, GoTo, Treated, CanMove, Activate, Holds, Tree
<1>2. WorkerOK'
  BY DEF InstallInv, WorkerOK, Move, books, call, environment, GoTo, Treated, CanMove, Activate,
     Holds, Steps
<1>3. FlagsOK'
  BY ZenonT(10) DEF InstallInv, FlagsOK, Move, books, call, environment, GoTo, Treated, CanMove,
     Activate, Holds
<1>4. RequestKnown'
  BY DEF InstallInv, RequestKnown, Move, call, environment, GoTo, Treated, CanMove, Activate, Holds
<1>5. JournalKnown'
  BY DEF InstallInv, JournalKnown, Journalled, Sound, Move, books, call, environment, GoTo, Treated,
     CanMove, Activate, Holds
<1>6. ReceiptKnown'
  BY DEF InstallInv, DiskOK, JournalKnown, ReceiptKnown, Preparing, Journalled, Holding, Sound,
     Move, call, environment, GoTo, Treated, CanMove, Activate, Holds, Tree
<1>7. Unpublished'
  BY DEF InstallInv, Unpublished, Move, books, environment, GoTo, Treated, CanMove, Activate, Holds
<1>8. Opened'
  BY DEF InstallInv, Opened, Journalled, Move, books, environment, GoTo, Treated, CanMove, Activate,
     Holds
<1>9. CommittedPlaces'
  BY DEF InstallInv, CommittedPlaces, Move, books, environment, GoTo, Treated, CanMove, Activate,
     Holds
<1>10. BackedUp'
  BY DEF InstallInv, DiskOK, JournalKnown, ReceiptKnown, BackedUp, Preparing, Emptied, Journalled,
     Holding, Sound, Move, books, environment, GoTo, Treated, CanMove, Activate, Holds, Tree
<1> QED BY <1>1, <1>2, <1>3, <1>4, <1>5, <1>6, <1>7, <1>8, <1>9, <1>10 DEF InstallInv

(* The new receipt follows the last file. *)
LEMMA ActivateReceiptKeeps ==
    ASSUME InstallInv, ActivateReceipt
    PROVE  InstallInv'
<1>1. DiskOK'
  BY DEF InstallInv, DiskOK, WorkerOK, JournalKnown, Journalled, Sound, books, environment, Record,
     PayloadActivated, ActivateReceipt
<1>2. WorkerOK'
  <2>1. Sound(memory) /\ 3 \in 1..6
    BY DEF InstallInv, JournalKnown, Journalled, ActivateReceipt
  <2>2. [memory EXCEPT !.phase = 3] \in Journal
    BY <2>1, SoundPhase
  <2>3. memory' \in Journal /\ pc' = "write" /\ UNCHANGED <<request, held, todo, temporaries, faults, edited>>
    BY <2>2 DEF ActivateReceipt, Record, PayloadActivated, books, environment
  <2> QED BY <2>3 DEF InstallInv, WorkerOK, Steps
<1>3. FlagsOK'
  BY ZenonT(10) DEF InstallInv, FlagsOK, books, environment, Record, PayloadActivated,
     ActivateReceipt
<1>4. RequestKnown'
  BY DEF InstallInv, RequestKnown, environment, Record, PayloadActivated, ActivateReceipt
<1>5. JournalKnown'
  BY DEF InstallInv, DiskOK, WorkerOK, FlagsOK, RequestKnown, JournalKnown, ReceiptKnown, Opened,
     BackedUp, Preparing, Journalled, Holding, Sound, books, environment, Record, Staged,
     PayloadActivated, Committed, ActivateReceipt, Journal
<1>6. ReceiptKnown'
  BY DEF InstallInv, ReceiptKnown, Preparing, Holding, environment, Record, PayloadActivated,
     ActivateReceipt
<1>7. Unpublished'
  BY DEF InstallInv, Unpublished, books, environment, Record, PayloadActivated, ActivateReceipt
<1>8. Opened'
  BY DEF InstallInv, Opened, Journalled, books, environment, Record, PayloadActivated,
     ActivateReceipt
<1>9. CommittedPlaces'
  BY DEF InstallInv, CommittedPlaces, books, environment, Record, PayloadActivated, ActivateReceipt
<1>10. BackedUp'
  BY JournalAssumption DEF InstallInv, DiskOK, WorkerOK, FlagsOK, RequestKnown, JournalKnown,
     ReceiptKnown, Unpublished, Opened, CommittedPlaces, BackedUp, Preparing, Emptied, Journalled,
     Holding, Sound, books, environment, Record, Staged, PayloadActivated, Committed,
     ActivateReceipt
<1> QED BY <1>1, <1>2, <1>3, <1>4, <1>5, <1>6, <1>7, <1>8, <1>9, <1>10 DEF InstallInv

(* The registration follows the receipt. *)
LEMMA WriteRegistrationKeeps ==
    ASSUME InstallInv, WriteRegistration
    PROVE  InstallInv'
<1>1. DiskOK'
  BY DEF InstallInv, DiskOK, WorkerOK, JournalKnown, Journalled, Sound, books, environment, Record,
     RegistrationWritten, WriteRegistration, Journal
<1>2. WorkerOK'
  BY DEF InstallInv, DiskOK, WorkerOK, FlagsOK, RequestKnown, JournalKnown, ReceiptKnown, Opened,
     BackedUp, Preparing, Journalled, Holding, Sound, books, environment, Record, Staged,
     RegistrationWritten, Committed, WriteRegistration, Steps, Journal
<1>3. FlagsOK'
  BY ZenonT(10) DEF InstallInv, FlagsOK, books, environment, Record, RegistrationWritten,
     WriteRegistration
<1>4. RequestKnown'
  BY DEF InstallInv, RequestKnown, environment, Record, RegistrationWritten, WriteRegistration
<1>5. JournalKnown'
  BY DEF InstallInv, DiskOK, WorkerOK, FlagsOK, RequestKnown, JournalKnown, ReceiptKnown, Opened,
     BackedUp, Preparing, Journalled, Holding, Sound, books, environment, Record, Staged,
     RegistrationWritten, Committed, WriteRegistration, Journal
<1>6. ReceiptKnown'
  BY DEF InstallInv, DiskOK, WorkerOK, FlagsOK, RequestKnown, JournalKnown, ReceiptKnown, Opened,
     BackedUp, Preparing, Journalled, Holding, Sound, environment, Record, Staged,
     RegistrationWritten, Committed, WriteRegistration
<1>7. Unpublished'
  BY DEF InstallInv, Unpublished, books, environment, Record, RegistrationWritten, WriteRegistration
<1>8. Opened'
  BY DEF InstallInv, Opened, Journalled, books, environment, Record, RegistrationWritten,
     WriteRegistration
<1>9. CommittedPlaces'
  BY DEF InstallInv, CommittedPlaces, books, environment, Record, RegistrationWritten,
     WriteRegistration
<1>10. BackedUp'
  BY JournalAssumption DEF InstallInv, DiskOK, WorkerOK, FlagsOK, RequestKnown, JournalKnown,
     ReceiptKnown, Unpublished, Opened, CommittedPlaces, BackedUp, Preparing, Emptied, Journalled,
     Holding, Sound, books, environment, Record, Staged, RegistrationWritten, Committed,
     WriteRegistration
<1> QED BY <1>1, <1>2, <1>3, <1>4, <1>5, <1>6, <1>7, <1>8, <1>9, <1>10 DEF InstallInv

(* Verification ends at the journal of its phase. *)
LEMMA VerifyInstallationKeeps ==
    ASSUME InstallInv, VerifyInstallation
    PROVE  InstallInv'
<1>1. DiskOK'
  BY DEF InstallInv, DiskOK, disk, environment, Record, Verified, VerifyInstallation
<1>2. WorkerOK'
  BY DEF InstallInv, DiskOK, WorkerOK, FlagsOK, RequestKnown, JournalKnown, ReceiptKnown, Opened,
     BackedUp, Preparing, Journalled, Holding, Sound, disk, environment, Record, Staged, Verified,
     Committed, VerifyInstallation, Steps, Journal
<1>3. FlagsOK'
  BY ZenonT(10) DEF InstallInv, FlagsOK, disk, environment, Record, Verified, VerifyInstallation
<1>4. RequestKnown'
  BY DEF InstallInv, RequestKnown, environment, Record, Verified, VerifyInstallation
<1>5. JournalKnown'
  BY DEF InstallInv, DiskOK, WorkerOK, FlagsOK, RequestKnown, JournalKnown, ReceiptKnown, Opened,
     BackedUp, Preparing, Journalled, Holding, Sound, disk, environment, Record, Staged, Verified,
     Committed, VerifyInstallation, Journal
<1>6. ReceiptKnown'
  BY DEF InstallInv, DiskOK, WorkerOK, FlagsOK, RequestKnown, JournalKnown, ReceiptKnown, Opened,
     BackedUp, Preparing, Journalled, Holding, Sound, disk, environment, Record, Staged, Verified,
     Committed, VerifyInstallation
<1>7. Unpublished'
  BY DEF InstallInv, Unpublished, disk, environment, Record, Verified, VerifyInstallation
<1>8. Opened'
  BY DEF InstallInv, Opened, Journalled, disk, environment, Record, Verified, VerifyInstallation
<1>9. CommittedPlaces'
  BY DEF InstallInv, CommittedPlaces, disk, environment, Record, Verified, VerifyInstallation
<1>10. BackedUp'
  BY JournalAssumption DEF InstallInv, DiskOK, WorkerOK, FlagsOK, RequestKnown, JournalKnown,
     ReceiptKnown, Unpublished, Opened, CommittedPlaces, BackedUp, Preparing, Emptied, Journalled,
     Holding, Sound, disk, environment, Record, Staged, Verified, Committed, VerifyInstallation
<1> QED BY <1>1, <1>2, <1>3, <1>4, <1>5, <1>6, <1>7, <1>8, <1>9, <1>10 DEF InstallInv

(* Removal moves a file, or skips one that the user has changed. *)
LEMMA RemoveInstallationKeeps ==
    ASSUME InstallInv, RemoveInstallation
    PROVE  InstallInv'
<1>1. DiskOK'
  BY DEF InstallInv, DiskOK, Move, books, environment, Record, Treated, BackupMoved,
     RemoveInstallation, Holds, Tree
<1>2. WorkerOK'
  BY DEF InstallInv, DiskOK, WorkerOK, FlagsOK, RequestKnown, JournalKnown, ReceiptKnown, Opened,
     BackedUp, Preparing, Journalled, Holding, Sound, Move, books, call, environment, Record,
     Treated, Staged, BackupMoved, Committed, RemoveInstallation, Holds, Steps, Journal
<1>3. FlagsOK'
  BY ZenonT(10) DEF InstallInv, FlagsOK, Move, books, call, environment, Record, Treated,
     BackupMoved, RemoveInstallation, Holds
<1>4. RequestKnown'
  BY DEF InstallInv, RequestKnown, Move, call, environment, Record, Treated, BackupMoved,
     RemoveInstallation, Holds
<1>5. JournalKnown'
  <2>1. Sound(memory)
    BY DEF InstallInv, JournalKnown, Journalled, RemoveInstallation
  <2>2. CASE todo # {}
    BY <2>1, <2>2 DEF RemoveInstallation, InstallInv, JournalKnown, Sound, Treated, call, books
  <2>3. CASE todo = {}
    <3>1. memory' = [memory EXCEPT !.phase = 2] /\ 2 \in 1..6
      BY <2>3 DEF RemoveInstallation, Record, BackupMoved
    <3>2. Sound([memory EXCEPT !.phase = 2])
      BY <2>1, <3>1, SoundPhase
    <3> QED BY <2>3, <3>1, <3>2 DEF RemoveInstallation, InstallInv, JournalKnown, Sound, Record,
         books
  <2> QED BY <2>2, <2>3
<1>6. ReceiptKnown'
  BY JournalAssumption, ValueAssumption, PackageAssumption, BoundAssumption DEF InstallInv, DiskOK,
     WorkerOK, FlagsOK, RequestKnown, JournalKnown, ReceiptKnown, Unpublished, Opened,
     CommittedPlaces, BackedUp, Preparing, Emptied, Journalled, Holding, Sound, Move, call,
     environment, Record, Treated, BackupMoved, RemoveInstallation, Holds, Tree
<1>7. Unpublished'
  BY DEF InstallInv, Unpublished, Move, books, environment, Record, Treated, BackupMoved,
     RemoveInstallation, Holds
<1>8. Opened'
  BY DEF InstallInv, Opened, Journalled, Move, books, environment, Record, Treated, BackupMoved,
     RemoveInstallation, Holds
<1>9. CommittedPlaces'
  BY DEF InstallInv, CommittedPlaces, Move, books, environment, Record, Treated, BackupMoved,
     RemoveInstallation, Holds
<1>10. BackedUp'
  <2>1. CASE todo # {}
    <3>1. PICK p \in todo : /\ UNCHANGED files \/ Move("destination", "backup", p)
                            /\ Treated(p) /\ UNCHANGED receipt
      BY <2>1 DEF RemoveInstallation
    <3>2. p \in Path /\ p \in Inventory(held) /\ held \in Version
      BY <3>1 DEF InstallInv, WorkerOK, ReceiptKnown, Holding, RemoveInstallation
    <3>3. \A q \in Path : files'["backup"][q] # None => q = p \/ files["backup"][q] # None
      BY <3>1, <3>2, MoveTyped DEF InstallInv, DiskOK, Tree
    <3> QED BY <3>1, <3>2, <3>3 DEF InstallInv, BackedUp, Preparing, RemoveInstallation,
         Treated, call, books
  <2>2. CASE todo = {}
    <3>1. pc' = "write" /\ memory'.phase # 1 /\ UNCHANGED <<files, directories, journal>>
          /\ receipt' = [receipt EXCEPT !["destination"] = None, !["backup"] = held]
      BY <2>2 DEF RemoveInstallation, Record, BackupMoved, books, InstallInv, JournalKnown,
           Journalled, Sound, Journal
    <3> QED BY <3>1, SMTT(20) DEF InstallInv, BackedUp, Preparing, Emptied, Staged,
         RemoveInstallation, ReceiptKnown, Holding, DiskOK, Tree, Opened
  <2> QED BY <2>1, <2>2
<1> QED BY <1>1, <1>2, <1>3, <1>4, <1>5, <1>6, <1>7, <1>8, <1>9, <1>10 DEF InstallInv

(* The registration goes after the files. *)
LEMMA RemoveRegistrationKeeps ==
    ASSUME InstallInv, RemoveRegistration
    PROVE  InstallInv'
<1>1. DiskOK'
  BY DEF InstallInv, DiskOK, books, environment, Record, RegistrationWritten, RemoveRegistration
<1>2. WorkerOK'
  BY DEF InstallInv, DiskOK, WorkerOK, FlagsOK, RequestKnown, JournalKnown, ReceiptKnown, Opened,
     BackedUp, Preparing, Journalled, Holding, Sound, books, environment, Record, Staged,
     RegistrationWritten, Committed, RemoveRegistration, Steps, Journal
<1>3. FlagsOK'
  BY ZenonT(10) DEF InstallInv, FlagsOK, books, environment, Record, RegistrationWritten,
     RemoveRegistration
<1>4. RequestKnown'
  BY DEF InstallInv, RequestKnown, environment, Record, RegistrationWritten, RemoveRegistration
<1>5. JournalKnown'
  BY DEF InstallInv, DiskOK, WorkerOK, FlagsOK, RequestKnown, JournalKnown, ReceiptKnown, Opened,
     BackedUp, Preparing, Journalled, Holding, Sound, books, environment, Record, Staged,
     RegistrationWritten, Committed, RemoveRegistration, Journal
<1>6. ReceiptKnown'
  BY DEF InstallInv, DiskOK, WorkerOK, FlagsOK, RequestKnown, JournalKnown, ReceiptKnown, Opened,
     BackedUp, Preparing, Journalled, Holding, Sound, environment, Record, Staged,
     RegistrationWritten, Committed, RemoveRegistration
<1>7. Unpublished'
  BY DEF InstallInv, Unpublished, books, environment, Record, RegistrationWritten,
     RemoveRegistration
<1>8. Opened'
  BY DEF InstallInv, Opened, Journalled, books, environment, Record, RegistrationWritten,
     RemoveRegistration
<1>9. CommittedPlaces'
  BY DEF InstallInv, CommittedPlaces, books, environment, Record, RegistrationWritten,
     RemoveRegistration
<1>10. BackedUp'
  BY JournalAssumption DEF InstallInv, DiskOK, WorkerOK, FlagsOK, RequestKnown, JournalKnown,
     ReceiptKnown, Unpublished, Opened, CommittedPlaces, BackedUp, Preparing, Emptied, Journalled,
     Holding, Sound, books, environment, Record, Staged, RegistrationWritten, Committed,
     RemoveRegistration
<1> QED BY <1>1, <1>2, <1>3, <1>4, <1>5, <1>6, <1>7, <1>8, <1>9, <1>10 DEF InstallInv

(* A commit ends, or takes up a verified journal. *)
LEMMA CommitInstallKeeps ==
    ASSUME InstallInv, CommitInstall
    PROVE  InstallInv'
<1>1. DiskOK'
  BY CommitOutcome DEF InstallInv, DiskOK, disk, environment, Finish
<1>2. WorkerOK'
  BY CommitOutcome DEF InstallInv, DiskOK, WorkerOK, FlagsOK, RequestKnown, JournalKnown,
     ReceiptKnown, Opened, BackedUp, Preparing, Journalled, Holding, Sound, disk, environment,
     Finish, Staged, Committed, Steps, Journal
<1>3. FlagsOK'
  BY CommitOutcome, ZenonT(10) DEF InstallInv, FlagsOK, disk, environment, Finish
<1>4. RequestKnown'
  BY CommitOutcome DEF InstallInv, RequestKnown, environment, Finish
<1>5. JournalKnown'
  <2>1. UNCHANGED journal
    BY CommitOutcome DEF disk
  <2>2. CASE Finish
    BY <2>1, <2>2 DEF InstallInv, JournalKnown, Journalled, Finish, Sound
  <2>3. CASE ~Finish
    <3>1. Sound(journal)
      BY <2>3, CommitOutcome DEF InstallInv, JournalKnown
    <3>2. Sound([journal EXCEPT !.phase = 6])
      <4>1. 6 \in 1..6
        OBVIOUS
      <4> QED BY <3>1, <4>1, SoundPhase
    <3>3. memory' = [journal EXCEPT !.phase = 6] /\ pc' \in {"cleanup", "write"}
      BY <2>3, CommitOutcome DEF Committed
    <3> QED BY <2>1, <3>1, <3>2, <3>3 DEF JournalKnown, Journalled, Sound
  <2> QED BY <2>2, <2>3
<1>6. ReceiptKnown'
  BY CommitOutcome DEF InstallInv, WorkerOK, JournalKnown, ReceiptKnown, Preparing, Journalled,
     Holding, Sound, disk, environment, Finish, Journal
<1>7. Unpublished'
  BY CommitOutcome DEF InstallInv, Unpublished, disk, environment, Finish
<1>8. Opened'
  BY CommitOutcome DEF InstallInv, Opened, Journalled, disk, environment, Finish
<1>9. CommittedPlaces'
  BY CommitOutcome DEF InstallInv, CommittedPlaces, disk, environment, Finish
<1>10. BackedUp'
  BY JournalAssumption, CommitOutcome DEF InstallInv, DiskOK, WorkerOK, FlagsOK, RequestKnown,
     JournalKnown, ReceiptKnown, Unpublished, Opened, CommittedPlaces, BackedUp, Preparing, Emptied,
     Journalled, Holding, Sound, disk, environment, Finish, Staged, Committed, Journal
<1> QED BY <1>1, <1>2, <1>3, <1>4, <1>5, <1>6, <1>7, <1>8, <1>9, <1>10 DEF InstallInv

(* A rollback starts from a journal that is not committed. *)
LEMMA RollbackKeeps ==
    ASSUME InstallInv, Rollback
    PROVE  InstallInv'
<1>1. DiskOK'
  BY DEF InstallInv, DiskOK, disk, environment, GoTo, Treat, Treated, BackupMoved, Rollback,
     Activated
<1>2. WorkerOK'
  BY DEF InstallInv, WorkerOK, disk, call, environment, GoTo, Treat, Treated, BackupMoved, Rollback,
     Activated, Steps, Inventory
<1>3. FlagsOK'
  BY ZenonT(10) DEF InstallInv, FlagsOK, disk, call, environment, GoTo, Treat, Treated, BackupMoved,
     Rollback, Activated
<1>4. RequestKnown'
  BY DEF InstallInv, RequestKnown, call, environment, GoTo, Treat, Treated, BackupMoved, Rollback,
     Activated
<1>5. JournalKnown'
  BY DEF InstallInv, JournalKnown, Journalled, Sound, disk, call, environment, GoTo, Treat, Treated,
     BackupMoved, Rollback, Activated
<1>6. ReceiptKnown'
  BY DEF InstallInv, ReceiptKnown, Preparing, Holding, disk, environment, GoTo, Treat, Treated,
     BackupMoved, Rollback, Activated
<1>7. Unpublished'
  BY DEF InstallInv, Unpublished, disk, environment, GoTo, Treat, Treated, BackupMoved, Rollback,
     Activated
<1>8. Opened'
  BY DEF InstallInv, Opened, Journalled, disk, environment, GoTo, Treat, Treated, BackupMoved,
     Rollback, Activated
<1>9. CommittedPlaces'
  BY DEF InstallInv, CommittedPlaces, disk, environment, GoTo, Treat, Treated, BackupMoved,
     Rollback, Activated
<1>10. BackedUp'
  BY DEF InstallInv, BackedUp, Preparing, Emptied, disk, environment, GoTo, Treat, Treated,
     BackupMoved, Rollback, Activated
<1> QED BY <1>1, <1>2, <1>3, <1>4, <1>5, <1>6, <1>7, <1>8, <1>9, <1>10 DEF InstallInv

(* Deactivation removes packaged files only. *)
LEMMA RemoveActivatedFilesKeeps ==
    ASSUME InstallInv, RemoveActivatedFiles
    PROVE  InstallInv'
<1>1. DiskOK'
  BY DEF InstallInv, DiskOK, books, environment, GoTo, Treat, Treated, RemoveActivatedFiles
<1>2. WorkerOK'
  BY DEF InstallInv, WorkerOK, books, call, environment, GoTo, Treat, Treated, RemoveActivatedFiles,
     Steps
<1>3. FlagsOK'
  BY ZenonT(10) DEF InstallInv, FlagsOK, books, call, environment, GoTo, Treat, Treated,
     RemoveActivatedFiles
<1>4. RequestKnown'
  BY DEF InstallInv, RequestKnown, call, environment, GoTo, Treat, Treated, RemoveActivatedFiles
<1>5. JournalKnown'
  BY DEF InstallInv, JournalKnown, Journalled, Sound, books, call, environment, GoTo, Treat,
     Treated, RemoveActivatedFiles
<1>6. ReceiptKnown'
  BY DEF InstallInv, DiskOK, JournalKnown, ReceiptKnown, Preparing, Journalled, Holding, Sound,
     call, environment, GoTo, Treat, Treated, RemoveActivatedFiles, Tree
<1>7. Unpublished'
  BY DEF InstallInv, Unpublished, books, environment, GoTo, Treat, Treated, RemoveActivatedFiles
<1>8. Opened'
  BY DEF InstallInv, Opened, Journalled, books, environment, GoTo, Treat, Treated,
     RemoveActivatedFiles
<1>9. CommittedPlaces'
  BY DEF InstallInv, CommittedPlaces, books, environment, GoTo, Treat, Treated, RemoveActivatedFiles
<1>10. BackedUp'
  BY DEF InstallInv, DiskOK, JournalKnown, ReceiptKnown, BackedUp, Preparing, Emptied, Journalled,
     Holding, Sound, books, environment, GoTo, Treat, Treated, RemoveActivatedFiles, Tree
<1> QED BY <1>1, <1>2, <1>3, <1>4, <1>5, <1>6, <1>7, <1>8, <1>9, <1>10 DEF InstallInv

(* Restoration works through the receipt in the backup. *)
LEMMA RestoreBackupKeeps ==
    ASSUME InstallInv, RestoreBackup
    PROVE  InstallInv'
<1>1. DiskOK'
  BY DEF InstallInv, DiskOK, disk, environment, GoTo, Treat, RestoreBackup, PartialBackup
<1>2. WorkerOK'
  BY SMTT(60) DEF InstallInv, DiskOK, WorkerOK, JournalKnown, ReceiptKnown, Sound, Journal,
       RestoreBackup, PartialBackup, GoTo, Treat, Inventory, Steps, Journalled, Tree, call,
       environment, disk
<1>3. FlagsOK'
  BY ZenonT(10) DEF InstallInv, FlagsOK, disk, call, environment, GoTo, Treat, RestoreBackup,
     PartialBackup
<1>4. RequestKnown'
  BY DEF InstallInv, RequestKnown, call, environment, GoTo, Treat, RestoreBackup, PartialBackup
<1>5. JournalKnown'
  BY DEF InstallInv, JournalKnown, Journalled, Sound, disk, call, environment, GoTo, Treat,
     RestoreBackup, PartialBackup
<1>6. ReceiptKnown'
  BY DEF InstallInv, DiskOK, JournalKnown, ReceiptKnown, Preparing, Journalled, Holding, Sound,
     disk, environment, GoTo, Treat, RestoreBackup, PartialBackup, Tree, Journal
<1>7. Unpublished'
  BY DEF InstallInv, Unpublished, disk, environment, GoTo, Treat, RestoreBackup, PartialBackup
<1>8. Opened'
  BY DEF InstallInv, Opened, Journalled, disk, environment, GoTo, Treat, RestoreBackup,
     PartialBackup
<1>9. CommittedPlaces'
  BY DEF InstallInv, CommittedPlaces, disk, environment, GoTo, Treat, RestoreBackup, PartialBackup
<1>10. BackedUp'
  BY DEF InstallInv, BackedUp, Preparing, Emptied, disk, environment, GoTo, Treat, RestoreBackup,
     PartialBackup
<1> QED BY <1>1, <1>2, <1>3, <1>4, <1>5, <1>6, <1>7, <1>8, <1>9, <1>10 DEF InstallInv

(* A restored file leaves the backup. *)
LEMMA RestoreFilesKeeps ==
    ASSUME InstallInv, RestoreFiles
    PROVE  InstallInv'
<1>1. DiskOK'
  BY DEF InstallInv, DiskOK, Move, books, environment, GoTo, Treated, CanMove, RestoreFiles, Holds,
     Tree
<1>2. WorkerOK'
  BY DEF InstallInv, WorkerOK, Move, books, call, environment, GoTo, Treated, CanMove, RestoreFiles,
     Holds, Steps
<1>3. FlagsOK'
  BY ZenonT(10) DEF InstallInv, FlagsOK, Move, books, call, environment, GoTo, Treated, CanMove,
     RestoreFiles, Holds
<1>4. RequestKnown'
  BY DEF InstallInv, RequestKnown, Move, call, environment, GoTo, Treated, CanMove, RestoreFiles,
     Holds
<1>5. JournalKnown'
  BY DEF InstallInv, JournalKnown, Journalled, Sound, Move, books, call, environment, GoTo, Treated,
     CanMove, RestoreFiles, Holds
<1>6. ReceiptKnown'
  BY DEF InstallInv, DiskOK, JournalKnown, ReceiptKnown, Preparing, Journalled, Holding, Sound,
     Move, call, environment, GoTo, Treated, CanMove, RestoreFiles, Holds, Tree
<1>7. Unpublished'
  BY DEF InstallInv, Unpublished, Move, books, environment, GoTo, Treated, CanMove, RestoreFiles,
     Holds
<1>8. Opened'
  BY DEF InstallInv, Opened, Journalled, Move, books, environment, GoTo, Treated, CanMove,
     RestoreFiles, Holds
<1>9. CommittedPlaces'
  BY DEF InstallInv, CommittedPlaces, Move, books, environment, GoTo, Treated, CanMove,
     RestoreFiles, Holds
<1>10. BackedUp'
  BY DEF InstallInv, DiskOK, JournalKnown, ReceiptKnown, BackedUp, Preparing, Emptied, Journalled,
     Holding, Sound, Move, books, call, environment, GoTo, Treated, CanMove, RestoreFiles, Holds,
     Tree, Inventory
<1> QED BY <1>1, <1>2, <1>3, <1>4, <1>5, <1>6, <1>7, <1>8, <1>9, <1>10 DEF InstallInv

(* The receipt returns when the backup holds no file. *)
LEMMA RestoreReceiptKeeps ==
    ASSUME InstallInv, RestoreReceipt
    PROVE  InstallInv'
<1>1. DiskOK'
  BY DEF InstallInv, DiskOK, WorkerOK, JournalKnown, Journalled, Sound, books, environment, GoTo,
     RestoreReceipt
<1>2. WorkerOK'
  BY DEF InstallInv, WorkerOK, books, call, environment, GoTo, RestoreReceipt, Steps
<1>3. FlagsOK'
  BY ZenonT(10) DEF InstallInv, FlagsOK, books, call, environment, GoTo, RestoreReceipt
<1>4. RequestKnown'
  BY DEF InstallInv, RequestKnown, call, environment, GoTo, RestoreReceipt
<1>5. JournalKnown'
  BY DEF InstallInv, JournalKnown, Journalled, Sound, books, call, environment, GoTo, RestoreReceipt
<1>6. ReceiptKnown'
  BY DEF InstallInv, ReceiptKnown, Preparing, Holding, environment, GoTo, RestoreReceipt
<1>7. Unpublished'
  BY DEF InstallInv, Unpublished, books, environment, GoTo, RestoreReceipt
<1>8. Opened'
  BY DEF InstallInv, Opened, Journalled, books, environment, GoTo, RestoreReceipt
<1>9. CommittedPlaces'
  BY DEF InstallInv, CommittedPlaces, books, environment, GoTo, RestoreReceipt
<1>10. BackedUp'
  BY DEF InstallInv, BackedUp, Preparing, Emptied, books, environment, GoTo, RestoreReceipt
<1> QED BY <1>1, <1>2, <1>3, <1>4, <1>5, <1>6, <1>7, <1>8, <1>9, <1>10 DEF InstallInv

(* The registration returns last. *)
LEMMA RestoreRegistrationKeeps ==
    ASSUME InstallInv, RestoreRegistration
    PROVE  InstallInv'
<1>1. DiskOK'
  BY DEF InstallInv, DiskOK, WorkerOK, JournalKnown, Journalled, Sound, books, environment, GoTo,
     RestoreRegistration, Journal
<1>2. WorkerOK'
  BY DEF InstallInv, WorkerOK, books, call, environment, GoTo, RestoreRegistration, Steps
<1>3. FlagsOK'
  BY ZenonT(10) DEF InstallInv, FlagsOK, books, call, environment, GoTo, RestoreRegistration
<1>4. RequestKnown'
  BY DEF InstallInv, RequestKnown, call, environment, GoTo, RestoreRegistration
<1>5. JournalKnown'
  BY DEF InstallInv, JournalKnown, Journalled, Sound, books, environment, GoTo, RestoreRegistration
<1>6. ReceiptKnown'
  BY DEF InstallInv, ReceiptKnown, Preparing, Holding, environment, GoTo, RestoreRegistration
<1>7. Unpublished'
  BY DEF InstallInv, Unpublished, books, environment, GoTo, RestoreRegistration
<1>8. Opened'
  BY DEF InstallInv, Opened, Journalled, books, environment, GoTo, RestoreRegistration
<1>9. CommittedPlaces'
  BY DEF InstallInv, CommittedPlaces, environment, GoTo, RestoreRegistration
<1>10. BackedUp'
  BY DEF InstallInv, BackedUp, Preparing, Emptied, books, environment, GoTo, RestoreRegistration
<1> QED BY <1>1, <1>2, <1>3, <1>4, <1>5, <1>6, <1>7, <1>8, <1>9, <1>10 DEF InstallInv

(* Cleanup of a backup that holds files needs a commit. *)
LEMMA CleanupTransactionKeeps ==
    ASSUME InstallInv, CleanupTransaction
    PROVE  InstallInv'
<1>1. DiskOK'
  BY DEF InstallInv, DiskOK, disk, environment, GoTo, CleanupTransaction, Removable, Inspected
<1>2. WorkerOK'
  BY DEF InstallInv, WorkerOK, disk, call, environment, GoTo, CleanupTransaction, Removable,
     Inspected, Steps
<1>3. FlagsOK'
  BY ZenonT(10) DEF InstallInv, FlagsOK, disk, call, environment, GoTo, CleanupTransaction,
     Removable, Inspected
<1>4. RequestKnown'
  BY DEF InstallInv, RequestKnown, call, environment, GoTo, CleanupTransaction, Removable, Inspected
<1>5. JournalKnown'
  BY DEF InstallInv, JournalKnown, Journalled, Sound, disk, environment, GoTo, CleanupTransaction,
     Removable, Inspected
<1>6. ReceiptKnown'
  BY DEF InstallInv, ReceiptKnown, Preparing, Holding, disk, environment, GoTo, CleanupTransaction,
     Removable, Inspected
<1>7. Unpublished'
  BY DEF InstallInv, Unpublished, disk, environment, GoTo, CleanupTransaction, Removable, Inspected
<1>8. Opened'
  BY DEF InstallInv, Opened, Journalled, disk, environment, GoTo, CleanupTransaction, Removable,
     Inspected
<1>9. CommittedPlaces'
  BY DEF InstallInv, CommittedPlaces, environment, GoTo, CleanupTransaction, Removable, Inspected
<1>10. BackedUp'
  BY JournalAssumption, ValueAssumption, PackageAssumption, BoundAssumption DEF InstallInv, DiskOK,
     WorkerOK, FlagsOK, RequestKnown, JournalKnown, ReceiptKnown, Unpublished, Opened,
     CommittedPlaces, BackedUp, Preparing, Emptied, Journalled, Holding, Sound, disk, environment,
     GoTo, CleanupTransaction, Removable, Inspected
<1> QED BY <1>1, <1>2, <1>3, <1>4, <1>5, <1>6, <1>7, <1>8, <1>9, <1>10 DEF InstallInv

(* Cleanup removes a tree's files, its receipt and itself. *)
LEMMA RemoveCleanupTreeKeeps ==
    ASSUME InstallInv, NEW t \in {"stage", "backup"}, RemoveCleanupTree(t)
    PROVE  InstallInv'
<1>1. DiskOK'
  <2>1. files' \in [Tree -> [Path -> Content \cup {None, Foreign}]]
    <3>1. files' = files \/ \E p \in Path : files' = [files EXCEPT ![t][p] = None]
      BY DEF RemoveCleanupTree
    <3> QED BY <3>1 DEF InstallInv, DiskOK, Tree
  <2>2. receipt' \in [Tree -> Version \cup {None, Torn}]
    BY DEF RemoveCleanupTree, InstallInv, DiskOK, Tree
  <2> QED BY <2>1, <2>2 DEF RemoveCleanupTree, InstallInv, DiskOK
<1>2. WorkerOK'
  BY DEF InstallInv, WorkerOK, call, environment, RemoveCleanupTree, Steps
<1>3. FlagsOK'
  BY ZenonT(10) DEF InstallInv, FlagsOK, call, environment, RemoveCleanupTree
<1>4. RequestKnown'
  BY DEF InstallInv, RequestKnown, call, environment, RemoveCleanupTree
<1>5. JournalKnown'
  BY DEF InstallInv, JournalKnown, Journalled, Sound, environment, RemoveCleanupTree
<1>6. ReceiptKnown'
  <2>1. receipt'["stage"] \in {None, receipt["stage"]} /\ receipt'["backup"] \in {None, receipt["backup"]}
    BY DEF RemoveCleanupTree, InstallInv, DiskOK, Tree
  <2> QED BY <2>1, ValueAssumption DEF RemoveCleanupTree, InstallInv, ReceiptKnown, Preparing,
       Holding, call
<1>7. Unpublished'
  BY DEF InstallInv, Unpublished, environment, RemoveCleanupTree
<1>8. Opened'
  BY DEF InstallInv, Opened, Journalled, environment, RemoveCleanupTree
<1>9. CommittedPlaces'
  BY DEF InstallInv, CommittedPlaces, environment, RemoveCleanupTree
<1>10. BackedUp'
  <2> DEFINE left == {p \in Path : files[t][p] # None}
  <2>1. CASE left # {}
    <3>1. PICK p \in left : files' = [files EXCEPT ![t][p] = None] /\ UNCHANGED <<receipt, directories>>
      BY <2>1 DEF RemoveCleanupTree
    <3>2. \A q \in Path : files'["backup"][q] # None => files["backup"][q] # None
      BY <3>1 DEF InstallInv, DiskOK, Tree
    <3> QED BY <3>1, <3>2 DEF RemoveCleanupTree, InstallInv, BackedUp, Emptied, Preparing, call
  <2>2. CASE left = {} /\ UNCHANGED directories
    <3>1. UNCHANGED files /\ receipt' = [receipt EXCEPT ![t] = None]
      BY <2>2 DEF RemoveCleanupTree, InstallInv, DiskOK
    <3>2. receipt'["backup"] \in {None, receipt["backup"]}
      BY <3>1 DEF InstallInv, DiskOK, Tree
    <3> QED BY <2>2, <3>1, <3>2 DEF RemoveCleanupTree, InstallInv, BackedUp, Emptied, Preparing
  <2>3. CASE left = {} /\ directories' # directories
    <3>1. UNCHANGED <<files, receipt>> /\ directories' = directories \ {t} /\ receipt[t] = None
      BY <2>3 DEF RemoveCleanupTree, InstallInv, DiskOK
    <3> HIDE DEF left
    <3>2. t = "backup" => Emptied
      BY <2>3 DEF left, Emptied
    <3> QED BY <3>1, <3>2 DEF RemoveCleanupTree, InstallInv, BackedUp, Emptied, Preparing
  <2> QED BY <2>1, <2>2, <2>3
<1> QED BY <1>1, <1>2, <1>3, <1>4, <1>5, <1>6, <1>7, <1>8, <1>9, <1>10 DEF InstallInv

(* The owner marker, the journal and the locator go last. *)
LEMMA RemoveBooksKeeps ==
    ASSUME InstallInv, RemoveBooks
    PROVE  InstallInv'
<1>0. BooksRemoved
  BY RemoveBooksOutcome
<1>1. DiskOK'
  <2>1. CASE UNCHANGED pc
    BY <1>0, <2>1, SMTT(20) DEF BooksRemoved, InstallInv, DiskOK, Tree, payload, environment
  <2>2. CASE ~UNCHANGED pc
    BY <1>0, <2>2, SMTT(20) DEF BooksRemoved, InstallInv, DiskOK, Tree, payload, environment
  <2> QED BY <2>1, <2>2
<1>2. WorkerOK'
  <2>1. CASE UNCHANGED pc
    BY <1>0, <2>1, SMTT(20) DEF BooksRemoved, InstallInv, WorkerOK, Steps, payload, environment
  <2>2. CASE ~UNCHANGED pc
    BY <1>0, <2>2, SMTT(20) DEF BooksRemoved, InstallInv, WorkerOK, Steps, payload, environment
  <2> QED BY <2>1, <2>2
<1>3. FlagsOK'
  <2>1. CASE UNCHANGED pc
    BY <1>0, <2>1, ZenonT(20) DEF BooksRemoved, InstallInv, FlagsOK, payload, environment
  <2>2. CASE ~UNCHANGED pc
    BY <1>0, <2>2, ZenonT(20) DEF BooksRemoved, InstallInv, FlagsOK, payload, environment
  <2> QED BY <2>1, <2>2
<1>4. RequestKnown'
  <2>1. CASE UNCHANGED pc
    BY <1>0, <2>1, SMTT(20) DEF BooksRemoved, InstallInv, RequestKnown, payload, environment
  <2>2. CASE ~UNCHANGED pc
    BY <1>0, <2>2, SMTT(20) DEF BooksRemoved, InstallInv, RequestKnown, payload, environment
  <2> QED BY <2>1, <2>2
<1>5. JournalKnown'
  <2>1. CASE UNCHANGED pc
    BY <1>0, <2>1, SMTT(20) DEF BooksRemoved, InstallInv, JournalKnown, Journalled, Sound,
         payload, environment
  <2>2. CASE ~UNCHANGED pc
    BY <1>0, <2>2, SMTT(20) DEF BooksRemoved, InstallInv, JournalKnown, Journalled, Sound,
         payload, environment
  <2> QED BY <2>1, <2>2
<1>6. ReceiptKnown'
  <2>1. CASE UNCHANGED pc
    BY <1>0, <2>1, SMTT(20) DEF BooksRemoved, InstallInv, ReceiptKnown, Preparing, Holding,
         payload, environment
  <2>2. CASE ~UNCHANGED pc
    BY <1>0, <2>2, SMTT(20) DEF BooksRemoved, InstallInv, ReceiptKnown, Preparing, Holding,
         payload, environment
  <2> QED BY <2>1, <2>2
<1>7. Unpublished'
  <2>1. CASE UNCHANGED pc
    BY <1>0, <2>1, SMTT(20) DEF BooksRemoved, InstallInv, Unpublished, payload, environment
  <2>2. CASE ~UNCHANGED pc
    BY <1>0, <2>2, SMTT(20) DEF BooksRemoved, InstallInv, Unpublished, payload, environment
  <2> QED BY <2>1, <2>2
<1>8. Opened'
  <2>1. CASE UNCHANGED pc
    BY <1>0, <2>1, SMTT(20) DEF BooksRemoved, InstallInv, Opened, Journalled, payload, environment
  <2>2. CASE ~UNCHANGED pc
    <3>1. ~locator' /\ journal' = None /\ directories' = {} /\ pc' \in {"idle", "classify", "inspect"}
      BY <1>0, <2>2 DEF BooksRemoved
    <3> QED BY <3>1 DEF Opened, Journalled
  <2> QED BY <2>1, <2>2
<1>9. CommittedPlaces'
  <2>1. CASE UNCHANGED pc
    BY <1>0, <2>1, SMTT(20) DEF BooksRemoved, InstallInv, CommittedPlaces, payload, environment
  <2>2. CASE ~UNCHANGED pc
    BY <1>0, <2>2, SMTT(20) DEF BooksRemoved, InstallInv, CommittedPlaces, payload, environment
  <2> QED BY <2>1, <2>2
<1>10. BackedUp'
  <2>1. CASE UNCHANGED pc
    BY <1>0, <2>1, SMTT(20) DEF BooksRemoved, InstallInv, BackedUp, Preparing, Emptied, payload,
         environment
  <2>2. CASE ~UNCHANGED pc
    BY <1>0, <2>2, SMTT(20) DEF BooksRemoved, InstallInv, BackedUp, Preparing, Emptied, payload,
         environment
  <2> QED BY <2>1, <2>2
<1> QED BY <1>1, <1>2, <1>3, <1>4, <1>5, <1>6, <1>7, <1>8, <1>9, <1>10 DEF InstallInv

(* A refused step ends the call. *)
LEMMA RefuseKeeps ==
    ASSUME InstallInv, Refuse
    PROVE  InstallInv'
<1>1. DiskOK'
  BY JournalAssumption, ValueAssumption, PackageAssumption, PathAssumption, BoundAssumption,
     RequestShape, RefuseOutcome DEF InstallInv, DiskOK, WorkerOK, RequestKnown, JournalKnown,
     ReceiptKnown, BackedUp, Preparing, Emptied, Journalled, Holding, Sound, GoTo, Finish, Staged,
     BackupMoved, Committed, Abandon, RolledBack
<1>2. WorkerOK'
  BY JournalAssumption, ReturnOutcome, RefuseOutcome DEF InstallInv, DiskOK, WorkerOK, FlagsOK,
     RequestKnown, JournalKnown, ReceiptKnown, Unpublished, Opened, CommittedPlaces, BackedUp,
     Preparing, Emptied, Journalled, Holding, Sound, call, GoTo, Finish, Staged, BackupMoved,
     Committed, Abandon, RolledBack, Steps
<1>3. FlagsOK'
  BY ReturnOutcome, RefuseOutcome, ZenonT(10) DEF InstallInv, FlagsOK, RequestKnown, call, GoTo,
     Finish, Staged, BackupMoved, Committed, Abandon, RolledBack
<1>4. RequestKnown'
  BY ReturnOutcome, RefuseOutcome DEF InstallInv, RequestKnown, call, GoTo, Finish, Staged,
     BackupMoved, Committed, Abandon, RolledBack
<1>5. JournalKnown'
  BY ReturnOutcome, RefuseOutcome DEF InstallInv, RequestKnown, JournalKnown, Journalled, Sound,
     call, GoTo, Finish, Staged, BackupMoved, Committed, Abandon, RolledBack
<1>6. ReceiptKnown'
  BY JournalAssumption, ValueAssumption, PackageAssumption, PathAssumption, BoundAssumption,
     ReturnOutcome, RequestShape, RefuseOutcome DEF InstallInv, DiskOK, WorkerOK, RequestKnown,
     JournalKnown, ReceiptKnown, BackedUp, Preparing, Emptied, Journalled, Holding, Sound, GoTo,
     Finish, Staged, BackupMoved, Committed, Abandon, RolledBack, Tree
<1>7. Unpublished'
  BY JournalAssumption, ReturnOutcome, RefuseOutcome DEF InstallInv, WorkerOK, RequestKnown,
     JournalKnown, Unpublished, Opened, Journalled, Sound, GoTo, Finish, Staged, BackupMoved,
     Committed, Abandon, RolledBack
<1>8. Opened'
  BY ReturnOutcome, RefuseOutcome DEF InstallInv, RequestKnown, Opened, Journalled, GoTo, Finish,
     Staged, BackupMoved, Committed, Abandon, RolledBack
<1>9. CommittedPlaces'
  BY ReturnOutcome, RefuseOutcome DEF InstallInv, RequestKnown, CommittedPlaces, GoTo, Finish,
     Staged, BackupMoved, Committed, Abandon, RolledBack
<1>10. BackedUp'
  BY JournalAssumption, ReturnOutcome, RefuseOutcome DEF InstallInv, DiskOK, WorkerOK, FlagsOK,
     RequestKnown, JournalKnown, ReceiptKnown, Unpublished, Opened, CommittedPlaces, BackedUp,
     Preparing, Emptied, Journalled, Holding, Sound, GoTo, Finish, Staged, BackupMoved, Committed,
     Abandon, RolledBack, Tree
<1> QED BY <1>1, <1>2, <1>3, <1>4, <1>5, <1>6, <1>7, <1>8, <1>9, <1>10 DEF InstallInv

(* A failed step ends the call. *)
LEMMA FailKeeps ==
    ASSUME InstallInv, Fail
    PROVE  InstallInv'
<1>1. DiskOK'
  BY JournalAssumption, ValueAssumption, PackageAssumption, PathAssumption, BoundAssumption,
     RequestShape DEF InstallInv, DiskOK, WorkerOK, RequestKnown, JournalKnown, ReceiptKnown,
     BackedUp, Preparing, Emptied, Journalled, Holding, Sound, environment, GoTo, Finish, Staged,
     BackupMoved, Committed, Fail, Abandon, RolledBack, Tree
<1>2. WorkerOK'
  BY JournalAssumption, ValueAssumption, PackageAssumption, PathAssumption, BoundAssumption,
     ReturnOutcome DEF InstallInv, DiskOK, WorkerOK, FlagsOK, RequestKnown, JournalKnown,
     ReceiptKnown, Unpublished, Opened, CommittedPlaces, BackedUp, Preparing, Emptied, Journalled,
     Holding, Sound, call, environment, GoTo, Finish, Staged, BackupMoved, Committed, Fail, Abandon,
     RolledBack, Steps, Interfere
<1>3. FlagsOK'
  BY ReturnOutcome, ZenonT(10) DEF InstallInv, FlagsOK, RequestKnown, call, environment, GoTo,
     Finish, Staged, BackupMoved, Committed, Fail, Abandon, RolledBack
<1>4. RequestKnown'
  BY ReturnOutcome DEF InstallInv, RequestKnown, call, environment, GoTo, Finish, Staged,
     BackupMoved, Committed, Fail, Abandon, RolledBack
<1>5. JournalKnown'
  BY ReturnOutcome DEF InstallInv, RequestKnown, JournalKnown, Journalled, Sound, call, environment,
     GoTo, Finish, Staged, BackupMoved, Committed, Fail, Abandon, RolledBack
<1>6. ReceiptKnown'
  BY JournalAssumption, ValueAssumption, PackageAssumption, PathAssumption, BoundAssumption,
     ReturnOutcome, RequestShape DEF InstallInv, DiskOK, WorkerOK, RequestKnown, JournalKnown,
     ReceiptKnown, BackedUp, Preparing, Emptied, Journalled, Holding, Sound, environment, GoTo,
     Finish, Staged, BackupMoved, Committed, Fail, Abandon, RolledBack
<1>7. Unpublished'
  BY JournalAssumption, ReturnOutcome DEF InstallInv, WorkerOK, RequestKnown, JournalKnown,
     Unpublished, Opened, Journalled, Sound, environment, GoTo, Finish, Staged, BackupMoved,
     Committed, Fail, Abandon, RolledBack, Interfere
<1>8. Opened'
  BY ReturnOutcome DEF InstallInv, RequestKnown, Opened, Journalled, environment, GoTo, Finish,
     Staged, BackupMoved, Committed, Fail, Abandon, RolledBack
<1>9. CommittedPlaces'
  BY ReturnOutcome DEF InstallInv, RequestKnown, CommittedPlaces, environment, GoTo, Finish, Staged,
     BackupMoved, Committed, Fail, Abandon, RolledBack
<1>10. BackedUp'
  BY ReturnOutcome DEF InstallInv, RequestKnown, BackedUp, Preparing, Emptied, environment, GoTo,
     Finish, Staged, BackupMoved, Committed, Fail, Abandon, RolledBack
<1> QED BY <1>1, <1>2, <1>3, <1>4, <1>5, <1>6, <1>7, <1>8, <1>9, <1>10 DEF InstallInv

(* A crash forgets what the worker held. *)
LEMMA CrashKeeps ==
    ASSUME InstallInv, Crash
    PROVE  InstallInv'
<1>1. DiskOK'
  BY DEF InstallInv, DiskOK, disk, Finish, BackupMoved, Committed, Crash
<1>2. WorkerOK'
  BY JournalAssumption, ValueAssumption, PackageAssumption, BoundAssumption DEF InstallInv, DiskOK,
     WorkerOK, FlagsOK, RequestKnown, JournalKnown, ReceiptKnown, Unpublished, Opened,
     CommittedPlaces, BackedUp, Preparing, Emptied, Journalled, Holding, Sound, disk, Finish,
     BackupMoved, Committed, Crash, Steps, Interfere
<1>3. FlagsOK'
  BY ZenonT(10) DEF InstallInv, FlagsOK, disk, Finish, BackupMoved, Committed, Crash
<1>4. RequestKnown'
  BY DEF InstallInv, RequestKnown, Finish, BackupMoved, Committed, Crash
<1>5. JournalKnown'
  BY DEF InstallInv, JournalKnown, Journalled, Sound, disk, Finish, BackupMoved, Committed, Crash
<1>6. ReceiptKnown'
  BY DEF InstallInv, ReceiptKnown, Preparing, Holding, disk, Finish, BackupMoved, Committed, Crash
<1>7. Unpublished'
  BY DEF InstallInv, WorkerOK, JournalKnown, Unpublished, Journalled, Sound, disk, Finish,
     BackupMoved, Committed, Crash, Interfere
<1>8. Opened'
  BY DEF InstallInv, Opened, Journalled, disk, Finish, BackupMoved, Committed, Crash
<1>9. CommittedPlaces'
  BY DEF InstallInv, CommittedPlaces, Finish, BackupMoved, Committed, Crash
<1>10. BackedUp'
  BY DEF InstallInv, BackedUp, Preparing, Emptied, disk, Finish, BackupMoved, Committed, Crash
<1> QED BY <1>1, <1>2, <1>3, <1>4, <1>5, <1>6, <1>7, <1>8, <1>9, <1>10 DEF InstallInv

(* A user's edit changes the destination only. *)
LEMMA EditKeeps ==
    ASSUME InstallInv, NEW p \in Path, NEW c \in {None, Foreign}, Edit(p, c)
    PROVE  InstallInv'
<1>1. DiskOK'
  BY DEF InstallInv, DiskOK, books, Edit
<1>2. WorkerOK'
  BY JournalAssumption, ValueAssumption, PackageAssumption, BoundAssumption DEF InstallInv, DiskOK,
     WorkerOK, FlagsOK, RequestKnown, JournalKnown, ReceiptKnown, Unpublished, Opened,
     CommittedPlaces, BackedUp, Preparing, Emptied, Journalled, Holding, Sound, books, call, Edit,
     Steps, Interfere
<1>3. FlagsOK'
  BY ZenonT(10) DEF InstallInv, FlagsOK, books, call, Edit
<1>4. RequestKnown'
  BY DEF InstallInv, RequestKnown, call, Edit
<1>5. JournalKnown'
  BY DEF InstallInv, JournalKnown, Journalled, Sound, books, call, Edit
<1>6. ReceiptKnown'
  BY DEF InstallInv, ReceiptKnown, Preparing, Holding, call, Edit
<1>7. Unpublished'
  BY DEF InstallInv, WorkerOK, JournalKnown, Unpublished, Journalled, Sound, books, Edit, Interfere
<1>8. Opened'
  BY DEF InstallInv, Opened, Journalled, books, Edit
<1>9. CommittedPlaces'
  BY DEF InstallInv, CommittedPlaces, books, Edit
<1>10. BackedUp'
  BY DEF InstallInv, BackedUp, Preparing, Emptied, books, call, Edit
<1> QED BY <1>1, <1>2, <1>3, <1>4, <1>5, <1>6, <1>7, <1>8, <1>9, <1>10 DEF InstallInv

(* In the initial state there is no installation and no transaction. *)
LEMMA InitInv == Init => InstallInv
<1> SUFFICES ASSUME Init PROVE InstallInv
  OBVIOUS
<1>1. DiskOK
  BY DEF Init, DiskOK
<1>2. WorkerOK
  BY BoundAssumption DEF Init, WorkerOK, Steps
<1>6. FlagsOK
  BY ZenonT(20) DEF Init, FlagsOK
<1>3. RequestKnown /\ JournalKnown
  BY DEF Init, RequestKnown, JournalKnown, Journalled
<1>4. ReceiptKnown /\ Unpublished
  BY ValueAssumption DEF Init, ReceiptKnown, Holding, Preparing, Tree, Unpublished
<1>5. Opened /\ CommittedPlaces /\ BackedUp
  BY DEF Init, Opened, Journalled, CommittedPlaces, BackedUp, Emptied, Preparing, Tree
<1> QED BY <1>1, <1>2, <1>3, <1>4, <1>5, <1>6 DEF InstallInv

(* A step that changes nothing keeps it. *)
LEMMA StutterKeeps ==
    ASSUME InstallInv, UNCHANGED vars
    PROVE  InstallInv'
<1>1. DiskOK' /\ WorkerOK'
  BY DEF InstallInv, DiskOK, WorkerOK, vars, disk, call, environment
<1>2. FlagsOK' /\ RequestKnown'
  BY ZenonT(20) DEF InstallInv, FlagsOK, RequestKnown, vars, disk, call, environment
<1>3. JournalKnown' /\ ReceiptKnown'
  BY DEF InstallInv, JournalKnown, ReceiptKnown, Preparing, Sound, vars, disk, call, environment
<1>4. Unpublished' /\ Opened'
  BY DEF InstallInv, Unpublished, Opened, vars, disk, call, environment
<1>5. CommittedPlaces' /\ BackedUp'
  BY DEF InstallInv, CommittedPlaces, BackedUp, Emptied, Preparing, vars, disk, call, environment
<1> QED BY <1>1, <1>2, <1>3, <1>4, <1>5 DEF InstallInv

(* Every step keeps it, one lemma for each action. *)
LEMMA NextKeeps ==
    ASSUME InstallInv, [Next]_vars
    PROVE  InstallInv'
<1>1. ASSUME NEW r \in Request, Start(r) PROVE InstallInv'
  BY <1>1, StartKeeps
<1>2. CASE WorkerStep
  BY <1>2, RecoverExistingKeeps, ClassifyDestinationKeeps, InspectInstallationKeeps,
       CreateLocatorKeeps,
     PrepareTransactionKeeps, StagePackageKeeps, WriteTemporaryKeeps, PublishJournalKeeps,
     MoveToBackupKeeps, ActivateKeeps, ActivateReceiptKeeps, WriteRegistrationKeeps,
     VerifyInstallationKeeps, RemoveInstallationKeeps, RemoveRegistrationKeeps, CommitInstallKeeps,
     RollbackKeeps, RemoveActivatedFilesKeeps, RestoreBackupKeeps, RestoreFilesKeeps,
     RestoreReceiptKeeps, RestoreRegistrationKeeps, CleanupTransactionKeeps,
     RemoveCleanupTreeKeeps, RemoveBooksKeeps, RefuseKeeps
     DEF WorkerStep
<1>3. CASE Fail \/ Crash
  BY <1>3, FailKeeps, CrashKeeps
<1>4. ASSUME NEW p \in Path, NEW c \in {None, Foreign}, Edit(p, c) PROVE InstallInv'
  BY <1>4, EditKeeps
<1>5. CASE UNCHANGED vars
  BY <1>5, StutterKeeps
<1> QED BY <1>1, <1>2, <1>3, <1>4, <1>5 DEF Next

(***************************************************************************)
(* What follows from it.                                                   *)
(***************************************************************************)

(* What the worker knows, what the books record and what the backup holds   *)
(* agree at every step of an installation transaction.                      *)
THEOREM InstallInvariant == Spec => []InstallInv
  BY InitInv, NextKeeps, PTL DEF Spec

(* The disk, the worker and the environment keep their types; an interrupted *)
(* publication leaves at most one temporary document for each interruption.  *)
THEOREM TypeCorrect == Spec => []TypeOK
<1>1. InstallInv => TypeOK
  <2> SUFFICES ASSUME InstallInv PROVE TypeOK
    OBVIOUS
  <2>1. temporaries \in 0..(MaxFaults + 1)
    BY BoundAssumption DEF InstallInv, WorkerOK, Unpublished
  <2> QED BY <2>1 DEF InstallInv, DiskOK, WorkerOK, FlagsOK, TypeOK
<1> QED BY <1>1, InstallInvariant, PTL

(* An abandoned call leaves the files alone, except what it had staged. *)
LEMMA AbandonFiles ==
    ASSUME InstallInv, Abandon
    PROVE  \/ UNCHANGED files
           \/ pc = "stage" /\ \E f : files' = [files EXCEPT !["stage"] = f]
  BY DEF Abandon

(* Once the journal says Committed, no step of a worker, no failure and no   *)
(* crash changes what is installed: the cleanup after the commit, repeated   *)
(* or not, never reaches the destination.                                    *)
THEOREM CommittedHolds == Spec => CommittedStays
<1>1. ASSUME InstallInv, journal # None, journal.phase = Committed, WorkerStep \/ Fail \/ Crash
      PROVE  /\ UNCHANGED registration
             /\ files'["destination"] = files["destination"]
             /\ receipt'["destination"] = receipt["destination"]
  <2>1. pc \in {"idle", "recover", "commit", "cleanup", "clean"}
    BY <1>1 DEF InstallInv, CommittedPlaces
  <2>2. CASE Refuse \/ Fail
    <3>1. Abandon
      BY <2>2 DEF Refuse, Fail
    <3> QED BY <2>1, <3>1, AbandonFiles, <1>1 DEF Abandon
  <2>3. CASE Crash
    BY <2>3 DEF Crash, disk
  <2>4. ASSUME NEW t \in {"stage", "backup"}, RemoveCleanupTree(t)
        PROVE  UNCHANGED registration /\ files'["destination"] = files["destination"]
                  /\ receipt'["destination"] = receipt["destination"]
    BY <1>1, <2>4 DEF RemoveCleanupTree, InstallInv, DiskOK, Tree
  <2>5. CASE RecoverExisting \/ CommitInstall \/ CleanupTransaction \/ RemoveBooks
    BY <2>5 DEF RecoverExisting, CommitInstall, CleanupTransaction, RemoveBooks, disk, payload
  <2> QED BY <1>1, <2>1, <2>2, <2>3, <2>4, <2>5
      DEF WorkerStep, ClassifyDestination, InspectInstallation, CreateLocator, PrepareTransaction,
          StagePackage, WriteTemporary, PublishJournal, MoveToBackup, Activate, ActivateReceipt,
          WriteRegistration, VerifyInstallation, RemoveInstallation, RemoveRegistration, Rollback,
          RemoveActivatedFiles, RestoreBackup, RestoreFiles, RestoreReceipt, RestoreRegistration
<1> QED BY <1>1, InstallInvariant, PTL DEF CommittedStays

(* A packaged file is never a user's. *)
LEMMA HeldIsPackaged ==
    ASSUME InstallInv, pc \in Holding, NEW t \in Tree, NEW p \in Path, Holds(t, held, p)
    PROVE  files[t][p] # Foreign
  BY PackageAssumption, ValueAssumption DEF InstallInv, ReceiptKnown, Holds

(* A file that the user has put or changed in the destination is never       *)
(* removed or replaced by a step of the worker, a failure or a crash.        *)
(* overwritten, moved or removed by the worker, whatever fails.              *)
THEOREM ForeignStays == Spec => ForeignKept
<1>1. ASSUME InstallInv, WorkerStep \/ Fail \/ Crash, NEW p \in Path, files["destination"][p] = Foreign
      PROVE  files'["destination"][p] = Foreign
  <2>0. files \in [Tree -> [Path -> Content \cup {None, Foreign}]] /\ todo \subseteq Path /\ Foreign # None
    BY <1>1, ValueAssumption DEF InstallInv, DiskOK, WorkerOK
  <2>1. CASE UNCHANGED files
    BY <1>1, <2>1
  <2>2. ASSUME pc \in Holding, NEW from \in Tree, NEW to \in Tree, from # to, NEW q \in todo, NEW lenient,
               CanMove(from, to, lenient, q), Move(from, to, q)
        PROVE  files'["destination"][p] = Foreign
    <3>1. CASE files[from][q] = None
      BY <1>1, <2>2, <3>1 DEF Move
    <3>2. CASE files[from][q] # None
      <4>1. Holds(from, held, q) /\ files[to][q] = None /\ q \in Path
        BY <2>0, <2>2, <3>2 DEF CanMove
      <4>2. files[from][q] # Foreign
        BY <1>1, <2>2, <4>1, HeldIsPackaged
      <4> QED BY <1>1, <2>0, <2>2, <4>1, <4>2, MoveTyped DEF Tree
    <3> QED BY <3>1, <3>2
  <2>3. CASE MoveToBackup \/ Activate \/ RestoreFiles
    BY <1>1, <2>1, <2>2, <2>3 DEF MoveToBackup, Activate, RestoreFiles, Holding, Tree
  <2>4. CASE RemoveInstallation
    <3>1. CASE ~UNCHANGED files
      <4>1. PICK q \in todo : Holds("destination", held, q) /\ Move("destination", "backup", q)
        BY <2>4, <3>1 DEF RemoveInstallation
      <4>2. files["destination"][q] # Foreign
        BY <1>1, <2>0, <2>4, <4>1, HeldIsPackaged DEF RemoveInstallation, Holding, Tree
      <4> QED BY <1>1, <2>0, <4>1, <4>2, MoveTyped DEF Tree
    <3> QED BY <2>1, <3>1
  <2>5. CASE RemoveActivatedFiles
    <3>1. CASE ~UNCHANGED files
      <4>1. PICK q \in todo : CanDeactivate(q) /\ files' = [files EXCEPT !["destination"][q] = None]
        BY <2>5, <3>1 DEF RemoveActivatedFiles
      <4>2. files["destination"][q] # Foreign
        BY <1>1, <2>0, <2>5, <4>1, HeldIsPackaged DEF RemoveActivatedFiles, CanDeactivate,
             Holding, Tree
      <4> QED BY <1>1, <2>0, <4>1, <4>2 DEF Tree
    <3> QED BY <2>1, <3>1
  <2>6. CASE StagePackage
    BY <1>1, <2>0, <2>6 DEF StagePackage, Tree
  <2>7. ASSUME NEW t \in {"stage", "backup"}, RemoveCleanupTree(t) PROVE files'["destination"][p] = Foreign
    BY <1>1, <2>0, <2>7 DEF RemoveCleanupTree, Tree
  <2>8. CASE Refuse \/ Fail
    BY <1>1, <2>0, <2>8, AbandonFiles DEF Refuse, Fail, Tree
  <2> QED BY <1>1, <2>1, <2>3, <2>4, <2>5, <2>6, <2>7, <2>8
      DEF WorkerStep, RecoverExisting, ClassifyDestination, InspectInstallation, CreateLocator,
          PrepareTransaction, WriteTemporary, PublishJournal, ActivateReceipt, WriteRegistration,
          VerifyInstallation, RemoveRegistration, CommitInstall, Rollback, RestoreBackup,
          RestoreReceipt, RestoreRegistration, CleanupTransaction, RemoveBooks, Crash, disk, payload
<1>2. InstallInv =>
        (WorkerStep \/ Fail \/ Crash =>
            \A p \in Path : files["destination"][p] = Foreign => files'["destination"][p] = Foreign)
  BY <1>1
<1> QED BY <1>2, InstallInvariant, PTL DEF ForeignKept

(* A file of the backup goes away only to its place in the destination, or   *)
(* after the commit: the only copy of the previous installation is not lost. *)
THEOREM BackupStays == Spec => BackupKept
<1>1. ASSUME InstallInv, [Next]_vars, NEW p \in Path, files["backup"][p] # None, files'["backup"][p] = None
      PROVE  \/ journal # None /\ journal.phase = Committed
             \/ files'["destination"][p] = files["backup"][p]
  <2>0. files \in [Tree -> [Path -> Content \cup {None, Foreign}]] /\ todo \subseteq Path
    BY <1>1 DEF InstallInv, DiskOK, WorkerOK
  <2>1. ~UNCHANGED files
    BY <1>1
  <2>2. CASE RestoreFiles
    <3>1. PICK q \in todo : Move("backup", "destination", q)
      BY <2>1, <2>2 DEF RestoreFiles
    <3>2. q = p
      BY <1>1, <2>0, <3>1, MoveTyped DEF Tree
    <3> QED BY <1>1, <2>0, <3>1, <3>2, MoveTyped DEF Tree
  <2>3. ASSUME NEW t \in {"stage", "backup"}, RemoveCleanupTree(t)
        PROVE  journal # None /\ journal.phase = Committed
    <3>1. pc = "clean" /\ t = "backup"
      BY <1>1, <2>0, <2>3 DEF RemoveCleanupTree, Tree
    <3> QED BY <1>1, <3>1 DEF InstallInv, BackedUp, Emptied
  <2>4. CASE MoveToBackup \/ RemoveInstallation
    <3>1. PICK q \in todo : Move("destination", "backup", q)
      BY <2>1, <2>4 DEF MoveToBackup, RemoveInstallation
    <3> QED BY <1>1, <2>0, <3>1, MoveTyped DEF Tree
  <2>5. CASE Activate
    <3>1. PICK q \in todo : Move("stage", "destination", q)
      BY <2>1, <2>5 DEF Activate
    <3> QED BY <1>1, <2>0, <3>1, MoveTyped DEF Tree
  <2>6. CASE StagePackage \/ RemoveActivatedFiles
    BY <1>1, <2>0, <2>1, <2>6 DEF StagePackage, RemoveActivatedFiles, Tree
  <2>7. CASE Refuse \/ Fail
    BY <1>1, <2>0, <2>1, <2>7, AbandonFiles DEF Refuse, Fail, Tree
  <2>8. ASSUME NEW q \in Path, NEW c \in {None, Foreign}, Edit(q, c) PROVE FALSE
    BY <1>1, <2>0, <2>8 DEF Edit, Tree
  <2> QED BY <1>1, <2>1, <2>2, <2>3, <2>4, <2>5, <2>6, <2>7, <2>8
      DEF Next, WorkerStep, Start, RecoverExisting, ClassifyDestination, InspectInstallation, CreateLocator,
          PrepareTransaction, WriteTemporary, PublishJournal, ActivateReceipt, WriteRegistration,
          VerifyInstallation, RemoveRegistration, CommitInstall, Rollback, RestoreBackup,
          RestoreReceipt, RestoreRegistration, CleanupTransaction, RemoveBooks, Crash, disk, payload, vars
<1>2. InstallInv /\ [Next]_vars =>
        \A p \in Path :
            files["backup"][p] # None /\ files'["backup"][p] = None =>
               \/ journal # None /\ journal.phase = Committed
               \/ files'["destination"][p] = files["backup"][p]
  BY <1>1
<1> QED BY <1>2, InstallInvariant, PTL DEF BackupKept, Spec

(***************************************************************************)
(* What an installation transaction leaves behind, whatever interrupts it: *)
(* the previous installation can be restored until the commit, and when    *)
(* the transaction is closed one installation stands as a whole.           *)
(***************************************************************************)

(* The inductive invariant, beside InstallInv. *)

(* The paths that no user has touched, and what an installation of v has    *)
(* there.                                                                    *)
Kept == Path \ edited
Of(v, p) == IF v = None THEN None ELSE Package[v][p]

(* The destination is the installation of v, up to its registration.         *)
Stands(v) == receipt["destination"] = v /\ \A p \in Kept : files["destination"][p] = Of(v, p)
RegisteredStands == Stands(registration)
OldStands == Stands(journal.previous)
NewStands == Stands(journal.new)

(* Each file of the previous installation is in the destination or in the    *)
(* backup, and the receipt, which moves last, is in one of the two.          *)
OldApart == \A p \in Kept :
    \/ files["destination"][p] = Of(journal.previous, p)
    \/ files["backup"][p] = Of(journal.previous, p) /\ files["destination"][p] = None
OldReceipt ==
    \/ receipt["destination"] = journal.previous /\ receipt["backup"] = None
    \/ receipt["destination"] = None /\ receipt["backup"] = journal.previous

(* It is in the backup as a whole, and the destination holds no other file   *)
(* than those of the new installation, or none.                              *)
OldSaved == receipt["backup"] = journal.previous /\ \A p \in Kept : files["backup"][p] = Of(journal.previous, p)
NewPartly == \A p \in Kept : files["destination"][p] \in {None, Of(journal.new, p)}
Vacant == \A p \in Kept : files["destination"][p] = None

(* What has been done to the paths that were treated.                        *)
HeldPlaced == \A p \in Kept \ todo : files["destination"][p] = Of(held, p)
HeldAside == \A p \in Kept \ todo : files["backup"][p] = Of(held, p)
TakenAway == \A p \in Kept \ todo : files["destination"][p] = None

(* Before the first journal the registered installation is as it was, and    *)
(* the request works from its receipt.                                       *)
Untouched == journal = None =>
    /\ RegisteredStands
    /\ pc \in {"locate", "prepare", "stage", "write", "publish"} => held = registration
    /\ pc \in Journalled =>
          /\ pc \in {"stage", "write", "publish", "rollback", "restore", "restoreFiles", "restoreRegistration"}
          /\ memory.phase = Staged /\ memory.previous = registration
          /\ receipt["backup"] = None /\ Emptied
    /\ pc = "stage" => memory.new = request.version
    /\ pc \in {"write", "publish"} /\ memory.operation = "install" => receipt["stage"] = memory.new

(* The worker's journal is the published one, but for the phase.             *)
Shaped(j) == j.operation = "uninstall" => j.new = None /\ j.previous \in Version
JournalsAgree ==
    /\ journal # None => Shaped(journal)
    /\ pc \in Journalled => Shaped(memory)
    /\ journal # None /\ pc \in Journalled \cup {"cleanup", "clean"} =>
          /\ memory.operation = journal.operation /\ memory.previous = journal.previous
          /\ memory.new = journal.new /\ memory.repair = journal.repair

(* A committed installation is in place. *)
CommittedStands == journal # None /\ journal.phase = Committed => NewStands /\ registration = journal.new

(* The steps up to the restoration, and a transaction that can be undone.    *)
(* From BackupMoved on, in the journal or only in the worker's memory, its   *)
(* rollback removes what was activated.                                      *)
Early == {"idle", "recover", "commit", "backup", "remove", "write", "publish", "activate", "activateReceipt",
          "register", "verify", "unregister", "rollback", "deactivate", "restore"}
Undoable == journal # None /\ journal.phase < Committed
Installing == journal.operation = "install"
Deep == Installing /\ (\/ journal.phase >= BackupMoved
                       \/ pc \in {"write", "publish", "rollback", "deactivate"} /\ memory.phase >= BackupMoved)

DeepKept == Undoable /\ pc \in Early /\ Deep =>
    /\ "backup" \in directories /\ receipt["stage"] = journal.new
    /\ OldSaved /\ NewPartly
    /\ receipt["destination"] \in {None, journal.new, Torn}
    /\ receipt["destination"] = Torn => pc = "activateReceipt"
    /\ journal.phase = Staged \/ pc = "restore" => Vacant /\ receipt["destination"] = None
ApartKept == Undoable /\ pc \in Early /\ (journal.phase = Staged \/ ~Installing \/ pc = "restore") =>
    OldApart /\ OldReceipt

(* The way forward: the move to the backup, the removal of an uninstall, the *)
(* activation and what follows it.                                           *)
BackupGoes == journal # None /\ pc = "backup" =>
    /\ Installing /\ journal.phase = Staged /\ memory.phase = Staged
    /\ held = journal.previous /\ receipt["stage"] = journal.new
    /\ TakenAway /\ HeldAside
RemovalGoes ==
    /\ journal # None /\ pc = "remove" => ~Installing /\ held = journal.previous /\ TakenAway
    /\ journal # None /\ (pc = "unregister" \/ (pc \in {"write", "publish"} /\ ~Installing)) =>
          ~Installing /\ Vacant /\ receipt["destination"] = None /\ "backup" \in directories
    /\ journal # None /\ pc \in {"write", "publish"} /\ ~Installing /\ memory.phase >= RegistrationWritten =>
          registration = None
ActivationGoes ==
    /\ journal # None /\ pc \in {"activate", "activateReceipt", "register", "verify"} =>
          Installing /\ journal.phase >= BackupMoved /\ memory.phase >= BackupMoved
    /\ journal # None /\ pc \in {"activate", "activateReceipt"} => held = journal.new /\ HeldPlaced
    /\ journal # None /\ pc = "activateReceipt" => todo = {}
    /\ journal # None /\ pc \in {"register", "verify"} => NewStands
WritesGo ==
    /\ journal # None /\ pc \in {"write", "publish"} => memory.phase >= BackupMoved
    /\ journal # None /\ pc \in {"write", "publish"} /\ Installing /\ memory.phase >= PayloadActivated => NewStands
    /\ journal # None /\ pc \in {"write", "publish"} /\ Installing /\ memory.phase >= RegistrationWritten =>
          registration = journal.new

(* The way back: what was activated is removed, then the backup restored.    *)
RollbackGoes ==
    /\ journal # None /\ pc = "rollback" /\ Installing /\ journal.phase >= BackupMoved => memory.phase >= BackupMoved
    /\ journal # None /\ pc = "deactivate" => Installing /\ memory.phase >= BackupMoved /\ held = journal.new /\ TakenAway
RestorationGoes ==
    /\ journal # None /\ pc = "restoreFiles" =>
          held = journal.previous /\ "backup" \in directories /\ OldApart /\ HeldPlaced /\ OldReceipt
    /\ journal # None /\ pc = "restoreReceipt" =>
          /\ held = journal.previous /\ "backup" \in directories /\ todo = {}
          /\ HeldPlaced /\ receipt["backup"] = held /\ receipt["destination"] = Torn
    /\ journal # None /\ pc = "restoreRegistration" => OldStands /\ receipt["backup"] \in {None, journal.previous}
CleanupGoes ==
    /\ Undoable /\ pc \in {"cleanup", "clean"} =>
          OldStands /\ registration = journal.previous /\ receipt["backup"] \in {None, journal.previous}
    /\ Undoable /\ "backup" \notin directories => OldStands /\ registration = journal.previous

(* What an interruption leaves is enough for the recovery.                   *)
RecoveryInv == ~disturbed =>
    /\ Untouched /\ JournalsAgree /\ CommittedStands /\ DeepKept /\ ApartKept
    /\ BackupGoes /\ RemovalGoes /\ ActivationGoes /\ WritesGo
    /\ RollbackGoes /\ RestorationGoes /\ CleanupGoes

-----------------------------------------------------------------------------
(* Steps that leave the disk alone. *)

(* What the invariant says of the trees depends on them, on the journal and  *)
(* on what the user has touched.                                             *)
LEMMA SameTrees ==
    ASSUME UNCHANGED <<files, receipt, edited, journal>>
    PROVE  /\ (OldStands' <=> OldStands) /\ (NewStands' <=> NewStands)
           /\ (OldApart' <=> OldApart) /\ (OldReceipt' <=> OldReceipt)
           /\ (OldSaved' <=> OldSaved) /\ (NewPartly' <=> NewPartly) /\ (Vacant' <=> Vacant)
           /\ (Installing' <=> Installing) /\ (Undoable' <=> Undoable)
<1>1. Kept' = Kept
  BY DEF Kept
<1> QED BY <1>1 DEF OldStands, NewStands, Stands, OldApart, OldReceipt, OldSaved, NewPartly, Vacant, Installing, Undoable, Of

(* What it says of the treated paths depends on them, too.                   *)
LEMMA SameTreated ==
    ASSUME UNCHANGED <<files, edited, held, todo>>
    PROVE  (HeldPlaced' <=> HeldPlaced) /\ (HeldAside' <=> HeldAside) /\ (TakenAway' <=> TakenAway)
<1>1. Kept' = Kept
  BY DEF Kept
<1> QED BY <1>1 DEF HeldPlaced, HeldAside, TakenAway, Of

(* The parts of the invariant.                                               *)
LEMMA RecoveryParts ==
    ASSUME RecoveryInv, ~disturbed
    PROVE  /\ Untouched /\ JournalsAgree /\ CommittedStands /\ DeepKept /\ ApartKept
           /\ BackupGoes /\ RemovalGoes /\ ActivationGoes /\ WritesGo
           /\ RollbackGoes /\ RestorationGoes /\ CleanupGoes
  BY DEF RecoveryInv

(* Without a journal the other parts say nothing.                            *)
LEMMA NoJournal ==
    ASSUME journal' = None, Untouched', pc' \in Journalled => Shaped(memory)'
    PROVE  RecoveryInv'
  BY DEF RecoveryInv, JournalsAgree, CommittedStands, DeepKept, ApartKept, BackupGoes, RemovalGoes, ActivationGoes,
         WritesGo, RollbackGoes, RestorationGoes, CleanupGoes, Undoable

(* Where there is a journal the worker is in one of these steps.             *)
LEMMA PlacesWithJournal ==
    ASSUME InstallInv, journal # None
    PROVE  /\ pc \in Early \cup {"restoreFiles", "restoreReceipt", "restoreRegistration", "cleanup", "clean"}
           /\ journal \in Journal /\ Sound(journal) /\ journal.phase \in 1..6
           /\ journal.previous \in Version \cup {None} /\ journal.new \in Version \cup {None}
           /\ journal.operation \in {"install", "uninstall"}
<1>1. pc \in Steps /\ pc \notin {"classify", "inspect", "locate", "prepare", "stage"}
  BY DEF InstallInv, WorkerOK, Opened
<1>2. journal \in Journal /\ Sound(journal)
  BY DEF InstallInv, JournalKnown, Sound
<1> QED BY <1>1, <1>2 DEF Steps, Early, Journal, Staged, Committed

(* A worker that stops, of itself or by a crash, but not where the recovery  *)
(* cannot cope with it, leaves what the next one can go on from; and so does *)
(* one that begins.                                                          *)
LEMMA Rests ==
    ASSUME InstallInv, RecoveryInv, ~disturbed, pc' \in {"idle", "recover", "commit"}, ~Restoring,
           UNCHANGED <<files, receipt, edited, journal, registration, directories>>,
           pc \in {"activateReceipt", "restoreReceipt"} => receipt["destination"] # Torn
    PROVE  RecoveryInv'
<1>1. /\ Untouched /\ JournalsAgree /\ CommittedStands /\ DeepKept /\ ApartKept
      /\ RestorationGoes /\ CleanupGoes
  BY RecoveryParts
<1>2. /\ (OldStands' <=> OldStands) /\ (NewStands' <=> NewStands)
      /\ (OldApart' <=> OldApart) /\ (OldReceipt' <=> OldReceipt)
      /\ (OldSaved' <=> OldSaved) /\ (NewPartly' <=> NewPartly) /\ (Vacant' <=> Vacant)
      /\ (Installing' <=> Installing) /\ (Undoable' <=> Undoable)
  BY SameTrees
<1>3. /\ pc' \notin Journalled /\ pc' \in Early
      /\ pc' \notin {"locate", "prepare", "stage", "write", "publish", "rollback", "deactivate", "restore", "activateReceipt",
                     "backup", "remove", "unregister", "activate", "register", "verify",
                     "restoreFiles", "restoreReceipt", "restoreRegistration", "cleanup", "clean"}
  BY DEF Journalled, Early
<1>4. Untouched'
  BY <1>1, <1>3 DEF Untouched, RegisteredStands, Stands, Kept, Of
<1>5. JournalsAgree'
  BY <1>1, <1>3 DEF JournalsAgree, Shaped
<1>6. CommittedStands'
  BY <1>1, <1>2 DEF CommittedStands
<1>7. ASSUME Undoable, Installing, journal.phase >= BackupMoved
      PROVE  /\ pc \in Early /\ Deep /\ "backup" \in directories /\ receipt["stage"] = journal.new
             /\ OldSaved /\ NewPartly /\ receipt["destination"] \in {None, journal.new}
  <2>1. journal # None /\ journal.phase # Committed
    BY <1>7, PlacesWithJournal DEF Undoable, Committed
  <2>2. pc \notin {"restoreFiles", "restoreReceipt", "restoreRegistration", "cleanup", "clean"}
    BY <1>7, <2>1 DEF Restoring, Installing
  <2>3. pc \in Early
    BY <2>1, <2>2, PlacesWithJournal
  <2> QED BY <1>1, <1>7, <2>3 DEF DeepKept, Deep
<1>8. DeepKept'
  <2> SUFFICES ASSUME Undoable, Installing, journal.phase >= BackupMoved PROVE
        /\ "backup" \in directories' /\ receipt'["stage"] = journal'.new /\ OldSaved' /\ NewPartly'
        /\ receipt'["destination"] \in {None, journal'.new, Torn}
        /\ receipt'["destination"] # Torn /\ journal'.phase # Staged /\ pc' # "restore"
    BY <1>2, <1>3 DEF DeepKept, Deep
  <2>1. journal # None /\ journal.phase \in 1..6 /\ journal.new # Torn
    BY PlacesWithJournal, ValueAssumption DEF Undoable
  <2> QED BY <1>2, <1>3, <1>7, <2>1, ValueAssumption DEF Staged, BackupMoved
<1>9. ASSUME Undoable, journal.phase = Staged \/ ~Installing PROVE OldApart /\ OldReceipt
  <2>1. journal # None /\ journal.phase # Committed
    BY <1>9, PlacesWithJournal DEF Undoable, Committed
  <2>2. CASE pc \in Early
    BY <1>1, <1>9, <2>2 DEF ApartKept
  <2>3. CASE pc = "restoreFiles"
    BY <1>1, <2>1, <2>3 DEF RestorationGoes
  <2>4. CASE pc = "restoreReceipt"
    BY <1>1, <2>1, <2>4 DEF RestorationGoes
  <2>5. CASE pc \in {"restoreRegistration", "cleanup", "clean"}
    <3>1. OldStands /\ receipt["backup"] \in {None, journal.previous}
      BY <1>1, <1>9, <2>1, <2>5 DEF RestorationGoes, CleanupGoes
    <3>2. receipt["backup"] = None \/ receipt["destination"] = None
      BY <2>1, <2>5 DEF Restoring, Lenient
    <3> QED BY <3>1, <3>2 DEF OldStands, Stands, OldApart, OldReceipt
  <2> QED BY <2>1, <2>2, <2>3, <2>4, <2>5, PlacesWithJournal
<1>10. ApartKept'
  BY <1>2, <1>3, <1>9 DEF ApartKept
<1>11. BackupGoes' /\ RemovalGoes' /\ ActivationGoes' /\ WritesGo' /\ RollbackGoes' /\ RestorationGoes'
  BY <1>3 DEF BackupGoes, RemovalGoes, ActivationGoes, WritesGo, RollbackGoes, RestorationGoes
<1>12. CleanupGoes'
  BY <1>1, <1>2, <1>3 DEF CleanupGoes
<1> QED BY <1>4, <1>5, <1>6, <1>8, <1>10, <1>11, <1>12 DEF RecoveryInv

(* A request begins.                                                         *)
LEMMA StartRecovers ==
    ASSUME InstallInv, RecoveryInv, ~disturbed', NEW r \in Request, Start(r)
    PROVE  RecoveryInv'
<1>1. /\ pc = "idle" /\ pc' \in {"recover", "commit"} /\ ~disturbed
      /\ UNCHANGED <<files, receipt, edited, journal, registration, directories>>
  BY DEF Start, disk, environment
<1>2. ~Restoring
  BY <1>1 DEF Restoring
<1> QED BY <1>1, <1>2, Rests

(* A recovery takes up the journal where it was left.                        *)
LEMMA RecoverExistingRecovers ==
    ASSUME InstallInv, RecoveryInv, ~disturbed', RecoverExisting
    PROVE  RecoveryInv'
<1>1. /\ pc = "recover" /\ ~disturbed /\ request \in Request /\ request.kind # "commit"
      /\ UNCHANGED <<files, receipt, edited, journal, registration, directories>>
  BY DEF RecoverExisting, disk, environment, InstallInv, RequestKnown
<1>2. /\ Untouched /\ JournalsAgree /\ CommittedStands /\ DeepKept /\ ApartKept /\ CleanupGoes
  BY <1>1, RecoveryParts
<1>3. CASE ~locator /\ Proceed
  <2>1. pc' \in {"idle", "classify", "inspect"}
    BY <1>1, <1>3, ProceedOutcome DEF Finish
  <2>2. journal = None
    BY <1>3 DEF InstallInv, Opened
  <2>3. Untouched'
    BY <1>1, <1>2, <2>1, <2>2 DEF Untouched, RegisteredStands, Stands, Kept, Of, Journalled
  <2> QED BY <1>1, <2>1, <2>2, <2>3, NoJournal DEF Journalled
<1>4. CASE /\ locator /\ owner /\ journal # None /\ pc' = RecoveryStep
           /\ memory' = journal /\ resume' = TRUE /\ UNCHANGED <<request, held, todo>>
  <2>1. /\ (OldStands' <=> OldStands) /\ (NewStands' <=> NewStands)
        /\ (OldApart' <=> OldApart) /\ (OldReceipt' <=> OldReceipt)
        /\ (OldSaved' <=> OldSaved) /\ (NewPartly' <=> NewPartly) /\ (Vacant' <=> Vacant)
        /\ (Installing' <=> Installing) /\ (Undoable' <=> Undoable)
    BY <1>1, SameTrees
  <2>2. journal.phase \in 1..6
    BY <1>4, PlacesWithJournal
  <2>3. pc' \in {"rollback", "cleanup"} /\ (pc' = "cleanup" <=> journal.phase = Committed)
    BY <1>4 DEF RecoveryStep
  <2>4. Untouched' /\ CommittedStands'
    BY <1>1, <1>2, <1>4, <2>1 DEF Untouched, CommittedStands
  <2>5. JournalsAgree'
    BY <1>1, <1>2, <1>4 DEF JournalsAgree, Shaped
  <2>6. DeepKept'
    BY <1>1, <1>2, <1>4, <2>1, <2>2, <2>3 DEF DeepKept, Deep, Early
  <2>7. ApartKept'
    BY <1>1, <1>2, <1>4, <2>1, <2>2, <2>3 DEF ApartKept, Early
  <2>8. BackupGoes' /\ RemovalGoes' /\ ActivationGoes' /\ WritesGo' /\ RestorationGoes'
    BY <2>3 DEF BackupGoes, RemovalGoes, ActivationGoes, WritesGo, RestorationGoes
  <2>9. RollbackGoes'
    BY <1>1, <1>4, <2>3 DEF RollbackGoes
  <2>10. CleanupGoes'
    BY <1>1, <1>2, <1>4, <2>1, <2>2, <2>3 DEF CleanupGoes, Undoable
  <2> QED BY <2>4, <2>5, <2>6, <2>7, <2>8, <2>9, <2>10 DEF RecoveryInv
<1>5. CASE locator /\ ~(owner /\ journal # None) /\ Return
  <2>1. pc' \in {"idle", "recover", "commit"}
    BY <1>1, <1>5, ReturnOutcome DEF Finish
  <2>2. ~Restoring
    BY <1>1 DEF Restoring
  <2> QED BY <1>1, <2>1, <2>2, Rests
<1> QED BY <1>3, <1>4, <1>5 DEF RecoverExisting

(* The request looks at the destination.                                     *)
LEMMA ClassificationRecovers ==
    ASSUME InstallInv, RecoveryInv, ~disturbed', ClassifyDestination \/ InspectInstallation
    PROVE  RecoveryInv'
<1>1. /\ pc \in {"classify", "inspect"} /\ ~disturbed /\ request \in Request
      /\ UNCHANGED <<files, receipt, edited, journal, registration, directories>>
  BY ClassifyOutcome, InspectOutcome DEF disk, environment, InstallInv, RequestKnown
<1>2. Untouched /\ journal = None
  BY <1>1, RecoveryParts DEF InstallInv, Opened
<1>3. \/ pc' = "locate" /\ held' = receipt["destination"]
      \/ Return
  <2>1. CASE ClassifyDestination
    <3> DEFINE v == receipt["destination"]
               owned == /\ v \in Version
                        /\ Identified(v, ~request.repair)
                        /\ request.repair => HoldsAll("destination", v, TRUE)
    <3>1. IF EmptyDestination \/ owned
          THEN pc' = "locate" /\ held' = v /\ UNCHANGED <<request, memory, resume, todo>>
          ELSE Return
      BY <2>1 DEF ClassifyDestination
    <3> HIDE DEF owned
    <3> QED BY <3>1
  <2>2. CASE InspectInstallation
    BY <2>2 DEF InspectInstallation
  <2> QED BY <2>1, <2>2
<1>4. pc' \in {"locate", "idle", "recover"}
  BY <1>1, <1>3, ReturnOutcome DEF Finish
<1>5. pc' = "locate" => held' = registration
  <2>1. pc' # "locate" \/ ~Return
    BY <1>1, ReturnOutcome DEF Finish
  <2>2. receipt["destination"] = registration
    BY <1>2 DEF Untouched, RegisteredStands, Stands
  <2> QED BY <1>3, <2>1, <2>2
<1>6. Untouched'
  BY <1>1, <1>2, <1>4, <1>5 DEF Untouched, RegisteredStands, Stands, Kept, Of, Journalled
<1> QED BY <1>1, <1>2, <1>4, <1>6, NoJournal DEF Journalled

(* The transaction is created.                                               *)
LEMMA CreationRecovers ==
    ASSUME InstallInv, RecoveryInv, ~disturbed', CreateLocator \/ PrepareTransaction
    PROVE  RecoveryInv'
<1>1. /\ ~disturbed /\ UNCHANGED <<files, receipt, edited, journal, registration, request, held>>
  BY DEF CreateLocator, PrepareTransaction, payload, environment, GoTo, call
<1>2. Untouched /\ journal = None /\ pc \in {"locate", "prepare"}
  BY <1>1, RecoveryParts DEF InstallInv, Opened, CreateLocator, PrepareTransaction
<1>3. held = registration /\ RegisteredStands'
  BY <1>1, <1>2 DEF Untouched, RegisteredStands, Stands, Kept, Of
<1>4. CASE CreateLocator
  <2>1. pc' = "prepare"
    BY <1>4 DEF CreateLocator, GoTo
  <2>2. Untouched'
    BY <1>1, <1>3, <2>1 DEF Untouched, Journalled
  <2> QED BY <1>1, <1>2, <2>1, <2>2, NoJournal DEF Journalled
<1>5. CASE PrepareTransaction
  <2>1. pc = "prepare" /\ receipt["backup"] = None /\ Emptied
    BY <1>5 DEF PrepareTransaction, InstallInv, Opened, BackedUp
  <2>2. request.kind \in {"install", "uninstall"} /\ (request.kind = "uninstall" => held \in Version)
    BY <2>1 DEF InstallInv, RequestKnown, ReceiptKnown
  <2>3. PICK m : m = [operation |-> request.kind, phase |-> Staged, previous |-> registration,
                      new |-> IF request.kind = "install" THEN request.version ELSE None,
                      repair |-> request.kind = "install" /\ request.repair]
    OBVIOUS
  <2>4. /\ m.operation = request.kind /\ m.phase = Staged /\ m.previous = registration
        /\ m.new = IF request.kind = "install" THEN request.version ELSE None
    BY <2>3
  <2>5. memory' = m /\ pc' = IF request.kind = "install" THEN "stage" ELSE "write"
    BY <1>5, <2>3 DEF PrepareTransaction
  <2>6. Untouched'
    BY <1>1, <1>3, <2>1, <2>2, <2>4, <2>5 DEF Untouched, Journalled, Emptied
  <2>7. Shaped(memory)'
    BY <1>3, <2>2, <2>4, <2>5 DEF Shaped
  <2> QED BY <1>1, <1>2, <2>6, <2>7, NoJournal
<1> QED BY <1>4, <1>5

(* The package is staged.                                                    *)
LEMMA StagePackageRecovers ==
    ASSUME InstallInv, RecoveryInv, ~disturbed', StagePackage
    PROVE  RecoveryInv'
<1>1. /\ pc = "stage" /\ pc' \in {"cleanup", "write"} /\ ~disturbed
      /\ files' = [files EXCEPT !["stage"] = Package[request.version]]
      /\ receipt' = [receipt EXCEPT !["stage"] = request.version]
      /\ UNCHANGED <<edited, journal, registration, request, held, memory>>
  BY DEF StagePackage, GoTo, call, environment, books
<1>2. Untouched /\ JournalsAgree /\ journal = None /\ DiskOK
  BY <1>1, RecoveryParts DEF InstallInv, Opened
<1>3. /\ files'["destination"] = files["destination"] /\ files'["backup"] = files["backup"]
      /\ receipt'["destination"] = receipt["destination"] /\ receipt'["backup"] = receipt["backup"]
      /\ receipt'["stage"] = request.version
  BY <1>1, <1>2 DEF DiskOK, Tree
<1>4. /\ RegisteredStands /\ held = registration /\ memory.phase = Staged /\ memory.previous = registration
      /\ receipt["backup"] = None /\ Emptied /\ memory.new = request.version
  BY <1>1, <1>2 DEF Untouched, Journalled
<1>5. RegisteredStands' /\ Emptied'
  BY <1>1, <1>3, <1>4 DEF RegisteredStands, Stands, Kept, Of, Emptied
<1>6. Untouched'
  BY <1>1, <1>3, <1>4, <1>5 DEF Untouched, Journalled
<1>7. Shaped(memory)'
  BY <1>1, <1>2 DEF JournalsAgree, Shaped, Journalled
<1> QED BY <1>1, <1>2, <1>6, <1>7, NoJournal

(* The journal is written to a temporary.                                    *)
LEMMA WriteTemporaryRecovers ==
    ASSUME InstallInv, RecoveryInv, ~disturbed', WriteTemporary
    PROVE  RecoveryInv'
<1>1. /\ pc = "write" /\ pc' = "publish" /\ ~disturbed
      /\ UNCHANGED <<files, receipt, edited, journal, registration, directories, request, held, memory, todo>>
  BY DEF WriteTemporary, GoTo, call, environment, payload
<1>2. /\ Untouched /\ JournalsAgree /\ CommittedStands /\ DeepKept /\ ApartKept
      /\ RemovalGoes /\ WritesGo /\ CleanupGoes
  BY <1>1, RecoveryParts
<1>3. /\ (OldStands' <=> OldStands) /\ (NewStands' <=> NewStands)
      /\ (OldApart' <=> OldApart) /\ (OldReceipt' <=> OldReceipt)
      /\ (OldSaved' <=> OldSaved) /\ (NewPartly' <=> NewPartly) /\ (Vacant' <=> Vacant)
      /\ (Installing' <=> Installing) /\ (Undoable' <=> Undoable)
  BY <1>1, SameTrees
<1>4. Untouched'
  BY <1>1, <1>2 DEF Untouched, RegisteredStands, Stands, Kept, Of, Journalled, Emptied
<1>5. JournalsAgree' /\ CommittedStands'
  BY <1>1, <1>2, <1>3 DEF JournalsAgree, Shaped, Journalled, CommittedStands
<1>6. DeepKept' /\ ApartKept'
  BY <1>1, <1>2, <1>3 DEF DeepKept, ApartKept, Deep, Early
<1>7. RemovalGoes' /\ WritesGo'
  BY <1>1, <1>2, <1>3 DEF RemovalGoes, WritesGo
<1>8. BackupGoes' /\ ActivationGoes' /\ RollbackGoes' /\ RestorationGoes'
  BY <1>1 DEF BackupGoes, ActivationGoes, RollbackGoes, RestorationGoes
<1>9. CleanupGoes'
  BY <1>1, <1>2, <1>3 DEF CleanupGoes
<1> QED BY <1>4, <1>5, <1>6, <1>7, <1>8, <1>9 DEF RecoveryInv

(* The installation is verified, or the verified one committed.              *)
LEMMA VerificationRecovers ==
    ASSUME InstallInv, RecoveryInv, ~disturbed', VerifyInstallation
    PROVE  RecoveryInv'
<1>1. /\ pc = "verify" /\ pc' = "write" /\ ~disturbed /\ memory' = [memory EXCEPT !.phase = Verified]
      /\ registration = memory.new
      /\ UNCHANGED <<files, receipt, edited, journal, registration, directories, request, held, todo>>
  BY DEF VerifyInstallation, Record, environment, disk, Identified
<1>2. /\ Untouched /\ JournalsAgree /\ CommittedStands /\ DeepKept /\ ApartKept
      /\ ActivationGoes /\ CleanupGoes
  BY <1>1, RecoveryParts
<1>3. /\ (OldStands' <=> OldStands) /\ (NewStands' <=> NewStands)
      /\ (OldApart' <=> OldApart) /\ (OldReceipt' <=> OldReceipt)
      /\ (OldSaved' <=> OldSaved) /\ (NewPartly' <=> NewPartly) /\ (Vacant' <=> Vacant)
      /\ (Installing' <=> Installing) /\ (Undoable' <=> Undoable)
  BY <1>1, SameTrees
<1>4. journal # None /\ Installing /\ journal.phase >= BackupMoved /\ NewStands
  BY <1>1, <1>2 DEF Untouched, Journalled, ActivationGoes
<1>5. /\ Sound(memory) /\ memory'.phase = Verified
      /\ memory'.operation = memory.operation /\ memory'.previous = memory.previous
      /\ memory'.new = memory.new /\ memory'.repair = memory.repair
  BY <1>1 DEF InstallInv, JournalKnown, Journalled, Sound, Journal
<1>6. Untouched' /\ JournalsAgree' /\ CommittedStands'
  BY <1>1, <1>2, <1>3, <1>4, <1>5 DEF Untouched, JournalsAgree, Shaped, Journalled, CommittedStands
<1>7. DeepKept'
  BY <1>1, <1>2, <1>3, <1>4, PlacesWithJournal, ValueAssumption DEF DeepKept, Deep, Early
<1>8. ApartKept'
  BY <1>1, <1>2, <1>3 DEF ApartKept, Early
<1>9. RemovalGoes' /\ WritesGo'
  <2>1. registration' = journal'.new
    BY <1>1, <1>2, <1>4 DEF JournalsAgree, Journalled
  <2> QED BY <1>1, <1>3, <1>4, <1>5, <2>1 DEF RemovalGoes, WritesGo, Verified, BackupMoved
<1>10. BackupGoes' /\ ActivationGoes' /\ RollbackGoes' /\ RestorationGoes'
  BY <1>1 DEF BackupGoes, ActivationGoes, RollbackGoes, RestorationGoes
<1>11. CleanupGoes'
  BY <1>1, <1>2, <1>3 DEF CleanupGoes
<1> QED BY <1>6, <1>7, <1>8, <1>9, <1>10, <1>11 DEF RecoveryInv

(* A deferred commit begins.                                                 *)
LEMMA CommitRecovers ==
    ASSUME InstallInv, RecoveryInv, ~disturbed', CommitInstall
    PROVE  RecoveryInv'
<1>1. /\ pc = "commit" /\ ~disturbed
      /\ UNCHANGED <<files, receipt, edited, journal, registration, directories>>
  BY DEF CommitInstall, disk, environment
<1>2. ~Restoring
  BY <1>1 DEF Restoring
<1>3. CASE ~locator /\ Finish
  BY <1>1, <1>2, <1>3, Rests DEF Finish
<1>4. CASE /\ locator /\ Committable
           /\ memory' = [journal EXCEPT !.phase = Committed]
           /\ pc' = IF journal.phase = Committed THEN "cleanup" ELSE "write"
  <2>1. /\ Untouched /\ JournalsAgree /\ CommittedStands /\ DeepKept /\ ApartKept /\ CleanupGoes
    BY <1>1, RecoveryParts
  <2>2. /\ (OldStands' <=> OldStands) /\ (NewStands' <=> NewStands)
        /\ (OldApart' <=> OldApart) /\ (OldReceipt' <=> OldReceipt)
        /\ (OldSaved' <=> OldSaved) /\ (NewPartly' <=> NewPartly) /\ (Vacant' <=> Vacant)
        /\ (Installing' <=> Installing) /\ (Undoable' <=> Undoable)
    BY <1>1, SameTrees
  <2>3. /\ journal # None /\ Installing /\ journal \in Journal /\ journal.phase \in {Verified, Committed}
        /\ journal.new \in Version
    BY <1>4, PlacesWithJournal DEF Committable, Installing, Sound
  <2>4. /\ memory'.phase = Committed /\ memory'.operation = journal.operation /\ memory'.previous = journal.previous
        /\ memory'.new = journal.new /\ memory'.repair = journal.repair
    BY <1>4, <2>3 DEF Journal
  <2>5. Untouched' /\ JournalsAgree' /\ CommittedStands'
    BY <1>1, <1>4, <2>1, <2>2, <2>3, <2>4 DEF Untouched, JournalsAgree, Shaped, CommittedStands
  <2>6. CASE journal.phase = Committed
    <3>1. ~Undoable' /\ pc' = "cleanup"
      BY <1>1, <1>4, <2>6 DEF Undoable, Committed
    <3>2. DeepKept' /\ ApartKept' /\ CleanupGoes'
      BY <3>1 DEF DeepKept, ApartKept, CleanupGoes
    <3>3. BackupGoes' /\ RemovalGoes' /\ ActivationGoes' /\ WritesGo' /\ RollbackGoes' /\ RestorationGoes'
      BY <3>1 DEF BackupGoes, RemovalGoes, ActivationGoes, WritesGo, RollbackGoes, RestorationGoes
    <3> QED BY <2>5, <3>2, <3>3 DEF RecoveryInv
  <2>7. CASE journal.phase = Verified
    <3>1. pc' = "write" /\ Undoable /\ journal.phase >= BackupMoved /\ journal.phase # Staged
      BY <1>4, <2>3, <2>7 DEF Verified, Committed, Undoable, BackupMoved, Staged
    <3>2. /\ "backup" \in directories /\ receipt["stage"] = journal.new /\ OldSaved /\ NewPartly
          /\ receipt["destination"] \in {None, journal.new, Torn}
          /\ receipt["destination"] # Torn
      BY <1>1, <2>1, <2>3, <3>1 DEF DeepKept, Deep, Early
    <3>3. receipt["destination"] = journal.new /\ registration = journal.new
          /\ \A p \in Inventory(journal.new) : Holds("destination", journal.new, p)
      BY <1>4, <2>7 DEF Committable, Identified, HoldsAll, Verified, Committed
    <3>4. NewStands
      <4>1. journal.new # None
        BY <2>3, ValueAssumption
      <4> QED BY <2>3, <3>2, <3>3, <4>1 DEF NewStands, Stands, Inventory, Holds, Of, NewPartly, Kept
    <3>5. DeepKept'
      BY <1>1, <2>2, <3>1, <3>2 DEF DeepKept
    <3>6. ApartKept'
      BY <1>1, <2>2, <2>3, <3>1 DEF ApartKept
    <3>7. WritesGo' /\ RemovalGoes'
      BY <1>1, <2>2, <2>3, <2>4, <3>1, <3>3, <3>4 DEF WritesGo, RemovalGoes, Committed, BackupMoved
    <3>8. BackupGoes' /\ ActivationGoes' /\ RollbackGoes' /\ RestorationGoes'
      BY <3>1 DEF BackupGoes, ActivationGoes, RollbackGoes, RestorationGoes
    <3>9. CleanupGoes'
      BY <1>1, <3>1, <3>2 DEF CleanupGoes
    <3> QED BY <2>5, <3>5, <3>6, <3>7, <3>8, <3>9 DEF RecoveryInv
  <2> QED BY <2>3, <2>6, <2>7
<1> QED BY <1>3, <1>4 DEF CommitInstall

(* The registration is written or removed.                                   *)
LEMMA RegistrationRecovers ==
    ASSUME InstallInv, RecoveryInv, ~disturbed', WriteRegistration \/ RemoveRegistration
    PROVE  RecoveryInv'
<1>1. /\ pc \in {"register", "unregister"} /\ pc' = "write" /\ ~disturbed
      /\ memory' = [memory EXCEPT !.phase = RegistrationWritten]
      /\ registration' = IF pc = "register" THEN memory.new ELSE None
      /\ UNCHANGED <<files, receipt, edited, journal, directories, request, held, todo>>
  BY DEF WriteRegistration, RemoveRegistration, Record, environment, books
<1>2. /\ Untouched /\ JournalsAgree /\ CommittedStands /\ DeepKept /\ ApartKept
      /\ RemovalGoes /\ ActivationGoes /\ CleanupGoes
  BY <1>1, RecoveryParts
<1>3. /\ (OldStands' <=> OldStands) /\ (NewStands' <=> NewStands)
      /\ (OldApart' <=> OldApart) /\ (OldReceipt' <=> OldReceipt)
      /\ (OldSaved' <=> OldSaved) /\ (NewPartly' <=> NewPartly) /\ (Vacant' <=> Vacant)
      /\ (Installing' <=> Installing) /\ (Undoable' <=> Undoable)
  BY <1>1, SameTrees
<1>4. /\ journal # None /\ journal.phase # Committed
      /\ pc = "register" => Installing /\ journal.phase >= BackupMoved /\ NewStands
      /\ pc = "unregister" => ~Installing /\ Vacant /\ receipt["destination"] = None /\ "backup" \in directories
  BY <1>1, <1>2 DEF Untouched, Journalled, ActivationGoes, RemovalGoes, InstallInv, CommittedPlaces
<1>5. /\ memory'.phase = RegistrationWritten
      /\ memory'.operation = memory.operation /\ memory'.previous = memory.previous
      /\ memory'.new = memory.new /\ memory'.repair = memory.repair
  BY <1>1 DEF InstallInv, JournalKnown, Journalled, Sound, Journal
<1>6. Untouched' /\ JournalsAgree' /\ CommittedStands'
  BY <1>1, <1>2, <1>3, <1>4, <1>5 DEF Untouched, JournalsAgree, Shaped, Journalled, CommittedStands
<1>7. DeepKept'
  BY <1>1, <1>2, <1>3, <1>4, PlacesWithJournal, ValueAssumption DEF DeepKept, Deep, Early
<1>8. ApartKept'
  BY <1>1, <1>2, <1>3 DEF ApartKept, Early
<1>9. RemovalGoes' /\ WritesGo'
  <2>1. registration' = IF Installing THEN journal'.new ELSE None
    BY <1>1, <1>2, <1>4 DEF JournalsAgree, Journalled
  <2> QED BY <1>1, <1>3, <1>4, <1>5, <2>1 DEF RemovalGoes, WritesGo, RegistrationWritten, BackupMoved
<1>10. BackupGoes' /\ ActivationGoes' /\ RollbackGoes' /\ RestorationGoes'
  BY <1>1 DEF BackupGoes, ActivationGoes, RollbackGoes, RestorationGoes
<1>11. CleanupGoes'
  <2>1. Undoable => "backup" \in directories
    <3>1. CASE pc = "register"
      BY <1>2, <1>4, <3>1 DEF DeepKept, Deep, Early
    <3> QED BY <1>1, <1>4, <3>1
  <2> QED BY <1>1, <1>3, <2>1 DEF CleanupGoes
<1> QED BY <1>6, <1>7, <1>8, <1>9, <1>10, <1>11 DEF RecoveryInv

(* The rollback takes up what was activated, or goes on to the backup.       *)
LEMMA RollbackRecovers ==
    ASSUME InstallInv, RecoveryInv, ~disturbed', Rollback
    PROVE  RecoveryInv'
<1>1. /\ pc = "rollback" /\ ~disturbed
      /\ UNCHANGED <<files, receipt, edited, journal, registration, directories, request, memory>>
  BY DEF Rollback, GoTo, Treat, call, disk, environment
<1>2. /\ Untouched /\ JournalsAgree /\ CommittedStands /\ DeepKept /\ ApartKept
      /\ RollbackGoes /\ CleanupGoes
  BY <1>1, RecoveryParts
<1>3. /\ (OldStands' <=> OldStands) /\ (NewStands' <=> NewStands)
      /\ (OldApart' <=> OldApart) /\ (OldReceipt' <=> OldReceipt)
      /\ (OldSaved' <=> OldSaved) /\ (NewPartly' <=> NewPartly) /\ (Vacant' <=> Vacant)
      /\ (Installing' <=> Installing) /\ (Undoable' <=> Undoable)
  BY <1>1, SameTrees
<1>4. Sound(memory) /\ memory.phase \in 1..6
  BY <1>1 DEF InstallInv, JournalKnown, Journalled, Sound, Journal, Staged, Committed
<1>5. CommittedStands' /\ CleanupGoes'
  BY <1>1, <1>2, <1>3, PlacesWithJournal DEF CommittedStands, CleanupGoes, Rollback, GoTo, Treat
<1>6. CASE ~Activated /\ GoTo("restore")
  <2>1. pc' = "restore"
    BY <1>6 DEF GoTo
  <2>2. Untouched' /\ JournalsAgree'
    BY <1>1, <1>2, <2>1 DEF Untouched, RegisteredStands, Stands, Kept, Of, Journalled, Emptied, JournalsAgree, Shaped
  <2>3. journal # None => ~Installing \/ journal.phase = Staged
    <3>1. SUFFICES ASSUME journal # None, Installing PROVE journal.phase = Staged
      OBVIOUS
    <3>2. memory.operation = "install" /\ journal.phase \in 1..6
      BY <1>1, <1>2, <3>1, PlacesWithJournal DEF JournalsAgree, Journalled, Installing
    <3>3. ~(journal.phase >= BackupMoved)
      BY <1>1, <1>2, <1>4, <1>6, <3>1, <3>2 DEF RollbackGoes, Activated
    <3> QED BY <3>2, <3>3 DEF Staged, BackupMoved
  <2>4. DeepKept'
    BY <1>1, <1>3, <2>1, <2>3 DEF DeepKept, Deep, Undoable, Staged, BackupMoved
  <2>5. ApartKept'
    BY <1>1, <1>2, <1>3, <2>1, <2>3 DEF ApartKept, Undoable, Early
  <2>6. /\ BackupGoes' /\ RemovalGoes' /\ ActivationGoes' /\ WritesGo' /\ RollbackGoes' /\ RestorationGoes'
    BY <2>1 DEF BackupGoes, RemovalGoes, ActivationGoes, WritesGo, RollbackGoes, RestorationGoes
  <2> QED BY <1>5, <2>2, <2>4, <2>5, <2>6 DEF RecoveryInv
<1>7. CASE Activated /\ ActivatedVersion \in Version /\ Treat("deactivate", ActivatedVersion)
  <2>1. pc' = "deactivate" /\ held' = ActivatedVersion /\ todo' = Inventory(ActivatedVersion)
    BY <1>7 DEF Treat
  <2>2. journal # None
    BY <1>1, <1>2, <1>4, <1>7 DEF Untouched, Journalled, Activated, Staged, BackupMoved
  <2>3. Installing /\ memory.phase >= BackupMoved /\ journal.new \in Version
    BY <1>1, <1>2, <1>7, <2>2, PlacesWithJournal DEF JournalsAgree, Journalled, Installing, Activated, Sound
  <2>4. Undoable
    BY <1>1, <2>2, PlacesWithJournal DEF InstallInv, CommittedPlaces, Undoable, Committed
  <2>5. receipt["stage"] = journal.new /\ NewPartly
    BY <1>1, <1>2, <2>3, <2>4 DEF DeepKept, Deep, Early
  <2>6. ActivatedVersion = journal.new
    BY <2>3, <2>5, ValueAssumption DEF ActivatedVersion
  <2>7. TakenAway'
    <3>1. todo' = Inventory(journal.new) /\ journal.new # None
      BY <2>1, <2>3, <2>6, ValueAssumption
    <3> QED BY <1>1, <2>5, <3>1 DEF TakenAway, NewPartly, Kept, Inventory, Of
  <2>8. Untouched' /\ JournalsAgree'
    BY <1>1, <1>2, <2>1, <2>2 DEF Untouched, JournalsAgree, Shaped, Journalled
  <2>9. DeepKept'
    BY <1>1, <1>2, <1>3, <2>1, <2>3 DEF DeepKept, Deep, Early
  <2>10. ApartKept'
    BY <1>1, <1>2, <1>3, <2>1 DEF ApartKept, Early
  <2>11. RollbackGoes'
    BY <1>1, <1>3, <2>1, <2>3, <2>6, <2>7 DEF RollbackGoes
  <2>12. BackupGoes' /\ RemovalGoes' /\ ActivationGoes' /\ WritesGo' /\ RestorationGoes'
    BY <2>1 DEF BackupGoes, RemovalGoes, ActivationGoes, WritesGo, RestorationGoes
  <2> QED BY <1>5, <2>8, <2>9, <2>10, <2>11, <2>12 DEF RecoveryInv
<1> QED BY <1>6, <1>7 DEF Rollback

(* The restoration finds what to restore.                                    *)
LEMMA RestoreBackupRecovers ==
    ASSUME InstallInv, RecoveryInv, ~disturbed', RestoreBackup
    PROVE  RecoveryInv'
<1>1. /\ pc = "restore" /\ ~disturbed /\ pc' \in {"cleanup", "restoreFiles", "restoreRegistration"}
      /\ UNCHANGED <<files, receipt, edited, journal, registration, directories, request, memory>>
  BY DEF RestoreBackup, GoTo, Treat, call, disk, environment
<1>2. /\ Untouched /\ JournalsAgree /\ CommittedStands /\ DeepKept /\ ApartKept /\ CleanupGoes
  BY <1>1, RecoveryParts
<1>3. /\ (OldStands' <=> OldStands) /\ (NewStands' <=> NewStands)
      /\ (OldApart' <=> OldApart) /\ (OldReceipt' <=> OldReceipt)
      /\ (OldSaved' <=> OldSaved) /\ (NewPartly' <=> NewPartly) /\ (Vacant' <=> Vacant)
      /\ (Installing' <=> Installing) /\ (Undoable' <=> Undoable)
  BY <1>1, SameTrees
<1>4. Untouched' /\ JournalsAgree' /\ CommittedStands'
  <2>1. Untouched'
    BY <1>1, <1>2 DEF Untouched, RegisteredStands, Stands, Kept, Of, Journalled, Emptied
  <2>2. JournalsAgree'
    BY <1>1, <1>2 DEF JournalsAgree, Shaped, Journalled
  <2> QED BY <1>1, <1>2, <1>3, <2>1, <2>2 DEF CommittedStands
<1>5. pc' \notin Early
  BY <1>1 DEF Early
<1>6. DeepKept' /\ ApartKept' /\ BackupGoes' /\ RemovalGoes' /\ ActivationGoes' /\ WritesGo' /\ RollbackGoes'
  BY <1>1, <1>5 DEF DeepKept, ApartKept, BackupGoes, RemovalGoes, ActivationGoes, WritesGo, RollbackGoes
<1>7. CASE journal = None
  <2>1. RestorationGoes' /\ CleanupGoes'
    BY <1>1, <1>7 DEF RestorationGoes, CleanupGoes, Undoable
  <2> QED BY <1>4, <1>6, <2>1 DEF RecoveryInv
<1>8. CASE journal # None
  <2>1. Undoable /\ memory.previous = journal.previous /\ journal.previous \in Version \cup {None}
    BY <1>1, <1>2, <1>8, PlacesWithJournal DEF InstallInv, CommittedPlaces, Undoable, Committed, JournalsAgree, Journalled
  <2>2. OldApart /\ OldReceipt
    BY <1>1, <1>2, <2>1 DEF ApartKept, Early
  <2>3. CASE "backup" \notin directories /\ GoTo("cleanup")
    <3>1. pc' = "cleanup" /\ OldStands /\ registration = journal.previous /\ receipt["backup"] = None
      BY <1>2, <2>1, <2>3 DEF GoTo, CleanupGoes, InstallInv, BackedUp
    <3>2. RestorationGoes' /\ CleanupGoes'
      BY <1>1, <1>3, <3>1 DEF RestorationGoes, CleanupGoes
    <3> QED BY <1>4, <1>6, <3>2 DEF RecoveryInv
  <2>4. ASSUME "backup" \in directories, journal.previous \in Version, Treat("restoreFiles", journal.previous)
        PROVE  RecoveryInv'
    <3>1. pc' = "restoreFiles" /\ held' = journal.previous /\ todo' = Inventory(journal.previous)
      BY <2>4 DEF Treat
    <3>2. HeldPlaced'
      <4>1. journal.previous # None
        BY <2>4, ValueAssumption
      <4> QED BY <1>1, <2>2, <3>1, <4>1 DEF HeldPlaced, OldApart, Kept, Of, Inventory
    <3>3. RestorationGoes' /\ CleanupGoes'
      BY <1>1, <1>3, <2>2, <2>4, <3>1, <3>2 DEF RestorationGoes, CleanupGoes
    <3> QED BY <1>4, <1>6, <3>3 DEF RecoveryInv
  <2>5. CASE "backup" \in directories /\ receipt["backup"] # None /\ Treat("restoreFiles", receipt["backup"])
    <3>1. receipt["backup"] = journal.previous /\ journal.previous \in Version
      BY <2>1, <2>2, <2>5 DEF OldReceipt
    <3> QED BY <2>4, <2>5, <3>1
  <2>6. CASE PartialBackup /\ receipt["destination"] = memory.previous /\ Treat("restoreFiles", memory.previous)
    BY <2>1, <2>4, <2>6 DEF PartialBackup
  <2>7. CASE /\ "backup" \in directories /\ receipt["backup"] = None /\ ~PartialBackup
             /\ GoTo("restoreRegistration")
    <3>1. pc' = "restoreRegistration" /\ journal.previous = None /\ receipt["destination"] = None
      BY <2>1, <2>2, <2>7 DEF GoTo, PartialBackup, OldReceipt
    <3>2. OldStands
      BY <2>2, <3>1 DEF OldStands, Stands, OldApart, Of
    <3>3. RestorationGoes' /\ CleanupGoes'
      BY <1>1, <1>3, <2>7, <3>1, <3>2 DEF RestorationGoes, CleanupGoes
    <3> QED BY <1>4, <1>6, <3>3 DEF RecoveryInv
  <2> QED BY <2>3, <2>5, <2>6, <2>7 DEF RestoreBackup
<1> QED BY <1>7, <1>8

(* The registration is restored, and the cleanup begins.                     *)
LEMMA RegistrationRestored ==
    ASSUME InstallInv, RecoveryInv, ~disturbed', RestoreRegistration \/ CleanupTransaction
    PROVE  RecoveryInv'
<1>1. /\ pc \in {"restoreRegistration", "cleanup"} /\ ~disturbed /\ pc' \in {"cleanup", "clean"}
      /\ registration' = IF pc = "restoreRegistration" THEN memory.previous ELSE registration
      /\ UNCHANGED <<files, receipt, edited, journal, directories, request, memory, held, todo>>
  BY DEF RestoreRegistration, CleanupTransaction, GoTo, call, disk, books, environment
<1>2. /\ Untouched /\ JournalsAgree /\ CommittedStands /\ RestorationGoes /\ CleanupGoes
  BY <1>1, RecoveryParts
<1>3. /\ (OldStands' <=> OldStands) /\ (NewStands' <=> NewStands)
      /\ (Undoable' <=> Undoable)
  BY <1>1, SameTrees
<1>4. journal # None /\ pc = "restoreRegistration" => journal.phase # Committed
  BY DEF InstallInv, CommittedPlaces
<1>5. Untouched'
  <2>1. SUFFICES ASSUME journal = None PROVE registration' = registration
    BY <1>1, <1>2 DEF Untouched, RegisteredStands, Stands, Kept, Of, Journalled
  <2> QED BY <1>1, <1>2, <2>1 DEF Untouched, Journalled
<1>6. JournalsAgree'
  BY <1>1, <1>2 DEF JournalsAgree, Shaped, Journalled
<1>7. CommittedStands'
  BY <1>1, <1>2, <1>3, <1>4 DEF CommittedStands
<1>8. CleanupGoes'
  <2>1. journal # None /\ pc = "restoreRegistration" => memory.previous = journal.previous
    BY <1>2 DEF JournalsAgree, Journalled
  <2>2. Undoable => journal # None
    BY DEF Undoable
  <2> QED BY <1>1, <1>2, <1>3, <2>1, <2>2 DEF CleanupGoes, RestorationGoes
<1>9. pc' \notin Early
  BY <1>1 DEF Early
<1>10. /\ DeepKept' /\ ApartKept' /\ BackupGoes' /\ RemovalGoes' /\ ActivationGoes' /\ WritesGo'
       /\ RollbackGoes' /\ RestorationGoes'
  BY <1>1, <1>9 DEF DeepKept, ApartKept, BackupGoes, RemovalGoes, ActivationGoes, WritesGo, RollbackGoes, RestorationGoes
<1> QED BY <1>5, <1>6, <1>7, <1>8, <1>10 DEF RecoveryInv

(* The cleanup removes the transaction's trees.                              *)
LEMMA CleanupRecovers ==
    ASSUME InstallInv, RecoveryInv, ~disturbed', NEW t \in {"stage", "backup"}, RemoveCleanupTree(t)
    PROVE  RecoveryInv'
<1>1. /\ pc = "clean" /\ pc' = "clean" /\ ~disturbed
      /\ UNCHANGED <<edited, journal, registration, request, memory, held, todo>>
  BY DEF RemoveCleanupTree, call, environment
<1>2. /\ Untouched /\ JournalsAgree /\ CommittedStands /\ CleanupGoes /\ DiskOK
  BY <1>1, RecoveryParts DEF InstallInv
<1>3. /\ files'["destination"] = files["destination"]
      /\ receipt'["destination"] = receipt["destination"] /\ receipt'["backup"] \in {None, receipt["backup"]}
  BY <1>2 DEF RemoveCleanupTree, DiskOK, Tree
<1>4. /\ (OldStands' <=> OldStands) /\ (NewStands' <=> NewStands) /\ (Undoable' <=> Undoable)
      /\ (RegisteredStands' <=> RegisteredStands)
  BY <1>1, <1>3 DEF OldStands, NewStands, RegisteredStands, Stands, Kept, Of, Undoable
<1>5. Untouched' /\ JournalsAgree' /\ CommittedStands'
  BY <1>1, <1>2, <1>4 DEF Untouched, Journalled, JournalsAgree, Shaped, CommittedStands
<1>6. CleanupGoes'
  BY <1>1, <1>2, <1>3, <1>4 DEF CleanupGoes
<1>7. pc' \notin Early
  BY <1>1 DEF Early
<1>8. /\ DeepKept' /\ ApartKept' /\ BackupGoes' /\ RemovalGoes' /\ ActivationGoes' /\ WritesGo'
      /\ RollbackGoes' /\ RestorationGoes'
  BY <1>1, <1>7 DEF DeepKept, ApartKept, BackupGoes, RemovalGoes, ActivationGoes, WritesGo, RollbackGoes, RestorationGoes
<1> QED BY <1>5, <1>6, <1>8 DEF RecoveryInv

(* The journal and the books are removed when one installation stands.       *)
LEMMA RemoveBooksRecovers ==
    ASSUME InstallInv, RecoveryInv, ~disturbed', RemoveBooks
    PROVE  RecoveryInv'
<1>1. /\ pc = "clean" /\ pc' \in {"clean", "idle", "classify", "inspect"} /\ ~disturbed
      /\ UNCHANGED <<files, receipt, edited, registration>> /\ journal' \in {None, journal}
      /\ journal' # None => UNCHANGED <<directories, request, memory, held, todo, pc>>
  BY RemoveBooksOutcome DEF BooksRemoved, payload, environment
<1>2. /\ Untouched /\ JournalsAgree /\ CommittedStands /\ CleanupGoes
  BY <1>1, RecoveryParts
<1>3. CASE journal' = None
  <2>1. RegisteredStands
    <3>1. CASE journal = None
      BY <1>2, <3>1 DEF Untouched
    <3>2. CASE journal # None /\ journal.phase = Committed
      BY <1>2, <3>2 DEF CommittedStands, NewStands, RegisteredStands
    <3>3. CASE journal # None /\ journal.phase # Committed
      <4>1. Undoable
        BY <3>3, PlacesWithJournal DEF Undoable, Committed
      <4> QED BY <1>1, <1>2, <4>1 DEF CleanupGoes, OldStands, RegisteredStands
    <3> QED BY <3>1, <3>2, <3>3
  <2>2. Untouched'
    BY <1>1, <2>1 DEF Untouched, RegisteredStands, Stands, Kept, Of, Journalled
  <2> QED BY <1>1, <1>3, <2>2, NoJournal DEF Journalled
<1>4. CASE journal' # None
  <2>1. /\ (OldStands' <=> OldStands) /\ (NewStands' <=> NewStands) /\ (Undoable' <=> Undoable)
    BY <1>1, <1>4, SameTrees
  <2>2. pc' = "clean" /\ pc' \notin Early
    BY <1>1, <1>4 DEF Early
  <2>3. Untouched' /\ JournalsAgree' /\ CommittedStands' /\ CleanupGoes'
    BY <1>1, <1>2, <1>4, <2>1, <2>2 DEF Untouched, JournalsAgree, Shaped, Journalled, CommittedStands, CleanupGoes
  <2>4. /\ DeepKept' /\ ApartKept' /\ BackupGoes' /\ RemovalGoes' /\ ActivationGoes' /\ WritesGo'
        /\ RollbackGoes' /\ RestorationGoes'
    BY <2>2 DEF DeepKept, ApartKept, BackupGoes, RemovalGoes, ActivationGoes, WritesGo, RollbackGoes, RestorationGoes
  <2> QED BY <2>3, <2>4 DEF RecoveryInv
<1> QED BY <1>3, <1>4

(* The journal is published: the disk knows now what the worker knew.        *)
LEMMA PublishRecovers ==
    ASSUME InstallInv, RecoveryInv, ~disturbed', PublishJournal
    PROVE  RecoveryInv'
<1> PICK m : m = memory
  OBVIOUS
<1>1. /\ pc = "publish" /\ journal' = m /\ ~disturbed /\ Sound(m) /\ m \in Journal /\ m.phase \in 1..6
      /\ m.operation \in {"install", "uninstall"} /\ m # None
      /\ UNCHANGED <<files, receipt, edited, registration, directories>>
  BY JournalAssumption DEF PublishJournal, payload, environment, InstallInv, JournalKnown, Journalled, Sound, Journal,
     Staged, Committed
<1>2. /\ Untouched /\ JournalsAgree /\ DeepKept /\ ApartKept /\ RemovalGoes /\ WritesGo
  BY <1>1, RecoveryParts
<1>3. /\ m.operation = "install" => m.new \in Version /\ m.new # None
      /\ m.operation = "uninstall" => m.new = None /\ m.previous \in Version
  BY <1>1, <1>2, ValueAssumption DEF Sound, JournalsAgree, Shaped, Journalled
<1>4. /\ Kept' = Kept /\ (Installing' <=> m.operation = "install")
      /\ (Undoable' <=> m.phase < Committed)
  BY <1>1 DEF Kept, Installing, Undoable
<1>5. m.phase = Staged <=> journal = None
  BY <1>1, <1>2 DEF Untouched, Journalled, WritesGo, Staged, BackupMoved
<1>6. ASSUME journal = None
      PROVE  /\ held = m.previous /\ "backup" \in directories /\ receipt["backup"] = None /\ Emptied
             /\ OldApart' /\ OldReceipt' /\ OldStands'
             /\ m.operation = "install" => receipt["stage"] = m.new
  <2>1. /\ RegisteredStands /\ held = registration /\ m.previous = registration
        /\ receipt["backup"] = None /\ Emptied /\ (m.operation = "install" => receipt["stage"] = m.new)
    BY <1>1, <1>2, <1>6 DEF Untouched, Journalled
  <2>2. "backup" \in directories
    BY <1>1, <1>5, <1>6 DEF InstallInv, BackedUp, Preparing
  <2>3. OldStands' /\ OldApart' /\ OldReceipt'
    BY <1>1, <1>4, <2>1 DEF RegisteredStands, OldStands, Stands, OldApart, OldReceipt, Of
  <2> QED BY <2>1, <2>2, <2>3
<1>7. ASSUME journal # None
      PROVE  /\ m.operation = journal.operation /\ m.previous = journal.previous /\ m.new = journal.new
             /\ (OldApart' <=> OldApart) /\ (OldReceipt' <=> OldReceipt) /\ (OldSaved' <=> OldSaved)
             /\ (NewPartly' <=> NewPartly) /\ (NewStands' <=> NewStands) /\ (Vacant' <=> Vacant)
             /\ (Installing' <=> Installing) /\ Undoable /\ m.phase >= BackupMoved /\ pc \in Early
  <2>1. m.operation = journal.operation /\ m.previous = journal.previous /\ m.new = journal.new
    BY <1>1, <1>2, <1>7 DEF JournalsAgree, Journalled
  <2>2. Undoable
    BY <1>1, <1>7, PlacesWithJournal DEF InstallInv, CommittedPlaces, Undoable, Committed
  <2>3. m.phase >= BackupMoved
    BY <1>1, <1>2, <1>7 DEF WritesGo
  <2>4. /\ (OldApart' <=> OldApart) /\ (OldReceipt' <=> OldReceipt) /\ (OldSaved' <=> OldSaved)
        /\ (NewPartly' <=> NewPartly) /\ (NewStands' <=> NewStands) /\ (Vacant' <=> Vacant)
    BY <1>1, <1>4, <2>1 DEF OldApart, OldReceipt, OldSaved, NewPartly, NewStands, Stands, Vacant, Of
  <2> QED BY <1>1, <1>4, <2>1, <2>2, <2>3, <2>4 DEF Installing, Early
<1>8. ASSUME journal # None, m.operation = "install"
      PROVE  /\ "backup" \in directories /\ receipt["stage"] = m.new /\ OldSaved' /\ NewPartly'
             /\ receipt["destination"] \in {None, m.new}
             /\ m.phase >= PayloadActivated => NewStands'
             /\ m.phase >= RegistrationWritten => registration = m.new
  <2>1. Deep
    BY <1>1, <1>7, <1>8 DEF Deep, Installing
  <2> QED BY <1>1, <1>2, <1>7, <1>8, <2>1 DEF DeepKept, WritesGo, Installing
<1>9. ASSUME journal # None, m.operation = "uninstall"
      PROVE  /\ "backup" \in directories /\ OldApart' /\ OldReceipt' /\ Vacant' /\ receipt["destination"] = None
             /\ NewStands'
             /\ m.phase >= RegistrationWritten => registration = None
  <2>1. ~Installing /\ Vacant
    BY <1>1, <1>2, <1>7, <1>9 DEF Installing, RemovalGoes
  <2>2. OldApart /\ OldReceipt /\ "backup" \in directories /\ receipt["destination"] = None
    BY <1>1, <1>2, <1>7, <1>9, <2>1 DEF ApartKept, RemovalGoes
  <2>3. NewStands'
    BY <1>1, <1>3, <1>4, <1>7, <1>9, <2>1, <2>2 DEF NewStands, Stands, Vacant, Of
  <2> QED BY <1>1, <1>2, <1>7, <1>9, <2>1, <2>2, <2>3 DEF RemovalGoes
<1>10. Untouched'
  BY <1>1 DEF Untouched
<1>11. "backup" \in directories /\ (m.operation = "uninstall" \/ m.phase = Staged => OldApart' /\ OldReceipt')
  BY <1>1, <1>5, <1>6, <1>8, <1>9
<1>12. pc' = "idle" \/ memory' = m \/ \E n \in 1..6 : memory' = [m EXCEPT !.phase = n]
  BY <1>1 DEF PublishJournal, GoTo, Treat, Record, Finish, call, Committed, BackupMoved
<1>13. JournalsAgree'
  <2>1. Shaped(m)
    BY <1>3 DEF Shaped
  <2>2. pc' # "idle" => /\ memory'.operation = m.operation /\ memory'.previous = m.previous
                        /\ memory'.new = m.new /\ memory'.repair = m.repair
    BY <1>1, <1>12 DEF Journal
  <2> QED BY <1>1, <2>1, <2>2 DEF JournalsAgree, Shaped, Journalled
<1>14. CASE m.phase = Committed /\ GoTo("cleanup")
  <2>1. pc' = "cleanup" /\ ~Undoable' /\ journal # None
    BY <1>4, <1>5, <1>14 DEF GoTo, Committed, Staged
  <2>2. NewStands' /\ registration = m.new
    BY <1>1, <1>3, <1>8, <1>9, <1>14, <2>1 DEF Committed, PayloadActivated, RegistrationWritten
  <2>3. CommittedStands'
    BY <1>1, <2>2 DEF CommittedStands
  <2>4. DeepKept' /\ ApartKept' /\ CleanupGoes'
    BY <2>1 DEF DeepKept, ApartKept, CleanupGoes
  <2>5. BackupGoes' /\ RemovalGoes' /\ ActivationGoes' /\ WritesGo' /\ RollbackGoes' /\ RestorationGoes'
    BY <2>1 DEF BackupGoes, RemovalGoes, ActivationGoes, WritesGo, RollbackGoes, RestorationGoes
  <2> QED BY <1>10, <1>13, <2>3, <2>4, <2>5 DEF RecoveryInv
<1>15. CASE m.phase # Committed
  <2>1. /\ CommittedStands' /\ Undoable' /\ pc' \in Early \ {"rollback", "deactivate", "restore", "commit", "recover"}
    BY <1>1, <1>4, <1>15 DEF CommittedStands, PublishJournal, GoTo, Treat, Record, Finish, Early, Committed
  <2>2. /\ ApartKept' /\ CleanupGoes'
    BY <1>1, <1>4, <1>11, <2>1 DEF ApartKept, CleanupGoes, Early
  <2>3. RollbackGoes' /\ RestorationGoes'
    BY <2>1 DEF RollbackGoes, RestorationGoes, Early
  <2>4. ASSUME m.operation = "install", journal # None, pc' \notin {"backup", "remove"}
        PROVE  DeepKept'
    BY <1>1, <1>3, <1>5, <1>8, <2>1, <2>4, ValueAssumption DEF DeepKept
  <2>5. ASSUME ~Deep' PROVE DeepKept'
    BY <2>5 DEF DeepKept
  <2>6. CASE m.operation = "install" /\ m.phase = Staged /\ held # None /\ Treat("backup", held)
    <3>1. pc' = "backup" /\ held' = held /\ todo' = Inventory(held) /\ memory' = m /\ journal = None
      BY <1>5, <2>6 DEF Treat
    <3>2. TakenAway' /\ HeldAside'
      <4>1. held = m.previous /\ Emptied /\ OldStands'
        BY <1>6, <3>1
      <4> QED BY <1>1, <1>4, <2>6, <3>1, <4>1 DEF TakenAway, HeldAside, OldStands, Stands, Emptied, Of, Inventory, Kept
    <3>3. BackupGoes'
      BY <1>1, <1>4, <1>6, <2>6, <3>1, <3>2 DEF BackupGoes
    <3>4. RemovalGoes' /\ ActivationGoes' /\ WritesGo'
      BY <3>1 DEF RemovalGoes, ActivationGoes, WritesGo
    <3>5. ~Deep'
      BY <1>1, <2>6, <3>1 DEF Deep, Staged, BackupMoved
    <3> QED BY <1>10, <1>13, <2>1, <2>2, <2>3, <2>5, <3>3, <3>4, <3>5 DEF RecoveryInv
  <2>7. CASE m.operation = "install" /\ m.phase = Staged /\ held = None /\ Record(BackupMoved)
    <3>1. pc' = "write" /\ memory'.phase = BackupMoved /\ journal = None
      BY <1>1, <1>5, <2>7 DEF Record, Journal
    <3>2. m.previous = None /\ receipt["destination"] = None /\ \A p \in Kept : files["destination"][p] = None
      BY <1>1, <1>4, <1>6, <2>7, <3>1 DEF OldStands, Stands, Of
    <3>3. OldSaved' /\ NewPartly' /\ Vacant'
      BY <1>1, <1>4, <1>6, <3>1, <3>2 DEF OldSaved, NewPartly, Vacant, Emptied, Of, Kept
    <3>4. DeepKept'
      BY <1>1, <1>6, <2>7, <3>1, <3>2, <3>3, ValueAssumption DEF DeepKept
    <3>5. WritesGo'
      BY <3>1 DEF WritesGo, BackupMoved, PayloadActivated, RegistrationWritten
    <3>6. BackupGoes' /\ RemovalGoes' /\ ActivationGoes'
      BY <1>4, <2>7, <3>1 DEF BackupGoes, RemovalGoes, ActivationGoes
    <3> QED BY <1>10, <1>13, <2>1, <2>2, <2>3, <3>4, <3>5, <3>6 DEF RecoveryInv
  <2>8. CASE m.operation = "install" /\ m.phase = BackupMoved /\ Treat("activate", m.new)
    <3>1. pc' = "activate" /\ held' = m.new /\ todo' = Inventory(m.new) /\ memory' = m /\ journal # None
      BY <1>1, <1>5, <2>8 DEF Treat, Staged, BackupMoved
    <3>2. HeldPlaced'
      BY <1>1, <1>3, <1>4, <1>8, <2>8, <3>1 DEF HeldPlaced, NewPartly, Of, Inventory, Kept
    <3>3. ActivationGoes'
      BY <1>1, <1>4, <2>8, <3>1, <3>2 DEF ActivationGoes, BackupMoved
    <3>4. BackupGoes' /\ RemovalGoes' /\ WritesGo'
      BY <3>1 DEF BackupGoes, RemovalGoes, WritesGo
    <3> QED BY <1>10, <1>13, <2>1, <2>2, <2>3, <2>4, <2>8, <3>1, <3>3, <3>4 DEF RecoveryInv
  <2>9. CASE /\ m.operation = "install"
             /\ \/ m.phase = PayloadActivated /\ GoTo("register")
                \/ m.phase = RegistrationWritten /\ GoTo("verify")
    <3>1. pc' \in {"register", "verify"} /\ memory' = m /\ journal # None /\ m.phase >= PayloadActivated
      BY <1>1, <1>5, <2>9 DEF GoTo, call, Staged, PayloadActivated, RegistrationWritten
    <3>2. NewStands'
      BY <1>8, <2>9, <3>1
    <3>3. ActivationGoes'
      BY <1>1, <1>4, <2>9, <3>1, <3>2 DEF ActivationGoes, BackupMoved, PayloadActivated
    <3>4. BackupGoes' /\ RemovalGoes' /\ WritesGo'
      BY <3>1 DEF BackupGoes, RemovalGoes, WritesGo
    <3> QED BY <1>10, <1>13, <2>1, <2>2, <2>3, <2>4, <2>9, <3>1, <3>3, <3>4 DEF RecoveryInv
  <2>10. CASE m.operation = "install" /\ m.phase = Verified /\ Finish
    <3>1. pc' = "idle" /\ journal # None
      BY <1>5, <2>10 DEF Finish, Staged, Verified
    <3>2. BackupGoes' /\ RemovalGoes' /\ ActivationGoes' /\ WritesGo'
      BY <3>1 DEF BackupGoes, RemovalGoes, ActivationGoes, WritesGo
    <3> QED BY <1>10, <1>13, <2>1, <2>2, <2>3, <2>4, <2>10, <3>1, <3>2 DEF RecoveryInv
  <2>11. CASE m.operation = "install" /\ m.phase = Verified /\ Record(Committed)
    <3>1. pc' = "write" /\ memory'.phase = Committed /\ journal # None
      BY <1>1, <1>5, <2>11 DEF Record, Journal, Staged, Verified
    <3>2. WritesGo'
      BY <1>1, <1>4, <1>8, <2>11, <3>1 DEF WritesGo, BackupMoved, PayloadActivated, RegistrationWritten, Verified, Committed
    <3>3. BackupGoes' /\ RemovalGoes' /\ ActivationGoes'
      BY <1>4, <2>11, <3>1 DEF BackupGoes, RemovalGoes, ActivationGoes
    <3> QED BY <1>10, <1>13, <2>1, <2>2, <2>3, <2>4, <2>11, <3>1, <3>2, <3>3 DEF RecoveryInv
  <2>12. CASE m.operation = "uninstall"
    <3>1. ~Installing' /\ ~Deep'
      BY <1>4, <2>12 DEF Deep
    <3>2. CASE m.phase = Staged /\ Treat("remove", held)
      <4>1. pc' = "remove" /\ held' = held /\ todo' = Inventory(held) /\ journal = None
        BY <1>5, <3>2 DEF Treat
      <4>2. held = m.previous /\ OldStands' /\ held # None
        BY <1>3, <1>6, <2>12, <4>1, ValueAssumption
      <4>3. TakenAway'
        BY <1>1, <1>4, <4>1, <4>2 DEF TakenAway, OldStands, Stands, Of, Inventory, Kept
      <4>4. RemovalGoes'
        BY <1>1, <3>1, <4>1, <4>2, <4>3 DEF RemovalGoes
      <4>5. BackupGoes' /\ ActivationGoes' /\ WritesGo'
        BY <4>1 DEF BackupGoes, ActivationGoes, WritesGo
      <4> QED BY <1>10, <1>13, <2>1, <2>2, <2>3, <2>5, <3>1, <4>4, <4>5 DEF RecoveryInv
    <3>3. CASE m.phase = BackupMoved /\ GoTo("unregister")
      <4>1. pc' = "unregister" /\ journal # None
        BY <1>5, <3>3 DEF GoTo, Staged, BackupMoved
      <4>2. RemovalGoes'
        BY <1>1, <1>9, <2>12, <3>1, <4>1 DEF RemovalGoes
      <4>3. BackupGoes' /\ ActivationGoes' /\ WritesGo'
        BY <4>1 DEF BackupGoes, ActivationGoes, WritesGo
      <4> QED BY <1>10, <1>13, <2>1, <2>2, <2>3, <2>5, <3>1, <4>2, <4>3 DEF RecoveryInv
    <3>4. CASE m.phase = RegistrationWritten /\ Record(Committed)
      <4>1. pc' = "write" /\ memory'.phase = Committed /\ journal # None
        BY <1>1, <1>5, <3>4 DEF Record, Journal, Staged, RegistrationWritten
      <4>2. RemovalGoes'
        BY <1>1, <1>9, <2>12, <3>1, <3>4, <4>1 DEF RemovalGoes, RegistrationWritten
      <4>3. WritesGo'
        BY <3>1, <4>1 DEF WritesGo, BackupMoved, Committed
      <4>4. BackupGoes' /\ ActivationGoes'
        BY <4>1 DEF BackupGoes, ActivationGoes
      <4> QED BY <1>10, <1>13, <2>1, <2>2, <2>3, <2>5, <3>1, <4>2, <4>3, <4>4 DEF RecoveryInv
    <3> QED BY <1>1, <1>15, <2>12, <3>2, <3>3, <3>4 DEF PublishJournal
  <2> QED BY <1>1, <1>15, <2>6, <2>7, <2>8, <2>9, <2>10, <2>11, <2>12 DEF PublishJournal
<1> QED BY <1>1, <1>14, <1>15 DEF PublishJournal, Staged, BackupMoved, PayloadActivated, RegistrationWritten, Verified,
                                 Committed

(* What moves, moves between the trees of the transaction.                   *)
LEMMA MoveBetween ==
    ASSUME InstallInv, NEW from \in Tree, NEW to \in Tree, from # to, NEW p \in todo, Move(from, to, p), UNCHANGED edited
    PROVE  /\ p \in Path /\ Kept' = Kept
           /\ \A t \in Tree, q \in Path :
                 files'[t][q] = IF files[from][p] = None \/ q # p \/ t \notin {from, to} THEN files[t][q]
                                ELSE IF t = to THEN files[from][p] ELSE None
<1>1. p \in Path /\ files \in [Tree -> [Path -> Content \cup {None, Foreign}]]
  BY DEF InstallInv, WorkerOK, DiskOK
<1>2. Kept' = Kept
  BY DEF Kept
<1> QED BY <1>1, <1>2, MoveTyped

(* The previous installation moves to the backup.                            *)
LEMMA MoveToBackupRecovers ==
    ASSUME InstallInv, RecoveryInv, ~disturbed', MoveToBackup
    PROVE  RecoveryInv'
<1>1. /\ pc = "backup" /\ ~disturbed /\ pc' \in {"backup", "write"}
      /\ UNCHANGED <<edited, journal, registration, directories, request, held>>
  BY DEF MoveToBackup, Treated, Record, call, environment, books
<1>2. /\ Untouched /\ JournalsAgree /\ DeepKept /\ ApartKept /\ BackupGoes
  BY <1>1, RecoveryParts
<1>3. /\ journal # None /\ Installing /\ journal.phase = Staged /\ memory.phase = Staged
      /\ held = journal.previous /\ receipt["stage"] = journal.new /\ TakenAway /\ HeldAside
  BY <1>1, <1>2 DEF Untouched, Journalled, BackupGoes
<1>4. Undoable /\ Undoable' /\ Installing' /\ OldApart /\ OldReceipt
  BY <1>1, <1>2, <1>3 DEF Undoable, Staged, Committed, ApartKept, Early, Installing
<1>5. "backup" \in directories /\ held \in Version /\ held # None /\ Sound(memory) /\ DiskOK
  BY <1>1, ValueAssumption DEF InstallInv, BackedUp, ReceiptKnown, Holding, JournalKnown, Journalled
<1>6. Untouched' /\ CommittedStands' /\ CleanupGoes'
  BY <1>1, <1>3, <1>5 DEF Untouched, CommittedStands, CleanupGoes, Staged, Committed
<1>7. CASE /\ \E p \in todo :
                 /\ CanMove("destination", "backup", memory.repair, p)
                 /\ Move("destination", "backup", p)
                 /\ Treated(p)
           /\ UNCHANGED receipt
  <2> PICK p \in todo : /\ CanMove("destination", "backup", memory.repair, p)
                        /\ Move("destination", "backup", p) /\ Treated(p)
    BY <1>7
  <2>1. todo' = todo \ {p} /\ pc' = "backup" /\ memory' = memory
    BY <1>1 DEF Treated, call
  <2>2. /\ p \in Path /\ Kept' = Kept
        /\ \A t \in Tree, q \in Path :
              files'[t][q] = IF files["destination"][p] = None \/ q # p \/ t \notin {"destination", "backup"}
                             THEN files[t][q] ELSE IF t = "backup" THEN files["destination"][p] ELSE None
    <3>1. "destination" \in Tree /\ "backup" \in Tree /\ "destination" # "backup"
      BY DEF Tree
    <3> QED BY <1>1, <3>1, MoveBetween
  <2>3. p \in Inventory(held)
    BY <1>1 DEF InstallInv, ReceiptKnown
  <2>4. /\ files'["destination"][p] = None
        /\ p \in Kept => files'["backup"][p] = Package[held][p]
    BY <1>3, <1>4, <1>5, <2>2, <2>3 DEF CanMove, Holds, OldApart, Of, Tree, Inventory
  <2>5. \A q \in Kept : q # p => /\ files'["destination"][q] = files["destination"][q]
                                 /\ files'["backup"][q] = files["backup"][q]
    BY <2>2 DEF Tree, Kept
  <2>6. TakenAway' /\ HeldAside'
    BY <1>1, <1>3, <1>5, <2>1, <2>2, <2>4, <2>5 DEF TakenAway, HeldAside, Of
  <2>7. OldApart' /\ OldReceipt'
    BY <1>1, <1>3, <1>4, <1>5, <1>7, <2>2, <2>4, <2>5 DEF OldApart, OldReceipt, Of
  <2>8. JournalsAgree' /\ BackupGoes'
    BY <1>1, <1>2, <1>3, <1>4, <1>7, <2>1, <2>6 DEF JournalsAgree, Shaped, Journalled, BackupGoes
  <2>9. DeepKept' /\ ApartKept'
    BY <1>1, <1>3, <2>1, <2>7 DEF DeepKept, ApartKept, Deep, Staged, BackupMoved
  <2>10. RemovalGoes' /\ ActivationGoes' /\ WritesGo' /\ RollbackGoes' /\ RestorationGoes'
    BY <2>1 DEF RemovalGoes, ActivationGoes, WritesGo, RollbackGoes, RestorationGoes
  <2> QED BY <1>6, <2>8, <2>9, <2>10 DEF RecoveryInv
<1>8. CASE /\ todo = {} /\ receipt["destination"] = held
           /\ receipt' = [receipt EXCEPT !["destination"] = None, !["backup"] = held]
           /\ Record(BackupMoved) /\ UNCHANGED files
  <2>1. /\ receipt'["destination"] = None /\ receipt'["backup"] = held /\ receipt'["stage"] = receipt["stage"]
    BY <1>5, <1>8 DEF DiskOK, Tree
  <2>2. /\ pc' = "write" /\ memory' = [memory EXCEPT !.phase = BackupMoved] /\ memory'.phase = BackupMoved
        /\ memory'.operation = memory.operation /\ memory'.previous = memory.previous
        /\ memory'.new = memory.new /\ memory'.repair = memory.repair
    BY <1>5, <1>8 DEF Record, Sound, Journal
  <2>3. Kept' = Kept
    BY <1>1 DEF Kept
  <2>4. OldSaved' /\ NewPartly' /\ Vacant'
    BY <1>1, <1>3, <1>8, <2>1, <2>3 DEF OldSaved, NewPartly, Vacant, TakenAway, HeldAside, Of
  <2>5. OldApart' /\ OldReceipt'
    BY <1>1, <1>3, <1>4, <1>8, <2>1, <2>3 DEF OldApart, OldReceipt, Of
  <2>6. JournalsAgree'
    BY <1>1, <1>2, <2>2 DEF JournalsAgree, Shaped, Journalled
  <2>7. DeepKept' /\ ApartKept'
    BY <1>1, <1>3, <1>5, <2>1, <2>2, <2>4, <2>5, ValueAssumption DEF DeepKept, ApartKept
  <2>8. WritesGo' /\ RemovalGoes'
    BY <1>4, <2>2 DEF WritesGo, RemovalGoes, BackupMoved, PayloadActivated, RegistrationWritten
  <2>9. BackupGoes' /\ ActivationGoes' /\ RollbackGoes' /\ RestorationGoes'
    BY <2>2 DEF BackupGoes, ActivationGoes, RollbackGoes, RestorationGoes
  <2> QED BY <1>6, <2>6, <2>7, <2>8, <2>9 DEF RecoveryInv
<1> QED BY <1>7, <1>8 DEF MoveToBackup

(* The new files take their places, and the receipt is begun.                *)
LEMMA ActivateRecovers ==
    ASSUME InstallInv, RecoveryInv, ~disturbed', Activate
    PROVE  RecoveryInv'
<1>1. /\ pc = "activate" /\ ~disturbed
      /\ UNCHANGED <<edited, journal, registration, directories, request, memory, held>>
  BY DEF Activate, Treated, GoTo, call, environment, books
<1>2. /\ Untouched /\ JournalsAgree /\ CommittedStands /\ DeepKept /\ ActivationGoes
  BY <1>1, RecoveryParts
<1>3. /\ journal # None /\ Installing /\ journal.phase >= BackupMoved /\ memory.phase >= BackupMoved
      /\ held = journal.new /\ HeldPlaced
  BY <1>1, <1>2 DEF Untouched, Journalled, ActivationGoes
<1>4. journal.phase # Committed /\ Undoable /\ Undoable' /\ Installing' /\ Deep /\ journal.phase # Staged
  BY <1>1, <1>3, PlacesWithJournal DEF InstallInv, CommittedPlaces, Undoable, Committed, Installing, Deep, Staged, BackupMoved
<1>5. /\ "backup" \in directories /\ receipt["stage"] = journal.new /\ OldSaved /\ NewPartly
      /\ receipt["destination"] \in {None, journal.new}
  BY <1>1, <1>2, <1>4 DEF DeepKept, Early
<1>6. held \in Version /\ held # None /\ held # Torn /\ DiskOK
  BY <1>1, ValueAssumption DEF InstallInv, ReceiptKnown, Holding
<1>7. Untouched' /\ CommittedStands' /\ CleanupGoes' /\ JournalsAgree'
  <2>1. pc' \in Journalled
    BY <1>1 DEF Activate, Treated, GoTo, Journalled
  <2> QED BY <1>1, <1>2, <1>3, <1>4, <1>5, <2>1 DEF Untouched, CommittedStands, CleanupGoes, JournalsAgree, Shaped, Journalled
<1>8. CASE /\ \E p \in todo :
                 /\ CanMove("stage", "destination", FALSE, p)
                 /\ Move("stage", "destination", p)
                 /\ Treated(p)
           /\ UNCHANGED receipt
  <2> PICK p \in todo : /\ CanMove("stage", "destination", FALSE, p)
                        /\ Move("stage", "destination", p) /\ Treated(p)
    BY <1>8
  <2>1. todo' = todo \ {p} /\ pc' = "activate"
    BY <1>1 DEF Treated, call
  <2>2. /\ p \in Path /\ Kept' = Kept
        /\ \A t \in Tree, q \in Path :
              files'[t][q] = IF files["stage"][p] = None \/ q # p \/ t \notin {"stage", "destination"}
                             THEN files[t][q] ELSE IF t = "destination" THEN files["stage"][p] ELSE None
    <3>1. "stage" \in Tree /\ "destination" \in Tree /\ "stage" # "destination"
      BY DEF Tree
    <3> QED BY <1>1, <3>1, MoveBetween
  <2>3. files'["destination"][p] = Of(held, p)
    BY <1>6, <2>2 DEF CanMove, Holds, Of, Tree
  <2>4. \A q \in Kept : /\ files'["backup"][q] = files["backup"][q]
                        /\ q # p => files'["destination"][q] = files["destination"][q]
    BY <2>2 DEF Tree, Kept
  <2>5. HeldPlaced' /\ OldSaved' /\ NewPartly'
    BY <1>1, <1>3, <1>5, <1>8, <2>1, <2>2, <2>3, <2>4 DEF HeldPlaced, OldSaved, NewPartly, Of
  <2>6. ActivationGoes'
    BY <1>1, <1>3, <1>4, <2>1, <2>5 DEF ActivationGoes
  <2>7. DeepKept'
    <3>1. receipt' = receipt /\ receipt["destination"] # Torn
      BY <1>3, <1>5, <1>6, <1>8, ValueAssumption
    <3> QED BY <1>1, <1>4, <1>5, <2>1, <2>5, <3>1 DEF DeepKept
  <2>8. ApartKept'
    BY <1>1, <1>4, <2>1 DEF ApartKept
  <2>9. BackupGoes' /\ RemovalGoes' /\ WritesGo' /\ RollbackGoes' /\ RestorationGoes'
    BY <2>1 DEF BackupGoes, RemovalGoes, WritesGo, RollbackGoes, RestorationGoes
  <2> QED BY <1>7, <2>6, <2>7, <2>8, <2>9 DEF RecoveryInv
<1>9. CASE /\ todo = {} /\ receipt' = [receipt EXCEPT !["destination"] = Torn]
           /\ GoTo("activateReceipt") /\ UNCHANGED files
  <2>1. /\ receipt'["destination"] = Torn /\ receipt'["backup"] = receipt["backup"] /\ receipt'["stage"] = receipt["stage"]
    BY <1>6, <1>9 DEF DiskOK, Tree
  <2>2. pc' = "activateReceipt" /\ todo' = {} /\ Kept' = Kept
    BY <1>1, <1>9 DEF GoTo, Kept
  <2>3. HeldPlaced' /\ OldSaved' /\ NewPartly'
    BY <1>1, <1>3, <1>5, <1>9, <2>1, <2>2 DEF HeldPlaced, OldSaved, NewPartly, Of
  <2>4. ActivationGoes'
    BY <1>1, <1>3, <1>4, <2>2, <2>3 DEF ActivationGoes
  <2>5. DeepKept' /\ ApartKept'
    BY <1>1, <1>3, <1>4, <1>5, <2>1, <2>2, <2>3 DEF DeepKept, ApartKept
  <2>6. BackupGoes' /\ RemovalGoes' /\ WritesGo' /\ RollbackGoes' /\ RestorationGoes'
    BY <2>2 DEF BackupGoes, RemovalGoes, WritesGo, RollbackGoes, RestorationGoes
  <2> QED BY <1>7, <2>4, <2>5, <2>6 DEF RecoveryInv
<1> QED BY <1>8, <1>9 DEF Activate

(* The new receipt is in place, and with it the installation.                *)
LEMMA ActivateReceiptRecovers ==
    ASSUME InstallInv, RecoveryInv, ~disturbed', ActivateReceipt
    PROVE  RecoveryInv'
<1>1. /\ pc = "activateReceipt" /\ pc' = "write" /\ ~disturbed
      /\ receipt' = [receipt EXCEPT !["destination"] = held]
      /\ memory' = [memory EXCEPT !.phase = PayloadActivated]
      /\ UNCHANGED <<files, edited, journal, registration, directories, request, held, todo>>
  BY DEF ActivateReceipt, Record, environment, books
<1>2. /\ Untouched /\ JournalsAgree /\ CommittedStands /\ DeepKept /\ ActivationGoes
  BY <1>1, RecoveryParts
<1>3. /\ journal # None /\ Installing /\ journal.phase >= BackupMoved
      /\ held = journal.new /\ HeldPlaced /\ todo = {}
  BY <1>1, <1>2 DEF Untouched, Journalled, ActivationGoes
<1>4. journal.phase # Committed /\ Undoable /\ Undoable' /\ Installing' /\ Deep /\ journal.phase # Staged
  BY <1>1, <1>3, PlacesWithJournal DEF InstallInv, CommittedPlaces, Undoable, Committed, Installing, Deep, Staged, BackupMoved
<1>5. "backup" \in directories /\ receipt["stage"] = journal.new /\ OldSaved /\ NewPartly
  BY <1>1, <1>2, <1>4 DEF DeepKept, Early
<1>6. held \in Version /\ held # None /\ held # Torn /\ DiskOK
  BY <1>1, ValueAssumption DEF InstallInv, ReceiptKnown, Holding
<1>7. /\ memory'.phase = PayloadActivated
      /\ memory'.operation = memory.operation /\ memory'.previous = memory.previous
      /\ memory'.new = memory.new /\ memory'.repair = memory.repair
  BY <1>1 DEF InstallInv, JournalKnown, Journalled, Sound, Journal
<1>8. /\ receipt'["destination"] = held /\ receipt'["backup"] = receipt["backup"] /\ receipt'["stage"] = receipt["stage"]
      /\ Kept' = Kept
  BY <1>1, <1>6 DEF DiskOK, Tree, Kept
<1>9. NewStands' /\ OldSaved' /\ NewPartly'
  BY <1>1, <1>3, <1>5, <1>8 DEF NewStands, Stands, HeldPlaced, OldSaved, NewPartly, Of
<1>10. Untouched' /\ CommittedStands' /\ CleanupGoes' /\ JournalsAgree'
  BY <1>1, <1>2, <1>3, <1>4, <1>5, <1>7 DEF Untouched, CommittedStands, CleanupGoes, JournalsAgree, Shaped, Journalled
<1>11. DeepKept' /\ ApartKept'
  BY <1>1, <1>3, <1>4, <1>5, <1>6, <1>8, <1>9 DEF DeepKept, ApartKept
<1>12. WritesGo' /\ RemovalGoes'
  BY <1>1, <1>4, <1>7, <1>9 DEF WritesGo, RemovalGoes, BackupMoved, PayloadActivated, RegistrationWritten
<1>13. BackupGoes' /\ ActivationGoes' /\ RollbackGoes' /\ RestorationGoes'
  BY <1>1 DEF BackupGoes, ActivationGoes, RollbackGoes, RestorationGoes
<1> QED BY <1>10, <1>11, <1>12, <1>13 DEF RecoveryInv

(* An uninstall takes the installation away.                                 *)
LEMMA RemoveInstallationRecovers ==
    ASSUME InstallInv, RecoveryInv, ~disturbed', RemoveInstallation
    PROVE  RecoveryInv'
<1>1. /\ pc = "remove" /\ ~disturbed /\ pc' \in {"remove", "write"}
      /\ UNCHANGED <<edited, journal, registration, directories, request, held>>
  BY DEF RemoveInstallation, Treated, Record, call, environment, books
<1>2. /\ Untouched /\ JournalsAgree /\ ApartKept /\ RemovalGoes
  BY <1>1, RecoveryParts
<1>3. /\ journal # None /\ ~Installing /\ held = journal.previous /\ TakenAway
  BY <1>1, <1>2 DEF Untouched, Journalled, RemovalGoes
<1>4. /\ journal.phase # Committed /\ Undoable /\ ~Installing' /\ OldApart /\ OldReceipt
  BY <1>1, <1>2, <1>3, PlacesWithJournal DEF InstallInv, CommittedPlaces, Undoable, Committed, ApartKept, Early, Installing
<1>5. "backup" \in directories /\ held \in Version /\ held # None /\ Sound(memory) /\ DiskOK
  BY <1>1, ValueAssumption DEF InstallInv, BackedUp, ReceiptKnown, Holding, JournalKnown, Journalled
<1>6. Untouched' /\ CommittedStands' /\ CleanupGoes' /\ DeepKept'
  BY <1>1, <1>3, <1>4, <1>5 DEF Untouched, CommittedStands, CleanupGoes, DeepKept, Deep
<1>7. CASE /\ \E p \in todo :
                 /\ IF Holds("destination", held, p) THEN Move("destination", "backup", p) ELSE UNCHANGED files
                 /\ Treated(p)
           /\ UNCHANGED receipt
  <2> PICK p \in todo : /\ IF Holds("destination", held, p) THEN Move("destination", "backup", p) ELSE UNCHANGED files
                        /\ Treated(p)
    BY <1>7
  <2>1. todo' = todo \ {p} /\ pc' = "remove" /\ memory' = memory /\ Kept' = Kept /\ receipt' = receipt
    BY <1>1, <1>7 DEF Treated, call, Kept
  <2>2. p \in Inventory(held) /\ p \in Path
    BY <1>1 DEF InstallInv, ReceiptKnown, Inventory
  <2>3. /\ \A q \in Kept : q # p => /\ files'["destination"][q] = files["destination"][q]
                                    /\ files'["backup"][q] = files["backup"][q]
        /\ p \in Kept => files'["backup"][p] = Package[held][p] /\ files'["destination"][p] = None
    <3>1. CASE Holds("destination", held, p)
      <4>1. \A t \in Tree, q \in Path :
                files'[t][q] = IF files["destination"][p] = None \/ q # p \/ t \notin {"destination", "backup"}
                               THEN files[t][q] ELSE IF t = "backup" THEN files["destination"][p] ELSE None
        <5>1. "destination" \in Tree /\ "backup" \in Tree /\ "destination" # "backup"
          BY DEF Tree
        <5> QED BY <1>1, <3>1, <5>1, MoveBetween
      <4>2. files["destination"][p] = Package[held][p] /\ Package[held][p] # None
        BY <2>2, <3>1 DEF Holds, Inventory
      <4> QED BY <2>2, <4>1, <4>2 DEF Tree, Kept
    <3>2. CASE ~Holds("destination", held, p)
      <4>1. files' = files /\ files["destination"][p] # Package[held][p]
        BY <3>2 DEF Holds
      <4> QED BY <1>3, <1>4, <1>5, <4>1 DEF OldApart, Of
    <3> QED BY <3>1, <3>2
  <2>4. TakenAway'
    BY <1>3, <2>1, <2>3 DEF TakenAway
  <2>5. OldApart' /\ OldReceipt'
    BY <1>1, <1>3, <1>4, <1>5, <2>1, <2>3 DEF OldApart, OldReceipt, Of
  <2>6. JournalsAgree' /\ RemovalGoes'
    BY <1>1, <1>2, <1>3, <1>4, <2>1, <2>4 DEF JournalsAgree, Shaped, Journalled, RemovalGoes
  <2>7. ApartKept'
    BY <2>5 DEF ApartKept
  <2>8. BackupGoes' /\ ActivationGoes' /\ WritesGo' /\ RollbackGoes' /\ RestorationGoes'
    BY <2>1 DEF BackupGoes, ActivationGoes, WritesGo, RollbackGoes, RestorationGoes
  <2> QED BY <1>6, <2>6, <2>7, <2>8 DEF RecoveryInv
<1>8. CASE /\ todo = {} /\ receipt["destination"] = held
           /\ receipt' = [receipt EXCEPT !["destination"] = None, !["backup"] = held]
           /\ Record(BackupMoved) /\ UNCHANGED files
  <2>1. receipt'["destination"] = None /\ receipt'["backup"] = held
    BY <1>5, <1>8 DEF DiskOK, Tree
  <2>2. /\ pc' = "write" /\ memory' = [memory EXCEPT !.phase = BackupMoved] /\ memory'.phase = BackupMoved
        /\ memory'.operation = memory.operation /\ memory'.previous = memory.previous
        /\ memory'.new = memory.new /\ memory'.repair = memory.repair
    BY <1>5, <1>8 DEF Record, Sound, Journal
  <2>3. Kept' = Kept
    BY <1>1 DEF Kept
  <2>4. Vacant'
    BY <1>3, <1>8, <2>3 DEF Vacant, TakenAway
  <2>5. OldApart' /\ OldReceipt'
    BY <1>1, <1>3, <1>4, <1>8, <2>1, <2>3 DEF OldApart, OldReceipt, Of
  <2>6. JournalsAgree'
    BY <1>1, <1>2, <2>2 DEF JournalsAgree, Shaped, Journalled
  <2>7. ApartKept'
    BY <2>5 DEF ApartKept
  <2>8. WritesGo' /\ RemovalGoes'
    BY <1>1, <1>4, <1>5, <2>1, <2>2, <2>4 DEF WritesGo, RemovalGoes, BackupMoved, RegistrationWritten
  <2>9. BackupGoes' /\ ActivationGoes' /\ RollbackGoes' /\ RestorationGoes'
    BY <2>2 DEF BackupGoes, ActivationGoes, RollbackGoes, RestorationGoes
  <2> QED BY <1>6, <2>6, <2>7, <2>8, <2>9 DEF RecoveryInv
<1> QED BY <1>7, <1>8 DEF RemoveInstallation

(* The rollback removes what was activated.                                  *)
LEMMA RemoveActivatedRecovers ==
    ASSUME InstallInv, RecoveryInv, ~disturbed', RemoveActivatedFiles
    PROVE  RecoveryInv'
<1>1. /\ pc = "deactivate" /\ ~disturbed /\ pc' \in {"deactivate", "restore"}
      /\ UNCHANGED <<edited, journal, registration, directories, request, memory, held>>
  BY DEF RemoveActivatedFiles, Treated, GoTo, call, environment, books
<1>2. /\ Untouched /\ JournalsAgree /\ CommittedStands /\ DeepKept /\ ApartKept /\ RollbackGoes
  BY <1>1, RecoveryParts
<1>3. /\ journal # None /\ Installing /\ memory.phase >= BackupMoved /\ held = journal.new /\ TakenAway
  BY <1>1, <1>2 DEF Untouched, Journalled, RollbackGoes
<1>4. journal.phase # Committed /\ Undoable /\ Undoable' /\ Installing' /\ Deep
  BY <1>1, <1>3, PlacesWithJournal DEF InstallInv, CommittedPlaces, Undoable, Committed, Installing, Deep
<1>5. /\ "backup" \in directories /\ receipt["stage"] = journal.new /\ OldSaved /\ NewPartly
      /\ receipt["destination"] \in {None, journal.new} /\ receipt["destination"] # Torn
      /\ journal.phase = Staged => Vacant /\ receipt["destination"] = None
  BY <1>1, <1>2, <1>4 DEF DeepKept, Early
<1>6. held # None /\ held # Torn /\ DiskOK
  BY <1>1, ValueAssumption DEF InstallInv, ReceiptKnown, Holding
<1>7. Untouched' /\ CommittedStands' /\ CleanupGoes' /\ JournalsAgree'
  BY <1>1, <1>2, <1>3, <1>4, <1>5 DEF Untouched, CommittedStands, CleanupGoes, JournalsAgree, Shaped, Journalled
<1>8. CASE /\ \E p \in todo :
                 /\ files' = [files EXCEPT !["destination"][p] = None]
                 /\ Treated(p)
           /\ UNCHANGED receipt
  <2> PICK p \in todo : files' = [files EXCEPT !["destination"][p] = None] /\ Treated(p)
    BY <1>8
  <2>1. todo' = todo \ {p} /\ pc' = "deactivate" /\ receipt' = receipt /\ Kept' = Kept /\ p \in Path
    BY <1>1, <1>8 DEF Treated, call, Kept, InstallInv, WorkerOK
  <2>2. /\ files'["backup"] = files["backup"] /\ files'["destination"][p] = None
        /\ \A q \in Kept : q # p => files'["destination"][q] = files["destination"][q]
    BY <1>6, <2>1 DEF DiskOK, Tree, Kept
  <2>3. TakenAway' /\ OldSaved' /\ NewPartly' /\ (Vacant => Vacant')
    BY <1>1, <1>3, <1>5, <2>1, <2>2 DEF TakenAway, OldSaved, NewPartly, Vacant, Of
  <2>4. journal.phase = Staged => OldApart' /\ OldReceipt'
    <3>1. Vacant => OldApart'
      BY <2>3 DEF Vacant, OldSaved, OldApart
    <3>2. Vacant /\ receipt["destination"] = None => OldReceipt'
      BY <1>1, <1>5, <2>1 DEF OldSaved, OldReceipt
    <3> QED BY <1>5, <3>1, <3>2
  <2>5. DeepKept'
    BY <1>1, <1>4, <1>5, <2>1, <2>3 DEF DeepKept
  <2>6. ApartKept'
    BY <1>1, <1>4, <1>5, <2>1, <2>4 DEF ApartKept
  <2>7. RollbackGoes'
    BY <1>1, <1>3, <1>4, <2>1, <2>3 DEF RollbackGoes
  <2>8. BackupGoes' /\ RemovalGoes' /\ ActivationGoes' /\ WritesGo' /\ RestorationGoes'
    BY <2>1 DEF BackupGoes, RemovalGoes, ActivationGoes, WritesGo, RestorationGoes
  <2> QED BY <1>7, <2>5, <2>6, <2>7, <2>8 DEF RecoveryInv
<1>9. CASE /\ todo = {} /\ receipt' = [receipt EXCEPT !["destination"] = None]
           /\ GoTo("restore") /\ UNCHANGED files
  <2>1. /\ receipt'["destination"] = None /\ receipt'["backup"] = receipt["backup"] /\ receipt'["stage"] = receipt["stage"]
    BY <1>6, <1>9 DEF DiskOK, Tree
  <2>2. pc' = "restore" /\ Kept' = Kept
    BY <1>1, <1>9 DEF GoTo, Kept
  <2>3. Vacant' /\ OldSaved' /\ NewPartly'
    BY <1>1, <1>3, <1>5, <1>9, <2>1, <2>2 DEF Vacant, TakenAway, OldSaved, NewPartly, Of
  <2>4. OldApart' /\ OldReceipt'
    BY <2>1, <2>3 DEF Vacant, OldSaved, OldApart, OldReceipt
  <2>5. DeepKept'
    BY <1>1, <1>5, <2>1, <2>2, <2>3, ValueAssumption DEF DeepKept
  <2>6. ApartKept'
    BY <2>4 DEF ApartKept
  <2>7. BackupGoes' /\ RemovalGoes' /\ ActivationGoes' /\ WritesGo' /\ RollbackGoes' /\ RestorationGoes'
    BY <2>2 DEF BackupGoes, RemovalGoes, ActivationGoes, WritesGo, RollbackGoes, RestorationGoes
  <2> QED BY <1>7, <2>5, <2>6, <2>7 DEF RecoveryInv
<1> QED BY <1>8, <1>9 DEF RemoveActivatedFiles

(* The files of the backup go back to their places.                          *)
LEMMA RestoreFilesRecovers ==
    ASSUME InstallInv, RecoveryInv, ~disturbed', RestoreFiles
    PROVE  RecoveryInv'
<1>1. /\ pc = "restoreFiles" /\ ~disturbed /\ pc' \in {"restoreFiles", "restoreReceipt", "restoreRegistration"}
      /\ UNCHANGED <<edited, journal, registration, directories, request, memory, held>>
  BY DEF RestoreFiles, Treated, GoTo, call, environment, books
<1>2. /\ Untouched /\ JournalsAgree /\ RestorationGoes
  BY <1>1, RecoveryParts
<1>3. held \in Version /\ held # None /\ DiskOK /\ Kept' = Kept
  BY <1>1, ValueAssumption DEF InstallInv, ReceiptKnown, Holding, Kept
<1>4. ASSUME NEW p \in todo, CanMove("backup", "destination", Lenient, p), Move("backup", "destination", p)
      PROVE  /\ \A q \in Kept : /\ files["backup"][q] = None \/ q # p => files'["destination"][q] = files["destination"][q]
                                /\ q # p => files'["backup"][q] = files["backup"][q]
             /\ files["backup"][p] = None \/ files'["destination"][p] = Package[held][p]
             /\ Emptied => Emptied'
  <2>1. /\ p \in Path
        /\ \A t \in Tree, q \in Path :
              files'[t][q] = IF files["backup"][p] = None \/ q # p \/ t \notin {"backup", "destination"}
                             THEN files[t][q] ELSE IF t = "destination" THEN files["backup"][p] ELSE None
    <3>1. "destination" \in Tree /\ "backup" \in Tree /\ "destination" # "backup"
      BY DEF Tree
    <3> QED BY <1>1, <1>4, <3>1, MoveBetween
  <2> QED BY <1>4, <2>1 DEF CanMove, Holds, Tree, Kept, Emptied
<1>5. pc' \notin Early
  BY <1>1 DEF Early
<1>6. DeepKept' /\ ApartKept' /\ BackupGoes' /\ RemovalGoes' /\ ActivationGoes' /\ WritesGo' /\ RollbackGoes'
  BY <1>1, <1>5 DEF DeepKept, ApartKept, BackupGoes, RemovalGoes, ActivationGoes, WritesGo, RollbackGoes
<1>7. CASE journal = None
  <2>1. RegisteredStands /\ receipt["backup"] = None /\ Emptied /\ memory.phase = Staged /\ memory.previous = registration
    BY <1>1, <1>2, <1>7 DEF Untouched, Journalled
  <2>2. /\ receipt' = receipt /\ Emptied' /\ pc' \in {"restoreFiles", "restoreRegistration"}
        /\ \A q \in Kept : files'["destination"][q] = files["destination"][q]
    <3>1. CASE \E p \in todo : /\ CanMove("backup", "destination", Lenient, p) /\ Move("backup", "destination", p)
                               /\ Treated(p) /\ UNCHANGED receipt
      BY <1>1, <1>4, <2>1, <3>1 DEF Emptied, Treated, Kept
    <3>2. CASE GoTo("restoreRegistration") /\ UNCHANGED <<files, receipt>>
      BY <2>1, <3>2 DEF GoTo, Emptied
    <3> QED BY <2>1, <3>1, <3>2 DEF RestoreFiles
  <2>3. Untouched'
    BY <1>1, <1>3, <2>1, <2>2 DEF Untouched, RegisteredStands, Stands, Of, Journalled
  <2>4. Shaped(memory)'
    BY <1>1, <1>2 DEF JournalsAgree, Shaped, Journalled
  <2> QED BY <1>1, <1>7, <2>3, <2>4, NoJournal
<1>8. CASE journal # None
  <2>1. /\ held = journal.previous /\ "backup" \in directories /\ OldApart /\ HeldPlaced /\ OldReceipt
    BY <1>1, <1>2, <1>8 DEF RestorationGoes
  <2>2. journal.phase # Committed
    BY <1>1, <1>8 DEF InstallInv, CommittedPlaces
  <2>3. Untouched' /\ CommittedStands' /\ CleanupGoes' /\ JournalsAgree'
    BY <1>1, <1>2, <1>8, <2>1, <2>2 DEF Untouched, CommittedStands, CleanupGoes, JournalsAgree, Shaped, Journalled
  <2>4. CASE \E p \in todo : /\ CanMove("backup", "destination", Lenient, p) /\ Move("backup", "destination", p)
                             /\ Treated(p) /\ UNCHANGED receipt
    <3> PICK p \in todo : /\ CanMove("backup", "destination", Lenient, p) /\ Move("backup", "destination", p)
                          /\ Treated(p) /\ UNCHANGED receipt
      BY <2>4
    <3>1. todo' = todo \ {p} /\ pc' = "restoreFiles" /\ receipt' = receipt
      BY <1>1 DEF Treated
    <3>2. /\ \A q \in Kept : /\ files["backup"][q] = None \/ q # p => files'["destination"][q] = files["destination"][q]
                             /\ q # p => files'["backup"][q] = files["backup"][q]
          /\ files["backup"][p] = None \/ files'["destination"][p] = Package[held][p]
      BY <1>4
    <3>3. p \in Kept => files'["destination"][p] = Of(held, p)
      BY <1>3, <2>1, <3>2 DEF OldApart, Of
    <3>4. HeldPlaced' /\ OldApart' /\ OldReceipt'
      BY <1>1, <1>3, <2>1, <3>1, <3>2, <3>3 DEF HeldPlaced, OldApart, OldReceipt, Of
    <3>5. RestorationGoes'
      BY <1>1, <2>1, <3>1, <3>4 DEF RestorationGoes
    <3> QED BY <1>6, <2>3, <3>5 DEF RecoveryInv
  <2>5. CASE todo = {} /\ receipt["backup"] = None /\ GoTo("restoreRegistration") /\ UNCHANGED <<files, receipt>>
    <3>1. pc' = "restoreRegistration"
      BY <2>5 DEF GoTo
    <3>2. OldStands'
      BY <1>1, <1>3, <2>1, <2>5 DEF OldStands, Stands, HeldPlaced, OldReceipt, Of
    <3>3. RestorationGoes'
      BY <1>1, <2>5, <3>1, <3>2 DEF RestorationGoes
    <3> QED BY <1>6, <2>3, <3>3 DEF RecoveryInv
  <2>6. CASE /\ todo = {} /\ receipt["backup"] # None
             /\ receipt' = [receipt EXCEPT !["destination"] = Torn]
             /\ GoTo("restoreReceipt") /\ UNCHANGED files
    <3>1. pc' = "restoreReceipt" /\ todo' = {}
      BY <2>6 DEF GoTo
    <3>2. receipt'["backup"] = held /\ receipt'["destination"] = Torn
      BY <1>3, <2>1, <2>6 DEF DiskOK, Tree, OldReceipt
    <3>3. HeldPlaced'
      BY <1>1, <1>3, <2>1, <2>6, <3>1 DEF HeldPlaced, Of
    <3>4. RestorationGoes'
      BY <1>1, <2>1, <3>1, <3>2, <3>3 DEF RestorationGoes
    <3> QED BY <1>6, <2>3, <3>4 DEF RecoveryInv
  <2> QED BY <2>4, <2>5, <2>6 DEF RestoreFiles
<1> QED BY <1>7, <1>8

(* The restored receipt is in place, and with it the installation.           *)
LEMMA RestoreReceiptRecovers ==
    ASSUME InstallInv, RecoveryInv, ~disturbed', RestoreReceipt
    PROVE  RecoveryInv'
<1>1. /\ pc = "restoreReceipt" /\ ~disturbed /\ pc' = "restoreRegistration"
      /\ receipt' = [receipt EXCEPT !["destination"] = held]
      /\ UNCHANGED <<files, edited, journal, registration, directories, request, memory, held, todo>>
  BY DEF RestoreReceipt, GoTo, call, environment, books
<1>2. Untouched /\ JournalsAgree /\ RestorationGoes
  BY <1>1, RecoveryParts
<1>3. /\ journal # None /\ held = journal.previous /\ "backup" \in directories /\ todo = {}
      /\ HeldPlaced /\ receipt["backup"] = held
  BY <1>1, <1>2 DEF Untouched, Journalled, RestorationGoes
<1>4. receipt'["destination"] = held /\ receipt'["backup"] = held /\ Kept' = Kept
  BY <1>1, <1>3 DEF InstallInv, DiskOK, Tree, Kept
<1>5. journal.phase # Committed
  BY <1>1, <1>3 DEF InstallInv, CommittedPlaces
<1>6. Untouched' /\ CommittedStands' /\ CleanupGoes' /\ JournalsAgree'
  BY <1>1, <1>2, <1>3, <1>5 DEF Untouched, CommittedStands, CleanupGoes, JournalsAgree, Shaped, Journalled
<1>7. OldStands'
  BY <1>1, <1>3, <1>4 DEF OldStands, Stands, HeldPlaced, Of
<1>8. RestorationGoes'
  BY <1>1, <1>3, <1>4, <1>7 DEF RestorationGoes
<1>9. pc' \notin Early
  BY <1>1 DEF Early
<1>10. DeepKept' /\ ApartKept' /\ BackupGoes' /\ RemovalGoes' /\ ActivationGoes' /\ WritesGo' /\ RollbackGoes'
  BY <1>1, <1>9 DEF DeepKept, ApartKept, BackupGoes, RemovalGoes, ActivationGoes, WritesGo, RollbackGoes
<1> QED BY <1>6, <1>8, <1>10 DEF RecoveryInv

(* A call that fails in the middle of its work turns to the rollback.        *)
LEMMA AbandonRolls ==
    ASSUME InstallInv, RecoveryInv, ~disturbed', Abandon, RolledBack, GoTo("rollback"), UNCHANGED files
    PROVE  RecoveryInv'
<1>1. /\ pc' = "rollback"
      /\ pc \in {"backup", "activate", "activateReceipt", "register", "verify", "remove", "unregister", "write", "publish"}
      /\ UNCHANGED <<edited, journal, registration, directories, request, memory, held, todo>>
      /\ receipt' = IF pc = "activateReceipt" THEN [receipt EXCEPT !["destination"] = None] ELSE receipt
  BY DEF Abandon, RolledBack, GoTo, call
<1>2. ~disturbed
  BY DEF Abandon
<1>3. /\ Untouched /\ JournalsAgree /\ DeepKept /\ ApartKept /\ CleanupGoes
      /\ BackupGoes /\ RemovalGoes /\ ActivationGoes /\ WritesGo
  BY <1>2, RecoveryParts
<1>4. JournalsAgree'
  BY <1>1, <1>3 DEF JournalsAgree, Shaped, Journalled
<1>5. CASE journal = None
  <2>1. pc # "activateReceipt"
    BY <1>1, <1>3, <1>5 DEF Untouched, Journalled
  <2>2. receipt' = receipt
    BY <1>1, <2>1
  <2>3. Untouched'
    BY <1>1, <1>3, <1>5, <2>2 DEF Untouched, RegisteredStands, Stands, Kept, Of, Journalled, Emptied
  <2>4. Shaped(memory)'
    BY <1>1, <1>3 DEF JournalsAgree, Shaped, Journalled
  <2> QED BY <1>1, <1>5, <2>3, <2>4, NoJournal
<1>6. CASE journal # None
  <2>1. /\ journal.phase # Committed /\ Undoable /\ Undoable' /\ (Installing' <=> Installing) /\ journal.phase \in 1..6
        /\ Sound(memory)
    BY <1>1, <1>6, PlacesWithJournal DEF InstallInv, CommittedPlaces, Undoable, Committed, Installing, JournalKnown,
       Journalled
  <2>2. memory.phase \in 1..6
    BY <2>1 DEF Sound, Journal, Staged, Committed
  <2>3. /\ Untouched' /\ CommittedStands'
    BY <1>1, <1>6, <2>1 DEF Untouched, CommittedStands
  <2>4. pc = "activateReceipt" => Installing /\ journal.phase >= BackupMoved /\ journal.phase # Staged
    BY <1>3, <1>6, <2>1 DEF ActivationGoes, BackupMoved, Staged
  <2>5. /\ receipt'["backup"] = receipt["backup"] /\ receipt'["stage"] = receipt["stage"]
        /\ receipt'["destination"] = IF pc = "activateReceipt" THEN None ELSE receipt["destination"]
    BY <1>1 DEF InstallInv, DiskOK, Tree
  <2>6. /\ (OldSaved' <=> OldSaved) /\ (NewPartly' <=> NewPartly) /\ (Vacant' <=> Vacant) /\ (OldApart' <=> OldApart)
        /\ pc # "activateReceipt" => (OldReceipt' <=> OldReceipt) /\ (OldStands' <=> OldStands)
    BY <1>1, <2>5 DEF OldSaved, NewPartly, Vacant, OldApart, OldReceipt, OldStands, Stands, Kept, Of
  <2>7. Deep' => Deep /\ pc \notin {"backup", "remove"}
    <3>1. SUFFICES ASSUME Deep' PROVE Deep /\ pc \notin {"backup", "remove"}
      OBVIOUS
    <3>2. Installing /\ (journal.phase >= BackupMoved \/ memory.phase >= BackupMoved)
      BY <1>1, <2>1, <3>1 DEF Deep
    <3>3. pc \notin {"backup", "remove", "unregister"}
      BY <1>3, <1>6, <3>2 DEF BackupGoes, RemovalGoes, Staged, BackupMoved
    <3>4. CASE pc \in {"write", "publish"}
      BY <3>2, <3>4 DEF Deep
    <3>5. CASE pc \in {"activate", "activateReceipt", "register", "verify"}
      BY <1>3, <1>6, <3>2, <3>5 DEF ActivationGoes, Deep
    <3> QED BY <1>1, <3>3, <3>4, <3>5
  <2>8. DeepKept'
    <3>1. SUFFICES ASSUME Deep' PROVE DeepKept'
      BY DEF DeepKept
    <3>2. /\ "backup" \in directories /\ receipt["stage"] = journal.new /\ OldSaved /\ NewPartly
          /\ receipt["destination"] \in {None, journal.new, Torn}
          /\ receipt["destination"] = Torn => pc = "activateReceipt"
          /\ journal.phase = Staged => Vacant /\ receipt["destination"] = None
      BY <1>1, <1>3, <2>1, <2>7, <3>1 DEF DeepKept, Early
    <3> QED BY <1>1, <2>5, <2>6, <3>2, ValueAssumption DEF DeepKept
  <2>9. ApartKept'
    <3>1. SUFFICES ASSUME journal.phase = Staged \/ ~Installing PROVE OldApart /\ OldReceipt /\ pc # "activateReceipt"
      BY <1>1, <2>1, <2>6 DEF ApartKept
    <3> QED BY <1>1, <1>3, <2>1, <2>4, <3>1 DEF ApartKept, Early
  <2>10. RollbackGoes'
    <3>1. SUFFICES ASSUME Installing, journal.phase >= BackupMoved PROVE memory.phase >= BackupMoved
      BY <1>1, <2>1 DEF RollbackGoes
    <3>2. pc \notin {"backup", "remove", "unregister"}
      BY <1>3, <1>6, <3>1 DEF BackupGoes, RemovalGoes, Staged, BackupMoved
    <3> QED BY <1>1, <1>3, <1>6, <3>2 DEF ActivationGoes, WritesGo
  <2>11. CleanupGoes'
    <3>1. pc = "activateReceipt" => "backup" \in directories
      BY <1>3, <2>1, <2>4 DEF DeepKept, Deep, Early
    <3> QED BY <1>1, <1>3, <2>1, <2>6, <3>1 DEF CleanupGoes
  <2>12. BackupGoes' /\ RemovalGoes' /\ ActivationGoes' /\ WritesGo' /\ RestorationGoes'
    BY <1>1 DEF BackupGoes, RemovalGoes, ActivationGoes, WritesGo, RestorationGoes
  <2> QED BY <1>4, <2>3, <2>8, <2>9, <2>10, <2>11, <2>12 DEF RecoveryInv
<1> QED BY <1>5, <1>6

(* One that fails while it stages the package cleans up.                     *)
LEMMA AbandonStages ==
    ASSUME InstallInv, RecoveryInv, ~disturbed', Abandon, pc = "stage", GoTo("cleanup"),
           NEW tree, files' = [files EXCEPT !["stage"] = tree]
    PROVE  RecoveryInv'
<1>1. /\ pc' = "cleanup"
      /\ UNCHANGED <<edited, journal, registration>>
      /\ receipt' = [receipt EXCEPT !["stage"] = request.version]
  BY DEF Abandon, GoTo
<1>2. ~disturbed
  BY DEF Abandon
<1>3. Untouched /\ journal = None /\ DiskOK
  BY <1>2, RecoveryParts DEF InstallInv, Opened
<1>4. files'["destination"] = files["destination"] /\ receipt'["destination"] = receipt["destination"]
  BY <1>1, <1>3 DEF DiskOK, Tree
<1>5. Untouched'
  BY <1>1, <1>3, <1>4 DEF Untouched, RegisteredStands, Stands, Kept, Of, Journalled
<1> QED BY <1>1, <1>3, <1>5, NoJournal DEF Journalled

(* Where the copy of the receipt fails the copy is deleted.                  *)
LEMMA AbandonCopies ==
    ASSUME InstallInv, RecoveryInv, ~disturbed, pc = "activateReceipt", pc' \in {"idle", "recover"},
           UNCHANGED <<files, edited, journal, registration, directories>>,
           receipt' = [receipt EXCEPT !["destination"] = None]
    PROVE  RecoveryInv'
<1>1. Untouched /\ JournalsAgree /\ DeepKept /\ ActivationGoes
  BY RecoveryParts
<1>2. /\ journal # None /\ Installing /\ journal.phase >= BackupMoved
  BY <1>1 DEF Untouched, Journalled, ActivationGoes
<1>3. /\ journal.phase # Committed /\ journal.phase # Staged /\ Undoable /\ Undoable' /\ Installing' /\ Deep
  BY <1>2, PlacesWithJournal DEF InstallInv, CommittedPlaces, Undoable, Committed, Installing, Deep, Staged, BackupMoved
<1>4. "backup" \in directories /\ receipt["stage"] = journal.new /\ OldSaved /\ NewPartly
  BY <1>1, <1>3 DEF DeepKept, Early
<1>5. /\ receipt'["destination"] = None /\ receipt'["backup"] = receipt["backup"] /\ receipt'["stage"] = receipt["stage"]
      /\ Kept' = Kept
  BY DEF InstallInv, DiskOK, Tree, Kept
<1>6. OldSaved' /\ NewPartly'
  BY <1>4, <1>5 DEF OldSaved, NewPartly, Of
<1>7. Untouched' /\ JournalsAgree' /\ CommittedStands' /\ CleanupGoes'
  BY <1>1, <1>2, <1>3, <1>4 DEF Untouched, JournalsAgree, Shaped, Journalled, CommittedStands, CleanupGoes
<1>8. DeepKept' /\ ApartKept'
  BY <1>3, <1>4, <1>5, <1>6, ValueAssumption DEF DeepKept, ApartKept
<1>9. BackupGoes' /\ RemovalGoes' /\ ActivationGoes' /\ WritesGo' /\ RollbackGoes' /\ RestorationGoes'
  BY DEF BackupGoes, RemovalGoes, ActivationGoes, WritesGo, RollbackGoes, RestorationGoes
<1> QED BY <1>7, <1>8, <1>9 DEF RecoveryInv

(* A call that fails.                                                        *)
LEMMA AbandonRecovers ==
    ASSUME InstallInv, RecoveryInv, ~disturbed', Abandon, pc # "idle"
    PROVE  RecoveryInv'
<1>1. CASE RolledBack /\ GoTo("rollback") /\ UNCHANGED <<files, disturbed>>
  BY <1>1, AbandonRolls
<1>2. CASE pc = "stage" /\ GoTo("cleanup") /\ \E tree : files' = [files EXCEPT !["stage"] = tree]
  BY <1>2, AbandonStages
<1>3. CASE pc # "stage" /\ Return /\ UNCHANGED files /\ ~disturbed /\ ~Restoring
  <2>1. pc' \in {"idle", "recover"} /\ request \in Request
    BY <1>3, ReturnOutcome DEF Finish, InstallInv, RequestKnown
  <2>2. UNCHANGED <<files, edited, journal, registration, directories>>
    BY <1>3 DEF Abandon
  <2>3. CASE pc = "activateReceipt"
    <3>1. receipt' = [receipt EXCEPT !["destination"] = None]
      BY <2>3 DEF Abandon
    <3> QED BY <1>3, <2>1, <2>2, <2>3, <3>1, AbandonCopies
  <2>4. CASE pc = "restoreReceipt"
    <3>1. /\ journal # None /\ receipt["backup"] # None /\ receipt["destination"] # None
      BY <1>3, <2>4, RecoveryParts, ValueAssumption
         DEF Untouched, Journalled, RestorationGoes, InstallInv, ReceiptKnown, Holding
    <3>2. journal.phase # Committed
      BY <2>4, <3>1 DEF InstallInv, CommittedPlaces
    <3> QED BY <1>3, <2>4, <3>1, <3>2 DEF Restoring
  <2>5. CASE pc \notin {"activateReceipt", "restoreReceipt"}
    <3>1. receipt' = receipt
      BY <1>3, <2>5 DEF Abandon
    <3> QED BY <1>3, <2>1, <2>2, <2>5, <3>1, Rests
  <2> QED BY <2>3, <2>4, <2>5
<1> QED BY <1>1, <1>2, <1>3 DEF Abandon

(* The worker dies where its journal is enough to go on from.                *)
LEMMA CrashRecovers ==
    ASSUME InstallInv, RecoveryInv, ~disturbed', Crash
    PROVE  RecoveryInv'
<1>1. /\ ~disturbed /\ ~Restoring /\ receipt["destination"] # Torn /\ pc' = "idle"
      /\ UNCHANGED <<files, receipt, edited, journal, registration, directories>>
  BY DEF Crash, Finish, disk
<1> QED BY <1>1, Rests

(* A user changes a file of the destination: it is no longer kept.           *)
LEMMA EditRecovers ==
    ASSUME InstallInv, RecoveryInv, ~disturbed', NEW p \in Path, NEW content, Edit(p, content)
    PROVE  RecoveryInv'
<1>1. /\ ~disturbed /\ UNCHANGED <<receipt, registration, directories, journal, pc, request, memory, held, resume, todo>>
      /\ edited' = edited \cup {p} /\ files' = [files EXCEPT !["destination"][p] = content]
  BY DEF Edit, books, call
<1>2. /\ Untouched /\ JournalsAgree /\ CommittedStands /\ DeepKept /\ ApartKept
      /\ BackupGoes /\ RemovalGoes /\ ActivationGoes /\ WritesGo
      /\ RollbackGoes /\ RestorationGoes /\ CleanupGoes
  BY <1>1, RecoveryParts
<1>3. /\ Kept' \subseteq Kept
      /\ \A q \in Kept' : files'["destination"][q] = files["destination"][q]
      /\ files'["backup"] = files["backup"]
  BY <1>1 DEF InstallInv, DiskOK, Tree, Kept
<1>4. /\ (OldStands => OldStands') /\ (NewStands => NewStands') /\ (RegisteredStands => RegisteredStands')
      /\ (OldReceipt' <=> OldReceipt) /\ (Installing' <=> Installing) /\ (Undoable' <=> Undoable) /\ (Deep' <=> Deep)
  BY <1>1, <1>3 DEF OldStands, NewStands, RegisteredStands, Stands, OldReceipt, Installing, Undoable, Deep, Of
<1>5. /\ (OldApart => OldApart') /\ (OldSaved => OldSaved') /\ (NewPartly => NewPartly') /\ (Vacant => Vacant')
  BY <1>1, <1>3 DEF OldApart, OldSaved, NewPartly, Vacant, Of
<1>6. /\ (HeldPlaced => HeldPlaced') /\ (HeldAside => HeldAside') /\ (TakenAway => TakenAway') /\ (Emptied => Emptied')
  BY <1>1, <1>3 DEF HeldPlaced, HeldAside, TakenAway, Emptied, Of
<1>7. Untouched' /\ JournalsAgree' /\ CommittedStands'
  BY <1>1, <1>2, <1>4, <1>6 DEF Untouched, JournalsAgree, Shaped, CommittedStands
<1>8. DeepKept' /\ ApartKept'
  BY <1>1, <1>2, <1>4, <1>5 DEF DeepKept, ApartKept
<1>9. BackupGoes' /\ RemovalGoes'
  BY <1>1, <1>2, <1>4, <1>5, <1>6 DEF BackupGoes, RemovalGoes
<1>10. ActivationGoes' /\ WritesGo'
  BY <1>1, <1>2, <1>4, <1>5, <1>6 DEF ActivationGoes, WritesGo
<1>11. RollbackGoes' /\ RestorationGoes'
  BY <1>1, <1>2, <1>4, <1>5, <1>6 DEF RollbackGoes, RestorationGoes
<1>12. CleanupGoes'
  BY <1>1, <1>2, <1>4 DEF CleanupGoes
<1> QED BY <1>7, <1>8, <1>9, <1>10, <1>11, <1>12 DEF RecoveryInv

-----------------------------------------------------------------------------
(* Every step keeps the invariant, and what follows from it. *)

(* In the initial state there is nothing to recover.                         *)
LEMMA RecoveryInit == Init => RecoveryInv
<1> SUFFICES ASSUME Init PROVE RecoveryInv
  OBVIOUS
<1>1. /\ journal = None /\ pc = "idle" /\ registration = None /\ receipt["destination"] = None
      /\ \A p \in Path : files["destination"][p] = None
  BY DEF Init, Tree
<1>2. Untouched
  BY <1>1 DEF Untouched, RegisteredStands, Stands, Kept, Of, Journalled
<1>3. JournalsAgree
  BY <1>1 DEF JournalsAgree, Journalled
<1>4. /\ CommittedStands /\ DeepKept /\ ApartKept /\ BackupGoes /\ RemovalGoes /\ ActivationGoes /\ WritesGo
      /\ RollbackGoes /\ RestorationGoes /\ CleanupGoes
  BY <1>1 DEF CommittedStands, DeepKept, ApartKept, BackupGoes, RemovalGoes, ActivationGoes, WritesGo,
     RollbackGoes, RestorationGoes, CleanupGoes, Undoable
<1> QED BY <1>2, <1>3, <1>4 DEF RecoveryInv

(* A step that changes nothing keeps it.                                     *)
LEMMA StutterRecovers ==
    ASSUME RecoveryInv, ~disturbed', UNCHANGED vars
    PROVE  RecoveryInv'
<1>1. UNCHANGED <<files, receipt, directories, registration, locator, owner, journal, temporaries, pc,
                  request, memory, held, resume, todo, faults, edited, disturbed>>
  BY DEF vars, disk, call, environment
<1>2. /\ Untouched /\ JournalsAgree /\ CommittedStands /\ DeepKept /\ ApartKept
      /\ BackupGoes /\ RemovalGoes /\ ActivationGoes /\ WritesGo
      /\ RollbackGoes /\ RestorationGoes /\ CleanupGoes
  BY <1>1, RecoveryParts
<1>3. /\ (OldStands' <=> OldStands) /\ (NewStands' <=> NewStands)
      /\ (OldApart' <=> OldApart) /\ (OldReceipt' <=> OldReceipt)
      /\ (OldSaved' <=> OldSaved) /\ (NewPartly' <=> NewPartly) /\ (Vacant' <=> Vacant)
      /\ (Installing' <=> Installing) /\ (Undoable' <=> Undoable)
  BY <1>1, SameTrees
<1>4. (HeldPlaced' <=> HeldPlaced) /\ (HeldAside' <=> HeldAside) /\ (TakenAway' <=> TakenAway)
  BY <1>1, SameTreated
<1>5. Untouched' /\ JournalsAgree' /\ CommittedStands'
  BY <1>1, <1>2, <1>3 DEF Untouched, RegisteredStands, Stands, Kept, Of, Emptied, JournalsAgree, Shaped, CommittedStands
<1>6. DeepKept' /\ ApartKept'
  BY <1>1, <1>2, <1>3 DEF DeepKept, ApartKept, Deep
<1>7. BackupGoes' /\ RemovalGoes' /\ ActivationGoes' /\ WritesGo'
  BY <1>1, <1>2, <1>3, <1>4 DEF BackupGoes, RemovalGoes, ActivationGoes, WritesGo
<1>8. RollbackGoes' /\ RestorationGoes' /\ CleanupGoes'
  BY <1>1, <1>2, <1>3, <1>4 DEF RollbackGoes, RestorationGoes, CleanupGoes
<1> QED BY <1>5, <1>6, <1>7, <1>8 DEF RecoveryInv

(* Every step keeps it, one lemma for each action.                           *)
LEMMA RecoveryStepKeeps ==
    ASSUME InstallInv, RecoveryInv, [Next]_vars
    PROVE  RecoveryInv'
<1>1. CASE disturbed'
  BY <1>1 DEF RecoveryInv
<1>2. CASE ~disturbed'
  <2>1. ASSUME NEW r \in Request, Start(r) PROVE RecoveryInv'
    BY <1>2, <2>1, StartRecovers
  <2>2. CASE WorkerStep
    <3>1. CASE Refuse
      BY <1>2, <3>1, RefuseOutcome, AbandonRecovers
    <3> QED BY <1>2, <2>2, <3>1, RecoverExistingRecovers, ClassificationRecovers, CreationRecovers,
               StagePackageRecovers, WriteTemporaryRecovers, PublishRecovers, MoveToBackupRecovers,
               ActivateRecovers, ActivateReceiptRecovers, RegistrationRecovers, VerificationRecovers,
               RemoveInstallationRecovers, CommitRecovers, RollbackRecovers, RemoveActivatedRecovers,
               RestoreBackupRecovers, RestoreFilesRecovers, RestoreReceiptRecovers, RegistrationRestored,
               CleanupRecovers, RemoveBooksRecovers
            DEF WorkerStep
  <2>3. CASE Fail
    BY <1>2, <2>3, AbandonRecovers DEF Fail
  <2>4. CASE Crash
    BY <1>2, <2>4, CrashRecovers
  <2>5. ASSUME NEW p \in Path, NEW c \in {None, Foreign}, Edit(p, c) PROVE RecoveryInv'
    BY <1>2, <2>5, EditRecovers
  <2>6. CASE UNCHANGED vars
    BY <1>2, <2>6, StutterRecovers
  <2> QED BY <2>1, <2>2, <2>3, <2>4, <2>5, <2>6 DEF Next
<1> QED BY <1>1, <1>2

(* Unless an interruption came where recovery cannot cope with it, the disk  *)
(* is at every step what the journal and the next recovery expect of it.     *)
THEOREM RecoveryInvariant == Spec => [](InstallInv /\ RecoveryInv)
<1>1. Init => InstallInv /\ RecoveryInv
  BY InitInv, RecoveryInit
<1>2. InstallInv /\ RecoveryInv /\ [Next]_vars => InstallInv' /\ RecoveryInv'
  BY NextKeeps, RecoveryStepKeeps
<1> QED BY <1>1, <1>2, PTL DEF Spec

(* Whenever no transaction is open the destination is one whole installation *)
(* or none, and the registration says which: what a transaction does it does *)
(* entirely or not at all, whatever fails or dies on its way.                *)
THEOREM AllOrNothingHolds == Spec => []AllOrNothing
<1>1. InstallInv /\ RecoveryInv => AllOrNothing
  <2> SUFFICES ASSUME InstallInv, RecoveryInv, ~locator, ~disturbed
               PROVE  \E v \in Version \cup {None} : Whole(v)
    BY DEF AllOrNothing
  <2>1. journal = None /\ registration \in Version \cup {None}
    BY DEF InstallInv, Opened, DiskOK
  <2>2. RegisteredStands
    BY <2>1, RecoveryParts DEF Untouched
  <2>3. Whole(registration)
    BY <2>2 DEF Whole, RegisteredStands, Stands, Kept, Of
  <2> QED BY <2>1, <2>3
<1> QED BY <1>1, RecoveryInvariant, PTL

(* Until the commit every file of the previous installation is in its place  *)
(* or in the backup, and its receipt in one of the two.                      *)
THEOREM PreviousStaysRecoverable == Spec => []PreviousRecoverable
<1>1. InstallInv /\ RecoveryInv => PreviousRecoverable
  <2> SUFFICES ASSUME InstallInv, RecoveryInv, journal # None, journal.phase < Committed,
                      journal.previous # None, ~disturbed
               PROVE  /\ \A p \in Inventory(journal.previous) \ edited :
                            \/ Holds("destination", journal.previous, p)
                            \/ Holds("backup", journal.previous, p)
                      /\ journal.previous \in {receipt["destination"], receipt["backup"]}
    BY DEF PreviousRecoverable
  <2>1. /\ DeepKept /\ ApartKept /\ RestorationGoes /\ CleanupGoes /\ Undoable
    BY RecoveryParts DEF Undoable
  <2>2. Inventory(journal.previous) \ edited \subseteq Kept
    BY DEF Inventory, Kept
  <2>3. journal.phase \in 1..6
    BY PlacesWithJournal
  <2>4. CASE OldSaved
    BY <2>2, <2>4 DEF OldSaved, Holds, Of
  <2>5. CASE OldApart /\ OldReceipt
    BY <2>2, <2>5 DEF OldApart, OldReceipt, Holds, Of
  <2>6. CASE OldStands
    BY <2>2, <2>6 DEF OldStands, Stands, Holds, Of
  <2>7. CASE pc \in Early
    <3>1. CASE Deep
      BY <2>1, <2>4, <2>7, <3>1 DEF DeepKept
    <3>2. CASE ~Deep
      <4>1. journal.phase = Staged \/ ~Installing
        BY <2>3, <3>2 DEF Deep, Staged, BackupMoved
      <4> QED BY <2>1, <2>5, <2>7, <4>1 DEF ApartKept
    <3> QED BY <3>1, <3>2
  <2>8. CASE pc = "restoreFiles"
    BY <2>1, <2>5, <2>8 DEF RestorationGoes
  <2>9. CASE pc = "restoreReceipt"
    <3>1. held = journal.previous /\ todo = {} /\ HeldPlaced /\ receipt["backup"] = held
      BY <2>1, <2>9 DEF RestorationGoes
    <3> QED BY <2>2, <3>1 DEF HeldPlaced, Holds, Of
  <2>10. CASE pc \in {"restoreRegistration", "cleanup", "clean"}
    BY <2>1, <2>6, <2>10 DEF RestorationGoes, CleanupGoes
  <2> QED BY <2>7, <2>8, <2>9, <2>10, PlacesWithJournal
<1> QED BY <1>1, RecoveryInvariant, PTL

(* The journal is discarded only when the installation it decided for stands *)
(* as a whole: the new one after a commit, the previous one otherwise.       *)
THEOREM DecisionsHold == Spec => DecisionHolds
<1>1. ASSUME InstallInv, RecoveryInv, [Next]_vars, journal # None, journal' = None, ~disturbed
      PROVE  Whole(IF journal.phase = Committed THEN journal.new ELSE journal.previous)
  <2>1. ~UNCHANGED journal
    BY <1>1
  <2>2. ~PublishJournal
    BY <1>1, JournalAssumption DEF PublishJournal, InstallInv, JournalKnown, Journalled, Sound
  <2>3. RemoveBooks
    BY <1>1, <2>1, <2>2
       DEF Next, WorkerStep, Start, RecoverExisting, ClassifyDestination, InspectInstallation, CreateLocator,
           PrepareTransaction, StagePackage, WriteTemporary, MoveToBackup, Activate, ActivateReceipt,
           WriteRegistration, VerifyInstallation, RemoveInstallation, RemoveRegistration, CommitInstall, Rollback,
           RemoveActivatedFiles, RestoreBackup, RestoreFiles, RestoreReceipt, RestoreRegistration,
           CleanupTransaction, RemoveCleanupTree, Refuse, Fail, Abandon, Crash, Edit, disk, books, vars
  <2>4. pc = "clean" /\ CommittedStands /\ CleanupGoes
    BY <1>1, <2>3, RecoveryParts DEF RemoveBooks
  <2>5. CASE journal.phase = Committed
    BY <1>1, <2>4, <2>5 DEF CommittedStands, NewStands, Stands, Whole, Kept, Of
  <2>6. CASE journal.phase # Committed
    <3>1. Undoable
      BY <1>1, <2>6, PlacesWithJournal DEF Undoable, Committed
    <3> QED BY <2>4, <2>6, <3>1 DEF CleanupGoes, OldStands, Stands, Whole, Kept, Of
  <2> QED BY <2>5, <2>6
<1>2. InstallInv /\ RecoveryInv /\ [Next]_vars =>
        (journal # None /\ journal' = None /\ ~disturbed =>
            Whole(IF journal.phase = Committed THEN journal.new ELSE journal.previous))
  BY <1>1
<1> QED BY <1>2, RecoveryInvariant, PTL DEF DecisionHolds, Spec
=============================================================================
