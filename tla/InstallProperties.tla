-------------------------- MODULE InstallProperties --------------------------
(* What an installation transaction promises. *)
EXTENDS InstallTransaction

Steps == {"idle", "recover", "classify", "inspect", "commit", "locate", "prepare", "stage",
          "write", "publish", "backup", "activate", "activateReceipt", "register", "verify",
          "remove", "unregister", "rollback", "deactivate", "restore", "restoreFiles",
          "restoreReceipt", "restoreRegistration", "cleanup", "clean"}

(* The variables have their types. *)
TypeOK ==
    /\ files \in [Tree -> [Path -> Content \cup {None, Foreign}]]
    /\ receipt \in [Tree -> Version \cup {None, Torn}]
    /\ directories \subseteq {"stage", "backup"}
    /\ registration \in Version \cup {None}
    /\ locator \in BOOLEAN /\ owner \in BOOLEAN
    /\ journal \in Journal \cup {None} /\ memory \in Journal \cup {None}
    /\ temporaries \in 0..(MaxFaults + 1)
    /\ pc \in Steps
    /\ request \in Request \cup {None}
    /\ held \in Version \cup {None}
    /\ todo \subseteq Path /\ resume \in BOOLEAN
    /\ faults \in 0..MaxFaults
    /\ edited \subseteq Path /\ disturbed \in BOOLEAN

(* The destination is exactly the installation of v, or none, but for what  *)
(* a user has changed: every file, the receipt and the registration.        *)
Whole(v) ==
    /\ receipt["destination"] = v /\ registration = v
    /\ \A p \in Path \ edited :
          files["destination"][p] = IF v = None THEN None ELSE Package[v][p]

(* When no transaction is open the destination is a whole installation of   *)
(* one version or none at all, and its registration agrees, whatever was     *)
(* interrupted and however often (rollback, RecoverExisting).                *)
AllOrNothing ==
    pc = "idle" /\ ~locator /\ ~disturbed => \E v \in Version \cup {None} : Whole(v)

(* Until a transaction commits, each file of the installation it replaces    *)
(* is in the destination or in the backup ("the active payload and prior     *)
(* registration remain recoverable", MoveReceiptInventory and RestoreBackup).*)
PreviousRecoverable ==
    journal # None /\ journal.phase < Committed /\ journal.previous # None /\ ~disturbed =>
        /\ \A p \in Inventory(journal.previous) \ edited :
              \/ Holds("destination", journal.previous, p)
              \/ Holds("backup", journal.previous, p)
        /\ journal.previous \in {receipt["destination"], receipt["backup"]}

(* The journal is discarded only when what it decided is in place: the new   *)
(* installation after a commit, the previous one after a rollback.           *)
DecisionHolds ==
    [][journal # None /\ journal' = None /\ ~disturbed =>
          Whole(IF journal.phase = Committed THEN journal.new ELSE journal.previous)]_vars

(* After the commit is published the worker changes neither the payload nor  *)
(* the registration until the transaction is closed.                         *)
CommittedStays ==
    [][journal # None /\ journal.phase = Committed /\ (WorkerStep \/ Fail \/ Crash) =>
          /\ UNCHANGED registration
          /\ files'["destination"] = files["destination"]
          /\ receipt'["destination"] = receipt["destination"]]_vars

(* No step of the worker removes or replaces a file that a user has written, *)
(* in any operation and after any interruption (the anchored operations      *)
(* verify what they move or remove; a rename replaces nothing).              *)
ForeignKept ==
    [][WorkerStep \/ Fail \/ Crash =>
          \A p \in Path : files["destination"][p] = Foreign => files'["destination"][p] = Foreign]_vars

(* A file leaves the backup only for its place in the destination, unless    *)
(* the transaction has committed.                                            *)
BackupKept ==
    [][\A p \in Path :
          files["backup"][p] # None /\ files'["backup"][p] = None =>
              \/ journal # None /\ journal.phase = Committed
              \/ files'["destination"][p] = files["backup"][p]]_vars

(* A recovery that starts with a readable journal closes the transaction,    *)
(* if nothing goes wrong meanwhile.                                          *)
RecoveryCompletes ==
    pc = "recover" /\ locator /\ ~disturbed /\ edited = {}
        ~> ~locator \/ disturbed \/ edited # {}

(* "Interrupted work is rolled back idempotently"                            *)
(* (src/Docs/TestingAndRelease.md:559): whenever no transaction is open and  *)
(* no user has interfered, the destination is whole.  It is not: the second  *)
(* recovery of a repair deletes what the first one has restored.             *)
RollbackIdempotent ==
    pc = "idle" /\ ~locator /\ edited = {} => \E v \in Version \cup {None} : Whole(v)
=============================================================================
