-------------------------- MODULE OutputPublication --------------------------
(***************************************************************************)
(* Journaled publication of one action's output set and its recovery       *)
(* (crates/nia-build/src/coordinator/publication.rs and                    *)
(* crates/nia-build/src/output_recovery.rs).                               *)
(*                                                                         *)
(* Build processes share the build directory.  A build first recovers the  *)
(* interrupted transactions whose journals it finds, then publishes under  *)
(* the locks of all its outputs: it stages new files, journals the         *)
(* transaction, marks it prepared, moves each previous output aside and    *)
(* the new one in place, and commits by renaming the staging directory.    *)
(* Every call that changes the file system is a step of its own, and a     *)
(* directory is removed entry by entry; a process may be killed between    *)
(* any two of them, which frees its locks and forgets its memory.  File    *)
(* contents are abstracted to the number of the transaction that wrote     *)
(* them.                                                                   *)
(***************************************************************************)
EXTENDS Integers, FiniteSets, FiniteSetsExt

CONSTANTS
    Procs,
    Outputs,    \* output positions, in the order of the action's declaration
    Initial,    \* the sets of outputs that may exist before the first build
    MaxTxn,     \* bound on the transactions begun
    MaxKills,   \* bound on the processes killed
    Absent,     \* no file at this path
    None

ASSUME OutputsAssumption == IsFiniteSet(Outputs) /\ Outputs \subseteq Nat /\ Outputs # {}
ASSUME InitialAssumption == Initial \subseteq SUBSET Outputs
ASSUME BoundsAssumption == MaxTxn \in Nat /\ MaxKills \in Nat
ASSUME AbsentAssumption == Absent \notin Nat
ASSUME NoneAssumption ==
    None \notin Procs /\ None \notin Nat /\ \A s \in SUBSET Outputs : None # s

Txns == 1 .. MaxTxn
Versions == 0 .. MaxTxn

VARIABLES
    dest,       \* the destinations
    temp,       \* output-<i> of each staging directory
    backup,     \* backup-<i> of each staging directory
    stage,      \* "none", "staged" or "committed": the directory and its name
    journal,    \* journal directory: "none", "tmp" or "transaction"
    header,     \* the journals that contain journal.bin
    prepared,   \* had_previous as prepared.bin stores it, None without the file
    begun,      \* STAGED_OUTPUT_SEQUENCE, JOURNAL_SEQUENCE
    lock,       \* the process that holds the locks of all outputs, or None
    pc,
    txn,        \* the transaction a process publishes or recovers
    unseen,     \* entries that the scan has listed and not inspected yet
    temps,      \* listed entries that were temporary journals
    todo,       \* journals the process still has to recover
    left,       \* outputs rollback_interrupted has not looked at yet
    backed_up,  \* StagedOutputPublication.backed_up
    installed,  \* StagedOutputPublication.installed
    kills,
    torn,       \* transactions whose clean-up was cut off
    overlapped  \* a publication began over a prepared, unrecovered transaction

disk == <<dest, temp, backup, stage, journal, header, prepared, begun>>
scan == <<unseen, temps>>
memory == <<pc, txn, scan, todo, left, backed_up, installed>>
ghosts == <<kills, torn, overlapped>>
vars == <<disk, lock, memory, ghosts>>

Contents == Versions \cup {Absent}

(* Where a process needs the locks of the outputs. *)
Locked == {"inspect", "undo", "clean", "retire", "stage", "create", "rename", "produce",
           "prepare", "install", "rollback"}

TypeOK ==
    /\ dest \in [Outputs -> Contents]
    /\ temp \in [Txns -> [Outputs -> Contents]]
    /\ backup \in [Txns -> [Outputs -> Contents]]
    /\ stage \in [Txns -> {"none", "staged", "committed"}]
    /\ journal \in [Txns -> {"none", "tmp", "transaction"}]
    /\ header \subseteq Txns
    /\ prepared \in [Txns -> (SUBSET Outputs) \cup {None}]
    /\ begun \in 0 .. MaxTxn
    /\ lock \in Procs \cup {None}
    /\ pc \in [Procs -> Locked \cup {"idle", "recover", "relock", "ready", "rejected"}]
    /\ \A p \in Procs : pc[p] \in Locked <=> lock = p
    /\ txn \in [Procs -> Txns \cup {None}]
    /\ \A p \in Procs : txn[p] = None <=> pc[p] \in {"idle", "recover", "ready", "stage"}
    /\ unseen \in [Procs -> SUBSET Txns]
    /\ temps \in [Procs -> SUBSET Txns]
    /\ todo \in [Procs -> SUBSET Txns]
    /\ left \in [Procs -> SUBSET Outputs]
    /\ backed_up \in [Procs -> SUBSET Outputs]
    /\ installed \in [Procs -> SUBSET Outputs]
    /\ kills \in 0 .. MaxKills
    /\ torn \subseteq Txns
    /\ overlapped \in BOOLEAN

Empty == [o \in Outputs |-> Absent]

Init ==
    /\ dest \in [Outputs -> {0, Absent}]
    /\ {o \in Outputs : dest[o] = 0} \in Initial
    /\ temp = [t \in Txns |-> Empty]
    /\ backup = [t \in Txns |-> Empty]
    /\ stage = [t \in Txns |-> "none"]
    /\ journal = [t \in Txns |-> "none"]
    /\ header = {}
    /\ prepared = [t \in Txns |-> None]
    /\ begun = 0
    /\ lock = None
    /\ pc = [p \in Procs |-> "idle"]
    /\ txn = [p \in Procs |-> None]
    /\ unseen = [p \in Procs |-> {}]
    /\ temps = [p \in Procs |-> {}]
    /\ todo = [p \in Procs |-> {}]
    /\ left = [p \in Procs |-> {}]
    /\ backed_up = [p \in Procs |-> {}]
    /\ installed = [p \in Procs |-> {}]
    /\ kills = 0
    /\ torn = {}
    /\ overlapped = FALSE

(* A transaction whose outputs recovery would put back. *)
Pending(t) == stage[t] = "staged" /\ prepared[t] # None

Goto(p, l) == pc' = [pc EXCEPT ![p] = l]

-----------------------------------------------------------------------------
(* recover_interrupted_output_transactions *)

(* A build starts: read_dir lists the journal directory, the live journals *)
(* and the names they have at this moment included.                        *)
Scan(p) ==
    /\ pc[p] = "idle"
    /\ unseen' = [unseen EXCEPT ![p] = {t \in Txns : journal[t] # "none"}]
    /\ temps' = [temps EXCEPT ![p] = {t \in Txns : journal[t] = "tmp"}]
    /\ Goto(p, "recover")
    /\ UNCHANGED <<disk, lock, txn, todo, left, backed_up, installed, ghosts>>

(* The name under which the scan has listed a journal. *)
ListedAs(p, t) == IF t \in temps[p] THEN "tmp" ELSE "transaction"

(* symlink_metadata of one entry, in the order of the listing.  No lock is *)
(* held: an entry that has been renamed or retired since is NotFound, and  *)
(* the build is refused.                                                   *)
InspectEntry(p) ==
    /\ pc[p] = "recover"
    /\ \E t \in unseen[p] :
        IF journal[t] = ListedAs(p, t)
        THEN /\ unseen' = [unseen EXCEPT ![p] = @ \ {t}]
             /\ todo' = [todo EXCEPT ![p] = @ \cup ({t} \ temps[p])]
             /\ UNCHANGED <<pc, txn>>
        ELSE /\ txn' = [txn EXCEPT ![p] = t]
             /\ Goto(p, "rejected")
             /\ UNCHANGED <<unseen, todo>>
    /\ UNCHANGED <<disk, lock, temps, left, backed_up, installed, ghosts>>

(* retire_dead_temporary_journals: a temporary journal goes if its owner   *)
(* is dead; one that is not there any more is passed over.                 *)
RetireTemporary(p) ==
    /\ pc[p] = "recover"
    /\ unseen[p] = {}
    /\ \E t \in temps[p] :
        /\ temps' = [temps EXCEPT ![p] = @ \ {t}]
        /\ IF journal[t] = "tmp" /\ \A q \in Procs : txn[q] # t
           THEN journal' = [journal EXCEPT ![t] = "none"] /\ header' = header \ {t}
           ELSE UNCHANGED <<journal, header>>
    /\ UNCHANGED <<dest, temp, backup, stage, prepared, begun, lock, pc, txn, unseen, todo, left,
                   backed_up, installed, ghosts>>

(* The listing has been dealt with; only the journals in todo are left.    *)
Scanned(p) == pc[p] = "recover" /\ unseen[p] = {} /\ temps[p] = {}

(* Names sort by process identifier: any journal may be the next one.      *)
(* read_header runs before any lock is held.                               *)
ReadHeader(p) ==
    /\ Scanned(p)
    /\ \E t \in todo[p] :
        /\ txn' = [txn EXCEPT ![p] = t]
        /\ Goto(p, IF t \in header THEN "relock" ELSE "rejected")
    /\ UNCHANGED <<disk, lock, todo, left, backed_up, installed, scan, ghosts>>

Recovered(p) ==
    /\ Scanned(p)
    /\ todo[p] = {}
    /\ Goto(p, "ready")
    /\ UNCHANGED <<disk, lock, txn, todo, left, backed_up, installed, scan, ghosts>>

LockForRecovery(p) ==
    /\ pc[p] = "relock"
    /\ lock = None
    /\ lock' = p
    /\ Goto(p, "inspect")
    /\ UNCHANGED <<disk, txn, todo, left, backed_up, installed, scan, ghosts>>

(* Leaving recover_journal drops its locks. *)
NextJournal(p) ==
    /\ lock' = None
    /\ todo' = [todo EXCEPT ![p] = @ \ {txn[p]}]
    /\ txn' = [txn EXCEPT ![p] = None]
    /\ Goto(p, "recover")

Reject(p) ==
    /\ lock' = None
    /\ Goto(p, "rejected")
    /\ UNCHANGED <<txn, todo>>

(* Faulty: an interrupted transaction is cleaned up even if it was prepared. *)
InspectUnprepared(p) ==
    LET t == txn[p]
    IN  /\ pc[p] = "inspect"
        /\ IF journal[t] = "none" THEN NextJournal(p) /\ UNCHANGED left
           ELSE IF t \notin header THEN Reject(p) /\ UNCHANGED left
           ELSE /\ Goto(p, IF stage[t] = "none" THEN "retire" ELSE "clean")
                /\ left' = [left EXCEPT ![p] = {}]
                /\ UNCHANGED <<lock, txn, todo>>
        /\ UNCHANGED <<disk, backed_up, installed, scan, ghosts>>

(* Faulty: a journal without a staging directory is passed over. *)
InspectKeepsEmpty(p) ==
    LET t == txn[p]
    IN  /\ pc[p] = "inspect"
        /\ IF journal[t] = "none" \/ stage[t] = "none" THEN NextJournal(p) /\ UNCHANGED left
           ELSE IF t \notin header THEN Reject(p) /\ UNCHANGED left
           ELSE /\ Goto(p, IF Pending(t) THEN "undo" ELSE "clean")
                /\ left' = [left EXCEPT ![p] = IF Pending(t) THEN Outputs ELSE {}]
                /\ UNCHANGED <<lock, txn, todo>>
        /\ UNCHANGED <<disk, backed_up, installed, scan, ghosts>>

(* recover_journal once it holds the locks. *)
Inspect(p) ==
    LET t == txn[p]
    IN  /\ pc[p] = "inspect"
        /\ IF journal[t] = "none" THEN NextJournal(p) /\ UNCHANGED left
           ELSE IF t \notin header THEN Reject(p) /\ UNCHANGED left
           ELSE /\ Goto(p, IF Pending(t) THEN "undo"
                           ELSE IF stage[t] = "none" THEN "retire" ELSE "clean")
                /\ left' = [left EXCEPT ![p] = IF Pending(t) THEN Outputs ELSE {}]
                /\ UNCHANGED <<lock, txn, todo>>
        /\ UNCHANGED <<disk, backed_up, installed, scan, ghosts>>

Exists(file) == file # Absent

(* Faulty: a backup whose destination is empty is taken for a contradiction. *)
UndoableInPlace(t, o) ==
    IF o \in prepared[t]
    THEN Exists(dest[o]) /\ (Exists(backup[t][o]) \/ Exists(temp[t][o]))
    ELSE Exists(temp[t][o]) # Exists(dest[o])

(* One output of rollback_interrupted, the last one first: Undoable is     *)
(* false where the code finds a contradiction and refuses the transaction. *)
Undoable(t, o) ==
    IF o \in prepared[t]
    THEN Exists(backup[t][o]) \/ (Exists(temp[t][o]) /\ Exists(dest[o]))
    ELSE Exists(temp[t][o]) # Exists(dest[o])

Undo(p) ==
    LET t == txn[p]
        o == Max(left[p])
        retire  == Exists(dest[o]) /\ IF o \in prepared[t] THEN Exists(backup[t][o])
                                      ELSE ~Exists(temp[t][o])
        restore == Exists(backup[t][o]) /\ ~Exists(dest[o]) /\ o \in prepared[t]
    IN  /\ pc[p] = "undo"
        /\ left[p] # {}
        /\ IF ~Undoable(t, o) THEN Reject(p) /\ UNCHANGED <<dest, temp, backup, left>>
           ELSE /\ dest' = [dest EXCEPT ![o] = IF retire THEN Absent
                                               ELSE IF restore THEN backup[t][o] ELSE @]
                /\ temp' = [temp EXCEPT ![t][o] = IF retire THEN dest[o] ELSE @]
                /\ backup' = [backup EXCEPT ![t][o] = IF restore THEN Absent ELSE @]
                /\ left' = [left EXCEPT ![p] = IF retire /\ o \in prepared[t] THEN @ ELSE @ \ {o}]
                /\ UNCHANGED <<lock, pc, txn, todo>>
        /\ UNCHANGED <<stage, journal, header, prepared, begun, backed_up, installed, scan, ghosts>>

Undone(p) ==
    /\ pc[p] = "undo"
    /\ left[p] = {}
    /\ Goto(p, "clean")
    /\ UNCHANGED <<disk, lock, txn, todo, left, backed_up, installed, scan, ghosts>>

-----------------------------------------------------------------------------
(* Removal of a directory and of its journal, by a publisher and by recovery *)

(* fs::remove_dir_all of the staging or committed directory: its entries   *)
(* go one by one in any order, the directory itself last.                  *)
RemoveEntry(p) ==
    LET t == txn[p]
    IN  /\ pc[p] = "clean"
        /\ \E o \in Outputs :
            \/ /\ Exists(temp[t][o])
               /\ temp' = [temp EXCEPT ![t][o] = Absent]
               /\ UNCHANGED backup
            \/ /\ Exists(backup[t][o])
               /\ backup' = [backup EXCEPT ![t][o] = Absent]
               /\ UNCHANGED temp
        /\ UNCHANGED <<dest, stage, journal, header, prepared, begun, lock, memory, ghosts>>

RemoveStage(p) ==
    LET t == txn[p]
    IN  /\ pc[p] = "clean"
        /\ temp[t] = Empty /\ backup[t] = Empty
        /\ stage' = [stage EXCEPT ![t] = "none"]
        /\ Goto(p, "retire")
        /\ UNCHANGED <<dest, temp, backup, journal, header, prepared, begun, lock, txn, todo,
                       left, backed_up, installed, scan, ghosts>>

(* OutputTransactionJournal::cleanup, remove_directory of the journal. *)
RemoveRecord(p) ==
    LET t == txn[p]
    IN  /\ pc[p] = "retire"
        /\ \/ t \in header /\ header' = header \ {t} /\ UNCHANGED prepared
           \/ /\ prepared[t] # None
              /\ prepared' = [prepared EXCEPT ![t] = None]
              /\ UNCHANGED header
        /\ UNCHANGED <<dest, temp, backup, stage, journal, begun, lock, memory, ghosts>>

(* The transaction is over; a publisher goes on with its build, which does *)
(* not recover again.                                                      *)
RemoveJournal(p) ==
    LET t == txn[p]
    IN  /\ pc[p] = "retire"
        /\ t \notin header /\ prepared[t] = None
        /\ journal' = [journal EXCEPT ![t] = "none"]
        /\ lock' = None
        /\ todo' = [todo EXCEPT ![p] = @ \ {t}]
        /\ txn' = [txn EXCEPT ![p] = None]
        /\ Goto(p, IF t \in todo[p] THEN "recover" ELSE "ready")
        /\ UNCHANGED <<dest, temp, backup, stage, header, prepared, begun, left,
                       backed_up, installed, scan, ghosts>>

-----------------------------------------------------------------------------
(* Publication *)

(* acquire_output_locks: the locks of all outputs of the action. *)
LockForPublication(p) ==
    /\ pc[p] = "ready"
    /\ begun < MaxTxn
    /\ lock = None
    /\ lock' = p
    /\ Goto(p, "stage")
    /\ UNCHANGED <<disk, txn, todo, left, backed_up, installed, scan, ghosts>>

(* prepare_typed_staged_outputs: the staging directory under a new name. *)
CreateStage(p) ==
    /\ pc[p] = "stage"
    /\ begun' = begun + 1
    /\ stage' = [stage EXCEPT ![begun'] = "staged"]
    /\ txn' = [txn EXCEPT ![p] = begun']
    /\ Goto(p, "create")
    /\ UNCHANGED <<dest, temp, backup, journal, header, prepared, lock, todo, left,
                   backed_up, installed, scan, ghosts>>

(* OutputTransactionJournal::create: a complete journal under a temporary  *)
(* name, then the rename that makes recovery see it.                       *)
CreateJournal(p) ==
    /\ pc[p] = "create"
    /\ journal' = [journal EXCEPT ![txn[p]] = "tmp"]
    /\ header' = header \cup {txn[p]}
    /\ Goto(p, "rename")
    /\ UNCHANGED <<dest, temp, backup, stage, prepared, begun, lock, txn, todo, left,
                   backed_up, installed, scan, ghosts>>

RenameJournal(p) ==
    /\ pc[p] = "rename"
    /\ journal' = [journal EXCEPT ![txn[p]] = "transaction"]
    /\ Goto(p, "produce")
    /\ UNCHANGED <<dest, temp, backup, stage, header, prepared, begun, lock, txn, todo, left,
                   backed_up, installed, scan, ghosts>>

(* Creation of the journal fails: the staging directory is removed and the *)
(* error returned.  The journal stays when only the last sync failed.      *)
JournalFails(p) ==
    LET t == txn[p]
    IN  /\ pc[p] \in {"rename", "produce"}
        /\ temp[t] = Empty
        /\ stage' = [stage EXCEPT ![t] = "none"]
        /\ IF pc[p] = "rename"
           THEN journal' = [journal EXCEPT ![t] = "none"] /\ header' = header \ {t}
           ELSE UNCHANGED <<journal, header>>
        /\ lock' = None
        /\ txn' = [txn EXCEPT ![p] = None]
        /\ Goto(p, "idle")
        /\ UNCHANGED <<dest, temp, backup, prepared, begun, todo, left, backed_up, installed,
                       scan, ghosts>>

(* The action writes its outputs into the staging directory. *)
Produce(p) ==
    /\ pc[p] = "produce"
    /\ temp' = [temp EXCEPT ![txn[p]] = [o \in Outputs |-> txn[p]]]
    /\ Goto(p, "prepare")
    /\ UNCHANGED <<dest, backup, stage, journal, header, prepared, begun, lock, txn, todo, left,
                   backed_up, installed, scan, ghosts>>

(* The action fails, or an output cannot be validated or made durable:     *)
(* cleanup_staged_outputs.                                                 *)
ProduceFails(p) ==
    /\ pc[p] \in {"produce", "prepare"}
    /\ Goto(p, "clean")
    /\ UNCHANGED <<disk, lock, txn, todo, left, backed_up, installed, scan, ghosts>>

Existing == {o \in Outputs : Exists(dest[o])}

(* mark_prepared with the had_previous of every output. *)
MarkPrepared(p) ==
    /\ pc[p] = "prepare"
    /\ prepared' = [prepared EXCEPT ![txn[p]] = Existing]
    /\ overlapped' = (overlapped \/ \E t \in Txns : Pending(t))
    /\ backed_up' = [backed_up EXCEPT ![p] = {}]
    /\ installed' = [installed EXCEPT ![p] = {}]
    /\ Goto(p, "install")
    /\ UNCHANGED <<dest, temp, backup, stage, journal, header, begun, lock, txn, todo, left,
                   scan, kills, torn>>

(* The output that publish_staged_outputs_with installs next. *)
Position(p) == Min(Outputs \ installed[p])

BackUp(p) ==
    LET t == txn[p]
        o == Position(p)
    IN  /\ pc[p] = "install"
        /\ installed[p] # Outputs
        /\ o \in prepared[t] \ backed_up[p]
        /\ backup' = [backup EXCEPT ![t][o] = dest[o]]
        /\ dest' = [dest EXCEPT ![o] = Absent]
        /\ backed_up' = [backed_up EXCEPT ![p] = @ \cup {o}]
        /\ UNCHANGED <<temp, stage, journal, header, prepared, begun, lock, pc, txn, todo, left,
                       installed, scan, ghosts>>

Install(p) ==
    LET t == txn[p]
        o == Position(p)
    IN  /\ pc[p] = "install"
        /\ installed[p] # Outputs
        /\ o \notin prepared[t] \ backed_up[p]
        /\ dest' = [dest EXCEPT ![o] = temp[t][o]]
        /\ temp' = [temp EXCEPT ![t][o] = Absent]
        /\ installed' = [installed EXCEPT ![p] = @ \cup {o}]
        /\ UNCHANGED <<backup, stage, journal, header, prepared, begun, lock, pc, txn, todo, left,
                       backed_up, scan, ghosts>>

(* The rename of the staging directory accepts the publication; what was   *)
(* moved need not be remembered any more.                                  *)
Commit(p) ==
    /\ pc[p] = "install"
    /\ installed[p] = Outputs
    /\ stage' = [stage EXCEPT ![txn[p]] = "committed"]
    /\ backed_up' = [backed_up EXCEPT ![p] = {}]
    /\ installed' = [installed EXCEPT ![p] = {}]
    /\ Goto(p, "clean")
    /\ UNCHANGED <<dest, temp, backup, journal, header, prepared, begun, lock, txn, todo, left,
                   scan, ghosts>>

(* A rename or a sync fails before the commit. *)
InstallFails(p) ==
    /\ pc[p] = "install"
    /\ Goto(p, "rollback")
    /\ UNCHANGED <<disk, lock, txn, todo, left, backed_up, installed, scan, ghosts>>

(* rollback_staged_outputs undoes the recorded steps, the last one first. *)
RollBack(p) ==
    LET t == txn[p]
        o == Max(installed[p] \cup backed_up[p])
    IN  /\ pc[p] = "rollback"
        /\ installed[p] \cup backed_up[p] # {}
        /\ IF o \in installed[p]
           THEN /\ temp' = [temp EXCEPT ![t][o] = dest[o]]
                /\ dest' = [dest EXCEPT ![o] = Absent]
                /\ installed' = [installed EXCEPT ![p] = @ \ {o}]
                /\ UNCHANGED <<backup, backed_up>>
           ELSE /\ dest' = [dest EXCEPT ![o] = backup[t][o]]
                /\ backup' = [backup EXCEPT ![t][o] = Absent]
                /\ backed_up' = [backed_up EXCEPT ![p] = @ \ {o}]
                /\ UNCHANGED <<temp, installed>>
        /\ UNCHANGED <<stage, journal, header, prepared, begun, lock, pc, txn, todo, left, scan,
                       ghosts>>

RolledBack(p) ==
    /\ pc[p] = "rollback"
    /\ installed[p] \cup backed_up[p] = {}
    /\ Goto(p, "clean")
    /\ UNCHANGED <<disk, lock, txn, todo, left, backed_up, installed, scan, ghosts>>

-----------------------------------------------------------------------------
(* The process ends: its memory is gone, its locks can be reclaimed.       *)
Forget(p) ==
    /\ lock' = IF lock = p THEN None ELSE lock
    /\ pc' = [pc EXCEPT ![p] = "idle"]
    /\ txn' = [txn EXCEPT ![p] = None]
    /\ unseen' = [unseen EXCEPT ![p] = {}]
    /\ temps' = [temps EXCEPT ![p] = {}]
    /\ todo' = [todo EXCEPT ![p] = {}]
    /\ left' = [left EXCEPT ![p] = {}]
    /\ backed_up' = [backed_up EXCEPT ![p] = {}]
    /\ installed' = [installed EXCEPT ![p] = {}]
    /\ UNCHANGED disk

(* The build fails with OutputRecoveryError, or has nothing to publish.    *)
Exit(p) ==
    /\ pc[p] \in {"rejected", "ready"}
    /\ Forget(p)
    /\ UNCHANGED ghosts

(* The removal of a rolled-back staging directory has removed an entry, or *)
(* that of a journal its header.                                           *)
CutOff(p) ==
    \/ /\ pc[p] = "clean" /\ Pending(txn[p])
       /\ \E o \in Outputs : ~Exists(temp[txn[p]][o])
    \/ pc[p] = "retire" /\ txn[p] \notin header

(* The process is killed.  A rename or removal that fails while recovery,  *)
(* rollback or clean-up run leaves the same state: the error is returned   *)
(* and the rest is left to the next build.                                 *)
Kill(p) ==
    /\ pc[p] # "idle"
    /\ kills < MaxKills
    /\ kills' = kills + 1
    /\ torn' = IF CutOff(p) THEN torn \cup {txn[p]} ELSE torn
    /\ UNCHANGED overlapped
    /\ Forget(p)

Recover(p) ==
    \/ Scan(p) \/ InspectEntry(p) \/ RetireTemporary(p) \/ ReadHeader(p) \/ Recovered(p)
    \/ LockForRecovery(p) \/ Inspect(p) \/ Undo(p) \/ Undone(p)

CleanUp(p) == RemoveEntry(p) \/ RemoveStage(p) \/ RemoveRecord(p) \/ RemoveJournal(p)

Publish(p) ==
    \/ LockForPublication(p) \/ CreateStage(p) \/ CreateJournal(p) \/ RenameJournal(p)
    \/ Produce(p) \/ MarkPrepared(p) \/ BackUp(p) \/ Install(p) \/ Commit(p)
    \/ RollBack(p) \/ RolledBack(p)

Fail(p) == JournalFails(p) \/ ProduceFails(p) \/ InstallFails(p)

Next == \E p \in Procs : Recover(p) \/ CleanUp(p) \/ Publish(p) \/ Fail(p) \/ Exit(p) \/ Kill(p)

Spec == Init /\ [][Next]_vars

(* Every build goes on until it is killed: its processes run, and the user *)
(* starts the next one.                                                    *)
Fairness == \A p \in Procs : WF_vars(Recover(p) \/ CleanUp(p) \/ Publish(p) \/ Exit(p))

LiveSpec == Spec /\ Fairness

-----------------------------------------------------------------------------
(* What a build that recovers now leaves at each destination. *)
View ==
    [o \in Outputs |->
        IF \A t \in Txns : ~Pending(t) THEN dest[o]
        ELSE LET t == CHOOSE t \in Txns : Pending(t)
             IN  IF Exists(backup[t][o]) THEN backup[t][o]
                 ELSE IF o \in prepared[t] THEN dest[o] ELSE Absent]

Store == INSTANCE OutputStore WITH store <- View, void <- overlapped

(* Publication and recovery together replace the complete output set at    *)
(* once, at the commit rename: whatever a process is doing when it is      *)
(* killed, and however often recovery itself is killed, the outputs the    *)
(* next recovery leaves are all of one publication or all that it found    *)
(* (output_recovery.rs:1-7), as long as no publication begins over a       *)
(* prepared transaction that nobody has recovered.                         *)
PublishesAtomically == Store!Spec

(* Recovery refuses a build (OutputRecoveryError) only if the clean-up of  *)
(* the transaction it complains of was cut off, if publications            *)
(* overlapped, if the journal has lost its header to a process that        *)
(* retires it or has retired it since the scan, or if the entry it listed  *)
(* was renamed or retired before it was inspected: no other kill and no    *)
(* other interleaving leaves a state that the scan, read_header or         *)
(* rollback_interrupted refuses.  All variables keep their types, and who  *)
(* works on outputs is locking.                                            *)
RejectsOnlyTorn ==
    /\ TypeOK
    /\ \A p \in Procs : pc[p] = "rejected" =>
        \/ txn[p] \in torn \/ overlapped
        \/ txn[p] \notin header /\ (journal[txn[p]] = "none" \/ lock # None)
        \/ txn[p] \in unseen[p] /\ journal[txn[p]] # ListedAs(p, txn[p])

(* Recovery works under the output locks and refuses only ambiguous or     *)
(* corrupt state (output_recovery.rs:5-7), which live processes never      *)
(* leave: while none has been killed, no build is refused.                 *)
RefusesOnlyDamage == kills = 0 => \A p \in Procs : pc[p] # "rejected"

(* Every journal that recovery can see is retired in the end, unless a     *)
(* journal is refused for one of the reasons above.                        *)
JournalsRetire ==
    \A t \in Txns : journal[t] = "transaction" ~> (journal[t] = "none" \/ torn # {} \/ overlapped)

=============================================================================
