----------------------------- MODULE OutputLock -----------------------------
(***************************************************************************)
(* The cross-process lock of one build output                              *)
(* (crates/nia-build/src/lock.rs, ScopedFileLock).                         *)
(*                                                                         *)
(* The lock is a file at a fixed path.  A process owns it once it has      *)
(* created the file, written its identity into it and, on Unix, taken the  *)
(* advisory lock of the inode; it releases it by unlinking the path if the *)
(* path still holds its own token.  Who finds the path taken tries to      *)
(* reclaim it: on Unix by locking the inode it opened and judging the      *)
(* owner it reads at the path, on Windows by an exclusive open that        *)
(* deletes the very file it opened.  Processes may be killed at any point, *)
(* and fifteen minutes (STALE_AFTER) may pass at any point: a file then    *)
(* has become old, a waiter has lost its patience.                         *)
(*                                                                         *)
(* A token names the process, its start time and an acquisition, so it is  *)
(* told apart from every other; here a file stands for its token.          *)
(***************************************************************************)
EXTENDS Naturals, FiniteSets

CONSTANTS
    Procs,
    Platforms,      \* the platforms checked, among "unix" and "windows"
    MaxKills,       \* bound on the processes killed
    WritesFail,     \* whether writing the owner record may fail
    Patience,       \* whether STALE_AFTER may pass
    None

ASSUME ProcsAssumption == IsFiniteSet(Procs) /\ None \notin Procs /\ None \notin Nat
ASSUME PlatformsAssumption == Platforms \subseteq {"unix", "windows"}
ASSUME FaultsAssumption == MaxKills \in Nat /\ WritesFail \in BOOLEAN /\ Patience \in BOOLEAN

(* A process has one file open, and the path names one: no more exist. *)
Files == 1 .. Cardinality(Procs) + 1

VARIABLES
    platform,   \* the target the build system is compiled for
    path,       \* the file at the lock's path, or None
    written,    \* its owner record has been written
    dead,       \* the process that created it has been killed
    old,        \* it is older than STALE_AFTER
    doomed,     \* Windows: it is deleted, the name lasts until it is closed
    flock,      \* holder of the advisory lock of each file, or None
    pc,
    file,       \* the lock file a process has created and keeps open, or None
    opened,     \* the file a reclaimer has open, or None
    expired,    \* processes that have waited for STALE_AFTER
    zero,       \* reclaimers called with Duration::ZERO
    kills

state == <<written, dead, old, doomed>>
vars == <<platform, path, state, flock, pc, file, opened, expired, zero, kills>>

TypeOK ==
    /\ platform \in Platforms
    /\ path \in Files \cup {None}
    /\ written \in BOOLEAN /\ dead \in BOOLEAN /\ old \in BOOLEAN /\ doomed \in BOOLEAN
    /\ flock \in [Files -> Procs \cup {None}]
    /\ pc \in [Procs -> {"idle", "create", "token", "flock", "own", "unlink", "close", "discard",
                         "open", "trylock", "read", "alive", "aged", "gone", "done"}]
    /\ file \in [Procs -> Files \cup {None}]
    /\ opened \in [Procs -> Files \cup {None}]
    /\ \A p \in Procs : file[p] = None \/ opened[p] = None
    /\ expired \subseteq Procs /\ zero \subseteq Procs
    /\ kills \in 0 .. MaxKills

Init ==
    /\ platform \in Platforms
    /\ path = None
    /\ written = FALSE /\ dead = FALSE /\ old = FALSE /\ doomed = FALSE
    /\ flock = [f \in Files |-> None]
    /\ pc = [p \in Procs |-> "idle"]
    /\ file = [p \in Procs |-> None]
    /\ opened = [p \in Procs |-> None]
    /\ expired = {} /\ zero = {} /\ kills = 0

Goto(p, l) == pc' = [pc EXCEPT ![p] = l]

Held(f) == f # None /\ \E p \in Procs : file[p] = f

NoPath ==
    /\ path' = None
    /\ written' = FALSE /\ dead' = FALSE /\ old' = FALSE /\ doomed' = FALSE

(* fs::remove_file of the path: on Windows the name lasts while the file   *)
(* is open, which the comment at lock.rs:231-235 says of the platform.     *)
RemovePath ==
    IF platform = "windows" /\ Held(path)
    THEN doomed' = TRUE /\ UNCHANGED <<path, written, dead, old>>
    ELSE NoPath

(* Closing a file gives up its advisory lock; on Windows it also completes *)
(* a deletion.                                                             *)
Unlocked(p) == [f \in Files |-> IF flock[f] = p THEN None ELSE flock[f]]

CloseCreated(p) ==
    /\ flock' = Unlocked(p)
    /\ file' = [file EXCEPT ![p] = None]
    /\ IF doomed /\ path = file[p] THEN NoPath ELSE UNCHANGED <<path, state>>

-----------------------------------------------------------------------------
(* acquire_interruptible_observed *)

Request(p) ==
    /\ pc[p] = "idle"
    /\ expired' = expired \ {p}
    /\ zero' = zero \ {p}
    /\ Goto(p, "create")
    /\ UNCHANGED <<platform, path, state, flock, file, opened, kills>>

(* create_new finds no file. *)
Create(p) ==
    /\ pc[p] = "create"
    /\ path = None
    /\ path' = CHOOSE f \in Files : \A q \in Procs : f \notin {file[q], opened[q]}
    /\ file' = [file EXCEPT ![p] = path']
    /\ Goto(p, "token")
    /\ UNCHANGED <<platform, state, flock, opened, expired, zero, kills>>

(* create_new reports AlreadyExists, or on Windows that a deletion is      *)
(* pending, which it waits out; giving up on it after                      *)
(* DELETE_PENDING_TOLERANCE is a Cancel.                                   *)
Contend(p) ==
    /\ pc[p] = "create"
    /\ path # None
    /\ Goto(p, IF doomed THEN "done" ELSE "open")
    /\ UNCHANGED <<platform, path, state, flock, file, opened,
                   expired, zero, kills>>

(* write_lock_owner: the record, then the blocking flock on Unix. *)
WriteToken(p) ==
    /\ pc[p] = "token"
    /\ written' = (written \/ path = file[p])
    /\ Goto(p, IF platform = "unix" THEN "flock" ELSE "own")
    /\ UNCHANGED <<platform, path, dead, old, doomed, flock, file, opened, expired, zero, kills>>

LockFile(p) ==
    /\ pc[p] = "flock"
    /\ flock[file[p]] = None
    /\ flock' = [flock EXCEPT ![file[p]] = p]
    /\ Goto(p, "own")
    /\ UNCHANGED <<platform, path, state, file, opened, expired, zero, kills>>

(* The record cannot be written, made durable or locked: the file is       *)
(* closed, then the path removed.                                          *)
WriteFails(p) ==
    /\ pc[p] \in {"token", "flock"}
    /\ WritesFail
    /\ CloseCreated(p)
    /\ Goto(p, "discard")
    /\ UNCHANGED <<platform, opened, expired, zero, kills>>

Discard(p) ==
    /\ pc[p] = "discard"
    /\ RemovePath
    /\ Goto(p, "idle")
    /\ UNCHANGED <<platform, flock, file, opened, expired, zero, kills>>

(* The rest of the loop after an attempt to reclaim: once patience has run *)
(* out the path is reclaimed again, now whatever its age.                  *)
Retry(p) ==
    /\ pc[p] = "done"
    /\ IF p \in expired /\ p \notin zero
       THEN zero' = zero \cup {p} /\ Goto(p, "open")
       ELSE zero' = zero \ {p} /\ Goto(p, "create")
    /\ UNCHANGED <<platform, path, state, flock, file, opened, expired, kills>>

(* The action is cancelled while it waits. *)
Cancel(p) ==
    /\ pc[p] \in {"create", "done"}
    /\ Goto(p, "idle")
    /\ UNCHANGED <<platform, path, state, flock, file, opened,
                   expired, zero, kills>>

-----------------------------------------------------------------------------
(* Drop for ScopedFileLock *)

(* The path is read: it is unlinked only if it holds the own token. *)
Release(p) ==
    /\ pc[p] = "own"
    /\ Goto(p, IF path = file[p] THEN "unlink" ELSE "close")
    /\ UNCHANGED <<platform, path, state, flock, file, opened,
                   expired, zero, kills>>

Unlink(p) ==
    /\ pc[p] = "unlink"
    /\ RemovePath
    /\ Goto(p, "close")
    /\ UNCHANGED <<platform, flock, file, opened, expired, zero, kills>>

CloseFile(p) ==
    /\ pc[p] = "close"
    /\ CloseCreated(p)
    /\ Goto(p, "idle")
    /\ UNCHANGED <<platform, opened, expired, zero, kills>>

-----------------------------------------------------------------------------
(* reclaim_stale_lock *)

(* Faulty: the file is deleted whoever has it open. *)
ReclaimShared(p) ==
    /\ pc[p] = "open"
    /\ platform = "windows"
    /\ NoPath
    /\ Goto(p, "done")
    /\ UNCHANGED <<platform, flock, file, opened, expired, zero, kills>>

(* Windows: the exclusive open fails while the file is open anywhere, and  *)
(* deletes the file it opened.                                             *)
ReclaimExclusive(p) ==
    /\ pc[p] = "open"
    /\ platform = "windows"
    /\ IF Held(path) THEN UNCHANGED <<path, state>> ELSE NoPath
    /\ Goto(p, "done")
    /\ UNCHANGED <<platform, flock, file, opened, expired, zero, kills>>

Open(p) ==
    /\ pc[p] = "open"
    /\ platform = "unix"
    /\ opened' = [opened EXCEPT ![p] = path]
    /\ Goto(p, IF path = None THEN "done" ELSE "trylock")
    /\ UNCHANGED <<platform, path, state, flock, file, expired, zero, kills>>

TryLock(p) ==
    /\ pc[p] = "trylock"
    /\ IF flock[opened[p]] = None
       THEN /\ flock' = [flock EXCEPT ![opened[p]] = p]
            /\ Goto(p, "read")
            /\ UNCHANGED opened
       ELSE /\ opened' = [opened EXCEPT ![p] = None]
            /\ Goto(p, "done")
            /\ UNCHANGED flock
    /\ UNCHANGED <<platform, path, state, file, expired, zero, kills>>

(* Faulty: the reclaimer keeps the advisory lock. *)
StopWithLock(p) ==
    /\ UNCHANGED flock
    /\ opened' = [opened EXCEPT ![p] = None]
    /\ Goto(p, "done")

StopReclaiming(p) ==
    /\ flock' = Unlocked(p)
    /\ opened' = [opened EXCEPT ![p] = None]
    /\ Goto(p, "done")

(* read_lock_owner of the path; without a record the age decides, and with *)
(* Duration::ZERO every age will do.                                       *)
ReadOwner(p) ==
    /\ pc[p] = "read"
    /\ IF written THEN Goto(p, "alive") /\ UNCHANGED <<flock, opened>>
       ELSE IF p \in zero \/ old THEN Goto(p, "aged") /\ UNCHANGED <<flock, opened>>
       ELSE StopReclaiming(p)
    /\ UNCHANGED <<platform, path, state, file, expired, zero, kills>>

(* Faulty: every recorded owner is taken to be alive. *)
CheckNobody(p) ==
    /\ pc[p] = "alive"
    /\ StopReclaiming(p)
    /\ UNCHANGED <<platform, path, state, file, expired, zero, kills>>

(* Faulty: who holds the inode lock takes any recorded owner for dead. *)
CheckLockOnly(p) ==
    /\ pc[p] = "alive"
    /\ Goto(p, "gone")
    /\ UNCHANGED <<platform, path, state, flock, file, opened, expired, zero, kills>>

(* lock_owner_is_alive reads the path once more. *)
CheckAlive(p) ==
    /\ pc[p] = "alive"
    /\ IF written /\ ~dead THEN StopReclaiming(p)
       ELSE Goto(p, "gone") /\ UNCHANGED <<flock, opened>>
    /\ UNCHANGED <<platform, path, state, file, expired, zero, kills>>

(* remove_file of the path, and the reclaimer's file is closed. *)
Remove(p) ==
    /\ pc[p] \in {"aged", "gone"}
    /\ NoPath
    /\ StopReclaiming(p)
    /\ UNCHANGED <<platform, file, expired, zero, kills>>

-----------------------------------------------------------------------------
(* The file at the path is the one p has created: p still has it open, or  *)
(* has closed it to discard it.                                            *)
LeftBehind(p) ==
    /\ path # None
    /\ \/ file[p] = path
       \/ pc[p] = "discard" /\ \A q \in Procs \ {p} : file[q] # path /\ pc[q] # "discard"

(* A process is killed: its files are closed, its record stays behind. *)
Kill(p) ==
    /\ pc[p] # "idle"
    /\ kills < MaxKills
    /\ kills' = kills + 1
    /\ flock' = Unlocked(p)
    /\ IF doomed /\ file[p] = path THEN NoPath
       ELSE dead' = (dead \/ LeftBehind(p)) /\ UNCHANGED <<path, written, old, doomed>>
    /\ file' = [file EXCEPT ![p] = None]
    /\ opened' = [opened EXCEPT ![p] = None]
    /\ Goto(p, "idle")
    /\ UNCHANGED <<platform, expired, zero>>

(* STALE_AFTER passes: the file at the path has become old, which is asked *)
(* only while it has no record; a waiter has waited that long, which is    *)
(* asked between two attempts.                                             *)
Age ==
    /\ Patience
    /\ path # None /\ ~written
    /\ old' = TRUE
    /\ UNCHANGED <<platform, path, written, dead, doomed, flock, pc, file, opened, expired, zero,
                   kills>>

Expire(p) ==
    /\ Patience
    /\ pc[p] = "done"
    /\ expired' = expired \cup {p}
    /\ UNCHANGED <<platform, path, state, flock, pc, file, opened, zero, kills>>

Acquire(p) ==
    Create(p) \/ Contend(p) \/ WriteToken(p) \/ LockFile(p) \/ Discard(p) \/ Retry(p)

Drop(p) == Release(p) \/ Unlink(p) \/ CloseFile(p)

Reclaim(p) ==
    \/ ReclaimExclusive(p) \/ Open(p) \/ TryLock(p) \/ ReadOwner(p) \/ CheckAlive(p)
    \/ Remove(p)

Next ==
    \/ Age
    \/ \E p \in Procs :
        \/ Request(p) \/ Acquire(p) \/ WriteFails(p) \/ Cancel(p) \/ Drop(p) \/ Reclaim(p)
        \/ Kill(p) \/ Expire(p)

Spec == Init /\ [][Next]_vars

(* A process that is not killed runs on, its owner releases in the end,    *)
(* time passes, and flock grants the lock to a blocked waiter.             *)
Fairness ==
    /\ WF_vars(Age)
    /\ \A p \in Procs :
        WF_vars(Acquire(p) \/ Drop(p) \/ Reclaim(p)) /\ WF_vars(Expire(p)) /\ SF_vars(LockFile(p))

LiveSpec == Spec /\ Fairness

-----------------------------------------------------------------------------
(* Processes that hold the lock: acquire has returned, Drop has not begun. *)
Owners == {p \in Procs : pc[p] = "own"}

(* Equal destinations serialize (lock.rs:3): two processes never hold the  *)
(* lock of one output, so publication and recovery exclude each other.     *)
MutualExclusion == Cardinality(Owners) <= 1

(* With the exclusive open of Windows the lock excludes, and a guard only  *)
(* ever unlinks its own file (lock.rs:4-5).                                *)
WindowsExcludes ==
    platform = "windows" =>
        MutualExclusion /\ \A p \in Procs : pc[p] = "unlink" => path = file[p]

Removing(p) == pc[p] \in {"aged", "gone"}

(* A reclaimer that unlinks the very file it has locked (lock.rs:297-299)  *)
(* never takes it from an owner, and if it has read a record there, not    *)
(* from a creator that is waiting for the inode lock either: the record's  *)
(* process is dead.  All types are kept.                                   *)
LockedOwnerSpared ==
    /\ TypeOK
    /\ \A p \in Procs : Removing(p) /\ opened[p] = path =>
        /\ \A q \in Owners : file[q] # path
        /\ pc[p] = "gone" => ~Held(path)

(* What the code says of a creator that waits for the inode lock: "the     *)
(* owner token is already visible and proves the creator is alive, so the  *)
(* reclaimer will leave the path in place" (lock.rs:287-289).  A waiter    *)
(* whose patience has run out and who has found no record in the file it   *)
(* has locked unlinks it however young it is, after the token was written. *)
VisibleOwnerKept ==
    \A p \in Procs : Removing(p) /\ opened[p] = path => ~(Held(path) /\ written /\ ~old)

Waiting(p) == pc[p] \in {"create", "open", "trylock", "read", "alive", "aged", "gone", "done"}

(* The file a killed process leaves behind, with or without its record,    *)
(* does not block those who wait for the output for ever.                  *)
StaleLocksGo ==
    \A p \in Procs, f \in Files :
        (path = f /\ dead /\ Waiting(p)) ~> (path # f \/ ~dead \/ ~Waiting(p))

(* A reclaimer holds the inode lock only briefly (lock.rs:286-287): the    *)
(* creator's flock returns, whether or not its file is still at the path.  *)
CreatorsProceed == \A p \in Procs : pc[p] = "flock" ~> pc[p] # "flock"

=============================================================================
