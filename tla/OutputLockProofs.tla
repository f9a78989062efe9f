--------------------------- MODULE OutputLockProofs ---------------------------
(***************************************************************************)
(* For any number of processes and kills, the lock of an output excludes   *)
(* on Windows, and on Unix a reclaimer never evicts the owner of the file  *)
(* it has locked.                                                          *)
(*                                                                         *)
(* On Windows the path names a file as long as it is open, so all open     *)
(* lock files are the one at the path.  On Unix the path may move on while *)
(* files are open; what an owner and a reclaimer keep is the advisory lock *)
(* of their file, and a file that has left the path never returns to it.   *)
(***************************************************************************)
EXTENDS OutputLock, FiniteSetTheorems, TLAPS

(* Which files a process has open where. *)
Opens ==
    \A p \in Procs :
        /\ file[p] # None <=> pc[p] \in {"token", "flock", "own", "unlink", "close"}
        /\ opened[p] # None <=> pc[p] \in {"trylock", "read", "alive", "aged", "gone"}

(* A lock file has one creator. *)
Created == \A p, q \in Procs : file[p] = file[q] /\ file[p] # None => p = q

(* On Windows a lock file stays at the path until it is closed, and nobody *)
(* uses the advisory lock.                                                 *)
Pinned ==
    platform = "windows" => \A p \in Procs :
        /\ pc[p] \notin {"flock", "trylock", "read", "alive", "aged", "gone"}
        /\ file[p] # None => path = file[p]

(* On Unix owners and reclaimers hold the advisory lock of their file. *)
Locks ==
    /\ platform = "unix" => \A p \in Procs : pc[p] = "own" => flock[file[p]] = p
    /\ \A p \in Procs : pc[p] \in {"read", "alive", "aged", "gone"} => flock[opened[p]] = p

(* What a reclaimer has read holds as long as its file is at the path. *)
Judged ==
    /\ dead => path # None /\ ~Held(path)
    /\ \A p \in Procs : opened[p] = path =>
        /\ pc[p] = "alive" => written
        /\ pc[p] = "gone" => ~Held(path)

IInv == TypeOK /\ Opens /\ Created /\ Pinned /\ Locks /\ Judged

-----------------------------------------------------------------------------
(* Some lock file is neither at the path nor open, so creation finds one.  *)
LEMMA FreeFile ==
    ASSUME TypeOK
    PROVE  \E f \in Files : \A q \in Procs : f \notin {file[q], opened[q]}
<1> SUFFICES ASSUME \A f \in Files : \E q \in Procs : f \in {file[q], opened[q]}
             PROVE  FALSE
  OBVIOUS
<1> DEFINE user == [f \in Files |-> CHOOSE q \in Procs : f \in {file[q], opened[q]}]
<1>1. user \in [Files -> Procs]
  OBVIOUS
<1>2. Cardinality(Procs) \in Nat
  BY ProcsAssumption, FS_CardinalityType
<1>3. IsFiniteSet(Files) /\ Cardinality(Files) = Cardinality(Procs) + 1
  BY <1>2, FS_Interval DEF Files
<1>4. Cardinality(Procs) < Cardinality(Files)
  BY <1>2, <1>3
<1>5. \A f \in Files : f \in {file[user[f]], opened[user[f]]}
  OBVIOUS
<1> HIDE DEF user
<1>6. PICK f, g \in Files : f # g /\ user[f] = user[g]
  BY <1>1, <1>3, <1>4, ProcsAssumption, FS_PigeonHole
<1>7. user[f] \in Procs /\ file[user[f]] # None /\ opened[user[f]] # None
  <2>1. None \notin Files
    BY <1>2, ProcsAssumption DEF Files
  <2> QED
    BY <1>1, <1>5, <1>6, <2>1
<1> QED
  BY <1>7 DEF TypeOK

(* No file is None. *)
LEMMA NoneIsNoFile == None \notin Files /\ None \notin Procs
<1>1. Cardinality(Procs) \in Nat
  BY ProcsAssumption, FS_CardinalityType
<1> QED
  BY <1>1, ProcsAssumption DEF Files

(* What creation makes of the path is a file nobody has open. *)
LEMMA CreateFresh ==
    ASSUME TypeOK, NEW p \in Procs, Create(p)
    PROVE  path' \in Files /\ \A q \in Procs : file[q] # path' /\ opened[q] # path'
<1>1. path' = CHOOSE f \in Files : \A q \in Procs : f \notin {file[q], opened[q]}
  BY DEF Create
<1>2. path' \in Files /\ \A q \in Procs : path' \notin {file[q], opened[q]}
  BY <1>1, FreeFile
<1> QED
  BY <1>2

(* Every step keeps the types, and where files are open. *)
LEMMA StepTypeOK ==
    ASSUME IInv, Next
    PROVE  TypeOK' /\ Opens'
<1> USE NoneIsNoFile, CreateFresh, FaultsAssumption DEF Goto, state
<1>Age. CASE Age
  BY <1>Age DEF Age, IInv, TypeOK, Opens, Locks
<1>Request. ASSUME NEW p \in Procs, Request(p) PROVE TypeOK' /\ Opens'
  BY <1>Request DEF Request, IInv, TypeOK, Opens, Locks
<1>Create. ASSUME NEW p \in Procs, Create(p) PROVE TypeOK' /\ Opens'
  BY <1>Create DEF Create, IInv, TypeOK, Opens, Locks
<1>Contend. ASSUME NEW p \in Procs, Contend(p) PROVE TypeOK' /\ Opens'
  BY <1>Contend DEF Contend, IInv, TypeOK, Opens, Locks
<1>WriteToken. ASSUME NEW p \in Procs, WriteToken(p) PROVE TypeOK' /\ Opens'
  BY <1>WriteToken DEF WriteToken, IInv, TypeOK, Opens, Locks
<1>LockFile. ASSUME NEW p \in Procs, LockFile(p) PROVE TypeOK' /\ Opens'
  BY <1>LockFile DEF LockFile, IInv, TypeOK, Opens, Locks
<1>WriteFails. ASSUME NEW p \in Procs, WriteFails(p) PROVE TypeOK' /\ Opens'
  BY <1>WriteFails DEF WriteFails, CloseCreated, Unlocked, NoPath, IInv, TypeOK, Opens, Locks
<1>Discard. ASSUME NEW p \in Procs, Discard(p) PROVE TypeOK' /\ Opens'
  BY <1>Discard DEF Discard, RemovePath, NoPath, IInv, TypeOK, Opens, Locks
<1>Retry. ASSUME NEW p \in Procs, Retry(p) PROVE TypeOK' /\ Opens'
  BY <1>Retry DEF Retry, IInv, TypeOK, Opens, Locks
<1>Cancel. ASSUME NEW p \in Procs, Cancel(p) PROVE TypeOK' /\ Opens'
  BY <1>Cancel DEF Cancel, IInv, TypeOK, Opens, Locks
<1>Release. ASSUME NEW p \in Procs, Release(p) PROVE TypeOK' /\ Opens'
  BY <1>Release DEF Release, IInv, TypeOK, Opens, Locks
<1>Unlink. ASSUME NEW p \in Procs, Unlink(p) PROVE TypeOK' /\ Opens'
  BY <1>Unlink DEF Unlink, RemovePath, NoPath, IInv, TypeOK, Opens, Locks
<1>CloseFile. ASSUME NEW p \in Procs, CloseFile(p) PROVE TypeOK' /\ Opens'
  BY <1>CloseFile DEF CloseFile, CloseCreated, Unlocked, NoPath, IInv, TypeOK, Opens, Locks
<1>ReclaimExclusive. ASSUME NEW p \in Procs, ReclaimExclusive(p) PROVE TypeOK' /\ Opens'
  BY <1>ReclaimExclusive DEF ReclaimExclusive, NoPath, IInv, TypeOK, Opens, Locks
<1>Open. ASSUME NEW p \in Procs, Open(p) PROVE TypeOK' /\ Opens'
  BY <1>Open DEF Open, IInv, TypeOK, Opens, Locks
<1>TryLock. ASSUME NEW p \in Procs, TryLock(p) PROVE TypeOK' /\ Opens'
  BY <1>TryLock DEF TryLock, IInv, TypeOK, Opens, Locks
<1>ReadOwner. ASSUME NEW p \in Procs, ReadOwner(p) PROVE TypeOK' /\ Opens'
  BY <1>ReadOwner DEF ReadOwner, StopReclaiming, Unlocked, IInv, TypeOK, Opens, Locks
<1>CheckAlive. ASSUME NEW p \in Procs, CheckAlive(p) PROVE TypeOK' /\ Opens'
  BY <1>CheckAlive DEF CheckAlive, StopReclaiming, Unlocked, IInv, TypeOK, Opens, Locks
<1>Remove. ASSUME NEW p \in Procs, Remove(p) PROVE TypeOK' /\ Opens'
  BY <1>Remove DEF Remove, NoPath, StopReclaiming, Unlocked, IInv, TypeOK, Opens, Locks
<1>Kill. ASSUME NEW p \in Procs, Kill(p) PROVE TypeOK' /\ Opens'
  <2>1. kills' \in 0 .. MaxKills
    BY <1>Kill DEF Kill, LeftBehind, IInv, TypeOK
  <2>2. /\ path' \in Files \cup {None}
        /\ written' \in BOOLEAN /\ dead' \in BOOLEAN /\ old' \in BOOLEAN /\ doomed' \in BOOLEAN
    BY <1>Kill DEF Kill, LeftBehind, NoPath, IInv, TypeOK
  <2>3. flock' \in [Files -> Procs \cup {None}]
    BY <1>Kill DEF Kill, LeftBehind, Unlocked, IInv, TypeOK
  <2> QED
    BY <1>Kill, <2>1, <2>2, <2>3 DEF Kill, IInv, TypeOK, Opens
<1>Expire. ASSUME NEW p \in Procs, Expire(p) PROVE TypeOK' /\ Opens'
  BY <1>Expire DEF Expire, IInv, TypeOK, Opens, Locks
<1> QED
  BY <1>Age, <1>Request, <1>Create, <1>Contend, <1>WriteToken, <1>LockFile, <1>WriteFails,
     <1>Discard, <1>Retry, <1>Cancel, <1>Release, <1>Unlink, <1>CloseFile, <1>ReclaimExclusive,
     <1>Open, <1>TryLock, <1>ReadOwner, <1>CheckAlive, <1>Remove, <1>Kill, <1>Expire
     DEF Next, Acquire, Drop, Reclaim

(* A lock file keeps its one creator. *)
LEMMA StepCreated ==
    ASSUME IInv, TypeOK', Next
    PROVE  Created'
<1> USE NoneIsNoFile, CreateFresh, FaultsAssumption DEF Goto, state
<1>Age. CASE Age
  BY <1>Age DEF Age, IInv, TypeOK, Created
<1>Request. ASSUME NEW p \in Procs, Request(p) PROVE Created'
  BY <1>Request DEF Request, IInv, TypeOK, Created
<1>Create. ASSUME NEW p \in Procs, Create(p) PROVE Created'
  <2>1. file' = [file EXCEPT ![p] = path']
    BY <1>Create DEF Create
  <2>2. \A q \in Procs : file[q] # path'
    BY <1>Create DEF IInv
  <2> QED
    BY <1>Create, <2>1, <2>2 DEF IInv, TypeOK, Created
<1>Contend. ASSUME NEW p \in Procs, Contend(p) PROVE Created'
  BY <1>Contend DEF Contend, IInv, TypeOK, Created
<1>WriteToken. ASSUME NEW p \in Procs, WriteToken(p) PROVE Created'
  BY <1>WriteToken DEF WriteToken, IInv, TypeOK, Created
<1>LockFile. ASSUME NEW p \in Procs, LockFile(p) PROVE Created'
  BY <1>LockFile DEF LockFile, IInv, TypeOK, Created
<1>WriteFails. ASSUME NEW p \in Procs, WriteFails(p) PROVE Created'
  BY <1>WriteFails DEF WriteFails, CloseCreated, Unlocked, NoPath, IInv, TypeOK, Created
<1>Discard. ASSUME NEW p \in Procs, Discard(p) PROVE Created'
  BY <1>Discard DEF Discard, RemovePath, NoPath, IInv, TypeOK, Created
<1>Retry. ASSUME NEW p \in Procs, Retry(p) PROVE Created'
  BY <1>Retry DEF Retry, IInv, TypeOK, Created
<1>Cancel. ASSUME NEW p \in Procs, Cancel(p) PROVE Created'
  BY <1>Cancel DEF Cancel, IInv, TypeOK, Created
<1>Release. ASSUME NEW p \in Procs, Release(p) PROVE Created'
  BY <1>Release DEF Release, IInv, TypeOK, Created
<1>Unlink. ASSUME NEW p \in Procs, Unlink(p) PROVE Created'
  BY <1>Unlink DEF Unlink, RemovePath, NoPath, IInv, TypeOK, Created
<1>CloseFile. ASSUME NEW p \in Procs, CloseFile(p) PROVE Created'
  BY <1>CloseFile DEF CloseFile, CloseCreated, Unlocked, NoPath, IInv, TypeOK, Created
<1>ReclaimExclusive. ASSUME NEW p \in Procs, ReclaimExclusive(p) PROVE Created'
  BY <1>ReclaimExclusive DEF ReclaimExclusive, NoPath, IInv, TypeOK, Created
<1>Open. ASSUME NEW p \in Procs, Open(p) PROVE Created'
  BY <1>Open DEF Open, IInv, TypeOK, Created
<1>TryLock. ASSUME NEW p \in Procs, TryLock(p) PROVE Created'
  BY <1>TryLock DEF TryLock, IInv, TypeOK, Created
<1>ReadOwner. ASSUME NEW p \in Procs, ReadOwner(p) PROVE Created'
  BY <1>ReadOwner DEF ReadOwner, StopReclaiming, Unlocked, IInv, TypeOK, Created
<1>CheckAlive. ASSUME NEW p \in Procs, CheckAlive(p) PROVE Created'
  BY <1>CheckAlive DEF CheckAlive, StopReclaiming, Unlocked, IInv, TypeOK, Created
<1>Remove. ASSUME NEW p \in Procs, Remove(p) PROVE Created'
  BY <1>Remove DEF Remove, NoPath, StopReclaiming, Unlocked, IInv, TypeOK, Created
<1>Kill. ASSUME NEW p \in Procs, Kill(p) PROVE Created'
  BY <1>Kill DEF Kill, LeftBehind, NoPath, Unlocked, IInv, TypeOK, Created
<1>Expire. ASSUME NEW p \in Procs, Expire(p) PROVE Created'
  BY <1>Expire DEF Expire, IInv, TypeOK, Created
<1> QED
  BY <1>Age, <1>Request, <1>Create, <1>Contend, <1>WriteToken, <1>LockFile, <1>WriteFails,
     <1>Discard, <1>Retry, <1>Cancel, <1>Release, <1>Unlink, <1>CloseFile, <1>ReclaimExclusive,
     <1>Open, <1>TryLock, <1>ReadOwner, <1>CheckAlive, <1>Remove, <1>Kill, <1>Expire
     DEF Next, Acquire, Drop, Reclaim

(* On Windows an open lock file stays at the path. *)
LEMMA StepPinned ==
    ASSUME IInv, TypeOK', Next
    PROVE  Pinned'
<1> USE NoneIsNoFile, CreateFresh, FaultsAssumption, PlatformsAssumption DEF Goto, state
<1>Age. CASE Age
  BY <1>Age DEF Age, IInv, TypeOK, Pinned, Created, Opens, Held
<1>Request. ASSUME NEW p \in Procs, Request(p) PROVE Pinned'
  BY <1>Request DEF Request, IInv, TypeOK, Pinned, Created, Opens, Held
<1>Create. ASSUME NEW p \in Procs, Create(p) PROVE Pinned'
  BY <1>Create DEF Create, IInv, TypeOK, Pinned, Created, Opens, Held
<1>Contend. ASSUME NEW p \in Procs, Contend(p) PROVE Pinned'
  BY <1>Contend DEF Contend, IInv, TypeOK, Pinned, Created, Opens, Held
<1>WriteToken. ASSUME NEW p \in Procs, WriteToken(p) PROVE Pinned'
  BY <1>WriteToken DEF WriteToken, IInv, TypeOK, Pinned, Created, Opens, Held
<1>LockFile. ASSUME NEW p \in Procs, LockFile(p) PROVE Pinned'
  BY <1>LockFile DEF LockFile, IInv, TypeOK, Pinned, Created, Opens, Held
<1>WriteFails. ASSUME NEW p \in Procs, WriteFails(p) PROVE Pinned'
  BY <1>WriteFails DEF WriteFails, CloseCreated, Unlocked, NoPath, IInv, TypeOK, Pinned,
         Created, Opens, Held
<1>Discard. ASSUME NEW p \in Procs, Discard(p) PROVE Pinned'
  BY <1>Discard DEF Discard, RemovePath, NoPath, IInv, TypeOK, Pinned, Created, Opens, Held
<1>Retry. ASSUME NEW p \in Procs, Retry(p) PROVE Pinned'
  BY <1>Retry DEF Retry, IInv, TypeOK, Pinned, Created, Opens, Held
<1>Cancel. ASSUME NEW p \in Procs, Cancel(p) PROVE Pinned'
  BY <1>Cancel DEF Cancel, IInv, TypeOK, Pinned, Created, Opens, Held
<1>Release. ASSUME NEW p \in Procs, Release(p) PROVE Pinned'
  BY <1>Release DEF Release, IInv, TypeOK, Pinned, Created, Opens, Held
<1>Unlink. ASSUME NEW p \in Procs, Unlink(p) PROVE Pinned'
  BY <1>Unlink DEF Unlink, RemovePath, NoPath, IInv, TypeOK, Pinned, Created, Opens, Held
<1>CloseFile. ASSUME NEW p \in Procs, CloseFile(p) PROVE Pinned'
  BY <1>CloseFile DEF CloseFile, CloseCreated, Unlocked, NoPath, IInv, TypeOK, Pinned, Created,
         Opens, Held
<1>ReclaimExclusive. ASSUME NEW p \in Procs, ReclaimExclusive(p) PROVE Pinned'
  BY <1>ReclaimExclusive DEF ReclaimExclusive, NoPath, IInv, TypeOK, Pinned, Created, Opens, Held
<1>Open. ASSUME NEW p \in Procs, Open(p) PROVE Pinned'
  BY <1>Open DEF Open, IInv, TypeOK, Pinned, Created, Opens, Held
<1>TryLock. ASSUME NEW p \in Procs, TryLock(p) PROVE Pinned'
  BY <1>TryLock DEF TryLock, IInv, TypeOK, Pinned, Created, Opens, Held
<1>ReadOwner. ASSUME NEW p \in Procs, ReadOwner(p) PROVE Pinned'
  BY <1>ReadOwner DEF ReadOwner, StopReclaiming, Unlocked, IInv, TypeOK, Pinned, Created, Opens,
         Held
<1>CheckAlive. ASSUME NEW p \in Procs, CheckAlive(p) PROVE Pinned'
  BY <1>CheckAlive DEF CheckAlive, StopReclaiming, Unlocked, IInv, TypeOK, Pinned, Created,
         Opens, Held
<1>Remove. ASSUME NEW p \in Procs, Remove(p) PROVE Pinned'
  BY <1>Remove DEF Remove, NoPath, StopReclaiming, Unlocked, IInv, TypeOK, Pinned, Created,
         Opens, Held
<1>Kill. ASSUME NEW p \in Procs, Kill(p) PROVE Pinned'
  BY <1>Kill DEF Kill, LeftBehind, NoPath, Unlocked, IInv, TypeOK, Pinned, Created, Opens, Held
<1>Expire. ASSUME NEW p \in Procs, Expire(p) PROVE Pinned'
  BY <1>Expire DEF Expire, IInv, TypeOK, Pinned, Created, Opens, Held
<1> QED
  BY <1>Age, <1>Request, <1>Create, <1>Contend, <1>WriteToken, <1>LockFile, <1>WriteFails,
     <1>Discard, <1>Retry, <1>Cancel, <1>Release, <1>Unlink, <1>CloseFile, <1>ReclaimExclusive,
     <1>Open, <1>TryLock, <1>ReadOwner, <1>CheckAlive, <1>Remove, <1>Kill, <1>Expire
     DEF Next, Acquire, Drop, Reclaim

(* Owners and reclaimers keep the advisory lock of their file. *)
LEMMA StepLocks ==
    ASSUME IInv, TypeOK', Next
    PROVE  Locks'
<1> USE NoneIsNoFile, CreateFresh, FaultsAssumption, PlatformsAssumption DEF Goto, state
<1>Age. CASE Age
  BY <1>Age DEF Age, IInv, TypeOK, Locks, Opens
<1>Request. ASSUME NEW p \in Procs, Request(p) PROVE Locks'
  BY <1>Request DEF Request, IInv, TypeOK, Locks, Opens
<1>Create. ASSUME NEW p \in Procs, Create(p) PROVE Locks'
  BY <1>Create DEF Create, IInv, TypeOK, Locks, Opens
<1>Contend. ASSUME NEW p \in Procs, Contend(p) PROVE Locks'
  BY <1>Contend DEF Contend, IInv, TypeOK, Locks, Opens
<1>WriteToken. ASSUME NEW p \in Procs, WriteToken(p) PROVE Locks'
  BY <1>WriteToken DEF WriteToken, IInv, TypeOK, Locks, Opens
<1>LockFile. ASSUME NEW p \in Procs, LockFile(p) PROVE Locks'
  BY <1>LockFile DEF LockFile, IInv, TypeOK, Locks, Opens
<1>WriteFails. ASSUME NEW p \in Procs, WriteFails(p) PROVE Locks'
  BY <1>WriteFails DEF WriteFails, CloseCreated, Unlocked, NoPath, IInv, TypeOK, Locks, Opens
<1>Discard. ASSUME NEW p \in Procs, Discard(p) PROVE Locks'
  BY <1>Discard DEF Discard, RemovePath, NoPath, IInv, TypeOK, Locks, Opens
<1>Retry. ASSUME NEW p \in Procs, Retry(p) PROVE Locks'
  BY <1>Retry DEF Retry, IInv, TypeOK, Locks, Opens
<1>Cancel. ASSUME NEW p \in Procs, Cancel(p) PROVE Locks'
  BY <1>Cancel DEF Cancel, IInv, TypeOK, Locks, Opens
<1>Release. ASSUME NEW p \in Procs, Release(p) PROVE Locks'
  BY <1>Release DEF Release, IInv, TypeOK, Locks, Opens
<1>Unlink. ASSUME NEW p \in Procs, Unlink(p) PROVE Locks'
  BY <1>Unlink DEF Unlink, RemovePath, NoPath, IInv, TypeOK, Locks, Opens
<1>CloseFile. ASSUME NEW p \in Procs, CloseFile(p) PROVE Locks'
  BY <1>CloseFile DEF CloseFile, CloseCreated, Unlocked, NoPath, IInv, TypeOK, Locks, Opens
<1>ReclaimExclusive. ASSUME NEW p \in Procs, ReclaimExclusive(p) PROVE Locks'
  BY <1>ReclaimExclusive DEF ReclaimExclusive, NoPath, IInv, TypeOK, Locks, Opens
<1>Open. ASSUME NEW p \in Procs, Open(p) PROVE Locks'
  BY <1>Open DEF Open, IInv, TypeOK, Locks, Opens
<1>TryLock. ASSUME NEW p \in Procs, TryLock(p) PROVE Locks'
  BY <1>TryLock DEF TryLock, IInv, TypeOK, Locks, Opens
<1>ReadOwner. ASSUME NEW p \in Procs, ReadOwner(p) PROVE Locks'
  BY <1>ReadOwner DEF ReadOwner, StopReclaiming, Unlocked, IInv, TypeOK, Locks, Opens
<1>CheckAlive. ASSUME NEW p \in Procs, CheckAlive(p) PROVE Locks'
  BY <1>CheckAlive DEF CheckAlive, StopReclaiming, Unlocked, IInv, TypeOK, Locks, Opens
<1>Remove. ASSUME NEW p \in Procs, Remove(p) PROVE Locks'
  BY <1>Remove DEF Remove, NoPath, StopReclaiming, Unlocked, IInv, TypeOK, Locks, Opens
<1>Kill. ASSUME NEW p \in Procs, Kill(p) PROVE Locks'
  BY <1>Kill DEF Kill, LeftBehind, NoPath, Unlocked, IInv, TypeOK, Locks, Opens
<1>Expire. ASSUME NEW p \in Procs, Expire(p) PROVE Locks'
  BY <1>Expire DEF Expire, IInv, TypeOK, Locks, Opens
<1> QED
  BY <1>Age, <1>Request, <1>Create, <1>Contend, <1>WriteToken, <1>LockFile, <1>WriteFails,
     <1>Discard, <1>Retry, <1>Cancel, <1>Release, <1>Unlink, <1>CloseFile, <1>ReclaimExclusive,
     <1>Open, <1>TryLock, <1>ReadOwner, <1>CheckAlive, <1>Remove, <1>Kill, <1>Expire
     DEF Next, Acquire, Drop, Reclaim

(* What a reclaimer has read stays true of its file. *)
LEMMA StepJudged ==
    ASSUME IInv, TypeOK', Next
    PROVE  Judged'
<1> USE NoneIsNoFile, CreateFresh, FaultsAssumption, PlatformsAssumption DEF Goto, state
<1>Age. CASE Age
  BY <1>Age DEF Age, IInv, TypeOK, Judged, Created, Opens, Held
<1>Request. ASSUME NEW p \in Procs, Request(p) PROVE Judged'
  BY <1>Request DEF Request, IInv, TypeOK, Judged, Created, Opens, Held
<1>Create. ASSUME NEW p \in Procs, Create(p) PROVE Judged'
  <2>1. path' \in Files /\ \A q \in Procs : opened[q] # path'
    BY <1>Create DEF IInv
  <2>2. ~dead
    BY <1>Create DEF Create, IInv, Judged
  <2> QED
    BY <1>Create, <2>1, <2>2 DEF Create, Judged
<1>Contend. ASSUME NEW p \in Procs, Contend(p) PROVE Judged'
  BY <1>Contend DEF Contend, IInv, TypeOK, Judged, Created, Opens, Held
<1>WriteToken. ASSUME NEW p \in Procs, WriteToken(p) PROVE Judged'
  BY <1>WriteToken DEF WriteToken, IInv, TypeOK, Judged, Created, Opens, Held
<1>LockFile. ASSUME NEW p \in Procs, LockFile(p) PROVE Judged'
  BY <1>LockFile DEF LockFile, IInv, TypeOK, Judged, Created, Opens, Held
<1>WriteFails. ASSUME NEW p \in Procs, WriteFails(p) PROVE Judged'
  BY <1>WriteFails DEF WriteFails, CloseCreated, Unlocked, NoPath, IInv, TypeOK, Judged,
         Created, Opens, Held
<1>Discard. ASSUME NEW p \in Procs, Discard(p) PROVE Judged'
  BY <1>Discard DEF Discard, RemovePath, NoPath, IInv, TypeOK, Judged, Created, Opens, Held
<1>Retry. ASSUME NEW p \in Procs, Retry(p) PROVE Judged'
  BY <1>Retry DEF Retry, IInv, TypeOK, Judged, Created, Opens, Held
<1>Cancel. ASSUME NEW p \in Procs, Cancel(p) PROVE Judged'
  BY <1>Cancel DEF Cancel, IInv, TypeOK, Judged, Created, Opens, Held
<1>Release. ASSUME NEW p \in Procs, Release(p) PROVE Judged'
  BY <1>Release DEF Release, IInv, TypeOK, Judged, Created, Opens, Held
<1>Unlink. ASSUME NEW p \in Procs, Unlink(p) PROVE Judged'
  BY <1>Unlink DEF Unlink, RemovePath, NoPath, IInv, TypeOK, Judged, Created, Opens, Held
<1>CloseFile. ASSUME NEW p \in Procs, CloseFile(p) PROVE Judged'
  BY <1>CloseFile DEF CloseFile, CloseCreated, Unlocked, NoPath, IInv, TypeOK, Judged, Created,
         Opens, Held
<1>ReclaimExclusive. ASSUME NEW p \in Procs, ReclaimExclusive(p) PROVE Judged'
  BY <1>ReclaimExclusive DEF ReclaimExclusive, NoPath, IInv, TypeOK, Judged, Created, Opens, Held
<1>Open. ASSUME NEW p \in Procs, Open(p) PROVE Judged'
  BY <1>Open DEF Open, IInv, TypeOK, Judged, Created, Opens, Held
<1>TryLock. ASSUME NEW p \in Procs, TryLock(p) PROVE Judged'
  BY <1>TryLock DEF TryLock, IInv, TypeOK, Judged, Created, Opens, Held
<1>ReadOwner. ASSUME NEW p \in Procs, ReadOwner(p) PROVE Judged'
  BY <1>ReadOwner DEF ReadOwner, StopReclaiming, Unlocked, IInv, TypeOK, Judged, Created, Opens,
         Held
<1>CheckAlive. ASSUME NEW p \in Procs, CheckAlive(p) PROVE Judged'
  BY <1>CheckAlive DEF CheckAlive, StopReclaiming, Unlocked, IInv, TypeOK, Judged, Created,
         Opens, Held
<1>Remove. ASSUME NEW p \in Procs, Remove(p) PROVE Judged'
  BY <1>Remove DEF Remove, NoPath, StopReclaiming, Unlocked, IInv, TypeOK, Judged, Created,
         Opens, Held
<1>Kill. ASSUME NEW p \in Procs, Kill(p) PROVE Judged'
  BY <1>Kill DEF Kill, LeftBehind, NoPath, Unlocked, IInv, TypeOK, Judged, Created, Opens, Held
<1>Expire. ASSUME NEW p \in Procs, Expire(p) PROVE Judged'
  BY <1>Expire DEF Expire, IInv, TypeOK, Judged, Created, Opens, Held
<1> QED
  BY <1>Age, <1>Request, <1>Create, <1>Contend, <1>WriteToken, <1>LockFile, <1>WriteFails,
     <1>Discard, <1>Retry, <1>Cancel, <1>Release, <1>Unlink, <1>CloseFile, <1>ReclaimExclusive,
     <1>Open, <1>TryLock, <1>ReadOwner, <1>CheckAlive, <1>Remove, <1>Kill, <1>Expire
     DEF Next, Acquire, Drop, Reclaim

-----------------------------------------------------------------------------
(* The invariant holds in every reachable state. *)
THEOREM Invariant == Spec => []IInv
<1>1. Init => IInv
  <2> SUFFICES ASSUME Init PROVE IInv
    OBVIOUS
  <2>1. TypeOK
    <3>1. kills \in 0 .. MaxKills
      BY FaultsAssumption DEF Init
    <3>2. /\ flock \in [Files -> Procs \cup {None}]
          /\ file \in [Procs -> Files \cup {None}] /\ opened \in [Procs -> Files \cup {None}]
          /\ \A p \in Procs : file[p] = None \/ opened[p] = None
      BY DEF Init
    <3> QED
      BY <3>1, <3>2 DEF Init, TypeOK
  <2>2. Opens /\ Created /\ Pinned /\ Locks /\ Judged
    BY DEF Init, Opens, Created, Pinned, Locks, Judged
  <2> QED
    BY <2>1, <2>2 DEF IInv
<1>2. IInv /\ [Next]_vars => IInv'
  <2> SUFFICES ASSUME IInv, [Next]_vars PROVE IInv'
    OBVIOUS
  <2>1. CASE Next
    <3>1. TypeOK' /\ Opens'
      BY <2>1, StepTypeOK
    <3>2. Created' /\ Pinned' /\ Locks' /\ Judged'
      BY <2>1, <3>1, StepCreated, StepPinned, StepLocks, StepJudged
    <3> QED
      BY <3>1, <3>2 DEF IInv
  <2>2. CASE UNCHANGED vars
    BY <2>2 DEF vars, state, IInv, TypeOK, Opens, Created, Pinned, Locks, Judged, Held
  <2> QED
    BY <2>1, <2>2
<1> QED
  BY <1>1, <1>2, PTL DEF Spec

(* On Windows two processes never hold the lock of one output, and a guard *)
(* only unlinks its own file.                                              *)
THEOREM ExcludesOnWindows == Spec => []WindowsExcludes
<1>1. IInv => WindowsExcludes
  <2> SUFFICES ASSUME IInv, platform = "windows"
               PROVE  MutualExclusion /\ \A p \in Procs : pc[p] = "unlink" => path = file[p]
    BY DEF WindowsExcludes
  <2>1. \A p \in Procs : pc[p] = "unlink" => path = file[p]
    BY DEF IInv, Opens, Pinned
  <2>2. \A p, q \in Owners : p = q
    BY DEF IInv, Owners, Opens, Pinned, Created
  <2>3. ASSUME Owners = {} PROVE MutualExclusion
    <3>1. Cardinality(Owners) = 0
      BY <2>3, FS_EmptySet
    <3> QED
      BY <3>1 DEF MutualExclusion
  <2>4. ASSUME NEW p \in Owners PROVE MutualExclusion
    <3>1. Owners = {p}
      BY <2>2, <2>4
    <3>2. Cardinality(Owners) = 1
      BY <3>1, FS_Singleton
    <3> QED
      BY <3>2 DEF MutualExclusion
  <2> QED
    BY <2>1, <2>3, <2>4
<1> QED
  BY <1>1, Invariant, PTL

(* A reclaimer about to unlink the file it has locked takes it from no     *)
(* owner, and if it has read a record there, from no waiting creator.      *)
THEOREM SparesLockedOwner == Spec => []LockedOwnerSpared
<1>1. IInv => LockedOwnerSpared
  <2> SUFFICES ASSUME IInv, NEW p \in Procs, Removing(p), opened[p] = path
               PROVE  /\ \A q \in Owners : file[q] # path
                      /\ pc[p] = "gone" => ~Held(path)
    BY DEF LockedOwnerSpared, IInv
  <2>1. pc[p] = "gone" => ~Held(path)
    BY DEF IInv, Judged
  <2>2. platform = "unix" /\ flock[path] = p /\ path # None
    BY PlatformsAssumption DEF Removing, IInv, TypeOK, Pinned, Locks, Opens
  <2>3. ASSUME NEW q \in Owners, file[q] = path PROVE FALSE
    <3>1. q \in Procs /\ pc[q] = "own" /\ flock[file[q]] = q
      BY <2>2 DEF Owners, IInv, Locks
    <3> QED
      BY <2>2, <2>3, <3>1 DEF Removing
  <2> QED
    BY <2>1, <2>3
<1> QED
  BY <1>1, Invariant, PTL
=============================================================================
