----------------------- MODULE OutputPublicationProofs -----------------------
(***************************************************************************)
(* For any number of build processes, outputs, transactions and kills,     *)
(* publication and recovery implement the atomic replacement of            *)
(* OutputStore, and recovery refuses a journal only for the reasons that   *)
(* RejectsOnlyTorn names.                                                  *)
(*                                                                         *)
(* The disk is changed by the process that holds the locks only, apart     *)
(* from the removal of a dead process's temporary journal; so the          *)
(* invariant says, for each place where a process holds them, how far the  *)
(* disk has come, and of every other transaction that recovery can still   *)
(* put its outputs back.                                                   *)
(***************************************************************************)
EXTENDS OutputPublication, FiniteSetTheorems, TLAPS

(* Transactions are numbered in the order they begin, and one that has not *)
(* begun has left nothing on the disk.                                     *)
Numbered ==
    /\ \A p \in Procs :
        /\ todo[p] \subseteq 1 .. begun
        /\ unseen[p] \subseteq 1 .. begun
        /\ txn[p] # None => txn[p] <= begun
        /\ pc[p] = "stage" => begun < MaxTxn
    /\ \A t \in Txns : t > begun =>
        /\ stage[t] = "none" /\ journal[t] = "none" /\ prepared[t] = None
        /\ \A o \in Outputs : backup[t][o] = Absent

(* A journal without its header is being removed, or its removal was cut   *)
(* off; and nobody else knows a transaction whose journal is not there yet.*)
HeadersKept ==
    /\ \A t \in Txns : journal[t] # "none" /\ t \notin header =>
        t \in torn \/ \E p \in Procs : pc[p] = "retire" /\ txn[p] = t
    /\ \A p \in Procs : pc[p] = "rename" => txn[p] \in header
    /\ \A p \in Procs : pc[p] = "create" =>
        /\ journal[txn[p]] = "none"
        /\ \A q \in Procs : txn[p] \notin todo[q] \cup unseen[q] /\ (q # p => txn[q] # txn[p])

(* A journal is renamed once, and no listed name comes back. *)
Named ==
    /\ \A p \in Procs : pc[p] = "rename" => journal[txn[p]] = "tmp"
    /\ \A p \in Procs : \A t \in unseen[p] \ temps[p] : journal[t] # "tmp"

(* An entry that is no longer there under the name the scan has listed. *)
Vanished(p, t) == t \in unseen[p] /\ journal[t] # ListedAs(p, t)

(* A refused journal has lost its header or its listed name, or its        *)
(* transaction was torn.                                                   *)
Refused ==
    \A p \in Procs : pc[p] = "rejected" =>
        \/ txn[p] \in torn \/ overlapped
        \/ txn[p] \notin header
        \/ Vanished(p, txn[p])

(* Before a transaction is prepared it has moved nothing. *)
Staging ==
    \A p \in Procs : pc[p] \in {"create", "rename", "produce", "prepare"} =>
        /\ stage[txn[p]] = "staged" /\ prepared[txn[p]] = None
        /\ \A o \in Outputs :
            /\ backup[txn[p]][o] = Absent
            /\ pc[p] = "prepare" => temp[txn[p]][o] = txn[p]

(* What a publisher remembers of its moves is what it has done. *)
Moved(p, t, o) ==
    /\ IF o \in backed_up[p] THEN o \in prepared[t] /\ Exists(backup[t][o])
       ELSE backup[t][o] = Absent
    /\ IF o \in installed[p]
       THEN dest[o] = t /\ temp[t][o] = Absent /\ (o \in prepared[t] => o \in backed_up[p])
       ELSE temp[t][o] = t /\ (Exists(dest[o]) <=> o \in prepared[t] \ backed_up[p])

Installing ==
    \A p \in Procs : pc[p] \in {"install", "rollback"} =>
        Pending(txn[p]) /\ \A o \in Outputs : Moved(p, txn[p], o)

(* An output is as it was before the transaction. *)
PutBack(t, o) == backup[t][o] = Absent /\ (Exists(dest[o]) <=> o \in prepared[t])

(* Recovery goes through the outputs, and a prepared transaction is        *)
(* cleaned up only when all of them are back.                              *)
Restoring ==
    \A p \in Procs :
        /\ pc[p] = "undo" =>
            Pending(txn[p]) /\ \A o \in Outputs \ left[p] : PutBack(txn[p], o)
        /\ pc[p] = "clean" /\ Pending(txn[p]) => \A o \in Outputs : PutBack(txn[p], o)
        /\ pc[p] = "retire" => stage[txn[p]] = "none"

(* Only outputs that existed have a backup, and without overlap there is   *)
(* one prepared transaction at most.                                       *)
SinglePending ==
    /\ \A t \in Txns : Pending(t) =>
        \A o \in Outputs : o \notin prepared[t] => backup[t][o] = Absent
    /\ ~overlapped => \A t, u \in Txns : Pending(t) /\ Pending(u) => t = u

(* Recovery finds the old and the new version of an output. *)
Locatable(t, o) ==
    IF o \in prepared[t]
    THEN IF Exists(backup[t][o]) THEN Exists(temp[t][o]) \/ Exists(dest[o])
         ELSE Exists(temp[t][o]) /\ Exists(dest[o])
    ELSE Exists(temp[t][o]) # Exists(dest[o])

(* Recovery can place every output of a prepared transaction, unless its   *)
(* clean-up has begun.                                                     *)
Recoverable ==
    ~overlapped => \A t \in Txns :
        Pending(t) /\ t \notin torn /\ (\A p \in Procs : pc[p] = "clean" => txn[p] # t) =>
            \A o \in Outputs : Locatable(t, o)

IInv ==
    /\ TypeOK /\ Numbered /\ HeadersKept /\ Named /\ Refused /\ Staging /\ Installing
    /\ Restoring /\ SinglePending /\ Recoverable

-----------------------------------------------------------------------------
(* A set of naturals that is not empty has a least element. *)
LEMMA LeastElement ==
    ASSUME NEW S \in SUBSET Nat, S # {}
    PROVE  Min(S) \in S
<1>1. PICK x \in S : \A y \in S : <<y, x>> \notin OpToRel(<, Nat)
  BY NatLessThanWellFounded, WFMin
<1>2. \A y \in S : ~(y < x)
  BY <1>1 DEF OpToRel
<1>3. \A y \in S : x =< y
  BY <1>2
<1> QED
  BY <1>3 DEF Min

(* If it is finite, it has a greatest one. *)
LEMMA GreatestElement ==
    ASSUME NEW S \in SUBSET Nat, IsFiniteSet(S), S # {}
    PROVE  Max(S) \in S
<1> DEFINE Up(x) == {y \in S : y >= x}
           C     == {U \in SUBSET S : \E x \in S : U = Up(x)}
<1>1. C \subseteq FiniteSubsetsOf(S) /\ C # {}
  <2>1. FiniteSubsetsOf(S) = SUBSET S
    BY FS_FiniteSubsetsOfFinite
  <2>2. PICK x \in S : TRUE
    OBVIOUS
  <2>3. Up(x) \in C
    BY <2>2
  <2> QED
    BY <2>1, <2>3
<1>2. PICK U \in C : \A V \in C : <<V, U>> \notin StrictSubsetOrdering(S)
  <2> HIDE DEF C
  <2> QED
    BY <1>1, FS_StrictSubsetOrderingWellFounded, WFMin
<1>3. PICK x \in S : U = Up(x)
  BY <1>2
<1>4. ASSUME NEW y \in S, ~(x >= y) PROVE FALSE
  <2>1. x \in Nat /\ y \in Nat /\ y > x
    BY <1>4, <1>3
  <2>2. \A z \in Up(y) : z \in Up(x)
    BY <2>1
  <2>3. x \in Up(x) /\ x \notin Up(y) /\ Up(y) \in C
    BY <2>1, <1>3
  <2>4. Up(y) \subseteq U /\ Up(y) # U /\ Up(y) \in SUBSET S /\ U \in SUBSET S
    BY <2>2, <2>3, <1>3
  <2>5. <<Up(y), U>> \in StrictSubsetOrdering(S)
    <3> HIDE DEF Up
    <3> QED
      BY <2>4 DEF StrictSubsetOrdering
  <2> QED
    BY <2>3, <2>5, <1>2
<1> QED
  BY <1>4 DEF Max

(* The positions that installation, rollback and recovery work on are      *)
(* outputs.                                                                *)
LEMMA PositionsAreOutputs ==
    ASSUME TypeOK, NEW p \in Procs
    PROVE  /\ installed[p] # Outputs => Position(p) \in Outputs \ installed[p]
           /\ installed[p] \cup backed_up[p] # {} =>
                Max(installed[p] \cup backed_up[p]) \in installed[p] \cup backed_up[p]
           /\ left[p] # {} => Max(left[p]) \in left[p]
<1>1. /\ installed[p] \subseteq Outputs /\ backed_up[p] \subseteq Outputs
      /\ left[p] \subseteq Outputs
  BY DEF TypeOK
<1>2. ASSUME NEW S \in SUBSET Outputs, S # {}
      PROVE  Min(S) \in S /\ Max(S) \in S
  BY <1>2, OutputsAssumption, FS_Subset, LeastElement, GreatestElement
<1> QED
  BY <1>1, <1>2 DEF Position

(* Two processes never hold the locks at once. *)
LEMMA Exclusive ==
    ASSUME TypeOK, NEW p \in Procs, NEW q \in Procs, pc[p] \in Locked, pc[q] \in Locked
    PROVE  p = q
  BY DEF TypeOK

(* A process that is past its journal's header has a transaction. *)
LEMMA HasTxn ==
    ASSUME TypeOK, NEW p \in Procs, pc[p] \notin {"idle", "recover", "ready", "stage"}
    PROVE  txn[p] \in Txns
  BY DEF TypeOK

-----------------------------------------------------------------------------
(* The four moves of a file: a destination is set aside or gets the new    *)
(* version, the new version is withdrawn, the old one restored.            *)
SetAside(t, o) ==
    /\ backup' = [backup EXCEPT ![t][o] = dest[o]]
    /\ dest' = [dest EXCEPT ![o] = Absent]
    /\ UNCHANGED temp

PutInPlace(t, o) ==
    /\ dest' = [dest EXCEPT ![o] = temp[t][o]]
    /\ temp' = [temp EXCEPT ![t][o] = Absent]
    /\ UNCHANGED backup

Withdraw(t, o) ==
    /\ temp' = [temp EXCEPT ![t][o] = dest[o]]
    /\ dest' = [dest EXCEPT ![o] = Absent]
    /\ UNCHANGED backup

Restore(t, o) ==
    /\ dest' = [dest EXCEPT ![o] = backup[t][o]]
    /\ backup' = [backup EXCEPT ![t][o] = Absent]
    /\ UNCHANGED temp

(* They concern one output of one transaction. *)
LEMMA Moves ==
    ASSUME TypeOK, NEW t \in Txns, NEW o \in Outputs,
           SetAside(t, o) \/ PutInPlace(t, o) \/ Withdraw(t, o) \/ Restore(t, o)
    PROVE  /\ dest' \in [Outputs -> Contents]
           /\ temp' \in [Txns -> [Outputs -> Contents]]
           /\ backup' \in [Txns -> [Outputs -> Contents]]
           /\ \A x \in Outputs \ {o} : dest'[x] = dest[x]
           /\ \A u \in Txns \ {t} : temp'[u] = temp[u] /\ backup'[u] = backup[u]
           /\ \A x \in Outputs \ {o} : temp'[t][x] = temp[t][x] /\ backup'[t][x] = backup[t][x]
           /\ SetAside(t, o) =>
                /\ dest'[o] = Absent /\ temp'[t][o] = temp[t][o]
                /\ backup'[t][o] = dest[o]
           /\ PutInPlace(t, o) =>
                /\ dest'[o] = temp[t][o] /\ temp'[t][o] = Absent
                /\ backup'[t][o] = backup[t][o]
           /\ Withdraw(t, o) =>
                /\ dest'[o] = Absent /\ temp'[t][o] = dest[o]
                /\ backup'[t][o] = backup[t][o]
           /\ Restore(t, o) =>
                /\ dest'[o] = backup[t][o] /\ temp'[t][o] = temp[t][o]
                /\ backup'[t][o] = Absent
<1>1. CASE SetAside(t, o)
  BY <1>1 DEF SetAside, PutInPlace, Withdraw, Restore, TypeOK, Contents
<1>2. CASE PutInPlace(t, o)
  BY <1>2 DEF SetAside, PutInPlace, Withdraw, Restore, TypeOK, Contents
<1>3. CASE Withdraw(t, o)
  BY <1>3 DEF SetAside, PutInPlace, Withdraw, Restore, TypeOK, Contents
<1>4. CASE Restore(t, o)
  BY <1>4 DEF SetAside, PutInPlace, Withdraw, Restore, TypeOK, Contents
<1> QED
  BY <1>1, <1>2, <1>3, <1>4

(* Writing what is there changes nothing. *)
LEMMA SameFile ==
    ASSUME NEW f \in [Txns -> [Outputs -> Contents]], NEW t \in Txns, NEW o \in Outputs
    PROVE  [f EXCEPT ![t][o] = f[t][o]] = f
<1>1. [f[t] EXCEPT ![o] = f[t][o]] = f[t]
  OBVIOUS
<1> QED
  BY <1>1

(* What one step of recovery does to the output it has come to. *)
LEMMA UndoCases ==
    ASSUME TypeOK, NEW p \in Procs, Undo(p)
    PROVE  /\ pc[p] = "undo" /\ txn[p] \in Txns
           /\ UNCHANGED <<stage, journal, header, prepared, begun, backed_up, installed, scan, ghosts>>
           /\ \E o \in left[p] :
                \/ /\ ~Undoable(txn[p], o) /\ Reject(p)
                   /\ UNCHANGED <<dest, temp, backup, left>>
                \/ /\ Undoable(txn[p], o) /\ UNCHANGED <<lock, pc, txn, todo>>
                   /\ o \in prepared[txn[p]] /\ Exists(backup[txn[p]][o]) /\ Exists(dest[o])
                   /\ Withdraw(txn[p], o) /\ UNCHANGED left
                \/ /\ Undoable(txn[p], o) /\ UNCHANGED <<lock, pc, txn, todo>>
                   /\ left' = [left EXCEPT ![p] = @ \ {o}]
                   /\ \/ /\ o \notin prepared[txn[p]] /\ ~Exists(temp[txn[p]][o])
                         /\ Exists(dest[o]) /\ Withdraw(txn[p], o)
                      \/ /\ o \in prepared[txn[p]] /\ Exists(backup[txn[p]][o])
                         /\ ~Exists(dest[o]) /\ Restore(txn[p], o)
                      \/ /\ IF o \in prepared[txn[p]] THEN ~Exists(backup[txn[p]][o])
                            ELSE Exists(temp[txn[p]][o]) \/ ~Exists(dest[o])
                         /\ UNCHANGED <<dest, temp, backup>>
<1> DEFINE o == Max(left[p])
           t == txn[p]
           retire  == Exists(dest[o]) /\ IF o \in prepared[t] THEN Exists(backup[t][o])
                                         ELSE ~Exists(temp[t][o])
           restore == Exists(backup[t][o]) /\ ~Exists(dest[o]) /\ o \in prepared[t]
<1>1. pc[p] = "undo" /\ left[p] # {}
  BY DEF Undo
<1>2. o \in left[p] /\ o \in Outputs
  BY <1>1, PositionsAreOutputs DEF TypeOK
<1>3. t \in Txns
  BY <1>1, HasTxn
<1>4. /\ UNCHANGED <<stage, journal, header, prepared, begun, backed_up, installed, scan, ghosts>>
      /\ IF ~Undoable(t, o) THEN Reject(p) /\ UNCHANGED <<dest, temp, backup, left>>
         ELSE /\ dest' = [dest EXCEPT ![o] = IF retire THEN Absent
                                             ELSE IF restore THEN backup[t][o] ELSE @]
              /\ temp' = [temp EXCEPT ![t][o] = IF retire THEN dest[o] ELSE @]
              /\ backup' = [backup EXCEPT ![t][o] = IF restore THEN Absent ELSE @]
              /\ left' = [left EXCEPT ![p] = IF retire /\ o \in prepared[t] THEN @ ELSE @ \ {o}]
              /\ UNCHANGED <<lock, pc, txn, todo>>
  BY DEF Undo
<1> HIDE DEF o, t
<1>5. CASE ~Undoable(t, o)
  BY <1>1, <1>2, <1>3, <1>4, <1>5 DEF o, t
<1>6. ASSUME Undoable(t, o), retire
      PROVE  Withdraw(t, o) /\ (o \in prepared[t] => UNCHANGED left)
  BY <1>2, <1>3, <1>4, <1>6 DEF Withdraw, TypeOK
<1>t. ASSUME Undoable(t, o), ~retire PROVE temp' = temp
  <2>1. temp' = [temp EXCEPT ![t][o] = temp[t][o]]
    BY <1>4, <1>t
  <2> QED
    BY <2>1, <1>2, <1>3, SameFile DEF TypeOK
<1>7. ASSUME Undoable(t, o), ~retire, restore PROVE Restore(t, o)
  BY <1>4, <1>7, <1>t DEF Restore
<1>8. ASSUME Undoable(t, o), ~retire, ~restore PROVE UNCHANGED <<dest, temp, backup>>
  <2>1. temp' = temp
    BY <1>8, <1>t
  <2>2. backup' = backup
    BY <1>2, <1>3, <1>4, <1>8, SameFile DEF TypeOK
  <2>3. dest' = dest
    BY <1>2, <1>4, <1>8 DEF TypeOK
  <2> QED
    BY <2>1, <2>2, <2>3
<1>9. Undoable(t, o) /\ ~(retire /\ o \in prepared[t]) => left' = [left EXCEPT ![p] = @ \ {o}]
  BY <1>4
<1> HIDE DEF retire, restore
<1>10. CASE Undoable(t, o) /\ retire
  BY <1>1, <1>2, <1>3, <1>4, <1>6, <1>9, <1>10 DEF retire, o, t
<1>11. CASE Undoable(t, o) /\ ~retire /\ restore
  BY <1>1, <1>2, <1>3, <1>4, <1>7, <1>9, <1>11 DEF restore, o, t
<1>12. CASE Undoable(t, o) /\ ~retire /\ ~restore
  BY <1>1, <1>2, <1>3, <1>4, <1>8, <1>9, <1>12 DEF retire, restore, o, t
<1> QED
  BY <1>5, <1>10, <1>11, <1>12

(* What one step of a rollback in the publisher does. *)
LEMMA RollBackCases ==
    ASSUME TypeOK, NEW p \in Procs, RollBack(p)
    PROVE  /\ pc[p] = "rollback" /\ txn[p] \in Txns
           /\ UNCHANGED <<stage, journal, header, prepared, begun, lock, pc, txn, todo, left, scan,
                          ghosts>>
           /\ \E o \in Outputs :
                \/ /\ o \in installed[p] /\ Withdraw(txn[p], o)
                   /\ installed' = [installed EXCEPT ![p] = @ \ {o}] /\ UNCHANGED backed_up
                \/ /\ o \in backed_up[p] \ installed[p] /\ Restore(txn[p], o)
                   /\ backed_up' = [backed_up EXCEPT ![p] = @ \ {o}] /\ UNCHANGED installed
<1> DEFINE o == Max(installed[p] \cup backed_up[p])
<1>1. pc[p] = "rollback" /\ installed[p] \cup backed_up[p] # {}
  BY DEF RollBack
<1>2. o \in installed[p] \cup backed_up[p] /\ o \in Outputs
  BY <1>1, PositionsAreOutputs DEF TypeOK
<1>3. txn[p] \in Txns
  BY <1>1, HasTxn
<1>4. /\ UNCHANGED <<stage, journal, header, prepared, begun, lock, pc, txn, todo, left, scan,
                          ghosts>>
      /\ IF o \in installed[p]
         THEN /\ Withdraw(txn[p], o)
              /\ installed' = [installed EXCEPT ![p] = @ \ {o}] /\ UNCHANGED backed_up
         ELSE /\ Restore(txn[p], o)
              /\ backed_up' = [backed_up EXCEPT ![p] = @ \ {o}] /\ UNCHANGED installed
  BY DEF RollBack, Withdraw, Restore
<1> HIDE DEF o
<1> QED
  BY <1>1, <1>2, <1>3, <1>4

(* What a step of publish_staged_outputs_with does to its output. *)
LEMMA InstallCases ==
    ASSUME TypeOK, NEW p \in Procs, BackUp(p) \/ Install(p)
    PROVE  /\ pc[p] = "install" /\ txn[p] \in Txns
           /\ UNCHANGED <<stage, journal, header, prepared, begun, lock, pc, txn, todo, left, scan,
                          ghosts>>
           /\ \E o \in Outputs \ installed[p] :
                \/ /\ o \in prepared[txn[p]] \ backed_up[p] /\ SetAside(txn[p], o)
                   /\ backed_up' = [backed_up EXCEPT ![p] = @ \cup {o}] /\ UNCHANGED installed
                \/ /\ o \notin prepared[txn[p]] \ backed_up[p] /\ PutInPlace(txn[p], o)
                   /\ installed' = [installed EXCEPT ![p] = @ \cup {o}] /\ UNCHANGED backed_up
<1>1. pc[p] = "install" /\ installed[p] # Outputs
  BY DEF BackUp, Install
<1>2. Position(p) \in Outputs \ installed[p]
  BY <1>1, PositionsAreOutputs
<1>3. txn[p] \in Txns
  BY <1>1, HasTxn
<1> QED
  BY <1>1, <1>2, <1>3 DEF BackUp, Install, SetAside, PutInPlace

(* What the inspection of a listed entry does. *)
LEMMA InspectEntryCases ==
    ASSUME TypeOK, NEW p \in Procs, InspectEntry(p)
    PROVE  /\ pc[p] = "recover"
           /\ UNCHANGED <<dest, temp, backup, stage, journal, header, prepared, begun, lock, temps,
                          left, backed_up, installed, kills, torn, overlapped>>
           /\ \E t \in unseen[p] :
                /\ t \in Txns
                /\ \/ /\ unseen' = [unseen EXCEPT ![p] = @ \ {t}]
                      /\ todo' = todo \/ todo' = [todo EXCEPT ![p] = @ \cup {t}]
                      /\ UNCHANGED <<pc, txn>>
                   \/ /\ journal[t] # ListedAs(p, t)
                      /\ txn' = [txn EXCEPT ![p] = t]
                      /\ pc' = [pc EXCEPT ![p] = "rejected"]
                      /\ UNCHANGED <<unseen, todo>>
<1>1. /\ pc[p] = "recover"
      /\ UNCHANGED <<dest, temp, backup, stage, journal, header, prepared, begun, lock, temps,
                     left, backed_up, installed, kills, torn, overlapped>>
  BY DEF InspectEntry, disk, ghosts
<1>2. PICK t \in unseen[p] :
        IF journal[t] = ListedAs(p, t)
        THEN /\ unseen' = [unseen EXCEPT ![p] = @ \ {t}]
             /\ todo' = [todo EXCEPT ![p] = @ \cup ({t} \ temps[p])]
             /\ UNCHANGED <<pc, txn>>
        ELSE /\ txn' = [txn EXCEPT ![p] = t]
             /\ pc' = [pc EXCEPT ![p] = "rejected"]
             /\ UNCHANGED <<unseen, todo>>
  BY DEF InspectEntry, Goto
<1>3. t \in Txns
  BY DEF TypeOK
<1>4. ASSUME todo' = [todo EXCEPT ![p] = @ \cup ({t} \ temps[p])]
      PROVE  todo' = todo \/ todo' = [todo EXCEPT ![p] = @ \cup {t}]
  <2>1. CASE t \in temps[p]
    <3>1. todo[p] \cup ({t} \ temps[p]) = todo[p]
      BY <2>1
    <3> QED
      BY <1>4, <3>1 DEF TypeOK
  <2>2. CASE t \notin temps[p]
    <3>1. {t} \ temps[p] = {t}
      BY <2>2
    <3> QED
      BY <1>4, <3>1
  <2> QED
    BY <2>1, <2>2
<1> QED
  BY <1>1, <1>2, <1>3, <1>4

(* It adds nothing to what a process knows of the journals. *)
LEMMA InspectEntryKeeps ==
    ASSUME TypeOK, NEW p \in Procs, InspectEntry(p), NEW q \in Procs
    PROVE  /\ unseen'[q] \subseteq unseen[q] /\ todo'[q] \subseteq todo[q] \cup unseen[q]
           /\ \/ pc'[q] = pc[q] /\ txn'[q] = txn[q]
              \/ /\ q = p /\ pc[q] = "recover" /\ pc'[q] = "rejected"
                 /\ txn'[q] \in unseen[q]
<1>1. PICK t \in unseen[p] :
        \/ /\ unseen' = [unseen EXCEPT ![p] = @ \ {t}]
           /\ todo' = todo \/ todo' = [todo EXCEPT ![p] = @ \cup {t}]
           /\ UNCHANGED <<pc, txn>>
        \/ /\ txn' = [txn EXCEPT ![p] = t]
           /\ pc' = [pc EXCEPT ![p] = "rejected"]
           /\ UNCHANGED <<unseen, todo>>
  BY InspectEntryCases
<1>2. CASE UNCHANGED <<pc, txn>> /\ unseen' = [unseen EXCEPT ![p] = @ \ {t}]
              /\ (todo' = todo \/ todo' = [todo EXCEPT ![p] = @ \cup {t}])
  BY <1>1, <1>2 DEF TypeOK
<1>3. CASE UNCHANGED <<unseen, todo>> /\ txn' = [txn EXCEPT ![p] = t]
              /\ pc' = [pc EXCEPT ![p] = "rejected"]
  BY <1>1, <1>3, InspectEntryCases DEF TypeOK
<1> QED
  BY <1>1, <1>2, <1>3

(* What the removal of a temporary journal does. *)
LEMMA RetireTemporaryCases ==
    ASSUME TypeOK, NEW p \in Procs, RetireTemporary(p)
    PROVE  /\ pc[p] = "recover" /\ unseen[p] = {}
           /\ UNCHANGED <<dest, temp, backup, stage, prepared, begun, lock, pc, txn, unseen, todo,
                          left, backed_up, installed, kills, torn, overlapped>>
           /\ temps' \in [Procs -> SUBSET Txns] /\ \A q \in Procs \ {p} : temps'[q] = temps[q]
           /\ journal' \in [Txns -> {"none", "tmp", "transaction"}] /\ header' \subseteq header
           /\ \A t \in Txns :
                \/ journal'[t] = journal[t] /\ (t \in header' <=> t \in header)
                \/ journal'[t] = "none" /\ \A q \in Procs : txn[q] # t
<1>1. /\ pc[p] = "recover" /\ unseen[p] = {}
      /\ UNCHANGED <<dest, temp, backup, stage, prepared, begun, lock, pc, txn, unseen, todo,
                     left, backed_up, installed, kills, torn, overlapped>>
  BY DEF RetireTemporary, ghosts
<1>2. PICK t \in temps[p] :
        /\ temps' = [temps EXCEPT ![p] = @ \ {t}]
        /\ \/ /\ \A q \in Procs : txn[q] # t
              /\ journal' = [journal EXCEPT ![t] = "none"] /\ header' = header \ {t}
           \/ UNCHANGED <<journal, header>>
  BY DEF RetireTemporary
<1>3. t \in Txns
  BY DEF TypeOK
<1>4. temps' \in [Procs -> SUBSET Txns] /\ \A q \in Procs \ {p} : temps'[q] = temps[q]
  BY <1>2 DEF TypeOK
<1>5. CASE UNCHANGED <<journal, header>>
  BY <1>1, <1>4, <1>5 DEF TypeOK
<1>6. CASE /\ \A q \in Procs : txn[q] # t
           /\ journal' = [journal EXCEPT ![t] = "none"] /\ header' = header \ {t}
  <2>1. journal' \in [Txns -> {"none", "tmp", "transaction"}] /\ header' \subseteq header
    BY <1>3, <1>6 DEF TypeOK
  <2>2. \A u \in Txns \ {t} : journal'[u] = journal[u] /\ (u \in header' <=> u \in header)
    BY <1>3, <1>6 DEF TypeOK
  <2>3. journal'[t] = "none"
    BY <1>3, <1>6 DEF TypeOK
  <2> QED
    BY <1>1, <1>4, <1>6, <2>1, <2>2, <2>3
<1> QED
  BY <1>2, <1>5, <1>6

(* Moving files leaves the other transactions and all journals alone. *)
LEMMA OthersKept ==
    ASSUME TypeOK, NEW p \in Procs, Undo(p) \/ BackUp(p) \/ Install(p) \/ RollBack(p)
    PROVE  /\ txn[p] \in Txns /\ pc[p] \in {"undo", "install", "rollback"}
           /\ UNCHANGED <<stage, journal, header, prepared, begun, txn, todo, scan, ghosts>>
           /\ pc' = pc \/ pc' = [pc EXCEPT ![p] = "rejected"]
           /\ \A u \in Txns \ {txn[p]} : temp'[u] = temp[u] /\ backup'[u] = backup[u]
<1>1. CASE Undo(p)
  <2>1. /\ txn[p] \in Txns /\ pc[p] = "undo"
        /\ UNCHANGED <<stage, journal, header, prepared, begun, txn, todo, scan, ghosts>>
        /\ pc' = pc \/ pc' = [pc EXCEPT ![p] = "rejected"]
    BY <1>1, UndoCases DEF Reject, Goto
  <2>2. PICK o \in left[p] : \/ UNCHANGED <<dest, temp, backup>>
                             \/ Withdraw(txn[p], o) \/ Restore(txn[p], o)
    BY <1>1, UndoCases
  <2>3. o \in Outputs
    BY DEF TypeOK
  <2>4. \A u \in Txns \ {txn[p]} : temp'[u] = temp[u] /\ backup'[u] = backup[u]
    BY <2>1, <2>2, <2>3, Moves
  <2> QED
    BY <2>1, <2>4
<1>2. CASE BackUp(p) \/ Install(p)
  <2>1. /\ txn[p] \in Txns /\ pc[p] = "install" /\ pc' = pc
        /\ UNCHANGED <<stage, journal, header, prepared, begun, txn, todo, scan, ghosts>>
    BY <1>2, InstallCases
  <2>2. PICK o \in Outputs : SetAside(txn[p], o) \/ PutInPlace(txn[p], o)
    BY <1>2, InstallCases
  <2>4. \A u \in Txns \ {txn[p]} : temp'[u] = temp[u] /\ backup'[u] = backup[u]
    BY <2>1, <2>2, Moves
  <2> QED
    BY <2>1, <2>4
<1>3. CASE RollBack(p)
  <2>1. /\ txn[p] \in Txns /\ pc[p] = "rollback" /\ pc' = pc
        /\ UNCHANGED <<stage, journal, header, prepared, begun, txn, todo, scan, ghosts>>
    BY <1>3, RollBackCases
  <2>2. PICK o \in Outputs : Withdraw(txn[p], o) \/ Restore(txn[p], o)
    BY <1>3, RollBackCases
  <2>4. \A u \in Txns \ {txn[p]} : temp'[u] = temp[u] /\ backup'[u] = backup[u]
    BY <2>1, <2>2, Moves
  <2> QED
    BY <2>1, <2>4
<1> QED
  BY <1>1, <1>2, <1>3

(* The transaction of a process has begun. *)
LEMMA HasBegun ==
    ASSUME TypeOK, Numbered, NEW p \in Procs, txn[p] # None
    PROVE  txn[p] \in Txns /\ txn[p] \in Nat /\ begun \in Nat /\ ~(txn[p] > begun)
<1>1. txn[p] \in Txns /\ begun \in Nat
  BY BoundsAssumption DEF TypeOK
<1>2. txn[p] \in Nat
  BY <1>1 DEF Txns
<1>3. txn[p] <= begun
  BY DEF Numbered
<1> QED
  BY <1>1, <1>2, <1>3

-----------------------------------------------------------------------------
(* Every step keeps the types and the lock. *)
LEMMA StepTypeOK ==
    ASSUME TypeOK, Numbered, NEW p \in Procs,
           Recover(p) \/ CleanUp(p) \/ Publish(p) \/ Fail(p) \/ Exit(p) \/ Kill(p)
    PROVE  TypeOK'
<1> USE BoundsAssumption, NoneAssumption DEF Goto, disk, memory, scan, ghosts
<1>a. Txns \subseteq Nat /\ None \notin Txns
  BY DEF Txns
<1>Scan. CASE Scan(p)
  <2>1. unseen' \in [Procs -> SUBSET Txns] /\ temps' \in [Procs -> SUBSET Txns]
    BY <1>Scan DEF Scan, TypeOK
  <2> QED
    BY <1>Scan, <2>1 DEF Scan, TypeOK, Locked
<1>InspectEntry. CASE InspectEntry(p)
  <2>1. PICK t \in Txns :
          \/ /\ unseen' = [unseen EXCEPT ![p] = @ \ {t}]
             /\ todo' = todo \/ todo' = [todo EXCEPT ![p] = @ \cup {t}]
             /\ UNCHANGED <<pc, txn>>
          \/ /\ txn' = [txn EXCEPT ![p] = t]
             /\ pc' = [pc EXCEPT ![p] = "rejected"]
             /\ UNCHANGED <<unseen, todo>>
    BY <1>InspectEntry, InspectEntryCases
  <2>2. /\ pc[p] = "recover"
        /\ UNCHANGED <<dest, temp, backup, stage, journal, header, prepared, begun, lock, temps,
                       left, backed_up, installed, kills, torn, overlapped>>
    BY <1>InspectEntry, InspectEntryCases
  <2>3. unseen' \in [Procs -> SUBSET Txns] /\ todo' \in [Procs -> SUBSET Txns]
    <3>1. unseen \in [Procs -> SUBSET Txns] /\ todo \in [Procs -> SUBSET Txns]
      BY DEF TypeOK
    <3> QED
      BY <2>1, <3>1
  <2>4. CASE UNCHANGED <<pc, txn>>
    BY <2>2, <2>3, <2>4 DEF TypeOK
  <2>5. CASE txn' = [txn EXCEPT ![p] = t] /\ pc' = [pc EXCEPT ![p] = "rejected"]
    BY <1>a, <2>2, <2>3, <2>5 DEF TypeOK, Locked
  <2> QED
    BY <2>1, <2>4, <2>5
<1>RetireTemporary. CASE RetireTemporary(p)
  BY <1>RetireTemporary, RetireTemporaryCases DEF TypeOK
<1>ReadHeader. CASE ReadHeader(p)
  BY <1>a, <1>ReadHeader DEF ReadHeader, Scanned, TypeOK, Locked
<1>Recovered. CASE Recovered(p)
  BY <1>a, <1>Recovered DEF Recovered, Scanned, TypeOK, Locked
<1>LockForRecovery. CASE LockForRecovery(p)
  BY <1>a, <1>LockForRecovery DEF LockForRecovery, TypeOK, Locked
<1>Inspect. CASE Inspect(p)
  BY <1>a, <1>Inspect DEF Inspect, TypeOK, Locked, NextJournal, Reject
<1>Undone. CASE Undone(p)
  BY <1>a, <1>Undone DEF Undone, TypeOK, Locked
<1>RemoveStage. CASE RemoveStage(p)
  <2>1. stage' \in [Txns -> {"none", "staged", "committed"}]
    BY <1>RemoveStage, HasTxn DEF RemoveStage, TypeOK
  <2> QED
    BY <1>RemoveStage, <2>1 DEF RemoveStage, TypeOK, Locked
<1>RemoveRecord. CASE RemoveRecord(p)
  <2>1. prepared' \in [Txns -> (SUBSET Outputs) \cup {None}] /\ header' \subseteq Txns
    <3>1. /\ txn[p] \in Txns /\ header' \subseteq header
          /\ UNCHANGED prepared \/ prepared' = [prepared EXCEPT ![txn[p]] = None]
      BY <1>RemoveRecord, HasTxn DEF RemoveRecord
    <3>2. prepared \in [Txns -> (SUBSET Outputs) \cup {None}] /\ header \subseteq Txns
      BY DEF TypeOK
    <3> QED
      BY <3>1, <3>2
  <2> QED
    BY <1>RemoveRecord, <2>1 DEF RemoveRecord, TypeOK
<1>RemoveJournal. CASE RemoveJournal(p)
  BY <1>a, <1>RemoveJournal DEF RemoveJournal, TypeOK, Locked
<1>LockForPublication. CASE LockForPublication(p)
  BY <1>a, <1>LockForPublication DEF LockForPublication, TypeOK, Locked
<1>CreateJournal. CASE CreateJournal(p)
  <2>1. txn[p] \in Txns
    BY <1>CreateJournal, HasTxn DEF CreateJournal
  <2>2. journal' \in [Txns -> {"none", "tmp", "transaction"}] /\ header' \subseteq Txns
    BY <1>CreateJournal, <2>1 DEF CreateJournal, TypeOK
  <2> QED
    BY <1>CreateJournal, <2>2 DEF CreateJournal, TypeOK, Locked
<1>RenameJournal. CASE RenameJournal(p)
  <2>1. journal' \in [Txns -> {"none", "tmp", "transaction"}]
    BY <1>RenameJournal, HasTxn DEF RenameJournal, TypeOK
  <2> QED
    BY <1>RenameJournal, <2>1 DEF RenameJournal, TypeOK, Locked
<1>Produce. CASE Produce(p)
  <2>1. txn[p] \in Txns /\ txn[p] \in Contents
    BY <1>Produce, HasTxn DEF Produce, Contents, Txns, Versions
  <2>2. temp \in [Txns -> [Outputs -> Contents]]
    BY DEF TypeOK
  <2>3. temp' = [temp EXCEPT ![txn[p]] = [o \in Outputs |-> txn[p]]]
    BY <1>Produce DEF Produce
  <2>4. temp' \in [Txns -> [Outputs -> Contents]]
    BY <2>1, <2>2, <2>3
  <2> QED
    BY <1>Produce, <2>4 DEF Produce, TypeOK, Locked
<1>MarkPrepared. CASE MarkPrepared(p)
  BY <1>a, <1>MarkPrepared DEF MarkPrepared, TypeOK, Locked, Existing
<1>Commit. CASE Commit(p)
  BY <1>a, <1>Commit DEF Commit, TypeOK, Locked
<1>RolledBack. CASE RolledBack(p)
  BY <1>a, <1>RolledBack DEF RolledBack, TypeOK, Locked
<1>JournalFails. CASE JournalFails(p)
  <2>1. txn[p] \in Txns
    BY <1>JournalFails, HasTxn DEF JournalFails
  <2>2. journal' \in [Txns -> {"none", "tmp", "transaction"}] /\ header' \subseteq Txns
    <3>1. journal \in [Txns -> {"none", "tmp", "transaction"}] /\ header \subseteq Txns
      BY DEF TypeOK
    <3> QED
      BY <1>JournalFails, <2>1, <3>1 DEF JournalFails
  <2>3. stage' \in [Txns -> {"none", "staged", "committed"}]
    BY <1>JournalFails, <2>1 DEF JournalFails, TypeOK
  <2>4. lock' = None /\ txn' = [txn EXCEPT ![p] = None] /\ pc' = [pc EXCEPT ![p] = "idle"]
    BY <1>JournalFails DEF JournalFails
  <2> QED
    BY <1>JournalFails, <2>1, <2>2, <2>3, <2>4 DEF JournalFails, TypeOK, Locked
<1>ProduceFails. CASE ProduceFails(p)
  BY <1>a, <1>ProduceFails DEF ProduceFails, TypeOK, Locked
<1>InstallFails. CASE InstallFails(p)
  BY <1>a, <1>InstallFails DEF InstallFails, TypeOK, Locked
<1>Exit. CASE Exit(p)
  BY <1>a, <1>Exit DEF Exit, TypeOK, Locked, Forget
<1>Kill. CASE Kill(p)
  <2>1. torn' \subseteq Txns
    <3>1. CutOff(p) => txn[p] \in Txns
      BY HasTxn DEF CutOff
    <3> QED
      BY <1>Kill, <3>1 DEF Kill, TypeOK
  <2>2. kills' \in 0 .. MaxKills
    BY <1>Kill DEF Kill, TypeOK
  <2> QED
    BY <1>Kill, <2>1, <2>2 DEF Kill, Forget, TypeOK, Locked
<1>CreateStage. CASE CreateStage(p)
  BY <1>a, <1>CreateStage DEF CreateStage, TypeOK, Locked, Numbered, Txns
<1>RemoveEntry. CASE RemoveEntry(p)
  BY <1>a, <1>RemoveEntry, SMTT(30) DEF RemoveEntry, TypeOK, Locked, Contents
<1>Undo. CASE Undo(p)
  <2>1. PICK o \in left[p] :
            \/ Reject(p) /\ UNCHANGED <<dest, temp, backup, left>>
            \/ /\ UNCHANGED <<lock, pc, txn, todo>>
               /\ left' = left \/ left' = [left EXCEPT ![p] = @ \ {o}]
               /\ \/ Withdraw(txn[p], o) \/ Restore(txn[p], o)
                  \/ UNCHANGED <<dest, temp, backup>>
    BY <1>Undo, UndoCases
  <2>2. /\ txn[p] \in Txns /\ o \in Outputs /\ pc[p] = "undo"
        /\ UNCHANGED <<stage, journal, header, prepared, begun, backed_up, installed, scan, ghosts>>
    BY <1>Undo, UndoCases DEF TypeOK
  <2>3. /\ dest' \in [Outputs -> Contents]
        /\ temp' \in [Txns -> [Outputs -> Contents]]
        /\ backup' \in [Txns -> [Outputs -> Contents]]
    BY <2>1, <2>2, Moves DEF TypeOK
  <2>4. left' \in [Procs -> SUBSET Outputs]
    <3>1. left \in [Procs -> SUBSET Outputs]
      BY DEF TypeOK
    <3> QED
      BY <2>1, <3>1
  <2>5. CASE Reject(p)
    BY <2>2, <2>3, <2>4, <2>5 DEF Reject, TypeOK, Locked
  <2>6. CASE UNCHANGED <<lock, pc, txn, todo>>
    BY <2>2, <2>3, <2>4, <2>6 DEF TypeOK
  <2> QED
    BY <2>1, <2>5, <2>6
<1>Install. CASE BackUp(p) \/ Install(p)
  <2>1. PICK o \in Outputs :
            \/ /\ SetAside(txn[p], o) /\ UNCHANGED installed
               /\ backed_up' = [backed_up EXCEPT ![p] = @ \cup {o}]
            \/ /\ PutInPlace(txn[p], o) /\ UNCHANGED backed_up
               /\ installed' = [installed EXCEPT ![p] = @ \cup {o}]
    BY <1>Install, InstallCases
  <2>2. /\ txn[p] \in Txns
        /\ UNCHANGED <<stage, journal, header, prepared, begun, lock, pc, txn, todo, left, scan,
                          ghosts>>
    BY <1>Install, InstallCases
  <2>3. /\ dest' \in [Outputs -> Contents]
        /\ temp' \in [Txns -> [Outputs -> Contents]]
        /\ backup' \in [Txns -> [Outputs -> Contents]]
    BY <2>1, <2>2, Moves
  <2>4. backed_up' \in [Procs -> SUBSET Outputs] /\ installed' \in [Procs -> SUBSET Outputs]
    <3>1. backed_up \in [Procs -> SUBSET Outputs] /\ installed \in [Procs -> SUBSET Outputs]
      BY DEF TypeOK
    <3> QED
      BY <2>1, <3>1
  <2> QED
    BY <2>2, <2>3, <2>4 DEF TypeOK
<1>RollBack. CASE RollBack(p)
  <2>1. PICK o \in Outputs :
            \/ /\ Withdraw(txn[p], o) /\ UNCHANGED backed_up
               /\ installed' = [installed EXCEPT ![p] = @ \ {o}]
            \/ /\ Restore(txn[p], o) /\ UNCHANGED installed
               /\ backed_up' = [backed_up EXCEPT ![p] = @ \ {o}]
    BY <1>RollBack, RollBackCases
  <2>2. /\ txn[p] \in Txns
        /\ UNCHANGED <<stage, journal, header, prepared, begun, lock, pc, txn, todo, left, scan,
                          ghosts>>
    BY <1>RollBack, RollBackCases
  <2>3. /\ dest' \in [Outputs -> Contents]
        /\ temp' \in [Txns -> [Outputs -> Contents]]
        /\ backup' \in [Txns -> [Outputs -> Contents]]
    BY <2>1, <2>2, Moves
  <2>4. backed_up' \in [Procs -> SUBSET Outputs] /\ installed' \in [Procs -> SUBSET Outputs]
    <3>1. backed_up \in [Procs -> SUBSET Outputs] /\ installed \in [Procs -> SUBSET Outputs]
      BY DEF TypeOK
    <3> QED
      BY <2>1, <3>1
  <2> QED
    BY <2>2, <2>3, <2>4 DEF TypeOK
<1> QED
  BY <1>Scan, <1>InspectEntry, <1>RetireTemporary, <1>ReadHeader, <1>Recovered,
     <1>LockForRecovery, <1>Inspect, <1>Undo, <1>Undone,
     <1>RemoveEntry, <1>RemoveStage, <1>RemoveRecord, <1>RemoveJournal, <1>LockForPublication,
     <1>CreateStage, <1>CreateJournal, <1>RenameJournal, <1>Produce, <1>MarkPrepared, <1>Install,
     <1>Commit, <1>RollBack, <1>RolledBack, <1>JournalFails, <1>ProduceFails, <1>InstallFails,
     <1>Exit, <1>Kill
     DEF Recover, CleanUp, Publish, Fail

-----------------------------------------------------------------------------
(* Every step keeps the numbering of the transactions. *)
LEMMA StepNumbered ==
    ASSUME IInv, TypeOK', NEW p \in Procs,
           Recover(p) \/ CleanUp(p) \/ Publish(p) \/ Fail(p) \/ Exit(p) \/ Kill(p)
    PROVE  Numbered'
<1> USE BoundsAssumption, NoneAssumption, AbsentAssumption, HasTxn
    DEF IInv, Goto, disk, memory, scan, ghosts
<1>a. Txns \subseteq Nat /\ None \notin Txns
  BY DEF Txns
<1>Scan. CASE Scan(p)
  <2>1. \A t \in Txns : journal[t] # "none" => t \in 1 .. begun
    <3>1. TAKE t \in Txns
    <3>2. HAVE journal[t] # "none"
    <3>3. t \in Nat /\ t >= 1 /\ begun \in Nat
      BY DEF Txns, TypeOK
    <3>4. ~(t > begun)
      BY <3>2 DEF Numbered
    <3> QED
      BY <3>3, <3>4
  <2>2. \A q \in Procs : todo'[q] \cup unseen'[q] \subseteq 1 .. begun'
    BY <1>Scan, <2>1 DEF Scan, Numbered, TypeOK
  <2> QED
    BY <1>Scan, <2>2 DEF Scan, Numbered, TypeOK
<1>InspectEntry. CASE InspectEntry(p)
  <2>1. UNCHANGED <<stage, journal, prepared, backup, begun>>
    BY <1>InspectEntry, InspectEntryCases
  <2>2. \A q \in Procs : \A t \in unseen[q] : t \in Nat /\ t <= begun
    BY DEF Numbered, TypeOK
  <2>3. \A q \in Procs :
          /\ unseen'[q] \subseteq unseen[q] /\ todo'[q] \subseteq todo[q] \cup unseen[q]
          /\ txn'[q] = txn[q] \/ txn'[q] \in unseen[q]
          /\ pc'[q] = pc[q] \/ pc'[q] = "rejected"
    BY <1>InspectEntry, InspectEntryKeeps
  <2>4. \A q \in Procs : todo[q] \subseteq 1 .. begun /\ unseen[q] \subseteq 1 .. begun
    BY DEF Numbered
  <2>5. \A q \in Procs : todo'[q] \subseteq 1 .. begun' /\ unseen'[q] \subseteq 1 .. begun'
    BY <2>1, <2>3, <2>4
  <2> QED
    BY <2>1, <2>2, <2>3, <2>5 DEF Numbered
<1>RetireTemporary. CASE RetireTemporary(p)
  BY <1>RetireTemporary, RetireTemporaryCases DEF Numbered
<1>ReadHeader. CASE ReadHeader(p)
  BY <1>a, <1>ReadHeader DEF ReadHeader, Scanned, Numbered, TypeOK
<1>Recovered. CASE Recovered(p)
  BY <1>a, <1>Recovered DEF Recovered, Scanned, Numbered, TypeOK
<1>LockForRecovery. CASE LockForRecovery(p)
  <2>1. /\ UNCHANGED <<stage, journal, prepared, backup, begun, todo, unseen, txn>>
        /\ \A q \in Procs : pc'[q] = "stage" => pc[q] = "stage"
    BY <1>LockForRecovery DEF LockForRecovery, TypeOK
  <2> QED
    BY <2>1 DEF Numbered
<1>Inspect. CASE Inspect(p)
  BY <1>a, <1>Inspect DEF Inspect, NextJournal, Reject, Numbered, TypeOK
<1>Undone. CASE Undone(p)
  BY <1>a, <1>Undone DEF Undone, Numbered, TypeOK
<1>RemoveEntry. CASE RemoveEntry(p)
  BY <1>a, <1>RemoveEntry, SMTT(30) DEF RemoveEntry, Numbered, TypeOK
<1>RemoveStage. CASE RemoveStage(p)
  <2>1. txn[p] # None
    BY <1>RemoveStage DEF RemoveStage, TypeOK
  <2>2. txn[p] \in Txns /\ ~(txn[p] > begun) /\ begun \in Nat
    BY <2>1, HasBegun
  <2> QED
    BY <1>RemoveStage, <2>2 DEF RemoveStage, Numbered, TypeOK
<1>RemoveRecord. CASE RemoveRecord(p)
  BY <1>a, <1>RemoveRecord DEF RemoveRecord, Numbered, TypeOK
<1>RemoveJournal. CASE RemoveJournal(p)
  BY <1>a, <1>RemoveJournal DEF RemoveJournal, Numbered, TypeOK
<1>LockForPublication. CASE LockForPublication(p)
  BY <1>a, <1>LockForPublication DEF LockForPublication, Numbered, TypeOK
<1>CreateStage. CASE CreateStage(p)
  <2>1. begun' = begun + 1 /\ begun \in Nat
    BY <1>CreateStage DEF CreateStage, TypeOK
  <2>2. \A q \in Procs : /\ todo'[q] \cup unseen'[q] \subseteq 1 .. begun'
                         /\ txn'[q] # None => txn'[q] <= begun'
    <3>1. TAKE q \in Procs
    <3>2. todo'[q] \cup unseen'[q] \subseteq 1 .. begun'
      BY <1>CreateStage, <2>1 DEF CreateStage, Numbered
    <3>3. CASE q = p
      BY <3>2, <3>3, <2>1, <1>CreateStage DEF CreateStage, TypeOK
    <3>4. CASE q # p
      <4>1. txn'[q] = txn[q]
        BY <3>4, <1>CreateStage DEF CreateStage, TypeOK
      <4> QED
        BY <4>1, <3>2, <2>1, HasBegun
    <3> QED
      BY <3>3, <3>4
  <2>3. \A q \in Procs : pc'[q] # "stage"
    BY <1>CreateStage, Exclusive DEF CreateStage, TypeOK, Locked
  <2>4. \A t \in Txns : t > begun' => t > begun /\ stage'[t] = stage[t]
    BY <1>a, <1>CreateStage, <2>1 DEF CreateStage, TypeOK
  <2> QED
    BY <1>CreateStage, <2>2, <2>3, <2>4 DEF CreateStage, Numbered
<1>CreateJournal. CASE CreateJournal(p)
  BY <1>a, <1>CreateJournal DEF CreateJournal, Numbered, TypeOK
<1>RenameJournal. CASE RenameJournal(p)
  <2>1. txn[p] # None
    BY <1>RenameJournal DEF RenameJournal, TypeOK
  <2>2. txn[p] \in Txns /\ ~(txn[p] > begun) /\ begun \in Nat
    BY <2>1, HasBegun
  <2> QED
    BY <1>RenameJournal, <2>2 DEF RenameJournal, Numbered, TypeOK
<1>Produce. CASE Produce(p)
  BY <1>a, <1>Produce DEF Produce, Numbered, TypeOK
<1>MarkPrepared. CASE MarkPrepared(p)
  BY <1>a, <1>MarkPrepared DEF MarkPrepared, Numbered, TypeOK
<1>Commit. CASE Commit(p)
  <2>1. txn[p] # None
    BY <1>Commit DEF Commit, TypeOK
  <2>2. txn[p] \in Txns /\ ~(txn[p] > begun) /\ begun \in Nat
    BY <2>1, HasBegun
  <2> QED
    BY <1>Commit, <2>2 DEF Commit, Numbered, TypeOK
<1>RolledBack. CASE RolledBack(p)
  BY <1>a, <1>RolledBack DEF RolledBack, Numbered, TypeOK
<1>JournalFails. CASE JournalFails(p)
  BY <1>a, <1>JournalFails DEF JournalFails, Numbered, TypeOK
<1>ProduceFails. CASE ProduceFails(p)
  BY <1>a, <1>ProduceFails DEF ProduceFails, Numbered, TypeOK
<1>InstallFails. CASE InstallFails(p)
  BY <1>a, <1>InstallFails DEF InstallFails, Numbered, TypeOK
<1>Exit. CASE Exit(p)
  BY <1>a, <1>Exit DEF Exit, Forget, Numbered, TypeOK
<1>Kill. CASE Kill(p)
  BY <1>a, <1>Kill DEF Kill, Forget, CutOff, Numbered, TypeOK
<1>Undo. CASE Undo(p)
  <2>1. /\ UNCHANGED <<stage, journal, prepared, begun, todo, unseen, txn>>
        /\ \A u \in Txns \ {txn[p]} : backup'[u] = backup[u]
        /\ pc' = pc \/ pc' = [pc EXCEPT ![p] = "rejected"]
    BY <1>Undo, OthersKept
  <2>3. \A q \in Procs : pc'[q] = "stage" => pc[q] = "stage"
    BY <2>1 DEF TypeOK
  <2>2. txn[p] \in Txns /\ ~(txn[p] > begun)
    BY <1>a, <1>Undo, OthersKept, HasBegun
  <2> QED
    BY <2>1, <2>2, <2>3 DEF Numbered
<1>Install. CASE BackUp(p) \/ Install(p)
  <2>1. /\ UNCHANGED <<stage, journal, prepared, begun, todo, unseen, txn>>
        /\ \A u \in Txns \ {txn[p]} : backup'[u] = backup[u]
        /\ pc' = pc \/ pc' = [pc EXCEPT ![p] = "rejected"]
    BY <1>Install, OthersKept
  <2>3. \A q \in Procs : pc'[q] = "stage" => pc[q] = "stage"
    BY <2>1 DEF TypeOK
  <2>2. txn[p] \in Txns /\ ~(txn[p] > begun)
    BY <1>a, <1>Install, OthersKept, HasBegun
  <2> QED
    BY <2>1, <2>2, <2>3 DEF Numbered
<1>RollBack. CASE RollBack(p)
  <2>1. /\ UNCHANGED <<stage, journal, prepared, begun, todo, unseen, txn>>
        /\ \A u \in Txns \ {txn[p]} : backup'[u] = backup[u]
        /\ pc' = pc \/ pc' = [pc EXCEPT ![p] = "rejected"]
    BY <1>RollBack, OthersKept
  <2>3. \A q \in Procs : pc'[q] = "stage" => pc[q] = "stage"
    BY <2>1 DEF TypeOK
  <2>2. txn[p] \in Txns /\ ~(txn[p] > begun)
    BY <1>a, <1>RollBack, OthersKept, HasBegun
  <2> QED
    BY <2>1, <2>2, <2>3 DEF Numbered
<1> QED
  BY <1>Scan, <1>InspectEntry, <1>RetireTemporary, <1>ReadHeader, <1>Recovered,
     <1>LockForRecovery, <1>Inspect, <1>Undo, <1>Undone,
     <1>RemoveEntry, <1>RemoveStage, <1>RemoveRecord, <1>RemoveJournal, <1>LockForPublication,
     <1>CreateStage, <1>CreateJournal, <1>RenameJournal, <1>Produce, <1>MarkPrepared, <1>Install,
     <1>Commit, <1>RollBack, <1>RolledBack, <1>JournalFails, <1>ProduceFails, <1>InstallFails,
     <1>Exit, <1>Kill
     DEF Recover, CleanUp, Publish, Fail

-----------------------------------------------------------------------------
(* A journal loses its header only while its holder retires it. *)
LEMMA StepHeaders ==
    ASSUME IInv, TypeOK', NEW p \in Procs,
           Recover(p) \/ CleanUp(p) \/ Publish(p) \/ Fail(p) \/ Exit(p) \/ Kill(p)
    PROVE  HeadersKept'
<1> USE BoundsAssumption, NoneAssumption, AbsentAssumption, HasTxn
    DEF IInv, Goto, disk, memory, scan, ghosts
<1>a. Txns \subseteq Nat /\ None \notin Txns
  BY DEF Txns
<1>Scan. CASE Scan(p)
  <2>1. \A q \in Procs : pc'[q] = "create" =>
            /\ pc[q] = "create" /\ txn[q] \in Txns /\ journal[txn[q]] = "none"
            /\ \A r \in Procs : txn[q] \notin todo'[r] \cup unseen'[r]
    BY <1>Scan DEF Scan, HeadersKept, TypeOK
  <2>2. \A q \in Procs : /\ pc'[q] = "rename" => pc[q] = "rename"
                         /\ pc[q] = "retire" => pc'[q] = "retire"
    BY <1>Scan DEF Scan, TypeOK
  <2> QED
    BY <1>Scan, <2>1, <2>2 DEF Scan, HeadersKept
<1>InspectEntry. CASE InspectEntry(p)
  <2>1. UNCHANGED <<journal, header, torn>>
    BY <1>InspectEntry, InspectEntryCases
  <2>2. \A q \in Procs :
          /\ todo'[q] \cup unseen'[q] \subseteq todo[q] \cup unseen[q]
          /\ \/ pc'[q] = pc[q] /\ txn'[q] = txn[q]
             \/ pc[q] = "recover" /\ pc'[q] = "rejected" /\ txn'[q] \in unseen[q]
    BY <1>InspectEntry, InspectEntryKeeps
  <2>3. \A q \in Procs : pc'[q] = "create" =>
          /\ pc[q] = "create" /\ txn'[q] = txn[q]
          /\ \A r \in Procs : /\ txn[q] \notin todo'[r] \cup unseen'[r]
                              /\ r # q => txn'[r] # txn[q]
    BY <2>2 DEF HeadersKept
  <2> QED
    BY <2>1, <2>2, <2>3 DEF HeadersKept
<1>RetireTemporary. CASE RetireTemporary(p)
  <2>1. \A q \in Procs : pc[q] \in {"create", "rename"} => txn[q] \in Txns
    BY HasTxn
  <2> QED
    BY <1>RetireTemporary, <2>1, RetireTemporaryCases DEF HeadersKept
<1>ReadHeader. CASE ReadHeader(p)
  BY <1>a, <1>ReadHeader DEF ReadHeader, Scanned, HeadersKept, Numbered, TypeOK, Locked
<1>Recovered. CASE Recovered(p)
  BY <1>a, <1>Recovered DEF Recovered, Scanned, HeadersKept, Numbered, TypeOK, Locked
<1>LockForRecovery. CASE LockForRecovery(p)
  <2>1. \A q \in Procs : pc'[q] \in {"rename", "create"} \/ pc[q] = "retire" => pc'[q] = pc[q]
    BY <1>LockForRecovery DEF LockForRecovery, TypeOK
  <2> QED
    BY <1>LockForRecovery, <2>1 DEF LockForRecovery, HeadersKept
<1>Inspect. CASE Inspect(p)
  <2>1. UNCHANGED <<journal, header, torn, unseen>>
    BY <1>Inspect DEF Inspect
  <2>2. \A q \in Procs :
          /\ todo'[q] \subseteq todo[q] /\ (txn'[q] = txn[q] \/ txn'[q] = None)
          /\ pc'[q] = pc[q] \/ (pc[q] = "inspect" /\ pc'[q] \notin {"create", "rename"})
    BY <1>Inspect DEF Inspect, NextJournal, Reject, TypeOK
  <2>3. \A q \in Procs : pc'[q] \in {"create", "rename", "retire"} /\ pc'[q] = pc[q] =>
          txn'[q] = txn[q] /\ txn[q] \in Txns
    BY <1>a, <2>2, HasTxn DEF TypeOK
  <2>4. ASSUME NEW q \in Procs, pc'[q] = "create"
        PROVE  /\ journal'[txn'[q]] = "none"
               /\ \A r \in Procs : txn'[q] \notin todo'[r] \cup unseen'[r]
               /\ \A r \in Procs : r # q => txn'[r] # txn'[q]
    <3>1. pc[q] = "create" /\ txn'[q] = txn[q] /\ txn[q] \in Txns
      BY <2>2, <2>3, <2>4
    <3> QED
      BY <1>a, <2>1, <2>2, <3>1 DEF HeadersKept
  <2>5. \A q \in Procs : pc'[q] = "rename" => txn'[q] \in header'
    BY <2>1, <2>2, <2>3 DEF HeadersKept
  <2>6. \A q \in Procs : pc[q] = "retire" => pc'[q] = "retire" /\ txn'[q] = txn[q]
    BY <2>2, <2>3
  <2>7. \A t \in Txns : journal'[t] # "none" /\ t \notin header' =>
          t \in torn' \/ \E q \in Procs : pc'[q] = "retire" /\ txn'[q] = t
    BY <2>1, <2>6 DEF HeadersKept
  <2> QED
    BY <2>4, <2>5, <2>7 DEF HeadersKept
<1>Undone. CASE Undone(p)
  BY <1>a, <1>Undone DEF Undone, HeadersKept, Numbered, TypeOK, Locked
<1>RemoveEntry. CASE RemoveEntry(p)
  BY <1>a, <1>RemoveEntry DEF RemoveEntry, HeadersKept, Numbered, TypeOK, Locked
<1>RemoveStage. CASE RemoveStage(p)
  BY <1>a, <1>RemoveStage DEF RemoveStage, HeadersKept, Numbered, TypeOK, Locked
<1>RemoveRecord. CASE RemoveRecord(p)
  BY <1>a, <1>RemoveRecord DEF RemoveRecord, HeadersKept, Numbered, TypeOK, Locked
<1>RemoveJournal. CASE RemoveJournal(p)
  BY <1>a, <1>RemoveJournal DEF RemoveJournal, HeadersKept, Numbered, TypeOK, Locked
<1>LockForPublication. CASE LockForPublication(p)
  BY <1>a, <1>LockForPublication DEF LockForPublication, HeadersKept, Numbered, TypeOK, Locked
<1>CreateStage. CASE CreateStage(p)
  BY <1>a, <1>CreateStage DEF CreateStage, HeadersKept, Numbered, TypeOK, Locked
<1>CreateJournal. CASE CreateJournal(p)
  BY <1>a, <1>CreateJournal DEF CreateJournal, HeadersKept, Numbered, TypeOK, Locked
<1>RenameJournal. CASE RenameJournal(p)
  BY <1>a, <1>RenameJournal DEF RenameJournal, HeadersKept, Numbered, TypeOK, Locked
<1>Produce. CASE Produce(p)
  BY <1>a, <1>Produce DEF Produce, HeadersKept, Numbered, TypeOK, Locked
<1>MarkPrepared. CASE MarkPrepared(p)
  BY <1>a, <1>MarkPrepared DEF MarkPrepared, HeadersKept, Numbered, TypeOK, Locked
<1>Commit. CASE Commit(p)
  BY <1>a, <1>Commit DEF Commit, HeadersKept, Numbered, TypeOK, Locked
<1>RolledBack. CASE RolledBack(p)
  BY <1>a, <1>RolledBack DEF RolledBack, HeadersKept, Numbered, TypeOK, Locked
<1>JournalFails. CASE JournalFails(p)
  BY <1>a, <1>JournalFails DEF JournalFails, HeadersKept, Numbered, TypeOK, Locked
<1>ProduceFails. CASE ProduceFails(p)
  BY <1>a, <1>ProduceFails DEF ProduceFails, HeadersKept, Numbered, TypeOK, Locked
<1>InstallFails. CASE InstallFails(p)
  BY <1>a, <1>InstallFails DEF InstallFails, HeadersKept, Numbered, TypeOK, Locked
<1>Exit. CASE Exit(p)
  <2>1. /\ UNCHANGED <<journal, header, torn>>
        /\ \A q \in Procs :
             /\ todo'[q] \subseteq todo[q] /\ unseen'[q] \subseteq unseen[q]
             /\ \/ pc'[q] = pc[q] /\ txn'[q] = txn[q]
                \/ pc[q] \in {"rejected", "ready"} /\ pc'[q] = "idle" /\ txn'[q] = None
    BY <1>Exit DEF Exit, Forget, TypeOK
  <2>2. \A q \in Procs : pc[q] = "create" => txn[q] \in Txns
    BY HasTxn
  <2> QED
    BY <1>a, <2>1, <2>2 DEF HeadersKept
<1>Kill. CASE Kill(p)
  BY <1>a, <1>Kill DEF Kill, Forget, CutOff, HeadersKept, Numbered, TypeOK, Locked
<1>Undo. CASE Undo(p)
  BY <1>a, <1>Undo, UndoCases, Moves DEF Reject, HeadersKept, Numbered, TypeOK, Locked
<1>Install. CASE BackUp(p) \/ Install(p)
  BY <1>a, <1>Install, InstallCases, Moves DEF Reject, HeadersKept, Numbered, TypeOK, Locked
<1>RollBack. CASE RollBack(p)
  BY <1>a, <1>RollBack, RollBackCases, Moves DEF Reject, HeadersKept, Numbered, TypeOK, Locked
<1> QED
  BY <1>Scan, <1>InspectEntry, <1>RetireTemporary, <1>ReadHeader, <1>Recovered,
     <1>LockForRecovery, <1>Inspect, <1>Undo, <1>Undone,
     <1>RemoveEntry, <1>RemoveStage, <1>RemoveRecord, <1>RemoveJournal, <1>LockForPublication,
     <1>CreateStage, <1>CreateJournal, <1>RenameJournal, <1>Produce, <1>MarkPrepared, <1>Install,
     <1>Commit, <1>RollBack, <1>RolledBack, <1>JournalFails, <1>ProduceFails, <1>InstallFails,
     <1>Exit, <1>Kill
     DEF Recover, CleanUp, Publish, Fail

-----------------------------------------------------------------------------
(* Every step keeps what is known of the names of the journals. *)
LEMMA StepNamed ==
    ASSUME IInv, TypeOK', NEW p \in Procs,
           Recover(p) \/ CleanUp(p) \/ Publish(p) \/ Fail(p) \/ Exit(p) \/ Kill(p)
    PROVE  Named'
<1> USE NoneAssumption DEF IInv, Goto, disk, memory, scan, ghosts
<1>a. Txns \subseteq Nat /\ None \notin Txns
  BY DEF Txns
<1>1. ASSUME UNCHANGED <<journal, scan>>,
             \A q \in Procs : pc'[q] = "rename" => pc[q] = "rename" /\ txn'[q] = txn[q]
      PROVE  Named'
  BY <1>1 DEF Named
<1>2. ASSUME pc[p] \in Locked, UNCHANGED scan,
             \A t \in Txns : journal'[t] # journal[t] => journal'[t] # "tmp",
             \A q \in Procs : pc'[q] # "rename" \/ (q # p /\ pc'[q] = pc[q])
      PROVE  Named'
  <2>1. \A q \in Procs : pc'[q] # "rename"
    BY <1>2, Exclusive DEF Locked
  <2>2. \A q \in Procs : unseen[q] \subseteq Txns
    BY DEF TypeOK
  <2> QED
    BY <1>2, <2>1, <2>2 DEF Named
<1>Scan. CASE Scan(p)
  BY <1>Scan DEF Scan, Named, TypeOK
<1>InspectEntry. CASE InspectEntry(p)
  <2>1. /\ UNCHANGED <<journal, temps>>
        /\ \A q \in Procs : unseen'[q] \subseteq unseen[q]
        /\ \A q \in Procs : pc'[q] = "rename" => pc[q] = "rename" /\ txn'[q] = txn[q]
    BY <1>InspectEntry, InspectEntryCases, InspectEntryKeeps
  <2> QED
    BY <2>1 DEF Named
<1>RetireTemporary. CASE RetireTemporary(p)
  <2>1. \A q \in Procs : unseen[q] \subseteq Txns /\ (pc[q] = "rename" => txn[q] \in Txns)
    BY HasTxn DEF TypeOK
  <2> QED
    BY <1>RetireTemporary, <2>1, RetireTemporaryCases DEF Named
<1>ReadHeader. CASE ReadHeader(p)
  BY <1>ReadHeader, <1>1 DEF ReadHeader, Scanned, TypeOK
<1>Recovered. CASE Recovered(p)
  BY <1>Recovered, <1>1 DEF Recovered, Scanned, TypeOK
<1>LockForRecovery. CASE LockForRecovery(p)
  BY <1>LockForRecovery, <1>1 DEF LockForRecovery, TypeOK
<1>Inspect. CASE Inspect(p)
  BY <1>Inspect, <1>1 DEF Inspect, NextJournal, Reject, TypeOK
<1>Undo. CASE Undo(p)
  <2>1. UNCHANGED <<journal, scan, txn>> /\ (pc' = pc \/ pc' = [pc EXCEPT ![p] = "rejected"])
    BY <1>Undo, OthersKept
  <2>2. \A q \in Procs : pc'[q] = "rename" => pc[q] = "rename"
    BY <2>1 DEF TypeOK
  <2> QED
    BY <1>1, <2>1, <2>2
<1>Undone. CASE Undone(p)
  BY <1>Undone, <1>1 DEF Undone, TypeOK
<1>RemoveEntry. CASE RemoveEntry(p)
  BY <1>RemoveEntry, <1>1 DEF RemoveEntry, TypeOK
<1>RemoveStage. CASE RemoveStage(p)
  BY <1>RemoveStage, <1>1 DEF RemoveStage, TypeOK
<1>RemoveRecord. CASE RemoveRecord(p)
  BY <1>RemoveRecord, <1>1 DEF RemoveRecord, TypeOK
<1>RemoveJournal. CASE RemoveJournal(p)
  BY <1>RemoveJournal, <1>2 DEF RemoveJournal, TypeOK, Locked
<1>LockForPublication. CASE LockForPublication(p)
  BY <1>LockForPublication, <1>1 DEF LockForPublication, TypeOK
<1>CreateStage. CASE CreateStage(p)
  BY <1>CreateStage, <1>1 DEF CreateStage, TypeOK
<1>CreateJournal. CASE CreateJournal(p)
  <2>1. /\ pc[p] = "create" /\ UNCHANGED <<txn, scan>> /\ txn[p] \in Txns
        /\ journal' = [journal EXCEPT ![txn[p]] = "tmp"]
        /\ \A q \in Procs : pc'[q] = "rename" => q = p
    BY <1>CreateJournal, HasTxn, Exclusive DEF CreateJournal, TypeOK, Locked
  <2>2. \A q \in Procs : txn[p] \notin unseen[q] /\ unseen[q] \subseteq Txns
    BY <2>1 DEF HeadersKept, TypeOK
  <2>3. journal'[txn[p]] = "tmp" /\ \A t \in Txns \ {txn[p]} : journal'[t] = journal[t]
    BY <2>1 DEF TypeOK
  <2> QED
    BY <2>1, <2>2, <2>3 DEF Named
<1>RenameJournal. CASE RenameJournal(p)
  BY <1>RenameJournal, <1>2 DEF RenameJournal, TypeOK, Locked
<1>Produce. CASE Produce(p)
  BY <1>Produce, <1>1 DEF Produce, TypeOK
<1>MarkPrepared. CASE MarkPrepared(p)
  BY <1>MarkPrepared, <1>1 DEF MarkPrepared, TypeOK
<1>Install. CASE BackUp(p) \/ Install(p)
  BY <1>Install, <1>1, InstallCases
<1>Commit. CASE Commit(p)
  BY <1>Commit, <1>1 DEF Commit, TypeOK
<1>RollBack. CASE RollBack(p)
  BY <1>RollBack, <1>1, RollBackCases
<1>RolledBack. CASE RolledBack(p)
  BY <1>RolledBack, <1>1 DEF RolledBack, TypeOK
<1>JournalFails. CASE JournalFails(p)
  BY <1>JournalFails, <1>2 DEF JournalFails, TypeOK, Locked
<1>ProduceFails. CASE ProduceFails(p)
  BY <1>ProduceFails, <1>1 DEF ProduceFails, TypeOK
<1>InstallFails. CASE InstallFails(p)
  BY <1>InstallFails, <1>1 DEF InstallFails, TypeOK
<1>End. CASE Exit(p) \/ Kill(p)
  <2>1. /\ UNCHANGED journal
        /\ \A q \in Procs : \/ unseen'[q] = {}
                            \/ unseen'[q] = unseen[q] /\ temps'[q] = temps[q]
        /\ \A q \in Procs : pc'[q] = "rename" => pc[q] = "rename" /\ txn'[q] = txn[q]
    BY <1>End DEF Exit, Kill, Forget, TypeOK
  <2> QED
    BY <2>1 DEF Named
<1> QED
  BY <1>Scan, <1>InspectEntry, <1>RetireTemporary, <1>ReadHeader, <1>Recovered,
     <1>LockForRecovery, <1>Inspect, <1>Undo, <1>Undone,
     <1>RemoveEntry, <1>RemoveStage, <1>RemoveRecord, <1>RemoveJournal, <1>LockForPublication,
     <1>CreateStage, <1>CreateJournal, <1>RenameJournal, <1>Produce, <1>MarkPrepared, <1>Install,
     <1>Commit, <1>RollBack, <1>RolledBack, <1>JournalFails, <1>ProduceFails, <1>InstallFails,
     <1>End
     DEF Recover, CleanUp, Publish, Fail

-----------------------------------------------------------------------------
(* A journal is refused only without its header or after a cut. *)
LEMMA StepRefused ==
    ASSUME IInv, TypeOK', NEW p \in Procs,
           Recover(p) \/ CleanUp(p) \/ Publish(p) \/ Fail(p) \/ Exit(p) \/ Kill(p)
    PROVE  Refused'
<1> USE BoundsAssumption, NoneAssumption, AbsentAssumption, HasTxn
    DEF IInv, Goto, disk, memory, scan, ghosts
<1>a. Txns \subseteq Nat /\ None \notin Txns
  BY DEF Txns
<1>1. ASSUME /\ torn \subseteq torn' /\ (overlapped => overlapped') /\ header' \subseteq header
             /\ \A q \in Procs : pc'[q] = "rejected" =>
                    /\ pc[q] = "rejected" /\ txn'[q] = txn[q]
                    /\ unseen'[q] = unseen[q] /\ temps'[q] = temps[q]
             /\ \A t \in Txns : journal'[t] = journal[t] \/ journal'[t] = "none"
      PROVE  Refused'
  <2>1. ASSUME NEW q \in Procs, pc'[q] = "rejected"
        PROVE  \/ txn'[q] \in torn' \/ overlapped' \/ txn'[q] \notin header'
               \/ txn'[q] \in unseen'[q] /\ journal'[txn'[q]] # ListedAs(q, txn[q])'
    <3>1. /\ txn[q] \in Txns /\ pc[q] = "rejected" /\ txn'[q] = txn[q]
          /\ unseen'[q] = unseen[q] /\ temps'[q] = temps[q]
      BY <1>1, <2>1, HasTxn
    <3>2. ListedAs(q, txn[q])' = ListedAs(q, txn[q]) /\ ListedAs(q, txn[q]) # "none"
      BY <3>1 DEF ListedAs
    <3>3. txn[q] \in torn \/ overlapped \/ txn[q] \notin header \/ Vanished(q, txn[q])
      BY <3>1 DEF Refused
    <3> QED
      BY <1>1, <3>1, <3>2, <3>3 DEF Vanished
  <2> QED
    BY <2>1 DEF Refused, Vanished
<1>Scan. CASE Scan(p)
  BY <1>1, <1>Scan DEF Scan, TypeOK
<1>InspectEntry. CASE InspectEntry(p)
  <2>1. CASE UNCHANGED pc
    BY <1>1, <1>InspectEntry, <2>1 DEF InspectEntry, TypeOK
  <2>2. CASE pc' # pc
    <3>1. /\ pc[p] = "recover" /\ UNCHANGED <<journal, header, torn, overlapped, scan>>
          /\ pc' = [pc EXCEPT ![p] = "rejected"]
          /\ \A q \in Procs \ {p} : txn'[q] = txn[q]
          /\ txn'[p] \in unseen[p] /\ journal[txn'[p]] # ListedAs(p, txn'[p])
      BY <1>InspectEntry, <2>2 DEF InspectEntry, TypeOK
    <3> QED
      BY <3>1 DEF Refused, Vanished, ListedAs, TypeOK
  <2> QED
    BY <2>1, <2>2
<1>RetireTemporary. CASE RetireTemporary(p)
  BY <1>1, <1>RetireTemporary DEF RetireTemporary, TypeOK
<1>ReadHeader. CASE ReadHeader(p)
  BY <1>ReadHeader DEF ReadHeader, Scanned, Refused, Vanished, ListedAs, TypeOK
<1>Inspect. CASE Inspect(p)
  <2>1. CASE txn[p] \in header \/ journal[txn[p]] = "none"
    BY <1>1, <1>Inspect, <2>1 DEF Inspect, NextJournal, TypeOK
  <2>2. CASE txn[p] \notin header /\ journal[txn[p]] # "none"
    BY <1>Inspect, <2>2 DEF Inspect, Reject, Refused, Vanished, ListedAs, TypeOK
  <2> QED
    BY <2>1, <2>2
<1>CreateJournal. CASE CreateJournal(p)
  <2>1. /\ pc[p] = "create" /\ UNCHANGED <<txn, scan, torn, overlapped>>
        /\ \A q \in Procs : pc'[q] = "rejected" => pc[q] = "rejected" /\ q # p
        /\ \A t \in Txns \ {txn[p]} : journal'[t] = journal[t] /\ (t \in header' <=> t \in header)
    BY <1>CreateJournal DEF CreateJournal, TypeOK
  <2>2. \A q \in Procs : pc'[q] = "rejected" => txn[q] \in Txns /\ txn[q] # txn[p]
    BY <2>1, HasTxn DEF HeadersKept
  <2> QED
    BY <2>1, <2>2 DEF Refused, Vanished, ListedAs
<1>RenameJournal. CASE RenameJournal(p)
  <2>1. /\ pc[p] = "rename" /\ UNCHANGED <<txn, scan, torn, overlapped, header>>
        /\ \A q \in Procs : pc'[q] = "rejected" => pc[q] = "rejected"
        /\ \A t \in Txns \ {txn[p]} : journal'[t] = journal[t]
    BY <1>RenameJournal DEF RenameJournal, TypeOK
  <2>2. txn[p] \in header /\ journal[txn[p]] = "tmp"
    BY <2>1 DEF HeadersKept, Named
  <2>3. ASSUME NEW q \in Procs, pc'[q] = "rejected", Vanished(q, txn[q]) PROVE txn[q] # txn[p]
    BY <2>2, <2>3 DEF Vanished, ListedAs, Named
  <2>4. \A q \in Procs : pc'[q] = "rejected" => txn[q] \in Txns
    BY <2>1, HasTxn
  <2> QED
    BY <2>1, <2>2, <2>3, <2>4 DEF Refused, Vanished, ListedAs
<1>Recovered. CASE Recovered(p)
  BY <1>1, <1>Recovered DEF Recovered, Scanned, TypeOK
<1>LockForRecovery. CASE LockForRecovery(p)
  BY <1>1, <1>LockForRecovery DEF LockForRecovery, TypeOK
<1>Undone. CASE Undone(p)
  BY <1>1, <1>Undone DEF Undone, TypeOK
<1>RemoveEntry. CASE RemoveEntry(p)
  BY <1>1, <1>RemoveEntry DEF RemoveEntry, TypeOK
<1>RemoveStage. CASE RemoveStage(p)
  BY <1>1, <1>RemoveStage DEF RemoveStage, TypeOK
<1>RemoveRecord. CASE RemoveRecord(p)
  BY <1>1, <1>RemoveRecord DEF RemoveRecord, TypeOK
<1>RemoveJournal. CASE RemoveJournal(p)
  BY <1>1, <1>RemoveJournal DEF RemoveJournal, TypeOK
<1>LockForPublication. CASE LockForPublication(p)
  BY <1>1, <1>LockForPublication DEF LockForPublication, TypeOK
<1>CreateStage. CASE CreateStage(p)
  BY <1>1, <1>CreateStage DEF CreateStage, TypeOK
<1>Produce. CASE Produce(p)
  BY <1>1, <1>Produce DEF Produce, TypeOK
<1>MarkPrepared. CASE MarkPrepared(p)
  BY <1>1, <1>MarkPrepared DEF MarkPrepared, TypeOK
<1>Commit. CASE Commit(p)
  BY <1>1, <1>Commit DEF Commit, TypeOK
<1>RolledBack. CASE RolledBack(p)
  BY <1>1, <1>RolledBack DEF RolledBack, TypeOK
<1>JournalFails. CASE JournalFails(p)
  BY <1>1, <1>JournalFails DEF JournalFails, TypeOK
<1>ProduceFails. CASE ProduceFails(p)
  BY <1>1, <1>ProduceFails DEF ProduceFails, TypeOK
<1>InstallFails. CASE InstallFails(p)
  BY <1>1, <1>InstallFails DEF InstallFails, TypeOK
<1>End. CASE Exit(p) \/ Kill(p)
  BY <1>1, <1>End DEF Exit, Kill, Forget, TypeOK
<1>Undo. CASE Undo(p)
  <2>1. ASSUME NEW o \in left[p], ~Undoable(txn[p], o), ~overlapped
        PROVE  txn[p] \in torn
    <3>1. /\ txn[p] \in Txns /\ pc[p] = "undo" /\ Pending(txn[p]) /\ o \in Outputs
          /\ \A q \in Procs : pc[q] # "clean"
      BY <1>Undo, UndoCases, Exclusive DEF Restoring, TypeOK, Locked
    <3>2. ~Locatable(txn[p], o)
      BY <2>1 DEF Undoable, Locatable
    <3> QED
      BY <2>1, <3>1, <3>2 DEF Recoverable
  <2>2. UNCHANGED <<journal, header, torn, overlapped, txn, scan>>
    BY <1>Undo, UndoCases DEF Reject
  <2>3. \/ UNCHANGED pc
        \/ /\ \E o \in left[p] : ~Undoable(txn[p], o)
           /\ pc' = [pc EXCEPT ![p] = "rejected"]
    BY <1>Undo, UndoCases DEF Reject
  <2> QED
    BY <2>1, <2>2, <2>3 DEF Refused, Vanished, ListedAs, TypeOK
<1>Install. CASE BackUp(p) \/ Install(p)
  BY <1>1, <1>Install, InstallCases
<1>RollBack. CASE RollBack(p)
  BY <1>1, <1>RollBack, RollBackCases
<1> QED
  BY <1>Scan, <1>InspectEntry, <1>RetireTemporary, <1>ReadHeader, <1>Recovered,
     <1>LockForRecovery, <1>Inspect, <1>Undo, <1>Undone,
     <1>RemoveEntry, <1>RemoveStage, <1>RemoveRecord, <1>RemoveJournal, <1>LockForPublication,
     <1>CreateStage, <1>CreateJournal, <1>RenameJournal, <1>Produce, <1>MarkPrepared, <1>Install,
     <1>Commit, <1>RollBack, <1>RolledBack, <1>JournalFails, <1>ProduceFails, <1>InstallFails,
     <1>End
     DEF Recover, CleanUp, Publish, Fail

-----------------------------------------------------------------------------
(* A transaction moves nothing before it is prepared. *)
LEMMA StepStaging ==
    ASSUME IInv, TypeOK', NEW p \in Procs,
           Recover(p) \/ CleanUp(p) \/ Publish(p) \/ Fail(p) \/ Exit(p) \/ Kill(p)
    PROVE  Staging'
<1> USE BoundsAssumption, NoneAssumption, AbsentAssumption, HasTxn
    DEF IInv, Goto, disk, memory, scan, ghosts
<1>a. Txns \subseteq Nat /\ None \notin Txns
  BY DEF Txns
<1>Scan. CASE Scan(p)
  BY <1>a, <1>Scan, Exclusive DEF Scan, Staging, Numbered, TypeOK, Locked
<1>InspectEntry. CASE InspectEntry(p)
  BY <1>a, <1>InspectEntry, Exclusive DEF InspectEntry, Staging, Numbered, TypeOK, Locked
<1>RetireTemporary. CASE RetireTemporary(p)
  BY <1>a, <1>RetireTemporary, Exclusive DEF RetireTemporary, Staging, Numbered, TypeOK, Locked
<1>ReadHeader. CASE ReadHeader(p)
  BY <1>a, <1>ReadHeader, Exclusive DEF ReadHeader, Scanned, Staging, Numbered, TypeOK, Locked
<1>Recovered. CASE Recovered(p)
  BY <1>a, <1>Recovered, Exclusive DEF Recovered, Scanned, Staging, Numbered, TypeOK, Locked
<1>LockForRecovery. CASE LockForRecovery(p)
  BY <1>a, <1>LockForRecovery, Exclusive DEF LockForRecovery, Staging, Numbered, TypeOK, Locked
<1>Inspect. CASE Inspect(p)
  BY <1>a, <1>Inspect, Exclusive DEF Inspect, NextJournal, Reject, Staging, Numbered, TypeOK,
         Locked
<1>Undone. CASE Undone(p)
  BY <1>a, <1>Undone, Exclusive DEF Undone, Staging, Numbered, TypeOK, Locked
<1>RemoveEntry. CASE RemoveEntry(p)
  BY <1>a, <1>RemoveEntry, Exclusive DEF RemoveEntry, Staging, Numbered, TypeOK, Locked
<1>RemoveStage. CASE RemoveStage(p)
  BY <1>a, <1>RemoveStage, Exclusive DEF RemoveStage, Staging, Numbered, TypeOK, Locked
<1>RemoveRecord. CASE RemoveRecord(p)
  BY <1>a, <1>RemoveRecord, Exclusive DEF RemoveRecord, Staging, Numbered, TypeOK, Locked
<1>RemoveJournal. CASE RemoveJournal(p)
  BY <1>a, <1>RemoveJournal, Exclusive DEF RemoveJournal, Staging, Numbered, TypeOK, Locked
<1>LockForPublication. CASE LockForPublication(p)
  BY <1>a, <1>LockForPublication, Exclusive DEF LockForPublication, Staging, Numbered, TypeOK,
         Locked
<1>CreateStage. CASE CreateStage(p)
  BY <1>a, <1>CreateStage, Exclusive DEF CreateStage, Staging, Numbered, TypeOK, Locked
<1>CreateJournal. CASE CreateJournal(p)
  BY <1>a, <1>CreateJournal, Exclusive DEF CreateJournal, Staging, Numbered, TypeOK, Locked
<1>RenameJournal. CASE RenameJournal(p)
  BY <1>a, <1>RenameJournal, Exclusive DEF RenameJournal, Staging, Numbered, TypeOK, Locked
<1>Produce. CASE Produce(p)
  BY <1>a, <1>Produce, Exclusive DEF Produce, Staging, Numbered, TypeOK, Locked
<1>MarkPrepared. CASE MarkPrepared(p)
  BY <1>a, <1>MarkPrepared, Exclusive DEF MarkPrepared, Staging, Numbered, TypeOK, Locked
<1>Commit. CASE Commit(p)
  BY <1>a, <1>Commit, Exclusive DEF Commit, Staging, Numbered, TypeOK, Locked
<1>RolledBack. CASE RolledBack(p)
  BY <1>a, <1>RolledBack, Exclusive DEF RolledBack, Staging, Numbered, TypeOK, Locked
<1>JournalFails. CASE JournalFails(p)
  BY <1>a, <1>JournalFails, Exclusive DEF JournalFails, Staging, Numbered, TypeOK, Locked
<1>ProduceFails. CASE ProduceFails(p)
  BY <1>a, <1>ProduceFails, Exclusive DEF ProduceFails, Staging, Numbered, TypeOK, Locked
<1>InstallFails. CASE InstallFails(p)
  BY <1>a, <1>InstallFails, Exclusive DEF InstallFails, Staging, Numbered, TypeOK, Locked
<1>Exit. CASE Exit(p)
  BY <1>a, <1>Exit, Exclusive DEF Exit, Forget, Staging, Numbered, TypeOK, Locked
<1>Kill. CASE Kill(p)
  BY <1>a, <1>Kill, Exclusive DEF Kill, Forget, CutOff, Staging, Numbered, TypeOK, Locked
<1>Undo. CASE Undo(p)
  BY <1>a, <1>Undo, UndoCases, Moves, Exclusive DEF Reject, Staging, Numbered, TypeOK, Locked
<1>Install. CASE BackUp(p) \/ Install(p)
  BY <1>a, <1>Install, InstallCases, Moves, Exclusive DEF Reject, Staging, Numbered, TypeOK,
         Locked
<1>RollBack. CASE RollBack(p)
  BY <1>a, <1>RollBack, RollBackCases, Moves, Exclusive DEF Reject, Staging, Numbered, TypeOK,
         Locked
<1> QED
  BY <1>Scan, <1>InspectEntry, <1>RetireTemporary, <1>ReadHeader, <1>Recovered,
     <1>LockForRecovery, <1>Inspect, <1>Undo, <1>Undone,
     <1>RemoveEntry, <1>RemoveStage, <1>RemoveRecord, <1>RemoveJournal, <1>LockForPublication,
     <1>CreateStage, <1>CreateJournal, <1>RenameJournal, <1>Produce, <1>MarkPrepared, <1>Install,
     <1>Commit, <1>RollBack, <1>RolledBack, <1>JournalFails, <1>ProduceFails, <1>InstallFails,
     <1>Exit, <1>Kill
     DEF Recover, CleanUp, Publish, Fail

-----------------------------------------------------------------------------
(* A publisher records every move it makes. *)
LEMMA StepInstalling ==
    ASSUME IInv, TypeOK', NEW p \in Procs,
           Recover(p) \/ CleanUp(p) \/ Publish(p) \/ Fail(p) \/ Exit(p) \/ Kill(p)
    PROVE  Installing'
<1> USE BoundsAssumption, NoneAssumption, AbsentAssumption, HasTxn
    DEF IInv, Goto, disk, memory, scan, ghosts
<1>a. Txns \subseteq Nat /\ None \notin Txns
  BY DEF Txns
<1>Scan. CASE Scan(p)
  BY <1>a, <1>Scan, Exclusive DEF Scan, Installing, Moved, Staging, Pending, TypeOK, Locked,
         Exists
<1>InspectEntry. CASE InspectEntry(p)
  BY <1>a, <1>InspectEntry, Exclusive DEF InspectEntry, Installing, Moved, Staging, Pending, TypeOK,
         Locked, Exists
<1>RetireTemporary. CASE RetireTemporary(p)
  BY <1>a, <1>RetireTemporary, Exclusive DEF RetireTemporary, Installing, Moved, Staging, Pending, TypeOK,
         Locked, Exists
<1>ReadHeader. CASE ReadHeader(p)
  BY <1>a, <1>ReadHeader, Exclusive DEF ReadHeader, Scanned, Installing, Moved, Staging, Pending, TypeOK,
         Locked, Exists
<1>Recovered. CASE Recovered(p)
  BY <1>a, <1>Recovered, Exclusive DEF Recovered, Scanned, Installing, Moved, Staging, Pending, TypeOK,
         Locked, Exists
<1>LockForRecovery. CASE LockForRecovery(p)
  BY <1>a, <1>LockForRecovery, Exclusive DEF LockForRecovery, Installing, Moved, Staging,
         Pending, TypeOK, Locked, Exists
<1>Inspect. CASE Inspect(p)
  BY <1>a, <1>Inspect, Exclusive DEF Inspect, NextJournal, Reject, Installing, Moved, Staging,
         Pending, TypeOK, Locked, Exists
<1>Undone. CASE Undone(p)
  BY <1>a, <1>Undone, Exclusive DEF Undone, Installing, Moved, Staging, Pending, TypeOK, Locked,
         Exists
<1>RemoveEntry. CASE RemoveEntry(p)
  BY <1>a, <1>RemoveEntry, Exclusive DEF RemoveEntry, Installing, Moved, Staging, Pending,
         TypeOK, Locked, Exists
<1>RemoveStage. CASE RemoveStage(p)
  BY <1>a, <1>RemoveStage, Exclusive DEF RemoveStage, Installing, Moved, Staging, Pending,
         TypeOK, Locked, Exists
<1>RemoveRecord. CASE RemoveRecord(p)
  BY <1>a, <1>RemoveRecord, Exclusive DEF RemoveRecord, Installing, Moved, Staging, Pending,
         TypeOK, Locked, Exists
<1>RemoveJournal. CASE RemoveJournal(p)
  BY <1>a, <1>RemoveJournal, Exclusive DEF RemoveJournal, Installing, Moved, Staging, Pending,
         TypeOK, Locked, Exists
<1>LockForPublication. CASE LockForPublication(p)
  BY <1>a, <1>LockForPublication, Exclusive DEF LockForPublication, Installing, Moved, Staging,
         Pending, TypeOK, Locked, Exists
<1>CreateStage. CASE CreateStage(p)
  BY <1>a, <1>CreateStage, Exclusive DEF CreateStage, Installing, Moved, Staging, Pending,
         TypeOK, Locked, Exists
<1>CreateJournal. CASE CreateJournal(p)
  BY <1>a, <1>CreateJournal, Exclusive DEF CreateJournal, Installing, Moved, Staging, Pending,
         TypeOK, Locked, Exists
<1>RenameJournal. CASE RenameJournal(p)
  BY <1>a, <1>RenameJournal, Exclusive DEF RenameJournal, Installing, Moved, Staging, Pending,
         TypeOK, Locked, Exists
<1>Produce. CASE Produce(p)
  BY <1>a, <1>Produce, Exclusive DEF Produce, Installing, Moved, Staging, Pending, TypeOK,
         Locked, Exists
<1>MarkPrepared. CASE MarkPrepared(p)
  <2>1. /\ pc' = [pc EXCEPT ![p] = "install"] /\ UNCHANGED <<txn, stage, temp, backup, dest>>
        /\ prepared' = [prepared EXCEPT ![txn[p]] = Existing]
        /\ backed_up'[p] = {} /\ installed'[p] = {} /\ txn[p] \in Txns
    BY <1>MarkPrepared DEF MarkPrepared, TypeOK
  <2>2. \A q \in Procs : pc'[q] \in {"install", "rollback"} => q = p
    BY <1>MarkPrepared, <2>1, Exclusive DEF MarkPrepared, TypeOK, Locked
  <2>3. prepared'[txn[p]] = Existing /\ None # Existing
    BY <2>1 DEF TypeOK, Existing
  <2>4. stage[txn[p]] = "staged"
        /\ \A o \in Outputs : backup[txn[p]][o] = Absent /\ temp[txn[p]][o] = txn[p]
    BY <1>MarkPrepared DEF MarkPrepared, Staging
  <2>5. Pending(txn[p])' /\ \A o \in Outputs : Moved(p, txn[p], o)'
    BY <2>1, <2>3, <2>4 DEF Pending, Moved, Existing, Exists
  <2> QED
    BY <2>2, <2>5, <2>1 DEF Installing
<1>Commit. CASE Commit(p)
  BY <1>a, <1>Commit, Exclusive DEF Commit, Installing, Moved, Staging, Pending, TypeOK, Locked,
         Exists
<1>RolledBack. CASE RolledBack(p)
  BY <1>a, <1>RolledBack, Exclusive DEF RolledBack, Installing, Moved, Staging, Pending, TypeOK,
         Locked, Exists
<1>JournalFails. CASE JournalFails(p)
  BY <1>a, <1>JournalFails, Exclusive DEF JournalFails, Installing, Moved, Staging, Pending,
         TypeOK, Locked, Exists
<1>ProduceFails. CASE ProduceFails(p)
  BY <1>a, <1>ProduceFails, Exclusive DEF ProduceFails, Installing, Moved, Staging, Pending,
         TypeOK, Locked, Exists
<1>InstallFails. CASE InstallFails(p)
  BY <1>a, <1>InstallFails, Exclusive DEF InstallFails, Installing, Moved, Staging, Pending,
         TypeOK, Locked, Exists
<1>Exit. CASE Exit(p)
  BY <1>a, <1>Exit, Exclusive DEF Exit, Forget, Installing, Moved, Staging, Pending, TypeOK,
         Locked, Exists
<1>Kill. CASE Kill(p)
  BY <1>a, <1>Kill, Exclusive DEF Kill, Forget, CutOff, Installing, Moved, Staging, Pending,
         TypeOK, Locked, Exists
<1>Undo. CASE Undo(p)
  BY <1>a, <1>Undo, UndoCases, Moves, Exclusive, SMTT(30)
     DEF Reject, Installing, Moved, Staging, Pending, TypeOK, Locked, Exists
<1>Install. CASE BackUp(p) \/ Install(p)
  <2>1. /\ txn[p] \in Txns /\ txn[p] \in Nat /\ pc[p] \in {"install", "rollback"}
        /\ UNCHANGED <<stage, prepared, pc, txn>>
    BY <1>a, <1>Install, InstallCases
  <2>2. Pending(txn[p]) /\ \A o \in Outputs : Moved(p, txn[p], o)
    BY <2>1 DEF Installing
  <2>t. /\ dest \in [Outputs -> Contents] /\ temp[txn[p]] \in [Outputs -> Contents]
        /\ backup[txn[p]] \in [Outputs -> Contents]
        /\ installed \in [Procs -> SUBSET Outputs] /\ backed_up \in [Procs -> SUBSET Outputs]
    BY <2>1 DEF TypeOK
  <2>3. PICK o \in Outputs :
            \/ o \in prepared[txn[p]] \ backed_up[p] /\ SetAside(txn[p], o)
               /\ o \notin installed[p] /\ backed_up' = [backed_up EXCEPT ![p] = @ \cup {o}]
               /\ UNCHANGED installed
            \/ o \notin prepared[txn[p]] \ backed_up[p] /\ PutInPlace(txn[p], o)
               /\ o \notin installed[p] /\ installed' = [installed EXCEPT ![p] = @ \cup {o}]
               /\ UNCHANGED backed_up
    BY <1>Install, InstallCases
  <2>4. ASSUME o \in prepared[txn[p]] \ backed_up[p], SetAside(txn[p], o), o \notin installed[p],
               backed_up' = [backed_up EXCEPT ![p] = @ \cup {o}], UNCHANGED installed
        PROVE  \A x \in Outputs : Moved(p, txn[p], x)'
    <3>1. \A x \in Outputs \ {o} : /\ dest'[x] = dest[x] /\ temp'[txn[p]][x] = temp[txn[p]][x]
                                   /\ backup'[txn[p]][x] = backup[txn[p]][x]
                                   /\ (x \in installed'[p] <=> x \in installed[p])
                                   /\ (x \in backed_up'[p] <=> x \in backed_up[p])
      BY <2>1, <2>4, <2>t, Moves
    <3>2. \A x \in Outputs \ {o} : Moved(p, txn[p], x)'
      BY <2>1, <2>2, <3>1 DEF Moved, Exists
    <3>3. Moved(p, txn[p], o)'
      <4>1. o \in backed_up'[p] /\ o \notin installed'[p]
        BY <2>1, <2>4, <2>t
      <4>2. Moved(p, txn[p], o)
        BY <2>2
      <4> QED
        BY <2>1, <2>4, <4>1, <4>2, Moves, AbsentAssumption DEF Moved, Exists
    <3> QED
      BY <3>2, <3>3
  <2>5. ASSUME o \notin prepared[txn[p]] \ backed_up[p], PutInPlace(txn[p], o), o \notin installed[p],
               installed' = [installed EXCEPT ![p] = @ \cup {o}], UNCHANGED backed_up
        PROVE  \A x \in Outputs : Moved(p, txn[p], x)'
    <3>1. \A x \in Outputs \ {o} : /\ dest'[x] = dest[x] /\ temp'[txn[p]][x] = temp[txn[p]][x]
                                   /\ backup'[txn[p]][x] = backup[txn[p]][x]
                                   /\ (x \in installed'[p] <=> x \in installed[p])
                                   /\ (x \in backed_up'[p] <=> x \in backed_up[p])
      BY <2>1, <2>5, <2>t, Moves
    <3>2. \A x \in Outputs \ {o} : Moved(p, txn[p], x)'
      BY <2>1, <2>2, <3>1 DEF Moved, Exists
    <3>3. Moved(p, txn[p], o)'
      <4>1. o \in installed'[p] /\ (o \in backed_up'[p] <=> o \in backed_up[p])
        BY <2>1, <2>5, <2>t
      <4>2. Moved(p, txn[p], o)
        BY <2>2
      <4> QED
        BY <2>1, <2>5, <4>1, <4>2, Moves, AbsentAssumption DEF Moved, Exists
    <3> QED
      BY <3>2, <3>3
  <2>6. \A x \in Outputs : Moved(p, txn[p], x)'
    BY <2>3, <2>4, <2>5
  <2>7. \A q \in Procs : pc'[q] \in {"install", "rollback"} => q = p
    BY <2>1, Exclusive DEF Locked
  <2>8. Pending(txn[p])'
    BY <2>1, <2>2 DEF Pending
  <2> QED
    BY <2>1, <2>6, <2>7, <2>8 DEF Installing
<1>RollBack. CASE RollBack(p)
  <2>1. /\ txn[p] \in Txns /\ txn[p] \in Nat /\ pc[p] \in {"install", "rollback"}
        /\ UNCHANGED <<stage, prepared, pc, txn>>
    BY <1>a, <1>RollBack, RollBackCases
  <2>2. Pending(txn[p]) /\ \A o \in Outputs : Moved(p, txn[p], o)
    BY <2>1 DEF Installing
  <2>t. /\ dest \in [Outputs -> Contents] /\ temp[txn[p]] \in [Outputs -> Contents]
        /\ backup[txn[p]] \in [Outputs -> Contents]
        /\ installed \in [Procs -> SUBSET Outputs] /\ backed_up \in [Procs -> SUBSET Outputs]
    BY <2>1 DEF TypeOK
  <2>3. PICK o \in Outputs :
            \/ o \in installed[p] /\ Withdraw(txn[p], o) /\ installed' = [installed EXCEPT ![p] = @ \ {o}]
               /\ UNCHANGED backed_up
            \/ o \in backed_up[p] \ installed[p] /\ Restore(txn[p], o) /\ backed_up' = [backed_up EXCEPT ![p] = @ \ {o}]
               /\ UNCHANGED installed
    BY <1>RollBack, RollBackCases
  <2>4. ASSUME o \in installed[p], Withdraw(txn[p], o),
               installed' = [installed EXCEPT ![p] = @ \ {o}], UNCHANGED backed_up
        PROVE  \A x \in Outputs : Moved(p, txn[p], x)'
    <3>1. \A x \in Outputs \ {o} : /\ dest'[x] = dest[x] /\ temp'[txn[p]][x] = temp[txn[p]][x]
                                   /\ backup'[txn[p]][x] = backup[txn[p]][x]
                                   /\ (x \in installed'[p] <=> x \in installed[p])
                                   /\ (x \in backed_up'[p] <=> x \in backed_up[p])
      BY <2>1, <2>4, <2>t, Moves
    <3>2. \A x \in Outputs \ {o} : Moved(p, txn[p], x)'
      BY <2>1, <2>2, <3>1 DEF Moved, Exists
    <3>3. Moved(p, txn[p], o)'
      <4>1. o \notin installed'[p] /\ (o \in backed_up'[p] <=> o \in backed_up[p])
        BY <2>1, <2>4, <2>t
      <4>2. Moved(p, txn[p], o)
        BY <2>2
      <4> QED
        BY <2>1, <2>4, <4>1, <4>2, Moves, AbsentAssumption DEF Moved, Exists
    <3> QED
      BY <3>2, <3>3
  <2>5. ASSUME o \in backed_up[p] \ installed[p], Restore(txn[p], o),
               backed_up' = [backed_up EXCEPT ![p] = @ \ {o}], UNCHANGED installed
        PROVE  \A x \in Outputs : Moved(p, txn[p], x)'
    <3>1. \A x \in Outputs \ {o} : /\ dest'[x] = dest[x] /\ temp'[txn[p]][x] = temp[txn[p]][x]
                                   /\ backup'[txn[p]][x] = backup[txn[p]][x]
                                   /\ (x \in installed'[p] <=> x \in installed[p])
                                   /\ (x \in backed_up'[p] <=> x \in backed_up[p])
      BY <2>1, <2>5, <2>t, Moves
    <3>2. \A x \in Outputs \ {o} : Moved(p, txn[p], x)'
      BY <2>1, <2>2, <3>1 DEF Moved, Exists
    <3>3. Moved(p, txn[p], o)'
      <4>1. o \notin backed_up'[p] /\ o \notin installed'[p]
        BY <2>1, <2>5, <2>t
      <4>2. Moved(p, txn[p], o)
        BY <2>2
      <4> QED
        BY <2>1, <2>5, <4>1, <4>2, Moves, AbsentAssumption DEF Moved, Exists
    <3> QED
      BY <3>2, <3>3
  <2>6. \A x \in Outputs : Moved(p, txn[p], x)'
    BY <2>3, <2>4, <2>5
  <2>7. \A q \in Procs : pc'[q] \in {"install", "rollback"} => q = p
    BY <2>1, Exclusive DEF Locked
  <2>8. Pending(txn[p])'
    BY <2>1, <2>2 DEF Pending
  <2> QED
    BY <2>1, <2>6, <2>7, <2>8 DEF Installing
<1> QED
  BY <1>Scan, <1>InspectEntry, <1>RetireTemporary, <1>ReadHeader, <1>Recovered,
     <1>LockForRecovery, <1>Inspect, <1>Undo, <1>Undone,
     <1>RemoveEntry, <1>RemoveStage, <1>RemoveRecord, <1>RemoveJournal, <1>LockForPublication,
     <1>CreateStage, <1>CreateJournal, <1>RenameJournal, <1>Produce, <1>MarkPrepared, <1>Install,
     <1>Commit, <1>RollBack, <1>RolledBack, <1>JournalFails, <1>ProduceFails, <1>InstallFails,
     <1>Exit, <1>Kill
     DEF Recover, CleanUp, Publish, Fail

-----------------------------------------------------------------------------
(* Recovery and rollback put every output back before they clean up. *)
LEMMA StepRestoring ==
    ASSUME IInv, TypeOK', NEW p \in Procs,
           Recover(p) \/ CleanUp(p) \/ Publish(p) \/ Fail(p) \/ Exit(p) \/ Kill(p)
    PROVE  Restoring'
<1> USE BoundsAssumption, NoneAssumption, AbsentAssumption, HasTxn
    DEF IInv, Goto, disk, memory, scan, ghosts
<1>a. Txns \subseteq Nat /\ None \notin Txns
  BY DEF Txns
<1>Scan. CASE Scan(p)
  BY <1>a, <1>Scan, Exclusive DEF Scan, Restoring, Installing, Moved, PutBack, Staging, Pending,
         TypeOK, Locked, Exists
<1>InspectEntry. CASE InspectEntry(p)
  BY <1>a, <1>InspectEntry, Exclusive DEF InspectEntry, Restoring, Installing, Moved, PutBack,
         Staging, Pending, TypeOK, Locked, Exists
<1>RetireTemporary. CASE RetireTemporary(p)
  BY <1>a, <1>RetireTemporary, Exclusive DEF RetireTemporary, Restoring, Installing, Moved, PutBack,
         Staging, Pending, TypeOK, Locked, Exists
<1>ReadHeader. CASE ReadHeader(p)
  BY <1>a, <1>ReadHeader, Exclusive DEF ReadHeader, Scanned, Restoring, Installing, Moved, PutBack,
         Staging, Pending, TypeOK, Locked, Exists
<1>Recovered. CASE Recovered(p)
  BY <1>a, <1>Recovered, Exclusive DEF Recovered, Scanned, Restoring, Installing, Moved, PutBack,
         Staging, Pending, TypeOK, Locked, Exists
<1>LockForRecovery. CASE LockForRecovery(p)
  BY <1>a, <1>LockForRecovery, Exclusive DEF LockForRecovery, Restoring, Installing, Moved,
         PutBack, Staging, Pending, TypeOK, Locked, Exists
<1>Inspect. CASE Inspect(p)
  BY <1>a, <1>Inspect, Exclusive DEF Inspect, NextJournal, Reject, Restoring, Installing, Moved,
         PutBack, Staging, Pending, TypeOK, Locked, Exists
<1>Undone. CASE Undone(p)
  BY <1>a, <1>Undone, Exclusive DEF Undone, Restoring, Installing, Moved, PutBack, Staging,
         Pending, TypeOK, Locked, Exists
<1>RemoveEntry. CASE RemoveEntry(p)
  BY <1>a, <1>RemoveEntry, Exclusive DEF RemoveEntry, Restoring, Installing, Moved, PutBack,
         Staging, Pending, TypeOK, Locked, Exists
<1>RemoveStage. CASE RemoveStage(p)
  BY <1>a, <1>RemoveStage, Exclusive DEF RemoveStage, Restoring, Installing, Moved, PutBack,
         Staging, Pending, TypeOK, Locked, Exists
<1>RemoveRecord. CASE RemoveRecord(p)
  BY <1>a, <1>RemoveRecord, Exclusive DEF RemoveRecord, Restoring, Installing, Moved, PutBack,
         Staging, Pending, TypeOK, Locked, Exists
<1>RemoveJournal. CASE RemoveJournal(p)
  BY <1>a, <1>RemoveJournal, Exclusive DEF RemoveJournal, Restoring, Installing, Moved, PutBack,
         Staging, Pending, TypeOK, Locked, Exists
<1>LockForPublication. CASE LockForPublication(p)
  BY <1>a, <1>LockForPublication, Exclusive DEF LockForPublication, Restoring, Installing,
         Moved, PutBack, Staging, Pending, TypeOK, Locked, Exists
<1>CreateStage. CASE CreateStage(p)
  BY <1>a, <1>CreateStage, Exclusive DEF CreateStage, Restoring, Installing, Moved, PutBack,
         Staging, Pending, TypeOK, Locked, Exists
<1>CreateJournal. CASE CreateJournal(p)
  BY <1>a, <1>CreateJournal, Exclusive DEF CreateJournal, Restoring, Installing, Moved, PutBack,
         Staging, Pending, TypeOK, Locked, Exists
<1>RenameJournal. CASE RenameJournal(p)
  BY <1>a, <1>RenameJournal, Exclusive DEF RenameJournal, Restoring, Installing, Moved, PutBack,
         Staging, Pending, TypeOK, Locked, Exists
<1>Produce. CASE Produce(p)
  BY <1>a, <1>Produce, Exclusive DEF Produce, Restoring, Installing, Moved, PutBack, Staging,
         Pending, TypeOK, Locked, Exists
<1>MarkPrepared. CASE MarkPrepared(p)
  BY <1>a, <1>MarkPrepared, Exclusive DEF MarkPrepared, Restoring, Installing, Moved, PutBack,
         Staging, Pending, TypeOK, Locked, Exists
<1>Commit. CASE Commit(p)
  BY <1>a, <1>Commit, Exclusive DEF Commit, Restoring, Installing, Moved, PutBack, Staging,
         Pending, TypeOK, Locked, Exists
<1>RolledBack. CASE RolledBack(p)
  BY <1>a, <1>RolledBack, Exclusive DEF RolledBack, Restoring, Installing, Moved, PutBack,
         Staging, Pending, TypeOK, Locked, Exists
<1>JournalFails. CASE JournalFails(p)
  BY <1>a, <1>JournalFails, Exclusive DEF JournalFails, Restoring, Installing, Moved, PutBack,
         Staging, Pending, TypeOK, Locked, Exists
<1>ProduceFails. CASE ProduceFails(p)
  BY <1>a, <1>ProduceFails, Exclusive DEF ProduceFails, Restoring, Installing, Moved, PutBack,
         Staging, Pending, TypeOK, Locked, Exists
<1>InstallFails. CASE InstallFails(p)
  BY <1>a, <1>InstallFails, Exclusive DEF InstallFails, Restoring, Installing, Moved, PutBack,
         Staging, Pending, TypeOK, Locked, Exists
<1>Exit. CASE Exit(p)
  BY <1>a, <1>Exit, Exclusive DEF Exit, Forget, Restoring, Installing, Moved, PutBack, Staging,
         Pending, TypeOK, Locked, Exists
<1>Kill. CASE Kill(p)
  BY <1>a, <1>Kill, Exclusive DEF Kill, Forget, CutOff, Restoring, Installing, Moved, PutBack,
         Staging, Pending, TypeOK, Locked, Exists
<1>Undo. CASE Undo(p)
  <2>1. /\ txn[p] \in Txns /\ pc[p] = "undo" /\ UNCHANGED <<stage, prepared, txn>>
        /\ pc' = pc \/ pc' = [pc EXCEPT ![p] = "rejected"]
    BY <1>Undo, UndoCases DEF Reject
  <2>2. Pending(txn[p]) /\ \A o \in Outputs \ left[p] : PutBack(txn[p], o)
    BY <2>1 DEF Restoring
  <2>3. \A o \in Outputs : o \notin prepared[txn[p]] => backup[txn[p]][o] = Absent
    BY <2>1, <2>2 DEF SinglePending
  <2>4. ASSUME UNCHANGED pc, NEW x \in Outputs \ left'[p] PROVE PutBack(txn[p], x)'
    <3>1. PICK o \in left[p] :
            /\ Undoable(txn[p], o)
            /\ \/ left' = left /\ Withdraw(txn[p], o)
               \/ /\ left' = [left EXCEPT ![p] = @ \ {o}]
                  /\ \/ o \notin prepared[txn[p]] /\ Withdraw(txn[p], o)
                     \/ /\ o \in prepared[txn[p]] /\ Exists(backup[txn[p]][o])
                        /\ Restore(txn[p], o)
                     \/ /\ IF o \in prepared[txn[p]] THEN ~Exists(backup[txn[p]][o])
                           ELSE Exists(temp[txn[p]][o]) \/ ~Exists(dest[o])
                        /\ UNCHANGED <<dest, temp, backup>>
      <4>1. ~Reject(p)
        BY <2>1, <2>4 DEF Reject, TypeOK
      <4> QED
        BY <1>Undo, <4>1, UndoCases
    <3>2. o \in Outputs /\ (x = o \/ x \notin left[p]) /\ (left' = left => x # o)
      BY <2>4, <3>1 DEF TypeOK
    <3>3. CASE x # o
      <4>1. dest'[x] = dest[x] /\ backup'[txn[p]][x] = backup[txn[p]][x] /\ x \notin left[p]
        BY <2>1, <3>1, <3>2, <3>3, Moves
      <4> QED
        BY <2>1, <2>2, <4>1 DEF PutBack
    <3>4. CASE x = o
      <4>1. \/ o \notin prepared[txn[p]] /\ Withdraw(txn[p], o)
            \/ /\ o \in prepared[txn[p]] /\ Exists(backup[txn[p]][o])
               /\ Restore(txn[p], o)
            \/ /\ IF o \in prepared[txn[p]] THEN ~Exists(backup[txn[p]][o])
                  ELSE Exists(temp[txn[p]][o]) \/ ~Exists(dest[o])
               /\ UNCHANGED <<dest, temp, backup>>
        BY <3>1, <3>2, <3>4
      <4> QED
        BY <2>1, <2>3, <3>1, <3>2, <3>4, <4>1, Moves DEF PutBack, Undoable, Exists
    <3> QED
      BY <3>3, <3>4
  <2>5. \A q \in Procs : pc'[q] \in {"undo", "clean", "retire"} => q = p /\ UNCHANGED pc
    BY <2>1, Exclusive DEF Locked, TypeOK
  <2>6. Pending(txn[p])'
    BY <2>1, <2>2 DEF Pending
  <2> QED
    BY <2>1, <2>4, <2>5, <2>6 DEF Restoring
<1>Install. CASE BackUp(p) \/ Install(p)
  BY <1>a, <1>Install, InstallCases, Moves, Exclusive DEF Reject, Restoring, Installing, Moved,
         PutBack, Staging, Pending, TypeOK, Locked, Exists
<1>RollBack. CASE RollBack(p)
  BY <1>a, <1>RollBack, RollBackCases, Moves, Exclusive DEF Reject, Restoring, Installing,
         Moved, PutBack, Staging, Pending, TypeOK, Locked, Exists
<1> QED
  BY <1>Scan, <1>InspectEntry, <1>RetireTemporary, <1>ReadHeader, <1>Recovered,
     <1>LockForRecovery, <1>Inspect, <1>Undo, <1>Undone,
     <1>RemoveEntry, <1>RemoveStage, <1>RemoveRecord, <1>RemoveJournal, <1>LockForPublication,
     <1>CreateStage, <1>CreateJournal, <1>RenameJournal, <1>Produce, <1>MarkPrepared, <1>Install,
     <1>Commit, <1>RollBack, <1>RolledBack, <1>JournalFails, <1>ProduceFails, <1>InstallFails,
     <1>Exit, <1>Kill
     DEF Recover, CleanUp, Publish, Fail

-----------------------------------------------------------------------------
(* A prepared transaction stays recoverable if its files are left alone,   *)
(* or its clean-up goes on or is cut off.                                  *)
LEMMA NothingMoves ==
    ASSUME SinglePending, Recoverable, UNCHANGED <<dest, overlapped>>, torn \subseteq torn',
           \A t \in Txns : Pending(t)' =>
              /\ Pending(t) /\ prepared'[t] = prepared[t]
              /\ \A o \in Outputs : backup'[t][o] = backup[t][o] \/ backup'[t][o] = Absent
              /\ \/ t \in torn' \/ \E q \in Procs : pc'[q] = "clean" /\ txn'[q] = t
                 \/ /\ temp'[t] = temp[t] /\ backup'[t] = backup[t]
                    /\ \A q \in Procs : pc[q] = "clean" => txn[q] # t
    PROVE  SinglePending' /\ Recoverable'
<1>1. SinglePending'
  BY DEF SinglePending
<1>2. ASSUME ~overlapped', NEW t \in Txns, Pending(t)', t \notin torn',
             \A q \in Procs : pc'[q] = "clean" => txn'[q] # t, NEW o \in Outputs
      PROVE  Locatable(t, o)'
  <2>1. /\ Pending(t) /\ prepared'[t] = prepared[t] /\ t \notin torn /\ ~overlapped
        /\ temp'[t] = temp[t] /\ backup'[t] = backup[t]
        /\ \A q \in Procs : pc[q] = "clean" => txn[q] # t
    BY <1>2
  <2>2. Locatable(t, o)
    BY <2>1 DEF Recoverable
  <2> QED
    BY <2>1, <2>2 DEF Locatable, Exists
<1>3. Recoverable'
  BY <1>2 DEF Recoverable
<1> QED
  BY <1>1, <1>3

(* So it is while a publisher moves the files of its own transaction. *)
LEMMA PublisherMoves ==
    ASSUME IInv, TypeOK', Installing', NEW p \in Procs,
           pc'[p] \in {"install", "rollback"},
           \A t \in Txns \ {txn'[p]} : Pending(t)' =>
              /\ Pending(t) /\ prepared'[t] = prepared[t] /\ backup'[t] = backup[t],
           ~overlapped' => \A t \in Txns \ {txn'[p]} : ~Pending(t)'
    PROVE  SinglePending' /\ Recoverable'
<1>1. \A o \in Outputs : Moved(p, txn[p], o)'
  BY DEF Installing
<1>2. SinglePending'
  <2>1. ASSUME NEW t \in Txns, Pending(t)', NEW o \in Outputs, o \notin prepared'[t]
        PROVE  backup'[t][o] = Absent
    <3>1. CASE t = txn'[p]
      BY <1>1, <2>1, <3>1 DEF Moved
    <3>2. CASE t # txn'[p]
      BY <2>1, <3>2 DEF SinglePending, IInv
    <3> QED
      BY <3>1, <3>2
  <2> QED
    BY <2>1 DEF SinglePending
<1>3. Recoverable'
  <2>1. txn'[p] \in Nat
    <3>1. txn'[p] \in Txns
      BY DEF TypeOK
    <3> QED
      BY <3>1 DEF Txns
  <2>2. \A o \in Outputs : Locatable(txn[p], o)'
    BY <1>1, <2>1, AbsentAssumption DEF Moved, Locatable, Exists
  <2> QED
    BY <2>2 DEF Recoverable
<1> QED
  BY <1>2, <1>3

(* Every step keeps prepared transactions recoverable and, unless          *)
(* publications overlap, alone.                                            *)
LEMMA StepPending ==
    ASSUME IInv, TypeOK', Installing', NEW p \in Procs,
           Recover(p) \/ CleanUp(p) \/ Publish(p) \/ Fail(p) \/ Exit(p) \/ Kill(p)
    PROVE  SinglePending' /\ Recoverable'
<1> USE NoneAssumption DEF IInv, Goto, disk, memory, scan,
      ghosts
<1>a. Txns \subseteq Nat /\ None \notin Txns
  BY DEF Txns
<1>Scan. CASE Scan(p)
  <2>1. UNCHANGED <<dest, temp, backup, stage, prepared, torn, overlapped>>
    BY <1>Scan DEF Scan
  <2>2. \A q \in Procs : pc[q] = "clean" => pc'[q] = "clean" /\ txn'[q] = txn[q]
    BY <1>Scan DEF Scan, TypeOK
  <2> QED
    BY <2>1, <2>2, NothingMoves DEF Pending
<1>InspectEntry. CASE InspectEntry(p)
  <2>1. UNCHANGED <<dest, temp, backup, stage, prepared, torn, overlapped>>
    BY <1>InspectEntry DEF InspectEntry
  <2>2. \A q \in Procs : pc[q] = "clean" => pc'[q] = "clean" /\ txn'[q] = txn[q]
    BY <1>InspectEntry DEF InspectEntry, TypeOK
  <2> QED
    BY <2>1, <2>2, NothingMoves DEF Pending
<1>RetireTemporary. CASE RetireTemporary(p)
  <2>1. UNCHANGED <<dest, temp, backup, stage, prepared, torn, overlapped>>
    BY <1>RetireTemporary DEF RetireTemporary
  <2>2. \A q \in Procs : pc[q] = "clean" => pc'[q] = "clean" /\ txn'[q] = txn[q]
    BY <1>RetireTemporary DEF RetireTemporary, TypeOK
  <2> QED
    BY <2>1, <2>2, NothingMoves DEF Pending
<1>ReadHeader. CASE ReadHeader(p)
  <2>1. UNCHANGED <<dest, temp, backup, stage, prepared, torn, overlapped>>
    BY <1>ReadHeader DEF ReadHeader, Scanned
  <2>2. \A q \in Procs : pc[q] = "clean" => pc'[q] = "clean" /\ txn'[q] = txn[q]
    BY <1>ReadHeader DEF ReadHeader, Scanned, TypeOK
  <2> QED
    BY <2>1, <2>2, NothingMoves DEF Pending
<1>Recovered. CASE Recovered(p)
  <2>1. UNCHANGED <<dest, temp, backup, stage, prepared, torn, overlapped>>
    BY <1>Recovered DEF Recovered, Scanned
  <2>2. \A q \in Procs : pc[q] = "clean" => pc'[q] = "clean" /\ txn'[q] = txn[q]
    BY <1>Recovered DEF Recovered, Scanned, TypeOK
  <2> QED
    BY <2>1, <2>2, NothingMoves DEF Pending
<1>LockForRecovery. CASE LockForRecovery(p)
  <2>1. UNCHANGED <<dest, temp, backup, stage, prepared, torn, overlapped>>
    BY <1>LockForRecovery DEF LockForRecovery
  <2>2. \A q \in Procs : pc[q] = "clean" => pc'[q] = "clean" /\ txn'[q] = txn[q]
    BY <1>LockForRecovery DEF LockForRecovery, TypeOK
  <2> QED
    BY <2>1, <2>2, NothingMoves DEF Pending
<1>Inspect. CASE Inspect(p)
  <2>1. UNCHANGED <<dest, temp, backup, stage, prepared, torn, overlapped>>
    BY <1>Inspect DEF Inspect, NextJournal, Reject
  <2>2. \A q \in Procs : pc[q] = "clean" => pc'[q] = "clean" /\ txn'[q] = txn[q]
    BY <1>Inspect DEF Inspect, NextJournal, Reject, TypeOK
  <2> QED
    BY <2>1, <2>2, NothingMoves DEF Pending
<1>Undone. CASE Undone(p)
  <2>1. UNCHANGED <<dest, temp, backup, stage, prepared, torn, overlapped>>
    BY <1>Undone DEF Undone
  <2>2. \A q \in Procs : pc[q] = "clean" => pc'[q] = "clean" /\ txn'[q] = txn[q]
    BY <1>Undone DEF Undone, TypeOK
  <2> QED
    BY <2>1, <2>2, NothingMoves DEF Pending
<1>RemoveJournal. CASE RemoveJournal(p)
  <2>1. UNCHANGED <<dest, temp, backup, stage, prepared, torn, overlapped>>
    BY <1>RemoveJournal DEF RemoveJournal
  <2>2. \A q \in Procs : pc[q] = "clean" => pc'[q] = "clean" /\ txn'[q] = txn[q]
    BY <1>RemoveJournal DEF RemoveJournal, TypeOK
  <2> QED
    BY <2>1, <2>2, NothingMoves DEF Pending
<1>LockForPublication. CASE LockForPublication(p)
  <2>1. UNCHANGED <<dest, temp, backup, stage, prepared, torn, overlapped>>
    BY <1>LockForPublication DEF LockForPublication
  <2>2. \A q \in Procs : pc[q] = "clean" => pc'[q] = "clean" /\ txn'[q] = txn[q]
    BY <1>LockForPublication DEF LockForPublication, TypeOK
  <2> QED
    BY <2>1, <2>2, NothingMoves DEF Pending
<1>CreateJournal. CASE CreateJournal(p)
  <2>1. UNCHANGED <<dest, temp, backup, stage, prepared, torn, overlapped>>
    BY <1>CreateJournal DEF CreateJournal
  <2>2. \A q \in Procs : pc[q] = "clean" => pc'[q] = "clean" /\ txn'[q] = txn[q]
    BY <1>CreateJournal DEF CreateJournal, TypeOK
  <2> QED
    BY <2>1, <2>2, NothingMoves DEF Pending
<1>RenameJournal. CASE RenameJournal(p)
  <2>1. UNCHANGED <<dest, temp, backup, stage, prepared, torn, overlapped>>
    BY <1>RenameJournal DEF RenameJournal
  <2>2. \A q \in Procs : pc[q] = "clean" => pc'[q] = "clean" /\ txn'[q] = txn[q]
    BY <1>RenameJournal DEF RenameJournal, TypeOK
  <2> QED
    BY <2>1, <2>2, NothingMoves DEF Pending
<1>RolledBack. CASE RolledBack(p)
  <2>1. UNCHANGED <<dest, temp, backup, stage, prepared, torn, overlapped>>
    BY <1>RolledBack DEF RolledBack
  <2>2. \A q \in Procs : pc[q] = "clean" => pc'[q] = "clean" /\ txn'[q] = txn[q]
    BY <1>RolledBack DEF RolledBack, TypeOK
  <2> QED
    BY <2>1, <2>2, NothingMoves DEF Pending
<1>ProduceFails. CASE ProduceFails(p)
  <2>1. UNCHANGED <<dest, temp, backup, stage, prepared, torn, overlapped>>
    BY <1>ProduceFails DEF ProduceFails
  <2>2. \A q \in Procs : pc[q] = "clean" => pc'[q] = "clean" /\ txn'[q] = txn[q]
    BY <1>ProduceFails DEF ProduceFails, TypeOK
  <2> QED
    BY <2>1, <2>2, NothingMoves DEF Pending
<1>InstallFails. CASE InstallFails(p)
  <2>1. UNCHANGED <<dest, temp, backup, stage, prepared, torn, overlapped>>
    BY <1>InstallFails DEF InstallFails
  <2>2. \A q \in Procs : pc[q] = "clean" => pc'[q] = "clean" /\ txn'[q] = txn[q]
    BY <1>InstallFails DEF InstallFails, TypeOK
  <2> QED
    BY <2>1, <2>2, NothingMoves DEF Pending
<1>Exit. CASE Exit(p)
  <2>1. UNCHANGED <<dest, temp, backup, stage, prepared, torn, overlapped>>
    BY <1>Exit DEF Exit, Forget
  <2>2. \A q \in Procs : pc[q] = "clean" => pc'[q] = "clean" /\ txn'[q] = txn[q]
    BY <1>Exit DEF Exit, Forget, TypeOK
  <2> QED
    BY <2>1, <2>2, NothingMoves DEF Pending
<1>Kill. CASE Kill(p)
  <2>1. UNCHANGED <<dest, temp, backup, stage, prepared, overlapped>> /\ torn \subseteq torn'
    BY <1>Kill DEF Kill, Forget
  <2>2. \A q \in Procs : pc[q] = "clean" /\ Pending(txn[q]) =>
            \/ txn[q] \in torn' \/ (pc'[q] = "clean" /\ txn'[q] = txn[q])
            \/ \A o \in Outputs : Exists(temp[txn[q]][o])
    BY <1>Kill DEF Kill, Forget, CutOff, TypeOK
  <2>3. \A q \in Procs : pc[q] = "clean" /\ Pending(txn[q]) =>
            \A o \in Outputs : PutBack(txn[q], o)
    BY DEF Restoring
  <2>4. \A t \in Txns : \A o \in Outputs :
            PutBack(t, o) /\ Exists(temp[t][o]) => Locatable(t, o)
    BY DEF PutBack, Locatable, Exists
  <2>5. ASSUME ~overlapped, NEW t \in Txns, Pending(t), t \notin torn',
               \A q \in Procs : pc'[q] = "clean" => txn'[q] # t, NEW o \in Outputs
        PROVE  Locatable(t, o)
    <3>1. CASE \A q \in Procs : pc[q] = "clean" => txn[q] # t
      BY <2>1, <2>5, <3>1 DEF Recoverable
    <3>2. CASE \E q \in Procs : pc[q] = "clean" /\ txn[q] = t
      BY <2>2, <2>3, <2>4, <2>5, <3>2
    <3> QED
      BY <3>1, <3>2
  <2>6. SinglePending'
    BY <2>1 DEF SinglePending, Pending
  <2>7. Recoverable'
    BY <2>1, <2>5 DEF Recoverable, Locatable, Pending, Exists
  <2> QED
    BY <2>6, <2>7
<1>RemoveEntry. CASE RemoveEntry(p)
  <2>1. /\ UNCHANGED <<dest, stage, prepared, torn, overlapped, pc, txn>> /\ pc[p] = "clean"
        /\ txn[p] \in Txns
    BY <1>RemoveEntry, HasTxn DEF RemoveEntry
  <2>2. \A t \in Txns \ {txn[p]} : temp'[t] = temp[t] /\ backup'[t] = backup[t]
    BY <1>RemoveEntry DEF RemoveEntry, TypeOK
  <2>3. \A o \in Outputs : backup'[txn[p]][o] = backup[txn[p]][o] \/ backup'[txn[p]][o] = Absent
    BY <1>RemoveEntry, <2>1 DEF RemoveEntry, TypeOK
  <2>4. \A q \in Procs : pc[q] = "clean" => q = p
    BY <2>1, Exclusive DEF Locked
  <2> QED
    BY <2>1, <2>2, <2>3, <2>4, NothingMoves DEF Pending
<1>RemoveStage. CASE RemoveStage(p)
  <2>1. UNCHANGED <<dest, temp, backup, prepared, torn, overlapped>> /\ txn[p] \in Txns
    BY <1>RemoveStage, HasTxn DEF RemoveStage
  <2>2. \A t \in Txns : Pending(t)' => t # txn[p] /\ Pending(t)
    BY <1>RemoveStage, <2>1 DEF RemoveStage, Pending, TypeOK
  <2>3. \A q \in Procs : pc[q] = "clean" =>
            q = p \/ (pc'[q] = "clean" /\ txn'[q] = txn[q])
    BY <1>RemoveStage DEF RemoveStage, TypeOK
  <2>4. pc[p] # "clean" \/ ~Pending(txn[p])'
    BY <1>RemoveStage, <2>1, <2>2 DEF RemoveStage
  <2> QED
    BY <2>1, <2>2, <2>3, <2>4, NothingMoves DEF Pending
<1>RemoveRecord. CASE RemoveRecord(p)
  <2>1. UNCHANGED <<dest, temp, backup, stage, torn, overlapped>> /\ txn[p] \in Txns
    BY <1>RemoveRecord, HasTxn DEF RemoveRecord
  <2>2. \A t \in Txns : Pending(t)' => t # txn[p] /\ Pending(t) /\ prepared'[t] = prepared[t]
    BY <1>RemoveRecord, <2>1 DEF RemoveRecord, Pending, TypeOK, Restoring
  <2>3. \A q \in Procs : pc[q] = "clean" =>
            q = p \/ (pc'[q] = "clean" /\ txn'[q] = txn[q])
    BY <1>RemoveRecord DEF RemoveRecord, TypeOK
  <2>4. pc[p] # "clean" \/ ~Pending(txn[p])'
    BY <1>RemoveRecord, <2>1, <2>2 DEF RemoveRecord
  <2> QED
    BY <2>1, <2>2, <2>3, <2>4, NothingMoves DEF Pending
<1>CreateStage. CASE CreateStage(p)
  <2>1. UNCHANGED <<dest, temp, backup, prepared, torn, overlapped>>
    BY <1>CreateStage, HasTxn DEF CreateStage
  <2>2. \A t \in Txns : Pending(t)' => Pending(t)
    <3>1. begun' \in Nat /\ begun' > begun /\ begun' \in Txns
      BY <1>CreateStage, BoundsAssumption DEF CreateStage, TypeOK, Numbered, Txns
    <3>2. prepared[begun'] = None
      BY <3>1 DEF Numbered
    <3> QED
      BY <1>CreateStage, <3>1, <3>2 DEF CreateStage, Pending, TypeOK
  <2>3. \A q \in Procs : pc[q] = "clean" =>
            q = p \/ (pc'[q] = "clean" /\ txn'[q] = txn[q])
    BY <1>CreateStage DEF CreateStage, TypeOK
  <2>4. pc[p] # "clean"
    BY <1>CreateStage DEF CreateStage
  <2> QED
    BY <2>1, <2>2, <2>3, <2>4, NothingMoves DEF Pending
<1>Commit. CASE Commit(p)
  <2>1. UNCHANGED <<dest, temp, backup, prepared, torn, overlapped>> /\ txn[p] \in Txns
    BY <1>Commit, HasTxn DEF Commit
  <2>2. \A t \in Txns : Pending(t)' => t # txn[p] /\ Pending(t)
    BY <1>Commit, <2>1 DEF Commit, Pending, TypeOK
  <2>3. \A q \in Procs : pc[q] = "clean" =>
            q = p \/ (pc'[q] = "clean" /\ txn'[q] = txn[q])
    BY <1>Commit DEF Commit, TypeOK
  <2>4. pc[p] # "clean" \/ ~Pending(txn[p])'
    BY <1>Commit, <2>1, <2>2 DEF Commit
  <2> QED
    BY <2>1, <2>2, <2>3, <2>4, NothingMoves DEF Pending
<1>JournalFails. CASE JournalFails(p)
  <2>1. UNCHANGED <<dest, temp, backup, prepared, torn, overlapped>> /\ txn[p] \in Txns
    BY <1>JournalFails, HasTxn DEF JournalFails
  <2>2. \A t \in Txns : Pending(t)' => t # txn[p] /\ Pending(t)
    BY <1>JournalFails, <2>1 DEF JournalFails, Pending, TypeOK
  <2>3. \A q \in Procs : pc[q] = "clean" =>
            q = p \/ (pc'[q] = "clean" /\ txn'[q] = txn[q])
    BY <1>JournalFails DEF JournalFails, TypeOK
  <2>4. pc[p] # "clean" \/ ~Pending(txn[p])'
    BY <1>JournalFails, <2>1, <2>2 DEF JournalFails
  <2> QED
    BY <2>1, <2>2, <2>3, <2>4, NothingMoves DEF Pending
<1>Produce. CASE Produce(p)
  <2>1. UNCHANGED <<dest, backup, stage, prepared, torn, overlapped>> /\ txn[p] \in Txns
    BY <1>Produce, HasTxn DEF Produce
  <2>2. \A t \in Txns : Pending(t)' => t # txn[p] /\ Pending(t) /\ temp'[t] = temp[t]
    BY <1>Produce, <2>1 DEF Produce, Pending, TypeOK, Staging
  <2>3. \A q \in Procs : pc[q] = "clean" =>
            q = p \/ (pc'[q] = "clean" /\ txn'[q] = txn[q])
    BY <1>Produce DEF Produce, TypeOK
  <2>4. pc[p] # "clean" \/ ~Pending(txn[p])'
    BY <1>Produce, <2>1, <2>2 DEF Produce
  <2> QED
    BY <2>1, <2>2, <2>3, <2>4, NothingMoves DEF Pending
<1>MarkPrepared. CASE MarkPrepared(p)
  <2>1. /\ UNCHANGED <<stage, backup, txn>> /\ txn[p] \in Txns /\ pc'[p] = "install"
        /\ prepared' = [prepared EXCEPT ![txn[p]] = Existing]
        /\ overlapped' = (overlapped \/ \E t \in Txns : Pending(t))
    BY <1>MarkPrepared, HasTxn DEF MarkPrepared, TypeOK
  <2>2. \A t \in Txns \ {txn'[p]} : prepared'[t] = prepared[t] /\ (Pending(t)' <=> Pending(t))
    BY <2>1 DEF Pending, TypeOK
  <2> QED
    BY <2>1, <2>2, PublisherMoves
<1>Install. CASE BackUp(p) \/ Install(p)
  <2>1. /\ UNCHANGED <<stage, prepared, txn, overlapped, pc>> /\ pc[p] = "install"
        /\ txn[p] \in Txns
    BY <1>Install, InstallCases
  <2>2. Pending(txn[p])
    BY <2>1 DEF Installing
  <2>3. \A t \in Txns \ {txn[p]} : backup'[t] = backup[t]
    BY <1>Install, OthersKept
  <2> QED
    BY <2>1, <2>2, <2>3, PublisherMoves DEF Pending, SinglePending
<1>RollBack. CASE RollBack(p)
  <2>1. /\ UNCHANGED <<stage, prepared, txn, overlapped, pc>> /\ pc[p] = "rollback"
        /\ txn[p] \in Txns
    BY <1>RollBack, RollBackCases
  <2>2. Pending(txn[p])
    BY <2>1 DEF Installing
  <2>3. \A t \in Txns \ {txn[p]} : backup'[t] = backup[t]
    BY <1>RollBack, OthersKept
  <2> QED
    BY <2>1, <2>2, <2>3, PublisherMoves DEF Pending, SinglePending
<1>Undo. CASE Undo(p)
  <2>1. /\ UNCHANGED <<stage, prepared, overlapped, torn, txn>> /\ pc[p] = "undo"
        /\ txn[p] \in Txns /\ \A t \in Txns : Pending(t)' <=> Pending(t)
    BY <1>Undo, OthersKept, UndoCases DEF Pending
  <2>2. Pending(txn[p]) /\ \A q \in Procs : pc[q] # "clean"
    BY <2>1, Exclusive DEF Restoring, Locked
  <2>3. PICK o \in left[p] :
            \/ UNCHANGED <<dest, temp, backup>>
            \/ /\ o \in prepared[txn[p]] /\ Exists(backup[txn[p]][o]) /\ Exists(dest[o])
               /\ Withdraw(txn[p], o)
            \/ /\ o \notin prepared[txn[p]] /\ ~Exists(temp[txn[p]][o]) /\ Exists(dest[o])
               /\ Withdraw(txn[p], o)
            \/ /\ o \in prepared[txn[p]] /\ Exists(backup[txn[p]][o]) /\ ~Exists(dest[o])
               /\ Restore(txn[p], o)
    BY <1>Undo, UndoCases
  <2>4. o \in Outputs
    BY DEF TypeOK
  <2>5. \A t \in Txns \ {txn[p]} : backup'[t] = backup[t]
    BY <1>Undo, OthersKept
  <2>6. \A x \in Outputs : backup'[txn[p]][x] = backup[txn[p]][x] \/ backup'[txn[p]][x] = Absent
    BY <2>1, <2>3, <2>4, Moves
  <2>7. SinglePending'
    BY <2>1, <2>5, <2>6 DEF SinglePending
  <2>8. ASSUME ~overlapped, txn[p] \notin torn, NEW x \in Outputs
        PROVE  Locatable(txn[p], x)'
    <3>1. Locatable(txn[p], x) /\ Locatable(txn[p], o)
      BY <2>1, <2>2, <2>4, <2>8 DEF Recoverable
    <3>2. CASE x # o
      <4>1. /\ dest'[x] = dest[x] /\ temp'[txn[p]][x] = temp[txn[p]][x]
            /\ backup'[txn[p]][x] = backup[txn[p]][x]
        BY <2>1, <2>3, <2>4, <3>2, Moves
      <4> QED
        BY <2>1, <3>1, <4>1 DEF Locatable, Exists
    <3>3. CASE x = o
      BY <2>1, <2>3, <2>4, <3>1, <3>3, Moves DEF Locatable, Exists
    <3> QED
      BY <3>2, <3>3
  <2>9. Recoverable'
    BY <2>1, <2>2, <2>8 DEF Recoverable, SinglePending
  <2> QED
    BY <2>7, <2>9
<1> QED
  BY <1>Scan, <1>InspectEntry, <1>RetireTemporary, <1>ReadHeader, <1>Recovered,
     <1>LockForRecovery, <1>Inspect, <1>Undo, <1>Undone,
     <1>RemoveEntry, <1>RemoveStage, <1>RemoveRecord, <1>RemoveJournal, <1>LockForPublication,
     <1>CreateStage, <1>CreateJournal, <1>RenameJournal, <1>Produce, <1>MarkPrepared, <1>Install,
     <1>Commit, <1>RollBack, <1>RolledBack, <1>JournalFails, <1>ProduceFails, <1>InstallFails,
     <1>Exit, <1>Kill
     DEF Recover, CleanUp, Publish, Fail

-----------------------------------------------------------------------------
(* The invariant holds in every reachable state. *)
THEOREM Invariant == Spec => []IInv
<1> USE DEF IInv
<1>1. Init => IInv
  <2> SUFFICES ASSUME Init PROVE IInv
    OBVIOUS
  <2>1. TypeOK
    <3>1. 0 \in Versions
      BY BoundsAssumption DEF Versions
    <3>2. dest \in [Outputs -> Contents] /\ Empty \in [Outputs -> Contents]
      BY <3>1 DEF Init, Contents, Empty
    <3>3. /\ temp \in [Txns -> [Outputs -> Contents]] /\ backup \in [Txns -> [Outputs -> Contents]]
          /\ stage \in [Txns -> {"none", "staged", "committed"}]
          /\ journal \in [Txns -> {"none", "tmp", "transaction"}]
          /\ header \subseteq Txns /\ prepared \in [Txns -> (SUBSET Outputs) \cup {None}]
          /\ begun \in 0 .. MaxTxn /\ torn \subseteq Txns /\ kills \in 0 .. MaxKills
      BY <3>2, BoundsAssumption DEF Init
    <3>4. /\ pc \in [Procs -> Locked \cup {"idle", "recover", "relock", "ready", "rejected"}]
          /\ txn \in [Procs -> Txns \cup {None}]
          /\ todo \in [Procs -> SUBSET Txns] /\ unseen \in [Procs -> SUBSET Txns]
          /\ temps \in [Procs -> SUBSET Txns] /\ left \in [Procs -> SUBSET Outputs]
          /\ backed_up \in [Procs -> SUBSET Outputs] /\ installed \in [Procs -> SUBSET Outputs]
      BY DEF Init
    <3>5. \A p \in Procs : /\ pc[p] \in Locked <=> lock = p
                           /\ txn[p] = None <=> pc[p] \in {"idle", "recover", "ready", "stage"}
      BY NoneAssumption DEF Init, Locked
    <3> QED
      BY <3>2, <3>3, <3>4, <3>5 DEF Init, TypeOK
  <2>2. \A t \in Txns : stage[t] = "none" /\ ~Pending(t)
    BY DEF Init, Pending
  <2>3. Numbered
    BY DEF Init, Numbered, Empty
  <2>4. HeadersKept /\ Named /\ Refused /\ Staging /\ Installing /\ Restoring
    BY DEF Init, HeadersKept, Named, Refused, Staging, Installing, Restoring
  <2>5. SinglePending /\ Recoverable
    BY <2>2 DEF SinglePending, Recoverable
  <2> QED
    BY <2>1, <2>3, <2>4, <2>5
<1>2. IInv /\ [Next]_vars => IInv'
  <2> SUFFICES ASSUME IInv, [Next]_vars PROVE IInv'
    OBVIOUS
  <2>1. CASE Next
    <3>1. PICK p \in Procs : Recover(p) \/ CleanUp(p) \/ Publish(p) \/ Fail(p) \/ Exit(p) \/ Kill(p)
      BY <2>1 DEF Next
    <3>2. TypeOK'
      BY <3>1, StepTypeOK
    <3>3. Numbered' /\ HeadersKept' /\ Named' /\ Refused'
      BY <3>1, <3>2, StepNumbered, StepHeaders, StepNamed, StepRefused
    <3>4. Staging' /\ Installing' /\ Restoring'
      BY <3>1, <3>2, StepStaging, StepInstalling, StepRestoring
    <3>5. SinglePending' /\ Recoverable'
      BY <3>1, <3>2, <3>4, StepPending
    <3> QED
      BY <3>2, <3>3, <3>4, <3>5
  <2>2. CASE UNCHANGED vars
    <3>1. UNCHANGED <<dest, temp, backup, stage, journal, header, prepared, begun, lock, pc, txn,
                      unseen, temps, todo, left, backed_up, installed, kills, torn, overlapped>>
      BY <2>2 DEF vars, disk, memory, scan, ghosts
    <3>2. TypeOK' /\ Numbered' /\ HeadersKept' /\ Named' /\ Refused' /\ Staging'
      BY <3>1 DEF TypeOK, Numbered, HeadersKept, Named, Refused, Vanished, ListedAs, Staging
    <3>3. Installing' /\ Restoring'
      BY <3>1 DEF Installing, Restoring, Moved, PutBack, Pending, Exists
    <3>4. SinglePending' /\ Recoverable'
      BY <3>1 DEF SinglePending, Recoverable, Locatable, Pending, Exists
    <3> QED
      BY <3>2, <3>3, <3>4
  <2> QED
    BY <2>1, <2>2
<1> QED
  BY <1>1, <1>2, PTL DEF Spec

(* Recovery refuses a build only if the clean-up of the transaction it     *)
(* complains of was cut off, if publications overlapped, if another        *)
(* process is retiring or has retired the journal, or if the entry that    *)
(* read_dir listed was renamed or retired before it was inspected.         *)
THEOREM RefusesOnlyTorn == Spec => []RejectsOnlyTorn
<1>1. IInv => RejectsOnlyTorn
  <2> SUFFICES ASSUME IInv, NEW p \in Procs, pc[p] = "rejected",
                      txn[p] \notin torn, ~overlapped, ~Vanished(p, txn[p])
               PROVE  txn[p] \notin header /\ (journal[txn[p]] = "none" \/ lock # None)
    BY DEF RejectsOnlyTorn, IInv, Vanished
  <2>1. txn[p] \in Txns /\ txn[p] \notin header
    BY HasTxn DEF IInv, Refused
  <2>2. CASE journal[txn[p]] # "none"
    <3>1. PICK q \in Procs : pc[q] = "retire"
      BY <2>1, <2>2 DEF IInv, HeadersKept
    <3>2. lock = q
      BY <3>1 DEF IInv, TypeOK, Locked
    <3> QED
      BY <2>1, <3>2, NoneAssumption
  <2> QED
    BY <2>1, <2>2
<1> QED
  BY <1>1, Invariant, PTL

-----------------------------------------------------------------------------
(* What recovery leaves of an output of a prepared transaction. *)
Seen(t, o) ==
    IF Exists(backup[t][o]) THEN backup[t][o]
    ELSE IF o \in prepared[t] THEN dest[o] ELSE Absent

(* The view is a version of every output. *)
LEMMA ViewTyped == TypeOK => View \in [Outputs -> Contents]
<1> SUFFICES ASSUME TypeOK, NEW o \in Outputs PROVE View[o] \in Contents
  BY DEF View
<1>1. CASE \A t \in Txns : ~Pending(t)
  BY <1>1 DEF View, TypeOK
<1>2. CASE ~ \A t \in Txns : ~Pending(t)
  <2> DEFINE u == CHOOSE t \in Txns : Pending(t)
  <2>1. u \in Txns
    BY <1>2
  <2>2. View[o] = Seen(u, o)
    BY <1>2 DEF View, Seen
  <2> HIDE DEF u
  <2> QED
    BY <2>1, <2>2 DEF Seen, TypeOK, Contents
<1> QED
  BY <1>1, <1>2

(* Without a prepared transaction it is what is in place. *)
LEMMA ViewInPlace == TypeOK /\ (\A t \in Txns : ~Pending(t)) => View = dest
<1> SUFFICES ASSUME TypeOK, \A t \in Txns : ~Pending(t) PROVE View = dest
  OBVIOUS
<1>1. View = [o \in Outputs |-> dest[o]]
  BY DEF View
<1> QED
  BY <1>1 DEF TypeOK

(* With one it is what recovery leaves of that one. *)
ShowsPending ==
    ~overlapped => \A t \in Txns : Pending(t) => View = [o \in Outputs |-> Seen(t, o)]

(* So it is while publications do not overlap. *)
LEMMA ViewPending == SinglePending => ShowsPending
<1> SUFFICES ASSUME SinglePending, ~overlapped, NEW t \in Txns, Pending(t)
             PROVE  View = [o \in Outputs |-> Seen(t, o)]
  BY DEF ShowsPending
<1>1. (CHOOSE u \in Txns : Pending(u)) = t
  BY DEF SinglePending
<1> QED
  BY <1>1 DEF View, Seen

(* The view stays if the same transaction, if any, is prepared and         *)
(* recovery leaves the same of it.                                         *)
LEMMA SameView ==
    ASSUME TypeOK, TypeOK', SinglePending, SinglePending', ~overlapped, ~overlapped',
           \A t \in Txns : Pending(t)' <=> Pending(t),
           (\A t \in Txns : ~Pending(t)) => UNCHANGED dest,
           \A t \in Txns : Pending(t) => \A o \in Outputs : Seen(t, o)' = Seen(t, o)
    PROVE  UNCHANGED View
<1>1. CASE \A t \in Txns : ~Pending(t)
  <2>1. View = dest
    BY <1>1, ViewInPlace
  <2>2. (TypeOK /\ (\A t \in Txns : ~Pending(t)) => View = dest)'
    BY ViewInPlace, PTL
  <2> QED
    BY <1>1, <2>1, <2>2
<1>2. ASSUME NEW t \in Txns, Pending(t) PROVE UNCHANGED View
  <2>1. View = [o \in Outputs |-> Seen(t, o)]
    BY <1>2, ViewPending DEF ShowsPending
  <2>2. (SinglePending => ShowsPending)'
    BY ViewPending, PTL
  <2>3. View' = [o \in Outputs |-> Seen(t, o)']
    BY <1>2, <2>2 DEF ShowsPending
  <2> QED
    BY <1>2, <2>1, <2>3
<1> QED
  BY <1>1, <1>2

(* Every step leaves the view alone or replaces it by one publication, as  *)
(* long as publications do not overlap.                                    *)
LEMMA StepView ==
    ASSUME IInv, IInv', ~overlapped, ~overlapped', NEW p \in Procs,
           Recover(p) \/ CleanUp(p) \/ Publish(p) \/ Fail(p) \/ Exit(p) \/ Kill(p)
    PROVE  UNCHANGED View \/ \E v \in Versions : View' = [o \in Outputs |-> v]
<1> USE NoneAssumption DEF Goto, disk, memory, scan, ghosts
<1>i. /\ TypeOK /\ TypeOK' /\ SinglePending /\ SinglePending' /\ Numbered /\ Staging
      /\ Installing /\ Restoring
  BY DEF IInv
<1>a. Txns \subseteq Nat /\ None \notin Txns
  BY DEF Txns
<1>Quiet. CASE UNCHANGED <<dest, backup, stage, prepared>>
  BY <1>Quiet DEF View, Pending, Exists
<1>Scan. CASE Scan(p)
  BY <1>Scan, <1>Quiet DEF Scan
<1>InspectEntry. CASE InspectEntry(p)
  BY <1>InspectEntry, <1>Quiet DEF InspectEntry
<1>RetireTemporary. CASE RetireTemporary(p)
  BY <1>RetireTemporary, <1>Quiet DEF RetireTemporary
<1>ReadHeader. CASE ReadHeader(p)
  BY <1>ReadHeader, <1>Quiet DEF ReadHeader, Scanned
<1>Recovered. CASE Recovered(p)
  BY <1>Recovered, <1>Quiet DEF Recovered, Scanned
<1>LockForRecovery. CASE LockForRecovery(p)
  BY <1>LockForRecovery, <1>Quiet DEF LockForRecovery
<1>Inspect. CASE Inspect(p)
  BY <1>Inspect, <1>Quiet DEF Inspect, NextJournal, Reject
<1>Undone. CASE Undone(p)
  BY <1>Undone, <1>Quiet DEF Undone
<1>RemoveJournal. CASE RemoveJournal(p)
  BY <1>RemoveJournal, <1>Quiet DEF RemoveJournal
<1>LockForPublication. CASE LockForPublication(p)
  BY <1>LockForPublication, <1>Quiet DEF LockForPublication
<1>CreateJournal. CASE CreateJournal(p)
  BY <1>CreateJournal, <1>Quiet DEF CreateJournal
<1>RenameJournal. CASE RenameJournal(p)
  BY <1>RenameJournal, <1>Quiet DEF RenameJournal
<1>Produce. CASE Produce(p)
  BY <1>Produce, <1>Quiet DEF Produce
<1>RolledBack. CASE RolledBack(p)
  BY <1>RolledBack, <1>Quiet DEF RolledBack
<1>ProduceFails. CASE ProduceFails(p)
  BY <1>ProduceFails, <1>Quiet DEF ProduceFails
<1>InstallFails. CASE InstallFails(p)
  BY <1>InstallFails, <1>Quiet DEF InstallFails
<1>Exit. CASE Exit(p)
  BY <1>Exit, <1>Quiet DEF Exit, Forget
<1>Kill. CASE Kill(p)
  BY <1>Kill, <1>Quiet DEF Kill, Forget
<1>RemoveEntry. CASE RemoveEntry(p)
  <2>1. UNCHANGED <<dest, stage, prepared>> /\ pc[p] = "clean" /\ txn[p] \in Txns
    BY <1>RemoveEntry, <1>i, HasTxn DEF RemoveEntry
  <2>2. \A t \in Txns \ {txn[p]} : backup'[t] = backup[t]
    BY <1>RemoveEntry, <1>i DEF RemoveEntry, TypeOK
  <2>3. \A o \in Outputs : backup'[txn[p]][o] = backup[txn[p]][o] \/ backup'[txn[p]][o] = Absent
    BY <1>RemoveEntry, <1>i, <2>1 DEF RemoveEntry, TypeOK
  <2>4. \A o \in Outputs : Pending(txn[p]) => backup'[txn[p]][o] = backup[txn[p]][o]
    BY <1>i, <2>1, <2>3 DEF Restoring, PutBack
  <2>5. \A t \in Txns : Pending(t) => \A o \in Outputs : Seen(t, o)' = Seen(t, o)
    BY <2>1, <2>2, <2>4 DEF Seen, Exists
  <2>6. \A t \in Txns : Pending(t)' <=> Pending(t)
    BY <2>1 DEF Pending
  <2> QED
    BY <1>i, <2>1, <2>5, <2>6, SameView
<1>RemoveStage. CASE RemoveStage(p)
  <2>1. /\ UNCHANGED <<dest, backup, prepared>> /\ pc[p] = "clean" /\ txn[p] \in Txns
        /\ stage' = [stage EXCEPT ![txn[p]] = "none"]
    BY <1>RemoveStage, <1>i, HasTxn DEF RemoveStage
  <2>2. ~Pending(txn[p]) => \A t \in Txns : Pending(t)' <=> Pending(t)
    BY <1>i, <2>1 DEF Pending, TypeOK
  <2>3. CASE ~Pending(txn[p])
    <3>1. \A t \in Txns : \A o \in Outputs : Seen(t, o)' = Seen(t, o)
      BY <2>1 DEF Seen, Exists
    <3> QED
      BY <1>i, <2>1, <2>2, <2>3, <3>1, SameView
  <2>4. CASE Pending(txn[p])
    <3>1. \A t \in Txns : ~Pending(t)'
      BY <1>i, <2>1, <2>4 DEF Pending, SinglePending, TypeOK
    <3>2. (TypeOK /\ (\A t \in Txns : ~Pending(t)) => View = dest)'
      BY ViewInPlace, PTL
    <3>3. View' = dest
      BY <1>i, <2>1, <3>1, <3>2
    <3>4. View = [o \in Outputs |-> Seen(txn[p], o)]
      BY <1>i, <2>1, <2>4, ViewPending DEF ShowsPending
    <3>5. \A o \in Outputs : Seen(txn[p], o) = dest[o]
      BY <1>i, <2>1, <2>4 DEF Restoring, PutBack, Seen, Exists
    <3> QED
      BY <1>i, <3>3, <3>4, <3>5 DEF TypeOK
  <2> QED
    BY <2>3, <2>4
<1>RemoveRecord. CASE RemoveRecord(p)
  <2>1. UNCHANGED <<dest, backup, stage>>
    BY <1>RemoveRecord DEF RemoveRecord
  <2>2. \A t \in Txns : /\ Pending(t)' <=> Pending(t)
                        /\ Pending(t) => prepared'[t] = prepared[t]
    BY <1>RemoveRecord, <1>i, <2>1, HasTxn DEF RemoveRecord, Pending, TypeOK, Restoring
  <2>3. \A t \in Txns : Pending(t) => \A o \in Outputs : Seen(t, o)' = Seen(t, o)
    BY <2>1, <2>2 DEF Seen, Exists
  <2> QED
    BY <1>i, <2>1, <2>2, <2>3, SameView
<1>CreateStage. CASE CreateStage(p)
  <2>1. UNCHANGED <<dest, backup, prepared>>
    BY <1>CreateStage DEF CreateStage
  <2>2. \A t \in Txns : /\ Pending(t)' <=> Pending(t)
                        /\ Pending(t) => prepared'[t] = prepared[t]
    <3>1. begun' \in Nat /\ begun' > begun /\ begun' \in Txns
      BY <1>CreateStage, <1>i, BoundsAssumption DEF CreateStage, TypeOK, Numbered, Txns
    <3>2. prepared[begun'] = None
      BY <1>i, <3>1 DEF Numbered
    <3> QED
      BY <1>CreateStage, <1>i, <3>1, <3>2 DEF CreateStage, Pending, TypeOK
  <2>3. \A t \in Txns : Pending(t) => \A o \in Outputs : Seen(t, o)' = Seen(t, o)
    BY <2>1, <2>2 DEF Seen, Exists
  <2> QED
    BY <1>i, <2>1, <2>2, <2>3, SameView
<1>JournalFails. CASE JournalFails(p)
  <2>1. UNCHANGED <<dest, backup, prepared>>
    BY <1>JournalFails DEF JournalFails
  <2>2. \A t \in Txns : /\ Pending(t)' <=> Pending(t)
                        /\ Pending(t) => prepared'[t] = prepared[t]
    BY <1>JournalFails, <1>i, <2>1, HasTxn DEF JournalFails, Pending, TypeOK, Staging
  <2>3. \A t \in Txns : Pending(t) => \A o \in Outputs : Seen(t, o)' = Seen(t, o)
    BY <2>1, <2>2 DEF Seen, Exists
  <2> QED
    BY <1>i, <2>1, <2>2, <2>3, SameView
<1>MarkPrepared. CASE MarkPrepared(p)
  <2>1. /\ UNCHANGED <<dest, backup, stage>> /\ pc[p] = "prepare" /\ txn[p] \in Txns
        /\ prepared' = [prepared EXCEPT ![txn[p]] = Existing]
        /\ \A t \in Txns : ~Pending(t)
    BY <1>MarkPrepared, <1>i, HasTxn DEF MarkPrepared
  <2>2. prepared'[txn[p]] = Existing /\ None # Existing
    BY <1>i, <2>1 DEF TypeOK, Existing
  <2>3. stage[txn[p]] = "staged" /\ \A o \in Outputs : backup[txn[p]][o] = Absent
    BY <1>i, <2>1 DEF Staging
  <2> DEFINE t == txn[p]
  <2>4. (Pending(t)' /\ t \in Txns) /\ \A o \in Outputs : Seen(t, o)' = dest[o]
    <3>1. txn' = txn
      BY <1>MarkPrepared DEF MarkPrepared
    <3> QED
      BY <2>1, <2>2, <2>3, <3>1 DEF Pending, Seen, Existing, Exists
  <2>5. (SinglePending => ShowsPending)'
    BY ViewPending, PTL
  <2>6. txn' = txn
    BY <1>MarkPrepared DEF MarkPrepared
  <2>7. View' = [o \in Outputs |-> dest[o]]
    BY <1>i, <2>4, <2>5, <2>6 DEF ShowsPending
  <2>8. View = dest
    BY <1>i, <2>1, ViewInPlace
  <2> QED
    BY <1>i, <2>7, <2>8 DEF TypeOK
<1>Commit. CASE Commit(p)
  <2>1. /\ UNCHANGED <<dest, prepared>> /\ pc[p] = "install" /\ txn[p] \in Txns
        /\ installed[p] = Outputs /\ stage' = [stage EXCEPT ![txn[p]] = "committed"]
    BY <1>Commit, <1>i, HasTxn DEF Commit
  <2>2. Pending(txn[p]) /\ \A o \in Outputs : dest[o] = txn[p]
    BY <1>i, <2>1 DEF Installing, Moved
  <2>3. \A t \in Txns : ~Pending(t)'
    BY <1>i, <2>1, <2>2 DEF Pending, SinglePending, TypeOK
  <2>4. (TypeOK /\ (\A t \in Txns : ~Pending(t)) => View = dest)'
    BY ViewInPlace, PTL
  <2>5. View' = dest
    BY <1>i, <2>1, <2>3, <2>4
  <2>6. View' = [o \in Outputs |-> txn[p]]
    BY <1>i, <2>2, <2>5 DEF TypeOK
  <2>7. txn[p] \in Versions
    BY <2>1 DEF Txns, Versions
  <2> QED
    BY <2>6, <2>7
<1>Install. CASE BackUp(p) \/ Install(p)
  <2>1. /\ UNCHANGED <<stage, prepared, txn>> /\ pc[p] = "install" /\ txn[p] \in Txns
        /\ \A t \in Txns : Pending(t)' <=> Pending(t)
    BY <1>Install, <1>i, InstallCases, OthersKept DEF Pending
  <2>2. Pending(txn[p]) /\ \A o \in Outputs : Moved(p, txn[p], o)
    BY <1>i, <2>1 DEF Installing
  <2>3. PICK o \in Outputs :
            /\ o \notin installed[p]
            /\ \/ o \in prepared[txn[p]] \ backed_up[p] /\ SetAside(txn[p], o)
               \/ o \notin prepared[txn[p]] \ backed_up[p] /\ PutInPlace(txn[p], o)
    BY <1>Install, <1>i, InstallCases
  <2>4. o \in Outputs
    BY <1>i DEF TypeOK
  <2>5. Seen(txn[p], o)' = Seen(txn[p], o)
    BY <1>i, <2>1, <2>2, <2>3, <2>4, Moves DEF Seen, Moved, Exists
  <2>6. \A x \in Outputs : Seen(txn[p], x)' = Seen(txn[p], x)
    <3>1. \A x \in Outputs \ {o} : dest'[x] = dest[x] /\ backup'[txn[p]][x] = backup[txn[p]][x]
      BY <1>i, <2>1, <2>3, <2>4, Moves
    <3> QED
      BY <2>1, <2>5, <3>1 DEF Seen, Exists
  <2>7. \A t \in Txns : Pending(t) => t = txn[p]
    BY <1>i, <2>1, <2>2 DEF SinglePending
  <2> QED
    BY <1>i, <2>1, <2>2, <2>6, <2>7, SameView
<1>RollBack. CASE RollBack(p)
  <2>1. /\ UNCHANGED <<stage, prepared, txn>> /\ pc[p] = "rollback" /\ txn[p] \in Txns
        /\ \A t \in Txns : Pending(t)' <=> Pending(t)
    BY <1>RollBack, <1>i, RollBackCases, OthersKept DEF Pending
  <2>2. Pending(txn[p]) /\ \A o \in Outputs : Moved(p, txn[p], o)
    BY <1>i, <2>1 DEF Installing
  <2>3. PICK o \in Outputs :
            \/ o \in installed[p] /\ Withdraw(txn[p], o)
            \/ o \in backed_up[p] \ installed[p] /\ Restore(txn[p], o)
    BY <1>RollBack, <1>i, RollBackCases
  <2>4. o \in Outputs
    BY <1>i DEF TypeOK
  <2>5. Seen(txn[p], o)' = Seen(txn[p], o)
    BY <1>i, <2>1, <2>2, <2>3, <2>4, Moves DEF Seen, Moved, Exists
  <2>6. \A x \in Outputs : Seen(txn[p], x)' = Seen(txn[p], x)
    <3>1. \A x \in Outputs \ {o} : dest'[x] = dest[x] /\ backup'[txn[p]][x] = backup[txn[p]][x]
      BY <1>i, <2>1, <2>3, <2>4, Moves
    <3> QED
      BY <2>1, <2>5, <3>1 DEF Seen, Exists
  <2>7. \A t \in Txns : Pending(t) => t = txn[p]
    BY <1>i, <2>1, <2>2 DEF SinglePending
  <2> QED
    BY <1>i, <2>1, <2>2, <2>6, <2>7, SameView
<1>Undo. CASE Undo(p)
  <2>1. /\ UNCHANGED <<stage, prepared, txn>> /\ pc[p] = "undo" /\ txn[p] \in Txns
        /\ \A t \in Txns : Pending(t)' <=> Pending(t)
    BY <1>Undo, <1>i, UndoCases, OthersKept DEF Pending
  <2>2. /\ Pending(txn[p])
        /\ \A o \in Outputs : o \notin prepared[txn[p]] => backup[txn[p]][o] = Absent
    BY <1>i, <2>1 DEF Restoring, SinglePending
  <2>3. PICK o \in left[p] :
            \/ UNCHANGED <<dest, temp, backup>>
            \/ o \in prepared[txn[p]] /\ Exists(backup[txn[p]][o]) /\ Withdraw(txn[p], o)
            \/ o \notin prepared[txn[p]] /\ Withdraw(txn[p], o)
            \/ o \in prepared[txn[p]] /\ Exists(backup[txn[p]][o]) /\ Restore(txn[p], o)
    BY <1>Undo, <1>i, UndoCases
  <2>4. o \in Outputs
    BY <1>i DEF TypeOK
  <2>5. Seen(txn[p], o)' = Seen(txn[p], o)
    BY <1>i, <2>1, <2>2, <2>3, <2>4, Moves DEF Seen, Moved, Exists
  <2>6. \A x \in Outputs : Seen(txn[p], x)' = Seen(txn[p], x)
    <3>1. \A x \in Outputs \ {o} : dest'[x] = dest[x] /\ backup'[txn[p]][x] = backup[txn[p]][x]
      BY <1>i, <2>1, <2>3, <2>4, Moves
    <3> QED
      BY <2>1, <2>5, <3>1 DEF Seen, Exists
  <2>7. \A t \in Txns : Pending(t) => t = txn[p]
    BY <1>i, <2>1, <2>2 DEF SinglePending
  <2> QED
    BY <1>i, <2>1, <2>2, <2>6, <2>7, SameView
<1> QED
  BY <1>Scan, <1>InspectEntry, <1>RetireTemporary, <1>ReadHeader, <1>Recovered,
     <1>LockForRecovery, <1>Inspect, <1>Undo, <1>Undone,
     <1>RemoveEntry, <1>RemoveStage, <1>RemoveRecord, <1>RemoveJournal, <1>LockForPublication,
     <1>CreateStage, <1>CreateJournal, <1>RenameJournal, <1>Produce, <1>MarkPrepared, <1>Install,
     <1>Commit, <1>RollBack, <1>RolledBack, <1>JournalFails, <1>ProduceFails, <1>InstallFails,
     <1>Exit, <1>Kill
     DEF Recover, CleanUp, Publish, Fail

(* Only the start of a publication over a prepared transaction makes       *)
(* publications overlap, and nothing undoes it.                            *)
LEMMA OverlapStays ==
    ASSUME NEW p \in Procs,
           Recover(p) \/ CleanUp(p) \/ Publish(p) \/ Fail(p) \/ Exit(p) \/ Kill(p)
    PROVE  overlapped => overlapped'
<1> USE DEF ghosts
<1>1. CASE Recover(p)
  BY <1>1 DEF Recover, Scan, InspectEntry, RetireTemporary, ReadHeader, Recovered, LockForRecovery, Inspect, Undo, Undone
<1>2. CASE CleanUp(p)
  BY <1>2 DEF CleanUp, RemoveEntry, RemoveStage, RemoveRecord, RemoveJournal
<1>3. CASE Publish(p)
  BY <1>3 DEF Publish, LockForPublication, CreateStage, CreateJournal, RenameJournal, Produce,
              MarkPrepared, BackUp, Install, Commit, RollBack, RolledBack
<1>4. CASE Fail(p) \/ Exit(p) \/ Kill(p)
  BY <1>4 DEF Fail, JournalFails, ProduceFails, InstallFails, Exit, Kill
<1> QED
  BY <1>1, <1>2, <1>3, <1>4

(* Publication and recovery implement the atomic replacement of the        *)
(* complete output set.                                                    *)
THEOREM ImplementsStore == Spec => PublishesAtomically
<1>1. Init => Store!Init
  <2> SUFFICES ASSUME Init PROVE Store!Init
    OBVIOUS
  <2>1. \A t \in Txns : ~Pending(t)
    BY DEF Init, Pending
  <2>2. View = [o \in Outputs |-> dest[o]]
    BY <2>1 DEF View
  <2>3. View \in [Outputs -> {0, Absent}]
    BY <2>2 DEF Init
  <2> QED
    BY <2>3 DEF Init, Store!Init
<1>2. IInv /\ IInv' /\ [Next]_vars => [Store!Next]_(Store!vars)
  <2> SUFFICES ASSUME IInv, IInv', [Next]_vars PROVE [Store!Next]_(Store!vars)
    OBVIOUS
  <2>1. CASE UNCHANGED vars
    <3>1. UNCHANGED <<dest, backup, stage, prepared, overlapped>>
      BY <2>1 DEF vars, disk, ghosts
    <3>2. UNCHANGED View
      BY <3>1 DEF View, Pending, Exists
    <3> QED
      BY <3>1, <3>2 DEF Store!vars
  <2>2. CASE Next /\ overlapped'
    <3>1. (TypeOK => View \in [Outputs -> Contents])'
      BY ViewTyped, PTL
    <3>2. View' \in [Outputs -> Versions \cup {Absent}]
      BY <3>1 DEF IInv, Contents
    <3>3. overlapped' = TRUE
      BY <2>2 DEF IInv, TypeOK
    <3> QED
      BY <3>2, <3>3 DEF Store!Next, Store!Void
  <2>3. CASE Next /\ ~overlapped'
    <3>3. PICK p \in Procs : Recover(p) \/ CleanUp(p) \/ Publish(p) \/ Fail(p) \/ Exit(p) \/ Kill(p)
      BY <2>3 DEF Next
    <3>1. ~overlapped
      BY <2>3, <3>3, OverlapStays
    <3>2. overlapped' = overlapped
      BY <2>3, <3>1 DEF IInv, TypeOK
    <3>4. UNCHANGED View \/ \E v \in Versions : View' = [o \in Outputs |-> v]
      BY <2>3, <3>1, <3>3, StepView
    <3> QED
      BY <3>2, <3>4 DEF Store!Next, Store!Replace, Store!vars
  <2> QED
    BY <2>1, <2>2, <2>3
<1> QED
  BY <1>1, <1>2, Invariant, PTL DEF Spec, PublishesAtomically, Store!Spec

=============================================================================
