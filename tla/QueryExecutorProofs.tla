------------------------- MODULE QueryExecutorProofs -------------------------
(***************************************************************************)
(* For any number of executors, threads, batches and pools: permits and    *)
(* lanes are exact, no task runs twice or is lost, and an owner outlives   *)
(* its tasks.                                                              *)
(*                                                                         *)
(* StackOK says what a call stack looks like: at its bottom a worker or an *)
(* owner, directly above it the task that holds the permit, above that     *)
(* nothing that asks for one; and for each executor that the stack is      *)
(* inside of exactly one task that counts.  The rest of the invariant      *)
(* counts stacks, and follows a task from the queue to a stack to done.    *)
(***************************************************************************)
EXTENDS QueryExecutor, FiniteSetTheorems, SequenceTheorems, WellFoundedInduction, TLAPS

FrameSet ==
    [kind : {"worker", "own", "task"}, batch : Batches \cup {NoBatch}, task : Nat,
     at : {"look", "permit", "take", "drop", "loop", "sleep", "pool", "settle", "notify", "leave"},
     counts : BOOLEAN, permit : BOOLEAN, pending : Seq(Nat), draining : BOOLEAN]

TaskOf(f) == <<f.batch, f.task>>

(* A frame is at a place of its function. *)
FrameOK(f) ==
    /\ f \in FrameSet
    /\ f.kind = "worker" => f.at \in {"look", "permit", "take", "drop"}
    /\ f.kind = "own" =>
        /\ f.batch \in Batches
        /\ f.at \in {"loop", "permit", "take", "drop", "sleep", "pool"}
        /\ f.at = "pool" => f.batch \in Pools
    /\ f.kind = "task" =>
        /\ TaskOf(f) \in Tasks
        /\ f.at \in {"settle", "notify", "leave", "permit"}
        /\ f.at = "permit" => f.permit

(* Permits are asked for at the bottom of a stack only, and held there or  *)
(* by the task directly above.                                             *)
PlaceOK(s, i) ==
    /\ FrameOK(s[i])
    /\ i > 1 => s[i].at \in {"look", "loop", "settle"}
    /\ i = Len(s) => s[i].kind # "task" /\ (s[i].permit <=> s[i].at \in {"take", "drop"})
    /\ i = Len(s) - 1 => s[i].kind = "task" /\ s[i].permit
    /\ i < Len(s) - 1 => ~s[i].permit
    /\ i < Len(s) =>
        /\ s[i].kind # "worker"
        /\ s[i].kind = "own" => s[i].batch \notin Pools /\ s[i].at \notin {"permit", "drop"}

Counts(f, e) == f.kind = "task" /\ f.counts /\ Home[f.batch] = e

(* The outermost task of each executor counts, and no other. *)
LanesOK(s) ==
    /\ \A i \in 1 .. Len(s) : s[i].kind = "task" =>
        \E j \in i .. Len(s) : Counts(s[j], Home[s[i].batch])
    /\ \A i, j \in 1 .. Len(s) : \A e \in Executors :
        Counts(s[i], e) /\ Counts(s[j], e) => i = j

RunsAt(s, i, x) == s[i].kind = "task" /\ s[i].at = "settle" /\ TaskOf(s[i]) = x
Runs(s, x) == \E i \in 1 .. Len(s) : RunsAt(s, i, x)

StackOK(s) ==
    /\ s \in Seq(FrameSet)
    /\ \A i \in 1 .. Len(s) : PlaceOK(s, i)
    /\ LanesOK(s)
    /\ \A i, j \in 1 .. Len(s) : \A x \in Tasks : RunsAt(s, i, x) /\ RunsAt(s, j, x) => i = j

Held(s) == \E i \in 1 .. Len(s) : s[i].permit
InLane(s, e) == \E i \in 1 .. Len(s) : Counts(s[i], e) /\ s[i].at # "permit"
OwnsBatch(s, b) == \E i \in 1 .. Len(s) : s[i].kind = "own" /\ s[i].batch = b
Serves(s) == \E i \in 1 .. Len(s) : s[i].kind = "worker"

(* A pool is at the bottom of its thread's stack. *)
Bottom(s) == s[Len(s)]
OwnsPool(s, b) == s # <<>> /\ Bottom(s).kind = "own" /\ Bottom(s).batch = b

In(q, x) == \E i \in 1 .. Len(q) : q[i] = x
Distinct(q) == \A i, j \in 1 .. Len(q) : q[i] = q[j] => i = j

-----------------------------------------------------------------------------
Typed ==
    /\ frames \in [Threads -> Seq(FrameSet)]
    /\ queue \in [Executors -> Seq(Tasks)]
    /\ running \in [Executors -> Nat]
    /\ ready \in [Executors -> SUBSET Threads]
    /\ permits \in Nat /\ done \subseteq Tasks /\ opened \subseteq Batches
    /\ waiting \subseteq Threads

Stacks ==
    \A t \in Threads :
        /\ StackOK(frames[t])
        /\ Serves(frames[t]) => \E e \in Executors : t \in Workers(e)
        /\ \A b \in Batches : OwnsBatch(frames[t], b) => b \in opened

Holders == {t \in Threads : Held(frames[t])}
LaneHolders(e) == {t \in Threads : InLane(frames[t], e)}

Permits == permits = Cardinality(Holders) /\ permits <= Capacity

LaneCounted(e) == running[e] = Cardinality(LaneHolders(e)) /\ running[e] <= Parallelism[e]
Lanes == \A e \in Executors : LaneCounted(e)

Waits(x) == In(queue[Home[x[1]]], x)
Live(x) == Waits(x) \/ \E t \in Threads : Runs(frames[t], x)

Queues ==
    \A e \in Executors :
        /\ \A x \in Tasks : In(queue[e], x) => Home[x[1]] = e
        /\ Distinct(queue[e])

(* A task is in one place. *)
Apart ==
    \A x \in Tasks :
        /\ Live(x) => x \notin done
        /\ \A t \in Threads : Runs(frames[t], x) =>
            /\ ~Waits(x)
            /\ \A u \in Threads : Runs(frames[u], x) => t = u

(* What was submitted is somewhere, and nothing else is. *)
Kept ==
    \A x \in Tasks :
        /\ Live(x) \/ x \in done => x[1] \in opened
        /\ x[1] \notin Pools /\ x[1] \in opened => Live(x) \/ x \in done
        /\ x[1] \in Pools => \A t \in Threads : OwnsPool(frames[t], x[1]) =>
            (Live(x) \/ x \in done <=> x[2] <= Bottom(frames[t]).task)

(* An owner waits for its tasks. *)
HasOwner(x) ==
    IF x[1] \in Pools
    THEN \E t \in Threads : OwnsPool(frames[t], x[1]) /\ In(Bottom(frames[t]).pending, x[2])
    ELSE \E t \in Threads : OwnsBatch(frames[t], x[1])

Owned == \A x \in Tasks : Live(x) => HasOwner(x)

PoolsOK ==
    \A b \in Pools : \A t \in Threads : OwnsPool(frames[t], b) =>
        /\ Len(Bottom(frames[t]).pending) <= PoolCapacity(b)
        /\ \A u \in Threads : OwnsPool(frames[u], b) => t = u

TaskInv == Queues /\ Apart /\ Kept /\ Owned /\ PoolsOK

IInv == Typed /\ Stacks /\ Permits /\ Lanes /\ TaskInv

-----------------------------------------------------------------------------
(* A stack is a frame on a smaller stack. *)
LEMMA SeqPush ==
    ASSUME NEW F, NEW s \in Seq(F), NEW f \in F
    PROVE  /\ <<f>> \o s \in Seq(F) /\ Len(<<f>> \o s) = Len(s) + 1 /\ <<f>> \o s # <<>>
           /\ (<<f>> \o s)[1] = f
           /\ \A i \in 1 .. Len(s) : (<<f>> \o s)[i + 1] = s[i]
           /\ Head(<<f>> \o s) = f /\ Tail(<<f>> \o s) = s
<1>2. <<f>> \in Seq(F) /\ Len(<<f>>) = 1 /\ <<f>>[1] = f
  OBVIOUS
<1>3. <<f>> \o s \in Seq(F) /\ Len(<<f>> \o s) = Len(s) + 1
  BY <1>2
<1>4. \A i \in 1 .. Len(s) + 1 : (<<f>> \o s)[i] = IF i <= 1 THEN <<f>>[i] ELSE s[i - 1]
  BY <1>2
<1>5. Head(<<f>> \o s) = f /\ Tail(<<f>> \o s) = s
  BY ConcatSimplifications
<1>6. (<<f>> \o s)[1] = f /\ \A i \in 1 .. Len(s) : (<<f>> \o s)[i + 1] = s[i]
  BY <1>2, <1>4
<1> QED
  BY <1>3, <1>5, <1>6

LEMMA SeqUnfold ==
    ASSUME NEW F, NEW s \in Seq(F), s # <<>>
    PROVE  /\ Head(s) \in F /\ Tail(s) \in Seq(F) /\ s = <<Head(s)>> \o Tail(s)
           /\ Len(Tail(s)) = Len(s) - 1 /\ Len(s) > 0 /\ Head(s) = s[1]
<1>1. /\ Head(s) \in F /\ Tail(s) \in Seq(F) /\ Len(s) > 0 /\ Head(s) = s[1]
      /\ Len(Tail(s)) = Len(s) - 1 /\ \A i \in 1 .. Len(s) - 1 : Tail(s)[i] = s[i + 1]
  OBVIOUS
<1> DEFINE h == Head(s)
           m == Tail(s)
<1>2. /\ <<h>> \o m \in Seq(F) /\ Len(<<h>> \o m) = Len(m) + 1
      /\ (<<h>> \o m)[1] = h
      /\ \A i \in 1 .. Len(m) : (<<h>> \o m)[i + 1] = m[i]
  <2>1. h \in F /\ m \in Seq(F)
    BY <1>1
  <2> HIDE DEF h, m
  <2> QED
    BY <2>1, SeqPush
<1>3. \A i \in 1 .. Len(s) : (<<h>> \o m)[i] = s[i]
  <2> SUFFICES ASSUME NEW i \in 1 .. Len(s) PROVE (<<h>> \o m)[i] = s[i]
    OBVIOUS
  <2>1. CASE i = 1
    BY <1>1, <1>2, <2>1
  <2>2. CASE i # 1
    <3>1. i - 1 \in 1 .. Len(m) /\ (i - 1) + 1 = i
      BY <1>1, <2>2
    <3>2. m[i - 1] = s[i]
      BY <1>1, <3>1
    <3>3. (<<h>> \o m)[(i - 1) + 1] = m[i - 1]
      BY <1>2, <3>1
    <3> QED
      BY <3>1, <3>2, <3>3
  <2> QED
    BY <2>1, <2>2
<1>4. <<h>> \o m = s
  <2>1. Len(<<h>> \o m) = Len(s)
    BY <1>1, <1>2
  <2> QED
    BY <1>2, <1>3, <2>1, SeqEqual
<1> QED
  BY <1>1, <1>4

(* What may be put on a stack. *)
PushOK(m, f) ==
    /\ FrameOK(f)
    /\ m # <<>> => m[1].at \in {"look", "loop", "settle"}
    /\ Len(m) = 0 => f.kind # "task" /\ (f.permit <=> f.at \in {"take", "drop"})
    /\ Len(m) = 1 => f.kind = "task" /\ f.permit
    /\ Len(m) > 1 => ~f.permit
    /\ Len(m) > 0 =>
        /\ f.kind # "worker"
        /\ f.kind = "own" => f.batch \notin Pools /\ f.at \notin {"permit", "drop"}
    /\ f.kind = "task" =>
        (f.counts <=> \A i \in 1 .. Len(m) : m[i].kind = "task" => Home[m[i].batch] # Home[f.batch])
    /\ f.kind = "task" /\ f.at = "settle" => ~Runs(m, TaskOf(f))

LEMMA PushPlaces ==
    ASSUME NEW m \in Seq(FrameSet), NEW f \in FrameSet, NEW r \in Seq(FrameSet),
           Len(r) = Len(m) + 1, r[1] = f, \A i \in 1 .. Len(m) : r[i + 1] = m[i]
    PROVE  (\A i \in 1 .. Len(r) : PlaceOK(r, i)) <=>
             /\ \A i \in 1 .. Len(m) : PlaceOK(m, i)
             /\ PlaceOK(r, 1)
             /\ m # <<>> => m[1].at \in {"look", "loop", "settle"}
<1>l. Len(m) \in Nat
  OBVIOUS
<1>0. m # <<>> <=> Len(m) > 0
  OBVIOUS
<1>1. ASSUME NEW i \in 1 .. Len(m)
      PROVE  PlaceOK(r, i + 1) <=> PlaceOK(m, i) /\ (i = 1 => m[1].at \in {"look", "loop", "settle"})
  <2>1. /\ r[i + 1] = m[i] /\ i + 1 > 1
        /\ i + 1 = Len(r) <=> i = Len(m)
        /\ i + 1 = Len(r) - 1 <=> i = Len(m) - 1
        /\ i + 1 < Len(r) - 1 <=> i < Len(m) - 1
        /\ i + 1 < Len(r) <=> i < Len(m)
        /\ i > 1 <=> i # 1
    BY <1>l
  <2> QED
    BY <2>1 DEF PlaceOK
<1>2. \A i \in 1 .. Len(r) : i = 1 \/ (i - 1 \in 1 .. Len(m) /\ (i - 1) + 1 = i)
  BY <1>l
<1>3. \A i \in 1 .. Len(m) : i + 1 \in 1 .. Len(r)
  BY <1>l
<1>4. 1 \in 1 .. Len(r)
  BY <1>l
<1>5. ASSUME \A i \in 1 .. Len(r) : PlaceOK(r, i)
      PROVE  /\ \A i \in 1 .. Len(m) : PlaceOK(m, i)
             /\ PlaceOK(r, 1)
             /\ m # <<>> => m[1].at \in {"look", "loop", "settle"}
  <2>1. \A i \in 1 .. Len(m) : PlaceOK(m, i) /\ (i = 1 => m[1].at \in {"look", "loop", "settle"})
    BY <1>1, <1>3, <1>5
  <2>2. m # <<>> => 1 \in 1 .. Len(m)
    BY <1>0, <1>l
  <2> QED
    BY <1>4, <1>5, <2>1, <2>2
<1>6. ASSUME \A i \in 1 .. Len(m) : PlaceOK(m, i), PlaceOK(r, 1),
             m # <<>> => m[1].at \in {"look", "loop", "settle"}
      PROVE  \A i \in 1 .. Len(r) : PlaceOK(r, i)
  <2> SUFFICES ASSUME NEW i \in 1 .. Len(r), i # 1 PROVE PlaceOK(r, i)
    BY <1>6
  <2>1. i - 1 \in 1 .. Len(m) /\ (i - 1) + 1 = i
    BY <1>2
  <2>2. m # <<>>
    BY <1>0, <1>l, <2>1
  <2>3. PlaceOK(r, (i - 1) + 1)
    BY <1>1, <1>6, <2>1, <2>2
  <2> QED
    BY <2>1, <2>3
<1> QED
  BY <1>5, <1>6

LEMMA PushLanes ==
    ASSUME NEW m \in Seq(FrameSet), NEW f \in FrameSet, NEW r \in Seq(FrameSet),
           Len(r) = Len(m) + 1, r[1] = f, \A i \in 1 .. Len(m) : r[i + 1] = m[i],
           \A i \in 1 .. Len(r) : r[i].kind = "task" => Home[r[i].batch] \in Executors
    PROVE  LanesOK(r) <=>
             /\ LanesOK(m)
             /\ f.kind = "task" =>
                  (f.counts <=> \A i \in 1 .. Len(m) :
                                  m[i].kind = "task" => Home[m[i].batch] # Home[f.batch])
<1>l. Len(m) \in Nat
  OBVIOUS
<1>2. \A i \in 1 .. Len(r) : i = 1 \/ (i - 1 \in 1 .. Len(m) /\ (i - 1) + 1 = i /\ r[i] = m[i - 1])
  BY <1>l
<1>3. \A i \in 1 .. Len(m) : i + 1 \in 1 .. Len(r) /\ i + 1 # 1
  BY <1>l
<1>4. 1 \in 1 .. Len(r)
  BY <1>l
<1>5. ASSUME LanesOK(r)
      PROVE  /\ LanesOK(m)
             /\ f.kind = "task" =>
                  (f.counts <=> \A i \in 1 .. Len(m) :
                                  m[i].kind = "task" => Home[m[i].batch] # Home[f.batch])
  <2>1. ASSUME NEW i \in 1 .. Len(m), m[i].kind = "task"
        PROVE  \E j \in i .. Len(m) : Counts(m[j], Home[m[i].batch])
    <3>1. i + 1 \in 1 .. Len(r) /\ r[i + 1] = m[i]
      BY <1>3
    <3>2. PICK j \in i + 1 .. Len(r) : Counts(r[j], Home[m[i].batch])
      BY <1>5, <2>1, <3>1 DEF LanesOK
    <3>3. j - 1 \in i .. Len(m) /\ r[j] = m[j - 1]
      BY <1>l, <1>2
    <3> QED
      BY <3>2, <3>3
  <2>2. ASSUME NEW i \in 1 .. Len(m), NEW j \in 1 .. Len(m), NEW e \in Executors,
               Counts(m[i], e), Counts(m[j], e)
        PROVE  i = j
    <3>1. i + 1 = j + 1
      BY <1>3, <1>5, <2>2 DEF LanesOK
    <3> QED
      BY <3>1
  <2>3. ASSUME f.kind = "task", f.counts, NEW i \in 1 .. Len(m), m[i].kind = "task",
               Home[m[i].batch] = Home[f.batch]
        PROVE  FALSE
    <3>1. PICK j \in i .. Len(m) : Counts(m[j], Home[m[i].batch])
      BY <2>1, <2>3
    <3>2. j \in 1 .. Len(m) /\ j + 1 \in 1 .. Len(r) /\ r[j + 1] = m[j] /\ j + 1 # 1
      BY <1>l, <1>3
    <3>3. Counts(r[1], Home[f.batch]) /\ Counts(r[j + 1], Home[f.batch])
      BY <2>3, <3>1, <3>2 DEF Counts
    <3> QED
      BY <1>4, <1>5, <2>3, <3>2, <3>3 DEF LanesOK
  <2>4. ASSUME f.kind = "task", \A i \in 1 .. Len(m) :
                                  m[i].kind = "task" => Home[m[i].batch] # Home[f.batch]
        PROVE  f.counts
    <3>1. PICK j \in 1 .. Len(r) : Counts(r[j], Home[f.batch])
      BY <1>4, <1>5, <2>4 DEF LanesOK
    <3>2. j = 1
      BY <1>2, <2>4, <3>1 DEF Counts
    <3> QED
      BY <3>1, <3>2 DEF Counts
  <2>5. LanesOK(m)
    BY <2>1, <2>2 DEF LanesOK
  <2> QED
    BY <2>3, <2>4, <2>5
<1>6. ASSUME LanesOK(m),
             f.kind = "task" =>
                  (f.counts <=> \A i \in 1 .. Len(m) :
                                  m[i].kind = "task" => Home[m[i].batch] # Home[f.batch])
      PROVE  LanesOK(r)
  <2>1. ASSUME NEW i \in 1 .. Len(m), m[i].kind = "task"
        PROVE  \E j \in i + 1 .. Len(r) : Counts(r[j], Home[m[i].batch])
    <3>1. PICK j \in i .. Len(m) : Counts(m[j], Home[m[i].batch])
      BY <1>6, <2>1 DEF LanesOK
    <3>2. j \in 1 .. Len(m) /\ j + 1 \in i + 1 .. Len(r)
      BY <1>l
    <3>3. r[j + 1] = m[j]
      BY <3>2
    <3> QED
      BY <3>1, <3>2, <3>3
  <2>2. ASSUME NEW i \in 1 .. Len(r), r[i].kind = "task"
        PROVE  \E j \in i .. Len(r) : Counts(r[j], Home[r[i].batch])
    <3>1. CASE i # 1
      <4>1. i - 1 \in 1 .. Len(m) /\ (i - 1) + 1 = i /\ r[i] = m[i - 1]
        BY <1>2, <3>1
      <4> QED
        BY <2>1, <2>2, <4>1
    <3>2. CASE i = 1 /\ f.counts
      BY <1>4, <2>2, <3>2 DEF Counts
    <3>3. CASE i = 1 /\ ~f.counts
      <4>1. PICK k \in 1 .. Len(m) : m[k].kind = "task" /\ Home[m[k].batch] = Home[f.batch]
        BY <1>6, <2>2, <3>3
      <4>2. PICK j \in k + 1 .. Len(r) : Counts(r[j], Home[m[k].batch])
        BY <2>1, <4>1
      <4>3. j \in 1 .. Len(r)
        BY <1>l
      <4> QED
        BY <3>3, <4>1, <4>2, <4>3
    <3> QED
      BY <3>1, <3>2, <3>3
  <2>3. ASSUME NEW i \in 1 .. Len(m), NEW e \in Executors, Counts(f, e), Counts(m[i], e)
        PROVE  FALSE
    BY <1>6, <2>3 DEF Counts
  <2>4. ASSUME NEW i \in 1 .. Len(r), NEW j \in 1 .. Len(r), NEW e \in Executors,
               Counts(r[i], e), Counts(r[j], e)
        PROVE  i = j
    <3>1. CASE i = 1
      BY <1>2, <2>3, <2>4, <3>1
    <3>2. CASE j = 1
      BY <1>2, <2>3, <2>4, <3>2
    <3>3. CASE i # 1 /\ j # 1
      <4>1. /\ i - 1 \in 1 .. Len(m) /\ j - 1 \in 1 .. Len(m)
            /\ r[i] = m[i - 1] /\ r[j] = m[j - 1]
        BY <1>2, <3>3
      <4>2. i - 1 = j - 1
        BY <1>6, <2>4, <4>1 DEF LanesOK
      <4> QED
        BY <4>2
    <3> QED
      BY <3>1, <3>2, <3>3
  <2> QED
    BY <2>2, <2>4 DEF LanesOK
<1> QED
  BY <1>5, <1>6

LEMMA PushRuns ==
    ASSUME NEW m \in Seq(FrameSet), NEW f \in FrameSet, NEW r \in Seq(FrameSet),
           Len(r) = Len(m) + 1, r[1] = f, \A i \in 1 .. Len(m) : r[i + 1] = m[i],
           f.kind = "task" => TaskOf(f) \in Tasks
    PROVE  (\A i, j \in 1 .. Len(r) : \A x \in Tasks : RunsAt(r, i, x) /\ RunsAt(r, j, x) => i = j) <=>
             /\ \A i, j \in 1 .. Len(m) : \A x \in Tasks : RunsAt(m, i, x) /\ RunsAt(m, j, x) => i = j
             /\ f.kind = "task" /\ f.at = "settle" => ~Runs(m, TaskOf(f))
<1>l. Len(m) \in Nat
  OBVIOUS
<1>1. \A i \in 1 .. Len(m) : \A x : RunsAt(r, i + 1, x) <=> RunsAt(m, i, x)
  BY DEF RunsAt
<1>2. \A i \in 1 .. Len(r) : i = 1 \/ (i - 1 \in 1 .. Len(m) /\ (i - 1) + 1 = i)
  BY <1>l
<1>3. \A i \in 1 .. Len(m) : i + 1 \in 1 .. Len(r) /\ i + 1 # 1
  BY <1>l
<1>4. 1 \in 1 .. Len(r)
  BY <1>l
<1>5. \A x : RunsAt(r, 1, x) <=> f.kind = "task" /\ f.at = "settle" /\ TaskOf(f) = x
  BY DEF RunsAt
<1>6. ASSUME \A i, j \in 1 .. Len(r) : \A x \in Tasks : RunsAt(r, i, x) /\ RunsAt(r, j, x) => i = j
      PROVE  /\ \A i, j \in 1 .. Len(m) : \A x \in Tasks : RunsAt(m, i, x) /\ RunsAt(m, j, x) => i = j
             /\ f.kind = "task" /\ f.at = "settle" => ~Runs(m, TaskOf(f))
  <2>1. ASSUME NEW i \in 1 .. Len(m), NEW j \in 1 .. Len(m), NEW x \in Tasks,
               RunsAt(m, i, x), RunsAt(m, j, x)
        PROVE  i = j
    <3>1. i + 1 = j + 1
      BY <1>1, <1>3, <1>6, <2>1
    <3> QED
      BY <3>1
  <2>2. ASSUME f.kind = "task", f.at = "settle", Runs(m, TaskOf(f)) PROVE FALSE
    <3>1. PICK i \in 1 .. Len(m) : RunsAt(m, i, TaskOf(f))
      BY <2>2 DEF Runs
    <3>2. RunsAt(r, i + 1, TaskOf(f)) /\ RunsAt(r, 1, TaskOf(f))
      BY <1>1, <1>5, <2>2, <3>1
    <3> QED
      BY <1>3, <1>4, <1>6, <2>2, <3>2
  <2> QED
    BY <2>1, <2>2
<1>7. ASSUME \A i, j \in 1 .. Len(m) : \A x \in Tasks : RunsAt(m, i, x) /\ RunsAt(m, j, x) => i = j,
             f.kind = "task" /\ f.at = "settle" => ~Runs(m, TaskOf(f)),
             NEW i \in 1 .. Len(r), NEW j \in 1 .. Len(r), NEW x \in Tasks,
             RunsAt(r, i, x), RunsAt(r, j, x)
      PROVE  i = j
  <2>1. ASSUME NEW k \in 1 .. Len(r), k # 1, RunsAt(r, k, x)
        PROVE  k - 1 \in 1 .. Len(m) /\ RunsAt(m, k - 1, x) /\ ~RunsAt(r, 1, x)
    <3>1. k - 1 \in 1 .. Len(m) /\ (k - 1) + 1 = k
      BY <1>2, <2>1
    <3>2. RunsAt(m, k - 1, x)
      BY <1>1, <2>1, <3>1
    <3> QED
      BY <1>5, <1>7, <3>1, <3>2 DEF Runs
  <2>2. CASE i # 1 /\ j # 1
    <3>1. i - 1 = j - 1
      BY <1>7, <2>1, <2>2
    <3> QED
      BY <3>1
  <2> QED
    BY <1>7, <2>1, <2>2
<1> QED
  BY <1>6, <1>7

(* A stack is sound exactly when its top may be put on a sound stack. *)
LEMMA PushStack ==
    ASSUME NEW m \in Seq(FrameSet), NEW f \in FrameSet
    PROVE  StackOK(<<f>> \o m) <=> StackOK(m) /\ PushOK(m, f)
<1> DEFINE r == <<f>> \o m
<1>1. /\ r \in Seq(FrameSet) /\ Len(r) = Len(m) + 1 /\ r[1] = f
      /\ \A i \in 1 .. Len(m) : r[i + 1] = m[i]
  BY SeqPush
<1>l. Len(m) \in Nat
  OBVIOUS
<1> HIDE DEF r
<1>2. \A i \in 1 .. Len(r) : i = 1 \/ (i - 1 \in 1 .. Len(m) /\ r[i] = m[i - 1])
  <2>1. \A i \in 1 .. Len(r) : i = 1 \/ (i - 1 \in 1 .. Len(m) /\ (i - 1) + 1 = i)
    BY <1>1, <1>l
  <2> QED
    BY <1>1, <2>1
<1>3. ASSUME NEW g, FrameOK(g), g.kind = "task" PROVE Home[g.batch] \in Executors
  <2>1. TaskOf(g) \in Tasks
    BY <1>3 DEF FrameOK
  <2>2. g.batch \in Batches
    BY <2>1 DEF TaskOf, Tasks
  <2> QED
    BY <2>2, BatchesAssumption
<1>4. PlaceOK(r, 1) <=>
        /\ FrameOK(f)
        /\ Len(m) = 0 => f.kind # "task" /\ (f.permit <=> f.at \in {"take", "drop"})
        /\ Len(m) = 1 => f.kind = "task" /\ f.permit
        /\ Len(m) > 1 => ~f.permit
        /\ Len(m) > 0 =>
            /\ f.kind # "worker"
            /\ f.kind = "own" => f.batch \notin Pools /\ f.at \notin {"permit", "drop"}
  <2>1. /\ ~(1 > 1)
        /\ 1 = Len(r) <=> Len(m) = 0
        /\ 1 = Len(r) - 1 <=> Len(m) = 1
        /\ 1 < Len(r) - 1 <=> Len(m) > 1
        /\ 1 < Len(r) <=> Len(m) > 0
    BY <1>1, <1>l
  <2> QED
    BY <1>1, <2>1 DEF PlaceOK
<1>5. (\A i \in 1 .. Len(r) : PlaceOK(r, i)) <=>
             /\ \A i \in 1 .. Len(m) : PlaceOK(m, i)
             /\ PlaceOK(r, 1)
             /\ m # <<>> => m[1].at \in {"look", "loop", "settle"}
  BY <1>1, PushPlaces
<1>6. ASSUME FrameOK(f), \A i \in 1 .. Len(m) : FrameOK(m[i])
      PROVE  LanesOK(r) <=>
             /\ LanesOK(m)
             /\ f.kind = "task" =>
                  (f.counts <=> \A i \in 1 .. Len(m) :
                                  m[i].kind = "task" => Home[m[i].batch] # Home[f.batch])
  <2>1. \A i \in 1 .. Len(r) : r[i].kind = "task" => Home[r[i].batch] \in Executors
    BY <1>1, <1>2, <1>3, <1>6
  <2> QED
    BY <1>1, <2>1, PushLanes
<1>7. ASSUME FrameOK(f)
      PROVE  (\A i, j \in 1 .. Len(r) : \A x \in Tasks : RunsAt(r, i, x) /\ RunsAt(r, j, x) => i = j) <=>
             /\ \A i, j \in 1 .. Len(m) : \A x \in Tasks : RunsAt(m, i, x) /\ RunsAt(m, j, x) => i = j
             /\ f.kind = "task" /\ f.at = "settle" => ~Runs(m, TaskOf(f))
  <2>1. f.kind = "task" => TaskOf(f) \in Tasks
    BY <1>7 DEF FrameOK
  <2> QED
    BY <1>1, <2>1, PushRuns
<1>8. (\A i \in 1 .. Len(m) : PlaceOK(m, i)) => \A i \in 1 .. Len(m) : FrameOK(m[i])
  BY DEF PlaceOK
<1>9. ASSUME StackOK(r) PROVE StackOK(m) /\ PushOK(m, f)
  BY <1>4, <1>5, <1>6, <1>7, <1>8, <1>9 DEF StackOK, PushOK
<1>10. ASSUME StackOK(m), PushOK(m, f) PROVE StackOK(r)
  <2>1. \A i \in 1 .. Len(r) : PlaceOK(r, i)
    BY <1>4, <1>5, <1>10 DEF StackOK, PushOK
  <2>2. LanesOK(r)
    BY <1>6, <1>8, <1>10 DEF StackOK, PushOK
  <2>3. \A i, j \in 1 .. Len(r) : \A x \in Tasks : RunsAt(r, i, x) /\ RunsAt(r, j, x) => i = j
    BY <1>7, <1>10 DEF StackOK, PushOK
  <2> QED
    BY <1>1, <2>1, <2>2, <2>3 DEF StackOK
<1> QED
  BY <1>9, <1>10 DEF r

(* What a stack shows, from its top and the rest. *)
LEMMA PushView ==
    ASSUME NEW m \in Seq(FrameSet), NEW f \in FrameSet, NEW r, r = <<f>> \o m
    PROVE  /\ r \in Seq(FrameSet) /\ r # <<>> /\ Len(r) = Len(m) + 1 /\ Head(r) = f /\ Tail(r) = m
           /\ Held(r) <=> f.permit \/ Held(m)
           /\ \A e : InLane(r, e) <=> (Counts(f, e) /\ f.at # "permit") \/ InLane(m, e)
           /\ \A x : Runs(r, x) <=> (f.kind = "task" /\ f.at = "settle" /\ TaskOf(f) = x) \/ Runs(m, x)
           /\ \A b : OwnsBatch(r, b) <=> (f.kind = "own" /\ f.batch = b) \/ OwnsBatch(m, b)
           /\ Serves(r) <=> f.kind = "worker" \/ Serves(m)
           /\ Bottom(r) = IF m = <<>> THEN f ELSE Bottom(m)
<1>1. /\ r \in Seq(FrameSet) /\ Len(r) = Len(m) + 1 /\ r[1] = f /\ r # <<>>
      /\ \A i \in 1 .. Len(m) : r[i + 1] = m[i]
      /\ Head(r) = f /\ Tail(r) = m
  BY SeqPush
<1>l. Len(m) \in Nat
  OBVIOUS
<1>2. \A i \in 1 .. Len(r) : i = 1 \/ (i - 1 \in 1 .. Len(m) /\ r[i] = m[i - 1])
  <2>1. \A i \in 1 .. Len(r) : i = 1 \/ (i - 1 \in 1 .. Len(m) /\ (i - 1) + 1 = i)
    BY <1>1, <1>l
  <2> QED
    BY <1>1, <2>1
<1>3. \A i \in 1 .. Len(m) : i + 1 \in 1 .. Len(r) /\ r[i + 1] = m[i]
  BY <1>1, <1>l
<1>4. 1 \in 1 .. Len(r)
  BY <1>1, <1>l
<1>5. Held(r) <=> f.permit \/ Held(m)
  <2>1. ASSUME NEW i \in 1 .. Len(r), r[i].permit PROVE f.permit \/ Held(m)
    BY <1>1, <1>2, <2>1 DEF Held
  <2>2. ASSUME f.permit \/ Held(m) PROVE \E i \in 1 .. Len(r) : r[i].permit
    BY <1>1, <1>3, <1>4, <2>2 DEF Held
  <2> QED
    BY <2>1, <2>2 DEF Held
<1>6. ASSUME NEW e PROVE InLane(r, e) <=> (Counts(f, e) /\ f.at # "permit") \/ InLane(m, e)
  <2>1. ASSUME NEW i \in 1 .. Len(r), Counts(r[i], e) /\ r[i].at # "permit"
        PROVE  (Counts(f, e) /\ f.at # "permit") \/ InLane(m, e)
    BY <1>1, <1>2, <2>1 DEF InLane
  <2>2. ASSUME (Counts(f, e) /\ f.at # "permit") \/ InLane(m, e)
        PROVE  \E i \in 1 .. Len(r) : Counts(r[i], e) /\ r[i].at # "permit"
    BY <1>1, <1>3, <1>4, <2>2 DEF InLane
  <2> QED
    BY <2>1, <2>2 DEF InLane
<1>7. \A x : Runs(r, x) <=> (f.kind = "task" /\ f.at = "settle" /\ TaskOf(f) = x) \/ Runs(m, x)
  BY <1>1, <1>2, <1>3, <1>4 DEF Runs, RunsAt
<1>8. \A b : OwnsBatch(r, b) <=> (f.kind = "own" /\ f.batch = b) \/ OwnsBatch(m, b)
  BY <1>1, <1>2, <1>3, <1>4 DEF OwnsBatch
<1>9. Bottom(r) = IF m = <<>> THEN f ELSE Bottom(m)
  <2>1. CASE m = <<>>
    BY <1>1, <2>1 DEF Bottom
  <2>2. CASE m # <<>>
    <3>1. Len(m) \in 1 .. Len(m)
      BY <1>l, <2>2
    <3> QED
      BY <1>1, <2>2, <3>1 DEF Bottom
  <2> QED
    BY <2>1, <2>2
<1>10. Serves(r) <=> f.kind = "worker" \/ Serves(m)
  <2>1. ASSUME NEW i \in 1 .. Len(r), r[i].kind = "worker" PROVE f.kind = "worker" \/ Serves(m)
    BY <1>1, <1>2, <2>1 DEF Serves
  <2>2. ASSUME f.kind = "worker" \/ Serves(m) PROVE \E i \in 1 .. Len(r) : r[i].kind = "worker"
    BY <1>1, <1>3, <1>4, <2>2 DEF Serves
  <2> QED
    BY <2>1, <2>2 DEF Serves
<1> QED
  BY <1>1, <1>5, <1>6, <1>7, <1>8, <1>9, <1>10

(* The empty stack. *)
LEMMA EmptyStack ==
    /\ <<>> \in Seq(FrameSet) /\ Len(<<>>) = 0 /\ StackOK(<<>>) /\ ~Held(<<>>)
    /\ \A e : ~InLane(<<>>, e)
    /\ \A x : ~Runs(<<>>, x)
    /\ \A b : ~OwnsBatch(<<>>, b) /\ ~OwnsPool(<<>>, b)
    /\ ~Serves(<<>>)
  BY DEF StackOK, LanesOK, Held, InLane, Runs, OwnsBatch, OwnsPool, Serves

-----------------------------------------------------------------------------
(* Counting permits and lanes. *)
LEMMA SubsetsFinite ==
    ASSUME NEW S \in SUBSET Threads
    PROVE  IsFiniteSet(S) /\ Cardinality(S) \in Nat
  BY ThreadsAssumption, FS_Subset, FS_CardinalityType

LEMMA PermitsSame ==
    ASSUME Permits, \A u \in Threads : Held(frames'[u]) <=> Held(frames[u]), permits' = permits
    PROVE  Permits'
<1>1. Holders' = Holders
  BY DEF Holders
<1> QED
  BY <1>1 DEF Permits

LEMMA PermitsTaken ==
    ASSUME Permits, NEW t \in Threads, ~Held(frames[t]), Held(frames'[t]),
           \A u \in Threads \ {t} : Held(frames'[u]) <=> Held(frames[u]),
           permits < Capacity, permits' = permits + 1
    PROVE  Permits' /\ permits' \in Nat
<1>1. Holders' = Holders \cup {t} /\ t \notin Holders
  BY DEF Holders
<1>2. IsFiniteSet(Holders) /\ Cardinality(Holders) \in Nat
  BY SubsetsFinite DEF Holders
<1>3. Cardinality(Holders') = Cardinality(Holders) + 1
  BY <1>1, <1>2, FS_AddElement
<1> QED
  BY <1>2, <1>3, CapacityAssumption DEF Permits

LEMMA PermitsGiven ==
    ASSUME Permits, NEW t \in Threads, Held(frames[t]), ~Held(frames'[t]),
           \A u \in Threads \ {t} : Held(frames'[u]) <=> Held(frames[u]),
           permits' = permits - 1
    PROVE  Permits' /\ permits' \in Nat
<1>1. Holders' = Holders \ {t} /\ t \in Holders
  BY DEF Holders
<1>2. IsFiniteSet(Holders) /\ Cardinality(Holders) \in Nat
  BY SubsetsFinite DEF Holders
<1>3. Cardinality(Holders') = Cardinality(Holders) - 1 /\ Cardinality(Holders') \in Nat
  <2>1. Holders' \in SUBSET Threads
    BY <1>1 DEF Holders
  <2> QED
    BY <1>1, <1>2, <2>1, FS_RemoveElement, SubsetsFinite
<1> QED
  BY <1>2, <1>3, CapacityAssumption DEF Permits

LEMMA LaneSame ==
    ASSUME NEW e \in Executors, LaneCounted(e), running'[e] = running[e],
           \A u \in Threads : InLane(frames'[u], e) <=> InLane(frames[u], e)
    PROVE  LaneCounted(e)'
<1>1. LaneHolders(e)' = LaneHolders(e)
  BY DEF LaneHolders
<1> QED
  BY <1>1 DEF LaneCounted

LEMMA LaneTaken ==
    ASSUME NEW e \in Executors, LaneCounted(e), HasLane(e), running'[e] = running[e] + 1,
           NEW t \in Threads, ~InLane(frames[t], e), InLane(frames'[t], e),
           \A u \in Threads \ {t} : InLane(frames'[u], e) <=> InLane(frames[u], e)
    PROVE  LaneCounted(e)' /\ running'[e] \in Nat
<1>1. LaneHolders(e)' = LaneHolders(e) \cup {t} /\ t \notin LaneHolders(e)
  BY DEF LaneHolders
<1>2. IsFiniteSet(LaneHolders(e)) /\ Cardinality(LaneHolders(e)) \in Nat
  BY SubsetsFinite DEF LaneHolders
<1>3. Cardinality(LaneHolders(e)') = Cardinality(LaneHolders(e)) + 1
  BY <1>1, <1>2, FS_AddElement
<1>4. Parallelism[e] \in Nat
  BY ParallelismAssumption
<1> QED
  BY <1>2, <1>3, <1>4 DEF LaneCounted, HasLane

LEMMA LaneGiven ==
    ASSUME NEW e \in Executors, LaneCounted(e), running'[e] = running[e] - 1,
           NEW t \in Threads, InLane(frames[t], e), ~InLane(frames'[t], e),
           \A u \in Threads \ {t} : InLane(frames'[u], e) <=> InLane(frames[u], e)
    PROVE  LaneCounted(e)' /\ running'[e] \in Nat
<1>1. LaneHolders(e)' = LaneHolders(e) \ {t} /\ t \in LaneHolders(e)
  BY DEF LaneHolders
<1>2. IsFiniteSet(LaneHolders(e)) /\ Cardinality(LaneHolders(e)) \in Nat
  BY SubsetsFinite DEF LaneHolders
<1>3. Cardinality(LaneHolders(e)') = Cardinality(LaneHolders(e)) - 1
      /\ Cardinality(LaneHolders(e)') \in Nat
  <2>1. LaneHolders(e)' \in SUBSET Threads
    BY <1>1 DEF LaneHolders
  <2> QED
    BY <1>1, <1>2, <2>1, FS_RemoveElement, SubsetsFinite
<1>4. Parallelism[e] \in Nat
  BY ParallelismAssumption
<1> QED
  BY <1>2, <1>3, <1>4 DEF LaneCounted

-----------------------------------------------------------------------------
(* What a step may do to tasks and their owners. *)
SameOwners(s, r) ==
    /\ \A b \in Batches : OwnsBatch(r, b) <=> OwnsBatch(s, b)
    /\ \A b \in Pools :
        /\ OwnsPool(r, b) <=> OwnsPool(s, b)
        /\ OwnsPool(s, b) =>
            Bottom(r).pending = Bottom(s).pending /\ Bottom(r).task = Bottom(s).task

SameRuns(s, r) == \A x \in Tasks : Runs(r, x) <=> Runs(s, x)

LEMMA TaskParts ==
    ASSUME NEW x \in Tasks
    PROVE  /\ x[1] \in Batches /\ x[2] \in 1 .. Size[x[1]] /\ x = <<x[1], x[2]>>
           /\ Home[x[1]] \in Executors /\ Size[x[1]] \in Nat /\ x[2] \in Nat
<1>1. PICK b \in Batches : x \in {b} \X (1 .. Size[b])
  BY DEF Tasks
<1>2. x[1] = b /\ x[2] \in 1 .. Size[b] /\ x = <<x[1], x[2]>>
  BY <1>1
<1>3. Size[b] \in Nat /\ Home[b] \in Executors
  BY BatchesAssumption
<1> QED
  BY <1>2, <1>3

(* A step that moves no task and no owner. *)
LEMMA TasksSame ==
    ASSUME TaskInv, UNCHANGED <<queue, done, opened>>,
           \A u \in Threads : SameRuns(frames[u], frames'[u]) /\ SameOwners(frames[u], frames'[u])
    PROVE  TaskInv'
<1>1. ASSUME NEW x \in Tasks PROVE (Waits(x)' <=> Waits(x)) /\ (Live(x)' <=> Live(x))
  BY DEF Waits, Live, SameRuns
<1>2. Queues'
  BY DEF TaskInv, Queues
<1>3. Apart'
  BY <1>1 DEF TaskInv, Apart, SameRuns
<1>4. Kept'
  BY <1>1 DEF TaskInv, Kept, SameOwners
<1>5. Owned'
  <2> SUFFICES ASSUME NEW x \in Tasks, Live(x) PROVE HasOwner(x)'
    BY <1>1 DEF Owned
  <2>1. HasOwner(x)
    BY DEF TaskInv, Owned
  <2> QED
    BY <2>1, TaskParts DEF HasOwner, SameOwners
<1>6. PoolsOK'
  BY DEF TaskInv, PoolsOK, SameOwners, PoolCapacity
<1> QED
  BY <1>2, <1>3, <1>4, <1>5, <1>6 DEF TaskInv

(* A thread takes a task from the queue. *)
LEMMA TaskStarts ==
    ASSUME Typed, TaskInv, UNCHANGED <<done, opened>>, NEW x \in Tasks, Waits(x), NEW t \in Threads,
           NEW q \in Seq(Tasks), queue' = [queue EXCEPT ![Home[x[1]]] = q], Distinct(q),
           \A y \in Tasks : In(q, y) <=> y # x /\ In(queue[Home[x[1]]], y),
           \A u \in Threads : SameOwners(frames[u], frames'[u]),
           \A u \in Threads \ {t} : SameRuns(frames[u], frames'[u]),
           \A y \in Tasks : Runs(frames'[t], y) <=> y = x \/ Runs(frames[t], y)
    PROVE  TaskInv'
<1> DEFINE e == Home[x[1]]
<1>0. e \in Executors /\ queue \in [Executors -> Seq(Tasks)]
  BY TaskParts DEF Typed
<1>1. queue'[e] = q /\ \A d \in Executors \ {e} : queue'[d] = queue[d]
  BY <1>0
<1>2. ASSUME NEW y \in Tasks PROVE Waits(y)' <=> Waits(y) /\ y # x
  <2>1. Home[y[1]] \in Executors
    BY TaskParts
  <2>2. CASE Home[y[1]] = e
    BY <1>1, <2>2 DEF Waits
  <2>3. CASE Home[y[1]] # e
    BY <1>1, <2>1, <2>3 DEF Waits
  <2> QED
    BY <2>2, <2>3
<1>3. ASSUME NEW y \in Tasks PROVE Live(y)' <=> Live(y)
  <2>1. CASE y = x
    BY <2>1 DEF Live
  <2>2. CASE y # x
    BY <1>2, <2>2 DEF Live, SameRuns
  <2> QED
    BY <2>1, <2>2
<1>4. Queues'
  BY <1>0, <1>1 DEF TaskInv, Queues
<1>x. \A u \in Threads : ~Runs(frames[u], x)
  BY DEF TaskInv, Apart
<1>5. Apart'
  <2> SUFFICES ASSUME NEW y \in Tasks
               PROVE  /\ Live(y) => y \notin done
                      /\ \A w \in Threads : Runs(frames'[w], y) =>
                            /\ ~Waits(y)'
                            /\ \A u \in Threads : Runs(frames'[u], y) => w = u
    BY <1>3 DEF Apart
  <2>1. CASE y = x
    <3>1. \A u \in Threads : Runs(frames'[u], y) <=> u = t
      BY <1>x, <2>1 DEF SameRuns
    <3> QED
      BY <1>2, <2>1, <3>1 DEF TaskInv, Apart
  <2>2. CASE y # x
    BY <1>2, <2>2 DEF TaskInv, Apart, SameRuns
  <2> QED
    BY <2>1, <2>2
<1>6. Kept'
  BY <1>3 DEF TaskInv, Kept, SameOwners
<1>7. Owned'
  <2> SUFFICES ASSUME NEW y \in Tasks, Live(y) PROVE HasOwner(y)'
    BY <1>3 DEF Owned
  <2>1. HasOwner(y)
    BY DEF TaskInv, Owned
  <2> QED
    BY <2>1, TaskParts DEF HasOwner, SameOwners
<1>8. PoolsOK'
  BY DEF TaskInv, PoolsOK, SameOwners, PoolCapacity
<1> QED
  BY <1>4, <1>5, <1>6, <1>7, <1>8 DEF TaskInv

(* A task is complete. *)
LEMMA TaskSettles ==
    ASSUME TaskInv, UNCHANGED <<queue, opened>>, NEW x \in Tasks, NEW t \in Threads,
           Runs(frames[t], x), done' = done \cup {x},
           \A u \in Threads : SameOwners(frames[u], frames'[u]),
           \A u \in Threads \ {t} : SameRuns(frames[u], frames'[u]),
           \A y \in Tasks : Runs(frames'[t], y) <=> y # x /\ Runs(frames[t], y)
    PROVE  TaskInv'
<1>1. ASSUME NEW y \in Tasks PROVE Waits(y)' <=> Waits(y)
  BY DEF Waits
<1>x. ~Waits(x) /\ \A u \in Threads : Runs(frames[u], x) => u = t
  BY DEF TaskInv, Apart
<1>2. ~Live(x)'
  BY <1>1, <1>x DEF Live, SameRuns
<1>3. ASSUME NEW y \in Tasks, y # x PROVE Live(y)' <=> Live(y)
  BY <1>1, <1>3 DEF Live, SameRuns
<1>4. Queues'
  BY DEF TaskInv, Queues
<1>5. Apart'
  <2> SUFFICES ASSUME NEW y \in Tasks
               PROVE  /\ Live(y)' => y \notin done'
                      /\ \A w \in Threads : Runs(frames'[w], y) =>
                            /\ ~Waits(y)'
                            /\ \A u \in Threads : Runs(frames'[u], y) => w = u
    BY DEF Apart
  <2>1. CASE y = x
    BY <1>2, <2>1 DEF Live
  <2>2. CASE y # x
    BY <1>1, <1>3, <2>2 DEF TaskInv, Apart, SameRuns
  <2> QED
    BY <2>1, <2>2
<1>k. \A y \in Tasks : (Live(y) \/ y \in done)' <=> (Live(y) \/ y \in done)
  BY <1>2, <1>3 DEF Live
<1>6. Kept'
  BY <1>k DEF TaskInv, Kept, SameOwners
<1>7. Owned'
  <2> SUFFICES ASSUME NEW y \in Tasks, Live(y) PROVE HasOwner(y)'
    BY <1>2, <1>3 DEF Owned
  <2>1. HasOwner(y)
    BY DEF TaskInv, Owned
  <2> QED
    BY <2>1, TaskParts DEF HasOwner, SameOwners
<1>8. PoolsOK'
  BY DEF TaskInv, PoolsOK, SameOwners, PoolCapacity
<1> QED
  BY <1>4, <1>5, <1>6, <1>7, <1>8 DEF TaskInv

(* An owner returns from a batch whose tasks are all complete. *)
LEMMA OwnerLeaves ==
    ASSUME TaskInv, UNCHANGED <<queue, done, opened>>, NEW t \in Threads, NEW b \in Batches \ Pools,
           \A x \in Tasks : x[1] = b => x \in done,
           \A u \in Threads : SameRuns(frames[u], frames'[u]),
           \A u \in Threads \ {t} : SameOwners(frames[u], frames'[u]),
           \A c \in Batches \ {b} : OwnsBatch(frames'[t], c) <=> OwnsBatch(frames[t], c),
           \A c \in Pools : /\ OwnsPool(frames'[t], c) <=> OwnsPool(frames[t], c)
                            /\ OwnsPool(frames[t], c) => Bottom(frames'[t]) = Bottom(frames[t])
    PROVE  TaskInv'
<1>0. \A u \in Threads, c \in Pools :
        /\ OwnsPool(frames'[u], c) <=> OwnsPool(frames[u], c)
        /\ OwnsPool(frames[u], c) => /\ Bottom(frames'[u]).pending = Bottom(frames[u]).pending
                                     /\ Bottom(frames'[u]).task = Bottom(frames[u]).task
  BY DEF SameOwners
<1>1. ASSUME NEW x \in Tasks PROVE (Waits(x)' <=> Waits(x)) /\ (Live(x)' <=> Live(x))
  BY DEF Waits, Live, SameRuns
<1>2. Queues'
  BY DEF TaskInv, Queues
<1>3. Apart'
  BY <1>1 DEF TaskInv, Apart, SameRuns
<1>4. Kept'
  BY <1>0, <1>1 DEF TaskInv, Kept
<1>5. Owned'
  <2> SUFFICES ASSUME NEW x \in Tasks, Live(x) PROVE HasOwner(x)'
    BY <1>1 DEF Owned
  <2>1. HasOwner(x) /\ x[1] # b
    BY DEF TaskInv, Owned, Apart
  <2>2. x[1] \in Batches
    BY TaskParts
  <2>3. CASE x[1] \in Pools
    BY <1>0, <2>1, <2>3 DEF HasOwner
  <2>4. CASE x[1] \notin Pools
    <3>1. PICK u \in Threads : OwnsBatch(frames[u], x[1])
      BY <2>1, <2>4 DEF HasOwner
    <3>2. OwnsBatch(frames'[u], x[1])
      BY <2>1, <2>2, <3>1 DEF SameOwners
    <3> QED
      BY <2>4, <3>2 DEF HasOwner
  <2> QED
    BY <2>3, <2>4
<1>6. PoolsOK'
  BY <1>0 DEF TaskInv, PoolsOK, PoolCapacity
<1> QED
  BY <1>2, <1>3, <1>4, <1>5, <1>6 DEF TaskInv

(* A pool without pending tasks is gone. *)
LEMMA PoolEnds ==
    ASSUME TaskInv, UNCHANGED <<queue, done, opened>>, NEW t \in Threads, NEW b \in Pools,
           OwnsPool(frames[t], b), Bottom(frames[t]).pending = <<>>,
           \A u \in Threads : SameRuns(frames[u], frames'[u]),
           \A u \in Threads \ {t} : SameOwners(frames[u], frames'[u]),
           \A c \in Batches : OwnsBatch(frames[t], c) => c = b,
           \A c \in Pools : ~OwnsPool(frames'[t], c) /\ (OwnsPool(frames[t], c) => c = b)
    PROVE  TaskInv'
<1>0. \A u \in Threads, c \in Pools : OwnsPool(frames'[u], c) =>
        /\ OwnsPool(frames[u], c)
        /\ Bottom(frames'[u]).pending = Bottom(frames[u]).pending
        /\ Bottom(frames'[u]).task = Bottom(frames[u]).task
  BY DEF SameOwners
<1>1. ASSUME NEW x \in Tasks PROVE (Waits(x)' <=> Waits(x)) /\ (Live(x)' <=> Live(x))
  BY DEF Waits, Live, SameRuns
<1>2. Queues'
  BY DEF TaskInv, Queues
<1>3. Apart'
  BY <1>1 DEF TaskInv, Apart, SameRuns
<1>4. Kept'
  BY <1>0, <1>1 DEF TaskInv, Kept
<1>5. Owned'
  <2> SUFFICES ASSUME NEW x \in Tasks, Live(x) PROVE HasOwner(x)'
    BY <1>1 DEF Owned
  <2>1. HasOwner(x)
    BY DEF TaskInv, Owned
  <2>2. x[1] \in Batches
    BY TaskParts
  <2>3. CASE x[1] \in Pools
    <3>1. PICK u \in Threads : OwnsPool(frames[u], x[1]) /\ In(Bottom(frames[u]).pending, x[2])
      BY <2>1, <2>3 DEF HasOwner
    <3>2. u # t
      <4>1. ~In(<<>>, x[2])
        BY DEF In
      <4> QED
        BY <3>1, <4>1
    <3>3. OwnsPool(frames'[u], x[1]) /\ In(Bottom(frames'[u]).pending, x[2])
      BY <2>3, <3>1, <3>2 DEF SameOwners
    <3> QED
      BY <2>3, <3>3 DEF HasOwner
  <2>4. CASE x[1] \notin Pools
    <3>1. PICK u \in Threads : OwnsBatch(frames[u], x[1])
      BY <2>1, <2>4 DEF HasOwner
    <3>2. OwnsBatch(frames'[u], x[1])
      BY <2>2, <2>4, <3>1 DEF SameOwners
    <3> QED
      BY <2>4, <3>2 DEF HasOwner
  <2> QED
    BY <2>3, <2>4
<1>6. PoolsOK'
  BY <1>0 DEF TaskInv, PoolsOK, PoolCapacity
<1> QED
  BY <1>2, <1>3, <1>4, <1>5, <1>6 DEF TaskInv

(* A batch is submitted. *)
LEMMA BatchSubmitted ==
    ASSUME Typed, TaskInv, done' = done, NEW t \in Threads,
           NEW b \in Batches \ (Pools \cup opened), opened' = opened \cup {b},
           NEW q \in Seq(Tasks), queue' = [queue EXCEPT ![Home[b]] = q], Distinct(q),
           \A y \in Tasks : In(q, y) <=> y[1] = b \/ In(queue[Home[b]], y),
           \A u \in Threads : SameRuns(frames[u], frames'[u]),
           \A u \in Threads, c \in Batches : OwnsBatch(frames[u], c) => OwnsBatch(frames'[u], c),
           OwnsBatch(frames'[t], b),
           \A u \in Threads, c \in Pools :
                /\ OwnsPool(frames'[u], c) <=> OwnsPool(frames[u], c)
                /\ OwnsPool(frames[u], c) => Bottom(frames'[u]) = Bottom(frames[u])
    PROVE  TaskInv'
<1> DEFINE e == Home[b]
<1>0. e \in Executors /\ queue \in [Executors -> Seq(Tasks)]
  BY BatchesAssumption DEF Typed
<1>1. queue'[e] = q /\ \A d \in Executors \ {e} : queue'[d] = queue[d]
  BY <1>0
<1>2. ASSUME NEW y \in Tasks
      PROVE  /\ y[1] # b => (Waits(y)' <=> Waits(y))
             /\ y[1] = b => Waits(y)'
  <2>1. Home[y[1]] \in Executors
    BY TaskParts
  <2>2. CASE Home[y[1]] = e
    BY <1>1, <2>2 DEF Waits
  <2>3. CASE Home[y[1]] # e
    BY <1>1, <2>1, <2>3 DEF Waits
  <2> QED
    BY <2>2, <2>3
<1>3. ASSUME NEW y \in Tasks
      PROVE  /\ y[1] # b => (Live(y)' <=> Live(y))
             /\ y[1] = b => Live(y)' /\ ~Live(y) /\ y \notin done
  <2>1. CASE y[1] # b
    BY <1>2, <2>1 DEF Live, SameRuns
  <2>2. CASE y[1] = b
    <3>1. ~Live(y) /\ y \notin done
      BY <2>2 DEF TaskInv, Kept
    <3> QED
      BY <1>2, <2>2, <3>1 DEF Live
  <2> QED
    BY <2>1, <2>2
<1>4. Queues'
  <2> SUFFICES ASSUME NEW d \in Executors
               PROVE  /\ \A x \in Tasks : In(queue'[d], x) => Home[x[1]] = d
                      /\ Distinct(queue'[d])
    BY DEF Queues
  <2>1. CASE d = e
    BY <1>0, <1>1, <2>1 DEF TaskInv, Queues
  <2>2. CASE d # e
    BY <1>1, <2>2 DEF TaskInv, Queues
  <2> QED
    BY <2>1, <2>2
<1>5. Apart'
  <2> SUFFICES ASSUME NEW y \in Tasks
               PROVE  /\ Live(y)' => y \notin done
                      /\ \A w \in Threads : Runs(frames'[w], y) =>
                            /\ ~Waits(y)'
                            /\ \A u \in Threads : Runs(frames'[u], y) => w = u
    BY DEF Apart
  <2>1. CASE y[1] = b
    <3>1. \A u \in Threads : ~Runs(frames'[u], y)
      BY <1>3, <2>1 DEF Live, SameRuns
    <3> QED
      BY <1>3, <2>1, <3>1
  <2>2. CASE y[1] # b
    BY <1>2, <1>3, <2>2 DEF TaskInv, Apart, SameRuns
  <2> QED
    BY <2>1, <2>2
<1>6. Kept'
  <2> SUFFICES ASSUME NEW x \in Tasks
               PROVE  /\ Live(x)' \/ x \in done => x[1] \in opened'
                      /\ x[1] \notin Pools /\ x[1] \in opened' => Live(x)' \/ x \in done
                      /\ x[1] \in Pools => \A u \in Threads : OwnsPool(frames'[u], x[1]) =>
                            (Live(x)' \/ x \in done <=> x[2] <= Bottom(frames'[u]).task)
    BY DEF Kept
  <2>1. CASE x[1] = b
    BY <1>3, <2>1
  <2>2. CASE x[1] # b
    BY <1>3, <2>2 DEF TaskInv, Kept
  <2> QED
    BY <2>1, <2>2
<1>7. Owned'
  <2> SUFFICES ASSUME NEW x \in Tasks, Live(x)' PROVE HasOwner(x)'
    BY DEF Owned
  <2>1. CASE x[1] = b
    BY <2>1 DEF HasOwner
  <2>2. CASE x[1] # b
    <3>1. HasOwner(x) /\ x[1] \in Batches
      BY <1>3, <2>2, TaskParts DEF TaskInv, Owned
    <3> QED
      BY <3>1 DEF HasOwner
  <2> QED
    BY <2>1, <2>2
<1>8. PoolsOK'
  BY DEF TaskInv, PoolsOK, PoolCapacity
<1> QED
  BY <1>4, <1>5, <1>6, <1>7, <1>8 DEF TaskInv

(* A pool is opened. *)
LEMMA PoolOpened ==
    ASSUME TaskInv, UNCHANGED <<queue, done>>, NEW t \in Threads,
           NEW b \in Pools \ opened, opened' = opened \cup {b},
           \A u \in Threads : ~OwnsPool(frames[u], b),
           \A u \in Threads : SameRuns(frames[u], frames'[u]),
           \A u \in Threads \ {t} : SameOwners(frames[u], frames'[u]),
           \A c \in Batches : ~OwnsBatch(frames[t], c),
           \A c \in Pools : ~OwnsPool(frames[t], c) /\ (OwnsPool(frames'[t], c) => c = b),
           Bottom(frames'[t]).pending = <<>>, Bottom(frames'[t]).task = 0
    PROVE  TaskInv'
<1>0. \A u \in Threads \ {t}, c \in Pools :
        /\ OwnsPool(frames'[u], c) <=> OwnsPool(frames[u], c)
        /\ OwnsPool(frames[u], c) =>
            /\ Bottom(frames'[u]).pending = Bottom(frames[u]).pending
            /\ Bottom(frames'[u]).task = Bottom(frames[u]).task
  BY DEF SameOwners
<1>1. ASSUME NEW x \in Tasks PROVE (Waits(x)' <=> Waits(x)) /\ (Live(x)' <=> Live(x))
  BY DEF Waits, Live, SameRuns
<1>2. Queues'
  BY DEF TaskInv, Queues
<1>3. Apart'
  BY <1>1 DEF TaskInv, Apart, SameRuns
<1>4. Kept'
  <2> SUFFICES ASSUME NEW x \in Tasks
               PROVE  /\ Live(x) \/ x \in done => x[1] \in opened'
                      /\ x[1] \notin Pools /\ x[1] \in opened' => Live(x) \/ x \in done
                      /\ x[1] \in Pools => \A u \in Threads : OwnsPool(frames'[u], x[1]) =>
                            (Live(x) \/ x \in done <=> x[2] <= Bottom(frames'[u]).task)
    BY <1>1 DEF Kept
  <2>1. x[2] \in 1 .. Size[x[1]] /\ Size[x[1]] \in Nat
    BY TaskParts
  <2>2. ~(x[2] <= 0)
    BY <2>1
  <2>3. x[1] = b => ~(Live(x) \/ x \in done)
    BY DEF TaskInv, Kept
  <2>4. ASSUME x[1] \in Pools, NEW u \in Threads, OwnsPool(frames'[u], x[1])
        PROVE  Live(x) \/ x \in done <=> x[2] <= Bottom(frames'[u]).task
    <3>1. CASE u = t
      BY <2>2, <2>3, <2>4, <3>1
    <3>2. CASE u # t
      BY <1>0, <2>4, <3>2 DEF TaskInv, Kept
    <3> QED
      BY <3>1, <3>2
  <2> QED
    BY <2>4 DEF TaskInv, Kept
<1>5. Owned'
  <2> SUFFICES ASSUME NEW x \in Tasks, Live(x) PROVE HasOwner(x)'
    BY <1>1 DEF Owned
  <2>1. HasOwner(x) /\ x[1] \in Batches
    BY TaskParts DEF TaskInv, Owned
  <2>3. CASE x[1] \in Pools
    BY <1>0, <2>1, <2>3 DEF HasOwner
  <2>4. CASE x[1] \notin Pools
    <3>1. PICK u \in Threads : OwnsBatch(frames[u], x[1])
      BY <2>1, <2>4 DEF HasOwner
    <3>2. OwnsBatch(frames'[u], x[1])
      BY <2>1, <3>1 DEF SameOwners
    <3> QED
      BY <2>4, <3>2 DEF HasOwner
  <2> QED
    BY <2>3, <2>4
<1>6. PoolsOK'
  <2> SUFFICES ASSUME NEW c \in Pools, NEW w \in Threads, OwnsPool(frames'[w], c)
               PROVE  /\ Len(Bottom(frames'[w]).pending) <= PoolCapacity(c)
                      /\ \A u \in Threads : OwnsPool(frames'[u], c) => w = u
    BY DEF PoolsOK, PoolCapacity
  <2>1. CASE w = t
    <3>1. c = b /\ \A u \in Threads \ {t} : ~OwnsPool(frames'[u], c)
      BY <1>0, <2>1
    <3>2. Parallelism[Home[c]] \in Nat /\ MaxParallelism \in Nat
      BY BatchesAssumption, ParallelismAssumption
    <3>3. Len(<<>>) = 0 /\ 0 <= PoolCapacity(c)
      BY <3>2 DEF PoolCapacity
    <3> QED
      BY <2>1, <3>1, <3>3
  <2>2. CASE w # t
    BY <1>0, <2>2 DEF TaskInv, PoolsOK
  <2> QED
    BY <2>1, <2>2
<1> QED
  BY <1>2, <1>3, <1>4, <1>5, <1>6 DEF TaskInv

(* A pool with room is given its next task. *)
PoolNext(t, b, n) ==
    /\ OwnsPool(frames[t], b) /\ Bottom(frames[t]).task \in Nat
    /\ n \in Nat /\ n = Bottom(frames[t]).task + 1 /\ n <= Size[b]

PoolFront(b, n) == <<<<b, n>>>> \o queue[Home[b]]

(* The frame g of a pool that accepted its n-th task, in place of f. *)
PoolGrew(f, g, b, n) ==
    /\ g.kind = "own" /\ g.batch = b /\ g.task = n
    /\ \A k : In(g.pending, k) <=> k = n \/ In(f.pending, k)
    /\ Len(g.pending) <= PoolCapacity(b)

PoolAdds(t, b, n, q) ==
    /\ UNCHANGED <<done, opened>> /\ b \in Pools \cap opened
    /\ PoolNext(t, b, n)
    /\ frames'[t] # <<>> /\ PoolGrew(Bottom(frames[t]), Bottom(frames'[t]), b, n)
    /\ q \in Seq(Tasks) /\ queue' = [queue EXCEPT ![Home[b]] = q] /\ Distinct(q)
    /\ \A y \in Tasks : In(q, y) <=> y = <<b, n>> \/ In(queue[Home[b]], y)
    /\ \A u \in Threads : SameRuns(frames[u], frames'[u])
    /\ \A u \in Threads \ {t} : SameOwners(frames[u], frames'[u])
    /\ \A c \in Batches : OwnsBatch(frames'[t], c) <=> OwnsBatch(frames[t], c)
    /\ \A c \in Pools \ {b} : ~OwnsPool(frames'[t], c) /\ ~OwnsPool(frames[t], c)

LEMMA PoolSubmitted ==
    ASSUME Typed, TaskInv, NEW t \in Threads, NEW b, NEW n, NEW q, PoolAdds(t, b, n, q)
    PROVE  TaskInv'
<1> SUFFICES ASSUME b \in Pools \cap opened, UNCHANGED <<done, opened>>,
                    OwnsPool(frames[t], b), Bottom(frames[t]).task \in Nat,
                    n \in Nat, n = Bottom(frames[t]).task + 1, n <= Size[b],
                    OwnsPool(frames'[t], b), Bottom(frames'[t]).task = n,
                    \A k : In(Bottom(frames'[t]).pending, k) <=> k = n \/ In(Bottom(frames[t]).pending, k),
                    Len(Bottom(frames'[t]).pending) <= PoolCapacity(b),
                    q \in Seq(Tasks), queue' = [queue EXCEPT ![Home[b]] = q], Distinct(q),
                    \A y \in Tasks : In(q, y) <=> y = <<b, n>> \/ In(queue[Home[b]], y),
                    \A u \in Threads : SameRuns(frames[u], frames'[u]),
                    \A u \in Threads \ {t} : SameOwners(frames[u], frames'[u]),
                    \A c \in Batches : OwnsBatch(frames'[t], c) <=> OwnsBatch(frames[t], c),
                    \A c \in Pools \ {b} : ~OwnsPool(frames'[t], c) /\ ~OwnsPool(frames[t], c)
             PROVE  TaskInv'
  BY DEF PoolAdds, PoolNext, PoolGrew, OwnsPool
<1> DEFINE e == Home[b]
           x0 == <<b, n>>
<1>0. /\ e \in Executors /\ queue \in [Executors -> Seq(Tasks)] /\ b \in Batches
      /\ Size[b] \in Nat
  BY BatchesAssumption DEF Typed
<1>x. x0 \in Tasks
  <2>1. n \in 1 .. Size[b]
    BY <1>0
  <2> QED
    BY <1>0, <2>1 DEF Tasks
<1>o. \A u \in Threads \ {t} : ~OwnsPool(frames[u], b)
  BY DEF TaskInv, PoolsOK
<1>p. \A u \in Threads \ {t}, c \in Pools :
        /\ OwnsPool(frames'[u], c) <=> OwnsPool(frames[u], c)
        /\ OwnsPool(frames[u], c) =>
            /\ Bottom(frames'[u]).pending = Bottom(frames[u]).pending
            /\ Bottom(frames'[u]).task = Bottom(frames[u]).task
  BY DEF SameOwners
<1>1. queue'[e] = q /\ \A d \in Executors \ {e} : queue'[d] = queue[d]
  BY <1>0
<1>2. ASSUME NEW y \in Tasks PROVE Waits(y)' <=> y = x0 \/ Waits(y)
  <2>1. Home[y[1]] \in Executors
    BY TaskParts
  <2>2. CASE Home[y[1]] = e
    BY <1>1, <2>2 DEF Waits
  <2>3. CASE Home[y[1]] # e
    <3>1. y # x0
      BY <2>3
    <3> QED
      BY <1>1, <2>1, <2>3, <3>1 DEF Waits
  <2> QED
    BY <2>2, <2>3
<1>3. ~Live(x0) /\ x0 \notin done
  <2>1. x0[1] = b /\ x0[2] = n /\ ~(n <= Bottom(frames[t]).task)
    OBVIOUS
  <2> QED
    BY <1>x, <2>1 DEF TaskInv, Kept
<1>4. ASSUME NEW y \in Tasks PROVE Live(y)' <=> y = x0 \/ Live(y)
  BY <1>2 DEF Live, SameRuns
<1> HIDE DEF x0
<1>5. Queues'
  <2> SUFFICES ASSUME NEW d \in Executors
               PROVE  /\ \A x \in Tasks : In(queue'[d], x) => Home[x[1]] = d
                      /\ Distinct(queue'[d])
    BY DEF Queues
  <2>1. CASE d = e
    BY <1>0, <1>1, <2>1 DEF TaskInv, Queues
  <2>2. CASE d # e
    BY <1>1, <2>2 DEF TaskInv, Queues
  <2> QED
    BY <2>1, <2>2
<1>6. Apart'
  <2> SUFFICES ASSUME NEW y \in Tasks
               PROVE  /\ Live(y)' => y \notin done
                      /\ \A w \in Threads : Runs(frames'[w], y) =>
                            /\ ~Waits(y)'
                            /\ \A u \in Threads : Runs(frames'[u], y) => w = u
    BY DEF Apart
  <2>1. CASE y = x0
    <3>1. \A u \in Threads : ~Runs(frames'[u], y)
      BY <1>3, <2>1 DEF Live, SameRuns
    <3> QED
      BY <1>3, <2>1, <3>1
  <2>2. CASE y # x0
    BY <1>2, <1>4, <2>2 DEF TaskInv, Apart, SameRuns
  <2> QED
    BY <2>1, <2>2
<1>7. Kept'
  <2> SUFFICES ASSUME NEW x \in Tasks
               PROVE  /\ Live(x)' \/ x \in done => x[1] \in opened
                      /\ x[1] \notin Pools /\ x[1] \in opened => Live(x)' \/ x \in done
                      /\ x[1] \in Pools => \A u \in Threads : OwnsPool(frames'[u], x[1]) =>
                            (Live(x)' \/ x \in done <=> x[2] <= Bottom(frames'[u]).task)
    BY DEF Kept
  <2>1. Live(x)' \/ x \in done => x[1] \in opened
    BY <1>4 DEF TaskInv, Kept, x0
  <2>2. x[1] \notin Pools /\ x[1] \in opened => Live(x)' \/ x \in done
    BY <1>4 DEF TaskInv, Kept
  <2>3. ASSUME x[1] \in Pools, NEW u \in Threads, OwnsPool(frames'[u], x[1])
        PROVE  Live(x)' \/ x \in done <=> x[2] <= Bottom(frames'[u]).task
    <3>1. CASE u # t
      <4>1. x # x0
        BY <1>o, <1>p, <2>3, <3>1 DEF x0
      <4> QED
        BY <1>4, <1>p, <2>3, <3>1, <4>1 DEF TaskInv, Kept
    <3>2. CASE u = t
      <4>1. x[1] = b
        BY <2>3, <3>2
      <4>2. Live(x) \/ x \in done <=> x[2] <= Bottom(frames[t]).task
        BY <4>1 DEF TaskInv, Kept
      <4>3. x = x0 <=> x[2] = n
        BY <4>1, TaskParts DEF x0
      <4>4. x[2] \in Nat
        BY TaskParts
      <4>5. x[2] <= n <=> x[2] = n \/ x[2] <= Bottom(frames[t]).task
        BY <4>4
      <4> QED
        BY <1>4, <3>2, <4>2, <4>3, <4>5
    <3> QED
      BY <3>1, <3>2
  <2> QED
    BY <2>1, <2>2, <2>3
<1>8. Owned'
  <2> SUFFICES ASSUME NEW x \in Tasks, Live(x)' PROVE HasOwner(x)'
    BY DEF Owned
  <2>1. CASE x = x0
    BY <2>1 DEF HasOwner, x0
  <2>2. CASE x # x0
    <3>1. HasOwner(x) /\ x[1] \in Batches
      BY <1>4, <2>2, TaskParts DEF TaskInv, Owned
    <3>2. CASE x[1] \in Pools
      <4>1. PICK u \in Threads : OwnsPool(frames[u], x[1]) /\ In(Bottom(frames[u]).pending, x[2])
        BY <3>1, <3>2 DEF HasOwner
      <4>2. OwnsPool(frames'[u], x[1]) /\ In(Bottom(frames'[u]).pending, x[2])
        BY <1>p, <3>2, <4>1
      <4> QED
        BY <3>2, <4>2 DEF HasOwner
    <3>3. CASE x[1] \notin Pools
      <4>1. PICK u \in Threads : OwnsBatch(frames[u], x[1])
        BY <3>1, <3>3 DEF HasOwner
      <4>2. OwnsBatch(frames'[u], x[1])
        BY <3>1, <4>1 DEF SameOwners
      <4> QED
        BY <3>3, <4>2 DEF HasOwner
    <3> QED
      BY <3>2, <3>3
  <2> QED
    BY <2>1, <2>2
<1>9. PoolsOK'
  <2> SUFFICES ASSUME NEW c \in Pools, NEW w \in Threads, OwnsPool(frames'[w], c)
               PROVE  /\ Len(Bottom(frames'[w]).pending) <= PoolCapacity(c)
                      /\ \A u \in Threads : OwnsPool(frames'[u], c) => w = u
    BY DEF PoolsOK, PoolCapacity
  <2>1. CASE w = t
    BY <1>o, <1>p, <2>1
  <2>2. CASE w # t
    BY <1>o, <1>p, <2>2 DEF TaskInv, PoolsOK
  <2> QED
    BY <2>1, <2>2
<1> QED
  BY <1>5, <1>6, <1>7, <1>8, <1>9 DEF TaskInv

(* A pool collects a task that is complete. *)
LEMMA PoolCollected ==
    ASSUME TaskInv, UNCHANGED <<queue, done, opened>>, NEW t \in Threads, NEW b \in Pools,
           OwnsPool(frames[t], b), OwnsPool(frames'[t], b), NEW n, <<b, n>> \in done,
           Bottom(frames'[t]).task = Bottom(frames[t]).task,
           \A k : In(Bottom(frames[t]).pending, k) => k = n \/ In(Bottom(frames'[t]).pending, k),
           Len(Bottom(frames'[t]).pending) <= PoolCapacity(b),
           \A u \in Threads : SameRuns(frames[u], frames'[u]),
           \A u \in Threads \ {t} : SameOwners(frames[u], frames'[u]),
           \A c \in Batches : OwnsBatch(frames'[t], c) <=> OwnsBatch(frames[t], c),
           \A c \in Pools \ {b} : ~OwnsPool(frames'[t], c) /\ ~OwnsPool(frames[t], c)
    PROVE  TaskInv'
<1>o. \A u \in Threads \ {t} : ~OwnsPool(frames[u], b)
  BY DEF TaskInv, PoolsOK
<1>p. \A u \in Threads \ {t}, c \in Pools :
        /\ OwnsPool(frames'[u], c) <=> OwnsPool(frames[u], c)
        /\ OwnsPool(frames[u], c) =>
            /\ Bottom(frames'[u]).pending = Bottom(frames[u]).pending
            /\ Bottom(frames'[u]).task = Bottom(frames[u]).task
  BY DEF SameOwners
<1>1. ASSUME NEW x \in Tasks PROVE (Waits(x)' <=> Waits(x)) /\ (Live(x)' <=> Live(x))
  BY DEF Waits, Live, SameRuns
<1>2. Queues'
  BY DEF TaskInv, Queues
<1>3. Apart'
  BY <1>1 DEF TaskInv, Apart, SameRuns
<1>4. Kept'
  <2>1. \A u \in Threads, c \in Pools : OwnsPool(frames'[u], c) =>
          OwnsPool(frames[u], c) /\ Bottom(frames'[u]).task = Bottom(frames[u]).task
    BY <1>p
  <2> QED
    BY <1>1, <2>1 DEF TaskInv, Kept
<1>5. Owned'
  <2> SUFFICES ASSUME NEW x \in Tasks, Live(x) PROVE HasOwner(x)'
    BY <1>1 DEF Owned
  <2>1. HasOwner(x) /\ x[1] \in Batches /\ x \notin done /\ x = <<x[1], x[2]>>
    BY TaskParts DEF TaskInv, Owned, Apart
  <2>2. CASE x[1] \in Pools
    <3>1. PICK u \in Threads : OwnsPool(frames[u], x[1]) /\ In(Bottom(frames[u]).pending, x[2])
      BY <2>1, <2>2 DEF HasOwner
    <3>2. OwnsPool(frames'[u], x[1]) /\ In(Bottom(frames'[u]).pending, x[2])
      <4>1. CASE u = t
        <5>1. x[1] = b /\ x[2] # n
          BY <2>1, <2>2, <3>1, <4>1
        <5> QED
          BY <3>1, <4>1, <5>1
      <4>2. CASE u # t
        BY <1>p, <2>2, <3>1, <4>2
      <4> QED
        BY <4>1, <4>2
    <3> QED
      BY <2>2, <3>2 DEF HasOwner
  <2>3. CASE x[1] \notin Pools
    <3>1. PICK u \in Threads : OwnsBatch(frames[u], x[1])
      BY <2>1, <2>3 DEF HasOwner
    <3>2. OwnsBatch(frames'[u], x[1])
      BY <2>1, <3>1 DEF SameOwners
    <3> QED
      BY <2>3, <3>2 DEF HasOwner
  <2> QED
    BY <2>2, <2>3
<1>6. PoolsOK'
  <2> SUFFICES ASSUME NEW c \in Pools, NEW w \in Threads, OwnsPool(frames'[w], c)
               PROVE  /\ Len(Bottom(frames'[w]).pending) <= PoolCapacity(c)
                      /\ \A u \in Threads : OwnsPool(frames'[u], c) => w = u
    BY DEF PoolsOK, PoolCapacity
  <2>1. CASE w = t
    BY <1>o, <1>p, <2>1
  <2>2. CASE w # t
    BY <1>o, <1>p, <2>2 DEF TaskInv, PoolsOK
  <2> QED
    BY <2>1, <2>2
<1> QED
  BY <1>2, <1>3, <1>4, <1>5, <1>6 DEF TaskInv

-----------------------------------------------------------------------------
(* What a thread does to its stack. *)
Rest(t) == Tail(frames[t])

LEMMA TopOf ==
    ASSUME Typed, Stacks, NEW t \in Threads, frames[t] # <<>>
    PROVE  /\ Top(t) \in FrameSet /\ Rest(t) \in Seq(FrameSet) /\ frames[t] = <<Top(t)>> \o Rest(t)
           /\ StackOK(Rest(t)) /\ PushOK(Rest(t), Top(t)) /\ FrameOK(Top(t))
           /\ Len(frames[t]) = Len(Rest(t)) + 1 /\ Len(Rest(t)) \in Nat
           /\ Len(Rest(t)) > 0 <=> Rest(t) # <<>>
<1>1. frames[t] \in Seq(FrameSet) /\ StackOK(frames[t])
  BY DEF Typed, Stacks
<1>2. /\ Top(t) \in FrameSet /\ Rest(t) \in Seq(FrameSet) /\ frames[t] = <<Top(t)>> \o Rest(t)
      /\ Len(Rest(t)) = Len(frames[t]) - 1
  BY <1>1, SeqUnfold DEF Top, Rest
<1>3. StackOK(<<Top(t)>> \o Rest(t)) <=> StackOK(Rest(t)) /\ PushOK(Rest(t), Top(t))
  BY <1>2, PushStack
<1>4. Len(Rest(t)) \in Nat /\ Len(frames[t]) \in Nat /\ (Len(Rest(t)) > 0 <=> Rest(t) # <<>>)
  BY <1>1, <1>2
<1>5. StackOK(Rest(t)) /\ PushOK(Rest(t), Top(t))
  BY <1>1, <1>2, <1>3
<1> QED
  BY <1>2, <1>4, <1>5 DEF PushOK

(* One thread's stack changes; idle workers may be started with it. *)
Started(u) ==
    /\ frames[u] = <<>> /\ frames'[u] = <<Frame("worker", NoBatch, 0, "look")>>
    /\ \E e \in Executors : u \in Workers(e)

LEMMA WorkerStack ==
    LET s == <<Frame("worker", NoBatch, 0, "look")>>
    IN  /\ s \in Seq(FrameSet) /\ StackOK(s) /\ ~Held(s)
        /\ \A e : ~InLane(s, e)
        /\ \A x : ~Runs(s, x)
        /\ \A b : ~OwnsBatch(s, b) /\ ~OwnsPool(s, b)
<1> DEFINE f == Frame("worker", NoBatch, 0, "look")
           s == <<f>>
<1>1. f \in FrameSet /\ FrameOK(f) /\ f.kind = "worker" /\ ~f.permit /\ f.at = "look"
  BY EmptySeq DEF Frame, FrameSet, FrameOK
<1> HIDE DEF f
<1>2. s = <<f>> \o <<>> /\ <<>> \in Seq(FrameSet)
  BY <1>1
<1>3. PushOK(<<>>, f)
  BY <1>1 DEF PushOK
<1>4. StackOK(s)
  BY <1>1, <1>2, <1>3, PushStack, EmptyStack
<1>5. /\ s \in Seq(FrameSet) /\ (Held(s) <=> f.permit \/ Held(<<>>))
      /\ \A e : InLane(s, e) <=> (Counts(f, e) /\ f.at # "permit") \/ InLane(<<>>, e)
      /\ \A x : Runs(s, x) <=> (f.kind = "task" /\ f.at = "settle" /\ TaskOf(f) = x) \/ Runs(<<>>, x)
      /\ \A b : OwnsBatch(s, b) <=> (f.kind = "own" /\ f.batch = b) \/ OwnsBatch(<<>>, b)
      /\ Bottom(s) = f
  BY <1>1, <1>2, PushView
<1>6. s \in Seq(FrameSet) /\ StackOK(s) /\ ~Held(s)
  BY <1>1, <1>4, <1>5, EmptyStack
<1>7. \A e : ~InLane(s, e)
  BY <1>1, <1>5, EmptyStack DEF Counts
<1>8. \A x : ~Runs(s, x)
  BY <1>1, <1>5, EmptyStack
<1>9. \A b : ~OwnsBatch(s, b) /\ ~OwnsPool(s, b)
  BY <1>1, <1>5, EmptyStack DEF OwnsPool
<1> QED
  BY <1>6, <1>7, <1>8, <1>9 DEF f

LEMMA Others ==
    ASSUME Typed, Stacks, NEW t \in Threads, DOMAIN frames' = Threads, frames' = [u \in Threads |-> frames'[u]],
           opened \subseteq opened',
           \A u \in Threads \ {t} : frames'[u] = frames[u] \/ Started(u),
           frames'[t] \in Seq(FrameSet), StackOK(frames'[t]),
           Serves(frames'[t]) => Serves(frames[t]),
           \A b \in Batches : OwnsBatch(frames'[t], b) => b \in opened'
    PROVE  /\ frames' \in [Threads -> Seq(FrameSet)] /\ Stacks'
           /\ \A u \in Threads \ {t} :
                /\ Held(frames'[u]) <=> Held(frames[u])
                /\ \A e \in Executors : InLane(frames'[u], e) <=> InLane(frames[u], e)
                /\ SameRuns(frames[u], frames'[u]) /\ SameOwners(frames[u], frames'[u])
                /\ \A b \in Pools : OwnsPool(frames[u], b) => Bottom(frames'[u]) = Bottom(frames[u])
<1>1. ASSUME NEW u \in Threads \ {t}
      PROVE  /\ Held(frames'[u]) <=> Held(frames[u])
             /\ \A e \in Executors : InLane(frames'[u], e) <=> InLane(frames[u], e)
             /\ SameRuns(frames[u], frames'[u]) /\ SameOwners(frames[u], frames'[u])
             /\ \A b \in Pools : OwnsPool(frames[u], b) => Bottom(frames'[u]) = Bottom(frames[u])
             /\ StackOK(frames'[u]) /\ frames'[u] \in Seq(FrameSet)
             /\ Serves(frames'[u]) => \E e \in Executors : u \in Workers(e)
             /\ \A b \in Batches : OwnsBatch(frames'[u], b) => b \in opened'
  <2>1. CASE frames'[u] = frames[u]
    BY <2>1 DEF SameRuns, SameOwners, Stacks, Typed
  <2>2. CASE Started(u)
    <3> DEFINE w == <<Frame("worker", NoBatch, 0, "look")>>
    <3>1. frames[u] = <<>> /\ frames'[u] = w /\ \E e \in Executors : u \in Workers(e)
      BY <2>2 DEF Started
    <3>2. /\ w \in Seq(FrameSet) /\ StackOK(w) /\ ~Held(w)
          /\ \A e : ~InLane(w, e)
          /\ \A x : ~Runs(w, x)
          /\ \A b : ~OwnsBatch(w, b) /\ ~OwnsPool(w, b)
      BY WorkerStack
    <3> HIDE DEF w
    <3> QED
      BY <3>1, <3>2, EmptyStack DEF SameRuns, SameOwners
  <2> QED
    BY <1>1, <2>1, <2>2
<1>2. frames' \in [Threads -> Seq(FrameSet)]
  BY <1>1
<1>3. Stacks'
  BY <1>1 DEF Stacks
<1> QED
  BY <1>1, <1>2, <1>3

(* The top frame is replaced by one of the same call. *)
LEMMA Turns ==
    ASSUME Typed, Stacks, NEW t \in Threads, frames[t] # <<>>, NEW g \in FrameSet,
           frames' = [frames EXCEPT ![t] = <<g>> \o Rest(t)], opened' = opened,
           g.kind = Top(t).kind, g.batch = Top(t).batch, g.counts = Top(t).counts,
           PushOK(Rest(t), g)
    PROVE  /\ frames' \in [Threads -> Seq(FrameSet)] /\ Stacks'
           /\ \A u \in Threads \ {t} :
                /\ Held(frames'[u]) <=> Held(frames[u])
                /\ \A e \in Executors : InLane(frames'[u], e) <=> InLane(frames[u], e)
                /\ SameRuns(frames[u], frames'[u]) /\ SameOwners(frames[u], frames'[u])
           /\ Held(frames'[t]) <=> g.permit \/ Held(Rest(t))
           /\ Held(frames[t]) <=> Top(t).permit \/ Held(Rest(t))
           /\ (g.kind = "task" => (g.at = "permit" <=> Top(t).at = "permit")) =>
                \A e \in Executors : InLane(frames'[t], e) <=> InLane(frames[t], e)
           /\ \A b \in Batches : OwnsBatch(frames'[t], b) <=> OwnsBatch(frames[t], b)
           /\ (g.kind = "task" => (g.task = Top(t).task /\ (g.at = "settle" <=> Top(t).at = "settle"))) =>
                SameRuns(frames[t], frames'[t])
           /\ g.task = Top(t).task /\ g.pending = Top(t).pending => SameOwners(frames[t], frames'[t])
<1> DEFINE m == Rest(t)
           f == Top(t)
           s == frames[t]
           r == frames'[t]
<1>1. m \in Seq(FrameSet) /\ f \in FrameSet /\ s = <<f>> \o m /\ StackOK(m)
  BY TopOf
<1>2. r = <<g>> \o m /\ \A u \in Threads \ {t} : frames'[u] = frames[u]
  BY DEF Typed
<1>3. frames' = [u \in Threads |-> frames'[u]] /\ DOMAIN frames' = Threads
  BY DEF Typed
<1> HIDE DEF m, f, s, r
<1>4. /\ Held(s) <=> f.permit \/ Held(m)
      /\ \A e : InLane(s, e) <=> (Counts(f, e) /\ f.at # "permit") \/ InLane(m, e)
      /\ \A x : Runs(s, x) <=> (f.kind = "task" /\ f.at = "settle" /\ TaskOf(f) = x) \/ Runs(m, x)
      /\ \A b : OwnsBatch(s, b) <=> (f.kind = "own" /\ f.batch = b) \/ OwnsBatch(m, b)
      /\ Serves(s) <=> f.kind = "worker" \/ Serves(m)
      /\ Bottom(s) = IF m = <<>> THEN f ELSE Bottom(m)
      /\ s # <<>>
  BY <1>1, PushView
<1>5. /\ r \in Seq(FrameSet) /\ r # <<>>
      /\ Held(r) <=> g.permit \/ Held(m)
      /\ \A e : InLane(r, e) <=> (Counts(g, e) /\ g.at # "permit") \/ InLane(m, e)
      /\ \A x : Runs(r, x) <=> (g.kind = "task" /\ g.at = "settle" /\ TaskOf(g) = x) \/ Runs(m, x)
      /\ \A b : OwnsBatch(r, b) <=> (g.kind = "own" /\ g.batch = b) \/ OwnsBatch(m, b)
      /\ Serves(r) <=> g.kind = "worker" \/ Serves(m)
      /\ Bottom(r) = IF m = <<>> THEN g ELSE Bottom(m)
  BY <1>1, <1>2, PushView
<1>6. StackOK(r)
  BY <1>1, <1>2, PushStack DEF m
<1>7. g.kind = f.kind /\ g.batch = f.batch /\ g.counts = f.counts
  BY DEF f
<1>8. \A b \in Batches : OwnsBatch(r, b) <=> OwnsBatch(s, b)
  BY <1>4, <1>5, <1>7
<1>9. Serves(r) => Serves(s)
  BY <1>4, <1>5, <1>7
<1>10. \A b \in Batches : OwnsBatch(r, b) => b \in opened'
  BY <1>8 DEF Stacks, s
<1>11. /\ frames' \in [Threads -> Seq(FrameSet)] /\ Stacks'
       /\ \A u \in Threads \ {t} :
            /\ Held(frames'[u]) <=> Held(frames[u])
            /\ \A e \in Executors : InLane(frames'[u], e) <=> InLane(frames[u], e)
            /\ SameRuns(frames[u], frames'[u]) /\ SameOwners(frames[u], frames'[u])
  <2>1. opened \subseteq opened' /\ r \in Seq(FrameSet)
    BY <1>5
  <2> QED
    BY <1>2, <1>3, <1>6, <1>9, <1>10, <2>1, Others DEF r, s
<1>12. ASSUME g.kind = "task" => (g.at = "permit" <=> f.at = "permit")
       PROVE  \A e \in Executors : InLane(r, e) <=> InLane(s, e)
  BY <1>4, <1>5, <1>7, <1>12 DEF Counts
<1>13. ASSUME g.kind = "task" => (g.task = f.task /\ (g.at = "settle" <=> f.at = "settle"))
       PROVE  SameRuns(s, r)
  BY <1>4, <1>5, <1>7, <1>13 DEF TaskOf, SameRuns
<1>14. ASSUME g.task = f.task, g.pending = f.pending PROVE SameOwners(s, r)
  <2>1. ASSUME NEW b \in Pools
        PROVE  /\ OwnsPool(r, b) <=> OwnsPool(s, b)
               /\ OwnsPool(s, b) => Bottom(r).pending = Bottom(s).pending /\ Bottom(r).task = Bottom(s).task
    <3>1. CASE m = <<>>
      BY <1>4, <1>5, <1>7, <1>14, <3>1 DEF OwnsPool
    <3>2. CASE m # <<>>
      BY <1>4, <1>5, <3>2 DEF OwnsPool
    <3> QED
      BY <3>1, <3>2
  <2> QED
    BY <1>8, <2>1 DEF SameOwners
<1>15. Held(r) <=> g.permit \/ Held(m)
  BY <1>5
<1>16. Held(s) <=> f.permit \/ Held(m)
  BY <1>4
<1> QED
  BY <1>8, <1>11, <1>12, <1>13, <1>14, <1>15, <1>16 DEF m, f, s, r

(* A step that only moves within its function. *)
LEMMA Quiet ==
    ASSUME IInv, NEW t \in Threads, frames[t] # <<>>, NEW g \in FrameSet,
           frames' = [frames EXCEPT ![t] = <<g>> \o Rest(t)],
           UNCHANGED <<queue, running, permits, done, opened>>,
           ready' \in [Executors -> SUBSET Threads], waiting' \subseteq Threads,
           g.kind = Top(t).kind, g.batch = Top(t).batch, g.counts = Top(t).counts,
           g.task = Top(t).task, g.pending = Top(t).pending, g.permit = Top(t).permit,
           g.kind = "task" => /\ g.at = "permit" <=> Top(t).at = "permit"
                              /\ g.at = "settle" <=> Top(t).at = "settle",
           PushOK(Rest(t), g)
    PROVE  IInv'
<1>1. Typed /\ Stacks /\ Permits /\ Lanes /\ TaskInv
  BY DEF IInv
<1>2. /\ frames' \in [Threads -> Seq(FrameSet)] /\ Stacks'
      /\ \A u \in Threads :
            /\ Held(frames'[u]) <=> Held(frames[u])
            /\ \A e \in Executors : InLane(frames'[u], e) <=> InLane(frames[u], e)
            /\ SameRuns(frames[u], frames'[u]) /\ SameOwners(frames[u], frames'[u])
  BY <1>1, Turns
<1>3. Typed'
  BY <1>1, <1>2 DEF Typed
<1>4. Permits'
  BY <1>1, <1>2, PermitsSame
<1>5. Lanes'
  <2> SUFFICES ASSUME NEW e \in Executors PROVE LaneCounted(e)'
    BY DEF Lanes
  <2>1. LaneCounted(e) /\ running'[e] = running[e]
    BY <1>1 DEF Lanes
  <2> QED
    BY <1>2, <2>1, LaneSame
<1>6. TaskInv'
  BY <1>1, <1>2, TasksSame
<1> QED
  BY <1>2, <1>3, <1>4, <1>5, <1>6 DEF IInv

(* A frame moves to another place of its function. *)
LEMMA Moves ==
    ASSUME NEW m \in Seq(FrameSet), NEW f \in FrameSet, PushOK(m, f), NEW a,
           NEW g \in FrameSet, g.at = a,
           g.kind = f.kind, g.batch = f.batch, g.counts = f.counts, g.task = f.task, g.permit = f.permit,
           f.kind = "worker" => a \in {"look", "permit", "take", "drop"},
           f.kind = "own" => /\ a \in {"loop", "permit", "take", "drop", "sleep", "pool"}
                             /\ a = "pool" => f.batch \in Pools,
           f.kind = "task" => a \in {"notify", "leave"} \/ (a = "permit" /\ f.permit),
           Len(m) = 0 => (f.permit <=> a \in {"take", "drop"}),
           Len(m) > 0 /\ f.kind = "own" => a \notin {"permit", "drop"}
    PROVE  PushOK(m, g)
<1>1. FrameOK(g)
  BY DEF FrameOK, PushOK, TaskOf
<1> QED
  BY <1>1 DEF PushOK

LEMMA GoesTo ==
    ASSUME IInv, NEW t \in Threads, frames[t] # <<>>, NEW a, Goto(t, a),
           UNCHANGED <<queue, running, permits, done, opened>>,
           ready' \in [Executors -> SUBSET Threads], waiting' \subseteq Threads,
           Top(t).kind = "worker" => a \in {"look", "permit", "take", "drop"},
           Top(t).kind = "own" => /\ a \in {"loop", "permit", "take", "drop", "sleep", "pool"}
                                  /\ a = "pool" => Top(t).batch \in Pools,
           Top(t).kind = "task" => a \in {"notify", "leave"} /\ Top(t).at \in {"notify", "leave"},
           Rest(t) = <<>> => (Top(t).permit <=> a \in {"take", "drop"}),
           Rest(t) # <<>> /\ Top(t).kind = "own" => a \notin {"permit", "drop"}
    PROVE  IInv'
<1> DEFINE g == [Top(t) EXCEPT !.at = a]
<1>1. Typed /\ Stacks
  BY DEF IInv
<1>2. /\ Top(t) \in FrameSet /\ Rest(t) \in Seq(FrameSet) /\ PushOK(Rest(t), Top(t))
      /\ Len(Rest(t)) \in Nat /\ (Len(Rest(t)) > 0 <=> Rest(t) # <<>>)
  BY <1>1, TopOf
<1>3. Len(Rest(t)) = 0 <=> Rest(t) = <<>>
  BY <1>2
<1>4. /\ g \in FrameSet /\ PushOK(Rest(t), g) /\ g.at = a
      /\ g.kind = Top(t).kind /\ g.batch = Top(t).batch /\ g.counts = Top(t).counts
      /\ g.task = Top(t).task /\ g.pending = Top(t).pending /\ g.permit = Top(t).permit
  <2> DEFINE f == Top(t)
             m == Rest(t)
  <2>1. /\ f \in FrameSet /\ m \in Seq(FrameSet) /\ PushOK(m, f) /\ Len(m) \in Nat
        /\ Len(m) = 0 <=> m = <<>>
    BY <1>2, <1>3
  <2>2. /\ f.kind = "worker" => a \in {"look", "permit", "take", "drop"}
        /\ f.kind = "own" => /\ a \in {"loop", "permit", "take", "drop", "sleep", "pool"}
                             /\ a = "pool" => f.batch \in Pools
        /\ f.kind = "task" => a \in {"notify", "leave"}
    OBVIOUS
  <2>3. m = <<>> => (f.permit <=> a \in {"take", "drop"})
    OBVIOUS
  <2>4. m # <<>> /\ f.kind = "own" => a \notin {"permit", "drop"}
    OBVIOUS
  <2>5. f.kind \in {"worker", "own", "task"}
    BY <2>1 DEF FrameSet
  <2>6. a \in {"look", "permit", "take", "drop", "loop", "sleep", "pool", "settle", "notify", "leave"}
    BY <2>2, <2>5
  <2>7. /\ g \in FrameSet /\ g.at = a
        /\ g.kind = f.kind /\ g.batch = f.batch /\ g.counts = f.counts /\ g.task = f.task
        /\ g.pending = f.pending /\ g.permit = f.permit
    BY <1>2, <2>6 DEF FrameSet
  <2> HIDE DEF f, m, g
  <2>8. Len(m) > 0 => m # <<>>
    BY <2>1
  <2>9. Len(m) = 0 => (f.permit <=> a \in {"take", "drop"})
    BY <2>1, <2>3
  <2>10. PushOK(m, g)
    BY <2>1, <2>2, <2>4, <2>7, <2>8, <2>9, Moves
  <2> QED
    BY <2>7, <2>10 DEF f, m
<1>5. frames' = [frames EXCEPT ![t] = <<g>> \o Rest(t)]
  BY DEF Goto, Become, Rest
<1> HIDE DEF g
<1>6. g.kind = "task" => /\ g.at = "permit" <=> Top(t).at = "permit"
                         /\ g.at = "settle" <=> Top(t).at = "settle"
  BY <1>4
<1> QED
  BY <1>4, <1>5, <1>6, Quiet

LEMMA PushKind ==
    ASSUME NEW m, NEW f, PushOK(m, f)
    PROVE  /\ Len(m) = 0 => f.kind # "task"
           /\ Len(m) = 1 => f.kind = "task"
           /\ Len(m) > 0 => f.kind # "worker"
  BY DEF PushOK

(* An owner is inside a task unless it is at the bottom of its stack. *)
LEMMA OwnerInside ==
    ASSUME Typed, Stacks, NEW t \in Threads, frames[t] # <<>>, Top(t).kind = "own"
    PROVE  /\ InsideBudget(t) <=> Rest(t) # <<>>
           /\ Rest(t) = <<>> => (Top(t).permit <=> Top(t).at \in {"take", "drop"})
           /\ Rest(t) # <<>> => ~Top(t).permit /\ Top(t).at \notin {"permit", "drop"}
           /\ Rest(t) # <<>> => Len(Rest(t)) > 1
<1>1. /\ Top(t) \in FrameSet /\ Rest(t) \in Seq(FrameSet) /\ PushOK(Rest(t), Top(t))
      /\ Len(Rest(t)) \in Nat /\ (Len(Rest(t)) > 0 <=> Rest(t) # <<>>)
      /\ Len(frames[t]) = Len(Rest(t)) + 1
  BY TopOf
<1>2. frames[t] \in Seq(FrameSet) /\ frames[t][1] = Top(t) /\ StackOK(frames[t])
  <2>1. frames[t] \in Seq(FrameSet) /\ StackOK(frames[t])
    BY DEF Typed, Stacks
  <2> QED
    BY <2>1 DEF Top
<1>3. Rest(t) # <<>> => Len(Rest(t)) > 1
  <2>1. Len(Rest(t)) = 1 => Top(t).kind = "task"
    BY <1>1, PushKind
  <2>2. Len(Rest(t)) # 1
    BY <2>1
  <2>3. Len(Rest(t)) \in Nat /\ (Len(Rest(t)) > 0 <=> Rest(t) # <<>>)
    BY <1>1
  <2> DEFINE n == Len(Rest(t))
  <2>4. n # 1 /\ n \in Nat
    BY <2>2, <2>3
  <2>5. Rest(t) # <<>> => n > 0
    BY <2>3
  <2>6. n > 0 => n > 1
    <3> HIDE DEF n
    <3> QED
      BY <2>4
  <2> QED
    BY <2>5, <2>6
<1>4. CASE Rest(t) # <<>>
  <2>1. Len(frames[t]) - 1 \in 1 .. Len(frames[t])
    BY <1>1, <1>3, <1>4
  <2>2. frames[t][Len(frames[t]) - 1].kind = "task"
    BY <1>2, <2>1 DEF StackOK, PlaceOK
  <2>3. InsideBudget(t)
    BY <2>1, <2>2 DEF InsideBudget
  <2> QED
    BY <1>1, <1>3, <1>4, <2>3 DEF PushOK
<1>5. CASE Rest(t) = <<>>
  <2>1. Len(frames[t]) = 1 /\ Len(Rest(t)) = 0
    BY <1>1, <1>5
  <2>2. ~InsideBudget(t)
    BY <1>2, <2>1 DEF InsideBudget
  <2> QED
    BY <1>1, <1>5, <2>1, <2>2 DEF PushOK
<1> QED
  BY <1>3, <1>4, <1>5

(* The steps within a function. *)
LEMMA StepOwnerTries == ASSUME IInv, NEW t \in Threads, OwnerTries(t) PROVE IInv'
<1>1. Typed /\ Stacks /\ frames[t] # <<>> /\ Top(t).kind = "own" /\ Top(t).at = "loop"
  BY DEF IInv, OwnerTries, At
<1>2. /\ InsideBudget(t) <=> Rest(t) # <<>>
      /\ Rest(t) = <<>> => ~Top(t).permit
  BY <1>1, OwnerInside
<1>3. UNCHANGED <<queue, running, permits, done, opened, ready, waiting>>
  BY DEF OwnerTries
<1>4. ready' \in [Executors -> SUBSET Threads] /\ waiting' \subseteq Threads
  BY <1>1, <1>3 DEF Typed
<1>5. CASE Goto(t, "sleep")
  BY <1>1, <1>2, <1>3, <1>4, <1>5, GoesTo
<1>6. CASE Goto(t, "take") /\ InsideBudget(t)
  BY <1>1, <1>2, <1>3, <1>4, <1>6, GoesTo
<1>7. CASE Goto(t, "permit") /\ ~InsideBudget(t)
  BY <1>1, <1>2, <1>3, <1>4, <1>7, GoesTo
<1> QED
  BY <1>5, <1>6, <1>7 DEF OwnerTries

LEMMA ReadyTyped ==
    ASSUME Typed, NEW e \in Executors, NEW S \in SUBSET Threads
    PROVE  /\ [ready EXCEPT ![e] = S] \in [Executors -> SUBSET Threads]
           /\ \A t \in Threads : [ready EXCEPT ![e] = @ \cup {t}] \in [Executors -> SUBSET Threads]
  BY DEF Typed

LEMMA StepOwnerSleeps == ASSUME IInv, NEW t \in Threads, OwnerSleeps(t) PROVE IInv'
<1>1. Typed /\ Stacks /\ frames[t] # <<>> /\ Top(t).kind = "own" /\ Top(t).at = "sleep"
  BY DEF IInv, OwnerSleeps, At
<1>2. Rest(t) = <<>> => ~Top(t).permit
  BY <1>1, OwnerInside
<1>3. UNCHANGED <<queue, running, permits, done, opened, waiting>> /\ Goto(t, "loop")
  BY DEF OwnerSleeps
<1>4. Home[Top(t).batch] \in Executors
  <2>1. Top(t).batch \in Batches
    BY <1>1, TopOf DEF FrameOK
  <2> QED
    BY <2>1, BatchesAssumption
<1>5. ready' \in [Executors -> SUBSET Threads] /\ waiting' \subseteq Threads
  <2>1. waiting' \subseteq Threads
    BY <1>1, <1>3 DEF Typed
  <2>2. CASE ready' = ready
    BY <1>1, <2>1, <2>2 DEF Typed
  <2>3. CASE ready' = [ready EXCEPT ![Home[Top(t).batch]] = @ \cup {t}]
    BY <1>1, <1>4, <2>1, <2>3, ReadyTyped
  <2> QED
    BY <2>2, <2>3 DEF OwnerSleeps
<1> QED
  BY <1>1, <1>2, <1>3, <1>5, GoesTo

LEMMA StepNotifyWaiters == ASSUME IInv, NEW t \in Threads, NotifyWaiters(t) PROVE IInv'
<1>1. Typed /\ Stacks /\ frames[t] # <<>> /\ Top(t).kind = "task" /\ Top(t).at = "notify"
  BY DEF IInv, NotifyWaiters, At
<1>2. Rest(t) # <<>>
  BY <1>1, TopOf DEF PushOK
<1>3. UNCHANGED <<queue, running, permits, done, opened, waiting>> /\ Goto(t, "leave")
  BY DEF NotifyWaiters
<1>4. Home[Top(t).batch] \in Executors
  <2>1. TaskOf(Top(t)) \in Tasks
    BY <1>1, TopOf DEF FrameOK
  <2> QED
    BY <2>1, TaskParts DEF TaskOf
<1>5. ready' \in [Executors -> SUBSET Threads] /\ waiting' \subseteq Threads
  BY <1>1, <1>3, <1>4, ReadyTyped DEF Typed, NotifyWaiters, NotifyReady
<1> QED
  BY <1>1, <1>2, <1>3, <1>5, GoesTo

LEMMA StepPoolCloses == ASSUME IInv, NEW t \in Threads, PoolCloses(t) PROVE IInv'
<1> DEFINE g == [Top(t) EXCEPT !.draining = TRUE]
<1>1. Typed /\ Stacks /\ frames[t] # <<>> /\ Top(t).kind = "own" /\ Top(t).at = "pool"
  BY DEF IInv, PoolCloses, At
<1>2. /\ Top(t) \in FrameSet /\ Rest(t) \in Seq(FrameSet) /\ PushOK(Rest(t), Top(t))
  BY <1>1, TopOf
<1>3. UNCHANGED <<queue, running, permits, done, opened, ready, waiting>>
  BY DEF PoolCloses
<1>4. frames' = [frames EXCEPT ![t] = <<g>> \o Rest(t)]
  BY DEF PoolCloses, Become, Rest
<1>5. /\ g \in FrameSet /\ g.at = Top(t).at
      /\ g.kind = Top(t).kind /\ g.batch = Top(t).batch /\ g.counts = Top(t).counts
      /\ g.task = Top(t).task /\ g.pending = Top(t).pending /\ g.permit = Top(t).permit
  BY <1>2 DEF FrameSet
<1> HIDE DEF g
<1>6. PushOK(Rest(t), g)
  BY <1>2, <1>5 DEF PushOK, FrameOK, TaskOf
<1>7. ready' \in [Executors -> SUBSET Threads] /\ waiting' \subseteq Threads
  BY <1>1, <1>3 DEF Typed
<1> QED
  BY <1>1, <1>3, <1>4, <1>5, <1>6, <1>7, Quiet

-----------------------------------------------------------------------------
(* A frame returns. *)
LEMMA LanesSame ==
    ASSUME Lanes, running' = running,
           \A u \in Threads : \A e \in Executors : InLane(frames'[u], e) <=> InLane(frames[u], e)
    PROVE  Lanes'
<1> SUFFICES ASSUME NEW e \in Executors PROVE LaneCounted(e)'
  BY DEF Lanes
<1>1. LaneCounted(e) /\ running'[e] = running[e]
  BY DEF Lanes
<1> QED
  BY <1>1, LaneSame

LEMMA StackView ==
    ASSUME Typed, Stacks, NEW t \in Threads, frames[t] # <<>>
    PROVE  /\ Held(frames[t]) <=> Top(t).permit \/ Held(Rest(t))
           /\ \A e : InLane(frames[t], e) <=> (Counts(Top(t), e) /\ Top(t).at # "permit") \/ InLane(Rest(t), e)
           /\ \A x : Runs(frames[t], x) <=>
                        (Top(t).kind = "task" /\ Top(t).at = "settle" /\ TaskOf(Top(t)) = x) \/ Runs(Rest(t), x)
           /\ \A b : OwnsBatch(frames[t], b) <=> (Top(t).kind = "own" /\ Top(t).batch = b) \/ OwnsBatch(Rest(t), b)
           /\ Serves(frames[t]) <=> Top(t).kind = "worker" \/ Serves(Rest(t))
           /\ Bottom(frames[t]) = IF Rest(t) = <<>> THEN Top(t) ELSE Bottom(Rest(t))
<1> DEFINE m == Rest(t)
           f == Top(t)
           s == frames[t]
<1>1. m \in Seq(FrameSet) /\ f \in FrameSet /\ s = <<f>> \o m
  BY TopOf
<1> HIDE DEF m, f, s
<1>2. /\ Held(s) <=> f.permit \/ Held(m)
      /\ \A e : InLane(s, e) <=> (Counts(f, e) /\ f.at # "permit") \/ InLane(m, e)
      /\ \A x : Runs(s, x) <=> (f.kind = "task" /\ f.at = "settle" /\ TaskOf(f) = x) \/ Runs(m, x)
      /\ \A b : OwnsBatch(s, b) <=> (f.kind = "own" /\ f.batch = b) \/ OwnsBatch(m, b)
      /\ Serves(s) <=> f.kind = "worker" \/ Serves(m)
      /\ Bottom(s) = IF m = <<>> THEN f ELSE Bottom(m)
  BY <1>1, PushView
<1> QED
  BY <1>2 DEF m, f, s

LEMMA Pops ==
    ASSUME Typed, Stacks, NEW t \in Threads, frames[t] # <<>>,
           frames' = [frames EXCEPT ![t] = Rest(t)], opened' = opened
    PROVE  /\ frames' \in [Threads -> Seq(FrameSet)] /\ Stacks' /\ frames'[t] = Rest(t)
           /\ \A u \in Threads \ {t} :
                /\ Held(frames'[u]) <=> Held(frames[u])
                /\ \A e \in Executors : InLane(frames'[u], e) <=> InLane(frames[u], e)
                /\ SameRuns(frames[u], frames'[u]) /\ SameOwners(frames[u], frames'[u])
<1>1. Rest(t) \in Seq(FrameSet) /\ StackOK(Rest(t))
  BY TopOf
<1>2. frames'[t] = Rest(t) /\ \A u \in Threads \ {t} : frames'[u] = frames[u]
  BY DEF Typed
<1>3. frames' = [u \in Threads |-> frames'[u]] /\ DOMAIN frames' = Threads
  BY DEF Typed
<1>4. Serves(frames'[t]) => Serves(frames[t])
  BY <1>2, StackView
<1>5. \A b \in Batches : OwnsBatch(frames'[t], b) => b \in opened'
  BY <1>2, StackView DEF Stacks
<1>6. opened \subseteq opened' /\ frames'[t] \in Seq(FrameSet) /\ StackOK(frames'[t])
  BY <1>1, <1>2
<1> QED
  BY <1>2, <1>3, <1>4, <1>5, <1>6, Others

LEMMA StepOwnerReturns == ASSUME IInv, NEW t \in Threads, OwnerReturns(t) PROVE IInv'
<1> DEFINE b == Top(t).batch
<1>1. Typed /\ Stacks /\ Permits /\ Lanes /\ TaskInv
  BY DEF IInv
<1>2. /\ frames[t] # <<>> /\ Top(t).kind = "own" /\ Top(t).at = "loop" /\ b \notin Pools
      /\ IsComplete(Top(t))
      /\ frames' = [frames EXCEPT ![t] = Rest(t)]
      /\ UNCHANGED <<queue, running, permits, done, opened, ready, waiting>>
  BY DEF OwnerReturns, At, Rest
<1>3. /\ frames' \in [Threads -> Seq(FrameSet)] /\ Stacks' /\ frames'[t] = Rest(t)
      /\ \A u \in Threads \ {t} :
            /\ Held(frames'[u]) <=> Held(frames[u])
            /\ \A e \in Executors : InLane(frames'[u], e) <=> InLane(frames[u], e)
            /\ SameRuns(frames[u], frames'[u]) /\ SameOwners(frames[u], frames'[u])
  BY <1>1, <1>2, Pops
<1>4. ~Top(t).permit
  BY <1>1, <1>2, OwnerInside
<1>5. Held(frames'[t]) <=> Held(frames[t])
  BY <1>1, <1>2, <1>3, <1>4, StackView
<1>6. \A e \in Executors : InLane(frames'[t], e) <=> InLane(frames[t], e)
  BY <1>1, <1>2, <1>3, StackView DEF Counts
<1>7. SameRuns(frames[t], frames'[t])
  BY <1>1, <1>2, <1>3, StackView DEF SameRuns
<1>8. b \in Batches \ Pools
  BY <1>1, <1>2, TopOf DEF FrameOK
<1>9. \A c \in Batches \ {b} : OwnsBatch(frames'[t], c) <=> OwnsBatch(frames[t], c)
  BY <1>1, <1>2, <1>3, StackView
<1>10. ASSUME NEW c \in Pools
       PROVE  /\ OwnsPool(frames'[t], c) <=> OwnsPool(frames[t], c)
              /\ OwnsPool(frames[t], c) => Bottom(frames'[t]) = Bottom(frames[t])
  <2>1. CASE Rest(t) = <<>>
    <3>1. Bottom(frames[t]) = Top(t)
      BY <1>1, <1>2, <2>1, StackView
    <3>2. ~OwnsPool(frames[t], c)
      BY <1>8, <3>1 DEF OwnsPool
    <3>3. ~OwnsPool(frames'[t], c)
      BY <1>3, <2>1 DEF OwnsPool
    <3> QED
      BY <3>2, <3>3
  <2>2. CASE Rest(t) # <<>>
    <3>1. Bottom(frames[t]) = Bottom(frames'[t])
      BY <1>1, <1>2, <1>3, <2>2, StackView
    <3> QED
      BY <1>2, <1>3, <2>2, <3>1 DEF OwnsPool
  <2> QED
    BY <2>1, <2>2
<1>11. ASSUME NEW x \in Tasks, x[1] = b PROVE x \in done
  <2>1. x = <<x[1], x[2]>> /\ x[2] \in 1 .. Size[x[1]]
    BY TaskParts
  <2>2. x \in Awaited(Top(t))
    BY <1>2, <1>11, <2>1 DEF Awaited
  <2> QED
    BY <1>2, <2>2 DEF IsComplete
<1>12. Typed'
  BY <1>1, <1>2, <1>3 DEF Typed
<1>13. Permits'
  BY <1>1, <1>2, <1>3, <1>5, PermitsSame
<1>14. Lanes'
  BY <1>1, <1>2, <1>3, <1>6, LanesSame
<1>15. TaskInv'
  <2>1. \A u \in Threads : SameRuns(frames[u], frames'[u])
    BY <1>3, <1>7
  <2>2. UNCHANGED <<queue, done, opened>>
    BY <1>2
  <2> HIDE DEF b
  <2> QED
    BY <1>1, <1>3, <1>8, <1>9, <1>10, <1>11, <2>1, <2>2, OwnerLeaves
<1> QED
  BY <1>3, <1>12, <1>13, <1>14, <1>15 DEF IInv

LEMMA TaskRest ==
    ASSUME Typed, Stacks, NEW t \in Threads, frames[t] # <<>>, Top(t).kind = "task"
    PROVE  /\ Rest(t) # <<>> /\ TaskOf(Top(t)) \in Tasks
           /\ Top(t).batch \in Batches /\ Home[Top(t).batch] \in Executors
           /\ SameOwners(frames[t], Rest(t))
           /\ Top(t).permit => ~Held(Rest(t))
           /\ Top(t).counts => ~InLane(Rest(t), Home[Top(t).batch])
           /\ Top(t).at = "permit" => Top(t).permit
<1> DEFINE m == Rest(t)
           f == Top(t)
<1>1. /\ f \in FrameSet /\ m \in Seq(FrameSet) /\ PushOK(m, f) /\ StackOK(m) /\ FrameOK(f)
      /\ Len(m) \in Nat /\ (Len(m) > 0 <=> m # <<>>) /\ f.kind = "task"
  BY TopOf
<1>v. /\ \A b : OwnsBatch(frames[t], b) <=> (f.kind = "own" /\ f.batch = b) \/ OwnsBatch(m, b)
      /\ Bottom(frames[t]) = IF m = <<>> THEN f ELSE Bottom(m)
  BY StackView
<1> HIDE DEF m, f
<1>2. Len(m) # 0
  BY <1>1, PushKind
<1>3. m # <<>>
  BY <1>1, <1>2
<1>4. TaskOf(f) \in Tasks /\ (f.at = "permit" => f.permit)
  BY <1>1 DEF FrameOK
<1>5. f.batch \in Batches /\ Home[f.batch] \in Executors
  BY <1>4, TaskParts DEF TaskOf
<1>6. SameOwners(frames[t], m)
  BY <1>1, <1>3, <1>v DEF SameOwners, OwnsPool
<1>7. ASSUME f.permit PROVE ~Held(m)
  <2>1. ~(Len(m) > 1)
    BY <1>1, <1>7 DEF PushOK
  <2>2. Len(m) = 1
    <3>1. Len(m) \in Nat
      BY <1>1
    <3> QED
      BY <1>2, <2>1, <3>1
  <2>3. m[1].at \in {"look", "loop", "settle"}
    BY <1>1, <1>3 DEF PushOK
  <2>4. ~m[1].permit
    <3>1. PlaceOK(m, 1)
      BY <1>1, <2>2 DEF StackOK
    <3> QED
      BY <2>2, <2>3, <3>1 DEF PlaceOK
  <2> QED
    BY <2>2, <2>4 DEF Held
<1>8. ASSUME f.counts PROVE ~InLane(m, Home[f.batch])
  <2>1. \A i \in 1 .. Len(m) : m[i].kind = "task" => Home[m[i].batch] # Home[f.batch]
    BY <1>1, <1>8 DEF PushOK
  <2> QED
    BY <2>1 DEF InLane, Counts
<1> QED
  BY <1>3, <1>4, <1>5, <1>6, <1>7, <1>8 DEF m, f

(* LeaveBudget gives the permit back when the bottom frame has none. *)
LEMMA StepLeaveBudget == ASSUME IInv, NEW t \in Threads, LeaveBudget(t) PROVE IInv'
<1>1. Typed /\ Stacks /\ Permits /\ Lanes /\ TaskInv
  BY DEF IInv
<1>2. /\ frames[t] # <<>> /\ Top(t).kind = "task" /\ Top(t).at = "permit"
      /\ frames' = [frames EXCEPT ![t] = Rest(t)] /\ permits' = permits - 1 /\ waiting' = {}
      /\ UNCHANGED <<queue, running, done, opened, ready>>
  BY DEF LeaveBudget, At, Rest, ReleasePermit
<1>3. /\ frames' \in [Threads -> Seq(FrameSet)] /\ Stacks' /\ frames'[t] = Rest(t)
      /\ \A u \in Threads \ {t} :
            /\ Held(frames'[u]) <=> Held(frames[u])
            /\ \A e \in Executors : InLane(frames'[u], e) <=> InLane(frames[u], e)
            /\ SameRuns(frames[u], frames'[u]) /\ SameOwners(frames[u], frames'[u])
  BY <1>1, <1>2, Pops
<1>4. Top(t).permit /\ ~Held(Rest(t)) /\ SameOwners(frames[t], Rest(t))
  BY <1>1, <1>2, TaskRest
<1>5. Held(frames[t]) /\ ~Held(frames'[t])
  BY <1>1, <1>2, <1>3, <1>4, StackView
<1>6. \A e \in Executors : InLane(frames'[t], e) <=> InLane(frames[t], e)
  BY <1>1, <1>2, <1>3, StackView
<1>7. SameRuns(frames[t], frames'[t])
  BY <1>1, <1>2, <1>3, StackView DEF SameRuns
<1>8. Permits' /\ permits' \in Nat
  BY <1>1, <1>2, <1>3, <1>5, PermitsGiven
<1>9. Typed'
  BY <1>1, <1>2, <1>3, <1>8 DEF Typed
<1>10. Lanes'
  BY <1>1, <1>2, <1>3, <1>6, LanesSame
<1>11. TaskInv'
  BY <1>1, <1>2, <1>3, <1>4, <1>7, TasksSame
<1> QED
  BY <1>3, <1>8, <1>9, <1>10, <1>11 DEF IInv

(* A task that counts leaves its lane. *)
LEMMA LaneLeft ==
    ASSUME Typed, Lanes, NEW t \in Threads, NEW e \in Executors,
           IF Top(t).counts THEN running' = [running EXCEPT ![e] = @ - 1] ELSE running' = running,
           \A u \in Threads \ {t} : \A d \in Executors : InLane(frames'[u], d) <=> InLane(frames[u], d),
           \A d \in Executors : InLane(frames[t], d) <=> (Top(t).counts /\ d = e) \/ InLane(frames'[t], d),
           Top(t).counts => ~InLane(frames'[t], e)
    PROVE  Lanes' /\ running' \in [Executors -> Nat]
<1>1. CASE ~Top(t).counts
  <2>1. \A u \in Threads : \A d \in Executors : InLane(frames'[u], d) <=> InLane(frames[u], d)
    BY <1>1
  <2>2. running' = running
    BY <1>1
  <2>3. Lanes'
    BY <2>1, <2>2, LanesSame
  <2> QED
    BY <2>2, <2>3 DEF Typed
<1>2. CASE Top(t).counts
  <2>0. running' = [running EXCEPT ![e] = @ - 1] /\ running \in [Executors -> Nat]
    BY <1>2 DEF Typed
  <2>1. LaneCounted(e)' /\ running'[e] \in Nat
    <3>1. LaneCounted(e) /\ running'[e] = running[e] - 1
      BY <2>0 DEF Lanes
    <3>2. InLane(frames[t], e) /\ ~InLane(frames'[t], e)
      BY <1>2
    <3>3. \A u \in Threads \ {t} : InLane(frames'[u], e) <=> InLane(frames[u], e)
      OBVIOUS
    <3> QED
      BY <3>1, <3>2, <3>3, LaneGiven
  <2>2. ASSUME NEW d \in Executors, d # e PROVE LaneCounted(d)' /\ running'[d] = running[d]
    <3>1. LaneCounted(d) /\ running'[d] = running[d]
      BY <2>0, <2>2 DEF Lanes
    <3>2. \A u \in Threads : InLane(frames'[u], d) <=> InLane(frames[u], d)
      BY <2>2
    <3> QED
      BY <3>1, <3>2, LaneSame
  <2>3. Lanes'
    BY <2>1, <2>2 DEF Lanes
  <2> QED
    BY <2>0, <2>1, <2>2, <2>3
<1> QED
  BY <1>1, <1>2

LEMMA StepLeaveLane == ASSUME IInv, NEW t \in Threads, LeaveLane(t) PROVE IInv'
<1> DEFINE e == Home[Top(t).batch]
<1>1. Typed /\ Stacks /\ Permits /\ Lanes /\ TaskInv
  BY DEF IInv
<1>2. /\ frames[t] # <<>> /\ Top(t).kind = "task" /\ Top(t).at = "leave"
      /\ UNCHANGED <<queue, permits, done, opened, waiting>>
  BY DEF LeaveLane, At
<1>3. /\ Rest(t) # <<>> /\ e \in Executors /\ SameOwners(frames[t], Rest(t))
      /\ Top(t).counts => ~InLane(Rest(t), e)
  BY <1>1, <1>2, TaskRest
<1>4. ready' \in [Executors -> SUBSET Threads]
  <2>1. ready' = ready \/ ready' = [ready EXCEPT ![e] = {}]
    BY DEF LeaveLane, NotifyReady
  <2> QED
    BY <1>1, <1>3, <2>1, ReadyTyped DEF Typed
<1>5. IF Top(t).counts THEN running' = [running EXCEPT ![e] = @ - 1] ELSE running' = running
  BY DEF LeaveLane
<1>6. CASE Top(t).permit
  <2> DEFINE g == [Top(t) EXCEPT !.at = "permit"]
  <2>1. frames' = [frames EXCEPT ![t] = <<g>> \o Rest(t)]
    BY <1>6 DEF LeaveLane, Goto, Become, Rest
  <2>2. /\ Top(t) \in FrameSet /\ Rest(t) \in Seq(FrameSet) /\ PushOK(Rest(t), Top(t))
    BY <1>1, <1>2, TopOf
  <2>3. /\ g \in FrameSet /\ g.at = "permit"
        /\ g.kind = Top(t).kind /\ g.batch = Top(t).batch /\ g.counts = Top(t).counts
        /\ g.task = Top(t).task /\ g.pending = Top(t).pending /\ g.permit = Top(t).permit
    BY <2>2 DEF FrameSet
  <2> HIDE DEF g
  <2>4. PushOK(Rest(t), g)
    <3>1. Rest(t) # <<>> /\ Len(Rest(t)) # 0
      BY <1>3, <2>2
    <3> DEFINE m == Rest(t)
               f == Top(t)
    <3>2. /\ f \in FrameSet /\ m \in Seq(FrameSet) /\ PushOK(m, f) /\ Len(m) # 0
          /\ g.kind = f.kind /\ g.batch = f.batch /\ g.counts = f.counts
          /\ g.task = f.task /\ g.permit = f.permit /\ f.kind = "task" /\ f.permit
      BY <1>2, <1>6, <2>2, <2>3, <3>1
    <3> HIDE DEF m, f
    <3>3. PushOK(m, g)
      BY <2>3, <3>2, Moves
    <3> QED
      BY <3>3 DEF m
  <2>5. /\ frames' \in [Threads -> Seq(FrameSet)] /\ Stacks'
        /\ \A u \in Threads \ {t} :
             /\ Held(frames'[u]) <=> Held(frames[u])
             /\ \A d \in Executors : InLane(frames'[u], d) <=> InLane(frames[u], d)
             /\ SameRuns(frames[u], frames'[u]) /\ SameOwners(frames[u], frames'[u])
        /\ Held(frames'[t]) <=> g.permit \/ Held(Rest(t))
        /\ Held(frames[t]) <=> Top(t).permit \/ Held(Rest(t))
        /\ SameRuns(frames[t], frames'[t])
        /\ SameOwners(frames[t], frames'[t])
    BY <1>1, <1>2, <2>1, <2>3, <2>4, Turns
  <2>6. \A d : InLane(frames'[t], d) <=> InLane(Rest(t), d)
    <3>1. frames'[t] = <<g>> \o Rest(t)
      BY <1>1, <2>1 DEF Typed
    <3>2. \A d : InLane(frames'[t], d) <=> (Counts(g, d) /\ g.at # "permit") \/ InLane(Rest(t), d)
      BY <2>2, <2>3, <3>1, PushView
    <3> QED
      BY <2>3, <3>2
  <2>7. \A d \in Executors : InLane(frames[t], d) <=> (Top(t).counts /\ d = e) \/ InLane(frames'[t], d)
    BY <1>1, <1>2, <2>6, StackView DEF Counts
  <2>8. Top(t).counts => ~InLane(frames'[t], e)
    BY <1>3, <2>6
  <2>9. Lanes' /\ running' \in [Executors -> Nat]
    <3> HIDE DEF e
    <3> QED
      BY <1>1, <1>3, <1>5, <2>5, <2>7, <2>8, LaneLeft
  <2>10. Permits'
    BY <1>1, <1>2, <2>3, <2>5, PermitsSame
  <2>11. TaskInv'
    BY <1>1, <1>2, <2>5, TasksSame
  <2>12. Typed'
    BY <1>1, <1>2, <1>4, <2>5, <2>9 DEF Typed
  <2> QED
    BY <2>5, <2>9, <2>10, <2>11, <2>12 DEF IInv
<1>7. CASE ~Top(t).permit
  <2>1. frames' = [frames EXCEPT ![t] = Rest(t)]
    BY <1>7 DEF LeaveLane, Rest
  <2>2. /\ frames' \in [Threads -> Seq(FrameSet)] /\ Stacks' /\ frames'[t] = Rest(t)
        /\ \A u \in Threads \ {t} :
             /\ Held(frames'[u]) <=> Held(frames[u])
             /\ \A d \in Executors : InLane(frames'[u], d) <=> InLane(frames[u], d)
             /\ SameRuns(frames[u], frames'[u]) /\ SameOwners(frames[u], frames'[u])
    BY <1>1, <1>2, <2>1, Pops
  <2>3. Held(frames'[t]) <=> Held(frames[t])
    BY <1>1, <1>2, <1>7, <2>2, StackView
  <2>4. SameRuns(frames[t], frames'[t])
    BY <1>1, <1>2, <2>2, StackView DEF SameRuns
  <2>a. \A d : InLane(frames'[t], d) <=> InLane(Rest(t), d)
    BY <2>2
  <2>5. \A d \in Executors : InLane(frames[t], d) <=> (Top(t).counts /\ d = e) \/ InLane(frames'[t], d)
    BY <1>1, <1>2, <2>a, StackView DEF Counts
  <2>6. Top(t).counts => ~InLane(frames'[t], e)
    BY <1>3, <2>2
  <2>7. Lanes' /\ running' \in [Executors -> Nat]
    <3> HIDE DEF e
    <3> QED
      BY <1>1, <1>3, <1>5, <2>2, <2>5, <2>6, LaneLeft
  <2>8. Permits'
    BY <1>1, <1>2, <2>2, <2>3, PermitsSame
  <2>9. TaskInv'
    BY <1>1, <1>2, <1>3, <2>2, <2>4, TasksSame
  <2>10. Typed'
    BY <1>1, <1>2, <1>4, <2>2, <2>7 DEF Typed
  <2> QED
    BY <2>2, <2>7, <2>8, <2>9, <2>10 DEF IInv
<1> QED
  BY <1>6, <1>7

(* A task settles. *)
LEMMA StepSettle == ASSUME IInv, NEW t \in Threads, Settle(t) PROVE IInv'
<1> DEFINE x == TaskOf(Top(t))
           g == [Top(t) EXCEPT !.at = "notify"]
<1>1. Typed /\ Stacks /\ Permits /\ Lanes /\ TaskInv
  BY DEF IInv
<1>2. /\ frames[t] # <<>> /\ Top(t).kind = "task" /\ Top(t).at = "settle" /\ done' = done \cup {x}
      /\ frames' = [frames EXCEPT ![t] = <<g>> \o Rest(t)]
      /\ UNCHANGED <<queue, running, permits, opened, ready, waiting>>
  BY DEF Settle, At, Goto, Become, Rest, TaskOf
<1>3. Rest(t) # <<>> /\ x \in Tasks
  BY <1>1, <1>2, TaskRest
<1>4. /\ Top(t) \in FrameSet /\ Rest(t) \in Seq(FrameSet) /\ PushOK(Rest(t), Top(t))
  BY <1>1, <1>2, TopOf
<1>5. /\ g \in FrameSet /\ g.at = "notify"
      /\ g.kind = Top(t).kind /\ g.batch = Top(t).batch /\ g.counts = Top(t).counts
      /\ g.task = Top(t).task /\ g.pending = Top(t).pending /\ g.permit = Top(t).permit
  BY <1>4 DEF FrameSet
<1>a. TaskOf(g) = x
  BY <1>5 DEF TaskOf
<1> HIDE DEF g, x
<1>6. PushOK(Rest(t), g)
  <2>1. Rest(t) # <<>> /\ Len(Rest(t)) # 0
    BY <1>3, <1>4
  <2> DEFINE m == Rest(t)
             f == Top(t)
  <2>2. /\ f \in FrameSet /\ m \in Seq(FrameSet) /\ PushOK(m, f) /\ Len(m) # 0
        /\ g.kind = f.kind /\ g.batch = f.batch /\ g.counts = f.counts
        /\ g.task = f.task /\ g.permit = f.permit /\ f.kind = "task"
    BY <1>2, <1>4, <1>5, <2>1
  <2> HIDE DEF m, f
  <2>3. PushOK(m, g)
    BY <1>5, <2>2, Moves
  <2> QED
    BY <2>3 DEF m
<1>7. /\ frames' \in [Threads -> Seq(FrameSet)] /\ Stacks'
      /\ \A u \in Threads \ {t} :
           /\ Held(frames'[u]) <=> Held(frames[u])
           /\ \A d \in Executors : InLane(frames'[u], d) <=> InLane(frames[u], d)
           /\ SameRuns(frames[u], frames'[u]) /\ SameOwners(frames[u], frames'[u])
      /\ Held(frames'[t]) <=> g.permit \/ Held(Rest(t))
      /\ Held(frames[t]) <=> Top(t).permit \/ Held(Rest(t))
      /\ \A d \in Executors : InLane(frames'[t], d) <=> InLane(frames[t], d)
      /\ SameOwners(frames[t], frames'[t])
  BY <1>1, <1>2, <1>5, <1>6, Turns
<1>8. \A y : Runs(frames[t], y) <=> y = x \/ Runs(Rest(t), y)
  BY <1>1, <1>2, StackView DEF x
<1>9. \A y : Runs(frames'[t], y) <=> Runs(Rest(t), y)
  <2>1. frames'[t] = <<g>> \o Rest(t)
    BY <1>1, <1>2 DEF Typed
  <2>2. \A y : Runs(frames'[t], y) <=>
                 (g.kind = "task" /\ g.at = "settle" /\ TaskOf(g) = y) \/ Runs(Rest(t), y)
    BY <1>4, <1>5, <2>1, PushView
  <2> QED
    BY <1>5, <2>2
<1>10. ~Runs(Rest(t), x)
  BY <1>2, <1>4 DEF PushOK, x
<1>11. \A y \in Tasks : Runs(frames'[t], y) <=> y # x /\ Runs(frames[t], y)
  BY <1>8, <1>9, <1>10
<1>12. TaskInv'
  <2>1. Runs(frames[t], x) /\ UNCHANGED <<queue, opened>>
    BY <1>2, <1>8
  <2> QED
    BY <1>1, <1>2, <1>3, <1>7, <1>11, <2>1, TaskSettles
<1>13. Lanes'
  BY <1>1, <1>2, <1>7, LanesSame
<1>14. Permits'
  BY <1>1, <1>2, <1>5, <1>7, PermitsSame
<1>15. Typed'
  BY <1>1, <1>2, <1>3, <1>7 DEF Typed
<1> QED
  BY <1>7, <1>12, <1>13, <1>14, <1>15 DEF IInv

-----------------------------------------------------------------------------
(* Permits are taken and dropped at the bottom of a stack. *)
LEMMA PermitTurns ==
    ASSUME IInv, NEW t \in Threads, frames[t] # <<>>, NEW g \in FrameSet,
           frames' = [frames EXCEPT ![t] = <<g>> \o Rest(t)], Rest(t) = <<>>,
           UNCHANGED <<queue, running, done, opened, ready>>, waiting' \subseteq Threads,
           FrameOK(g), Top(t).kind \in {"own", "worker"},
           g.kind = Top(t).kind, g.batch = Top(t).batch, g.counts = Top(t).counts,
           g.task = Top(t).task, g.pending = Top(t).pending,
           g.permit <=> g.at \in {"take", "drop"},
           \/ ~Top(t).permit /\ g.permit /\ permits < Capacity /\ permits' = permits + 1
           \/ Top(t).permit /\ ~g.permit /\ permits' = permits - 1
    PROVE  IInv'
<1>1. Typed /\ Stacks /\ Permits /\ Lanes /\ TaskInv
  BY DEF IInv
<1>2. PushOK(Rest(t), g)
  <2>1. Len(Rest(t)) = 0
    OBVIOUS
  <2> QED
    BY <2>1 DEF PushOK
<1>3. ~Held(Rest(t))
  BY EmptyStack
<1>4. /\ frames' \in [Threads -> Seq(FrameSet)] /\ Stacks'
      /\ \A u \in Threads \ {t} :
           /\ Held(frames'[u]) <=> Held(frames[u])
           /\ \A d \in Executors : InLane(frames'[u], d) <=> InLane(frames[u], d)
           /\ SameRuns(frames[u], frames'[u]) /\ SameOwners(frames[u], frames'[u])
      /\ Held(frames'[t]) <=> g.permit \/ Held(Rest(t))
      /\ Held(frames[t]) <=> Top(t).permit \/ Held(Rest(t))
      /\ \A d \in Executors : InLane(frames'[t], d) <=> InLane(frames[t], d)
      /\ SameRuns(frames[t], frames'[t])
      /\ SameOwners(frames[t], frames'[t])
  <2>1. g.kind # "task"
    OBVIOUS
  <2> QED
    BY <1>1, <1>2, <2>1, Turns
<1>5. Permits' /\ permits' \in Nat
  <2>1. CASE ~Top(t).permit /\ g.permit /\ permits < Capacity /\ permits' = permits + 1
    <3>1. ~Held(frames[t]) /\ Held(frames'[t])
      BY <1>3, <1>4, <2>1
    <3> QED
      BY <1>1, <1>4, <2>1, <3>1, PermitsTaken
  <2>2. CASE Top(t).permit /\ ~g.permit /\ permits' = permits - 1
    <3>1. Held(frames[t]) /\ ~Held(frames'[t])
      BY <1>3, <1>4, <2>2
    <3> QED
      BY <1>1, <1>4, <2>2, <3>1, PermitsGiven
  <2> QED
    BY <2>1, <2>2
<1>6. Lanes'
  BY <1>1, <1>4, LanesSame
<1>7. TaskInv'
  BY <1>1, <1>4, TasksSame
<1>8. Typed'
  BY <1>1, <1>4, <1>5 DEF Typed
<1> QED
  BY <1>4, <1>5, <1>6, <1>7, <1>8 DEF IInv

(* A thread that asks for a permit, or has one to drop, is at the bottom. *)
LEMMA AsksAtBottom ==
    ASSUME Typed, Stacks, NEW t \in Threads, frames[t] # <<>>,
           Top(t).kind = "worker" \/ (Top(t).kind = "own" /\ Top(t).at \in {"permit", "drop", "pool"})
    PROVE  /\ Rest(t) = <<>> /\ FrameOK(Top(t)) /\ Top(t) \in FrameSet
           /\ Top(t).permit <=> Top(t).at \in {"take", "drop"}
<1> DEFINE m == Rest(t)
           f == Top(t)
<1>1. /\ f \in FrameSet /\ m \in Seq(FrameSet) /\ PushOK(m, f) /\ FrameOK(f)
      /\ Len(m) \in Nat /\ (Len(m) > 0 <=> m # <<>>)
  BY TopOf
<1>2. f.kind = "worker" \/ (f.kind = "own" /\ f.at \in {"permit", "drop", "pool"})
  OBVIOUS
<1> HIDE DEF m, f
<1>3. ~(Len(m) > 0)
  <2>1. f.kind = "own" /\ f.at = "pool" => f.batch \in Pools
    BY <1>1 DEF FrameOK
  <2> QED
    BY <1>1, <1>2, <2>1 DEF PushOK
<1>4. Len(m) = 0
  <2>1. Len(m) \in Nat
    BY <1>1
  <2> QED
    BY <1>3, <2>1
<1>5. f.permit <=> f.at \in {"take", "drop"}
  BY <1>1, <1>4 DEF PushOK
<1> QED
  BY <1>1, <1>3, <1>5 DEF m, f

LEMMA StepDropPermit == ASSUME IInv, NEW t \in Threads, DropPermit(t) PROVE IInv'
<1> DEFINE a == IF Top(t).kind = "own" THEN "sleep" ELSE "look"
           g == [Top(t) EXCEPT !.permit = FALSE, !.at = a]
<1>1. Typed /\ Stacks
  BY DEF IInv
<1>2. /\ frames[t] # <<>> /\ Top(t).kind \in {"own", "worker"} /\ Top(t).at = "drop"
      /\ frames' = [frames EXCEPT ![t] = <<g>> \o Rest(t)]
      /\ permits' = permits - 1 /\ waiting' = {}
      /\ UNCHANGED <<queue, running, done, opened, ready>>
  BY DEF DropPermit, At, Become, Rest, ReleasePermit
<1>3. Rest(t) = <<>> /\ FrameOK(Top(t)) /\ Top(t) \in FrameSet /\ Top(t).permit
  BY <1>1, <1>2, AsksAtBottom
<1>4. /\ g \in FrameSet /\ g.at = a /\ ~g.permit
      /\ g.kind = Top(t).kind /\ g.batch = Top(t).batch /\ g.counts = Top(t).counts
      /\ g.task = Top(t).task /\ g.pending = Top(t).pending
  BY <1>3 DEF FrameSet
<1> HIDE DEF g
<1>5. FrameOK(g)
  BY <1>2, <1>3, <1>4 DEF FrameOK, TaskOf
<1>6. g.permit <=> g.at \in {"take", "drop"}
  BY <1>4
<1> QED
  BY <1>2, <1>3, <1>4, <1>5, <1>6, PermitTurns

(* Nothing changes but who sleeps. *)
LEMMA Asleep ==
    ASSUME IInv, UNCHANGED <<frames, queue, running, permits, done, opened>>,
           ready' \in [Executors -> SUBSET Threads], waiting' \subseteq Threads
    PROVE  IInv'
<1>1. Typed /\ Stacks /\ Permits /\ Lanes /\ TaskInv
  BY DEF IInv
<1>2. \A u \in Threads :
        /\ Held(frames'[u]) <=> Held(frames[u])
        /\ \A d \in Executors : InLane(frames'[u], d) <=> InLane(frames[u], d)
        /\ SameRuns(frames[u], frames'[u]) /\ SameOwners(frames[u], frames'[u])
  BY DEF SameRuns, SameOwners
<1>3. Typed'
  BY <1>1 DEF Typed
<1>4. Stacks'
  BY <1>1 DEF Stacks
<1>5. Permits' /\ Lanes' /\ TaskInv'
  BY <1>1, <1>2, PermitsSame, LanesSame, TasksSame
<1> QED
  BY <1>3, <1>4, <1>5 DEF IInv

(* acquire: as OwnerPermit and WorkerPermit do it. *)
LEMMA Acquires ==
    ASSUME IInv, NEW t \in Threads, frames[t] # <<>>,
           Top(t).kind \in {"own", "worker"}, Top(t).at = "permit",
           IF permits < Capacity
             THEN /\ permits' = permits + 1
                  /\ Become(t, [Top(t) EXCEPT !.at = "take", !.permit = TRUE])
                  /\ UNCHANGED waiting
             ELSE waiting' = waiting \cup {t} /\ UNCHANGED <<permits, frames>>,
           UNCHANGED <<queue, running, done, opened, ready>>
    PROVE  IInv'
<1> DEFINE g == [Top(t) EXCEPT !.at = "take", !.permit = TRUE]
<1>1. Typed /\ Stacks
  BY DEF IInv
<1>2. Rest(t) = <<>> /\ FrameOK(Top(t)) /\ Top(t) \in FrameSet /\ ~Top(t).permit
  BY <1>1, AsksAtBottom
<1>3. CASE permits < Capacity
  <2>1. /\ permits' = permits + 1 /\ waiting' \subseteq Threads
        /\ frames' = [frames EXCEPT ![t] = <<g>> \o Rest(t)]
    BY <1>1, <1>3 DEF Become, Rest, Typed
  <2>2. /\ g \in FrameSet /\ g.at = "take" /\ g.permit
        /\ g.kind = Top(t).kind /\ g.batch = Top(t).batch /\ g.counts = Top(t).counts
        /\ g.task = Top(t).task /\ g.pending = Top(t).pending
    BY <1>2 DEF FrameSet
  <2> HIDE DEF g
  <2>3. FrameOK(g)
    BY <1>2, <2>2 DEF FrameOK, TaskOf
  <2>4. g.permit <=> g.at \in {"take", "drop"}
    BY <2>2
  <2> QED
    BY <1>2, <1>3, <2>1, <2>2, <2>3, <2>4, PermitTurns
<1>4. CASE ~(permits < Capacity)
  <2>1. waiting' \subseteq Threads /\ ready' \in [Executors -> SUBSET Threads]
    BY <1>1, <1>4 DEF Typed
  <2> QED
    BY <1>4, <2>1, Asleep
<1> QED
  BY <1>3, <1>4

LEMMA StepOwnerPermit == ASSUME IInv, NEW t \in Threads, OwnerPermit(t) PROVE IInv'
<1>1. frames[t] # <<>> /\ Top(t).kind \in {"own", "worker"} /\ Top(t).at = "permit"
  BY DEF OwnerPermit, At
<1> QED
  BY <1>1, Acquires DEF OwnerPermit

LEMMA StepWorkerPermit == ASSUME IInv, NEW w \in Threads, WorkerPermit(w) PROVE IInv'
<1>1. /\ frames[w] # <<>> /\ Top(w).kind = "worker" /\ Top(w).at = "permit"
      /\ Top(w).kind \in {"own", "worker"}
      /\ UNCHANGED <<queue, running, done, opened, ready>>
  BY DEF WorkerPermit, At
<1>2. CASE queue[ExecutorOf(w)] = <<>>
  <2>1. Typed /\ Stacks
    BY DEF IInv
  <2>2. Goto(w, "look") /\ UNCHANGED <<permits, waiting>>
    BY <1>2 DEF WorkerPermit
  <2>3. Rest(w) = <<>> /\ ~Top(w).permit
    BY <1>1, <2>1, AsksAtBottom
  <2>4. waiting' \subseteq Threads /\ ready' \in [Executors -> SUBSET Threads]
    BY <1>1, <2>1, <2>2 DEF Typed
  <2> QED
    BY <1>1, <2>2, <2>3, <2>4, GoesTo
<1>3. CASE queue[ExecutorOf(w)] # <<>>
  BY <1>1, <1>3, Acquires DEF WorkerPermit
<1> QED
  BY <1>2, <1>3

-----------------------------------------------------------------------------
(* Sequences: removing an entry, and adding one at either end. *)
LEMMA Removed ==
    ASSUME NEW S, NEW q \in Seq(S), NEW i \in 1 .. Len(q), NEW r, r = RemoveAt(q, i)
    PROVE  /\ r \in Seq(S) /\ Len(r) = Len(q) - 1
           /\ \A j \in 1 .. Len(r) : r[j] = IF j < i THEN q[j] ELSE q[j + 1]
<1> DEFINE a == SubSeq(q, 1, i - 1)
           b == SubSeq(q, i + 1, Len(q))
<1>0. Len(q) \in Nat /\ i \in Nat /\ 1 <= i /\ i <= Len(q)
  OBVIOUS
<1>1. /\ a \in Seq(S) /\ Len(a) = i - 1 /\ \A j \in 1 .. i - 1 : a[j] = q[j]
  <2>1. \A j \in 1 .. i - 1 : j \in 1 .. Len(q) /\ q[j] \in S
    BY <1>0
  <2>2. a = [j \in 1 .. i - 1 |-> q[1 + j - 1]]
    BY <1>0
  <2>3. a = [j \in 1 .. i - 1 |-> q[j]]
    BY <1>0, <2>2
  <2> HIDE DEF a
  <2> QED
    BY <1>0, <2>1, <2>3
<1>2. /\ b \in Seq(S) /\ Len(b) = Len(q) - i /\ \A j \in 1 .. Len(q) - i : b[j] = q[i + j]
  <2>1. \A j \in 1 .. Len(q) - i : i + j \in 1 .. Len(q) /\ q[i + j] \in S
    BY <1>0
  <2>2. b = [j \in 1 .. Len(q) - i |-> q[(i + 1) + j - 1]]
    BY <1>0
  <2>3. \A j \in 1 .. Len(q) - i : (i + 1) + j - 1 = i + j
    BY <1>0
  <2>4. b = [j \in 1 .. Len(q) - i |-> q[i + j]]
    BY <2>2, <2>3
  <2> HIDE DEF b
  <2> QED
    BY <1>0, <2>1, <2>4
<1>3. r = a \o b
  BY DEF RemoveAt
<1> HIDE DEF a, b
<1>4. r \in Seq(S) /\ Len(r) = Len(q) - 1
  BY <1>0, <1>1, <1>2, <1>3
<1>5. ASSUME NEW j \in 1 .. Len(r) PROVE r[j] = IF j < i THEN q[j] ELSE q[j + 1]
  <2>1. j \in 1 .. Len(a) + Len(b)
    BY <1>0, <1>1, <1>2, <1>4
  <2>2. r[j] = IF j <= Len(a) THEN a[j] ELSE b[j - Len(a)]
    BY <1>1, <1>2, <1>3, <2>1
  <2>3. CASE j < i
    BY <1>0, <1>1, <2>2, <2>3
  <2>4. CASE ~(j < i)
    <3>1. j - Len(a) \in 1 .. Len(q) - i /\ i + (j - Len(a)) = j + 1 /\ ~(j <= Len(a))
      BY <1>0, <1>1, <1>4, <2>4
    <3> QED
      BY <1>2, <2>2, <2>4, <3>1
  <2> QED
    BY <2>3, <2>4
<1> QED
  BY <1>4, <1>5

LEMMA RemovedIn ==
    ASSUME NEW S, NEW q \in Seq(S), NEW i \in 1 .. Len(q), NEW r, r = RemoveAt(q, i)
    PROVE  /\ r \in Seq(S) /\ Len(r) = Len(q) - 1
           /\ \A x : In(r, x) => In(q, x)
           /\ \A x : In(q, x) => x = q[i] \/ In(r, x)
           /\ Distinct(q) => Distinct(r) /\ ~In(r, q[i])
<1>1. /\ r \in Seq(S) /\ Len(r) = Len(q) - 1
      /\ \A j \in 1 .. Len(r) : r[j] = IF j < i THEN q[j] ELSE q[j + 1]
  BY Removed
<1>0. Len(q) \in Nat /\ i \in Nat /\ 1 <= i /\ i <= Len(q)
  OBVIOUS
<1> DEFINE k(j) == IF j < i THEN j ELSE j + 1
<1>2. ASSUME NEW j \in 1 .. Len(r) PROVE k(j) \in 1 .. Len(q) /\ k(j) # i /\ r[j] = q[k(j)]
  BY <1>0, <1>1
<1>3. ASSUME NEW j \in 1 .. Len(r), NEW h \in 1 .. Len(r), k(j) = k(h) PROVE j = h
  BY <1>0, <1>1, <1>3
<1>4. ASSUME NEW h \in 1 .. Len(q), h # i PROVE \E j \in 1 .. Len(r) : r[j] = q[h]
  <2>1. CASE h < i
    <3>1. h \in 1 .. Len(r)
      BY <1>0, <1>1, <2>1
    <3> QED
      BY <1>1, <2>1, <3>1
  <2>2. CASE h > i
    <3>1. h - 1 \in 1 .. Len(r) /\ ~(h - 1 < i) /\ (h - 1) + 1 = h
      BY <1>0, <1>1, <2>2
    <3>2. r[h - 1] = q[(h - 1) + 1]
      BY <1>1, <3>1
    <3> QED
      BY <3>1, <3>2
  <2> QED
    BY <1>0, <1>4, <2>1, <2>2
<1> HIDE DEF k
<1>5. \A x : In(r, x) => In(q, x)
  BY <1>2 DEF In
<1>6. \A x : In(q, x) => x = q[i] \/ In(r, x)
  BY <1>4 DEF In
<1>7. ASSUME Distinct(q) PROVE Distinct(r) /\ ~In(r, q[i])
  <2>1. Distinct(r)
    <3> SUFFICES ASSUME NEW j \in 1 .. Len(r), NEW h \in 1 .. Len(r), r[j] = r[h] PROVE j = h
      BY DEF Distinct
    <3>1. k(j) = k(h)
      BY <1>2, <1>7 DEF Distinct
    <3> QED
      BY <1>3, <3>1
  <2>2. ~In(r, q[i])
    BY <1>2, <1>7 DEF In, Distinct
  <2> QED
    BY <2>1, <2>2
<1> QED
  BY <1>1, <1>5, <1>6, <1>7

LEMMA AddedFront ==
    ASSUME NEW S, NEW q \in Seq(S), NEW x \in S
    PROVE  /\ <<x>> \o q \in Seq(S)
           /\ \A y : In(<<x>> \o q, y) <=> y = x \/ In(q, y)
           /\ Distinct(q) /\ ~In(q, x) => Distinct(<<x>> \o q)
<1> DEFINE r == <<x>> \o q
<1>1. /\ r \in Seq(S) /\ Len(r) = Len(q) + 1 /\ r[1] = x
      /\ \A i \in 1 .. Len(q) : r[i + 1] = q[i]
  BY SeqPush
<1> HIDE DEF r
<1>l. Len(q) \in Nat
  OBVIOUS
<1>2. \A i \in 1 .. Len(r) : i = 1 \/ (i - 1 \in 1 .. Len(q) /\ r[i] = q[i - 1])
  <2> SUFFICES ASSUME NEW i \in 1 .. Len(r), i # 1 PROVE i - 1 \in 1 .. Len(q) /\ r[i] = q[i - 1]
    OBVIOUS
  <2>1. i - 1 \in 1 .. Len(q) /\ (i - 1) + 1 = i
    BY <1>1, <1>l
  <2>2. r[(i - 1) + 1] = q[i - 1]
    BY <1>1, <2>1
  <2> QED
    BY <2>1, <2>2
<1>3. \A i \in 1 .. Len(q) : i + 1 \in 1 .. Len(r)
  BY <1>1, <1>l
<1>4. 1 \in 1 .. Len(r)
  BY <1>1, <1>l
<1>5. \A y : In(r, y) => y = x \/ In(q, y)
  BY <1>1, <1>2 DEF In
<1>6. \A y : y = x \/ In(q, y) => In(r, y)
  <2>1. In(r, x)
    BY <1>1, <1>4 DEF In
  <2>2. ASSUME NEW y, In(q, y) PROVE In(r, y)
    <3>1. PICK i \in 1 .. Len(q) : q[i] = y
      BY <2>2 DEF In
    <3>2. i + 1 \in 1 .. Len(r) /\ r[i + 1] = y
      BY <1>1, <1>3, <3>1
    <3> QED
      BY <3>2 DEF In
  <2> QED
    BY <2>1, <2>2
<1>7. ASSUME Distinct(q), ~In(q, x), NEW i \in 1 .. Len(r), NEW j \in 1 .. Len(r), r[i] = r[j]
      PROVE  i = j
  <2>1. CASE i = 1
    BY <1>1, <1>2, <1>7, <2>1 DEF In
  <2>2. CASE j = 1
    BY <1>1, <1>2, <1>7, <2>2 DEF In
  <2>3. CASE i # 1 /\ j # 1
    <3>1. i - 1 \in 1 .. Len(q) /\ j - 1 \in 1 .. Len(q) /\ q[i - 1] = q[j - 1]
      BY <1>2, <1>7, <2>3
    <3>2. i - 1 = j - 1
      BY <1>7, <3>1 DEF Distinct
    <3> QED
      BY <3>2
  <2> QED
    BY <2>1, <2>2, <2>3
<1>8. Distinct(q) /\ ~In(q, x) => Distinct(r)
  BY <1>7 DEF Distinct
<1> QED
  BY <1>1, <1>5, <1>6, <1>8 DEF r

LEMMA AddedBack ==
    ASSUME NEW S, NEW q \in Seq(S), NEW x \in S
    PROVE  /\ Append(q, x) \in Seq(S) /\ Len(Append(q, x)) = Len(q) + 1
           /\ \A y : In(Append(q, x), y) <=> y = x \/ In(q, y)
<1> DEFINE r == Append(q, x)
<1>1. /\ r \in Seq(S) /\ Len(r) = Len(q) + 1 /\ r[Len(q) + 1] = x
      /\ \A i \in 1 .. Len(q) : r[i] = q[i]
  OBVIOUS
<1> HIDE DEF r
<1>l. Len(q) \in Nat
  OBVIOUS
<1>2. \A i \in 1 .. Len(r) : i = Len(q) + 1 \/ i \in 1 .. Len(q)
  BY <1>1, <1>l
<1>3. \A i \in 1 .. Len(q) : i \in 1 .. Len(r)
  BY <1>1, <1>l
<1>4. Len(q) + 1 \in 1 .. Len(r)
  BY <1>1, <1>l
<1>5. \A y : In(r, y) => y = x \/ In(q, y)
  BY <1>1, <1>2 DEF In
<1>6. \A y : y = x \/ In(q, y) => In(r, y)
  BY <1>1, <1>3, <1>4 DEF In
<1> QED
  BY <1>1, <1>5, <1>6 DEF r

-----------------------------------------------------------------------------
(* A worker looks for work. *)
LEMMA WorkerExecutor ==
    ASSUME Typed, Stacks, NEW w \in Threads, frames[w] # <<>>, Top(w).kind = "worker"
    PROVE  ExecutorOf(w) \in Executors
<1>1. Serves(frames[w])
  BY StackView
<1>2. \E e \in Executors : w \in Workers(e)
  BY <1>1 DEF Stacks
<1> QED
  BY <1>2 DEF ExecutorOf

LEMMA StepWorkerLooks == ASSUME IInv, NEW w \in Threads, WorkerLooks(w) PROVE IInv'
<1> DEFINE e == ExecutorOf(w)
<1>1. Typed /\ Stacks /\ Permits /\ Lanes /\ TaskInv
  BY DEF IInv
<1>2. /\ frames[w] # <<>> /\ Top(w).kind = "worker" /\ Top(w).at = "look"
      /\ UNCHANGED <<queue, running, permits, done, opened, waiting>>
  BY DEF WorkerLooks, At
<1>3. Rest(w) = <<>> /\ ~Top(w).permit
  BY <1>1, <1>2, AsksAtBottom
<1>4. e \in Executors /\ waiting' \subseteq Threads
  BY <1>1, <1>2, WorkerExecutor DEF Typed
<1>5. CASE frames' = [frames EXCEPT ![w] = <<>>] /\ ready' = ready
  <2>1. frames' = [frames EXCEPT ![w] = Rest(w)]
    BY <1>3, <1>5
  <2>2. /\ frames' \in [Threads -> Seq(FrameSet)] /\ Stacks' /\ frames'[w] = Rest(w)
        /\ \A u \in Threads \ {w} :
             /\ Held(frames'[u]) <=> Held(frames[u])
             /\ \A d \in Executors : InLane(frames'[u], d) <=> InLane(frames[u], d)
             /\ SameRuns(frames[u], frames'[u]) /\ SameOwners(frames[u], frames'[u])
    BY <1>1, <1>2, <2>1, Pops
  <2>3. Held(frames'[w]) <=> Held(frames[w])
    BY <1>1, <1>2, <1>3, <2>2, StackView
  <2>4. \A d \in Executors : InLane(frames'[w], d) <=> InLane(frames[w], d)
    BY <1>1, <1>2, <2>2, StackView DEF Counts
  <2>5. SameRuns(frames[w], frames'[w])
    BY <1>1, <1>2, <2>2, StackView DEF SameRuns
  <2>6. SameOwners(frames[w], frames'[w])
    <3>1. \A b : OwnsBatch(frames[w], b) <=> OwnsBatch(frames'[w], b)
      BY <1>1, <1>2, <2>2, StackView
    <3>2. Bottom(frames[w]) = Top(w)
      BY <1>1, <1>2, <1>3, StackView
    <3>3. \A b : ~OwnsPool(frames[w], b)
      BY <1>2, <3>2 DEF OwnsPool
    <3>4. \A b : ~OwnsPool(frames'[w], b)
      BY <1>3, <2>2 DEF OwnsPool
    <3> QED
      BY <3>1, <3>3, <3>4 DEF SameOwners
  <2>7. Typed'
    BY <1>1, <1>2, <1>5, <2>2 DEF Typed
  <2>8. Permits'
    BY <1>1, <1>2, <2>2, <2>3, PermitsSame
  <2>9. Lanes'
    BY <1>1, <1>2, <2>2, <2>4, LanesSame
  <2>10. TaskInv'
    BY <1>1, <1>2, <2>2, <2>5, <2>6, TasksSame
  <2> QED
    BY <2>2, <2>7, <2>8, <2>9, <2>10 DEF IInv
<1>6. CASE Goto(w, "permit") /\ ready' = ready
  <2>1. ready' \in [Executors -> SUBSET Threads]
    BY <1>1, <1>6 DEF Typed
  <2> QED
    BY <1>2, <1>3, <1>4, <1>6, <2>1, GoesTo
<1>7. CASE ready' = [ready EXCEPT ![e] = @ \cup {w}] /\ frames' = frames
  <2>1. ready' \in [Executors -> SUBSET Threads]
    BY <1>1, <1>4, <1>7, ReadyTyped
  <2> QED
    BY <1>2, <1>4, <1>7, <2>1, Asleep
<1> QED
  BY <1>5, <1>6, <1>7 DEF WorkerLooks

-----------------------------------------------------------------------------
(* A pool is at the bottom of its stack. *)
LEMMA PoolTop ==
    ASSUME Typed, Stacks, NEW t \in Threads, frames[t] # <<>>, Top(t).kind = "own", Top(t).batch \in Pools
    PROVE  /\ Rest(t) = <<>> /\ FrameOK(Top(t)) /\ Top(t) \in FrameSet
           /\ Top(t).permit <=> Top(t).at \in {"take", "drop"}
           /\ Bottom(frames[t]) = Top(t) /\ OwnsPool(frames[t], Top(t).batch)
           /\ \A c \in Pools : OwnsPool(frames[t], c) => c = Top(t).batch
           /\ \A c : OwnsBatch(frames[t], c) => c = Top(t).batch
           /\ Top(t).batch \in opened
<1> DEFINE m == Rest(t)
           f == Top(t)
<1>1. /\ f \in FrameSet /\ m \in Seq(FrameSet) /\ PushOK(m, f) /\ FrameOK(f)
      /\ Len(m) \in Nat /\ (Len(m) > 0 <=> m # <<>>) /\ f.kind = "own" /\ f.batch \in Pools
  BY TopOf
<1>2. m = <<>> /\ (f.permit <=> f.at \in {"take", "drop"})
  <2> HIDE DEF m, f
  <2>1. ~(Len(m) > 0)
    BY <1>1 DEF PushOK
  <2>2. Len(m) = 0
    <3>1. Len(m) \in Nat
      BY <1>1
    <3> QED
      BY <2>1, <3>1
  <2> QED
    BY <1>1, <2>1, <2>2 DEF PushOK
<1>3. Bottom(frames[t]) = Top(t) /\ \A c : OwnsBatch(frames[t], c) <=> f.batch = c
  BY <1>1, <1>2, StackView, EmptyStack
<1>4. f.batch \in Batches
  BY <1>1 DEF FrameOK
<1>5. f.batch \in opened
  BY <1>3, <1>4 DEF Stacks
<1>6. OwnsPool(frames[t], f.batch) /\ \A c \in Pools : OwnsPool(frames[t], c) => c = f.batch
  BY <1>1, <1>3 DEF OwnsPool
<1> QED
  BY <1>1, <1>2, <1>3, <1>5, <1>6

LEMMA AtPool ==
    ASSUME Typed, Stacks, NEW t \in Threads, frames[t] # <<>>, Top(t).kind = "own", Top(t).at = "pool"
    PROVE  Top(t).batch \in Pools /\ ~Top(t).permit /\ Rest(t) = <<>>
<1>1. Top(t).batch \in Pools
  BY TopOf DEF FrameOK
<1> QED
  BY <1>1, PoolTop

LEMMA StepPoolDrains == ASSUME IInv, NEW t \in Threads, PoolDrains(t) PROVE IInv'
<1> DEFINE b == Top(t).batch
<1>1. Typed /\ Stacks /\ Permits /\ Lanes /\ TaskInv
  BY DEF IInv
<1>2. /\ frames[t] # <<>> /\ Top(t).kind = "own" /\ Top(t).at = "pool"
      /\ UNCHANGED <<queue, running, permits, done, opened, ready, waiting>>
  BY DEF PoolDrains, At
<1>3. b \in Pools /\ ~Top(t).permit /\ Rest(t) = <<>>
  BY <1>1, <1>2, AtPool
<1>4. CASE Goto(t, "loop")
  <2>1. ready' \in [Executors -> SUBSET Threads] /\ waiting' \subseteq Threads
    BY <1>1, <1>2 DEF Typed
  <2> QED
    BY <1>2, <1>3, <1>4, <2>1, GoesTo
<1>5. CASE Top(t).pending = <<>> /\ frames' = [frames EXCEPT ![t] = <<>>]
  <2>1. frames' = [frames EXCEPT ![t] = Rest(t)]
    BY <1>3, <1>5
  <2>2. /\ frames' \in [Threads -> Seq(FrameSet)] /\ Stacks' /\ frames'[t] = Rest(t)
        /\ \A u \in Threads \ {t} :
             /\ Held(frames'[u]) <=> Held(frames[u])
             /\ \A d \in Executors : InLane(frames'[u], d) <=> InLane(frames[u], d)
             /\ SameRuns(frames[u], frames'[u]) /\ SameOwners(frames[u], frames'[u])
    BY <1>1, <1>2, <2>1, Pops
  <2>3. Held(frames'[t]) <=> Held(frames[t])
    BY <1>1, <1>2, <1>3, <2>2, StackView
  <2>4. \A d \in Executors : InLane(frames'[t], d) <=> InLane(frames[t], d)
    BY <1>1, <1>2, <2>2, StackView DEF Counts
  <2>5. SameRuns(frames[t], frames'[t])
    BY <1>1, <1>2, <2>2, StackView DEF SameRuns
  <2>6. Typed'
    BY <1>1, <1>2, <2>2 DEF Typed
  <2>7. Permits'
    BY <1>1, <1>2, <2>2, <2>3, PermitsSame
  <2>8. Lanes'
    BY <1>1, <1>2, <2>2, <2>4, LanesSame
  <2>9. TaskInv'
    <3>1. /\ OwnsPool(frames[t], b) /\ Bottom(frames[t]).pending = <<>>
          /\ \A c \in Batches : OwnsBatch(frames[t], c) => c = b
          /\ \A c \in Pools : OwnsPool(frames[t], c) => c = b
      BY <1>1, <1>2, <1>3, <1>5, PoolTop
    <3>2. \A c \in Pools : ~OwnsPool(frames'[t], c)
      BY <1>3, <2>2 DEF OwnsPool
    <3>3. \A u \in Threads : SameRuns(frames[u], frames'[u])
      BY <2>2, <2>5
    <3>4. UNCHANGED <<queue, done, opened>>
      BY <1>2
    <3> HIDE DEF b
    <3> QED
      BY <1>1, <1>3, <2>2, <3>1, <3>2, <3>3, <3>4, PoolEnds
  <2> QED
    BY <2>2, <2>6, <2>7, <2>8, <2>9 DEF IInv
<1> QED
  BY <1>4, <1>5 DEF PoolDrains

LEMMA PoolCapacityType == ASSUME NEW b \in Pools PROVE PoolCapacity(b) \in Nat \ {0}
<1>1. Home[b] \in Executors /\ Parallelism[Home[b]] \in Nat \ {0} /\ MaxParallelism \in Nat \ {0}
  BY BatchesAssumption, ParallelismAssumption
<1> QED
  BY <1>1 DEF PoolCapacity

LEMMA StepPoolCollects == ASSUME IInv, NEW t \in Threads, PoolCollects(t) PROVE IInv'
<1> DEFINE b == Top(t).batch
           p == Top(t).pending
<1>1. Typed /\ Stacks /\ Permits /\ Lanes /\ TaskInv
  BY DEF IInv
<1>2. /\ frames[t] # <<>> /\ Top(t).kind = "own" /\ Top(t).at = "loop" /\ b \in Pools
      /\ UNCHANGED <<queue, running, permits, done, opened, ready, waiting>>
  BY DEF PoolCollects, At
<1>3. PICK i \in 1 .. Len(p) :
        /\ <<b, p[i]>> \in done
        /\ frames' = [frames EXCEPT ![t] = <<[Top(t) EXCEPT !.at = "pool", !.pending = RemoveAt(p, i)]>> \o Rest(t)]
  BY DEF PoolCollects, Become, Rest
<1> DEFINE g == [Top(t) EXCEPT !.at = "pool", !.pending = RemoveAt(p, i)]
<1>4. /\ Rest(t) = <<>> /\ FrameOK(Top(t)) /\ Top(t) \in FrameSet /\ ~Top(t).permit
      /\ Bottom(frames[t]) = Top(t) /\ OwnsPool(frames[t], b)
      /\ \A c \in Pools : OwnsPool(frames[t], c) => c = b
  BY <1>1, <1>2, PoolTop
<1>5. p \in Seq(Nat)
  BY <1>4 DEF FrameSet
<1> HIDE DEF p, b
<1>6. /\ RemoveAt(p, i) \in Seq(Nat) /\ Len(RemoveAt(p, i)) = Len(p) - 1
      /\ \A k : In(p, k) => k = p[i] \/ In(RemoveAt(p, i), k)
  BY <1>5, RemovedIn
<1>7. /\ g \in FrameSet /\ g.at = "pool" /\ g.pending = RemoveAt(p, i)
      /\ g.kind = Top(t).kind /\ g.batch = Top(t).batch /\ g.counts = Top(t).counts
      /\ g.task = Top(t).task /\ g.permit = Top(t).permit
  BY <1>4, <1>6 DEF FrameSet
<1>8. frames' = [frames EXCEPT ![t] = <<g>> \o Rest(t)]
  BY <1>3
<1> HIDE DEF g
<1>9. PushOK(Rest(t), g)
  <2>1. FrameOK(g)
    BY <1>2, <1>4, <1>7 DEF FrameOK, TaskOf, b
  <2>2. Len(Rest(t)) = 0
    BY <1>4
  <2> QED
    BY <1>2, <1>4, <1>7, <2>1, <2>2 DEF PushOK
<1>10. /\ frames' \in [Threads -> Seq(FrameSet)] /\ Stacks'
       /\ \A u \in Threads \ {t} :
            /\ Held(frames'[u]) <=> Held(frames[u])
            /\ \A d \in Executors : InLane(frames'[u], d) <=> InLane(frames[u], d)
            /\ SameRuns(frames[u], frames'[u]) /\ SameOwners(frames[u], frames'[u])
       /\ Held(frames'[t]) <=> g.permit \/ Held(Rest(t))
       /\ Held(frames[t]) <=> Top(t).permit \/ Held(Rest(t))
       /\ \A d \in Executors : InLane(frames'[t], d) <=> InLane(frames[t], d)
       /\ \A c \in Batches : OwnsBatch(frames'[t], c) <=> OwnsBatch(frames[t], c)
       /\ SameRuns(frames[t], frames'[t])
  <2>1. g.kind # "task"
    BY <1>2, <1>7
  <2> QED
    BY <1>1, <1>2, <1>7, <1>8, <1>9, <2>1, Turns
<1>11. Typed'
  BY <1>1, <1>2, <1>10 DEF Typed
<1>12. Permits'
  BY <1>1, <1>2, <1>7, <1>10, PermitsSame
<1>13. Lanes'
  BY <1>1, <1>2, <1>10, LanesSame
<1>14. TaskInv'
  <2>1. frames'[t] = <<g>> \o Rest(t) /\ Rest(t) \in Seq(FrameSet)
    BY <1>1, <1>2, <1>8, TopOf DEF Typed
  <2>2. Bottom(frames'[t]) = g /\ frames'[t] # <<>>
    BY <1>4, <1>7, <2>1, PushView
  <2>3. OwnsPool(frames'[t], b) /\ \A c \in Pools : OwnsPool(frames'[t], c) => c = b
    BY <1>2, <1>7, <2>2 DEF OwnsPool, b
  <2>4. Bottom(frames'[t]).task = Bottom(frames[t]).task
    BY <1>4, <1>7, <2>2
  <2>5. /\ Bottom(frames[t]).pending = p /\ Bottom(frames'[t]).pending = RemoveAt(p, i)
    BY <1>4, <1>7, <2>2 DEF p
  <2>6. \A k : In(Bottom(frames[t]).pending, k) => k = p[i] \/ In(Bottom(frames'[t]).pending, k)
    BY <1>6, <2>5
  <2>7. Len(Bottom(frames'[t]).pending) <= PoolCapacity(b)
    <3>1. Len(p) <= PoolCapacity(b)
      BY <1>1, <1>2, <1>4, <2>5 DEF TaskInv, PoolsOK
    <3>2. PoolCapacity(b) \in Nat /\ Len(p) \in Nat
      BY <1>2, <1>5, PoolCapacityType
    <3> QED
      BY <1>6, <2>5, <3>1, <3>2
  <2>8. \A u \in Threads : SameRuns(frames[u], frames'[u])
    BY <1>10
  <2>9. UNCHANGED <<queue, done, opened>> /\ <<b, p[i]>> \in done
    BY <1>2, <1>3
  <2>10. \A c \in Pools \ {b} : ~OwnsPool(frames'[t], c) /\ ~OwnsPool(frames[t], c)
    BY <1>4, <2>3
  <2> QED
    BY <1>1, <1>2, <1>4, <1>10, <2>3, <2>4, <2>6, <2>7, <2>8, <2>9, <2>10, PoolCollected
<1> QED
  BY <1>10, <1>11, <1>12, <1>13, <1>14 DEF IInv

LEMMA StepOpenPool == ASSUME IInv, NEW t \in Threads, NEW b \in Batches, OpenPool(t, b) PROVE IInv'
<1> DEFINE g == Frame("own", b, 0, "pool")
<1>1. Typed /\ Stacks /\ Permits /\ Lanes /\ TaskInv
  BY DEF IInv
<1>2. /\ frames[t] = <<>> /\ b \in Pools \ opened /\ opened' = opened \cup {b}
      /\ frames' = [frames EXCEPT ![t] = <<g>>]
      /\ UNCHANGED <<queue, running, permits, done, ready, waiting>>
  BY DEF OpenPool
<1>3. /\ g \in FrameSet /\ g.kind = "own" /\ g.batch = b /\ g.task = 0 /\ g.pending = <<>>
      /\ g.at = "pool" /\ ~g.permit
  BY EmptySeq DEF Frame, FrameSet
<1> HIDE DEF g
<1>4. FrameOK(g)
  BY <1>2, <1>3 DEF FrameOK
<1>5. PushOK(<<>>, g)
  BY <1>3, <1>4 DEF PushOK
<1>6. <<>> \in Seq(FrameSet) /\ <<g>> = <<g>> \o <<>>
  BY <1>3
<1>7. StackOK(<<g>>)
  BY <1>3, <1>5, <1>6, PushStack, EmptyStack
<1>8. /\ <<g>> \in Seq(FrameSet) /\ <<g>> # <<>> /\ (Held(<<g>>) <=> g.permit \/ Held(<<>>))
      /\ \A e : InLane(<<g>>, e) <=> (Counts(g, e) /\ g.at # "permit") \/ InLane(<<>>, e)
      /\ \A x : Runs(<<g>>, x) <=> (g.kind = "task" /\ g.at = "settle" /\ TaskOf(g) = x) \/ Runs(<<>>, x)
      /\ \A c : OwnsBatch(<<g>>, c) <=> (g.kind = "own" /\ g.batch = c) \/ OwnsBatch(<<>>, c)
      /\ Serves(<<g>>) <=> g.kind = "worker" \/ Serves(<<>>)
      /\ Bottom(<<g>>) = g
  BY <1>3, <1>6, PushView
<1>9. frames'[t] = <<g>> /\ \A u \in Threads \ {t} : frames'[u] = frames[u]
  BY <1>1, <1>2 DEF Typed
<1>10. /\ frames' \in [Threads -> Seq(FrameSet)] /\ Stacks'
       /\ \A u \in Threads \ {t} :
            /\ Held(frames'[u]) <=> Held(frames[u])
            /\ \A d \in Executors : InLane(frames'[u], d) <=> InLane(frames[u], d)
            /\ SameRuns(frames[u], frames'[u]) /\ SameOwners(frames[u], frames'[u])
  <2>1. frames' = [u \in Threads |-> frames'[u]] /\ DOMAIN frames' = Threads
    BY <1>1, <1>2 DEF Typed
  <2>2. ~Serves(frames'[t])
    BY <1>3, <1>8, <1>9, EmptyStack
  <2>3. \A c \in Batches : OwnsBatch(frames'[t], c) => c \in opened'
    BY <1>2, <1>3, <1>8, <1>9, EmptyStack
  <2>4. opened \subseteq opened' /\ frames'[t] \in Seq(FrameSet) /\ StackOK(frames'[t])
    BY <1>2, <1>7, <1>8, <1>9
  <2> QED
    BY <1>1, <1>9, <2>1, <2>2, <2>3, <2>4, Others
<1>11. Held(frames'[t]) <=> Held(frames[t])
  BY <1>2, <1>3, <1>8, <1>9, EmptyStack
<1>12. \A d \in Executors : InLane(frames'[t], d) <=> InLane(frames[t], d)
  BY <1>2, <1>3, <1>8, <1>9 DEF Counts
<1>13. SameRuns(frames[t], frames'[t])
  BY <1>2, <1>3, <1>8, <1>9 DEF SameRuns
<1>14. Typed'
  BY <1>1, <1>2, <1>10 DEF Typed
<1>15. Permits'
  BY <1>1, <1>2, <1>10, <1>11, PermitsSame
<1>16. Lanes'
  BY <1>1, <1>2, <1>10, <1>12, LanesSame
<1>17. TaskInv'
  <2>1. ASSUME NEW u \in Threads, OwnsPool(frames[u], b) PROVE FALSE
    <3>1. frames[u] \in Seq(FrameSet) /\ frames[u] # <<>>
      BY <1>1, <2>1 DEF Typed, OwnsPool
    <3>2. Len(frames[u]) \in 1 .. Len(frames[u])
      BY <3>1
    <3>3. OwnsBatch(frames[u], b)
      BY <2>1, <3>2 DEF OwnsPool, OwnsBatch, Bottom
    <3> QED
      BY <1>1, <1>2, <3>3 DEF Stacks
  <2>2. \A u \in Threads : SameRuns(frames[u], frames'[u])
    BY <1>10, <1>13
  <2>3. \A c \in Batches : ~OwnsBatch(frames[t], c)
    BY <1>2, EmptyStack
  <2>4. \A c \in Pools : ~OwnsPool(frames[t], c) /\ (OwnsPool(frames'[t], c) => c = b)
    BY <1>2, <1>3, <1>8, <1>9, EmptyStack DEF OwnsPool
  <2>5. Bottom(frames'[t]).pending = <<>> /\ Bottom(frames'[t]).task = 0
    BY <1>3, <1>8, <1>9
  <2>6. UNCHANGED <<queue, done>>
    BY <1>2
  <2> QED
    BY <1>1, <1>2, <1>10, <2>1, <2>2, <2>3, <2>4, <2>5, <2>6, PoolOpened
<1> QED
  BY <1>10, <1>14, <1>15, <1>16, <1>17 DEF IInv

LEMMA StepShutdown == ASSUME IInv, NEW e \in Executors, Shutdown(e) PROVE IInv'
<1>1. Typed
  BY DEF IInv
<1>2. UNCHANGED <<frames, queue, running, permits, done, opened, waiting>>
  BY DEF Shutdown
<1>3. ready' \in [Executors -> SUBSET Threads] /\ waiting' \subseteq Threads
  BY <1>1, <1>2, ReadyTyped DEF Shutdown, NotifyReady, Typed
<1> QED
  BY <1>2, <1>3, Asleep

LEMMA StepWakeBudget == ASSUME IInv, NEW e \in Executors, WakeBudget(e) PROVE IInv'
<1>1. ready' \in [Executors -> SUBSET Threads] /\ waiting' \subseteq Threads
  BY DEF IInv, WakeBudget, Typed
<1> QED
  BY <1>1, Asleep DEF WakeBudget

LEMMA LoneStack ==
    ASSUME NEW g \in FrameSet, PushOK(<<>>, g)
    PROVE  /\ StackOK(<<g>>) /\ <<g>> \in Seq(FrameSet) /\ <<g>> # <<>>
           /\ Held(<<g>>) <=> g.permit
           /\ \A d : InLane(<<g>>, d) <=> (Counts(g, d) /\ g.at # "permit")
           /\ \A y : Runs(<<g>>, y) <=> (g.kind = "task" /\ g.at = "settle" /\ TaskOf(g) = y)
           /\ \A c : OwnsBatch(<<g>>, c) <=> (g.kind = "own" /\ g.batch = c)
           /\ Serves(<<g>>) <=> g.kind = "worker"
           /\ Bottom(<<g>>) = g
<1>1. <<>> \in Seq(FrameSet) /\ <<g>> = <<g>> \o <<>>
  OBVIOUS
<1>2. StackOK(<<g>>)
  BY <1>1, PushStack, EmptyStack
<1>3. /\ <<g>> \in Seq(FrameSet) /\ <<g>> # <<>> /\ (Held(<<g>>) <=> g.permit \/ Held(<<>>))
      /\ \A d : InLane(<<g>>, d) <=> (Counts(g, d) /\ g.at # "permit") \/ InLane(<<>>, d)
      /\ \A y : Runs(<<g>>, y) <=> (g.kind = "task" /\ g.at = "settle" /\ TaskOf(g) = y) \/ Runs(<<>>, y)
      /\ \A c : OwnsBatch(<<g>>, c) <=> (g.kind = "own" /\ g.batch = c) \/ OwnsBatch(<<>>, c)
      /\ Serves(<<g>>) <=> g.kind = "worker" \/ Serves(<<>>)
      /\ Bottom(<<g>>) = g
  BY <1>1, PushView
<1>4. Held(<<g>>) <=> g.permit
  BY <1>3, EmptyStack
<1>5. Serves(<<g>>) <=> g.kind = "worker"
  BY <1>3, EmptyStack
<1> QED
  BY <1>2, <1>3, <1>4, <1>5, EmptyStack

LEMMA PoolQueue ==
    ASSUME Typed, TaskInv, NEW t \in Threads, NEW b \in Pools, NEW n, PoolNext(t, b, n)
    PROVE  /\ PoolFront(b, n) \in Seq(Tasks) /\ Distinct(PoolFront(b, n))
           /\ \A y \in Tasks : In(PoolFront(b, n), y) <=> y = <<b, n>> \/ In(queue[Home[b]], y)
<1> DEFINE x == <<b, n>>
           e == Home[b]
           k == Bottom(frames[t]).task
<1>0. k \in Nat /\ n \in Nat /\ n = k + 1 /\ n <= Size[b] /\ OwnsPool(frames[t], b)
  BY DEF PoolNext
<1> HIDE DEF k
<1>1. b \in Batches /\ e \in Executors /\ Size[b] \in Nat
  BY BatchesAssumption
<1>2. n \in 1 .. Size[b] /\ ~(n <= k)
  BY <1>0, <1>1
<1>3. x \in Tasks
  BY <1>1, <1>2 DEF Tasks
<1>4. queue[e] \in Seq(Tasks)
  BY <1>1 DEF Typed
<1>5. ~In(queue[e], x)
  <2>0. x[1] = b /\ x[2] = n
    OBVIOUS
  <2> HIDE DEF x
  <2>1. Live(x) => x[2] <= k
    BY <1>0, <1>3, <2>0 DEF TaskInv, Kept, k
  <2>2. ~Waits(x)
    BY <1>2, <2>0, <2>1 DEF Live
  <2> QED
    BY <2>0, <2>2 DEF Waits
<1>6. Distinct(queue[e])
  BY <1>1 DEF TaskInv, Queues
<1>7. PoolFront(b, n) = <<x>> \o queue[e]
  BY DEF PoolFront
<1>8. /\ <<x>> \o queue[e] \in Seq(Tasks) /\ Distinct(<<x>> \o queue[e])
      /\ \A y : In(<<x>> \o queue[e], y) <=> y = x \/ In(queue[e], y)
  <2> HIDE DEF x, e
  <2> QED
    BY <1>3, <1>4, <1>5, <1>6, AddedFront
<1> QED
  BY <1>7, <1>8

(* A pool with room submits. *)
LEMMA PoolAccepts ==
    ASSUME IInv, NEW t \in Threads, frames[t] # <<>>, Top(t).kind = "own", Top(t).at = "pool",
           NEW b, b = Top(t).batch, NEW e, e = Home[b], NEW n, PoolNext(t, b, n),
           queue' = [queue EXCEPT ![e] = PoolFront(b, n)],
           NEW g \in FrameSet, PoolGrew(Top(t), g, b, n), g.at = Top(t).at, g.permit = Top(t).permit,
           DOMAIN frames' = Threads, frames' = [u \in Threads |-> frames'[u]], frames'[t] = <<g>>,
           \A u \in Threads \ {t} : frames'[u] = frames[u] \/ Started(u),
           ready' \in [Executors -> SUBSET Threads],
           UNCHANGED <<running, permits, done, opened, waiting>>
    PROVE  IInv'
<1>1. Typed /\ Stacks /\ Permits /\ Lanes /\ TaskInv
  BY DEF IInv
<1>2. b \in Pools /\ ~Top(t).permit /\ Rest(t) = <<>>
  BY <1>1, AtPool
<1>3. /\ FrameOK(Top(t)) /\ Top(t) \in FrameSet
      /\ Bottom(frames[t]) = Top(t) /\ OwnsPool(frames[t], b)
      /\ \A c \in Pools : OwnsPool(frames[t], c) => c = b
      /\ b \in opened
  BY <1>1, <1>2, PoolTop
<1>4. b \in Batches /\ e \in Executors /\ Size[b] \in Nat
  BY <1>2, BatchesAssumption
<1>8. g \in FrameSet /\ g.kind = "own" /\ g.batch = b /\ g.at = "pool" /\ ~g.permit
  BY <1>2 DEF PoolGrew
<1>9. FrameOK(g)
  BY <1>2, <1>3, <1>8 DEF FrameOK
<1>10. PushOK(<<>>, g)
  BY <1>2, <1>8, <1>9 DEF PushOK
<1>13. /\ StackOK(<<g>>) /\ <<g>> \in Seq(FrameSet) /\ <<g>> # <<>>
       /\ Held(<<g>>) <=> g.permit
       /\ \A d : InLane(<<g>>, d) <=> (Counts(g, d) /\ g.at # "permit")
       /\ \A y : Runs(<<g>>, y) <=> (g.kind = "task" /\ g.at = "settle" /\ TaskOf(g) = y)
       /\ \A c : OwnsBatch(<<g>>, c) <=> (g.kind = "own" /\ g.batch = c)
       /\ Serves(<<g>>) <=> g.kind = "worker"
       /\ Bottom(<<g>>) = g
  BY <1>8, <1>10, LoneStack
<1>14. frames'[t] = <<g>>
  OBVIOUS
<1>15. /\ ~Held(frames[t])
       /\ \A d : ~InLane(frames[t], d)
       /\ \A y : ~Runs(frames[t], y)
       /\ \A c : OwnsBatch(frames[t], c) <=> b = c
  <2>1. ~Held(frames[t])
    BY <1>1, <1>2, StackView, EmptyStack
  <2>2. \A d : ~InLane(frames[t], d)
    BY <1>1, <1>2, StackView, EmptyStack DEF Counts
  <2>3. \A y : ~Runs(frames[t], y)
    BY <1>1, <1>2, StackView, EmptyStack
  <2>4. \A c : OwnsBatch(frames[t], c) <=> b = c
    BY <1>1, <1>2, StackView, EmptyStack
  <2> QED
    BY <2>1, <2>2, <2>3, <2>4
<1>16. \A c \in Batches : OwnsBatch(frames'[t], c) <=> OwnsBatch(frames[t], c)
  BY <1>8, <1>13, <1>14, <1>15
<1>17. /\ frames' \in [Threads -> Seq(FrameSet)] /\ Stacks'
       /\ \A u \in Threads \ {t} :
            /\ Held(frames'[u]) <=> Held(frames[u])
            /\ \A d \in Executors : InLane(frames'[u], d) <=> InLane(frames[u], d)
            /\ SameRuns(frames[u], frames'[u]) /\ SameOwners(frames[u], frames'[u])
  <2>2. ~Serves(frames'[t])
    BY <1>8, <1>13, <1>14, EmptyStack
  <2>3. \A c \in Batches : OwnsBatch(frames'[t], c) => c \in opened'
    BY <1>1, <1>16 DEF Stacks
  <2>4. opened \subseteq opened' /\ frames'[t] \in Seq(FrameSet) /\ StackOK(frames'[t])
    BY <1>13, <1>14
  <2> QED
    BY <1>1, <2>2, <2>3, <2>4, Others
<1>18. Held(frames'[t]) <=> Held(frames[t])
  BY <1>8, <1>13, <1>14, <1>15
<1>19. \A d \in Executors : InLane(frames'[t], d) <=> InLane(frames[t], d)
  BY <1>8, <1>13, <1>14, <1>15 DEF Counts
<1>20. SameRuns(frames[t], frames'[t])
  BY <1>8, <1>13, <1>14, <1>15 DEF SameRuns
<1>21. Permits'
  BY <1>1, <1>17, <1>18, PermitsSame
<1>22. Lanes'
  BY <1>1, <1>17, <1>19, LanesSame
<1>26. /\ PoolFront(b, n) \in Seq(Tasks) /\ Distinct(PoolFront(b, n))
       /\ \A y \in Tasks : In(PoolFront(b, n), y) <=> y = <<b, n>> \/ In(queue[Home[b]], y)
  BY <1>1, <1>2, PoolQueue
<1>27. Typed'
  BY <1>1, <1>4, <1>17, <1>26 DEF Typed
<1>28. TaskInv'
  <2>2. Bottom(frames'[t]) = g
    BY <1>13, <1>14
  <2>3. PoolGrew(Bottom(frames[t]), Bottom(frames'[t]), b, n) /\ frames'[t] # <<>>
    BY <1>3, <1>13, <1>14, <2>2
  <2>5. OwnsPool(frames'[t], b) /\ \A c \in Pools : OwnsPool(frames'[t], c) => c = b
    BY <1>8, <1>13, <1>14 DEF OwnsPool
  <2>6. \A u \in Threads : SameRuns(frames[u], frames'[u])
    BY <1>17, <1>20
  <2>7. \A c \in Pools \ {b} : ~OwnsPool(frames'[t], c) /\ ~OwnsPool(frames[t], c)
    BY <1>3, <2>5
  <2>8. UNCHANGED <<done, opened>> /\ b \in Pools \cap opened
    BY <1>2, <1>3
  <2> DEFINE q == PoolFront(b, n)
  <2>9. /\ q \in Seq(Tasks) /\ queue' = [queue EXCEPT ![Home[b]] = q] /\ Distinct(q)
        /\ \A y \in Tasks : In(q, y) <=> y = <<b, n>> \/ In(queue[Home[b]], y)
    BY <1>26
  <2>10. \A u \in Threads \ {t} : SameOwners(frames[u], frames'[u])
    BY <1>17
  <2> HIDE DEF q
  <2>11. PoolAdds(t, b, n, q)
    BY <1>16, <2>3, <2>6, <2>7, <2>8, <2>9, <2>10 DEF PoolAdds
  <2> QED
    BY <1>1, <2>11, PoolSubmitted
<1> QED
  BY <1>17, <1>21, <1>22, <1>27, <1>28 DEF IInv

LEMMA StepPoolSubmits == ASSUME IInv, NEW t \in Threads, PoolSubmits(t) PROVE IInv'
<1> DEFINE b == Top(t).batch
           e == Home[b]
           n == Top(t).task + 1
           g == [Top(t) EXCEPT !.task = n, !.pending = Append(@, n)]
<1>1. Typed /\ Stacks
  BY DEF IInv
<1>2. /\ frames[t] # <<>> /\ Top(t).kind = "own" /\ Top(t).at = "pool" /\ n <= Size[b]
      /\ UNCHANGED <<running, permits, done, opened, waiting>>
  BY DEF PoolSubmits, At
<1>3. b \in Pools /\ ~Top(t).permit /\ Rest(t) = <<>>
  BY <1>1, <1>2, AtPool
<1>4. e \in Executors
  BY <1>3, BatchesAssumption
<1>5. CASE Len(Top(t).pending) >= PoolCapacity(b)
  <2>1. Goto(t, "loop") /\ UNCHANGED <<queue, ready>>
    BY <1>5 DEF PoolSubmits
  <2>2. ready' \in [Executors -> SUBSET Threads] /\ waiting' \subseteq Threads
    BY <1>1, <1>2, <2>1 DEF Typed
  <2> QED
    BY <1>2, <1>3, <2>1, <2>2, GoesTo
<1>6. CASE ~(Len(Top(t).pending) >= PoolCapacity(b))
  <2>1. /\ queue' = [queue EXCEPT ![e] = <<<<b, n>>>> \o @]
        /\ frames' = [u \in Threads |->
                        IF u = t THEN <<g>>
                        ELSE IF u \in Workers(e) /\ frames[u] = <<>>
                        THEN <<Frame("worker", NoBatch, 0, "look")>>
                        ELSE frames[u]]
        /\ ready' = [ready EXCEPT ![e] = {}]
    BY <1>6 DEF PoolSubmits, NotifyReady
  <2>2. ready' \in [Executors -> SUBSET Threads]
    BY <1>1, <1>4, <2>1, ReadyTyped
  <2>3. queue' = [queue EXCEPT ![e] = PoolFront(b, n)]
    BY <1>1, <1>4, <2>1 DEF Typed, PoolFront
  <2>4. Top(t) \in FrameSet
    BY <1>1, <1>2, TopOf
  <2>5. Append(Top(t).pending, n) \in Seq(Nat) /\ n \in Nat
    BY <2>4, AddedBack DEF FrameSet
  <2>6. /\ g \in FrameSet /\ g.task = n /\ g.pending = Append(Top(t).pending, n)
        /\ g.kind = Top(t).kind /\ g.batch = Top(t).batch /\ g.counts = Top(t).counts
        /\ g.at = Top(t).at /\ g.permit = Top(t).permit
    BY <2>4, <2>5 DEF FrameSet
  <2>7. /\ DOMAIN frames' = Threads /\ frames' = [u \in Threads |-> frames'[u]]
        /\ frames'[t] = <<g>>
    BY <2>1
  <2>8. \A u \in Threads \ {t} : frames'[u] = frames[u] \/ Started(u)
    BY <1>4, <2>1 DEF Started
  <2>9. b = Top(t).batch /\ e = Home[b] /\ n = Top(t).task + 1
    OBVIOUS
  <2>10. Bottom(frames[t]) = Top(t) /\ OwnsPool(frames[t], b) /\ Top(t).task \in Nat /\ TaskInv
    BY <1>1, <1>2, <1>3, <2>4, PoolTop DEF FrameSet, IInv
  <2> HIDE DEF b, e, n, g
  <2> QED
    <3>1. PoolNext(t, b, n)
      BY <1>2, <2>5, <2>9, <2>10 DEF PoolNext
    <3>2. /\ Len(g.pending) <= PoolCapacity(b)
          /\ \A k : In(g.pending, k) <=> k = n \/ In(Top(t).pending, k)
      <4> DEFINE p == Top(t).pending
      <4>1. p \in Seq(Nat) /\ n \in Nat /\ ~(Len(p) >= PoolCapacity(b)) /\ g.pending = Append(p, n)
        BY <1>6, <2>4, <2>5, <2>6 DEF FrameSet
      <4>2. PoolCapacity(b) \in Nat
        BY <1>3, PoolCapacityType
      <4> HIDE DEF p
      <4>3. Len(Append(p, n)) = Len(p) + 1 /\ \A k : In(Append(p, n), k) <=> k = n \/ In(p, k)
        BY <4>1, AddedBack
      <4>4. Len(p) \in Nat
        BY <4>1
      <4>5. Len(Append(p, n)) <= PoolCapacity(b)
        BY <4>1, <4>2, <4>3, <4>4
      <4> QED
        BY <4>1, <4>3, <4>5 DEF p
    <3>3. g \in FrameSet /\ PoolGrew(Top(t), g, b, n) /\ g.at = Top(t).at /\ g.permit = Top(t).permit
      BY <1>2, <2>6, <2>9, <3>2 DEF PoolGrew
    <3>4. b = Top(t).batch /\ e = Home[b]
      BY <2>9
    <3> QED
      BY <1>2, <2>2, <2>3, <2>7, <2>8, <3>1, <3>3, <3>4, PoolAccepts
<1> QED
  BY <1>5, <1>6

-----------------------------------------------------------------------------
(* A task starts: its frame h goes on the frame k that will resume.  f is  *)
(* the frame that took it, on m.                                           *)
Resumes(f, k) ==
    /\ k.kind = f.kind /\ k.batch = f.batch /\ k.task = f.task /\ k.pending = f.pending
    /\ k.at = (IF f.kind = "own" THEN "loop" ELSE "look") /\ ~k.permit

StartsAs(h, x) == h.kind = "task" /\ h.at = "settle" /\ TaskOf(h) = x /\ x \in Tasks

Outside(s, e) == \A i \in 1 .. Len(s) : s[i].kind = "task" => Home[s[i].batch] # e

LEMMA PushOutside ==
    ASSUME NEW m \in Seq(FrameSet), NEW f \in FrameSet, f.kind # "task", NEW e
    PROVE  Outside(<<f>> \o m, e) <=> Outside(m, e)
<1> DEFINE r == <<f>> \o m
<1>1. /\ Len(r) = Len(m) + 1 /\ r[1] = f /\ Len(m) \in Nat
      /\ \A i \in 1 .. Len(m) : r[i + 1] = m[i]
  BY SeqPush
<1> HIDE DEF r
<1>2. ASSUME Outside(r, e) PROVE Outside(m, e)
  <2> SUFFICES ASSUME NEW i \in 1 .. Len(m), m[i].kind = "task" PROVE Home[m[i].batch] # e
    BY DEF Outside
  <2>1. i + 1 \in 1 .. Len(r) /\ r[i + 1] = m[i]
    BY <1>1
  <2> QED
    BY <1>2, <2>1 DEF Outside
<1>3. ASSUME Outside(m, e) PROVE Outside(r, e)
  <2> SUFFICES ASSUME NEW i \in 1 .. Len(r), r[i].kind = "task" PROVE Home[r[i].batch] # e
    BY DEF Outside
  <2>1. i # 1
    BY <1>1
  <2>2. i - 1 \in 1 .. Len(m) /\ (i - 1) + 1 = i
    BY <1>1, <2>1
  <2>3. r[(i - 1) + 1] = m[i - 1]
    BY <1>1, <2>2
  <2>4. r[i] = m[i - 1]
    BY <2>2, <2>3
  <2> QED
    BY <1>3, <2>2, <2>4 DEF Outside
<1> QED
  BY <1>2, <1>3 DEF r

LEMMA ResumedStack ==
    ASSUME NEW m \in Seq(FrameSet), StackOK(m), NEW f \in FrameSet, PushOK(m, f),
           f.kind \in {"own", "worker"}, NEW k \in FrameSet, Resumes(f, k)
    PROVE  StackOK(<<k>> \o m) /\ Len(m) # 1
<1>1. Len(m) # 1
  BY PushKind
<1>2. k.at \in {"loop", "look"}
  BY DEF Resumes
<1>3. FrameOK(k)
  BY DEF Resumes, FrameOK, PushOK
<1>4. PushOK(m, k)
  BY <1>1, <1>3 DEF PushOK, Resumes
<1> QED
  BY <1>1, <1>4, PushStack

LEMMA StartedStack ==
    ASSUME NEW m \in Seq(FrameSet), StackOK(m), NEW f \in FrameSet, PushOK(m, f),
           f.kind \in {"own", "worker"}, f.at = "take", NEW k \in FrameSet, Resumes(f, k),
           NEW h \in FrameSet, NEW x, StartsAs(h, x), h.permit = f.permit,
           h.counts <=> Outside(m, Home[x[1]]), ~Runs(m, x)
    PROVE  StackOK(<<h>> \o (<<k>> \o m))
<1> DEFINE n == <<k>> \o m
           r == <<h>> \o n
<1>1. StackOK(n) /\ Len(m) # 1
  BY ResumedStack
<1>2. /\ n \in Seq(FrameSet) /\ Len(n) = Len(m) + 1 /\ n[1] = k /\ n # <<>> /\ Len(m) \in Nat
  BY SeqPush
<1>3. \A y : Runs(n, y) <=> (k.kind = "task" /\ k.at = "settle" /\ TaskOf(k) = y) \/ Runs(m, y)
  BY PushView
<1>4. k.kind # "task" /\ k.at \in {"loop", "look"}
  BY DEF Resumes
<1>5. Outside(n, Home[x[1]]) <=> Outside(m, Home[x[1]])
  BY <1>4, PushOutside
<1> HIDE DEF n
<1>6. ~Runs(n, x)
  BY <1>3, <1>4
<1>7. /\ h.kind = "task" /\ h.at = "settle" /\ TaskOf(h) = x /\ x \in Tasks /\ x[1] = h.batch
  BY DEF StartsAs, TaskOf
<1>8. FrameOK(h)
  BY <1>7 DEF FrameOK
<1>9. Len(n) = 1 => h.permit
  <2>1. Len(n) = 1 => Len(m) = 0
    BY <1>2
  <2>2. Len(m) = 0 => f.permit
    BY DEF PushOK
  <2> QED
    BY <2>1, <2>2
<1>10. Len(n) > 1 => ~h.permit
  <2>1. Len(n) > 1 => Len(m) > 1
    <3> DEFINE l == Len(m)
    <3>1. Len(n) = l + 1 /\ l \in Nat /\ l # 1
      BY <1>1, <1>2
    <3> HIDE DEF l
    <3>2. l + 1 > 1 => l > 1
      BY <3>1
    <3> QED
      BY <3>1, <3>2 DEF l
  <2>2. Len(m) > 1 => ~f.permit
    BY DEF PushOK
  <2> QED
    BY <2>1, <2>2
<1>11. h.counts <=> \A i \in 1 .. Len(n) : n[i].kind = "task" => Home[n[i].batch] # Home[h.batch]
  BY <1>5, <1>7 DEF Outside
<1>12. n[1].at \in {"look", "loop", "settle"}
  BY <1>2, <1>4
<1>13. Len(n) # 0
  BY <1>2
<1>14. PushOK(n, h)
  BY <1>6, <1>7, <1>8, <1>9, <1>10, <1>11, <1>12, <1>13 DEF PushOK
<1> QED
  BY <1>1, <1>2, <1>14, PushStack DEF n

(* A lane is taken by a task that counts. *)
EntersLane(t, e, h) ==
    /\ h.counts => HasLane(e)
    /\ running' = IF h.counts THEN [running EXCEPT ![e] = @ + 1] ELSE running
    /\ \A u \in Threads \ {t} : \A d \in Executors : InLane(frames'[u], d) <=> InLane(frames[u], d)
    /\ \A d \in Executors : InLane(frames'[t], d) <=> (h.counts /\ d = e) \/ InLane(frames[t], d)
    /\ h.counts => ~InLane(frames[t], e)

LEMMA LaneEntered ==
    ASSUME Typed, Lanes, NEW t \in Threads, NEW e \in Executors, NEW h, EntersLane(t, e, h)
    PROVE  Lanes' /\ running' \in [Executors -> Nat]
<1>1. CASE ~h.counts
  <2>1. \A u \in Threads : \A d \in Executors : InLane(frames'[u], d) <=> InLane(frames[u], d)
    BY <1>1 DEF EntersLane
  <2>2. running' = running
    BY <1>1 DEF EntersLane
  <2>3. Lanes'
    BY <2>1, <2>2, LanesSame
  <2> QED
    BY <2>2, <2>3 DEF Typed
<1>2. CASE h.counts
  <2>0. running' = [running EXCEPT ![e] = @ + 1] /\ running \in [Executors -> Nat]
    BY <1>2 DEF Typed, EntersLane
  <2>1. LaneCounted(e)' /\ running'[e] \in Nat
    <3>1. LaneCounted(e) /\ running'[e] = running[e] + 1 /\ HasLane(e)
      BY <1>2, <2>0 DEF Lanes, EntersLane
    <3>2. ~InLane(frames[t], e) /\ InLane(frames'[t], e)
      BY <1>2 DEF EntersLane
    <3>3. \A u \in Threads \ {t} : InLane(frames'[u], e) <=> InLane(frames[u], e)
      BY DEF EntersLane
    <3> QED
      BY <3>1, <3>2, <3>3, LaneTaken
  <2>2. ASSUME NEW d \in Executors, d # e PROVE LaneCounted(d)' /\ running'[d] = running[d]
    <3>1. LaneCounted(d) /\ running'[d] = running[d]
      BY <2>0, <2>2 DEF Lanes
    <3>2. \A u \in Threads : InLane(frames'[u], d) <=> InLane(frames[u], d)
      BY <2>2 DEF EntersLane
    <3> QED
      BY <3>1, <3>2, LaneSame
  <2>3. Lanes'
    BY <2>1, <2>2 DEF Lanes
  <2> QED
    BY <2>0, <2>1, <2>2, <2>3
<1> QED
  BY <1>1, <1>2

(* What OwnerTakes and WorkerTakes do when they find a task. *)
Takes(t, x, h, k, q) ==
    /\ frames[t] # <<>> /\ Top(t).kind \in {"own", "worker"} /\ Top(t).at = "take"
    /\ k \in FrameSet /\ Resumes(Top(t), k)
    /\ h \in FrameSet /\ StartsAs(h, x) /\ h.permit = Top(t).permit
    /\ h.counts <=> Outside(Rest(t), Home[x[1]])
    /\ frames' = [frames EXCEPT ![t] = <<h>> \o (<<k>> \o Rest(t))]
    /\ Waits(x) /\ q \in Seq(Tasks) /\ queue' = [queue EXCEPT ![Home[x[1]]] = q] /\ Distinct(q)
    /\ \A y \in Tasks : In(q, y) <=> y # x /\ In(queue[Home[x[1]]], y)
    /\ h.counts => HasLane(Home[x[1]])
    /\ running' = IF h.counts THEN [running EXCEPT ![Home[x[1]]] = @ + 1] ELSE running
    /\ UNCHANGED <<permits, done, opened, ready, waiting>>

LEMMA TaskTaken ==
    ASSUME IInv, NEW t \in Threads, NEW x, NEW h, NEW k, NEW q, Takes(t, x, h, k, q)
    PROVE  IInv'
<1> DEFINE m == Rest(t)
           f == Top(t)
           s == frames[t]
           r == frames'[t]
           n == <<k>> \o m
           e == Home[x[1]]
<1>1. Typed /\ Stacks /\ Permits /\ Lanes /\ TaskInv
  BY DEF IInv
<1>2. s # <<>> /\ f.kind \in {"own", "worker"} /\ f.at = "take"
  BY DEF Takes
<1>3. k \in FrameSet /\ Resumes(f, k) /\ h \in FrameSet /\ StartsAs(h, x) /\ h.permit = f.permit
  BY DEF Takes
<1>4. h.counts <=> Outside(m, e)
  BY DEF Takes
<1>5. Waits(x) /\ UNCHANGED <<permits, done, opened, ready, waiting>>
  BY DEF Takes
<1>6. frames' = [frames EXCEPT ![t] = <<h>> \o n]
  BY DEF Takes
<1>7. /\ q \in Seq(Tasks) /\ queue' = [queue EXCEPT ![Home[x[1]]] = q] /\ Distinct(q)
      /\ \A y \in Tasks : In(q, y) <=> y # x /\ In(queue[Home[x[1]]], y)
  BY DEF Takes
<1>8. /\ h.counts => HasLane(e)
      /\ running' = IF h.counts THEN [running EXCEPT ![e] = @ + 1] ELSE running
  BY DEF Takes
<1>9. m \in Seq(FrameSet) /\ f \in FrameSet /\ StackOK(m) /\ PushOK(m, f)
  BY <1>1, <1>2, TopOf
<1>10. r = <<h>> \o n /\ \A u \in Threads \ {t} : frames'[u] = frames[u]
  BY <1>1, <1>6 DEF Typed
<1>11. frames' = [u \in Threads |-> frames'[u]] /\ DOMAIN frames' = Threads
  BY <1>1, <1>6 DEF Typed
<1>12. x \in Tasks /\ e \in Executors /\ h.kind = "task" /\ h.at = "settle" /\ TaskOf(h) = x
  BY <1>3, TaskParts DEF StartsAs
<1>13. h.batch = x[1]
  BY <1>12 DEF TaskOf
<1>14. k.kind = f.kind /\ k.batch = f.batch /\ k.task = f.task /\ k.pending = f.pending /\ ~k.permit
  BY <1>3 DEF Resumes
<1>v. /\ Held(s) <=> f.permit \/ Held(m)
      /\ \A d : InLane(s, d) <=> (Counts(f, d) /\ f.at # "permit") \/ InLane(m, d)
      /\ \A y : Runs(s, y) <=> (f.kind = "task" /\ f.at = "settle" /\ TaskOf(f) = y) \/ Runs(m, y)
      /\ \A b : OwnsBatch(s, b) <=> (f.kind = "own" /\ f.batch = b) \/ OwnsBatch(m, b)
      /\ Serves(s) <=> f.kind = "worker" \/ Serves(m)
      /\ Bottom(s) = IF m = <<>> THEN f ELSE Bottom(m)
  BY <1>1, <1>2, StackView
<1>n. n \in Seq(FrameSet) /\ n # <<>>
  BY <1>3, <1>9, SeqPush
<1> HIDE DEF m, f, s, r, n, e
<1>w. /\ Held(n) <=> k.permit \/ Held(m)
      /\ \A d : InLane(n, d) <=> (Counts(k, d) /\ k.at # "permit") \/ InLane(m, d)
      /\ \A y : Runs(n, y) <=> (k.kind = "task" /\ k.at = "settle" /\ TaskOf(k) = y) \/ Runs(m, y)
      /\ \A b : OwnsBatch(n, b) <=> (k.kind = "own" /\ k.batch = b) \/ OwnsBatch(m, b)
      /\ Serves(n) <=> k.kind = "worker" \/ Serves(m)
      /\ Bottom(n) = IF m = <<>> THEN k ELSE Bottom(m)
  BY <1>3, <1>9, PushView DEF n
<1>x. /\ r \in Seq(FrameSet) /\ r # <<>> /\ (Held(r) <=> h.permit \/ Held(n))
      /\ \A d : InLane(r, d) <=> (Counts(h, d) /\ h.at # "permit") \/ InLane(n, d)
      /\ \A y : Runs(r, y) <=> (h.kind = "task" /\ h.at = "settle" /\ TaskOf(h) = y) \/ Runs(n, y)
      /\ \A b : OwnsBatch(r, b) <=> (h.kind = "own" /\ h.batch = b) \/ OwnsBatch(n, b)
      /\ Serves(r) <=> h.kind = "worker" \/ Serves(n)
      /\ Bottom(r) = IF n = <<>> THEN h ELSE Bottom(n)
  BY <1>3, <1>10, <1>n, PushView
<1>15. f.kind # "task" /\ k.kind # "task"
  BY <1>2, <1>14
<1>16. ~Runs(s, x)
  BY <1>1, <1>5, <1>12 DEF TaskInv, Apart, s
<1>17. ~Runs(m, x)
  BY <1>15, <1>16, <1>v
<1>18. StackOK(r)
  BY <1>2, <1>3, <1>4, <1>9, <1>10, <1>17, StartedStack DEF n, e
<1>19. Held(r) <=> Held(s)
  BY <1>3, <1>14, <1>v, <1>w, <1>x
<1>20. \A d : InLane(r, d) <=> (h.counts /\ d = e) \/ InLane(s, d)
  BY <1>12, <1>13, <1>15, <1>v, <1>w, <1>x DEF Counts, e
<1>21. \A y : Runs(r, y) <=> y = x \/ Runs(s, y)
  BY <1>12, <1>15, <1>v, <1>w, <1>x
<1>22. \A b : OwnsBatch(r, b) <=> OwnsBatch(s, b)
  BY <1>12, <1>14, <1>v, <1>w, <1>x
<1>23. Serves(r) => Serves(s)
  BY <1>12, <1>14, <1>v, <1>w, <1>x
<1>24. SameOwners(s, r)
  <2>1. Bottom(r) = IF m = <<>> THEN k ELSE Bottom(m)
    BY <1>n, <1>w, <1>x
  <2>2. ASSUME NEW b \in Pools
        PROVE  /\ OwnsPool(r, b) <=> OwnsPool(s, b)
               /\ Bottom(r).pending = Bottom(s).pending /\ Bottom(r).task = Bottom(s).task
    <3>1. CASE m = <<>>
      BY <1>2, <1>14, <1>v, <1>x, <2>1, <3>1 DEF OwnsPool
    <3>2. CASE m # <<>>
      BY <1>2, <1>v, <1>x, <2>1, <3>2 DEF OwnsPool
    <3> QED
      BY <3>1, <3>2
  <2> QED
    BY <1>22, <2>2 DEF SameOwners
<1>25. /\ frames' \in [Threads -> Seq(FrameSet)] /\ Stacks'
       /\ \A u \in Threads \ {t} :
            /\ Held(frames'[u]) <=> Held(frames[u])
            /\ \A d \in Executors : InLane(frames'[u], d) <=> InLane(frames[u], d)
            /\ SameRuns(frames[u], frames'[u]) /\ SameOwners(frames[u], frames'[u])
  <2>1. opened \subseteq opened' /\ r \in Seq(FrameSet) /\ \A b \in Batches : OwnsBatch(r, b) => b \in opened'
    BY <1>1, <1>5, <1>22, <1>x DEF Stacks, s
  <2> QED
    BY <1>1, <1>10, <1>11, <1>18, <1>23, <2>1, Others DEF r, s
<1>26. Permits'
  BY <1>1, <1>5, <1>19, <1>25, PermitsSame DEF r, s
<1>27. Lanes' /\ running' \in [Executors -> Nat]
  <2>1. h.counts => ~InLane(s, e)
    <3>1. h.counts => ~InLane(m, e)
      BY <1>4 DEF Outside, InLane, Counts
    <3> QED
      BY <1>15, <1>v, <3>1 DEF Counts
  <2>2. \A d \in Executors : InLane(r, d) <=> (h.counts /\ d = e) \/ InLane(s, d)
    BY <1>20
  <2>3. EntersLane(t, e, h)
    BY <1>8, <1>25, <2>1, <2>2 DEF EntersLane, r, s
  <2> QED
    BY <1>1, <1>12, <2>3, LaneEntered
<1>28. TaskInv'
  <2>1. UNCHANGED <<done, opened>>
    BY <1>5
  <2>2. \A u \in Threads : SameOwners(frames[u], frames'[u])
    BY <1>24, <1>25 DEF r, s
  <2>3. \A y \in Tasks : Runs(frames'[t], y) <=> y = x \/ Runs(frames[t], y)
    BY <1>21 DEF r, s
  <2> QED
    BY <1>1, <1>5, <1>7, <1>12, <1>25, <2>1, <2>2, <2>3, TaskStarts
<1>29. Typed'
  <2>1. queue' \in [Executors -> Seq(Tasks)]
    BY <1>1, <1>7, <1>12 DEF Typed
  <2> QED
    BY <1>1, <1>5, <1>25, <1>27, <2>1 DEF Typed
<1> QED
  BY <1>25, <1>26, <1>27, <1>28, <1>29 DEF IInv

LEMMA Largest ==
    ASSUME NEW N \in Nat, NEW S \in SUBSET (1 .. N), S # {}
    PROVE  \E i \in S : \A j \in S : j <= i
<1> DEFINE R == {N - i : i \in S}
<1>1. R \in SUBSET Nat /\ R # {}
  <2>1. \A i \in S : N - i \in Nat
    OBVIOUS
  <2>2. PICK i \in S : TRUE
    OBVIOUS
  <2>3. N - i \in R
    OBVIOUS
  <2>4. \A y \in R : y \in Nat
    BY <2>1
  <2> HIDE DEF R
  <2> QED
    BY <2>3, <2>4
<1>2. PICK x \in R : \A y \in R : <<y, x>> \notin OpToRel(<, Nat)
  <2> HIDE DEF R
  <2> QED
    BY <1>1, NatLessThanWellFounded, WFMin
<1>3. \A y \in R : ~(y < x)
  BY <1>1, <1>2 DEF OpToRel
<1>4. PICK i \in S : x = N - i
  OBVIOUS
<1>5. \A j \in S : ~(N - j < N - i)
  BY <1>3, <1>4
<1> QED
  BY <1>5

LEMMA TailIn ==
    ASSUME NEW S, NEW q \in Seq(S), q # <<>>, Distinct(q)
    PROVE  /\ Head(q) \in S /\ In(q, Head(q)) /\ Tail(q) \in Seq(S) /\ Distinct(Tail(q))
           /\ \A y : In(Tail(q), y) <=> y # Head(q) /\ In(q, y)
<1> DEFINE r == Tail(q)
           x == Head(q)
<1>1. /\ x \in S /\ r \in Seq(S) /\ Len(q) \in Nat /\ Len(q) > 0 /\ x = q[1]
      /\ Len(r) = Len(q) - 1 /\ \A i \in 1 .. Len(q) - 1 : r[i] = q[i + 1]
  OBVIOUS
<1> HIDE DEF r, x
<1>2. \A i \in 1 .. Len(r) : i + 1 \in 1 .. Len(q) /\ r[i] = q[i + 1] /\ i + 1 # 1
  BY <1>1
<1>3. 1 \in 1 .. Len(q)
  BY <1>1
<1>4. \A y : In(r, y) => y # x /\ In(q, y)
  BY <1>1, <1>2, <1>3 DEF In, Distinct
<1>5. ASSUME NEW y, y # x, In(q, y) PROVE In(r, y)
  <2>1. PICK i \in 1 .. Len(q) : q[i] = y
    BY <1>5 DEF In
  <2>2. i # 1
    BY <1>1, <1>5, <2>1
  <2>3. i - 1 \in 1 .. Len(r) /\ (i - 1) + 1 = i
    BY <1>1, <2>2
  <2>4. r[i - 1] = q[(i - 1) + 1]
    BY <1>2, <2>3
  <2>5. r[i - 1] = y
    BY <2>1, <2>3, <2>4
  <2> QED
    BY <2>3, <2>5 DEF In
<1>6. Distinct(r)
  <2> SUFFICES ASSUME NEW i \in 1 .. Len(r), NEW j \in 1 .. Len(r), r[i] = r[j] PROVE i = j
    BY DEF Distinct
  <2>1. i + 1 = j + 1
    BY <1>2 DEF Distinct
  <2> QED
    BY <2>1
<1>7. In(q, x)
  BY <1>1, <1>3 DEF In
<1> QED
  BY <1>1, <1>4, <1>5, <1>6, <1>7 DEF r, x

LEMMA PairPush ==
    ASSUME NEW F, NEW h \in F, NEW k \in F, NEW m \in Seq(F)
    PROVE  <<h, k>> \o m = <<h>> \o (<<k>> \o m)
<1>1. <<h, k>> = <<h>> \o <<k>> /\ <<h>> \in Seq(F) /\ <<k>> \in Seq(F)
  <2> DEFINE a == <<h, k>>
             b == <<h>> \o <<k>>
  <2>1. <<h>> \in Seq(F) /\ <<k>> \in Seq(F) /\ Len(<<k>>) = 1 /\ <<k>>[1] = k
    OBVIOUS
  <2>2. b \in Seq(F) /\ Len(b) = 2 /\ b[1] = h /\ b[2] = k
    <3>1. /\ b \in Seq(F) /\ Len(b) = Len(<<k>>) + 1 /\ b[1] = h
          /\ \A i \in 1 .. Len(<<k>>) : b[i + 1] = <<k>>[i]
      BY <2>1, SeqPush
    <3> HIDE DEF b
    <3>2. 1 \in 1 .. Len(<<k>>)
      BY <2>1
    <3>3. b[1 + 1] = <<k>>[1]
      BY <3>1, <3>2
    <3> QED
      BY <2>1, <3>1, <3>3
  <2>3. a \in Seq(F) /\ Len(a) = 2 /\ a[1] = h /\ a[2] = k
    OBVIOUS
  <2> HIDE DEF a, b
  <2>4. \A i \in 1 .. Len(a) : i = 1 \/ i = 2
    BY <2>3
  <2>5. \A i \in 1 .. Len(a) : a[i] = b[i]
    BY <2>2, <2>3, <2>4
  <2>6. a = b
    BY <2>2, <2>3, <2>5, SeqEqual
  <2> QED
    BY <2>1, <2>6 DEF a, b
<1> QED
  BY <1>1, ConcatAssociative

(* The frames that Start makes. *)
Made(b, n, c, p) == [Frame("task", b, n, "settle") EXCEPT !.counts = c, !.permit = p]

LEMMA MadeFrame ==
    ASSUME NEW b \in Batches, NEW n \in Nat, NEW c \in BOOLEAN, NEW p \in BOOLEAN
    PROVE  Made(b, n, c, p)
             = [kind |-> "task", batch |-> b, task |-> n, at |-> "settle",
                counts |-> c, permit |-> p, pending |-> <<>>, draining |-> FALSE]
<1> DEFINE r == Frame("task", b, n, "settle")
<1>1. <<>> \in Seq(Nat)
  BY EmptySeq
<1>2. /\ r \in FrameSet /\ r.kind = "task" /\ r.batch = b /\ r.task = n /\ r.at = "settle"
      /\ r.pending = <<>> /\ r.draining = FALSE
  BY <1>1 DEF Frame, FrameSet
<1> HIDE DEF r
<1> DEFINE h == [[r EXCEPT !.counts = c] EXCEPT !.permit = p]
<1>3. /\ h \in FrameSet /\ h.kind = "task" /\ h.batch = b /\ h.task = n /\ h.at = "settle"
      /\ h.pending = <<>> /\ h.draining = FALSE /\ h.counts = c /\ h.permit = p
  BY <1>2 DEF FrameSet
<1> HIDE DEF h
<1>4. h = [kind |-> "task", batch |-> b, task |-> n, at |-> "settle",
           counts |-> c, permit |-> p, pending |-> <<>>, draining |-> FALSE]
  BY <1>3 DEF FrameSet
<1>5. [r EXCEPT !.counts = c, !.permit = p] = h
  BY DEF h
<1> QED
  BY <1>4, <1>5 DEF r, Made

LEMMA TaskFrame ==
    ASSUME NEW x \in Tasks, NEW c \in BOOLEAN, NEW p \in BOOLEAN, NEW h,
           h = [kind |-> "task", batch |-> x[1], task |-> x[2], at |-> "settle",
                counts |-> c, permit |-> p, pending |-> <<>>, draining |-> FALSE]
    PROVE  h \in FrameSet /\ StartsAs(h, x) /\ h.permit = p /\ h.counts = c
<1> DEFINE b == x[1]
           n == x[2]
<1>1. b \in Batches /\ n \in Nat /\ x = <<b, n>>
  BY TaskParts
<1> HIDE DEF b, n
<1>2. h = [kind |-> "task", batch |-> b, task |-> n, at |-> "settle",
           counts |-> c, permit |-> p, pending |-> <<>>, draining |-> FALSE]
  BY DEF b, n
<1>3. <<>> \in Seq(Nat)
  BY EmptySeq
<1>4. h \in FrameSet
  BY <1>1, <1>2, <1>3 DEF FrameSet
<1>5. h.kind = "task" /\ h.at = "settle" /\ h.batch = b /\ h.task = n /\ h.permit = p /\ h.counts = c
  BY <1>2
<1>6. StartsAs(h, x)
  BY <1>1, <1>5 DEF StartsAs, TaskOf
<1> QED
  BY <1>4, <1>5, <1>6

LEMMA ResumedFrame ==
    ASSUME NEW f \in FrameSet, NEW a, a = (IF f.kind = "own" THEN "loop" ELSE "look"),
           NEW k, k = [[f EXCEPT !.at = a] EXCEPT !.permit = FALSE]
    PROVE  k \in FrameSet /\ Resumes(f, k)
<1>6. /\ k \in FrameSet /\ k.at = a /\ k.permit = FALSE /\ k.kind = f.kind /\ k.batch = f.batch
      /\ k.task = f.task /\ k.pending = f.pending
  BY DEF FrameSet
<1> QED
  BY <1>6 DEF Resumes

LEMMA StartPushes ==
    ASSUME Typed, Stacks, NEW t \in Threads, frames[t] # <<>>, NEW x \in Tasks, NEW c \in BOOLEAN,
           NEW a, a = (IF Top(t).kind = "own" THEN "loop" ELSE "look"),
           Start(t, x, c, [Top(t) EXCEPT !.at = a])
    PROVE  \E h, k :
             /\ h \in FrameSet /\ StartsAs(h, x) /\ h.permit = Top(t).permit /\ h.counts = c
             /\ k \in FrameSet /\ Resumes(Top(t), k)
             /\ frames' = [frames EXCEPT ![t] = <<h>> \o (<<k>> \o Rest(t))]
<1> DEFINE f == Top(t)
           h == [kind |-> "task", batch |-> x[1], task |-> x[2], at |-> "settle",
                 counts |-> c, permit |-> f.permit, pending |-> <<>>, draining |-> FALSE]
           k == [[f EXCEPT !.at = a] EXCEPT !.permit = FALSE]
           h0 == [Frame("task", x[1], x[2], "settle") EXCEPT !.counts = c, !.permit = f.permit]
<1>1. f \in FrameSet /\ Rest(t) \in Seq(FrameSet) /\ f.permit \in BOOLEAN
  BY TopOf DEF FrameSet
<1>2. h = h0
  <2> DEFINE b == x[1]
             n == x[2]
             p == f.permit
  <2>1. b \in Batches /\ n \in Nat /\ p \in BOOLEAN
    BY <1>1, TaskParts
  <2> HIDE DEF b, n, p
  <2>2. Made(b, n, c, p)
          = [kind |-> "task", batch |-> b, task |-> n, at |-> "settle",
             counts |-> c, permit |-> p, pending |-> <<>>, draining |-> FALSE]
    BY <2>1, MadeFrame
  <2>3. h0 = Made(b, n, c, p)
    BY DEF Made, b, n, p
  <2> QED
    BY <2>2, <2>3 DEF b, n, p
<1>3. frames' = [frames EXCEPT ![t] = <<h0, k>> \o Rest(t)]
  BY DEF Start, Rest
<1>4. h \in FrameSet /\ StartsAs(h, x) /\ h.permit = f.permit /\ h.counts = c
  <2> DEFINE p == f.permit
  <2>1. p \in BOOLEAN
    BY <1>1
  <2>2. h = [kind |-> "task", batch |-> x[1], task |-> x[2], at |-> "settle",
             counts |-> c, permit |-> p, pending |-> <<>>, draining |-> FALSE]
    OBVIOUS
  <2> HIDE DEF p, h
  <2> QED
    BY <2>1, <2>2, TaskFrame DEF p
<1>5. k \in FrameSet /\ Resumes(f, k)
  <2>1. f \in FrameSet /\ a = (IF f.kind = "own" THEN "loop" ELSE "look")
    BY <1>1
  <2> HIDE DEF f
  <2> QED
    BY <2>1, ResumedFrame
<1> HIDE DEF h, k, h0
<1>6. <<h, k>> \o Rest(t) = <<h>> \o (<<k>> \o Rest(t))
  BY <1>1, <1>4, <1>5, PairPush
<1>7. frames' = [frames EXCEPT ![t] = <<h>> \o (<<k>> \o Rest(t))]
  BY <1>2, <1>3, <1>6
<1> QED
  BY <1>4, <1>5, <1>7

LEMMA StepWorkerTakes == ASSUME IInv, NEW w \in Threads, WorkerTakes(w) PROVE IInv'
<1> DEFINE e == ExecutorOf(w)
<1>1. Typed /\ Stacks /\ TaskInv
  BY DEF IInv
<1>2. /\ frames[w] # <<>> /\ Top(w).kind = "worker" /\ Top(w).at = "take"
      /\ UNCHANGED <<permits, done, opened, ready, waiting>>
  BY DEF WorkerTakes, At
<1>3. Rest(w) = <<>> /\ Top(w).permit /\ e \in Executors
  BY <1>1, <1>2, AsksAtBottom, WorkerExecutor
<1>4. CASE ~(queue[e] # <<>> /\ HasLane(e))
  <2>1. Goto(w, "drop") /\ UNCHANGED <<queue, running>>
    BY <1>4 DEF WorkerTakes
  <2>2. ready' \in [Executors -> SUBSET Threads] /\ waiting' \subseteq Threads
    BY <1>1, <1>2 DEF Typed
  <2> QED
    BY <1>2, <1>3, <2>1, <2>2, GoesTo
<1>5. CASE queue[e] # <<>> /\ HasLane(e)
  <2> DEFINE x == Head(queue[e])
             q == Tail(queue[e])
  <2>1. /\ queue' = [queue EXCEPT ![e] = q]
        /\ running' = [running EXCEPT ![e] = @ + 1]
        /\ Start(w, x, TRUE, [Top(w) EXCEPT !.at = "look"])
    BY <1>5 DEF WorkerTakes
  <2>2. queue[e] \in Seq(Tasks) /\ Distinct(queue[e])
    BY <1>1, <1>3 DEF Typed, TaskInv, Queues
  <2>3. /\ x \in Tasks /\ In(queue[e], x) /\ q \in Seq(Tasks) /\ Distinct(q)
        /\ \A y : In(q, y) <=> y # x /\ In(queue[e], y)
    <3> DEFINE p == queue[e]
    <3>1. p \in Seq(Tasks) /\ Distinct(p) /\ p # <<>>
      BY <1>5, <2>2
    <3> HIDE DEF p
    <3>2. /\ Head(p) \in Tasks /\ In(p, Head(p)) /\ Tail(p) \in Seq(Tasks) /\ Distinct(Tail(p))
          /\ \A y : In(Tail(p), y) <=> y # Head(p) /\ In(p, y)
      BY <3>1, TailIn
    <3> QED
      BY <3>2 DEF p
  <2> HIDE DEF x, q, e
  <2>4. Home[x[1]] = e
    BY <1>1, <1>3, <2>3 DEF TaskInv, Queues
  <2>5. PICK h, k :
             /\ h \in FrameSet /\ StartsAs(h, x) /\ h.permit = Top(w).permit /\ h.counts = TRUE
             /\ k \in FrameSet /\ Resumes(Top(w), k)
             /\ frames' = [frames EXCEPT ![w] = <<h>> \o (<<k>> \o Rest(w))]
    <3>1. "look" = (IF Top(w).kind = "own" THEN "loop" ELSE "look")
      BY <1>2
    <3> DEFINE a == "look"
    <3>2. a = (IF Top(w).kind = "own" THEN "loop" ELSE "look") /\ Start(w, x, TRUE, [Top(w) EXCEPT !.at = a])
      BY <2>1, <3>1
    <3> HIDE DEF a
    <3> QED
      BY <1>1, <1>2, <2>3, <3>2, StartPushes
  <2>6. h.counts /\ Outside(Rest(w), Home[x[1]])
    BY <1>3, <2>5 DEF Outside
  <2>7. Waits(x)
    BY <2>3, <2>4 DEF Waits
  <2>8. running' = IF h.counts THEN [running EXCEPT ![Home[x[1]]] = @ + 1] ELSE running
    BY <2>1, <2>4, <2>6
  <2>9. HasLane(Home[x[1]])
    BY <1>5, <2>4
  <2>10. Takes(w, x, h, k, q)
    BY <1>2, <2>1, <2>3, <2>4, <2>5, <2>6, <2>7, <2>8, <2>9 DEF Takes
  <2> QED
    BY <2>10, TaskTaken
<1> QED
  BY <1>4, <1>5

LEMMA OutsideExecutor ==
    ASSUME Typed, Stacks, NEW t \in Threads, frames[t] # <<>>, Top(t).kind # "task", NEW e
    PROVE  InsideExecutor(t, e) <=> ~Outside(Rest(t), e)
<1>1. /\ Rest(t) \in Seq(FrameSet) /\ Top(t) \in FrameSet /\ frames[t] = <<Top(t)>> \o Rest(t)
  BY TopOf
<1>2. Outside(frames[t], e) <=> Outside(Rest(t), e)
  BY <1>1, PushOutside
<1>3. InsideExecutor(t, e) <=> ~Outside(frames[t], e)
  BY DEF InsideExecutor, Outside
<1> QED
  BY <1>2, <1>3

LEMMA LastQueued ==
    ASSUME Typed, TaskInv, NEW b \in Batches, NEW e, e = Home[b], NEW f, f.batch = b,
           NEW i \in Queued(f)
    PROVE  /\ i \in 1 .. Len(queue[e]) /\ queue[e][i] \in Tasks
           /\ Home[queue[e][i][1]] = e /\ Waits(queue[e][i])
           /\ RemoveAt(queue[e], i) \in Seq(Tasks) /\ Distinct(RemoveAt(queue[e], i))
           /\ \A y : In(RemoveAt(queue[e], i), y) <=> y # queue[e][i] /\ In(queue[e], y)
<1> DEFINE p == queue[e]
           x == p[i]
<1>1. e \in Executors /\ p \in Seq(Tasks) /\ Distinct(p) /\ Len(p) \in Nat
  BY BatchesAssumption DEF Typed, TaskInv, Queues
<1>2. Queued(f) \in SUBSET (1 .. Len(p))
  BY DEF Queued
<1>4. i \in 1 .. Len(p)
  BY <1>2
<1>5. x \in Tasks
  BY <1>1, <1>4
<1>6. In(p, x)
  BY <1>4 DEF In
<1>7. Home[x[1]] = e
  BY <1>1, <1>5, <1>6 DEF TaskInv, Queues
<1>8. Waits(x)
  BY <1>6, <1>7 DEF Waits
<1>9. /\ RemoveAt(p, i) \in Seq(Tasks)
      /\ \A y : In(RemoveAt(p, i), y) => In(p, y)
      /\ \A y : In(p, y) => y = p[i] \/ In(RemoveAt(p, i), y)
      /\ Distinct(RemoveAt(p, i)) /\ ~In(RemoveAt(p, i), p[i])
  <2> HIDE DEF p
  <2> QED
    BY <1>1, <1>4, RemovedIn
<1> QED
  BY <1>4, <1>5, <1>7, <1>8, <1>9

LEMMA LastExists ==
    ASSUME Typed, NEW b \in Batches, NEW f, f.batch = b, NEW S, S = Queued(f), S # {}
    PROVE  (CHOOSE i \in S : \A j \in S : j <= i) \in S
<1> DEFINE p == queue[Home[b]]
<1>1. p \in Seq(Tasks) /\ Len(p) \in Nat
  BY BatchesAssumption DEF Typed
<1>2. S \in SUBSET (1 .. Len(p))
  BY DEF Queued
<1> HIDE DEF p
<1>3. \E k \in S : \A j \in S : j <= k
  BY <1>1, <1>2, Largest
<1> QED
  BY <1>3

LEMMA StepOwnerTakes == ASSUME IInv, NEW t \in Threads, OwnerTakes(t) PROVE IInv'
<1> DEFINE b == Top(t).batch
           e == Home[b]
           own == Queued(Top(t))
           last == CHOOSE i \in own : \A j \in own : j <= i
           nested == InsideExecutor(t, e)
           x == queue[e][last]
           q == RemoveAt(queue[e], last)
<1>1. Typed /\ Stacks /\ TaskInv
  BY DEF IInv
<1>2. /\ frames[t] # <<>> /\ Top(t).kind = "own" /\ Top(t).at = "take"
      /\ UNCHANGED <<permits, done, opened, ready, waiting>>
  BY DEF OwnerTakes, At
<1>3. b \in Batches /\ e \in Executors
  BY <1>1, <1>2, TopOf, BatchesAssumption DEF FrameOK
<1>4. CASE ~(own # {} /\ (nested \/ HasLane(e)))
  <2>1. Goto(t, IF Top(t).permit THEN "drop" ELSE "sleep") /\ UNCHANGED <<queue, running>>
    BY <1>4 DEF OwnerTakes
  <2>2. ready' \in [Executors -> SUBSET Threads] /\ waiting' \subseteq Threads
    BY <1>1, <1>2 DEF Typed
  <2>3. /\ Rest(t) = <<>> => Top(t).permit
        /\ Rest(t) # <<>> => ~Top(t).permit
    BY <1>1, <1>2, OwnerInside
  <2>4. CASE Rest(t) = <<>>
    BY <1>2, <2>1, <2>2, <2>3, <2>4, GoesTo
  <2>5. CASE Rest(t) # <<>>
    BY <1>2, <2>1, <2>2, <2>3, <2>5, GoesTo
  <2> QED
    BY <2>4, <2>5
<1>5. CASE own # {} /\ (nested \/ HasLane(e))
  <2>1. /\ queue' = [queue EXCEPT ![e] = RemoveAt(@, last)]
        /\ running' = IF nested THEN running ELSE [running EXCEPT ![e] = @ + 1]
        /\ Start(t, x, ~nested, [Top(t) EXCEPT !.at = "loop"])
    BY <1>5 DEF OwnerTakes
  <2>2. queue' = [queue EXCEPT ![e] = q]
    BY <1>1, <1>3, <2>1 DEF Typed
  <2>3. /\ x \in Tasks /\ Home[x[1]] = e /\ Waits(x)
        /\ q \in Seq(Tasks) /\ Distinct(q)
        /\ \A y : In(q, y) <=> y # x /\ In(queue[e], y)
    <3>1. e = Home[b] /\ Top(t).batch = b /\ own # {} /\ own = Queued(Top(t))
      BY <1>5
    <3>2. last \in own
      <4> HIDE DEF b, e, own
      <4> QED
        BY <1>1, <1>3, <3>1, LastExists
    <3> HIDE DEF last, b, e, own
    <3>3. last \in Queued(Top(t))
      BY <3>1, <3>2
    <3>4. /\ queue[e][last] \in Tasks
          /\ Home[queue[e][last][1]] = e /\ Waits(queue[e][last])
          /\ RemoveAt(queue[e], last) \in Seq(Tasks) /\ Distinct(RemoveAt(queue[e], last))
          /\ \A y : In(RemoveAt(queue[e], last), y) <=> y # queue[e][last] /\ In(queue[e], y)
      BY <1>1, <1>3, <3>1, <3>3, LastQueued
    <3> QED
      BY <3>4
  <2>4. nested <=> ~Outside(Rest(t), e)
    BY <1>1, <1>2, OutsideExecutor
  <2>5. nested \in BOOLEAN
    BY DEF InsideExecutor
  <2> HIDE DEF x, q, last
  <2>6. PICK h, k :
             /\ h \in FrameSet /\ StartsAs(h, x) /\ h.permit = Top(t).permit /\ h.counts = (~nested)
             /\ k \in FrameSet /\ Resumes(Top(t), k)
             /\ frames' = [frames EXCEPT ![t] = <<h>> \o (<<k>> \o Rest(t))]
    <3> DEFINE a == "loop"
               c == ~nested
    <3>1. /\ a = (IF Top(t).kind = "own" THEN "loop" ELSE "look") /\ Start(t, x, c, [Top(t) EXCEPT !.at = a])
          /\ c \in BOOLEAN
      BY <1>2, <2>1
    <3> HIDE DEF a, c
    <3>2. \E h, k :
             /\ h \in FrameSet /\ StartsAs(h, x) /\ h.permit = Top(t).permit /\ h.counts = c
             /\ k \in FrameSet /\ Resumes(Top(t), k)
             /\ frames' = [frames EXCEPT ![t] = <<h>> \o (<<k>> \o Rest(t))]
      BY <1>1, <1>2, <2>3, <3>1, StartPushes
    <3> QED
      BY <3>2 DEF c
  <2>7. h.counts <=> ~nested
    BY <2>6
  <2>8. h.counts <=> Outside(Rest(t), Home[x[1]])
    BY <2>3, <2>4, <2>7
  <2>9. h.counts => HasLane(Home[x[1]])
    BY <1>5, <2>3, <2>7
  <2>10. running' = IF h.counts THEN [running EXCEPT ![Home[x[1]]] = @ + 1] ELSE running
    BY <2>1, <2>3, <2>7
  <2>11. queue' = [queue EXCEPT ![Home[x[1]]] = q] /\ \A y \in Tasks : In(q, y) <=> y # x /\ In(queue[Home[x[1]]], y)
    BY <2>2, <2>3
  <2> HIDE DEF nested, e, b, own
  <2>12. Takes(t, x, h, k, q)
    BY <1>2, <2>3, <2>6, <2>8, <2>9, <2>10, <2>11 DEF Takes
  <2> QED
    BY <2>12, TaskTaken
<1> QED
  BY <1>4, <1>5

-----------------------------------------------------------------------------
(* Submitting a batch. *)
LEMMA JoinedAt ==
    ASSUME NEW S, NEW p \in Seq(S), NEW r \in Seq(S), NEW q, q = p \o r
    PROVE  /\ q \in Seq(S) /\ Len(q) = Len(p) + Len(r) /\ Len(p) \in Nat /\ Len(r) \in Nat
           /\ \A i \in 1 .. Len(p) : i \in 1 .. Len(q) /\ q[i] = p[i]
           /\ \A i \in 1 .. Len(r) : Len(p) + i \in 1 .. Len(q) /\ q[Len(p) + i] = r[i]
           /\ \A i \in 1 .. Len(q) :
                \/ i \in 1 .. Len(p) /\ q[i] = p[i]
                \/ i - Len(p) \in 1 .. Len(r) /\ q[i] = r[i - Len(p)]
<1>1. Len(p) \in Nat /\ Len(r) \in Nat
  OBVIOUS
<1>2. q \in Seq(S) /\ Len(q) = Len(p) + Len(r)
  OBVIOUS
<1>3. \A i \in 1 .. Len(p) + Len(r) : q[i] = IF i <= Len(p) THEN p[i] ELSE r[i - Len(p)]
  OBVIOUS
<1> DEFINE l == Len(p)
           n == Len(r)
<1> HIDE DEF l, n
<1>4. l \in Nat /\ n \in Nat /\ Len(q) = l + n /\ l = Len(p) /\ n = Len(r)
  BY <1>1, <1>2 DEF l, n
<1>5. \A i \in 1 .. l + n : q[i] = IF i <= l THEN p[i] ELSE r[i - l]
  BY <1>3 DEF l, n
<1>6. \A i \in 1 .. l : i \in 1 .. l + n /\ q[i] = p[i]
  BY <1>4, <1>5
<1>7. ASSUME NEW i \in 1 .. n PROVE l + i \in 1 .. l + n /\ q[l + i] = r[i]
  <2>1. l + i \in 1 .. l + n /\ ~(l + i <= l) /\ (l + i) - l = i
    BY <1>4
  <2> QED
    BY <1>5, <2>1
<1>8. ASSUME NEW i \in 1 .. l + n
      PROVE  \/ i \in 1 .. l /\ q[i] = p[i]
             \/ i - l \in 1 .. n /\ q[i] = r[i - l]
  BY <1>4, <1>5
<1> QED
  BY <1>1, <1>2, <1>4, <1>6, <1>7, <1>8

LEMMA Joined ==
    ASSUME NEW S, NEW p \in Seq(S), NEW r \in Seq(S), NEW q, q = p \o r
    PROVE  /\ q \in Seq(S)
           /\ \A y : In(q, y) <=> In(p, y) \/ In(r, y)
           /\ Distinct(p) /\ Distinct(r) /\ (\A y : In(p, y) => ~In(r, y)) => Distinct(q)
<1>1. /\ q \in Seq(S) /\ Len(q) = Len(p) + Len(r) /\ Len(p) \in Nat /\ Len(r) \in Nat
      /\ \A i \in 1 .. Len(p) : i \in 1 .. Len(q) /\ q[i] = p[i]
      /\ \A i \in 1 .. Len(r) : Len(p) + i \in 1 .. Len(q) /\ q[Len(p) + i] = r[i]
      /\ \A i \in 1 .. Len(q) :
                \/ i \in 1 .. Len(p) /\ q[i] = p[i]
                \/ i - Len(p) \in 1 .. Len(r) /\ q[i] = r[i - Len(p)]
  BY JoinedAt
<1>2. \A y : In(q, y) => In(p, y) \/ In(r, y)
  BY <1>1 DEF In
<1>3. ASSUME NEW y, In(p, y) PROVE In(q, y)
  BY <1>1, <1>3 DEF In
<1>4. ASSUME NEW y, In(r, y) PROVE In(q, y)
  <2>1. PICK i \in 1 .. Len(r) : r[i] = y
    BY <1>4 DEF In
  <2>2. Len(p) + i \in 1 .. Len(q) /\ q[Len(p) + i] = y
    BY <1>1, <2>1
  <2> QED
    BY <2>2 DEF In
<1>5. ASSUME Distinct(p), Distinct(r), \A y : In(p, y) => ~In(r, y),
             NEW i \in 1 .. Len(q), NEW j \in 1 .. Len(q), q[i] = q[j]
      PROVE  i = j
  <2> DEFINE k == i - Len(p)
             m == j - Len(p)
  <2>1. CASE /\ i \in 1 .. Len(p) /\ q[i] = p[i]
             /\ j \in 1 .. Len(p) /\ q[j] = p[j]
    BY <1>5, <2>1 DEF Distinct
  <2>2. CASE /\ i \in 1 .. Len(p) /\ q[i] = p[i]
             /\ m \in 1 .. Len(r) /\ q[j] = r[m]
    <3> HIDE DEF m
    <3>1. In(p, q[i]) /\ In(r, q[i])
      BY <1>5, <2>2 DEF In
    <3> QED
      BY <1>5, <3>1
  <2>3. CASE /\ k \in 1 .. Len(r) /\ q[i] = r[k]
             /\ j \in 1 .. Len(p) /\ q[j] = p[j]
    <3> HIDE DEF k
    <3>1. In(p, q[i]) /\ In(r, q[i])
      BY <1>5, <2>3 DEF In
    <3> QED
      BY <1>5, <3>1
  <2>4. CASE /\ k \in 1 .. Len(r) /\ q[i] = r[k]
             /\ m \in 1 .. Len(r) /\ q[j] = r[m]
    <3>1. k = m
      <4> HIDE DEF k, m
      <4> QED
        BY <1>5, <2>4 DEF Distinct
    <3>2. i \in Int /\ j \in Int /\ Len(p) \in Nat
      BY <1>1
    <3> QED
      BY <3>1, <3>2
  <2>5. \/ i \in 1 .. Len(p) /\ q[i] = p[i]
        \/ k \in 1 .. Len(r) /\ q[i] = r[k]
    BY <1>1
  <2>6. \/ j \in 1 .. Len(p) /\ q[j] = p[j]
        \/ m \in 1 .. Len(r) /\ q[j] = r[m]
    BY <1>1
  <2> HIDE DEF k, m
  <2> QED
    BY <2>1, <2>2, <2>3, <2>4, <2>5, <2>6
<1>6. Distinct(p) /\ Distinct(r) /\ (\A y : In(p, y) => ~In(r, y)) => Distinct(q)
  BY <1>5 DEF Distinct
<1> QED
  BY <1>1, <1>2, <1>3, <1>4, <1>6

LEMMA NumberedSeq ==
    ASSUME NEW S, NEW n \in Nat, NEW r \in [1 .. n -> S]
    PROVE  r \in Seq(S) /\ Len(r) = n
OBVIOUS

LEMMA NumberedTasks ==
    ASSUME NEW b \in Batches, NEW n, n = Size[b], NEW r, Len(r) = n,
           \A i \in 1 .. n : r[i] = <<b, i>> /\ <<b, i>> \in Tasks
    PROVE  /\ Distinct(r)
           /\ \A y \in Tasks : In(r, y) <=> y[1] = b
           /\ \A y : In(r, y) => y \in Tasks
<1>0. \A i, j : <<b, i>>[1] = b /\ <<b, i>>[2] = i /\ (<<b, i>> = <<b, j>> => i = j)
  OBVIOUS
<1>1. Distinct(r)
  <2> SUFFICES ASSUME NEW i \in 1 .. n, NEW j \in 1 .. n, r[i] = r[j] PROVE i = j
    BY Zenon DEF Distinct
  <2>1. <<b, i>> = <<b, j>>
    BY Zenon
  <2> QED
    BY <1>0, <2>1, Zenon
<1>2. ASSUME NEW y, In(r, y) PROVE y \in Tasks /\ y[1] = b
  <2>1. PICK i \in 1 .. n : r[i] = y
    BY <1>2 DEF In
  <2>2. y = <<b, i>> /\ <<b, i>> \in Tasks
    BY <2>1, Zenon
  <2> QED
    BY <1>0, <2>2, Zenon
<1>3. ASSUME NEW y \in Tasks, y[1] = b PROVE In(r, y)
  <2>1. y[2] \in 1 .. n /\ y = <<b, y[2]>>
    BY <1>3, TaskParts
  <2> QED
    BY <2>1 DEF In
<1> QED
  BY <1>1, <1>2, <1>3

Numbered(b) == [i \in 1 .. Size[b] |-> <<b, i>>]

LEMMA BatchTasks ==
    ASSUME NEW b \in Batches
    PROVE  /\ Numbered(b) \in Seq(Tasks) /\ Distinct(Numbered(b))
           /\ \A y \in Tasks : In(Numbered(b), y) <=> y[1] = b
           /\ \A y : In(Numbered(b), y) => y \in Tasks
<1> DEFINE n == Size[b]
           r == Numbered(b)
<1>1. n \in Nat
  BY BatchesAssumption
<1>2. \A i \in 1 .. n : <<b, i>> \in Tasks
  BY DEF Tasks
<1>3. r \in [1 .. n -> Tasks] /\ \A i \in 1 .. n : r[i] = <<b, i>>
  BY <1>2 DEF Numbered
<1> HIDE DEF n, r
<1>4. r \in Seq(Tasks) /\ Len(r) = n
  BY <1>1, <1>3, NumberedSeq
<1>5. /\ Distinct(r)
      /\ \A y \in Tasks : In(r, y) <=> y[1] = b
      /\ \A y : In(r, y) => y \in Tasks
  BY <1>2, <1>3, <1>4, NumberedTasks DEF n
<1> QED
  BY <1>4, <1>5 DEF r

LEMMA BatchQueue ==
    ASSUME Typed, TaskInv, NEW b \in Batches, b \notin opened,
           NEW q, q = queue[Home[b]] \o Numbered(b)
    PROVE  /\ q \in Seq(Tasks) /\ Distinct(q)
           /\ \A y \in Tasks : In(q, y) <=> y[1] = b \/ In(queue[Home[b]], y)
<1> DEFINE p == queue[Home[b]]
           r == Numbered(b)
<1>1. p \in Seq(Tasks) /\ Distinct(p) /\ q = p \o r
  BY BatchesAssumption DEF Typed, TaskInv, Queues
<1>2. /\ r \in Seq(Tasks) /\ Distinct(r)
      /\ \A y \in Tasks : In(r, y) <=> y[1] = b
      /\ \A y : In(r, y) => y \in Tasks
  BY BatchTasks
<1>3. ASSUME NEW y \in Tasks, y[1] = b PROVE ~In(p, y)
  <2>1. Live(y) => y[1] \in opened
    BY DEF TaskInv, Kept
  <2> QED
    BY <1>3, <2>1 DEF Live, Waits
<1> HIDE DEF p, r
<1>4. \A y : In(p, y) => ~In(r, y)
  BY <1>2, <1>3
<1>5. /\ q \in Seq(Tasks)
      /\ \A y : In(q, y) <=> In(p, y) \/ In(r, y)
      /\ Distinct(p) /\ Distinct(r) /\ (\A y : In(p, y) => ~In(r, y)) => Distinct(q)
  BY <1>1, <1>2, Joined
<1> QED
  BY <1>1, <1>2, <1>4, <1>5 DEF p

(* The frame of the loop of a batch owner. *)
IsOwner(f, b) ==
    /\ f \in FrameSet /\ f.kind = "own" /\ f.batch = b /\ f.at = "loop"
    /\ f.permit = FALSE

LEMMA OwnerFrame == ASSUME NEW b \in Batches PROVE IsOwner(Frame("own", b, 0, "loop"), b)
<1>1. <<>> \in Seq(Nat)
  BY EmptySeq
<1> QED
  BY <1>1 DEF Frame, FrameSet, IsOwner

(* What a submission does to the stack of the thread that submits. *)
LEMMA OwnerPushed ==
    ASSUME NEW m \in Seq(FrameSet), StackOK(m), NEW b \in Batches \ Pools, NEW f, IsOwner(f, b),
           m # <<>> => m[1].at = "settle" /\ Len(m) > 1,
           NEW s, s = <<f>> \o m
    PROVE  /\ s \in Seq(FrameSet) /\ StackOK(s)
           /\ Held(s) <=> Held(m)
           /\ \A e : InLane(s, e) <=> InLane(m, e)
           /\ \A x : Runs(s, x) <=> Runs(m, x)
           /\ \A c : OwnsBatch(s, c) <=> c = b \/ OwnsBatch(m, c)
           /\ Serves(s) <=> Serves(m)
           /\ \A c \in Pools : /\ OwnsPool(s, c) <=> OwnsPool(m, c)
                               /\ OwnsPool(m, c) => Bottom(s) = Bottom(m)
<1>0. f \in FrameSet /\ f.kind = "own" /\ f.batch = b /\ f.at = "loop" /\ f.permit = FALSE
  BY DEF IsOwner
<1>1. FrameOK(f)
  BY <1>0 DEF FrameOK
<1>2. PushOK(m, f)
  <2>1. m = <<>> <=> Len(m) = 0
    OBVIOUS
  <2>2. Len(m) # 1
    BY <2>1
  <2> QED
    BY <1>0, <1>1, <2>1, <2>2 DEF PushOK
<1>3. StackOK(s)
  BY <1>0, <1>2, PushStack
<1>4. /\ s \in Seq(FrameSet) /\ s # <<>> /\ Len(s) = Len(m) + 1 /\ Head(s) = f /\ Tail(s) = m
      /\ Held(s) <=> f.permit \/ Held(m)
      /\ \A e : InLane(s, e) <=> (Counts(f, e) /\ f.at # "permit") \/ InLane(m, e)
      /\ \A x : Runs(s, x) <=> (f.kind = "task" /\ f.at = "settle" /\ TaskOf(f) = x) \/ Runs(m, x)
      /\ \A c : OwnsBatch(s, c) <=> (f.kind = "own" /\ f.batch = c) \/ OwnsBatch(m, c)
      /\ Serves(s) <=> f.kind = "worker" \/ Serves(m)
      /\ Bottom(s) = IF m = <<>> THEN f ELSE Bottom(m)
  BY <1>0, PushView
<1>5. \A e : ~Counts(f, e)
  BY <1>0 DEF Counts
<1>6. \A c \in Pools : /\ OwnsPool(s, c) <=> OwnsPool(m, c)
                       /\ OwnsPool(m, c) => Bottom(s) = Bottom(m)
  BY <1>0, <1>4 DEF OwnsPool
<1> QED
  BY <1>0, <1>3, <1>4, <1>5, <1>6

(* The step of a submission, as BatchSubmitted needs it. *)
Submits(t, b, q) ==
    /\ done' = done /\ b \in Batches \ (Pools \cup opened) /\ opened' = opened \cup {b}
    /\ q \in Seq(Tasks) /\ queue' = [queue EXCEPT ![Home[b]] = q] /\ Distinct(q)
    /\ \A y \in Tasks : In(q, y) <=> y[1] = b \/ In(queue[Home[b]], y)
    /\ \A u \in Threads : SameRuns(frames[u], frames'[u])
    /\ \A u \in Threads, c \in Batches : OwnsBatch(frames[u], c) => OwnsBatch(frames'[u], c)
    /\ OwnsBatch(frames'[t], b)
    /\ \A u \in Threads, c \in Pools :
            /\ OwnsPool(frames'[u], c) <=> OwnsPool(frames[u], c)
            /\ OwnsPool(frames[u], c) => Bottom(frames'[u]) = Bottom(frames[u])

LEMMA SubmittedTasks ==
    ASSUME Typed, TaskInv, NEW t \in Threads, NEW b, NEW q, Submits(t, b, q)
    PROVE  TaskInv'
<1>1. b \in Batches \ (Pools \cup opened) /\ q \in Seq(Tasks)
  BY DEF Submits
<1> QED
  BY <1>1, BatchSubmitted DEF Submits

Grows(b, q) ==
    /\ q \in Seq(Tasks) /\ Distinct(q)
    /\ \A y \in Tasks : In(q, y) <=> y[1] = b \/ In(queue[Home[b]], y)

LEMMA BatchAccepted ==
    ASSUME IInv, NEW t \in Threads, NEW b \in Batches, b \notin Pools, b \notin opened,
           frames[t] # <<>> => frames[t][1].at = "settle" /\ Len(frames[t]) > 1,
           NEW f, IsOwner(f, b), NEW q, Grows(b, q),
           queue' = [queue EXCEPT ![Home[b]] = q], opened' = opened \cup {b},
           DOMAIN frames' = Threads, frames' = [u \in Threads |-> frames'[u]],
           frames'[t] = <<f>> \o frames[t],
           \A u \in Threads \ {t} : frames'[u] = frames[u] \/ Started(u),
           ready' \in [Executors -> SUBSET Threads],
           UNCHANGED <<running, permits, done, waiting>>
    PROVE  IInv'
<1> DEFINE m == frames[t]
           s == frames'[t]
<1>1. Typed /\ Stacks /\ Permits /\ Lanes /\ TaskInv
  BY DEF IInv
<1>2. /\ m \in Seq(FrameSet) /\ StackOK(m)
      /\ m # <<>> => m[1].at = "settle" /\ Len(m) > 1
      /\ s = <<f>> \o m /\ b \in Batches \ Pools
  BY <1>1 DEF Stacks, Typed
<1>3. /\ s \in Seq(FrameSet) /\ StackOK(s)
      /\ Held(s) <=> Held(m)
      /\ \A e : InLane(s, e) <=> InLane(m, e)
      /\ \A x : Runs(s, x) <=> Runs(m, x)
      /\ \A c : OwnsBatch(s, c) <=> c = b \/ OwnsBatch(m, c)
      /\ Serves(s) <=> Serves(m)
      /\ \A c \in Pools : /\ OwnsPool(s, c) <=> OwnsPool(m, c)
                          /\ OwnsPool(m, c) => Bottom(s) = Bottom(m)
  <2> HIDE DEF m, s
  <2> QED
    BY <1>2, OwnerPushed
<1>4. /\ frames' \in [Threads -> Seq(FrameSet)] /\ Stacks'
      /\ \A u \in Threads \ {t} :
            /\ Held(frames'[u]) <=> Held(frames[u])
            /\ \A d \in Executors : InLane(frames'[u], d) <=> InLane(frames[u], d)
            /\ SameRuns(frames[u], frames'[u]) /\ SameOwners(frames[u], frames'[u])
            /\ \A c \in Pools : OwnsPool(frames[u], c) => Bottom(frames'[u]) = Bottom(frames[u])
  <2>1. \A c \in Batches : OwnsBatch(frames'[t], c) => c \in opened'
    BY <1>1, <1>3 DEF Stacks
  <2>2. /\ opened \subseteq opened' /\ frames'[t] \in Seq(FrameSet) /\ StackOK(frames'[t])
        /\ Serves(frames'[t]) => Serves(frames[t])
    BY <1>3
  <2> QED
    BY <1>1, <2>1, <2>2, Others
<1>5. Permits'
  <2>1. \A u \in Threads : Held(frames'[u]) <=> Held(frames[u])
    BY <1>3, <1>4
  <2> QED
    BY <1>1, <2>1, PermitsSame
<1>6. Lanes'
  <2>1. \A u \in Threads : \A e \in Executors : InLane(frames'[u], e) <=> InLane(frames[u], e)
    BY <1>3, <1>4
  <2> QED
    BY <1>1, <2>1, LanesSame
<1>7. /\ q \in Seq(Tasks) /\ Distinct(q)
      /\ \A y \in Tasks : In(q, y) <=> y[1] = b \/ In(queue[Home[b]], y)
  BY DEF Grows
<1>8. Typed'
  <2>1. queue' \in [Executors -> Seq(Tasks)]
    BY <1>1, <1>7 DEF Typed
  <2> QED
    BY <1>1, <1>4, <2>1 DEF Typed
<1>9. TaskInv'
  <2>1. \A u \in Threads : SameRuns(frames[u], frames'[u])
    BY <1>3, <1>4 DEF SameRuns
  <2>2. \A u \in Threads, c \in Batches : OwnsBatch(frames[u], c) => OwnsBatch(frames'[u], c)
    BY <1>3, <1>4 DEF SameOwners
  <2>3. OwnsBatch(frames'[t], b)
    BY <1>3
  <2>4. \A u \in Threads, c \in Pools :
            /\ OwnsPool(frames'[u], c) <=> OwnsPool(frames[u], c)
            /\ OwnsPool(frames[u], c) => Bottom(frames'[u]) = Bottom(frames[u])
    BY <1>3, <1>4 DEF SameOwners
  <2>5. Submits(t, b, q)
    BY <1>7, <2>1, <2>2, <2>3, <2>4 DEF Submits
  <2> QED
    BY <1>1, <2>5, SubmittedTasks
<1> QED
  BY <1>4, <1>5, <1>6, <1>8, <1>9 DEF IInv

LEMMA StepSubmit ==
    ASSUME IInv, NEW t \in Threads, NEW b \in Batches, b \notin Pools, b \notin opened,
           frames[t] # <<>> => frames[t][1].at = "settle" /\ Len(frames[t]) > 1,
           NEW stack, stack = frames[t], Submit(t, b, stack)
    PROVE  IInv'
<1> DEFINE e == Home[b]
           f == Frame("own", b, 0, "loop")
           q == queue[e] \o Numbered(b)
<1>1. Typed /\ e \in Executors /\ IsOwner(f, b)
  BY OwnerFrame, BatchesAssumption DEF IInv
<1>2. queue' = [queue EXCEPT ![e] = q]
  <2>1. queue' = [queue EXCEPT ![e] = @ \o Numbered(b)]
    BY DEF Submit, Numbered
  <2> QED
    BY <1>1, <2>1 DEF Typed
<1>3. frames' = [u \in Threads |->
                    IF u = t THEN <<f>> \o stack
                    ELSE IF u \in StartedBy(b) THEN <<Frame("worker", NoBatch, 0, "look")>>
                    ELSE frames[u]]
  BY DEF Submit
<1>4. /\ DOMAIN frames' = Threads /\ frames' = [u \in Threads |-> frames'[u]]
      /\ frames'[t] = <<f>> \o frames[t]
  BY <1>3
<1>5. \A u \in Threads \ {t} : frames'[u] = frames[u] \/ Started(u)
  <2>1. \A u \in StartedBy(b) : u \in Workers(e) /\ frames[u] = <<>>
    BY DEF StartedBy
  <2> QED
    BY <1>1, <1>3, <2>1 DEF Started
<1>6. /\ UNCHANGED <<running, permits, done, waiting>> /\ opened' = opened \cup {b}
      /\ ready' = [ready EXCEPT ![e] = {}]
  BY DEF Submit, NotifyReady
<1>7. ready' \in [Executors -> SUBSET Threads]
  BY <1>1, <1>6, ReadyTyped
<1>8. queue' = [queue EXCEPT ![Home[b]] = q]
  BY <1>2
<1>9. Grows(b, q)
  <2>1. q = queue[Home[b]] \o Numbered(b) /\ TaskInv
    BY DEF IInv
  <2> HIDE DEF q
  <2>2. /\ q \in Seq(Tasks) /\ Distinct(q)
        /\ \A y \in Tasks : In(q, y) <=> y[1] = b \/ In(queue[Home[b]], y)
    BY <1>1, <2>1, BatchQueue
  <2> QED
    BY <2>2 DEF Grows
<1> HIDE DEF e, f, q
<1> QED
  BY <1>1, <1>4, <1>5, <1>6, <1>7, <1>8, <1>9, BatchAccepted

LEMMA StepRunBatch == ASSUME IInv, NEW t \in Threads, NEW b \in Batches, RunBatch(t, b) PROVE IInv'
<1>1. b \notin Pools /\ b \notin opened /\ frames[t] = <<>> /\ Submit(t, b, <<>>)
  BY DEF RunBatch
<1> DEFINE stack == <<>>
<1>2. stack = frames[t] /\ Submit(t, b, stack)
  BY <1>1
<1> HIDE DEF stack
<1> QED
  BY <1>1, <1>2, StepSubmit

LEMMA StepRunNestedBatch == ASSUME IInv, NEW t \in Threads, RunNestedBatch(t) PROVE IInv'
<1>1. frames[t] # <<>> /\ Top(t).kind = "task" /\ Top(t).at = "settle"
  BY DEF RunNestedBatch, At
<1>2. PICK b \in Batches \ opened : b = Child(TaskOf(Top(t))) /\ Submit(t, b, frames[t])
  BY DEF RunNestedBatch, TaskOf
<1>3. Typed /\ Stacks
  BY DEF IInv
<1>4. Rest(t) # <<>> /\ TaskOf(Top(t)) \in Tasks
  BY <1>1, <1>3, TaskRest
<1>5. b \notin Pools
  BY <1>2, <1>4, ChildAssumption, BatchesAssumption
<1>6. frames[t][1].at = "settle" /\ Len(frames[t]) > 1
  <2>1. Len(frames[t]) = Len(Rest(t)) + 1 /\ Len(Rest(t)) \in Nat /\ (Len(Rest(t)) > 0 <=> Rest(t) # <<>>)
    BY <1>1, <1>3, TopOf
  <2>2. frames[t] \in Seq(FrameSet)
    BY <1>3 DEF Typed
  <2>3. Top(t) = frames[t][1]
    BY <1>1, <2>2, SeqUnfold DEF Top
  <2> QED
    BY <1>1, <1>4, <2>1, <2>3
<1> QED
  BY <1>2, <1>5, <1>6, StepSubmit

-----------------------------------------------------------------------------
LEMMA InitIInv == Init => IInv
<1> SUFFICES ASSUME Init PROVE IInv
  OBVIOUS
<1>1. /\ \A t \in Threads : frames[t] = <<>>
      /\ \A e \in Executors : queue[e] = <<>> /\ running[e] = 0 /\ ready[e] = {}
      /\ permits = 0 /\ done = {} /\ opened = {} /\ waiting = {}
  BY DEF Init
<1>2. Typed
  <2>1. <<>> \in Seq(FrameSet) /\ <<>> \in Seq(Tasks)
    BY EmptySeq
  <2> QED
    BY <2>1 DEF Init, Typed
<1>3. Stacks
  BY <1>1, EmptyStack DEF Stacks
<1>4. Cardinality({}) = 0
  BY FS_EmptySet
<1>5. Permits
  <2>1. Holders = {}
    BY <1>1, EmptyStack DEF Holders
  <2> QED
    BY <1>1, <1>4, <2>1, CapacityAssumption DEF Permits
<1>6. Lanes
  <2> SUFFICES ASSUME NEW e \in Executors PROVE LaneCounted(e)
    BY DEF Lanes
  <2>1. LaneHolders(e) = {}
    BY <1>1, EmptyStack DEF LaneHolders
  <2>2. Parallelism[e] \in Nat /\ running[e] = 0
    BY <1>1, ParallelismAssumption
  <2> QED
    BY <1>4, <2>1, <2>2 DEF LaneCounted
<1>7. \A x \in Tasks : ~Live(x) /\ ~Waits(x) /\ x \notin done
  <2> SUFFICES ASSUME NEW x \in Tasks PROVE ~Live(x) /\ ~Waits(x)
    BY <1>1
  <2>1. queue[Home[x[1]]] = <<>>
    BY <1>1, TaskParts
  <2>2. ~Waits(x)
    BY <2>1 DEF Waits, In
  <2> QED
    BY <1>1, <2>2, EmptyStack DEF Live
<1>8. TaskInv
  <2>1. Queues
    BY <1>1 DEF Queues, In, Distinct
  <2>2. Apart /\ Kept /\ Owned
    BY <1>1, <1>7, EmptyStack DEF Apart, Kept, Owned
  <2>3. PoolsOK
    <3>1. \A b \in Pools : \A t \in Threads : ~OwnsPool(frames[t], b)
      BY <1>1, EmptyStack
    <3> QED
      BY <3>1 DEF PoolsOK
  <2> QED
    BY <2>1, <2>2, <2>3 DEF TaskInv
<1> QED
  BY <1>2, <1>3, <1>5, <1>6, <1>8 DEF IInv

LEMMA NextIInv == IInv /\ [Next]_vars => IInv'
<1> SUFFICES ASSUME IInv, [Next]_vars PROVE IInv'
  OBVIOUS
<1>1. ASSUME NEW t \in Threads, Step(t) PROVE IInv'
  <2>1. CASE RunNestedBatch(t)
    BY <2>1, StepRunNestedBatch
  <2>2. CASE OwnerReturns(t)
    BY <2>2, StepOwnerReturns
  <2>3. CASE OwnerTries(t)
    BY <2>3, StepOwnerTries
  <2>4. CASE OwnerSleeps(t)
    BY <2>4, StepOwnerSleeps
  <2>5. CASE OwnerPermit(t)
    BY <2>5, StepOwnerPermit
  <2>6. CASE OwnerTakes(t)
    BY <2>6, StepOwnerTakes
  <2>7. CASE PoolSubmits(t)
    BY <2>7, StepPoolSubmits
  <2>8. CASE PoolCloses(t)
    BY <2>8, StepPoolCloses
  <2>9. CASE PoolDrains(t)
    BY <2>9, StepPoolDrains
  <2>10. CASE PoolCollects(t)
    BY <2>10, StepPoolCollects
  <2>11. CASE WorkerLooks(t)
    BY <2>11, StepWorkerLooks
  <2>12. CASE WorkerPermit(t)
    BY <2>12, StepWorkerPermit
  <2>13. CASE WorkerTakes(t)
    BY <2>13, StepWorkerTakes
  <2>14. CASE DropPermit(t)
    BY <2>14, StepDropPermit
  <2>15. CASE Settle(t)
    BY <2>15, StepSettle
  <2>16. CASE NotifyWaiters(t)
    BY <2>16, StepNotifyWaiters
  <2>17. CASE LeaveLane(t)
    BY <2>17, StepLeaveLane
  <2>18. CASE LeaveBudget(t)
    BY <2>18, StepLeaveBudget
  <2> QED
    BY <1>1, <2>1, <2>2, <2>3, <2>4, <2>5, <2>6, <2>7, <2>8, <2>9, <2>10, <2>11, <2>12, <2>13,
       <2>14, <2>15, <2>16, <2>17, <2>18 DEF Step
<1>2. ASSUME NEW t \in Threads, NEW b \in Batches, RunBatch(t, b) \/ OpenPool(t, b) PROVE IInv'
  BY <1>2, StepRunBatch, StepOpenPool
<1>3. ASSUME NEW e \in Executors, Shutdown(e) \/ WakeBudget(e) PROVE IInv'
  BY <1>3, StepShutdown, StepWakeBudget
<1>4. CASE UNCHANGED vars
  <2>1. UNCHANGED <<frames, queue, running, permits, done, opened>> /\ UNCHANGED <<ready, waiting>>
    BY <1>4 DEF vars
  <2>2. ready' \in [Executors -> SUBSET Threads] /\ waiting' \subseteq Threads
    BY <2>1 DEF IInv, Typed
  <2> QED
    BY <2>1, <2>2, Asleep
<1> QED
  BY <1>1, <1>2, <1>3, <1>4 DEF Next

LEMMA AlwaysIInv == Spec => []IInv
  BY InitIInv, NextIInv, PTL DEF Spec

-----------------------------------------------------------------------------
(* What the invariant says of the properties' own terms. *)
LEMMA Frames ==
    ASSUME Typed, Stacks, NEW t \in Threads, NEW i \in 1 .. Len(frames[t])
    PROVE  /\ frames[t] \in Seq(FrameSet) /\ Len(frames[t]) \in Nat /\ Len(frames[t]) \in 1 .. Len(frames[t])
           /\ frames[t] # <<>> /\ frames[t][i] \in FrameSet
           /\ FrameOK(frames[t][i]) /\ PlaceOK(frames[t], i)
<1>1. frames[t] \in Seq(FrameSet) /\ PlaceOK(frames[t], i)
  BY DEF Typed, Stacks, StackOK
<1>2. Len(frames[t]) \in Nat /\ Len(frames[t]) \in 1 .. Len(frames[t]) /\ frames[t] # <<>>
  BY <1>1
<1> QED
  BY <1>1, <1>2 DEF PlaceOK

LEMMA TypesHold == ASSUME IInv PROVE TypeOK
<1>1. Typed /\ Stacks /\ Permits
  BY DEF IInv
<1>2. \A e \in Executors : queue[e] \in Seq(Tasks) /\ ready[e] \subseteq Threads
  BY <1>1 DEF Typed
<1>3. running \in [Executors -> Nat] /\ permits \in 0 .. Capacity
  BY <1>1, CapacityAssumption DEF Typed, Permits
<1>4. ASSUME NEW t \in Threads, NEW i \in 1 .. Len(frames[t]), NEW f, f = frames[t][i]
      PROVE  CASE f.kind = "worker" -> f.at \in {"look", "permit", "take", "drop"}
               [] f.kind = "own"    -> f.at \in {"loop", "permit", "take", "drop", "sleep", "pool"}
               [] f.kind = "task"   -> f.at \in {"settle", "notify", "leave", "permit"}
  <2>1. FrameOK(f) /\ f \in FrameSet
    BY <1>1, <1>4, Frames
  <2>2. f.kind \in {"worker", "own", "task"}
    BY <2>1 DEF FrameSet
  <2>3. CASE f.kind = "worker"
    BY <2>1, <2>3 DEF FrameOK
  <2>4. CASE f.kind = "own"
    BY <2>1, <2>4 DEF FrameOK
  <2>5. CASE f.kind = "task"
    BY <2>1, <2>5 DEF FrameOK
  <2> QED
    BY <2>2, <2>3, <2>4, <2>5
<1>5. done \subseteq Tasks /\ opened \subseteq Batches /\ waiting \subseteq Threads
  BY <1>1 DEF Typed
<1> QED
  BY <1>2, <1>3, <1>4, <1>5 DEF TypeOK

LEMMA PermitsHold == ASSUME IInv PROVE PermitsCounted
<1>1. Typed /\ Stacks /\ Permits
  BY DEF IInv
<1>2. \A t : Holds(t) <=> Held(frames[t])
  BY DEF Holds, Held
<1>3. {t \in Threads : Holds(t)} = Holders
  BY <1>2 DEF Holders
<1>4. ASSUME NEW t \in Threads, InsideBudget(t) PROVE Holds(t)
  <2> DEFINE s == frames[t]
             n == Len(s)
  <2>1. PICK i \in 1 .. n : s[i].kind = "task"
    BY <1>4 DEF InsideBudget
  <2>2. n \in Nat /\ PlaceOK(s, i)
    BY <1>1, <2>1, Frames
  <2>3. i # n
    BY <2>1, <2>2 DEF PlaceOK
  <2> HIDE DEF n
  <2>4. n - 1 \in 1 .. n
    BY <2>1, <2>2, <2>3
  <2>5. PlaceOK(s, n - 1)
    BY <1>1, <2>4, Frames DEF n
  <2>6. s[n - 1].permit
    BY <2>5 DEF PlaceOK, n
  <2> QED
    BY <2>4, <2>6 DEF Holds, n
<1> QED
  BY <1>1, <1>3, <1>4, TypesHold DEF PermitsCounted, Permits

LEMMA LanesHold == ASSUME IInv PROVE LanesBounded
<1>1. Typed /\ Stacks /\ Lanes
  BY DEF IInv
<1> SUFFICES ASSUME NEW e \in Executors PROVE Cardinality(RunsFor(e)) <= Parallelism[e]
  BY DEF LanesBounded
<1>2. ASSUME NEW t \in RunsFor(e) PROVE t \in LaneHolders(e)
  <2> DEFINE s == frames[t]
  <2>1. t \in Threads
    BY <1>2 DEF RunsFor
  <2>2. PICK i \in 1 .. Len(s) : s[i].kind = "task" /\ Home[s[i].batch] = e /\ s[i].at # "permit"
    BY <1>2 DEF RunsFor
  <2>3. PICK j \in i .. Len(s) : Counts(s[j], e)
    BY <1>1, <2>1, <2>2 DEF Stacks, StackOK, LanesOK
  <2>4. Len(s) \in Nat
    BY <1>1, <2>1, <2>2, Frames
  <2>5. j \in 1 .. Len(s) /\ (j = i \/ j > 1)
    BY <2>2, <2>3, <2>4
  <2>6. s[j].at # "permit"
    <3>1. CASE j = i
      BY <2>2, <3>1
    <3>2. CASE j > 1
      <4>1. PlaceOK(s, j)
        BY <1>1, <2>1, <2>5, Frames
      <4> QED
        BY <3>2, <4>1 DEF PlaceOK
    <3> QED
      BY <2>5, <3>1, <3>2
  <2> QED
    BY <2>1, <2>3, <2>5, <2>6 DEF LaneHolders, InLane
<1>3. RunsFor(e) \subseteq LaneHolders(e) /\ LaneHolders(e) \subseteq Threads
  BY <1>2 DEF LaneHolders
<1>4. IsFiniteSet(LaneHolders(e)) /\ Cardinality(LaneHolders(e)) \in Nat
  BY <1>3, SubsetsFinite
<1>5. Cardinality(RunsFor(e)) <= Cardinality(LaneHolders(e)) /\ Cardinality(RunsFor(e)) \in Nat
  BY <1>3, <1>4, FS_Subset, FS_CardinalityType
<1>6. running[e] = Cardinality(LaneHolders(e)) /\ running[e] <= Parallelism[e] /\ Parallelism[e] \in Nat
  BY <1>1, ParallelismAssumption DEF Lanes, LaneCounted
<1> QED
  BY <1>4, <1>5, <1>6

LEMMA PoolOwners ==
    ASSUME Typed, Stacks, NEW b \in Pools, NEW f \in OwnerFrames(b)
    PROVE  \E t \in Threads : OwnsPool(frames[t], b) /\ f = Bottom(frames[t])
<1>1. PICK t \in Threads : f \in ToSet(frames[t]) /\ f.kind = "own" /\ f.batch = b
  BY DEF OwnerFrames
<1>2. frames[t] \in Seq(FrameSet)
  BY DEF Typed
<1>3. PICK i \in 1 .. Len(frames[t]) : f = frames[t][i]
  BY <1>1, <1>2 DEF ToSet
<1>4. PlaceOK(frames[t], i) /\ Len(frames[t]) \in Nat /\ frames[t] # <<>>
  BY Frames
<1>5. ~(i < Len(frames[t]))
  BY <1>1, <1>3, <1>4 DEF PlaceOK
<1>6. i = Len(frames[t])
  BY <1>4, <1>5
<1> QED
  BY <1>1, <1>3, <1>4, <1>6 DEF OwnsPool, Bottom

LEMMA OwnersFound ==
    ASSUME Typed, Stacks, NEW t \in Threads, NEW b
    PROVE  /\ OwnsBatch(frames[t], b) => \E o \in OwnerFrames(b) : TRUE
           /\ OwnsPool(frames[t], b) => Bottom(frames[t]) \in OwnerFrames(b) /\ Bottom(frames[t]).pending \in Seq(Nat)
<1>1. frames[t] \in Seq(FrameSet) /\ DOMAIN frames[t] = 1 .. Len(frames[t])
  BY DEF Typed
<1>2. ASSUME NEW i \in 1 .. Len(frames[t]), frames[t][i].kind = "own", frames[t][i].batch = b
      PROVE  frames[t][i] \in OwnerFrames(b)
  <2>1. frames[t][i] \in ToSet(frames[t])
    BY <1>1 DEF ToSet
  <2> QED
    BY <1>2, <2>1 DEF OwnerFrames
<1>3. ASSUME OwnsPool(frames[t], b)
      PROVE  Bottom(frames[t]) \in OwnerFrames(b) /\ Bottom(frames[t]).pending \in Seq(Nat)
  <2> DEFINE n == Len(frames[t])
  <2>1. n \in 1 .. n
    BY <1>1, <1>3 DEF OwnsPool
  <2>2. frames[t][n] \in FrameSet
    BY <2>1, Frames
  <2> QED
    BY <1>2, <1>3, <2>1, <2>2 DEF OwnsPool, Bottom, FrameSet
<1> QED
  BY <1>2, <1>3 DEF OwnsBatch

LEMMA OwnerOf ==
    ASSUME IInv, NEW x \in Tasks, Live(x)
    PROVE  \E o \in OwnerFrames(x[1]) : x[1] \in Pools => x[2] \in ToSet(o.pending)
<1>1. Typed /\ Stacks /\ HasOwner(x)
  BY DEF IInv, TaskInv, Owned
<1>2. CASE x[1] \in Pools
  <2>1. PICK t \in Threads : OwnsPool(frames[t], x[1]) /\ In(Bottom(frames[t]).pending, x[2])
    BY <1>1, <1>2 DEF HasOwner
  <2>2. Bottom(frames[t]) \in OwnerFrames(x[1]) /\ Bottom(frames[t]).pending \in Seq(Nat)
    BY <1>1, <2>1, OwnersFound
  <2>3. x[2] \in ToSet(Bottom(frames[t]).pending)
    BY <2>1, <2>2 DEF In, ToSet
  <2> QED
    BY <2>2, <2>3
<1>3. CASE x[1] \notin Pools
  <2>1. PICK t \in Threads : OwnsBatch(frames[t], x[1])
    BY <1>1, <1>3 DEF HasOwner
  <2> QED
    BY <1>1, <1>3, <2>1, OwnersFound
<1> QED
  BY <1>2, <1>3

LEMMA Accounted ==
    ASSUME IInv, NEW x \in Tasks, Submitted(x) PROVE Live(x) \/ x \in done
<1>1. Typed /\ Stacks /\ Kept
  BY DEF IInv, TaskInv
<1>2. CASE x[1] \notin Pools
  BY <1>1, <1>2 DEF Submitted, Kept
<1>3. CASE x[1] \in Pools
  <2>1. CASE x \in done
    BY <2>1
  <2>2. CASE \E f \in OwnerFrames(x[1]) : x[2] <= f.task
    <3>1. PICK f \in OwnerFrames(x[1]) : x[2] <= f.task
      BY <2>2
    <3>2. PICK t \in Threads : OwnsPool(frames[t], x[1]) /\ f = Bottom(frames[t])
      BY <1>1, <1>3, PoolOwners
    <3> QED
      BY <1>1, <1>3, <3>1, <3>2 DEF Kept
  <2> QED
    BY <1>3, <2>1, <2>2 DEF Submitted
<1> QED
  BY <1>2, <1>3

LEMMA TasksHold == ASSUME IInv PROVE TasksOnce
<1> DEFINE queuedAt(x) == {i \in 1 .. Len(queue[Home[x[1]]]) : queue[Home[x[1]]][i] = x}
           frameAt(x, t) == {i \in 1 .. Len(frames[t]) :
                                /\ frames[t][i].kind = "task"
                                /\ <<frames[t][i].batch, frames[t][i].task>> = x
                                /\ frames[t][i].at = "settle"}
           inFrames(x) == {t \in Threads : frameAt(x, t) # {}}
<1> SUFFICES ASSUME NEW x \in Tasks, Submitted(x)
             PROVE  Cardinality(queuedAt(x)) + Cardinality(inFrames(x))
                      + (IF x \in done THEN 1 ELSE 0) = 1
  BY DEF TasksOnce
<1>1. Live(x) \/ x \in done
  BY Accounted
<1>2. /\ Live(x) => x \notin done
      /\ \A t \in Threads : Runs(frames[t], x) =>
            ~Waits(x) /\ \A u \in Threads : Runs(frames[u], x) => t = u
  BY DEF IInv, TaskInv, Apart
<1>3. Distinct(queue[Home[x[1]]])
  BY TaskParts DEF IInv, TaskInv, Queues
<1>4. \A t \in Threads : t \in inFrames(x) <=> Runs(frames[t], x)
  BY DEF Runs, RunsAt, TaskOf
<1>5. ~Waits(x) => queuedAt(x) = {}
  BY DEF Waits, In
<1>6. Waits(x) => \E i : queuedAt(x) = {i}
  <2> SUFFICES ASSUME Waits(x) PROVE \E i : queuedAt(x) = {i}
    OBVIOUS
  <2>1. PICK i \in 1 .. Len(queue[Home[x[1]]]) : queue[Home[x[1]]][i] = x
    BY DEF Waits, In
  <2>2. \A j \in queuedAt(x) : j = i
    BY <1>3, <2>1 DEF Distinct
  <2>3. queuedAt(x) = {i}
    BY <2>1, <2>2
  <2> QED
    BY <2>3
<1>7. Cardinality({}) = 0 /\ \A i : Cardinality({i}) = 1
  BY FS_EmptySet, FS_Singleton
<1> DEFINE Q == queuedAt(x)
           F == inFrames(x)
<1>8. F \subseteq Threads
  OBVIOUS
<1> HIDE DEF queuedAt, inFrames
<1>9. CASE x \in done
  <2>1. ~Waits(x) /\ \A t \in Threads : ~Runs(frames[t], x)
    BY <1>2, <1>9 DEF Live
  <2>2. Q = {} /\ F = {}
    BY <1>4, <1>5, <1>8, <2>1
  <2> QED
    BY <1>7, <1>9, <2>2
<1>10. CASE x \notin done /\ Waits(x)
  <2>1. \A t \in Threads : ~Runs(frames[t], x)
    BY <1>2, <1>10
  <2>2. F = {} /\ \E i : Q = {i}
    BY <1>4, <1>6, <1>8, <1>10, <2>1
  <2>3. Cardinality(F) = 0 /\ Cardinality(Q) = 1
    BY <1>7, <2>2
  <2> QED
    BY <1>10, <2>3
<1>11. CASE x \notin done /\ ~Waits(x)
  <2>1. PICK t \in Threads : Runs(frames[t], x)
    BY <1>1, <1>11 DEF Live
  <2>2. F = {t} /\ Q = {}
    BY <1>2, <1>4, <1>5, <1>8, <1>11, <2>1
  <2>3. Cardinality(F) = 1 /\ Cardinality(Q) = 0
    BY <1>7, <2>2
  <2> QED
    BY <1>11, <2>3
<1> QED
  BY <1>9, <1>10, <1>11

LEMMA OwnersHold == ASSUME IInv PROVE OwnersOutliveTasks
<1>1. Typed /\ Stacks /\ PoolsOK
  BY DEF IInv, TaskInv
<1>2. ASSUME NEW t \in Threads, NEW f \in ToSet(frames[t]), f.kind = "task", f.at = "settle"
      PROVE  \E o \in OwnerFrames(f.batch) : f.batch \in Pools => f.task \in ToSet(o.pending)
  <2> DEFINE x == TaskOf(f)
  <2>1. PICK i \in 1 .. Len(frames[t]) : f = frames[t][i]
    BY <1>1, <1>2 DEF Typed, ToSet
  <2>2. x \in Tasks
    BY <1>1, <1>2, <2>1, Frames DEF FrameOK
  <2>3. Live(x)
    BY <1>2, <2>1 DEF Live, Runs, RunsAt
  <2>4. x[1] = f.batch /\ x[2] = f.task
    BY DEF TaskOf
  <2> HIDE DEF x
  <2>5. \E o \in OwnerFrames(x[1]) : x[1] \in Pools => x[2] \in ToSet(o.pending)
    BY <2>2, <2>3, OwnerOf
  <2> QED
    BY <2>4, <2>5
<1>3. ASSUME NEW e \in Executors, NEW x \in ToSet(queue[e])
      PROVE  \E o \in OwnerFrames(x[1]) : x[1] \in Pools => x[2] \in ToSet(o.pending)
  <2>1. queue[e] \in Seq(Tasks)
    BY <1>1 DEF Typed
  <2>2. PICK i \in 1 .. Len(queue[e]) : x = queue[e][i]
    BY <1>3, <2>1 DEF ToSet
  <2>3. x \in Tasks /\ In(queue[e], x)
    BY <2>1, <2>2 DEF In
  <2>4. Home[x[1]] = e
    BY <2>3 DEF IInv, TaskInv, Queues
  <2>5. Live(x)
    BY <2>3, <2>4 DEF Live, Waits
  <2> QED
    BY <2>3, <2>5, OwnerOf
<1>4. ASSUME NEW b \in Pools, NEW o \in OwnerFrames(b) PROVE Len(o.pending) <= PoolCapacity(b)
  <2>1. PICK t \in Threads : OwnsPool(frames[t], b) /\ o = Bottom(frames[t])
    BY <1>1, PoolOwners
  <2> QED
    BY <1>1, <2>1 DEF PoolsOK
<1> QED
  BY <1>2, <1>3, <1>4 DEF OwnersOutliveTasks

-----------------------------------------------------------------------------
(* acquire_unless and Drop for QueryExecutionPermit: however owners,       *)
(* workers, pools and nested batches interleave, the budget's active count *)
(* is the number of threads that hold a permit, never above its capacity,  *)
(* and whoever is inside a task runs on a permit that its own thread       *)
(* holds; all variables keep their types.                                  *)
THEOREM PermitsAreCounted == Spec => []PermitsCounted
  BY AlwaysIInv, PermitsHold, PTL

(* worker_loop, try_run_one and Drop for QueryExecutorActivityGuard: never *)
(* do more threads execute tasks of an executor, nested ones included,     *)
(* than it has lanes, for any number of lanes, threads and executors.      *)
THEOREM LanesAreBounded == Spec => []LanesBounded
  BY AlwaysIInv, LanesHold, PTL

(* submit_all, worker_loop, try_run_one, run_task, QueryBatch::complete: a *)
(* submitted task is in exactly one place, the queue, one thread's         *)
(* run_task or the results, so none is lost and none completes twice.      *)
THEOREM TasksRunOnce == Spec => []TasksOnce
  BY AlwaysIInv, TasksHold, PTL

(* run_tasks_inner and QueryTaskPool::submit, wait_one, finish and Drop:   *)
(* no owner returns while one of its tasks is queued or running, and a     *)
(* pool never has more tasks pending than its capacity.                    *)
THEOREM OwnersOutlive == Spec => []OwnersOutliveTasks
  BY AlwaysIInv, OwnersHold, PTL

=============================================================================
