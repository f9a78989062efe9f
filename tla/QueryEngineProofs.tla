-------------------------- MODULE QueryEngineProofs --------------------------
(***************************************************************************)
(* For any queries, threads and bounds: a slot has one computer, sleepers  *)
(* sleep on slots that somebody else works on, failed and discarded        *)
(* executions leave no edges behind, and an input is not served from       *)
(* before a reported change.  With changes under the barrier only, no      *)
(* Ready value stands on one that is not.                                  *)
(*                                                                         *)
(* FlightInv follows every frame of every call stack: what it holds of a   *)
(* slot is what the phases of get, provider and validation allow, and      *)
(* every frame that has taken a slot is the only one that has.  TrackInv   *)
(* builds on it: edges without a value, and values of inputs that are not  *)
(* current, have somebody on his way to them.  StandInv says what frames   *)
(* have read or compared is Ready.  Each is kept by every action; steps    *)
(* that treat the call stacks alike share a lemma.                         *)
(***************************************************************************)
EXTENDS QueryEngine, FiniteSetTheorems, NaturalsInduction, TLAPS

-----------------------------------------------------------------------------
(* Types of slots, frames and invalidations. *)

Evidence == UNION {[D -> Fingerprints \cup {RetiredNode}] : D \in SUBSET Nodes}
Reads == UNION {[D -> Fingerprints] : D \in SUBSET Nodes}

Payloads ==
    [value : Values \cup {NoFingerprint}, fingerprint : Fingerprints, deps : Evidence]

Slots ==
    [state : {"Empty", "Computing", "Validating", "Ready", "PotentiallyOutdated"},
     invalidated : BOOLEAN, payload : Payloads]

Frames ==
    [node : Nodes, phase : Owning \cup {"lookup", "wait", "woken"}, reads : ReadValues,
     deps : Reads, kept : Payloads, todo : SUBSET Nodes, stale : Payloads]

Reported == {Provide(n, v, <<>>) : n \in Inputs, v \in Values}

Invalidations ==
    [step : {"none", "check", "collect", "root", "mark"}, root : Inputs \cup {NoFingerprint},
     value : Reported \cup {NoFingerprint}, todo : SUBSET Nodes, cleared : SUBSET Nodes]

Typed ==
    /\ slot \in [Nodes -> Slots]
    /\ revision \in [Nodes -> Nat]
    /\ forward \in [Nodes -> SUBSET Nodes] /\ reverse \in [Nodes -> SUBSET Nodes]
    /\ stack \in [Threads -> Seq(Frames)]
    /\ task \in [Threads -> Invalidations]
    /\ cell \in [Inputs -> Values] /\ changes \in 0 .. MaxChanges
    /\ poisoned \in BOOLEAN

(* A slot has a payload where its state has one. *)
SlotOK(s) ==
    /\ s.invalidated => s.state \in {"Computing", "Validating"}
    /\ IF s.state \in {"Ready", "PotentiallyOutdated"} THEN s.payload.value \in Values
       ELSE s.payload = NoPayload
    /\ s.state = "PotentiallyOutdated" => s.payload.fingerprint # NoFingerprint

(* A frame keeps the value it computed, or the payload it validates. *)
Judging == {"validate", "compare", "red", "error"}

FrameOK(f) ==
    /\ f.phase \in Judging \cup {"publish"} => f.kept.value \in Values
    /\ f.phase \in Judging => f.kept.fingerprint # NoFingerprint

(* A frame below the top made the get above it. *)
CallerOK(f) ==
    /\ f.phase \in {"run", "validate"}
    /\ f.phase = "run" => NextOf(f) # Done

SlotsOK == \A n \in Nodes : SlotOK(slot[n])

FramesOK ==
    \A t \in Threads : \A i \in 1 .. Len(stack[t]) :
        FrameOK(stack[t][i]) /\ (i > 1 => CallerOK(stack[t][i]))

TasksOK ==
    \A t \in Threads :
        /\ task[t] # NoTask => stack[t] = <<>> /\ task[t].root \in Inputs
        /\ task[t].step = "none" => task[t] = NoTask

(* A busy slot has an owner, every owner a busy slot, and no two of them   *)
(* the same one.                                                           *)
Single ==
    /\ \A n \in Nodes : Busy(n) =>
        \E t \in Threads : \E i \in 1 .. Len(stack[t]) : Owns(t, i, n)
    /\ \A n \in Nodes : \A t \in Threads : \A i \in 1 .. Len(stack[t]) : Owns(t, i, n) =>
        /\ Busy(n)
        /\ \A u \in Threads : \A j \in 1 .. Len(stack[u]) : Owns(u, j, n) => t = u /\ i = j

(* Whoever sleeps does so on a busy slot that is none of its own. *)
Sleepers ==
    \A t \in Threads : At(t, "wait") =>
        Busy(Top(t).node) /\ ~OnStack(t, Top(t).node)

FlightInv == Typed /\ SlotsOK /\ FramesOK /\ TasksOK /\ Single /\ Sleepers

(* Thread t is about to remove the edges of n: it took the empty slot, or  *)
(* is about to look at it.                                                 *)
Clearing(t, n) ==
    /\ stack[t] # <<>> /\ Top(t).node = n
    /\ \/ Top(t).phase = "clear"
       \/ slot[n].state = "Empty" /\ Top(t).phase \in {"lookup", "wait", "woken"}

Sweeping(t, n) == task[t].step = "mark" /\ n \in task[t].cleared

(* Edges belong to a payload, or somebody is about to remove them: a get,  *)
(* or the invalidation that emptied the slot.                              *)
EdgesHeld ==
    \A n \in Nodes : forward[n] # {} =>
        \/ slot[n].state \in {"Ready", "PotentiallyOutdated", "Validating"}
        \/ \E t \in Threads : Clearing(t, n)
        \/ \E t \in Threads : Sweeping(t, n)

(* The inputs that read no query. *)
Leaves == {n \in Inputs : NextRead(n, <<>>) = Done}

(* A report that has yet to reach the slot of n. *)
Announces(t, n) ==
    /\ task[t].root = n /\ task[t].step \in {"check", "collect", "root"}
    /\ task[t].step = "check" => task[t].value = Provide(n, cell[n], <<>>)

Announced(n) == \E t \in Threads : Announces(t, n)

(* What is cached of an input is current, or about to be looked at by the  *)
(* report of the change; a stable fingerprint is that of the value.        *)
SlotTracked(n) ==
    slot[n].state \in {"Ready", "PotentiallyOutdated"} =>
        /\ n \in Leaves =>
            slot[n].payload.value = Provide(n, cell[n], <<>>) \/ Announced(n)
        /\ Policy[n] = "StableValue" => slot[n].payload.fingerprint = slot[n].payload.value

(* What is about to be cached of it is current, flagged or about to be     *)
(* flagged.                                                                *)
FrameTracked(f) ==
    /\ f.node \in Leaves => f.reads = <<>>
    /\ (f.node \in Leaves /\ f.phase \in Judging \cup {"publish"}) =>
        \/ f.kept.value = Provide(f.node, cell[f.node], <<>>)
        \/ slot[f.node].invalidated
        \/ Announced(f.node)
    /\ (Policy[f.node] = "StableValue" /\ f.phase \in Judging) =>
        f.kept.fingerprint = f.kept.value

InputsTracked ==
    /\ \A n \in Nodes : SlotTracked(n)
    /\ \A t \in Threads : \A i \in 1 .. Len(stack[t]) : FrameTracked(stack[t][i])
    /\ \A t \in Threads : task[t].step = "check" => Policy[task[t].root] = "StableValue"

-----------------------------------------------------------------------------
(* What a step does to the call stacks: a sleeper may be woken, a thread   *)
(* replaces its top frame, makes a get or returns from one.                *)

Stacks == [Threads -> Seq(Frames)]

Woke(g, f) == g = f \/ (f.phase = "wait" /\ g = [f EXCEPT !.phase = "woken"])

Still(u, N) ==
    /\ Len(stack'[u]) = Len(stack[u])
    /\ \A i \in 1 .. Len(stack[u]) : Woke(stack'[u][i], stack[u][i])
    /\ Len(stack[u]) > 0 => ~(stack'[u][1].phase = "wait" /\ stack'[u][1].node \in N)

Rests(N) == stack' \in Stacks /\ \A u \in Threads : Still(u, N)

Others(t, N) == stack' \in Stacks /\ \A u \in Threads \ {t} : Still(u, N)

Stays(t, f, N) ==
    /\ Others(t, N)
    /\ Len(stack[t]) > 0 /\ Len(stack'[t]) = Len(stack[t])
    /\ stack'[t][1] = f
    /\ \A i \in 2 .. Len(stack[t]) : stack'[t][i] = stack[t][i]

Calls(t, g, f) ==
    /\ Others(t, {})
    /\ Len(stack'[t]) = Len(stack[t]) + 1
    /\ stack'[t][1] = f
    /\ Len(stack[t]) > 0 => stack'[t][2] = g
    /\ \A i \in 2 .. Len(stack[t]) : stack'[t][i + 1] = stack[t][i]

Returns(t, f, N) ==
    /\ Others(t, N)
    /\ Len(stack[t]) > 0 /\ Len(stack'[t]) = Len(stack[t]) - 1
    /\ Len(stack[t]) > 1 => stack'[t][1] = f
    /\ \A i \in 3 .. Len(stack[t]) : stack'[t][i - 1] = stack[t][i]

(* A stack without its top frame, the one below replaced. *)
Popped(t, f) ==
    IF Tail(stack[t]) = <<>> THEN Tail(stack[t]) ELSE <<f>> \o Tail(Tail(stack[t]))

-----------------------------------------------------------------------------
(* What the operations on sequences do to a call stack. *)
LEMMA SeqReplace ==
    ASSUME NEW F, NEW s \in Seq(F), Len(s) > 0, NEW f \in F
    PROVE  /\ <<f>> \o Tail(s) \in Seq(F) /\ Len(<<f>> \o Tail(s)) = Len(s)
           /\ (<<f>> \o Tail(s))[1] = f
           /\ \A i \in 2 .. Len(s) : (<<f>> \o Tail(s))[i] = s[i]
<1>1. Tail(s) \in Seq(F) /\ Len(Tail(s)) = Len(s) - 1 /\ \A i \in 1 .. Len(s) - 1 : Tail(s)[i] = s[i + 1]
  OBVIOUS
<1>2. <<f>> \in Seq(F) /\ Len(<<f>>) = 1 /\ <<f>>[1] = f
  OBVIOUS
<1>3. <<f>> \o Tail(s) \in Seq(F) /\ Len(<<f>> \o Tail(s)) = Len(s)
  BY <1>1, <1>2
<1>4. \A i \in 1 .. Len(s) : (<<f>> \o Tail(s))[i] = IF i <= 1 THEN <<f>>[i] ELSE Tail(s)[i - 1]
  BY <1>1, <1>2
<1>5. \A i \in 2 .. Len(s) : Tail(s)[i - 1] = s[i]
  BY <1>1
<1> QED
  BY <1>2, <1>3, <1>4, <1>5

LEMMA SeqPush ==
    ASSUME NEW F, NEW s \in Seq(F), NEW f \in F
    PROVE  /\ <<f>> \o s \in Seq(F) /\ Len(<<f>> \o s) = Len(s) + 1
           /\ (<<f>> \o s)[1] = f
           /\ \A i \in 1 .. Len(s) : (<<f>> \o s)[i + 1] = s[i]
<1>2. <<f>> \in Seq(F) /\ Len(<<f>>) = 1 /\ <<f>>[1] = f
  OBVIOUS
<1>3. <<f>> \o s \in Seq(F) /\ Len(<<f>> \o s) = Len(s) + 1
  BY <1>2
<1>4. \A i \in 1 .. Len(s) + 1 : (<<f>> \o s)[i] = IF i <= 1 THEN <<f>>[i] ELSE s[i - 1]
  BY <1>2
<1> QED
  BY <1>2, <1>3, <1>4

LEMMA SeqCall ==
    ASSUME NEW F, NEW s \in Seq(F), Len(s) > 0, NEW f \in F, NEW g \in F
    PROVE  /\ <<f, g>> \o Tail(s) \in Seq(F) /\ Len(<<f, g>> \o Tail(s)) = Len(s) + 1
           /\ (<<f, g>> \o Tail(s))[1] = f /\ (<<f, g>> \o Tail(s))[2] = g
           /\ \A i \in 2 .. Len(s) : (<<f, g>> \o Tail(s))[i + 1] = s[i]
<1>1. Tail(s) \in Seq(F) /\ Len(Tail(s)) = Len(s) - 1 /\ \A i \in 1 .. Len(s) - 1 : Tail(s)[i] = s[i + 1]
  OBVIOUS
<1>2. <<f, g>> \in Seq(F) /\ Len(<<f, g>>) = 2 /\ <<f, g>>[1] = f /\ <<f, g>>[2] = g
  OBVIOUS
<1>3. <<f, g>> \o Tail(s) \in Seq(F) /\ Len(<<f, g>> \o Tail(s)) = Len(s) + 1
  BY <1>1, <1>2
<1>4. \A i \in 1 .. Len(s) + 1 :
        (<<f, g>> \o Tail(s))[i] = IF i <= 2 THEN <<f, g>>[i] ELSE Tail(s)[i - 2]
  BY <1>1, <1>2
<1>5. \A i \in 2 .. Len(s) : Tail(s)[i - 1] = s[i]
  BY <1>1
<1>6. \A i \in 2 .. Len(s) : (<<f, g>> \o Tail(s))[i + 1] = s[i]
  <2>1. TAKE i \in 2 .. Len(s)
  <2>2. i + 1 \in 1 .. Len(s) + 1 /\ ~(i + 1 <= 2) /\ (i + 1) - 2 = i - 1
    OBVIOUS
  <2> QED
    BY <1>4, <1>5, <2>2
<1>7. 1 \in 1 .. Len(s) + 1 /\ 2 \in 1 .. Len(s) + 1
  OBVIOUS
<1>8. (<<f, g>> \o Tail(s))[1] = f /\ (<<f, g>> \o Tail(s))[2] = g
  BY <1>2, <1>4, <1>7
<1> QED
  BY <1>3, <1>6, <1>8

LEMMA SeqHead ==
    ASSUME NEW F, NEW s \in Seq(F), Len(s) > 0
    PROVE  Head(s) = s[1] /\ s[1] \in F
OBVIOUS

LEMMA SeqReturn ==
    ASSUME NEW F, NEW s \in Seq(F), Len(s) > 0
    PROVE  /\ Tail(s) \in Seq(F) /\ Len(Tail(s)) = Len(s) - 1 /\ (Tail(s) = <<>> <=> Len(s) = 1)
           /\ Len(s) > 1 => Head(Tail(s)) = s[2]
           /\ \A f \in F : Len(s) > 1 =>
                /\ <<f>> \o Tail(Tail(s)) \in Seq(F) /\ Len(<<f>> \o Tail(Tail(s))) = Len(s) - 1
                /\ (<<f>> \o Tail(Tail(s)))[1] = f
                /\ \A i \in 3 .. Len(s) : (<<f>> \o Tail(Tail(s)))[i - 1] = s[i]
<1> DEFINE r == Tail(s)
<1>1. r \in Seq(F) /\ Len(r) = Len(s) - 1 /\ \A i \in 1 .. Len(s) - 1 : r[i] = s[i + 1]
  OBVIOUS
<1>0. Len(s) \in Nat /\ (Len(s) > 1 => Len(r) > 0 /\ 1 \in 1 .. Len(s) - 1)
  BY <1>1
<1> HIDE DEF r
<1>2. r = <<>> <=> Len(s) = 1
  BY <1>0, <1>1
<1>3. Len(s) > 1 => Head(r) = s[2]
  <2>1. Len(s) > 1 => Head(r) = r[1]
    BY <1>0, <1>1, SeqHead
  <2> QED
    BY <1>0, <1>1, <2>1
<1>4. ASSUME NEW f \in F, Len(s) > 1
      PROVE  /\ <<f>> \o Tail(r) \in Seq(F) /\ Len(<<f>> \o Tail(r)) = Len(s) - 1
             /\ (<<f>> \o Tail(r))[1] = f
             /\ \A i \in 3 .. Len(s) : (<<f>> \o Tail(r))[i - 1] = s[i]
  <2>2. /\ <<f>> \o Tail(r) \in Seq(F) /\ Len(<<f>> \o Tail(r)) = Len(r)
        /\ (<<f>> \o Tail(r))[1] = f
        /\ \A i \in 2 .. Len(r) : (<<f>> \o Tail(r))[i] = r[i]
    BY <1>0, <1>1, <1>4, SeqReplace
  <2>3. \A i \in 3 .. Len(s) : i - 1 \in 2 .. Len(r) /\ r[i - 1] = s[i]
    BY <1>1, <1>0
  <2> QED
    BY <1>1, <2>2, <2>3
<1> QED
  BY <1>1, <1>2, <1>3, <1>4 DEF r

(* notify_all wakes exactly the sleepers of one slot. *)
LEMMA NotifiedStacks ==
    ASSUME NEW st \in Stacks, NEW n
    PROVE  /\ Notified(st, n) \in Stacks
           /\ \A u \in Threads :
                /\ Len(Notified(st, n)[u]) = Len(st[u])
                /\ \A i \in 1 .. Len(st[u]) :
                    /\ Woke(Notified(st, n)[u][i], st[u][i])
                    /\ st[u][i].phase # "wait" \/ i > 1 => Notified(st, n)[u][i] = st[u][i]
                /\ Len(st[u]) > 0 =>
                    ~(Notified(st, n)[u][1].phase = "wait" /\ Notified(st, n)[u][1].node \in {n})
<1> DEFINE ns == Notified(st, n)
<1>1. ASSUME NEW u \in Threads
      PROVE  /\ ns[u] \in Seq(Frames) /\ Len(ns[u]) = Len(st[u])
             /\ \A i \in 1 .. Len(st[u]) :
                    /\ Woke(ns[u][i], st[u][i])
                    /\ st[u][i].phase # "wait" \/ i > 1 => ns[u][i] = st[u][i]
             /\ Len(st[u]) > 0 => ~(ns[u][1].phase = "wait" /\ ns[u][1].node \in {n})
  <2>0. st[u] \in Seq(Frames)
    BY DEF Stacks
  <2>1. CASE st[u] # <<>> /\ Head(st[u]).phase = "wait" /\ Head(st[u]).node = n
    <3> DEFINE f == [Head(st[u]) EXCEPT !.phase = "woken"]
    <3>1. Len(st[u]) > 0 /\ Head(st[u]) = st[u][1] /\ st[u][1] \in Frames
      BY <2>0, <2>1
    <3>2. f \in Frames /\ f.phase = "woken" /\ f.node = n
      BY <2>1, <3>1 DEF Frames
    <3>3. ns[u] = <<f>> \o Tail(st[u])
      BY <2>1 DEF Notified
    <3>4. Woke(f, st[u][1])
      BY <2>1, <3>1 DEF Woke
    <3>5. \A i \in 1 .. Len(st[u]) : i = 1 \/ i \in 2 .. Len(st[u])
      BY <2>0
    <3>6. \A g : Woke(g, g)
      BY DEF Woke
    <3> HIDE DEF f, ns
    <3>7. /\ ns[u] \in Seq(Frames) /\ Len(ns[u]) = Len(st[u]) /\ ns[u][1] = f
          /\ \A i \in 2 .. Len(st[u]) : ns[u][i] = st[u][i]
      BY <2>0, <3>1, <3>2, <3>3, SeqReplace
    <3> QED
      BY <2>1, <3>1, <3>2, <3>4, <3>5, <3>6, <3>7
  <2>2. CASE ~(st[u] # <<>> /\ Head(st[u]).phase = "wait" /\ Head(st[u]).node = n)
    <3>1. ns[u] = st[u]
      BY <2>2 DEF Notified
    <3>2. Len(st[u]) > 0 => st[u] # <<>> /\ Head(st[u]) = st[u][1]
      BY <2>0
    <3>3. \A g : Woke(g, g)
      BY DEF Woke
    <3> HIDE DEF ns
    <3> QED
      BY <2>0, <2>2, <3>1, <3>2, <3>3
  <2> QED
    BY <2>1, <2>2
<1>2. ns \in Stacks
  <2>1. ns = [u \in Threads |-> ns[u]]
    BY DEF Notified
  <2> HIDE DEF ns
  <2> QED
    BY <1>1, <2>1 DEF Stacks
<1> QED
  BY <1>1, <1>2

(* Nobody is woken where nobody is notified. *)
LEMMA StillSame ==
    ASSUME NEW u, stack'[u] = stack[u]
    PROVE  Still(u, {})
BY DEF Still, Woke

(* The top frame is replaced. *)
LEMMA Staying ==
    ASSUME Typed, NEW t \in Threads, stack[t] # <<>>, NEW f \in Frames, stack' = WithTop(t, f)
    PROVE  Stays(t, f, {})
<1>1. stack \in Stacks /\ stack[t] \in Seq(Frames) /\ Len(stack[t]) > 0
  BY DEF Typed, Stacks
<1>2. stack'[t] = <<f>> \o Tail(stack[t]) /\ \A u \in Threads \ {t} : stack'[u] = stack[u]
  BY <1>1 DEF WithTop, Stacks
<1>3. /\ stack'[t] \in Seq(Frames) /\ Len(stack'[t]) = Len(stack[t]) /\ stack'[t][1] = f
      /\ \A i \in 2 .. Len(stack[t]) : stack'[t][i] = stack[t][i]
  BY <1>1, <1>2, SeqReplace
<1>4. stack' \in Stacks
  BY <1>1, <1>3 DEF WithTop, Stacks
<1> QED
  BY <1>1, <1>2, <1>3, <1>4, StillSame DEF Stays, Others

LEMMA StayingNotified ==
    ASSUME Typed, NEW t \in Threads, stack[t] # <<>>, NEW f \in Frames, f.phase # "wait",
           NEW n, stack' = Notified(WithTop(t, f), n)
    PROVE  Stays(t, f, {n})
<1> DEFINE st == WithTop(t, f)
<1>1. stack \in Stacks /\ stack[t] \in Seq(Frames) /\ Len(stack[t]) > 0
  BY DEF Typed, Stacks
<1>2. st[t] = <<f>> \o Tail(stack[t]) /\ \A u \in Threads \ {t} : st[u] = stack[u]
  BY <1>1 DEF WithTop, Stacks
<1>3. /\ st[t] \in Seq(Frames) /\ Len(st[t]) = Len(stack[t]) /\ st[t][1] = f
      /\ \A i \in 2 .. Len(stack[t]) : st[t][i] = stack[t][i]
  BY <1>1, <1>2, SeqReplace
<1>4. st \in Stacks
  BY <1>1, <1>3 DEF WithTop, Stacks
<1> HIDE DEF st
<1>5. /\ stack' \in Stacks
      /\ \A u \in Threads :
           /\ Len(stack'[u]) = Len(st[u])
           /\ \A i \in 1 .. Len(st[u]) :
                /\ Woke(stack'[u][i], st[u][i])
                /\ st[u][i].phase # "wait" \/ i > 1 => stack'[u][i] = st[u][i]
           /\ Len(st[u]) > 0 => ~(stack'[u][1].phase = "wait" /\ stack'[u][1].node \in {n})
  BY <1>4, NotifiedStacks DEF st
<1>6. \A u \in Threads \ {t} : Still(u, {n})
  BY <1>2, <1>5 DEF Still
<1>7. 1 \in 1 .. Len(st[t]) /\ \A i \in 2 .. Len(stack[t]) : i \in 1 .. Len(st[t]) /\ i > 1
  BY <1>1, <1>3
<1> QED
  BY <1>1, <1>3, <1>5, <1>6, <1>7 DEF Stays, Others

(* A stack from which a get has returned. *)
LEMMA PoppedStack ==
    ASSUME Typed, NEW t \in Threads, stack[t] # <<>>, NEW f, Len(stack[t]) > 1 => f \in Frames
    PROVE  /\ Popped(t, f) \in Seq(Frames) /\ Len(Popped(t, f)) = Len(stack[t]) - 1
           /\ Len(stack[t]) > 1 => Popped(t, f)[1] = f
           /\ \A i \in 3 .. Len(stack[t]) : Popped(t, f)[i - 1] = stack[t][i]
<1>1. stack[t] \in Seq(Frames) /\ Len(stack[t]) > 0 /\ Len(stack[t]) \in Nat
  BY DEF Typed
<1>2. CASE Len(stack[t]) = 1
  <2>1. Popped(t, f) = Tail(stack[t])
    BY <1>1, <1>2, SeqReturn DEF Popped
  <2> QED
    BY <1>1, <1>2, <2>1, SeqReturn
<1>3. CASE Len(stack[t]) # 1
  <2> DEFINE l == Len(stack[t])
  <2>3. l \in Nat /\ l > 0 /\ l # 1 /\ (l > 1 => f \in Frames)
    BY <1>1, <1>3
  <2> HIDE DEF l
  <2>4. l > 1 /\ f \in Frames
    BY <2>3
  <2>0. Len(stack[t]) > 1 /\ f \in Frames
    BY <2>4 DEF l
  <2>1. Popped(t, f) = <<f>> \o Tail(Tail(stack[t]))
    BY <1>1, <1>3, SeqReturn DEF Popped
  <2>2. /\ <<f>> \o Tail(Tail(stack[t])) \in Seq(Frames)
        /\ Len(<<f>> \o Tail(Tail(stack[t]))) = Len(stack[t]) - 1
        /\ (<<f>> \o Tail(Tail(stack[t])))[1] = f
        /\ \A i \in 3 .. Len(stack[t]) : (<<f>> \o Tail(Tail(stack[t])))[i - 1] = stack[t][i]
    BY <1>1, <2>0, SeqReturn
  <2> QED
    BY <2>0, <2>1, <2>2
<1> QED
  BY <1>2, <1>3

(* A get returns to the frame below. *)
LEMMA Returning ==
    ASSUME Typed, NEW t \in Threads, stack[t] # <<>>, NEW f, Len(stack[t]) > 1 => f \in Frames,
           stack' = [stack EXCEPT ![t] = Popped(t, f)]
    PROVE  Returns(t, f, {})
<1>1. stack \in Stacks /\ stack[t] \in Seq(Frames) /\ Len(stack[t]) > 0
  BY DEF Typed, Stacks
<1>2. stack'[t] = Popped(t, f) /\ \A u \in Threads \ {t} : stack'[u] = stack[u]
  BY <1>1 DEF Stacks
<1>3. /\ Popped(t, f) \in Seq(Frames) /\ Len(Popped(t, f)) = Len(stack[t]) - 1
      /\ Len(stack[t]) > 1 => Popped(t, f)[1] = f
      /\ \A i \in 3 .. Len(stack[t]) : Popped(t, f)[i - 1] = stack[t][i]
  BY PoppedStack
<1>4. stack' \in Stacks
  BY <1>1, <1>3 DEF Stacks
<1> QED
  BY <1>1, <1>2, <1>3, <1>4, StillSame DEF Returns, Others

LEMMA ReturningNotified ==
    ASSUME Typed, NEW t \in Threads, stack[t] # <<>>, NEW f,
           Len(stack[t]) > 1 => f \in Frames /\ f.phase # "wait",
           NEW n, stack' = Notified([stack EXCEPT ![t] = Popped(t, f)], n)
    PROVE  Returns(t, f, {n})
<1> DEFINE st == [stack EXCEPT ![t] = Popped(t, f)]
<1>1. stack \in Stacks /\ stack[t] \in Seq(Frames) /\ Len(stack[t]) > 0
  BY DEF Typed, Stacks
<1>2. st[t] = Popped(t, f) /\ \A u \in Threads \ {t} : st[u] = stack[u]
  BY <1>1 DEF Stacks
<1>3. /\ Popped(t, f) \in Seq(Frames) /\ Len(Popped(t, f)) = Len(stack[t]) - 1
      /\ Len(stack[t]) > 1 => Popped(t, f)[1] = f
      /\ \A i \in 3 .. Len(stack[t]) : Popped(t, f)[i - 1] = stack[t][i]
  BY PoppedStack
<1>4. st \in Stacks
  BY <1>1, <1>3 DEF Stacks
<1>0. stack' = Notified(st, n)
  OBVIOUS
<1> HIDE DEF st
<1>5. /\ stack' \in Stacks
      /\ \A u \in Threads :
           /\ Len(stack'[u]) = Len(st[u])
           /\ \A i \in 1 .. Len(st[u]) :
                /\ Woke(stack'[u][i], st[u][i])
                /\ st[u][i].phase # "wait" \/ i > 1 => stack'[u][i] = st[u][i]
           /\ Len(st[u]) > 0 => ~(stack'[u][1].phase = "wait" /\ stack'[u][1].node \in {n})
  BY ONLY <1>0, <1>4, NotifiedStacks
<1>6. \A u \in Threads \ {t} : Still(u, {n})
  BY <1>2, <1>5 DEF Still
<1>7. \A i \in 3 .. Len(stack[t]) : i - 1 \in 1 .. Len(st[t]) /\ i - 1 > 1
  BY <1>1, <1>2, <1>3
<1>8. Len(stack[t]) > 1 => 1 \in 1 .. Len(st[t]) /\ st[t][1].phase # "wait"
  BY <1>1, <1>2, <1>3
<1>9. Len(stack[t]) > 1 => stack'[t][1] = f
  BY <1>2, <1>3, <1>5, <1>8
<1>10. \A i \in 3 .. Len(stack[t]) : stack'[t][i - 1] = stack[t][i]
  BY <1>2, <1>3, <1>5, <1>7
<1> QED
  BY <1>1, <1>2, <1>3, <1>5, <1>6, <1>9, <1>10 DEF Returns, Others

(* A provider makes a get, its own frame noting so. *)
LEMMA CallingOver ==
    ASSUME Typed, NEW t \in Threads, stack[t] # <<>>, NEW f \in Frames, NEW g \in Frames,
           stack' = [stack EXCEPT ![t] = <<f, g>> \o Tail(stack[t])]
    PROVE  Calls(t, g, f)
<1>1. stack \in Stacks /\ stack[t] \in Seq(Frames) /\ Len(stack[t]) > 0
  BY DEF Typed, Stacks
<1>2. stack'[t] = <<f, g>> \o Tail(stack[t]) /\ \A u \in Threads \ {t} : stack'[u] = stack[u]
  BY <1>1 DEF Stacks
<1>3. /\ stack'[t] \in Seq(Frames) /\ Len(stack'[t]) = Len(stack[t]) + 1
      /\ stack'[t][1] = f /\ stack'[t][2] = g
      /\ \A i \in 2 .. Len(stack[t]) : stack'[t][i + 1] = stack[t][i]
  BY <1>1, <1>2, SeqCall
<1>4. stack' \in Stacks
  BY <1>1, <1>3 DEF Stacks
<1> QED
  BY <1>1, <1>2, <1>3, <1>4, StillSame DEF Calls, Others

(* A validation ensures a dependency. *)
LEMMA CallingTop ==
    ASSUME Typed, NEW t \in Threads, stack[t] # <<>>, NEW f \in Frames,
           stack' = [stack EXCEPT ![t] = <<f>> \o stack[t]]
    PROVE  Calls(t, Top(t), f)
<1>1. stack \in Stacks /\ stack[t] \in Seq(Frames) /\ Len(stack[t]) > 0
  BY DEF Typed, Stacks
<1>0. Top(t) = stack[t][1] /\ 1 \in 1 .. Len(stack[t])
      /\ \A i \in 2 .. Len(stack[t]) : i \in 1 .. Len(stack[t])
  BY <1>1, SeqHead DEF Top
<1>2. stack'[t] = <<f>> \o stack[t] /\ \A u \in Threads \ {t} : stack'[u] = stack[u]
  BY <1>1 DEF Stacks
<1>3. /\ stack'[t] \in Seq(Frames) /\ Len(stack'[t]) = Len(stack[t]) + 1
      /\ stack'[t][1] = f
      /\ \A i \in 1 .. Len(stack[t]) : stack'[t][i + 1] = stack[t][i]
  BY <1>1, <1>2, SeqPush
<1>4. stack' \in Stacks
  BY <1>1, <1>3 DEF Stacks
<1>5. stack'[t][1 + 1] = Top(t)
  BY <1>0, <1>3
<1>6. 1 + 1 = 2
  OBVIOUS
<1> QED
  BY <1>0, <1>1, <1>2, <1>3, <1>4, <1>5, <1>6, StillSame DEF Calls, Others

(* A thread outside any query makes a get. *)
LEMMA CallingFirst ==
    ASSUME Typed, NEW t \in Threads, stack[t] = <<>>, NEW f \in Frames, NEW g,
           stack' = [stack EXCEPT ![t] = <<f>>]
    PROVE  Calls(t, g, f)
<1>1. stack \in Stacks /\ Len(stack[t]) = 0
  BY DEF Typed, Stacks
<1>2. stack'[t] = <<f>> /\ \A u \in Threads \ {t} : stack'[u] = stack[u]
  BY <1>1 DEF Stacks
<1>3. <<f>> \in Seq(Frames) /\ Len(<<f>>) = 1 /\ <<f>>[1] = f
  OBVIOUS
<1>4. stack' \in Stacks
  BY <1>1, <1>3 DEF Stacks
<1> QED
  BY <1>1, <1>2, <1>3, <1>4, StillSame DEF Calls, Others

-----------------------------------------------------------------------------
(* What each kind of step leaves of ownership, given what it does to the   *)
(* slots.                                                                  *)

LEMMA TopFrame ==
    ASSUME Typed, NEW t \in Threads, stack[t] # <<>>
    PROVE  /\ Top(t) = stack[t][1] /\ Top(t) \in Frames
           /\ Len(stack[t]) \in Nat /\ Len(stack[t]) > 0 /\ 1 \in 1 .. Len(stack[t])
           /\ Top(t).node \in Nodes
<1>1. stack[t] \in Seq(Frames) /\ Len(stack[t]) > 0 /\ Len(stack[t]) \in Nat
  BY DEF Typed
<1>2. Top(t) = stack[t][1] /\ Top(t) \in Frames
  BY <1>1, SeqHead DEF Top
<1> QED
  BY <1>1, <1>2 DEF Frames

(* Every frame is a frame. *)
LEMMA EveryFrame ==
    ASSUME Typed, NEW t \in Threads, NEW i \in 1 .. Len(stack[t])
    PROVE  stack[t][i] \in Frames /\ stack[t][i].node \in Nodes
<1>1. stack[t] \in Seq(Frames)
  BY DEF Typed
<1>2. stack[t][i] \in Frames
  BY <1>1
<1> QED
  BY <1>2 DEF Frames

(* Waking a sleeper changes nothing but its phase. *)
LEMMA Waking ==
    ASSUME NEW f \in Frames, NEW g, Woke(g, f)
    PROVE  /\ g \in Frames /\ g.node = f.node
           /\ g.phase = f.phase \/ g.phase = "woken"
           /\ g.phase \in Owning <=> f.phase \in Owning
           /\ FrameOK(f) => FrameOK(g)
           /\ CallerOK(f) => CallerOK(g)
           /\ g.phase = "wait" => g = f
           /\ f.phase # "wait" => g = f
<1>1. CASE g = f
  BY <1>1
<1>2. CASE f.phase = "wait" /\ g = [f EXCEPT !.phase = "woken"]
  <2>1. g \in Frames /\ g.node = f.node /\ g.phase = "woken"
    BY <1>2 DEF Frames
  <2> QED
    BY <1>2, <2>1 DEF Owning, FrameOK, CallerOK, Judging
<1> QED
  BY <1>1, <1>2 DEF Woke

(* The threads that the step is not about. *)
LEMMA StillThreads ==
    ASSUME FlightInv, NEW N, NEW u \in Threads, Still(u, N)
    PROVE  /\ Len(stack'[u]) = Len(stack[u])
           /\ \A i \in 1 .. Len(stack[u]) :
                /\ FrameOK(stack'[u][i]) /\ (i > 1 => CallerOK(stack'[u][i]))
                /\ stack'[u][i].node = stack[u][i].node
                /\ stack'[u][i].phase \in Owning <=> stack[u][i].phase \in Owning
           /\ \A i \in 1 .. Len(stack[u]) : \A n : (Owns(u, i, n))' <=> Owns(u, i, n)
           /\ (stack'[u] \in Seq(Frames) /\ At(u, "wait")') =>
                /\ At(u, "wait")
                /\ stack'[u][1].node = stack[u][1].node /\ stack[u][1].node \notin N
                /\ OnStack(u, stack[u][1].node)' <=> OnStack(u, stack[u][1].node)
<1>1. stack[u] \in Seq(Frames) /\ Len(stack[u]) \in Nat
  BY DEF FlightInv, Typed
<1>2. Len(stack'[u]) = Len(stack[u])
  BY DEF Still
<1>3. ASSUME NEW i \in 1 .. Len(stack[u])
      PROVE  /\ FrameOK(stack'[u][i]) /\ (i > 1 => CallerOK(stack'[u][i]))
             /\ stack'[u][i].node = stack[u][i].node
             /\ stack'[u][i].phase \in Owning <=> stack[u][i].phase \in Owning
             /\ \A n : (Owns(u, i, n))' <=> Owns(u, i, n)
             /\ stack'[u][i].phase = "wait" => stack[u][i].phase = "wait"
  <2>1. stack[u][i] \in Frames
    BY <1>1
  <2>2. Woke(stack'[u][i], stack[u][i])
    BY DEF Still
  <2>3. FrameOK(stack[u][i]) /\ (i > 1 => CallerOK(stack[u][i]))
    BY DEF FlightInv, FramesOK
  <2>4. /\ FrameOK(stack'[u][i]) /\ (i > 1 => CallerOK(stack'[u][i]))
        /\ stack'[u][i].node = stack[u][i].node
        /\ stack'[u][i].phase \in Owning <=> stack[u][i].phase \in Owning
        /\ stack'[u][i].phase = "wait" => stack[u][i].phase = "wait"
    BY <2>1, <2>2, <2>3, Waking
  <2> QED
    BY <2>4 DEF Owns
<1>4. ASSUME stack'[u] \in Seq(Frames), At(u, "wait")'
      PROVE  /\ At(u, "wait")
             /\ stack'[u][1].node = stack[u][1].node /\ stack[u][1].node \notin N
             /\ OnStack(u, stack[u][1].node)' <=> OnStack(u, stack[u][1].node)
  <2>1. stack'[u] # <<>> /\ Head(stack'[u]).phase = "wait"
    BY <1>4 DEF At, Top
  <2>2. Len(stack'[u]) > 0
    BY <1>4, <2>1
  <2>3. Head(stack'[u]) = stack'[u][1]
    BY <1>4, <2>2, SeqHead
  <2>4. Len(stack[u]) > 0 /\ stack[u] # <<>> /\ 1 \in 1 .. Len(stack[u])
    BY <1>1, <1>2, <2>2
  <2>5. Head(stack[u]) = stack[u][1]
    BY <1>1, <2>4, SeqHead
  <2>6. stack[u][1].phase = "wait" /\ stack'[u][1].node = stack[u][1].node
    BY <1>3, <2>1, <2>3, <2>4
  <2>7. stack[u][1].node \notin N
    BY <2>1, <2>3, <2>4, <2>6 DEF Still
  <2>8. At(u, "wait")
    BY <2>4, <2>5, <2>6 DEF At, Top
  <2>9. \A i \in 2 .. Len(stack[u]) : i \in 1 .. Len(stack[u])
    BY <1>1
  <2>10. (OnStack(u, stack[u][1].node))' <=> OnStack(u, stack[u][1].node)
    BY <1>2, <1>3, <2>6, <2>9 DEF OnStack
  <2> QED
    BY <2>6, <2>7, <2>8, <2>10
<1> QED
  BY <1>2, <1>3, <1>4

(* A frame takes its slot, keeps it, gives it up or does without. *)
LEMMA StaysFlight ==
    ASSUME FlightInv, NEW t \in Threads, stack[t] # <<>>, NEW f \in Frames, NEW N,
           Stays(t, f, N), f.node = Top(t).node, FrameOK(f),
           \A m \in Nodes \ {f.node} : Busy(m)' <=> Busy(m),
           f.phase \in Owning =>
                Busy(f.node)' /\ (Top(t).phase \in Owning \/ ~Busy(f.node)),
           f.phase \notin Owning /\ Top(t).phase \in Owning =>
                ~Busy(f.node)' /\ f.node \in N,
           f.phase \notin Owning /\ Top(t).phase \notin Owning =>
                (Busy(f.node)' <=> Busy(f.node)),
           f.phase = "wait" => Busy(f.node)' /\ ~OnStack(t, f.node)
    PROVE  FramesOK' /\ Single' /\ Sleepers'
<1> DEFINE n == f.node
<1>0. Typed /\ FramesOK /\ Single /\ Sleepers
  BY DEF FlightInv
<1>1. /\ Top(t) = stack[t][1] /\ Len(stack[t]) \in Nat /\ Len(stack[t]) > 0
      /\ 1 \in 1 .. Len(stack[t]) /\ n \in Nodes
      /\ \A i \in 1 .. Len(stack[t]) : i = 1 \/ i \in 2 .. Len(stack[t])
      /\ \A i \in 2 .. Len(stack[t]) : i # 1 /\ i > 1 /\ i \in 1 .. Len(stack[t])
  BY <1>0, TopFrame DEF Frames
<1>2. /\ stack' \in Stacks /\ Len(stack'[t]) = Len(stack[t]) /\ stack'[t][1] = f
      /\ \A i \in 2 .. Len(stack[t]) : stack'[t][i] = stack[t][i]
      /\ \A u \in Threads \ {t} : Still(u, N)
  BY DEF Stays, Others
<1>3. \A u \in Threads : Len(stack'[u]) = Len(stack[u]) /\ stack'[u] \in Seq(Frames)
  BY <1>2, StillThreads DEF Stacks
<1>4. /\ \A m : Owns(t, 1, m)' <=> (m = n /\ f.phase \in Owning)
      /\ \A m : Owns(t, 1, m) <=> (m = n /\ Top(t).phase \in Owning)
      /\ \A i \in 2 .. Len(stack[t]) : \A m : Owns(t, i, m)' <=> Owns(t, i, m)
  BY <1>1, <1>2 DEF Owns
<1>5. \A u \in Threads \ {t} : \A i \in 1 .. Len(stack[u]) : \A m : Owns(u, i, m)' <=> Owns(u, i, m)
  BY <1>2, StillThreads
<1>6. FramesOK'
  <2>1. ASSUME NEW u \in Threads, NEW i \in 1 .. Len(stack'[u])
        PROVE  FrameOK(stack'[u][i]) /\ (i > 1 => CallerOK(stack'[u][i]))
    <3>1. CASE u # t
      BY <1>2, <1>3, <3>1, StillThreads
    <3>2. CASE u = t /\ i = 1
      BY <1>2, <3>2
    <3>3. CASE u = t /\ i # 1
      <4>1. i \in 2 .. Len(stack[t]) /\ i \in 1 .. Len(stack[t]) /\ i > 1
        BY <1>1, <1>2, <3>3
      <4>2. FrameOK(stack[t][i]) /\ CallerOK(stack[t][i])
        BY <1>0, <4>1 DEF FramesOK
      <4> QED
        BY <1>2, <3>3, <4>1, <4>2
    <3> QED
      BY <3>1, <3>2, <3>3
  <2> QED
    BY <2>1 DEF FramesOK
<1>7. ASSUME NEW m \in Nodes, Busy(m)'
      PROVE  \E u \in Threads : \E i \in 1 .. Len(stack'[u]) : Owns(u, i, m)'
  <2>1. CASE m = n /\ f.phase \in Owning
    BY <1>1, <1>2, <1>4, <2>1
  <2>2. CASE ~(m = n /\ f.phase \in Owning)
    <3>1. Busy(m) /\ ~Owns(t, 1, m)
      BY <1>1, <1>4, <1>7, <2>2
    <3>0. PICK u \in Threads : \E i \in 1 .. Len(stack[u]) : Owns(u, i, m)
      BY <1>0, <3>1 DEF Single
    <3>2. PICK i \in 1 .. Len(stack[u]) : Owns(u, i, m)
      BY <3>0
    <3>3. Owns(u, i, m)'
      BY <1>1, <1>4, <1>5, <3>1, <3>2
    <3> QED
      BY <1>3, <3>2, <3>3
  <2> QED
    BY <2>1, <2>2
<1>8. ASSUME NEW m \in Nodes, NEW u \in Threads, NEW i \in 1 .. Len(stack'[u]), Owns(u, i, m)'
      PROVE  /\ Busy(m)'
             /\ \A v \in Threads : \A j \in 1 .. Len(stack'[v]) : Owns(v, j, m)' => u = v /\ i = j
  <2>0. i \in 1 .. Len(stack[u])
    BY <1>3
  <2>1. CASE u = t /\ i = 1
    <3>1. m = n /\ f.phase \in Owning /\ Busy(m)'
      BY <1>4, <1>8, <2>1
    <3>2. ASSUME NEW v \in Threads, NEW j \in 1 .. Len(stack'[v]), Owns(v, j, m)', ~(v = t /\ j = 1)
          PROVE  FALSE
      <4>1. j \in 1 .. Len(stack[v]) /\ Owns(v, j, m)
        BY <1>1, <1>3, <1>4, <1>5, <3>2
      <4>2. Busy(m)
        BY <1>0, <4>1 DEF Single
      <4>3. Top(t).phase \in Owning
        BY <3>1, <4>2
      <4>4. Owns(t, 1, m)
        BY <1>4, <3>1, <4>3
      <4> QED
        BY <1>0, <1>1, <3>2, <4>1, <4>4 DEF Single
    <3> QED
      BY <2>1, <3>1, <3>2
  <2>2. CASE ~(u = t /\ i = 1)
    <3>1. Owns(u, i, m)
      BY <1>1, <1>4, <1>5, <1>8, <2>0, <2>2
    <3>2. Busy(m) /\ \A v \in Threads : \A j \in 1 .. Len(stack[v]) : Owns(v, j, m) => u = v /\ i = j
      BY <1>0, <2>0, <3>1 DEF Single
    <3>3. ~Owns(t, 1, m)
      BY <1>1, <2>2, <3>2
    <3>4. m = n => Top(t).phase \notin Owning
      BY <1>4, <3>3
    <3>5. m = n => f.phase \notin Owning
      BY <3>2, <3>4
    <3>6. Busy(m)'
      BY <3>2, <3>4, <3>5
    <3>7. ASSUME NEW v \in Threads, NEW j \in 1 .. Len(stack'[v]), Owns(v, j, m)'
          PROVE  u = v /\ i = j
      <4>1. ~(v = t /\ j = 1)
        BY <1>4, <3>5, <3>7
      <4>2. j \in 1 .. Len(stack[v]) /\ Owns(v, j, m)
        BY <1>1, <1>3, <1>4, <1>5, <3>7, <4>1
      <4> QED
        BY <3>2, <4>2
    <3> QED
      BY <3>6, <3>7
  <2> QED
    BY <2>1, <2>2
<1>9. Single'
  BY <1>7, <1>8 DEF Single
<1>10. ASSUME NEW u \in Threads, At(u, "wait")'
       PROVE  Busy(Top(u).node)' /\ ~OnStack(u, Top(u).node)'
  <2>0. stack'[u] # <<>> /\ Top(u)' = stack'[u][1]
    <3>1. stack'[u] # <<>> /\ Len(stack'[u]) > 0
      BY <1>3, <1>10 DEF At
    <3> QED
      BY <1>3, <3>1, SeqHead DEF Top
  <2>1. CASE u = t
    <3>1. Top(t)' = f /\ f.phase = "wait"
      BY <1>2, <1>10, <2>0, <2>1 DEF At
    <3>2. OnStack(t, n)' <=> OnStack(t, n)
      BY <1>2 DEF OnStack
    <3> QED
      BY <2>1, <3>1, <3>2
  <2>2. CASE u # t
    <3>1. /\ At(u, "wait")
          /\ stack'[u][1].node = stack[u][1].node /\ stack[u][1].node \notin N
          /\ OnStack(u, stack[u][1].node)' <=> OnStack(u, stack[u][1].node)
      BY <1>2, <1>3, <1>10, <2>2, StillThreads
    <3>2. Top(u) = stack[u][1] /\ Top(u).node \in Nodes
      BY <1>0, <3>1, TopFrame DEF At
    <3>3. Busy(Top(u).node) /\ ~OnStack(u, Top(u).node)
      BY <1>0, <3>1 DEF Sleepers
    <3>4. Busy(Top(u).node) => (slot'[Top(u).node].state \in {"Computing", "Validating"})
      BY <3>1, <3>2 DEF Busy
    <3>5. Busy(Top(u).node)'
      BY <2>0, <3>1, <3>2, <3>3, <3>4 DEF Busy
    <3>6. ~OnStack(u, Top(u).node)'
      BY <2>0, <3>1, <3>2, <3>3
    <3> QED
      BY <3>5, <3>6
  <2> QED
    BY <2>1, <2>2
<1> QED
  BY <1>6, <1>9, <1>10 DEF Sleepers

(* A get is made: the caller keeps what it holds. *)
LEMMA CallsFlight ==
    ASSUME FlightInv, NEW t \in Threads, NEW f \in Frames, NEW g, Calls(t, g, f),
           f.phase = "lookup",
           Len(stack[t]) > 0 =>
                /\ g.node = Top(t).node /\ g.phase = Top(t).phase
                /\ FrameOK(g) /\ CallerOK(g),
           \A m \in Nodes : Busy(m)' <=> Busy(m)
    PROVE  FramesOK' /\ Single' /\ Sleepers'
<1>0. Typed /\ FramesOK /\ Single /\ Sleepers
  BY DEF FlightInv
<1> DEFINE l == Len(stack[t])
<1>1. /\ l \in Nat /\ (l > 0 => Top(t) = stack[t][1])
      /\ \A i \in 1 .. l : (i = 1 /\ l > 0) \/ i \in 2 .. l
      /\ \A i \in 2 .. l : i \in 1 .. l /\ i > 1
      /\ \A i \in 1 .. l : i + 1 \in 1 .. l + 1
      /\ \A i \in 1 .. l + 1 : i = 1 \/ (i - 1 \in 1 .. l /\ i = (i - 1) + 1)
      /\ 1 + 1 = 2
  <2>1. stack[t] \in Seq(Frames)
    BY <1>0 DEF Typed
  <2>2. l \in Nat /\ (l > 0 => stack[t] # <<>>)
    BY <2>1
  <2>3. l > 0 => Top(t) = stack[t][1]
    BY <1>0, <2>2, TopFrame
  <2> HIDE DEF l
  <2> QED
    BY <2>2, <2>3
<1>2. /\ stack' \in Stacks /\ Len(stack'[t]) = l + 1 /\ stack'[t][1] = f
      /\ l > 0 => stack'[t][2] = g
      /\ \A i \in 2 .. l : stack'[t][i + 1] = stack[t][i]
      /\ \A u \in Threads \ {t} : Still(u, {})
  BY DEF Calls, Others
<1>3. /\ \A u \in Threads : stack'[u] \in Seq(Frames)
      /\ \A u \in Threads \ {t} : Len(stack'[u]) = Len(stack[u])
  BY <1>2, StillThreads DEF Stacks
<1>4. /\ \A m : ~Owns(t, 1, m)'
      /\ \A i \in 1 .. l : \A m : Owns(t, i + 1, m)' <=> Owns(t, i, m)
  <2>1. \A m : ~Owns(t, 1, m)'
    BY <1>2 DEF Owns, Owning
  <2>2. ASSUME NEW i \in 1 .. l, NEW m
        PROVE  Owns(t, i + 1, m)' <=> Owns(t, i, m)
    <3>1. CASE i = 1 /\ l > 0
      BY <1>1, <1>2, <3>1 DEF Owns
    <3>2. CASE i \in 2 .. l
      BY <1>2, <3>2 DEF Owns
    <3> QED
      BY <1>1, <3>1, <3>2
  <2> QED
    BY <2>1, <2>2
<1>5. \A u \in Threads \ {t} : \A i \in 1 .. Len(stack[u]) : \A m : Owns(u, i, m)' <=> Owns(u, i, m)
  BY <1>2, StillThreads
<1>6. FramesOK'
  <2>1. ASSUME NEW u \in Threads, NEW i \in 1 .. Len(stack'[u])
        PROVE  FrameOK(stack'[u][i]) /\ (i > 1 => CallerOK(stack'[u][i]))
    <3>1. CASE u # t
      BY <1>2, <1>3, <3>1, StillThreads
    <3>2. CASE u = t /\ i = 1
      BY <1>2, <3>2 DEF FrameOK, Judging
    <3>3. CASE u = t /\ i # 1
      <4>1. PICK j \in 1 .. l : i = j + 1
        BY <1>1, <1>2, <3>3
      <4>2. CASE j = 1 /\ l > 0
        BY <1>1, <1>2, <3>3, <4>1, <4>2
      <4>3. CASE j \in 2 .. l
        <5>1. FrameOK(stack[t][j]) /\ CallerOK(stack[t][j])
          BY <1>0, <1>1, <4>3 DEF FramesOK
        <5> QED
          BY <1>2, <3>3, <4>1, <4>3, <5>1
      <4> QED
        BY <1>1, <4>2, <4>3
    <3> QED
      BY <3>1, <3>2, <3>3
  <2> QED
    BY <2>1 DEF FramesOK
<1> HIDE DEF l
<1>7. ASSUME NEW m \in Nodes, Busy(m)'
      PROVE  \E u \in Threads : \E i \in 1 .. Len(stack'[u]) : Owns(u, i, m)'
  <2>1. Busy(m)
    BY <1>7
  <2>2. PICK u \in Threads : \E i \in 1 .. Len(stack[u]) : Owns(u, i, m)
    BY <1>0, <2>1 DEF Single
  <2>3. PICK i \in 1 .. Len(stack[u]) : Owns(u, i, m)
    BY <2>2
  <2>4. CASE u = t
    <3>1. i \in 1 .. l /\ i + 1 \in 1 .. Len(stack'[t])
      BY <1>1, <1>2, <2>4 DEF l
    <3>2. Owns(t, i + 1, m)'
      BY <1>4, <2>3, <2>4, <3>1
    <3> QED
      BY <3>1, <3>2
  <2>5. CASE u # t
    BY <1>3, <1>5, <2>3, <2>5
  <2> QED
    BY <2>4, <2>5
<1>8. ASSUME NEW m \in Nodes, NEW u \in Threads, NEW i \in 1 .. Len(stack'[u]), Owns(u, i, m)'
      PROVE  \E k \in 1 .. Len(stack[u]) : Owns(u, k, m) /\ i = IF u = t THEN k + 1 ELSE k
  <2>1. CASE u = t
    <3>1. i # 1 /\ i \in 1 .. l + 1
      BY <1>2, <1>4, <1>8, <2>1
    <3>2. PICK k \in 1 .. l : i = k + 1
      BY <1>1, <3>1
    <3>3. Owns(t, k, m)
      BY <1>4, <1>8, <2>1, <3>2
    <3> QED
      BY <2>1, <3>2, <3>3 DEF l
  <2>2. CASE u # t
    BY <1>3, <1>5, <1>8, <2>2
  <2> QED
    BY <2>1, <2>2
<1>9. ASSUME NEW m \in Nodes, NEW u \in Threads, NEW i \in 1 .. Len(stack'[u]), Owns(u, i, m)'
      PROVE  /\ Busy(m)'
             /\ \A v \in Threads : \A j \in 1 .. Len(stack'[v]) : Owns(v, j, m)' => u = v /\ i = j
  <2>1. PICK k \in 1 .. Len(stack[u]) : Owns(u, k, m) /\ i = IF u = t THEN k + 1 ELSE k
    BY <1>8, <1>9
  <2>2. Busy(m) /\ \A v \in Threads : \A j \in 1 .. Len(stack[v]) : Owns(v, j, m) => u = v /\ k = j
    BY <1>0, <2>1 DEF Single
  <2>3. ASSUME NEW v \in Threads, NEW j \in 1 .. Len(stack'[v]), Owns(v, j, m)'
        PROVE  u = v /\ i = j
    <3>1. PICK h \in 1 .. Len(stack[v]) : Owns(v, h, m) /\ j = IF v = t THEN h + 1 ELSE h
      BY <1>8, <2>3
    <3>2. u = v /\ k = h
      BY <2>2, <3>1
    <3> QED
      BY <2>1, <3>1, <3>2
  <2> QED
    BY <2>2, <2>3
<1>10. Single'
  BY <1>7, <1>9 DEF Single
<1>11. ASSUME NEW u \in Threads, At(u, "wait")'
       PROVE  Busy(Top(u).node)' /\ ~OnStack(u, Top(u).node)'
  <2>0. stack'[u] # <<>> /\ Top(u)' = stack'[u][1]
    <3>1. stack'[u] # <<>> /\ Len(stack'[u]) > 0
      BY <1>3, <1>11 DEF At
    <3> QED
      BY <1>3, <3>1, SeqHead DEF Top
  <2>1. u # t
    BY <1>2, <1>11, <2>0 DEF At
  <2>2. /\ At(u, "wait") /\ stack'[u][1].node = stack[u][1].node
        /\ OnStack(u, stack[u][1].node)' <=> OnStack(u, stack[u][1].node)
    BY <1>2, <1>3, <1>11, <2>1, StillThreads
  <2>3. Top(u) = stack[u][1] /\ Top(u).node \in Nodes
    BY <1>0, <2>2, TopFrame DEF At
  <2>4. Busy(Top(u).node) /\ ~OnStack(u, Top(u).node)
    BY <1>0, <2>2 DEF Sleepers
  <2>5. Busy(Top(u).node) => (slot'[Top(u).node].state \in {"Computing", "Validating"})
    BY <2>3 DEF Busy
  <2> QED
    BY <2>0, <2>2, <2>3, <2>4, <2>5 DEF Busy
<1> QED
  BY <1>6, <1>10, <1>11 DEF Sleepers

(* A get returns: a slot it worked on is settled and its sleepers told. *)
LEMMA ReturnsFlight ==
    ASSUME FlightInv, NEW t \in Threads, stack[t] # <<>>, NEW f, NEW N, Returns(t, f, N),
           NEW n, n = Top(t).node,
           Len(stack[t]) > 1 =>
                f.node = stack[t][2].node /\ f.phase \in Owning /\ FrameOK(f),
           \A m \in Nodes \ {n} : Busy(m)' <=> Busy(m),
           Top(t).phase \in Owning => ~Busy(n)' /\ n \in N,
           Top(t).phase \notin Owning => (Busy(n)' <=> Busy(n))
    PROVE  FramesOK' /\ Single' /\ Sleepers'
<1>0. Typed /\ FramesOK /\ Single /\ Sleepers
  BY DEF FlightInv
<1> DEFINE l == Len(stack[t])
<1>1. Top(t) = stack[t][1] /\ l \in Nat /\ l > 0 /\ n \in Nodes /\ 1 \in 1 .. l
  BY <1>0, TopFrame
<1>2. /\ stack' \in Stacks /\ Len(stack'[t]) = l - 1
      /\ l > 1 => stack'[t][1] = f
      /\ \A i \in 3 .. l : stack'[t][i - 1] = stack[t][i]
      /\ \A u \in Threads \ {t} : Still(u, N)
  BY DEF Returns, Others
<1>3. /\ \A u \in Threads : stack'[u] \in Seq(Frames)
      /\ \A u \in Threads \ {t} : Len(stack'[u]) = Len(stack[u])
  BY <1>2, StillThreads DEF Stacks
<1>4. l > 1 => CallerOK(stack[t][2])
  <2>1. l > 1 => 2 \in 1 .. Len(stack[t]) /\ 2 > 1
    BY <1>1
  <2> QED
    BY <1>0, <2>1 DEF FramesOK
<1>5. l > 1 => (\A m : Owns(t, 1, m)' <=> Owns(t, 2, m))
  BY <1>2, <1>4 DEF Owns, CallerOK, Owning
<1>6. \A i \in 3 .. l : \A m : Owns(t, i - 1, m)' <=> Owns(t, i, m)
  BY <1>2 DEF Owns
<1>7. \A u \in Threads \ {t} : \A i \in 1 .. Len(stack[u]) : \A m : Owns(u, i, m)' <=> Owns(u, i, m)
  BY <1>2, StillThreads
<1>8. \A m : Owns(t, 1, m) <=> (m = n /\ Top(t).phase \in Owning)
  BY <1>1 DEF Owns
<1>9. \A i \in 1 .. l - 1 : i + 1 \in 1 .. l /\ (i = 1 => l > 1)
                            /\ (i # 1 => i + 1 \in 3 .. l) /\ (i + 1) - 1 = i /\ 1 + 1 = 2
  <2> HIDE DEF l
  <2> QED
    BY <1>1
<1>10. FramesOK'
  <2>1. ASSUME NEW u \in Threads, NEW i \in 1 .. Len(stack'[u])
        PROVE  FrameOK(stack'[u][i]) /\ (i > 1 => CallerOK(stack'[u][i]))
    <3>1. CASE u # t
      BY <1>2, <1>3, <3>1, StillThreads
    <3>2. CASE u = t /\ i = 1
      <4>1. l > 1
        BY <1>2, <1>9, <3>2
      <4> QED
        BY <1>2, <3>2, <4>1
    <3>3. CASE u = t /\ i # 1
      <4>1. i \in 1 .. l - 1 /\ i + 1 \in 3 .. l /\ i + 1 \in 1 .. Len(stack[t]) /\ i + 1 > 1
        BY <1>1, <1>2, <1>9, <3>3
      <4>2. FrameOK(stack[t][i + 1]) /\ CallerOK(stack[t][i + 1])
        BY <1>0, <4>1 DEF FramesOK
      <4>3. stack'[t][i] = stack[t][i + 1]
        BY <1>2, <1>9, <4>1
      <4> QED
        BY <3>3, <4>2, <4>3
    <3> QED
      BY <3>1, <3>2, <3>3
  <2> QED
    BY <2>1 DEF FramesOK
<1>11. \A i \in 2 .. l : i - 1 \in 1 .. l - 1 /\ (i # 2 => i \in 3 .. l) /\ (i = 2 => l > 1)
  <2> HIDE DEF l
  <2> QED
    BY <1>1
<1> HIDE DEF l
<1>12. ASSUME NEW m \in Nodes, NEW u \in Threads, NEW k \in 1 .. Len(stack[u]), Owns(u, k, m),
              ~(u = t /\ k = 1)
       PROVE  \E i \in 1 .. Len(stack'[u]) : Owns(u, i, m)'
  <2>1. CASE u = t
    <3>1. k \in 2 .. l
      BY <1>1, <1>12, <2>1 DEF l
    <3>2. k - 1 \in 1 .. Len(stack'[t])
      BY <1>2, <1>11, <3>1
    <3>3. Owns(t, k - 1, m)'
      <4>1. CASE k = 2
        <5>1. l > 1 /\ k - 1 = 1
          BY <1>11, <3>1, <4>1
        <5> QED
          BY <1>5, <1>12, <2>1, <4>1, <5>1
      <4>2. CASE k # 2
        BY <1>6, <1>11, <1>12, <2>1, <3>1, <4>2
      <4> QED
        BY <4>1, <4>2
    <3> QED
      BY <2>1, <3>2, <3>3
  <2>2. CASE u # t
    BY <1>3, <1>7, <1>12, <2>2
  <2> QED
    BY <2>1, <2>2
<1>13. ASSUME NEW m \in Nodes, NEW u \in Threads, NEW i \in 1 .. Len(stack'[u]), Owns(u, i, m)'
       PROVE  \E k \in 1 .. Len(stack[u]) :
                /\ Owns(u, k, m) /\ ~(u = t /\ k = 1)
                /\ k = IF u = t THEN i + 1 ELSE i
  <2>1. CASE u = t
    <3>1. i \in 1 .. l - 1 /\ i + 1 \in 1 .. Len(stack[t]) /\ i + 1 # 1
      BY <1>1, <1>2, <1>9, <2>1 DEF l
    <3>2. Owns(t, i + 1, m)
      <4>1. CASE i = 1
        <5>1. l > 1 /\ i + 1 = 2
          BY <1>9, <3>1, <4>1
        <5> QED
          BY <1>5, <1>13, <2>1, <4>1, <5>1
      <4>2. CASE i # 1
        <5>1. i + 1 \in 3 .. l /\ (i + 1) - 1 = i
          BY <1>9, <3>1, <4>2
        <5> QED
          BY <1>6, <1>13, <2>1, <5>1
      <4> QED
        BY <4>1, <4>2
    <3> QED
      BY <2>1, <3>1, <3>2
  <2>2. CASE u # t
    BY <1>3, <1>7, <1>13, <2>2
  <2> QED
    BY <2>1, <2>2
<1>14. ASSUME NEW m \in Nodes, Busy(m)'
       PROVE  \E u \in Threads : \E i \in 1 .. Len(stack'[u]) : Owns(u, i, m)'
  <2>1. Busy(m) /\ ~Owns(t, 1, m)
    BY <1>8, <1>14
  <2>2. PICK u \in Threads : \E i \in 1 .. Len(stack[u]) : Owns(u, i, m)
    BY <1>0, <2>1 DEF Single
  <2>3. PICK i \in 1 .. Len(stack[u]) : Owns(u, i, m)
    BY <2>2
  <2> QED
    BY <1>12, <2>1, <2>3
<1>15. ASSUME NEW m \in Nodes, NEW u \in Threads, NEW i \in 1 .. Len(stack'[u]), Owns(u, i, m)'
       PROVE  /\ Busy(m)'
              /\ \A v \in Threads : \A j \in 1 .. Len(stack'[v]) : Owns(v, j, m)' => u = v /\ i = j
  <2>1. PICK k \in 1 .. Len(stack[u]) :
            Owns(u, k, m) /\ ~(u = t /\ k = 1) /\ k = IF u = t THEN i + 1 ELSE i
    BY <1>13, <1>15
  <2>2. Busy(m) /\ \A v \in Threads : \A j \in 1 .. Len(stack[v]) : Owns(v, j, m) => u = v /\ k = j
    BY <1>0, <2>1 DEF Single
  <2>3. Busy(m)'
    <3>1. ~Owns(t, 1, m)
      BY <1>1, <2>1, <2>2 DEF l
    <3> QED
      BY <1>8, <2>2, <3>1
  <2>4. ASSUME NEW v \in Threads, NEW j \in 1 .. Len(stack'[v]), Owns(v, j, m)'
        PROVE  u = v /\ i = j
    <3>1. PICK h \in 1 .. Len(stack[v]) :
              Owns(v, h, m) /\ ~(v = t /\ h = 1) /\ h = IF v = t THEN j + 1 ELSE j
      BY <1>13, <2>4
    <3>2. u = v /\ k = h
      BY <2>2, <3>1
    <3>3. i \in Int /\ j \in Int
      BY <1>15, <2>4
    <3> QED
      BY <2>1, <3>1, <3>2, <3>3
  <2> QED
    BY <2>3, <2>4
<1>16. Single'
  BY <1>14, <1>15 DEF Single
<1>17. ASSUME NEW u \in Threads, At(u, "wait")'
       PROVE  Busy(Top(u).node)' /\ ~OnStack(u, Top(u).node)'
  <2>0. stack'[u] # <<>> /\ Top(u)' = stack'[u][1] /\ Len(stack'[u]) > 0
    <3>1. stack'[u] # <<>> /\ Len(stack'[u]) > 0
      BY <1>3, <1>17 DEF At
    <3> QED
      BY <1>3, <3>1, SeqHead DEF Top
  <2>1. u # t
    <3>1. u = t => l > 1
      BY <1>1, <1>2, <2>0
    <3> QED
      BY <1>2, <1>17, <2>0, <3>1 DEF At, Owning, l
  <2>2. /\ At(u, "wait") /\ stack'[u][1].node = stack[u][1].node /\ stack[u][1].node \notin N
        /\ OnStack(u, stack[u][1].node)' <=> OnStack(u, stack[u][1].node)
    BY <1>2, <1>3, <1>17, <2>1, StillThreads
  <2>3. Top(u) = stack[u][1] /\ Top(u).node \in Nodes
    BY <1>0, <2>2, TopFrame DEF At
  <2>4. Busy(Top(u).node) /\ ~OnStack(u, Top(u).node)
    BY <1>0, <2>2 DEF Sleepers
  <2>5. Busy(Top(u).node) => (slot'[Top(u).node].state \in {"Computing", "Validating"})
    BY <2>2, <2>3 DEF Busy
  <2> QED
    BY <2>0, <2>2, <2>3, <2>4, <2>5 DEF Busy
<1> QED
  BY <1>10, <1>16, <1>17 DEF Sleepers

(* Nobody's get moves: slots may be flagged, emptied or marked, but those  *)
(* that are worked on stay so.                                             *)
LEMMA RestsFlight ==
    ASSUME FlightInv, NEW N, Rests(N), \A m \in Nodes : Busy(m)' <=> Busy(m)
    PROVE  FramesOK' /\ Single' /\ Sleepers'
<1>0. Typed /\ FramesOK /\ Single /\ Sleepers
  BY DEF FlightInv
<1>1. \A u \in Threads : Still(u, N) /\ stack'[u] \in Seq(Frames)
  BY DEF Rests, Stacks
<1>2. \A u \in Threads : Len(stack'[u]) = Len(stack[u])
  BY <1>1 DEF Still
<1>3. \A u \in Threads : \A i \in 1 .. Len(stack[u]) :
        /\ FrameOK(stack'[u][i]) /\ (i > 1 => CallerOK(stack'[u][i]))
        /\ \A m : Owns(u, i, m)' <=> Owns(u, i, m)
  BY <1>1, StillThreads
<1>4. FramesOK'
  BY <1>2, <1>3 DEF FramesOK
<1>5. Single'
  <2>1. ASSUME NEW m \in Nodes, Busy(m)'
        PROVE  \E u \in Threads : \E i \in 1 .. Len(stack'[u]) : Owns(u, i, m)'
    <3>1. \E u \in Threads : \E i \in 1 .. Len(stack[u]) : Owns(u, i, m)
      BY <1>0, <2>1 DEF Single
    <3> QED
      BY <1>2, <1>3, <3>1
  <2>2. ASSUME NEW m \in Nodes, NEW u \in Threads, NEW i \in 1 .. Len(stack'[u]), Owns(u, i, m)'
        PROVE  /\ Busy(m)'
               /\ \A v \in Threads : \A j \in 1 .. Len(stack'[v]) : Owns(v, j, m)' => u = v /\ i = j
    <3>1. i \in 1 .. Len(stack[u]) /\ Owns(u, i, m)
      BY <1>2, <1>3, <2>2
    <3>2. Busy(m) /\ \A v \in Threads : \A j \in 1 .. Len(stack[v]) : Owns(v, j, m) => u = v /\ i = j
      BY <1>0, <3>1 DEF Single
    <3> QED
      BY <1>2, <1>3, <3>2
  <2> QED
    BY <2>1, <2>2 DEF Single
<1>6. ASSUME NEW u \in Threads, At(u, "wait")'
      PROVE  Busy(Top(u).node)' /\ ~OnStack(u, Top(u).node)'
  <2>0. stack'[u] # <<>> /\ Top(u)' = stack'[u][1]
    <3>1. stack'[u] # <<>> /\ Len(stack'[u]) > 0
      BY <1>1, <1>6 DEF At
    <3> QED
      BY <1>1, <3>1, SeqHead DEF Top
  <2>2. /\ At(u, "wait") /\ stack'[u][1].node = stack[u][1].node
        /\ OnStack(u, stack[u][1].node)' <=> OnStack(u, stack[u][1].node)
    BY <1>1, <1>6, StillThreads
  <2>3. Top(u) = stack[u][1] /\ Top(u).node \in Nodes
    BY <1>0, <2>2, TopFrame DEF At
  <2>4. Busy(Top(u).node) /\ ~OnStack(u, Top(u).node)
    BY <1>0, <2>2 DEF Sleepers
  <2>5. Busy(Top(u).node) => (slot'[Top(u).node].state \in {"Computing", "Validating"})
    BY <2>3 DEF Busy
  <2> QED
    BY <2>0, <2>2, <2>3, <2>4, <2>5 DEF Busy
<1> QED
  BY <1>4, <1>5, <1>6 DEF Sleepers

(* The stacks do not change, or one slot's sleepers are told. *)
LEMMA Resting ==
    ASSUME Typed, UNCHANGED stack
    PROVE  Rests({})
BY StillSame DEF Rests, Stacks, Typed

LEMMA RestingNotified ==
    ASSUME Typed, NEW n, stack' = Notified(stack, n)
    PROVE  Rests({n})
<1>1. stack \in Stacks
  BY DEF Typed, Stacks
<1>2. /\ Notified(stack, n) \in Stacks
      /\ \A u \in Threads :
           /\ Len(Notified(stack, n)[u]) = Len(stack[u])
           /\ \A i \in 1 .. Len(stack[u]) : Woke(Notified(stack, n)[u][i], stack[u][i])
           /\ Len(stack[u]) > 0 =>
                ~(Notified(stack, n)[u][1].phase = "wait" /\ Notified(stack, n)[u][1].node \in {n})
  BY <1>1, NotifiedStacks
<1> QED
  BY <1>2 DEF Rests, Still

-----------------------------------------------------------------------------
(* The types of what frames and slots are made of. *)

LEMMA NothingRead == <<>> \in ReadValues
<1>1. <<>> \in Seq(Values) /\ Len(<<>>) = 0
  OBVIOUS
<1>2. <<>> \in [1 .. 0 -> Values]
  BY <1>1
<1>3. 0 \in 0 .. MaxReads
  BY ProvidersAssumption
<1> QED
  BY <1>2, <1>3 DEF ReadValues

LEMMA ReadsAreSequences ==
    ASSUME NEW reads \in ReadValues
    PROVE  reads \in Seq(Values) /\ Len(reads) \in 0 .. MaxReads
<1>1. PICK k \in 0 .. MaxReads : reads \in [1 .. k -> Values]
  BY DEF ReadValues
<1>2. k \in Nat
  BY <1>1, ProvidersAssumption
<1>3. reads \in Seq(Values) /\ Len(reads) = k
  BY <1>1, <1>2
<1> QED
  BY <1>3

LEMMA OneMoreRead ==
    ASSUME NEW reads \in ReadValues, Len(reads) # MaxReads, NEW v \in Values
    PROVE  Append(reads, v) \in ReadValues
<1>1. reads \in Seq(Values) /\ Len(reads) \in 0 .. MaxReads
  BY ReadsAreSequences
<1>2. Len(reads) + 1 \in 0 .. MaxReads
  BY <1>1, ProvidersAssumption
<1>3. Append(reads, v) \in Seq(Values) /\ Len(Append(reads, v)) = Len(reads) + 1
  BY <1>1
<1> DEFINE s == Append(reads, v)
           k == Len(reads) + 1
<1>4. s \in Seq(Values) /\ Len(s) = k /\ k \in 0 .. MaxReads
  BY <1>2, <1>3
<1> HIDE DEF s, k
<1>5. s \in [1 .. k -> Values]
  BY <1>4
<1>6. s \in ReadValues
  BY <1>4, <1>5 DEF ReadValues
<1> QED
  BY <1>6 DEF s

LEMMA NoPayloadTyped ==
    /\ NoFingerprints \in Reads /\ NoFingerprints \in Evidence
    /\ NoPayload \in Payloads /\ NoPayload.value = NoFingerprint
<1>1. NoFingerprint \in Fingerprints
  BY DEF Fingerprints, NoFingerprint
<1>2. /\ NoFingerprints \in [{} -> Fingerprints]
      /\ NoFingerprints \in [{} -> Fingerprints \cup {RetiredNode}]
  BY DEF NoFingerprints
<1>3. {} \in SUBSET Nodes
  OBVIOUS
<1>4. NoFingerprints \in Reads /\ NoFingerprints \in Evidence
  BY <1>2, <1>3 DEF Reads, Evidence
<1> QED
  BY <1>1, <1>4 DEF NoPayload, Payload, Payloads

LEMMA RecordedTyped ==
    ASSUME NEW deps \in Reads, NEW n \in Nodes, NEW fingerprint \in Fingerprints
    PROVE  Recorded(deps, n, fingerprint) \in Reads
<1>1. PICK D \in SUBSET Nodes : deps \in [D -> Fingerprints]
  BY DEF Reads
<1>2. Recorded(deps, n, fingerprint) \in [D \cup {n} -> Fingerprints]
  BY <1>1 DEF Recorded
<1>3. D \cup {n} \in SUBSET Nodes
  BY <1>1
<1> QED
  BY <1>2, <1>3 DEF Reads

LEMMA EvidenceTyped ==
    /\ \A deps \in Reads : deps \in Evidence /\ DOMAIN deps \in SUBSET Nodes
    /\ \A deps \in Evidence : /\ DOMAIN deps \in SUBSET Nodes
                              /\ \A d \in DOMAIN deps : deps[d] \in Fingerprints \cup {RetiredNode}
<1>1. ASSUME NEW deps \in Reads
      PROVE  deps \in Evidence /\ DOMAIN deps \in SUBSET Nodes
  <2>1. PICK D \in SUBSET Nodes : deps \in [D -> Fingerprints]
    BY DEF Reads
  <2>2. deps \in [D -> Fingerprints \cup {RetiredNode}] /\ DOMAIN deps = D
    BY <2>1
  <2> QED
    BY <2>1, <2>2 DEF Evidence
<1>2. ASSUME NEW deps \in Evidence
      PROVE  /\ DOMAIN deps \in SUBSET Nodes
             /\ \A d \in DOMAIN deps : deps[d] \in Fingerprints \cup {RetiredNode}
  <2>1. PICK D \in SUBSET Nodes : deps \in [D -> Fingerprints \cup {RetiredNode}]
    BY DEF Evidence
  <2> QED
    BY <2>1
<1> QED
  BY <1>1, <1>2

LEMMA FrameTyped ==
    ASSUME NEW n \in Nodes
    PROVE  /\ Frame(n) \in Frames /\ Frame(n).node = n /\ Frame(n).phase = "lookup"
           /\ FrameOK(Frame(n))
<1>1. Frame(n) \in Frames
  BY NothingRead, NoPayloadTyped DEF Frame, Frames, NoStale
<1> QED
  BY <1>1 DEF Frame, FrameOK, Judging

LEMMA PhaseTyped ==
    ASSUME NEW f \in Frames, NEW p \in Owning \cup {"lookup", "wait", "woken"}
    PROVE  /\ [f EXCEPT !.phase = p] \in Frames /\ [f EXCEPT !.phase = p].node = f.node
           /\ [f EXCEPT !.phase = p].phase = p /\ [f EXCEPT !.phase = p].kept = f.kept
           /\ [f EXCEPT !.phase = p].reads = f.reads
BY DEF Frames

(* A provider that has read all it can is done. *)
LEMMA CallerReads ==
    ASSUME NEW f \in Frames, NextOf(f) # Done
    PROVE  Len(f.reads) # MaxReads /\ NextOf(f) \in Nodes
<1>1. f.node \in Nodes /\ f.reads \in ReadValues
  BY DEF Frames
<1> QED
  BY <1>1, ProvidersAssumption DEF NextOf

(* What becomes of a caller: a provider reads on or fails, a validation    *)
(* compares or gives up.                                                   *)
Resumed(g, f) ==
    /\ g \in Frames /\ f \in Frames /\ f.node = g.node /\ f.kept = g.kept
    /\ FrameOK(f) /\ CallerOK(g)
    /\ IF g.phase = "run" THEN f.phase \in {"run", "fail"}
       ELSE f.phase \in {"compare", "error"} /\ f.reads = g.reads

LEMMA ReceivedFrame ==
    ASSUME NEW f \in Frames, FrameOK(f), CallerOK(f), NEW n \in Nodes, NEW v \in Values,
           NEW fingerprint \in Fingerprints
    PROVE  Resumed(f, Received(f, n, v, fingerprint))
<1> DEFINE r == Received(f, n, v, fingerprint)
<1>1. CASE f.phase = "run"
  <2>1. Append(f.reads, v) \in ReadValues
    <3>1. f.reads \in ReadValues
      BY DEF Frames
    <3> QED
      BY <1>1, <3>1, CallerReads, OneMoreRead DEF CallerOK
  <2>2. Recorded(f.deps, n, fingerprint) \in Reads
    BY RecordedTyped DEF Frames
  <2>3. r = [f EXCEPT !.reads = Append(f.reads, v), !.deps = Recorded(f.deps, n, fingerprint)]
    BY <1>1 DEF Received
  <2>4. r \in Frames /\ r.node = f.node /\ r.phase = "run" /\ r.kept = f.kept
    BY <1>1, <2>1, <2>2, <2>3 DEF Frames
  <2> HIDE DEF r
  <2>5. FrameOK(r)
    BY <2>4 DEF FrameOK, Judging
  <2> QED
    BY <1>1, <2>4, <2>5 DEF Resumed, r
<1>2. CASE f.phase = "validate"
  <2>1. r = [f EXCEPT !.phase = "compare"]
    BY <1>2 DEF Received
  <2>2. r \in Frames /\ r.node = f.node /\ r.phase = "compare" /\ r.kept = f.kept
        /\ r.reads = f.reads
    BY <2>1 DEF Frames, Owning
  <2> HIDE DEF r
  <2>3. FrameOK(r)
    BY <1>2, <2>2 DEF FrameOK, Judging
  <2> QED
    BY <1>2, <2>2, <2>3 DEF Resumed, r
<1> QED
  BY <1>1, <1>2 DEF CallerOK

RaisedFrame(f) == [f EXCEPT !.phase = IF @ = "run" THEN "fail" ELSE "error"]

LEMMA RaisedFrames ==
    ASSUME NEW f \in Frames, FrameOK(f), CallerOK(f)
    PROVE  Resumed(f, RaisedFrame(f))
<1> DEFINE r == RaisedFrame(f)
<1>1. CASE f.phase = "run"
  <2>2. r \in Frames /\ r.node = f.node /\ r.phase = "fail" /\ r.kept = f.kept
    BY <1>1 DEF Frames, Owning, RaisedFrame
  <2> HIDE DEF r
  <2>3. FrameOK(r)
    BY <2>2 DEF FrameOK, Judging
  <2> QED
    BY <1>1, <2>2, <2>3 DEF Resumed, r
<1>2. CASE f.phase = "validate"
  <2>2. r \in Frames /\ r.node = f.node /\ r.phase = "error" /\ r.kept = f.kept
        /\ r.reads = f.reads
    BY <1>2 DEF Frames, Owning, RaisedFrame
  <2> HIDE DEF r
  <2>3. FrameOK(r)
    BY <1>2, <2>2 DEF FrameOK, Judging
  <2> QED
    BY <1>2, <2>2, <2>3 DEF Resumed, r
<1> QED
  BY <1>1, <1>2 DEF CallerOK

(* The frame below the top, if there is one. *)
LEMMA CallerFrame ==
    ASSUME Typed, FramesOK, NEW t \in Threads, stack[t] # <<>>, Len(stack[t]) > 1
    PROVE  /\ Head(Tail(stack[t])) = stack[t][2] /\ stack[t][2] \in Frames
           /\ FrameOK(stack[t][2]) /\ CallerOK(stack[t][2])
<1>1. stack[t] \in Seq(Frames) /\ Len(stack[t]) > 0 /\ Len(stack[t]) \in Nat
  BY DEF Typed
<1>2. 2 \in 1 .. Len(stack[t]) /\ 2 > 1
  BY <1>1
<1>3. Head(Tail(stack[t])) = stack[t][2]
  BY <1>1, SeqReturn
<1>4. stack[t][2] \in Frames
  BY <1>1, <1>2
<1> QED
  BY <1>2, <1>3, <1>4 DEF FramesOK

(* get returns with a value or an error, its slot's sleepers being told or *)
(* not.                                                                    *)
Resumes(t, f, N) == Returns(t, f, N) /\ (Len(stack[t]) > 1 => Resumed(stack[t][2], f))

LEMMA ResumesAny ==
    ASSUME Typed, FramesOK, NEW t \in Threads, stack[t] # <<>>, NEW f,
           Len(stack[t]) > 1 => Resumed(Head(Tail(stack[t])), f)
    PROVE  /\ stack' = [stack EXCEPT ![t] = Popped(t, f)] => Resumes(t, f, {})
           /\ \A n : stack' = Notified([stack EXCEPT ![t] = Popped(t, f)], n) => Resumes(t, f, {n})
<1>1. Len(stack[t]) > 1 => Resumed(stack[t][2], f) /\ f \in Frames /\ f.phase # "wait"
  BY CallerFrame DEF Resumed
<1>2. stack' = [stack EXCEPT ![t] = Popped(t, f)] => Returns(t, f, {})
  BY <1>1, Returning
<1>3. \A n : stack' = Notified([stack EXCEPT ![t] = Popped(t, f)], n) => Returns(t, f, {n})
  BY <1>1, ReturningNotified
<1> QED
  BY <1>1, <1>2, <1>3 DEF Resumes

LEMMA GivesValue ==
    ASSUME Typed, FramesOK, NEW t \in Threads, stack[t] # <<>>, NEW v \in Values,
           NEW fingerprint \in Fingerprints
    PROVE  /\ stack' = [stack EXCEPT ![t] = Returned(t, v, fingerprint)] =>
                \E f : Resumes(t, f, {})
           /\ \A n : stack' = Notified([stack EXCEPT ![t] = Returned(t, v, fingerprint)], n) =>
                \E f : Resumes(t, f, {n})
<1> DEFINE f == Received(Head(Tail(stack[t])), Top(t).node, v, fingerprint)
<1>1. Returned(t, v, fingerprint) = Popped(t, f)
  BY DEF Returned, Popped
<1>2. Len(stack[t]) > 1 => Resumed(Head(Tail(stack[t])), f)
  BY CallerFrame, TopFrame, ReceivedFrame
<1> HIDE DEF f
<1> QED
  BY <1>1, <1>2, ResumesAny

LEMMA GivesError ==
    ASSUME Typed, FramesOK, NEW t \in Threads, stack[t] # <<>>
    PROVE  /\ stack' = [stack EXCEPT ![t] = Raised(t)] => \E f : Resumes(t, f, {})
           /\ \A n : stack' = Notified([stack EXCEPT ![t] = Raised(t)], n) =>
                \E f : Resumes(t, f, {n})
<1> DEFINE f == RaisedFrame(Head(Tail(stack[t])))
<1>1. Raised(t) = Popped(t, f)
  BY DEF Raised, Popped, RaisedFrame
<1>2. Len(stack[t]) > 1 => Resumed(Head(Tail(stack[t])), f)
  BY CallerFrame, RaisedFrames
<1> HIDE DEF f
<1> QED
  BY <1>1, <1>2, ResumesAny

-----------------------------------------------------------------------------
(* Slots, the graph and invalidations. *)

LEMMA SlotTyped ==
    ASSUME NEW p \in Payloads
    PROVE  /\ Empty \in Slots /\ SlotOK(Empty) /\ Empty.state = "Empty"
           /\ Computing \in Slots /\ SlotOK(Computing) /\ Computing.state = "Computing"
           /\ Validating \in Slots /\ SlotOK(Validating) /\ Validating.state = "Validating"
           /\ Ready(p) \in Slots /\ (p.value \in Values => SlotOK(Ready(p)))
           /\ Ready(p).state = "Ready" /\ Ready(p).payload = p
           /\ PotentiallyOutdated(p) \in Slots
           /\ (p.value \in Values /\ p.fingerprint # NoFingerprint) => SlotOK(PotentiallyOutdated(p))
           /\ PotentiallyOutdated(p).state = "PotentiallyOutdated"
           /\ PotentiallyOutdated(p).payload = p
BY NoPayloadTyped DEF Empty, Computing, Validating, Ready, PotentiallyOutdated, Slot, Slots, SlotOK

(* One slot is set. *)
LEMMA SettingSlot ==
    ASSUME Typed, SlotsOK, NEW n \in Nodes, NEW s \in Slots, SlotOK(s), SetSlot(n, s)
    PROVE  /\ slot' \in [Nodes -> Slots] /\ SlotsOK' /\ slot'[n] = s
           /\ \A m \in Nodes \ {n} : slot'[m] = slot[m]
           /\ \A m \in Nodes \ {n} : Busy(m)' <=> Busy(m)
           /\ Busy(n)' <=> s.state \in {"Computing", "Validating"}
<1>1. slot \in [Nodes -> Slots] /\ slot' = [slot EXCEPT ![n] = s]
  BY DEF Typed, SetSlot
<1>2. slot' \in [Nodes -> Slots] /\ slot'[n] = s /\ \A m \in Nodes \ {n} : slot'[m] = slot[m]
  BY <1>1
<1>3. SlotsOK'
  BY <1>2 DEF SlotsOK
<1> QED
  BY <1>2, <1>3 DEF Busy

LEMMA SlotsUnchanged ==
    ASSUME Typed, SlotsOK, UNCHANGED slot
    PROVE  slot' \in [Nodes -> Slots] /\ SlotsOK' /\ \A m : Busy(m)' <=> Busy(m)
BY DEF Typed, SlotsOK, Busy

LEMMA GraphTyped ==
    ASSUME Typed
    PROVE  /\ \A S : remove_dependencies_from(S) =>
                /\ forward' \in [Nodes -> SUBSET Nodes] /\ reverse' \in [Nodes -> SUBSET Nodes]
                /\ \A m \in Nodes : forward'[m] = IF m \in S THEN {} ELSE forward[m]
           /\ \A n \in Nodes : \A T \in SUBSET Nodes : replace_dependencies_from(n, T) =>
                /\ forward' \in [Nodes -> SUBSET Nodes] /\ reverse' \in [Nodes -> SUBSET Nodes]
                /\ \A m \in Nodes \ {n} : forward'[m] = forward[m]
           /\ UNCHANGED graph =>
                forward' \in [Nodes -> SUBSET Nodes] /\ reverse' \in [Nodes -> SUBSET Nodes]
<1>1. forward \in [Nodes -> SUBSET Nodes] /\ reverse \in [Nodes -> SUBSET Nodes]
  BY DEF Typed
<1>2. ASSUME NEW S, remove_dependencies_from(S)
      PROVE  /\ forward' \in [Nodes -> SUBSET Nodes] /\ reverse' \in [Nodes -> SUBSET Nodes]
             /\ \A m \in Nodes : forward'[m] = IF m \in S THEN {} ELSE forward[m]
  BY <1>1, <1>2 DEF remove_dependencies_from, RemovedForward, RemovedReverse
<1>3. ASSUME NEW n \in Nodes, NEW T \in SUBSET Nodes, replace_dependencies_from(n, T)
      PROVE  /\ forward' \in [Nodes -> SUBSET Nodes] /\ reverse' \in [Nodes -> SUBSET Nodes]
             /\ \A m \in Nodes \ {n} : forward'[m] = forward[m]
  BY <1>1, <1>3 DEF replace_dependencies_from
<1>4. UNCHANGED graph => forward' = forward /\ reverse' = reverse
  BY DEF graph
<1> QED
  BY <1>1, <1>2, <1>3, <1>4

LEMMA RevisionTyped ==
    ASSUME Typed, NEW f \in Frames, f.kept.value \in Values
    PROVE  /\ TakeRevision(f) => revision' \in [Nodes -> Nat]
           /\ FingerprintOf(f) \in Fingerprints
<1>1. f.node \in Nodes /\ revision \in [Nodes -> Nat] /\ f.stale \in Payloads
  BY DEF Typed, Frames
<1>2. f.stale.fingerprint \in Fingerprints
  BY <1>1 DEF Payloads
<1>3. f.kept.value \in Nat
  BY ValuesAssumption
<1> QED
  BY <1>1, <1>2, <1>3 DEF TakeRevision, FingerprintOf, Fingerprints, NoFingerprint

(* Whoever is inside a query has no invalidation in progress. *)
LEMMA TasksKeep ==
    ASSUME FlightInv, NEW t \in Threads, stack[t] # <<>> \/ task[t] = NoTask, NEW N, Others(t, N),
           UNCHANGED task
    PROVE  TasksOK'
<1>1. task[t] = NoTask
  BY DEF FlightInv, TasksOK
<1>2. ASSUME NEW u \in Threads, task[u] # NoTask
      PROVE  stack'[u] = <<>>
  <2>1. stack[u] = <<>> /\ u # t
    BY <1>1, <1>2 DEF FlightInv, TasksOK
  <2>2. Len(stack'[u]) = Len(stack[u]) /\ stack'[u] \in Seq(Frames)
    BY <2>1 DEF Others, Still, Stacks
  <2>3. Len(stack[u]) = 0
    BY <2>1
  <2> QED
    BY <2>2, <2>3
<1> QED
  BY <1>2 DEF FlightInv, TasksOK

(* A step of a get, put together. *)
LEMMA GetStep ==
    ASSUME FlightInv, NEW t \in Threads, stack[t] # <<>> \/ task[t] = NoTask, NEW N, Others(t, N),
           slot' \in [Nodes -> Slots], revision' \in [Nodes -> Nat],
           forward' \in [Nodes -> SUBSET Nodes], reverse' \in [Nodes -> SUBSET Nodes],
           poisoned' \in BOOLEAN, UNCHANGED <<task, cell, changes>>,
           SlotsOK', FramesOK' /\ Single' /\ Sleepers'
    PROVE  FlightInv'
<1>1. TasksOK'
  BY TasksKeep
<1>2. Typed'
  BY DEF FlightInv, Typed, Others, Stacks
<1> QED
  BY <1>1, <1>2 DEF FlightInv

(* The top frame moves on and no slot changes. *)
LEMMA QuietStep ==
    ASSUME FlightInv, NEW t \in Threads, stack[t] # <<>>, NEW f \in Frames,
           f.node = Top(t).node, FrameOK(f),
           f.phase \in Owning <=> Top(t).phase \in Owning,
           f.phase = "wait" => Busy(f.node) /\ ~OnStack(t, f.node),
           stack' = WithTop(t, f),
           revision' \in [Nodes -> Nat], forward' \in [Nodes -> SUBSET Nodes],
           reverse' \in [Nodes -> SUBSET Nodes], poisoned' \in BOOLEAN,
           UNCHANGED <<slot, task, cell, changes>>
    PROVE  FlightInv'
<1>0. Typed /\ SlotsOK
  BY DEF FlightInv
<1>1. Stays(t, f, {})
  BY <1>0, Staying
<1>2. slot' \in [Nodes -> Slots] /\ SlotsOK' /\ \A m : Busy(m)' <=> Busy(m)
  BY <1>0, SlotsUnchanged
<1>3. f.phase \in Owning => Busy(f.node)
  <2>1. Top(t) = stack[t][1] /\ 1 \in 1 .. Len(stack[t]) /\ f.node \in Nodes
    BY <1>0, TopFrame
  <2>2. Top(t).phase \in Owning => Owns(t, 1, f.node)
    BY <2>1 DEF Owns
  <2> QED
    BY <2>1, <2>2 DEF FlightInv, Single
<1>4. FramesOK' /\ Single' /\ Sleepers'
  BY <1>1, <1>2, <1>3, StaysFlight
<1> QED
  BY <1>1, <1>2, <1>4, GetStep DEF Stays

(* The top frame takes its slot. *)
LEMMA TakeStep ==
    ASSUME FlightInv, NEW t \in Threads, stack[t] # <<>>, Top(t).phase \notin Owning,
           NEW n \in Nodes, n = Top(t).node, ~Busy(n),
           NEW f \in Frames, f.node = n, f.phase \in Owning, FrameOK(f), stack' = WithTop(t, f),
           NEW s \in {Computing, Validating}, SetSlot(n, s),
           UNCHANGED <<revision, graph, task, cell, changes, poisoned>>
    PROVE  FlightInv'
<1>0. Typed /\ SlotsOK
  BY DEF FlightInv
<1>1. Stays(t, f, {})
  BY <1>0, Staying
<1>2. s \in Slots /\ SlotOK(s) /\ s.state \in {"Computing", "Validating"}
  BY SlotTyped, NoPayloadTyped
<1>3. /\ slot' \in [Nodes -> Slots] /\ SlotsOK'
      /\ \A m \in Nodes \ {n} : Busy(m)' <=> Busy(m)
      /\ Busy(n)'
  BY <1>0, <1>2, SettingSlot
<1>4. f.phase # "wait"
  BY DEF Owning
<1>5. FramesOK' /\ Single' /\ Sleepers'
  BY <1>1, <1>3, <1>4, StaysFlight
<1>6. /\ revision' \in [Nodes -> Nat] /\ forward' \in [Nodes -> SUBSET Nodes]
      /\ reverse' \in [Nodes -> SUBSET Nodes] /\ poisoned' \in BOOLEAN
  BY <1>0 DEF Typed, graph
<1> QED
  BY <1>1, <1>3, <1>5, <1>6, GetStep DEF Stays

(* get returns without having had the slot. *)
LEMMA QuietReturn ==
    ASSUME FlightInv, NEW t \in Threads, stack[t] # <<>>, Top(t).phase \notin Owning,
           \E f : Resumes(t, f, {}),
           UNCHANGED <<slot, revision, graph, task, cell, changes, poisoned>>
    PROVE  FlightInv'
<1>0. Typed /\ SlotsOK
  BY DEF FlightInv
<1>1. PICK f : Resumes(t, f, {})
  OBVIOUS
<1>2. slot' \in [Nodes -> Slots] /\ SlotsOK' /\ \A m : Busy(m)' <=> Busy(m)
  BY <1>0, SlotsUnchanged
<1>3. Len(stack[t]) > 1 => f.node = stack[t][2].node /\ f.phase \in Owning /\ FrameOK(f)
  BY <1>1 DEF Resumes, Resumed, CallerOK, Owning
<1>4. FramesOK' /\ Single' /\ Sleepers'
  <2> DEFINE n == Top(t).node
  <2>1. n = Top(t).node
    OBVIOUS
  <2> HIDE DEF n
  <2> QED
    BY <1>1, <1>2, <1>3, <2>1, ReturnsFlight DEF Resumes
<1>5. /\ revision' \in [Nodes -> Nat] /\ forward' \in [Nodes -> SUBSET Nodes]
      /\ reverse' \in [Nodes -> SUBSET Nodes] /\ poisoned' \in BOOLEAN
  BY <1>0 DEF Typed, graph
<1> QED
  BY <1>1, <1>2, <1>4, <1>5, GetStep DEF Resumes, Returns

(* get settles its slot and returns. *)
LEMMA SettledReturn ==
    ASSUME FlightInv, NEW t \in Threads, stack[t] # <<>>, Top(t).phase \in Owning,
           NEW n \in Nodes, n = Top(t).node, \E f : Resumes(t, f, {n}),
           NEW s \in Slots, SlotOK(s), s.state \notin {"Computing", "Validating"}, SetSlot(n, s),
           revision' \in [Nodes -> Nat], forward' \in [Nodes -> SUBSET Nodes],
           reverse' \in [Nodes -> SUBSET Nodes], poisoned' \in BOOLEAN,
           UNCHANGED <<task, cell, changes>>
    PROVE  FlightInv'
<1>0. Typed /\ SlotsOK
  BY DEF FlightInv
<1>1. PICK f : Resumes(t, f, {n})
  OBVIOUS
<1>2. /\ slot' \in [Nodes -> Slots] /\ SlotsOK'
      /\ \A m \in Nodes \ {n} : Busy(m)' <=> Busy(m)
      /\ ~Busy(n)'
  BY <1>0, SettingSlot
<1>3. Len(stack[t]) > 1 => f.node = stack[t][2].node /\ f.phase \in Owning /\ FrameOK(f)
  BY <1>1 DEF Resumes, Resumed, CallerOK, Owning
<1>4. FramesOK' /\ Single' /\ Sleepers'
  BY <1>1, <1>2, <1>3, ReturnsFlight DEF Resumes
<1> QED
  BY <1>1, <1>2, <1>4, GetStep DEF Resumes, Returns

(* A get is made. *)
LEMMA CallStep ==
    ASSUME FlightInv, NEW t \in Threads, stack[t] # <<>> \/ task[t] = NoTask,
           NEW d \in Nodes, NEW g, Calls(t, g, Frame(d)),
           Len(stack[t]) > 0 =>
                g.node = Top(t).node /\ g.phase = Top(t).phase /\ FrameOK(g) /\ CallerOK(g),
           UNCHANGED <<slot, revision, graph, task, cell, changes, poisoned>>
    PROVE  FlightInv'
<1>0. Typed /\ SlotsOK
  BY DEF FlightInv
<1>1. slot' \in [Nodes -> Slots] /\ SlotsOK' /\ \A m : Busy(m)' <=> Busy(m)
  BY <1>0, SlotsUnchanged
<1>2. FramesOK' /\ Single' /\ Sleepers'
  BY <1>1, FrameTyped, CallsFlight
<1>3. /\ revision' \in [Nodes -> Nat] /\ forward' \in [Nodes -> SUBSET Nodes]
      /\ reverse' \in [Nodes -> SUBSET Nodes] /\ poisoned' \in BOOLEAN
  BY <1>0 DEF Typed, graph
<1> QED
  BY <1>1, <1>2, <1>3, GetStep DEF Calls

-----------------------------------------------------------------------------
(* One lemma per step of a get. *)

LEMMA AtTop ==
    ASSUME FlightInv, NEW t \in Threads, NEW p, At(t, p)
    PROVE  /\ Typed /\ SlotsOK /\ FramesOK
           /\ stack[t] # <<>> /\ Top(t) \in Frames /\ Top(t).node \in Nodes /\ Top(t).phase = p
           /\ FrameOK(Top(t)) /\ slot[Top(t).node] \in Slots /\ SlotOK(slot[Top(t).node])
           /\ p \in Owning => Busy(Top(t).node)
<1>1. stack[t] # <<>> /\ Top(t).phase = p
  BY DEF At
<1>2. Typed /\ FramesOK /\ SlotsOK
  BY DEF FlightInv
<1>3. /\ Top(t) \in Frames /\ Top(t).node \in Nodes
      /\ Top(t) = stack[t][1] /\ 1 \in 1 .. Len(stack[t])
  BY <1>1, <1>2, TopFrame
<1>4. FrameOK(Top(t))
  BY <1>2, <1>3 DEF FramesOK
<1>5. slot[Top(t).node] \in Slots /\ SlotOK(slot[Top(t).node])
  BY <1>2, <1>3 DEF Typed, SlotsOK
<1>6. p \in Owning => Owns(t, 1, Top(t).node)
  BY <1>1, <1>3 DEF Owns
<1>7. p \in Owning => Busy(Top(t).node)
  BY <1>3, <1>6 DEF FlightInv, Single
<1> QED
  BY <1>1, <1>2, <1>3, <1>4, <1>5, <1>7

(* What a step leaves alone keeps its type. *)
LEMMA RestTyped ==
    ASSUME Typed
    PROVE  /\ UNCHANGED revision => revision' \in [Nodes -> Nat]
           /\ UNCHANGED graph =>
                forward' \in [Nodes -> SUBSET Nodes] /\ reverse' \in [Nodes -> SUBSET Nodes]
           /\ UNCHANGED poisoned => poisoned' \in BOOLEAN
BY DEF Typed, graph

LEMMA FlightLookupReady ==
    ASSUME FlightInv, NEW t \in Threads, LookupReady(t)
    PROVE  FlightInv'
<1>1. At(t, "lookup") /\ slot[Top(t).node].state = "Ready"
  BY DEF LookupReady, Lookup
<1>2. /\ stack[t] # <<>> /\ Top(t).phase \notin Owning /\ Typed /\ FramesOK
      /\ slot[Top(t).node] \in Slots /\ SlotOK(slot[Top(t).node])
  BY <1>1, AtTop DEF Owning
<1>3. /\ slot[Top(t).node].payload.value \in Values
      /\ slot[Top(t).node].payload.fingerprint \in Fingerprints
  BY <1>1, <1>2 DEF SlotOK, Slots, Payloads
<1>4. stack' = [stack EXCEPT ![t] = Returned(t, slot[Top(t).node].payload.value,
                                                slot[Top(t).node].payload.fingerprint)]
  BY DEF LookupReady
<1>5. \E f : Resumes(t, f, {})
  BY <1>2, <1>3, <1>4, GivesValue
<1> QED
  BY <1>2, <1>5, QuietReturn DEF LookupReady

LEMMA FlightLookupCycle ==
    ASSUME FlightInv, NEW t \in Threads, LookupCycle(t)
    PROVE  FlightInv'
<1>1. At(t, "lookup")
  BY DEF LookupCycle, Lookup
<1>2. stack[t] # <<>> /\ Top(t).phase \notin Owning /\ Typed /\ FramesOK
  BY <1>1, AtTop DEF Owning
<1>5. \E f : Resumes(t, f, {})
  BY <1>2, GivesError DEF LookupCycle
<1> QED
  BY <1>2, <1>5, QuietReturn DEF LookupCycle

LEMMA FlightLookupBusy ==
    ASSUME FlightInv, NEW t \in Threads, LookupBusy(t)
    PROVE  FlightInv'
<1> DEFINE f == [Top(t) EXCEPT !.phase = "wait"]
<1>1. At(t, "lookup") /\ Busy(Top(t).node) /\ ~OnStack(t, Top(t).node)
  BY DEF LookupBusy, Lookup, Busy, ClosesCycle
<1>2. /\ stack[t] # <<>> /\ Top(t).phase = "lookup" /\ Top(t) \in Frames /\ Typed
  BY <1>1, AtTop
<1>3. f \in Frames /\ f.node = Top(t).node /\ f.phase = "wait"
  BY <1>2 DEF Frames
<1>4. stack' = WithTop(t, f)
  BY DEF LookupBusy, InPhase
<1>5. FrameOK(f) /\ (f.phase \in Owning <=> Top(t).phase \in Owning)
  BY <1>2, <1>3 DEF FrameOK, Judging, Owning
<1>6. /\ revision' \in [Nodes -> Nat] /\ forward' \in [Nodes -> SUBSET Nodes]
      /\ reverse' \in [Nodes -> SUBSET Nodes] /\ poisoned' \in BOOLEAN
      /\ UNCHANGED <<slot, task, cell, changes>>
  BY <1>2, RestTyped DEF LookupBusy
<1> HIDE DEF f
<1> QED
  BY <1>1, <1>2, <1>3, <1>4, <1>5, <1>6, QuietStep

LEMMA FlightWakeUp ==
    ASSUME FlightInv, NEW t \in Threads, WakeUp(t)
    PROVE  FlightInv'
<1> DEFINE f == [Top(t) EXCEPT !.phase = "lookup"]
<1>1. At(t, "woken")
  BY DEF WakeUp
<1>2. stack[t] # <<>> /\ Top(t).phase = "woken" /\ Top(t) \in Frames /\ Typed
  BY <1>1, AtTop
<1>3. f \in Frames /\ f.node = Top(t).node /\ f.phase = "lookup"
  BY <1>2 DEF Frames
<1>4. stack' = WithTop(t, f)
  BY DEF WakeUp, InPhase
<1>5. FrameOK(f) /\ (f.phase \in Owning <=> Top(t).phase \in Owning)
  BY <1>2, <1>3 DEF FrameOK, Judging, Owning
<1>6. /\ revision' \in [Nodes -> Nat] /\ forward' \in [Nodes -> SUBSET Nodes]
      /\ reverse' \in [Nodes -> SUBSET Nodes] /\ poisoned' \in BOOLEAN
      /\ UNCHANGED <<slot, task, cell, changes>>
  BY <1>2, RestTyped DEF WakeUp
<1> HIDE DEF f
<1> QED
  BY <1>2, <1>3, <1>4, <1>5, <1>6, QuietStep

(* The frames that a step of the frame itself leads to without touching    *)
(* what it keeps.                                                          *)
LEMMA FlightPhase ==
    ASSUME FlightInv, NEW t \in Threads, NEW p, NEW q, At(t, p), p \in Owning, q \in Owning,
           q \in Judging => p \in Judging, q # "publish", stack' = InPhase(t, q),
           revision' \in [Nodes -> Nat], forward' \in [Nodes -> SUBSET Nodes],
           reverse' \in [Nodes -> SUBSET Nodes], poisoned' \in BOOLEAN,
           UNCHANGED <<slot, task, cell, changes>>
    PROVE  FlightInv'
<1> DEFINE f == [Top(t) EXCEPT !.phase = q]
<1>2. stack[t] # <<>> /\ Top(t).phase = p /\ Top(t) \in Frames /\ FrameOK(Top(t))
  BY AtTop
<1>3. f \in Frames /\ f.node = Top(t).node /\ f.phase = q /\ f.kept = Top(t).kept
  BY <1>2, PhaseTyped
<1>4. stack' = WithTop(t, f)
  BY DEF InPhase
<1>5. FrameOK(f)
  BY <1>2, <1>3 DEF FrameOK
<1>6. f.phase # "wait"
  BY <1>3 DEF Owning
<1> HIDE DEF f
<1> QED
  BY <1>2, <1>3, <1>4, <1>5, <1>6, QuietStep

LEMMA FlightStartProvider ==
    ASSUME FlightInv, NEW t \in Threads, StartProvider(t)
    PROVE  FlightInv'
<1>1. Typed
  BY DEF FlightInv
<1>2. /\ revision' \in [Nodes -> Nat] /\ poisoned' \in BOOLEAN
      /\ UNCHANGED <<slot, task, cell, changes>>
      /\ At(t, "clear") /\ stack' = InPhase(t, "run") /\ remove_dependencies_from({Top(t).node})
  BY <1>1, RestTyped DEF StartProvider
<1>3. forward' \in [Nodes -> SUBSET Nodes] /\ reverse' \in [Nodes -> SUBSET Nodes]
  BY <1>1, <1>2, GraphTyped
<1>4. "clear" \in Owning /\ "run" \in Owning /\ "run" \notin Judging
  BY DEF Owning, Judging
<1> QED
  BY <1>2, <1>3, <1>4, FlightPhase

LEMMA FlightProviderRefused ==
    ASSUME FlightInv, NEW t \in Threads, ProviderRefused(t)
    PROVE  FlightInv'
<1>1. Typed
  BY DEF FlightInv
<1>2. /\ revision' \in [Nodes -> Nat] /\ poisoned' \in BOOLEAN
      /\ forward' \in [Nodes -> SUBSET Nodes] /\ reverse' \in [Nodes -> SUBSET Nodes]
      /\ UNCHANGED <<slot, task, cell, changes>>
      /\ At(t, "run") /\ stack' = InPhase(t, "fail")
  BY <1>1, RestTyped DEF ProviderRefused
<1>3. "run" \in Owning /\ "fail" \in Owning /\ "fail" \notin Judging
  BY DEF Owning, Judging
<1> QED
  BY <1>2, <1>3, FlightPhase

LEMMA FlightProviderFails ==
    ASSUME FlightInv, NEW t \in Threads, ProviderFails(t)
    PROVE  FlightInv'
<1>1. Typed
  BY DEF FlightInv
<1>2. /\ revision' \in [Nodes -> Nat] /\ poisoned' \in BOOLEAN
      /\ forward' \in [Nodes -> SUBSET Nodes] /\ reverse' \in [Nodes -> SUBSET Nodes]
      /\ UNCHANGED <<slot, task, cell, changes>>
      /\ At(t, "run") /\ (stack' = InPhase(t, "fail") \/ stack' = InPhase(t, "ice"))
  BY <1>1, RestTyped DEF ProviderFails
<1>3. "run" \in Owning /\ "fail" \in Owning /\ "fail" \notin Judging
      /\ "ice" \in Owning /\ "ice" \notin Judging
  BY DEF Owning, Judging
<1> QED
  BY <1>2, <1>3, FlightPhase

LEMMA FlightValidateUnfingerprinted ==
    ASSUME FlightInv, NEW t \in Threads, ValidateUnfingerprinted(t)
    PROVE  FlightInv'
<1>1. Typed
  BY DEF FlightInv
<1>2. /\ revision' \in [Nodes -> Nat] /\ poisoned' \in BOOLEAN
      /\ forward' \in [Nodes -> SUBSET Nodes] /\ reverse' \in [Nodes -> SUBSET Nodes]
      /\ UNCHANGED <<slot, task, cell, changes>>
      /\ At(t, "validate") /\ stack' = InPhase(t, "red")
  BY <1>1, RestTyped DEF ValidateUnfingerprinted
<1>3. "validate" \in Owning \cap Judging /\ "red" \in Owning
  BY DEF Owning, Judging
<1> QED
  BY <1>2, <1>3, FlightPhase

LEMMA FlightLookupOutdated ==
    ASSUME FlightInv, NEW t \in Threads, LookupOutdated(t)
    PROVE  FlightInv'
<1> DEFINE n == Top(t).node
           old == slot[n].payload
           f == [Top(t) EXCEPT !.phase = "validate", !.kept = old, !.todo = DOMAIN old.deps]
<1>1. At(t, "lookup") /\ slot[n].state = "PotentiallyOutdated"
  BY DEF LookupOutdated, Lookup
<1>2. /\ stack[t] # <<>> /\ Top(t).phase = "lookup" /\ Top(t) \in Frames /\ n \in Nodes
      /\ Typed /\ SlotsOK /\ slot[n] \in Slots /\ SlotOK(slot[n])
  BY <1>1, AtTop
<1>3. /\ old \in Payloads /\ old.value \in Values /\ old.fingerprint # NoFingerprint
      /\ old.deps \in Evidence
  BY <1>1, <1>2 DEF SlotOK, Slots, Payloads
<1>4. DOMAIN old.deps \in SUBSET Nodes
  BY <1>3, EvidenceTyped
<1>5. f \in Frames /\ f.node = n /\ f.phase = "validate" /\ f.kept = old
  BY <1>2, <1>3, <1>4 DEF Frames, Owning
<1>6. stack' = WithTop(t, f) /\ SetSlot(n, Validating)
  BY DEF LookupOutdated
<1>7. ~Busy(n)
  BY <1>1 DEF Busy
<1>8. UNCHANGED <<revision, graph, task, cell, changes, poisoned>>
  BY DEF LookupOutdated
<1> HIDE DEF f, n
<1>9. FrameOK(f) /\ f.phase \in Owning /\ Top(t).phase \notin Owning
  BY <1>2, <1>3, <1>5 DEF FrameOK, Owning
<1> QED
  BY <1>2, <1>5, <1>6, <1>7, <1>8, <1>9, TakeStep DEF n

LEMMA FlightLookupEmpty ==
    ASSUME FlightInv, NEW t \in Threads, LookupEmpty(t)
    PROVE  FlightInv'
<1> DEFINE n == Top(t).node
           f == [Top(t) EXCEPT !.phase = "clear"]
<1>1. At(t, "lookup") /\ slot[n].state = "Empty"
  BY DEF LookupEmpty, Lookup
<1>2. /\ stack[t] # <<>> /\ Top(t).phase = "lookup" /\ Top(t) \in Frames /\ n \in Nodes
      /\ Typed /\ SlotsOK
  BY <1>1, AtTop
<1>5. f \in Frames /\ f.node = n /\ f.phase = "clear"
  BY <1>2 DEF Frames, Owning
<1>6. stack' = WithTop(t, f) /\ SetSlot(n, Computing)
  BY DEF LookupEmpty, InPhase
<1>7. ~Busy(n)
  BY <1>1 DEF Busy
<1>8. UNCHANGED <<revision, graph, task, cell, changes, poisoned>>
  BY DEF LookupEmpty
<1> HIDE DEF f, n
<1>9. FrameOK(f) /\ f.phase \in Owning /\ Top(t).phase \notin Owning
  BY <1>2, <1>5 DEF FrameOK, Owning, Judging
<1> QED
  BY <1>2, <1>5, <1>6, <1>7, <1>8, <1>9, TakeStep DEF n

LEMMA FlightRequest ==
    ASSUME FlightInv, NEW t \in Threads, NEW n \in Nodes, Request(t, n)
    PROVE  FlightInv'
<1>1. stack[t] = <<>> /\ task[t] = NoTask /\ stack' = [stack EXCEPT ![t] = <<Frame(n)>>]
      /\ UNCHANGED <<slot, revision, graph, task, cell, changes, poisoned>>
  BY DEF Request
<1>2. Typed /\ Len(stack[t]) = 0
  BY <1>1 DEF FlightInv
<1>3. Calls(t, Frame(n), Frame(n))
  BY <1>1, <1>2, FrameTyped, CallingFirst
<1> QED
  BY <1>1, <1>2, <1>3, CallStep

LEMMA FlightProviderReads ==
    ASSUME FlightInv, NEW t \in Threads, ProviderReads(t)
    PROVE  FlightInv'
<1> DEFINE d == NextOf(Top(t))
           deps == IF d \in DOMAIN Top(t).deps THEN Top(t).deps
                   ELSE Recorded(Top(t).deps, d, NoFingerprint)
           g == [Top(t) EXCEPT !.deps = deps]
<1>1. /\ At(t, "run") /\ d # Done
      /\ stack' = [stack EXCEPT ![t] = <<Frame(d), g>> \o Tail(stack[t])]
      /\ UNCHANGED <<slot, revision, graph, task, cell, changes, poisoned>>
  BY DEF ProviderReads
<1>2. stack[t] # <<>> /\ Top(t).phase = "run" /\ Top(t) \in Frames /\ Typed
  BY <1>1, AtTop
<1>3. d \in Nodes
  BY <1>1, <1>2, CallerReads
<1>4. deps \in Reads
  <2>1. Top(t).deps \in Reads /\ NoFingerprint \in Fingerprints
    BY <1>2 DEF Frames, Fingerprints
  <2> QED
    BY <1>3, <2>1, RecordedTyped
<1>5. /\ g \in Frames /\ g.node = Top(t).node /\ g.phase = "run" /\ g.reads = Top(t).reads
  <2> HIDE DEF deps
  <2> QED
    BY <1>2, <1>4 DEF Frames
<1>6. FrameOK(g) /\ CallerOK(g)
  <2> HIDE DEF g
  <2> QED
    BY <1>1, <1>5 DEF FrameOK, CallerOK, Judging, NextOf
<1> HIDE DEF d, g
<1>7. Calls(t, g, Frame(d))
  BY <1>1, <1>2, <1>3, <1>5, FrameTyped, CallingOver
<1> QED
  BY <1>1, <1>2, <1>3, <1>5, <1>6, <1>7, CallStep

LEMMA FlightProviderReturns ==
    ASSUME FlightInv, NEW t \in Threads, ProviderReturns(t)
    PROVE  FlightInv'
<1> DEFINE value == Provide(Top(t).node, Context(Top(t).node), Top(t).reads)
           f == [Top(t) EXCEPT !.phase = "publish", !.kept.value = value]
<1>1. At(t, "run") /\ NextOf(Top(t)) = Done /\ stack' = WithTop(t, f)
  BY DEF ProviderReturns
<1>2. stack[t] # <<>> /\ Top(t).phase = "run" /\ Top(t) \in Frames /\ Typed /\ Top(t).node \in Nodes
  BY <1>1, AtTop
<1>3. value \in Values
  <2>1. Context(Top(t).node) \in IF Top(t).node \in Inputs THEN Values ELSE {0}
    BY <1>2 DEF Context, Typed
  <2>2. Top(t).reads \in ReadValues /\ NextRead(Top(t).node, Top(t).reads) = Done
    BY <1>1, <1>2 DEF Frames, NextOf
  <2> QED
    BY <1>2, <2>1, <2>2, ProvidersAssumption
<1> HIDE DEF value
<1>4. [Top(t).kept EXCEPT !.value = value] \in Payloads
  BY <1>2, <1>3 DEF Frames, Payloads
<1>5. f \in Frames /\ f.node = Top(t).node /\ f.phase = "publish" /\ f.kept.value = value
  BY <1>2, <1>3, <1>4 DEF Frames, Owning, Payloads
<1>6. FrameOK(f) /\ f.phase \in Owning /\ Top(t).phase \in Owning /\ f.phase # "wait"
  BY <1>2, <1>3, <1>5 DEF FrameOK, Judging, Owning
<1>7. /\ revision' \in [Nodes -> Nat] /\ forward' \in [Nodes -> SUBSET Nodes]
      /\ reverse' \in [Nodes -> SUBSET Nodes] /\ poisoned' \in BOOLEAN
      /\ UNCHANGED <<slot, task, cell, changes>>
  BY <1>2, RestTyped DEF ProviderReturns
<1> HIDE DEF f
<1> QED
  BY <1>1, <1>2, <1>5, <1>6, <1>7, QuietStep

LEMMA FlightPublish ==
    ASSUME FlightInv, NEW t \in Threads, Publish(t)
    PROVE  FlightInv'
<1> DEFINE f == Top(t)
           n == Top(t).node
           fp == FingerprintOf(f)
           deps == IF Policy[n] = "None" THEN NoFingerprints ELSE f.deps
           p == Payload(f.kept.value, fp, deps)
<1>1. /\ At(t, "publish") /\ SetSlot(n, Ready(p)) /\ replace_dependencies_from(n, DOMAIN f.deps)
      /\ TakeRevision(f)
      /\ stack' = Notified([stack EXCEPT ![t] = Returned(t, f.kept.value, fp)], n)
  BY DEF Publish
<1>2. /\ stack[t] # <<>> /\ f.phase = "publish" /\ f \in Frames /\ Typed /\ FramesOK /\ n \in Nodes
      /\ FrameOK(f)
  BY <1>1, AtTop
<1>3. f.kept.value \in Values /\ f.deps \in Reads
  BY <1>2 DEF FrameOK, Frames
<1>4. fp \in Fingerprints /\ revision' \in [Nodes -> Nat]
  BY <1>1, <1>2, <1>3, RevisionTyped
<1>5. deps \in Evidence /\ DOMAIN f.deps \in SUBSET Nodes
  BY <1>3, EvidenceTyped, NoPayloadTyped
<1>6. p \in Payloads /\ p.value \in Values
  <2> HIDE DEF deps, fp, f
  <2> QED
    BY <1>3, <1>4, <1>5 DEF Payload, Payloads
<1>7. forward' \in [Nodes -> SUBSET Nodes] /\ reverse' \in [Nodes -> SUBSET Nodes]
  BY <1>1, <1>2, <1>5, GraphTyped
<1>8. \E g : Resumes(t, g, {n})
  BY <1>1, <1>2, <1>3, <1>4, GivesValue
<1>9. poisoned' \in BOOLEAN /\ UNCHANGED <<task, cell, changes>>
  BY <1>2, RestTyped DEF Publish
<1>10. Ready(p) \in Slots /\ SlotOK(Ready(p)) /\ Ready(p).state = "Ready"
  BY <1>6, SlotTyped
<1> DEFINE s == Ready(p)
<1>11. /\ s \in Slots /\ SlotOK(s) /\ SetSlot(n, s)
       /\ s.state \notin {"Computing", "Validating"} /\ Top(t).phase \in Owning /\ n = Top(t).node
  BY <1>1, <1>2, <1>10 DEF Owning
<1> HIDE DEF s, n, f
<1> QED
  BY <1>2, <1>4, <1>7, <1>8, <1>9, <1>11, SettledReturn

LEMMA FlightDiscardResult ==
    ASSUME FlightInv, NEW t \in Threads, DiscardResult(t)
    PROVE  FlightInv'
<1> DEFINE f == Top(t)
           n == Top(t).node
<1>1. /\ At(t, "publish") /\ SetSlot(n, Empty) /\ remove_dependencies_from({n}) /\ TakeRevision(f)
      /\ stack' = Notified([stack EXCEPT ![t] = Returned(t, f.kept.value, NoFingerprint)], n)
  BY DEF DiscardResult
<1>2. /\ stack[t] # <<>> /\ f.phase = "publish" /\ f \in Frames /\ Typed /\ FramesOK /\ n \in Nodes
      /\ FrameOK(f)
  BY <1>1, AtTop
<1>3. f.kept.value \in Values /\ NoFingerprint \in Fingerprints
  BY <1>2 DEF FrameOK, Fingerprints
<1>4. revision' \in [Nodes -> Nat]
  BY <1>1, <1>2, <1>3, RevisionTyped
<1>7. forward' \in [Nodes -> SUBSET Nodes] /\ reverse' \in [Nodes -> SUBSET Nodes]
  BY <1>1, <1>2, GraphTyped
<1>8. \E g : Resumes(t, g, {n})
  BY <1>1, <1>2, <1>3, GivesValue
<1>9. poisoned' \in BOOLEAN /\ UNCHANGED <<task, cell, changes>>
  BY <1>2, RestTyped DEF DiscardResult
<1>11. /\ Empty \in Slots /\ SlotOK(Empty) /\ Empty.state \notin {"Computing", "Validating"}
       /\ Top(t).phase \in Owning /\ n = Top(t).node
  BY <1>2, SlotTyped, NoPayloadTyped DEF Owning
<1> HIDE DEF n, f
<1> QED
  BY <1>1, <1>2, <1>4, <1>7, <1>8, <1>9, <1>11, SettledReturn

LEMMA FlightFail ==
    ASSUME FlightInv, NEW t \in Threads, Fail(t)
    PROVE  FlightInv'
<1> DEFINE n == Top(t).node
<1>1. /\ At(t, "fail") \/ At(t, "ice")
      /\ SetSlot(n, Empty) /\ remove_dependencies_from({n})
      /\ stack' = Notified([stack EXCEPT ![t] = Raised(t)], n)
  BY DEF Fail
<1>2. /\ stack[t] # <<>> /\ Top(t).phase \in {"fail", "ice"} /\ Typed /\ FramesOK /\ n \in Nodes
  BY <1>1, AtTop
<1>3. poisoned' \in BOOLEAN
  BY DEF Fail
<1>4. revision' \in [Nodes -> Nat] /\ UNCHANGED <<task, cell, changes>>
  BY <1>2, RestTyped DEF Fail
<1>7. forward' \in [Nodes -> SUBSET Nodes] /\ reverse' \in [Nodes -> SUBSET Nodes]
  BY <1>1, <1>2, GraphTyped
<1>8. \E g : Resumes(t, g, {n})
  BY <1>1, <1>2, GivesError
<1>11. /\ Empty \in Slots /\ SlotOK(Empty) /\ Empty.state \notin {"Computing", "Validating"}
       /\ Top(t).phase \in Owning /\ n = Top(t).node
  BY <1>2, SlotTyped, NoPayloadTyped DEF Owning
<1> HIDE DEF n
<1> QED
  BY <1>1, <1>2, <1>3, <1>4, <1>7, <1>8, <1>11, SettledReturn

(* Dependencies are taken in the order of their indices. *)
LEMMA LeastNumber ==
    ASSUME NEW S, S \subseteq Nat, S # {}
    PROVE  \E d \in S : \A e \in S : d <= e
<1>1. PICK d \in S : \A e \in S : <<e, d>> \notin OpToRel(<, Nat)
  BY NatLessThanWellFounded, WFMin
<1>2. \A e \in S : ~(e < d)
  BY <1>1 DEF OpToRel
<1> QED
  BY <1>2

LEMMA NextDependencyTaken ==
    ASSUME NEW f \in Frames, f.todo # {}
    PROVE  NextDependency(f) \in f.todo /\ NextDependency(f) \in Nodes
<1>1. f.todo \subseteq Nodes /\ f.todo \subseteq Nat
  BY NodesAssumption DEF Frames
<1>2. \E d \in f.todo : \A e \in f.todo : d <= e
  BY <1>1, LeastNumber
<1>3. NextDependency(f) \in f.todo
  BY <1>2 DEF NextDependency
<1> QED
  BY <1>1, <1>3

LEMMA FlightValidateEnsures ==
    ASSUME FlightInv, NEW t \in Threads, ValidateEnsures(t)
    PROVE  FlightInv'
<1> DEFINE d == NextDependency(Top(t))
<1>1. /\ At(t, "validate") /\ Top(t).todo # {}
      /\ \/ stack' = InPhase(t, "error")
         \/ stack' = [stack EXCEPT ![t] = <<Frame(d)>> \o stack[t]]
      /\ UNCHANGED <<slot, revision, graph, task, cell, changes, poisoned>>
  BY DEF ValidateEnsures
<1>2. /\ stack[t] # <<>> /\ Top(t).phase = "validate" /\ Top(t) \in Frames /\ Typed /\ FrameOK(Top(t))
  BY <1>1, AtTop
<1>3. CASE stack' = InPhase(t, "error")
  <2>1. /\ revision' \in [Nodes -> Nat] /\ forward' \in [Nodes -> SUBSET Nodes]
        /\ reverse' \in [Nodes -> SUBSET Nodes] /\ poisoned' \in BOOLEAN
        /\ UNCHANGED <<slot, task, cell, changes>>
    BY <1>1, <1>2, RestTyped
  <2>2. "validate" \in Owning \cap Judging /\ "error" \in Owning
    BY DEF Owning, Judging
  <2> QED
    BY <1>1, <1>3, <2>1, <2>2, FlightPhase
<1>4. CASE stack' = [stack EXCEPT ![t] = <<Frame(d)>> \o stack[t]]
  <2>1. d \in Nodes
    BY <1>1, <1>2, NextDependencyTaken
  <2> HIDE DEF d
  <2>2. Calls(t, Top(t), Frame(d))
    BY <1>2, <1>4, <2>1, FrameTyped, CallingTop
  <2>3. CallerOK(Top(t))
    BY <1>2 DEF CallerOK
  <2> QED
    BY <1>1, <1>2, <2>1, <2>2, <2>3, CallStep
<1> QED
  BY <1>1, <1>3, <1>4

LEMMA FlightCompare ==
    ASSUME FlightInv, NEW t \in Threads, Compare(t)
    PROVE  FlightInv'
<1> DEFINE d == NextDependency(Top(t))
           f == [Top(t) EXCEPT !.phase = "validate", !.todo = @ \ {d}]
<1>1. /\ At(t, "compare")
      /\ stack' = InPhase(t, "red") \/ stack' = WithTop(t, f)
      /\ UNCHANGED <<slot, revision, graph, task, cell, changes, poisoned>>
  BY DEF Compare
<1>2. stack[t] # <<>> /\ Top(t).phase = "compare" /\ Top(t) \in Frames /\ Typed /\ FrameOK(Top(t))
  BY <1>1, AtTop
<1>0. /\ revision' \in [Nodes -> Nat] /\ forward' \in [Nodes -> SUBSET Nodes]
      /\ reverse' \in [Nodes -> SUBSET Nodes] /\ poisoned' \in BOOLEAN
      /\ UNCHANGED <<slot, task, cell, changes>>
  BY <1>1, <1>2, RestTyped
<1>3. CASE stack' = InPhase(t, "red")
  <2>2. "compare" \in Owning \cap Judging /\ "red" \in Owning
    BY DEF Owning, Judging
  <2> QED
    BY <1>0, <1>1, <1>3, <2>2, FlightPhase
<1>4. CASE stack' = WithTop(t, f)
  <2>1. Top(t).todo \ {d} \in SUBSET Nodes
    BY <1>2 DEF Frames
  <2>2. f \in Frames /\ f.node = Top(t).node /\ f.phase = "validate" /\ f.kept = Top(t).kept
    BY <1>2, <2>1 DEF Frames, Owning
  <2> HIDE DEF f
  <2>3. FrameOK(f) /\ f.phase \in Owning /\ Top(t).phase \in Owning /\ f.phase # "wait"
    BY <1>2, <2>2 DEF FrameOK, Owning, Judging
  <2> QED
    BY <1>0, <1>2, <1>4, <2>2, <2>3, QuietStep
<1> QED
  BY <1>1, <1>3, <1>4

LEMMA FlightSettleGreen ==
    ASSUME FlightInv, NEW t \in Threads, SettleGreen(t)
    PROVE  FlightInv'
<1> DEFINE f == Top(t)
           n == Top(t).node
           s == Ready(f.kept)
<1>1. /\ At(t, "validate") /\ SetSlot(n, s)
      /\ stack' = Notified([stack EXCEPT ![t] = Returned(t, f.kept.value, f.kept.fingerprint)], n)
      /\ UNCHANGED <<revision, graph, task, cell, changes, poisoned>>
  BY DEF SettleGreen
<1>2. /\ stack[t] # <<>> /\ f.phase = "validate" /\ f \in Frames /\ Typed /\ FramesOK /\ n \in Nodes
      /\ FrameOK(f)
  BY <1>1, AtTop
<1>3. f.kept \in Payloads /\ f.kept.value \in Values /\ f.kept.fingerprint \in Fingerprints
  BY <1>2 DEF FrameOK, Frames, Payloads, Judging
<1>4. \E g : Resumes(t, g, {n})
  BY <1>1, <1>2, <1>3, GivesValue
<1>5. /\ revision' \in [Nodes -> Nat] /\ forward' \in [Nodes -> SUBSET Nodes]
      /\ reverse' \in [Nodes -> SUBSET Nodes] /\ poisoned' \in BOOLEAN
      /\ UNCHANGED <<task, cell, changes>>
  BY <1>1, <1>2, RestTyped
<1>6. /\ s \in Slots /\ SlotOK(s) /\ s.state \notin {"Computing", "Validating"}
      /\ Top(t).phase \in Owning /\ n = Top(t).node
  BY <1>2, <1>3, SlotTyped DEF Owning
<1> HIDE DEF s, n, f
<1> QED
  BY <1>1, <1>2, <1>4, <1>5, <1>6, SettledReturn

LEMMA FlightSettleError ==
    ASSUME FlightInv, NEW t \in Threads, SettleError(t)
    PROVE  FlightInv'
<1> DEFINE f == Top(t)
           n == Top(t).node
<1>1. /\ At(t, "error")
      /\ \/ SetSlot(n, Empty) /\ remove_dependencies_from({n})
         \/ SetSlot(n, PotentiallyOutdated(f.kept)) /\ UNCHANGED graph
      /\ stack' = Notified([stack EXCEPT ![t] = Raised(t)], n)
      /\ UNCHANGED <<revision, task, cell, changes, poisoned>>
  BY DEF SettleError
<1>2. /\ stack[t] # <<>> /\ f.phase = "error" /\ f \in Frames /\ Typed /\ FramesOK /\ n \in Nodes
      /\ FrameOK(f)
  BY <1>1, AtTop
<1>3. f.kept \in Payloads /\ f.kept.value \in Values /\ f.kept.fingerprint # NoFingerprint
  BY <1>2 DEF FrameOK, Frames, Judging
<1>4. \E g : Resumes(t, g, {n})
  BY <1>1, <1>2, GivesError
<1>5. /\ revision' \in [Nodes -> Nat] /\ poisoned' \in BOOLEAN /\ UNCHANGED <<task, cell, changes>>
  BY <1>1, <1>2, RestTyped
<1>6. forward' \in [Nodes -> SUBSET Nodes] /\ reverse' \in [Nodes -> SUBSET Nodes]
  BY <1>1, <1>2, GraphTyped
<1>7. PICK s \in {Empty, PotentiallyOutdated(f.kept)} : SetSlot(n, s)
  BY <1>1
<1>8. /\ s \in Slots /\ SlotOK(s) /\ s.state \notin {"Computing", "Validating"}
      /\ Top(t).phase \in Owning /\ n = Top(t).node
  BY <1>2, <1>3, <1>7, SlotTyped DEF Owning
<1> HIDE DEF n, f
<1> QED
  BY <1>2, <1>4, <1>5, <1>6, <1>7, <1>8, SettledReturn

LEMMA FlightSettleRed ==
    ASSUME FlightInv, NEW t \in Threads, SettleRed(t)
    PROVE  FlightInv'
<1> DEFINE k == Top(t).kept
           n == Top(t).node
           f == [Frame(n) EXCEPT !.stale = [k EXCEPT !.deps = NoFingerprints]]
<1>1. /\ At(t, "red") \/ At(t, "validate")
      /\ SetSlot(n, Empty) /\ stack' = Notified(WithTop(t, f), n)
      /\ UNCHANGED <<revision, graph, task, cell, changes, poisoned>>
  BY DEF SettleRed
<1>2. /\ stack[t] # <<>> /\ Top(t).phase \in {"red", "validate"} /\ Top(t) \in Frames
      /\ Typed /\ SlotsOK /\ n \in Nodes
  BY <1>1, AtTop
<1>3. [k EXCEPT !.deps = NoFingerprints] \in Payloads
  BY <1>2, NoPayloadTyped DEF Frames, Payloads
<1>4. f \in Frames /\ f.node = n /\ f.phase = "lookup"
  BY <1>2, <1>3, FrameTyped DEF Frames
<1>5. FrameOK(f) /\ f.phase \notin Owning /\ Top(t).phase \in Owning /\ f.phase # "wait"
  BY <1>2, <1>4 DEF FrameOK, Judging, Owning
<1>6. /\ slot' \in [Nodes -> Slots] /\ SlotsOK'
      /\ \A m \in Nodes \ {n} : Busy(m)' <=> Busy(m)
      /\ \A m : m = n => ~Busy(m)'
  <2>1. Empty \in Slots /\ SlotOK(Empty) /\ Empty.state = "Empty"
    BY SlotTyped, NoPayloadTyped
  <2>2. /\ slot' \in [Nodes -> Slots] /\ SlotsOK' /\ slot'[n] = Empty
        /\ \A m \in Nodes \ {n} : Busy(m)' <=> Busy(m)
    BY <1>1, <1>2, <2>1, SettingSlot
  <2> QED
    BY <2>1, <2>2 DEF Busy
<1>7. /\ revision' \in [Nodes -> Nat] /\ forward' \in [Nodes -> SUBSET Nodes]
      /\ reverse' \in [Nodes -> SUBSET Nodes] /\ poisoned' \in BOOLEAN
      /\ UNCHANGED <<task, cell, changes>>
  BY <1>1, <1>2, RestTyped
<1> HIDE DEF f, n
<1>8. Stays(t, f, {n})
  BY <1>1, <1>2, <1>4, <1>5, StayingNotified
<1>9. FramesOK' /\ Single' /\ Sleepers'
  <2>1. f.node = Top(t).node
    BY <1>4 DEF n
  <2>2. \A m \in Nodes \ {f.node} : Busy(m)' <=> Busy(m)
    BY <1>4, <1>6
  <2>3. PICK x : x = f
    OBVIOUS
  <2>4. /\ x \in Frames /\ Stays(t, x, {n}) /\ x.node = Top(t).node /\ FrameOK(x)
        /\ \A m \in Nodes \ {x.node} : Busy(m)' <=> Busy(m)
        /\ x.phase \notin Owning /\ ~Busy(x.node)' /\ x.node \in {n} /\ x.phase # "wait"
    BY <1>4, <1>5, <1>6, <1>8, <2>1, <2>2, <2>3
  <2> QED
    BY <1>2, <1>5, <2>4, StaysFlight
<1> QED
  BY <1>2, <1>6, <1>7, <1>8, <1>9, GetStep DEF Stays

-----------------------------------------------------------------------------
(* One lemma per step of an invalidation. *)

(* The slot of a root or of a dependent after the invalidation. *)
LEMMA InvalidatedSlot ==
    ASSUME NEW s \in Slots, SlotOK(s)
    PROVE  /\ Invalidated(s) \in Slots /\ SlotOK(Invalidated(s))
           /\ Marked(s) \in Slots /\ SlotOK(Marked(s))
           /\ \A n \in Nodes : Forgotten(Marked(s), n) \in Slots /\ SlotOK(Forgotten(Marked(s), n))
           /\ Invalidated(s).state \in {"Computing", "Validating"} <=>
                s.state \in {"Computing", "Validating"}
           /\ Marked(s).state \in {"Computing", "Validating"} <=>
                s.state \in {"Computing", "Validating"}
           /\ \A n \in Nodes : Forgotten(Marked(s), n).state = Marked(s).state
<1>1. /\ s.payload \in Payloads
      /\ s.state \in {"Empty", "Computing", "Validating", "Ready", "PotentiallyOutdated"}
  BY DEF Slots
<1>2. /\ Invalidated(s) \in Slots /\ SlotOK(Invalidated(s))
      /\ Invalidated(s).state \in {"Computing", "Validating"} <=> s.state \in {"Computing", "Validating"}
  <2>1. CASE s.state \in {"Computing", "Validating"}
    <3>1. Invalidated(s) = [s EXCEPT !.invalidated = TRUE]
      BY <2>1 DEF Invalidated
    <3> QED
      BY <2>1, <3>1 DEF Slots, SlotOK
  <2>2. CASE s.state \notin {"Computing", "Validating"}
    <3>1. Invalidated(s) = Empty
      BY <2>2 DEF Invalidated
    <3> QED
      BY <1>1, <2>2, <3>1, SlotTyped
  <2> QED
    BY <2>1, <2>2
<1>3. /\ Marked(s) \in Slots /\ SlotOK(Marked(s))
      /\ Marked(s).state \in {"Computing", "Validating"} <=> s.state \in {"Computing", "Validating"}
  <2>1. CASE HasEvidence(s)
    <3>1. Marked(s) = PotentiallyOutdated(s.payload)
      BY <2>1 DEF Marked
    <3>2. s.payload.value \in Values /\ s.payload.fingerprint # NoFingerprint
          /\ s.state \notin {"Computing", "Validating"}
      BY <2>1 DEF HasEvidence, SlotOK
    <3> QED
      BY <1>1, <3>1, <3>2, SlotTyped
  <2>2. CASE ~HasEvidence(s)
    BY <1>2, <2>2 DEF Marked
  <2> QED
    BY <2>1, <2>2
<1>4. ASSUME NEW n \in Nodes, NEW r \in Slots, SlotOK(r)
      PROVE  Forgotten(r, n) \in Slots /\ SlotOK(Forgotten(r, n)) /\ Forgotten(r, n).state = r.state
  <2>1. CASE n \in DOMAIN r.payload.deps /\ r.payload.deps[n] # NoFingerprint
    <3>0. r.payload \in Payloads /\ r.payload.deps \in Evidence
      BY DEF Slots, Payloads
    <3>1. PICK D \in SUBSET Nodes : r.payload.deps \in [D -> Fingerprints \cup {RetiredNode}]
      BY <3>0 DEF Evidence
    <3> DEFINE e == [r.payload.deps EXCEPT ![n] = RetiredNode]
               p == [r.payload EXCEPT !.deps = e]
    <3>2. e \in [D -> Fingerprints \cup {RetiredNode}]
      BY <3>1
    <3>3. e \in Evidence
      BY <3>2 DEF Evidence
    <3> HIDE DEF e
    <3>4. p \in Payloads /\ p.value = r.payload.value /\ p.fingerprint = r.payload.fingerprint
      BY <3>0, <3>3 DEF Payloads
    <3>5. Forgotten(r, n) = [r EXCEPT !.payload = p]
      BY <2>1, <3>0 DEF Forgotten, Slots, Payloads, e
    <3>6. r.state \in {"Ready", "PotentiallyOutdated"}
      <4>1. r.payload # NoPayload
        BY <2>1 DEF NoPayload, Payload, NoFingerprints
      <4> QED
        BY <1>4, <4>1 DEF SlotOK
    <3> HIDE DEF p
    <3> QED
      BY <1>4, <3>4, <3>5, <3>6 DEF Slots, SlotOK
  <2>2. CASE ~(n \in DOMAIN r.payload.deps /\ r.payload.deps[n] # NoFingerprint)
    BY <1>4, <2>2 DEF Forgotten
  <2> QED
    BY <2>1, <2>2
<1> QED
  BY <1>2, <1>3, <1>4

(* The invalidation in progress on one thread moves on. *)
LEMMA TaskStep ==
    ASSUME FlightInv, NEW N, Rests(N), slot' \in [Nodes -> Slots], SlotsOK',
           \A m \in Nodes : Busy(m)' <=> Busy(m),
           revision' \in [Nodes -> Nat], forward' \in [Nodes -> SUBSET Nodes],
           reverse' \in [Nodes -> SUBSET Nodes],
           cell' \in [Inputs -> Values], changes' \in 0 .. MaxChanges, UNCHANGED poisoned,
           NEW t \in Threads, NEW k \in Invalidations, task' = [task EXCEPT ![t] = k],
           k # NoTask => stack[t] = <<>> /\ k.root \in Inputs /\ k.step # "none"
    PROVE  FlightInv'
<1>1. task' \in [Threads -> Invalidations] /\ task'[t] = k
      /\ \A u \in Threads \ {t} : task'[u] = task[u]
  BY DEF FlightInv, Typed
<1>2. ASSUME NEW u \in Threads, stack[u] = <<>>
      PROVE  stack'[u] = <<>>
  <2>1. Len(stack'[u]) = Len(stack[u]) /\ stack'[u] \in Seq(Frames)
    BY DEF Rests, Still, Stacks
  <2>2. Len(stack[u]) = 0
    BY <1>2
  <2> QED
    BY <2>1, <2>2
<1>3. TasksOK'
  BY <1>1, <1>2 DEF FlightInv, TasksOK
<1>4. FramesOK' /\ Single' /\ Sleepers'
  BY RestsFlight
<1>5. Typed'
  BY <1>1 DEF FlightInv, Typed, Rests, Stacks
<1> QED
  BY <1>3, <1>4, <1>5 DEF FlightInv

LEMMA TaskTyped ==
    ASSUME Typed, TasksOK, NEW t \in Threads, task[t].step # "none"
    PROVE  /\ task[t] \in Invalidations /\ stack[t] = <<>> /\ task[t].root \in Inputs
           /\ task[t].root \in Nodes
<1>1. task[t] # NoTask
  BY DEF NoTask, Task
<1> QED
  BY <1>1, InputsAssumption DEF Typed, TasksOK

LEMMA NoTaskTyped == NoTask \in Invalidations
BY DEF NoTask, Task, Invalidations

LEMMA FlightChangeInput ==
    ASSUME FlightInv, NEW t \in Threads, NEW n \in Inputs, NEW v \in Values, ChangeInput(t, n, v)
    PROVE  FlightInv'
<1>0. Typed /\ SlotsOK
  BY DEF FlightInv
<1>1. PICK step \in {"check", "collect"} :
        task' = [task EXCEPT ![t] = Task(step, n, Provide(n, v, <<>>))]
  BY DEF ChangeInput
<1> DEFINE k == Task(step, n, Provide(n, v, <<>>))
<1>2. k \in Invalidations /\ k.root \in Inputs /\ k.step # "none"
  <2>1. Provide(n, v, <<>>) \in Reported
    BY DEF Reported
  <2> QED
    BY <2>1 DEF Task, Invalidations
<1>3. stack[t] = <<>> /\ UNCHANGED <<slot, revision, graph, stack, poisoned>>
  BY DEF ChangeInput
<1>4. cell' \in [Inputs -> Values] /\ changes' \in 0 .. MaxChanges
  BY <1>0, BoundsAssumption DEF Typed, ChangeInput
<1>5. slot' \in [Nodes -> Slots] /\ SlotsOK' /\ \A m : Busy(m)' <=> Busy(m)
  BY <1>0, <1>3, SlotsUnchanged
<1>6. /\ revision' \in [Nodes -> Nat] /\ forward' \in [Nodes -> SUBSET Nodes]
      /\ reverse' \in [Nodes -> SUBSET Nodes]
  BY <1>0, <1>3, RestTyped
<1>7. Rests({})
  BY <1>0, <1>3, Resting
<1> HIDE DEF k
<1>8. task' = [task EXCEPT ![t] = k]
  BY <1>1 DEF k
<1> QED
  BY <1>2, <1>3, <1>4, <1>5, <1>6, <1>7, <1>8, TaskStep

LEMMA FlightCheckInput ==
    ASSUME FlightInv, NEW t \in Threads, CheckInput(t)
    PROVE  FlightInv'
<1> DEFINE n == task[t].root
           k == IF slot[n].state = "Empty" \/ (~Busy(n) /\ slot[n].payload.fingerprint = task[t].value)
                THEN NoTask ELSE [task[t] EXCEPT !.step = "collect"]
<1>0. Typed /\ SlotsOK /\ TasksOK
  BY DEF FlightInv
<1>1. /\ task[t].step = "check" /\ task' = [task EXCEPT ![t] = k]
      /\ UNCHANGED <<revision, graph, stack, cell, changes, poisoned>>
      /\ \/ UNCHANGED slot
         \/ slot[n].state = "PotentiallyOutdated" /\ slot' = [slot EXCEPT ![n] = Ready(slot[n].payload)]
  BY DEF CheckInput
<1>2. task[t] \in Invalidations /\ stack[t] = <<>> /\ n \in Inputs /\ n \in Nodes
  BY <1>0, <1>1, TaskTyped
<1>3. k \in Invalidations /\ (k # NoTask => k.root \in Inputs /\ k.step # "none")
  BY <1>2, NoTaskTyped DEF Invalidations
<1>4. slot' \in [Nodes -> Slots] /\ SlotsOK' /\ \A m \in Nodes : Busy(m)' <=> Busy(m)
  <2>1. CASE UNCHANGED slot
    BY <1>0, <2>1, SlotsUnchanged
  <2>2. CASE slot[n].state = "PotentiallyOutdated" /\ slot' = [slot EXCEPT ![n] = Ready(slot[n].payload)]
    <3> DEFINE s == Ready(slot[n].payload)
    <3>0. slot[n] \in Slots /\ SlotOK(slot[n])
      BY <1>0, <1>2 DEF Typed, SlotsOK
    <3>1. slot[n].payload \in Payloads /\ slot[n].payload.value \in Values
      BY <2>2, <3>0 DEF Slots, SlotOK
    <3>2. s \in Slots /\ SlotOK(s) /\ s.state = "Ready"
      BY <3>1, SlotTyped
    <3>3. SetSlot(n, s)
      BY <2>2 DEF SetSlot
    <3> HIDE DEF s, n
    <3>4. /\ slot' \in [Nodes -> Slots] /\ SlotsOK' /\ slot'[n] = s
          /\ \A m \in Nodes \ {n} : Busy(m)' <=> Busy(m)
      BY <1>0, <1>2, <3>2, <3>3, SettingSlot
    <3>5. \A m : m = n => ~Busy(m) /\ ~Busy(m)'
      BY <2>2, <3>2, <3>4 DEF Busy
    <3> QED
      BY <3>4, <3>5
  <2> QED
    BY <1>1, <2>1, <2>2
<1>5. /\ revision' \in [Nodes -> Nat] /\ forward' \in [Nodes -> SUBSET Nodes]
      /\ reverse' \in [Nodes -> SUBSET Nodes]
      /\ cell' \in [Inputs -> Values] /\ changes' \in 0 .. MaxChanges
  BY <1>0, <1>1, RestTyped DEF Typed
<1>6. Rests({})
  BY <1>0, <1>1, Resting
<1> HIDE DEF k
<1> QED
  BY <1>1, <1>2, <1>3, <1>4, <1>5, <1>6, TaskStep

LEMMA FlightCollectDependents ==
    ASSUME FlightInv, NEW t \in Threads, CollectDependents(t)
    PROVE  FlightInv'
<1> DEFINE C == collect_dependents(task[t].root) \ {task[t].root}
           k == [task[t] EXCEPT !.step = "root", !.todo = C]
<1>0. Typed /\ SlotsOK /\ TasksOK
  BY DEF FlightInv
<1>1. task[t].step = "collect" /\ UNCHANGED <<slot, revision, graph, stack, cell, changes, poisoned>>
  BY DEF CollectDependents
<1>2. task[t] \in Invalidations /\ stack[t] = <<>> /\ task[t].root \in Inputs
  BY <1>0, <1>1, TaskTyped
<1>3. C \in SUBSET Nodes
  BY DEF collect_dependents
<1>4. task' = [task EXCEPT ![t] = k]
  BY <1>0, <1>2 DEF CollectDependents, Typed, Invalidations
<1> HIDE DEF C
<1>5. k \in Invalidations /\ k.root \in Inputs /\ k.step # "none"
  BY <1>2, <1>3 DEF Invalidations
<1>6. slot' \in [Nodes -> Slots] /\ SlotsOK' /\ \A m : Busy(m)' <=> Busy(m)
  BY <1>0, <1>1, SlotsUnchanged
<1>7. /\ revision' \in [Nodes -> Nat] /\ forward' \in [Nodes -> SUBSET Nodes]
      /\ reverse' \in [Nodes -> SUBSET Nodes]
      /\ cell' \in [Inputs -> Values] /\ changes' \in 0 .. MaxChanges
  BY <1>0, <1>1, RestTyped DEF Typed
<1>8. Rests({})
  BY <1>0, <1>1, Resting
<1> HIDE DEF k
<1> QED
  BY <1>1, <1>2, <1>4, <1>5, <1>6, <1>7, <1>8, TaskStep

LEMMA FlightInvalidateRoot ==
    ASSUME FlightInv, NEW t \in Threads, InvalidateRoot(t)
    PROVE  FlightInv'
<1> DEFINE n == task[t].root
           s == Invalidated(slot[n])
           k == [task[t] EXCEPT !.step = "mark", !.cleared = {n}]
<1>0. Typed /\ SlotsOK /\ TasksOK
  BY DEF FlightInv
<1>1. /\ task[t].step = "root" /\ SetSlot(n, s) /\ (stack' = stack \/ stack' = Notified(stack, n))
      /\ UNCHANGED <<revision, graph, cell, changes, poisoned>>
  BY DEF InvalidateRoot
<1>2. task[t] \in Invalidations /\ stack[t] = <<>> /\ n \in Inputs /\ n \in Nodes
  BY <1>0, <1>1, TaskTyped
<1>3. task' = [task EXCEPT ![t] = k]
  BY <1>0, <1>2 DEF InvalidateRoot, Typed, Invalidations
<1>4. k \in Invalidations /\ k.root \in Inputs /\ k.step # "none"
  BY <1>2 DEF Invalidations
<1>5. /\ s \in Slots /\ SlotOK(s)
      /\ s.state \in {"Computing", "Validating"} <=> slot[n].state \in {"Computing", "Validating"}
  BY <1>0, <1>2, InvalidatedSlot DEF Typed, SlotsOK
<1>6. slot' \in [Nodes -> Slots] /\ SlotsOK' /\ \A m \in Nodes : Busy(m)' <=> Busy(m)
  <2> HIDE DEF s, n
  <2>1. /\ slot' \in [Nodes -> Slots] /\ SlotsOK' /\ slot'[n] = s
        /\ \A m \in Nodes \ {n} : Busy(m)' <=> Busy(m)
    BY <1>0, <1>1, <1>2, <1>5, SettingSlot
  <2>2. \A m : m = n => (Busy(m)' <=> Busy(m))
    BY <1>5, <2>1 DEF Busy
  <2> QED
    BY <2>1, <2>2
<1>7. /\ revision' \in [Nodes -> Nat] /\ forward' \in [Nodes -> SUBSET Nodes]
      /\ reverse' \in [Nodes -> SUBSET Nodes]
      /\ cell' \in [Inputs -> Values] /\ changes' \in 0 .. MaxChanges
  BY <1>0, <1>1, RestTyped DEF Typed
<1>8. PICK N : Rests(N)
  BY <1>0, <1>1, Resting, RestingNotified
<1> HIDE DEF k
<1> QED
  BY <1>1, <1>2, <1>3, <1>4, <1>6, <1>7, <1>8, TaskStep

LEMMA FlightMarkDependent ==
    ASSUME FlightInv, NEW t \in Threads, NEW n \in Nodes, MarkDependent(t, n)
    PROVE  FlightInv'
<1> DEFINE s == Marked(slot[n])
           C == IF HasEvidence(slot[n]) THEN task[t].cleared ELSE task[t].cleared \cup {n}
           k == [task[t] EXCEPT !.todo = task[t].todo \ {n}, !.cleared = C]
<1>0. Typed /\ SlotsOK /\ TasksOK
  BY DEF FlightInv
<1>1. /\ task[t].step = "mark" /\ SetSlot(n, s) /\ (stack' = stack \/ stack' = Notified(stack, n))
      /\ UNCHANGED <<revision, graph, cell, changes, poisoned>>
  BY DEF MarkDependent
<1>2. task[t] \in Invalidations /\ stack[t] = <<>> /\ task[t].root \in Inputs
  BY <1>0, <1>1, TaskTyped
<1>3. task' = [task EXCEPT ![t] = k]
  BY <1>0, <1>2 DEF MarkDependent, Typed, Invalidations
<1>4. k \in Invalidations /\ k.root \in Inputs /\ k.step # "none"
  <2>1. C \in SUBSET Nodes /\ task[t].todo \ {n} \in SUBSET Nodes
    BY <1>2 DEF Invalidations
  <2> HIDE DEF C
  <2> QED
    BY <1>1, <1>2, <2>1 DEF Invalidations
<1>5. /\ s \in Slots /\ SlotOK(s)
      /\ s.state \in {"Computing", "Validating"} <=> slot[n].state \in {"Computing", "Validating"}
  BY <1>0, <1>2, InvalidatedSlot DEF Typed, SlotsOK
<1>6. slot' \in [Nodes -> Slots] /\ SlotsOK' /\ \A m \in Nodes : Busy(m)' <=> Busy(m)
  <2> HIDE DEF s
  <2>1. /\ slot' \in [Nodes -> Slots] /\ SlotsOK' /\ slot'[n] = s
        /\ \A m \in Nodes \ {n} : Busy(m)' <=> Busy(m)
    BY <1>0, <1>1, <1>5, SettingSlot
  <2>2. \A m : m = n => (Busy(m)' <=> Busy(m))
    BY <1>5, <2>1 DEF Busy
  <2> QED
    BY <2>1, <2>2
<1>7. /\ revision' \in [Nodes -> Nat] /\ forward' \in [Nodes -> SUBSET Nodes]
      /\ reverse' \in [Nodes -> SUBSET Nodes]
      /\ cell' \in [Inputs -> Values] /\ changes' \in 0 .. MaxChanges
  BY <1>0, <1>1, RestTyped DEF Typed
<1>8. PICK N : Rests(N)
  BY <1>0, <1>1, Resting, RestingNotified
<1> HIDE DEF k
<1> QED
  BY <1>1, <1>2, <1>3, <1>4, <1>6, <1>7, <1>8, TaskStep

LEMMA FlightSweepEdges ==
    ASSUME FlightInv, NEW t \in Threads, SweepEdges(t)
    PROVE  FlightInv'
<1>0. Typed /\ SlotsOK /\ TasksOK
  BY DEF FlightInv
<1>1. /\ task' = [task EXCEPT ![t] = NoTask] /\ remove_dependencies_from(task[t].cleared)
      /\ UNCHANGED <<slot, revision, stack, cell, changes, poisoned>>
  BY DEF SweepEdges
<1>2. slot' \in [Nodes -> Slots] /\ SlotsOK' /\ \A m : Busy(m)' <=> Busy(m)
  BY <1>0, <1>1, SlotsUnchanged
<1>3. forward' \in [Nodes -> SUBSET Nodes] /\ reverse' \in [Nodes -> SUBSET Nodes]
  BY <1>0, <1>1, GraphTyped
<1>4. revision' \in [Nodes -> Nat] /\ cell' \in [Inputs -> Values] /\ changes' \in 0 .. MaxChanges
  BY <1>0, <1>1, RestTyped DEF Typed
<1>5. Rests({})
  BY <1>0, <1>1, Resting
<1> QED
  BY <1>1, <1>2, <1>3, <1>4, <1>5, NoTaskTyped, TaskStep

(* Under the barrier of the session nobody is inside a query. *)
LEMMA BarrierStep ==
    ASSUME FlightInv, slot' \in [Nodes -> Slots], SlotsOK', \A m \in Nodes : Busy(m)' <=> Busy(m),
           revision' \in [Nodes -> Nat], forward' \in [Nodes -> SUBSET Nodes],
           reverse' \in [Nodes -> SUBSET Nodes],
           cell' \in [Inputs -> Values], changes' \in 0 .. MaxChanges,
           UNCHANGED <<stack, task, poisoned>>
    PROVE  FlightInv'
<1>1. Rests({})
  BY Resting DEF FlightInv
<1>2. FramesOK' /\ Single' /\ Sleepers'
  BY <1>1, RestsFlight
<1>3. TasksOK'
  BY DEF FlightInv, TasksOK
<1>4. Typed'
  BY DEF FlightInv, Typed
<1> QED
  BY <1>2, <1>3, <1>4 DEF FlightInv

LEMMA FlightChangeDuringRetirement ==
    ASSUME FlightInv, NEW n \in Inputs, NEW v \in Values, ChangeDuringRetirement(n, v)
    PROVE  FlightInv'
<1> DEFINE A == collect_dependents(n)
<1>0. Typed /\ SlotsOK /\ TasksOK
  BY DEF FlightInv
<1>1. /\ slot' = [m \in Nodes |-> IF m = n THEN Invalidated(slot[m])
                                  ELSE IF m \in A THEN Marked(slot[m]) ELSE slot[m]]
      /\ \E S : remove_dependencies_from(S)
      /\ UNCHANGED <<revision, stack, task, poisoned>>
  BY DEF ChangeDuringRetirement
<1>2. ASSUME NEW m \in Nodes
      PROVE  slot'[m] \in Slots /\ SlotOK(slot'[m]) /\ (Busy(m)' <=> Busy(m))
  <2> HIDE DEF A
  <2>1. slot[m] \in Slots /\ SlotOK(slot[m])
    BY <1>0 DEF Typed, SlotsOK
  <2>2. slot'[m] \in {Invalidated(slot[m]), Marked(slot[m]), slot[m]}
    BY <1>1
  <2>3. /\ slot'[m] \in Slots /\ SlotOK(slot'[m])
        /\ slot'[m].state \in {"Computing", "Validating"} <=>
            slot[m].state \in {"Computing", "Validating"}
    BY <2>1, <2>2, InvalidatedSlot
  <2> QED
    BY <2>3 DEF Busy
<1>3. slot' \in [Nodes -> Slots] /\ SlotsOK' /\ \A m \in Nodes : Busy(m)' <=> Busy(m)
  <2> HIDE DEF A
  <2> QED
    BY <1>1, <1>2 DEF SlotsOK
<1>4. forward' \in [Nodes -> SUBSET Nodes] /\ reverse' \in [Nodes -> SUBSET Nodes]
  BY <1>0, <1>1, GraphTyped
<1>5. revision' \in [Nodes -> Nat]
  BY <1>0, <1>1, RestTyped
<1>6. cell' \in [Inputs -> Values] /\ changes' \in 0 .. MaxChanges
  BY <1>0, BoundsAssumption DEF Typed, ChangeDuringRetirement
<1> QED
  BY <1>1, <1>3, <1>4, <1>5, <1>6, BarrierStep

LEMMA FlightRetire ==
    ASSUME FlightInv, NEW n \in Nodes, Retire(n)
    PROVE  FlightInv'
<1> DEFINE A == collect_dependents(n)
           S == {n} \cup {m \in A : ~HasEvidence(slot[m])}
<1>0. Typed /\ SlotsOK /\ TasksOK
  BY DEF FlightInv
<1>1. /\ slot' = [m \in Nodes |-> IF m = n THEN Empty
                                  ELSE IF m \in A THEN Forgotten(Marked(slot[m]), n) ELSE slot[m]]
      /\ forward' = [m \in Nodes |-> RemovedForward(S)[m] \ {n}]
      /\ reverse' = [RemovedReverse(S) EXCEPT ![n] = {}]
      /\ \A t \in Threads : stack[t] = <<>>
      /\ revision' = [revision EXCEPT ![n] = 0]
      /\ UNCHANGED <<stack, task, cell, poisoned>>
  BY DEF Retire
<1>2. ~Busy(n)
  <2>1. \A t \in Threads : Len(stack[t]) = 0
    BY <1>1
  <2>2. \A t \in Threads : ~(\E i \in 1 .. Len(stack[t]) : TRUE)
    BY <2>1
  <2> QED
    BY <2>2 DEF FlightInv, Single
<1>3. ASSUME NEW m \in Nodes
      PROVE  slot'[m] \in Slots /\ SlotOK(slot'[m]) /\ (Busy(m)' <=> Busy(m))
  <2> HIDE DEF A
  <2>1. slot[m] \in Slots /\ SlotOK(slot[m])
    BY <1>0 DEF Typed, SlotsOK
  <2>2. CASE m = n
    <3>1. slot'[m] = Empty
      BY <1>1, <2>2
    <3> QED
      BY <1>2, <2>2, <3>1, SlotTyped, NoPayloadTyped DEF Busy
  <2>3. CASE m # n
    <3>1. slot'[m] \in {Forgotten(Marked(slot[m]), n), slot[m]}
      BY <1>1, <2>3
    <3>2. /\ slot'[m] \in Slots /\ SlotOK(slot'[m])
          /\ slot'[m].state \in {"Computing", "Validating"} <=>
            slot[m].state \in {"Computing", "Validating"}
      BY <2>1, <3>1, InvalidatedSlot
    <3> QED
      BY <3>2 DEF Busy
  <2> QED
    BY <2>2, <2>3
<1>4. slot' \in [Nodes -> Slots] /\ SlotsOK' /\ \A m \in Nodes : Busy(m)' <=> Busy(m)
  <2> HIDE DEF A
  <2> QED
    BY <1>1, <1>3 DEF SlotsOK
<1>5. forward' \in [Nodes -> SUBSET Nodes] /\ reverse' \in [Nodes -> SUBSET Nodes]
  <2> HIDE DEF S
  <2>1. RemovedForward(S) \in [Nodes -> SUBSET Nodes] /\ RemovedReverse(S) \in [Nodes -> SUBSET Nodes]
    BY <1>0 DEF Typed, RemovedForward, RemovedReverse
  <2> QED
    BY <1>1, <2>1
<1>6. revision' \in [Nodes -> Nat] /\ cell' \in [Inputs -> Values]
  BY <1>0, <1>1 DEF Typed
<1>7. changes' \in 0 .. MaxChanges
  BY <1>0, BoundsAssumption DEF Typed, Retire
<1> QED
  BY <1>1, <1>4, <1>5, <1>6, <1>7, BarrierStep

-----------------------------------------------------------------------------
LEMMA FlightInitially ==
    ASSUME Init
    PROVE  FlightInv
<1>1. Empty \in Slots /\ SlotOK(Empty) /\ Empty.state = "Empty"
  BY SlotTyped, NoPayloadTyped
<1>2. \A t \in Threads : stack[t] = <<>> /\ Len(stack[t]) = 0
  BY DEF Init
<1>3. \A t \in Threads : ~\E i \in 1 .. Len(stack[t]) : TRUE
  BY <1>2
<1>4. \A n \in Nodes : slot[n] = Empty
  BY DEF Init
<1>5. Typed
  <2>1. stack \in [Threads -> Seq(Frames)]
    BY DEF Init
  <2>2. slot \in [Nodes -> Slots]
    BY <1>1 DEF Init
  <2>3. changes \in 0 .. MaxChanges
    BY BoundsAssumption DEF Init
  <2> QED
    BY <2>1, <2>2, <2>3, NoTaskTyped DEF Init, Typed
<1>6. \A n \in Nodes : ~Busy(n)
  BY <1>1, <1>4 DEF Busy
<1>7. SlotsOK
  BY <1>1, <1>4 DEF SlotsOK
<1>8. TasksOK
  BY DEF Init, TasksOK
<1>9. FramesOK /\ Single
  BY <1>3, <1>6 DEF FramesOK, Single
<1>10. Sleepers
  BY <1>2 DEF Sleepers, At
<1> QED
  BY <1>5, <1>7, <1>8, <1>9, <1>10 DEF FlightInv

LEMMA FlightStep ==
    ASSUME FlightInv, [Next]_vars
    PROVE  FlightInv'
<1>1. ASSUME NEW t \in Threads, Step(t)
      PROVE  FlightInv'
  BY <1>1, FlightLookupReady, FlightLookupOutdated, FlightLookupBusy, FlightLookupCycle,
     FlightLookupEmpty, FlightWakeUp, FlightStartProvider, FlightProviderReads,
     FlightProviderRefused, FlightProviderReturns, FlightProviderFails, FlightPublish,
     FlightDiscardResult, FlightFail, FlightValidateUnfingerprinted, FlightValidateEnsures,
     FlightCompare, FlightSettleGreen, FlightSettleRed, FlightSettleError, FlightCheckInput,
     FlightCollectDependents, FlightInvalidateRoot, FlightMarkDependent, FlightSweepEdges
     DEF Step
<1>2. ASSUME UNCHANGED vars
      PROVE  FlightInv'
  <2>1. Typed /\ SlotsOK
    BY DEF FlightInv
  <2>2. slot' \in [Nodes -> Slots] /\ SlotsOK' /\ \A m : Busy(m)' <=> Busy(m)
    BY <1>2, <2>1, SlotsUnchanged DEF vars
  <2>3. /\ revision' \in [Nodes -> Nat] /\ forward' \in [Nodes -> SUBSET Nodes]
        /\ reverse' \in [Nodes -> SUBSET Nodes]
        /\ cell' \in [Inputs -> Values] /\ changes' \in 0 .. MaxChanges
        /\ UNCHANGED <<stack, task, poisoned>>
    BY <1>2, <2>1 DEF vars, Typed
  <2> QED
    BY <2>2, <2>3, BarrierStep
<1> QED
  BY <1>1, <1>2, FlightRequest, FlightChangeInput, FlightChangeDuringRetirement, FlightRetire
     DEF Next

(* A busy slot has exactly one owner. *)
LEMMA FlightShows ==
    ASSUME FlightInv
    PROVE  OneComputer
<1>0. Typed /\ SlotsOK /\ FramesOK /\ TasksOK /\ Single /\ Sleepers
  BY DEF FlightInv
<1>1. \A n : \A o : o \in Owners(n) <=>
        \E t \in Threads : \E i \in 1 .. Len(stack[t]) : Owns(t, i, n) /\ o = <<t, i>>
  BY DEF Owners
<1>2. ASSUME NEW n \in Nodes, Busy(n)
      PROVE  \E t \in Threads : \E i \in 1 .. Len(stack[t]) : Owners(n) = {<<t, i>>}
  <2>1. PICK t \in Threads : \E i \in 1 .. Len(stack[t]) : Owns(t, i, n)
    BY <1>0, <1>2 DEF Single
  <2>2. PICK i \in 1 .. Len(stack[t]) : Owns(t, i, n)
    BY <2>1
  <2>3. \A u \in Threads : \A j \in 1 .. Len(stack[u]) : Owns(u, j, n) => t = u /\ i = j
    BY <1>0, <2>2 DEF Single
  <2>4. \A o : o \in Owners(n) <=> o = <<t, i>>
    BY <1>1, <2>2, <2>3
  <2> QED
    BY <2>4
<1>3. ASSUME NEW n \in Nodes
      PROVE  IF Busy(n) THEN Cardinality(Owners(n)) = 1 ELSE Owners(n) = {}
  <2>1. CASE Busy(n)
    BY <1>2, <2>1, FS_Singleton
  <2>2. CASE ~Busy(n)
    <3>1. \A t \in Threads : \A i \in 1 .. Len(stack[t]) : ~Owns(t, i, n)
      BY <1>0, <2>2 DEF Single
    <3>2. \A o : o \notin Owners(n)
      BY <1>1, <3>1
    <3> QED
      BY <2>2, <3>2
  <2> QED
    BY <2>1, <2>2
<1>4. ASSUME NEW t \in Threads, At(t, "wait")
      PROVE  \E o \in Owners(Top(t).node) : o[1] # t
  <2>1. /\ Busy(Top(t).node) /\ ~OnStack(t, Top(t).node) /\ Top(t).node \in Nodes
        /\ Top(t) = stack[t][1] /\ Top(t).phase = "wait" /\ Len(stack[t]) \in Nat
    BY <1>0, <1>4, TopFrame DEF Sleepers, At
  <2> DEFINE n == Top(t).node
  <2>2. PICK u \in Threads : \E i \in 1 .. Len(stack[u]) : Owns(u, i, n)
    BY <1>0, <2>1 DEF Single
  <2>3. PICK i \in 1 .. Len(stack[u]) : Owns(u, i, n)
    BY <2>2
  <2>4. u # t
    <3>1. SUFFICES ASSUME u = t PROVE FALSE
      OBVIOUS
    <3>2. i # 1
      BY <2>1, <2>3, <3>1 DEF Owns, Owning
    <3>3. i \in 2 .. Len(stack[t])
      BY <2>1, <3>1, <3>2
    <3> QED
      BY <2>1, <2>3, <3>1, <3>3 DEF Owns, OnStack
  <2>5. <<u, i>> \in Owners(n) /\ <<u, i>>[1] = u
    BY <1>1, <2>3
  <2> QED
    BY <2>4, <2>5
<1>5. ASSUME NEW n \in Nodes
      PROVE  /\ slot[n].state \in {"Empty", "Computing", "Validating", "Ready", "PotentiallyOutdated"}
             /\ slot[n].invalidated => Busy(n)
             /\ IF slot[n].state \in {"Ready", "PotentiallyOutdated"}
                  THEN PayloadOK(slot[n].payload) ELSE slot[n].payload = NoPayload
             /\ slot[n].state = "PotentiallyOutdated" => slot[n].payload.fingerprint # NoFingerprint
  <2>1. slot[n] \in Slots /\ SlotOK(slot[n])
    BY <1>0 DEF Typed, SlotsOK
  <2>2. slot[n].payload \in Payloads
    BY <2>1 DEF Slots
  <2>3. slot[n].payload.value \in Values => PayloadOK(slot[n].payload)
    BY <2>2, EvidenceTyped DEF Payloads, PayloadOK
  <2> QED
    BY <2>1, <2>3 DEF Slots, SlotOK, Busy
<1>6. ASSUME NEW t \in Threads
      PROVE  /\ \A i \in 1 .. Len(stack[t]) :
                /\ stack[t][i].node \in Nodes
                /\ i > 1 => stack[t][i].phase \in {"run", "validate"}
             /\ task[t].todo \cup task[t].cleared \subseteq Nodes
             /\ task[t] # NoTask => stack[t] = <<>>
  <2>1. \A i \in 1 .. Len(stack[t]) : stack[t][i].node \in Nodes
    BY <1>0, EveryFrame
  <2>2. \A i \in 1 .. Len(stack[t]) : i > 1 => stack[t][i].phase \in {"run", "validate"}
    BY <1>0 DEF FramesOK, CallerOK
  <2>3. task[t].todo \in SUBSET Nodes /\ task[t].cleared \in SUBSET Nodes
    BY <1>0 DEF Typed, Invalidations
  <2> QED
    BY <1>0, <2>1, <2>2, <2>3 DEF TasksOK
<1>7. TypeOK
  <2>1. /\ revision \in [Nodes -> Nat] /\ forward \in [Nodes -> SUBSET Nodes]
        /\ reverse \in [Nodes -> SUBSET Nodes] /\ cell \in [Inputs -> Values]
        /\ changes \in 0 .. MaxChanges /\ poisoned \in BOOLEAN
    BY <1>0 DEF Typed
  <2>2. \A n \in Nodes :
        /\ slot[n].state \in {"Empty", "Computing", "Validating", "Ready",
                              "PotentiallyOutdated"}
        /\ slot[n].invalidated => Busy(n)
        /\ IF slot[n].state \in {"Ready", "PotentiallyOutdated"}
             THEN PayloadOK(slot[n].payload) ELSE slot[n].payload = NoPayload
        /\ slot[n].state = "PotentiallyOutdated" =>
                slot[n].payload.fingerprint # NoFingerprint
    BY <1>5
  <2>3. \A t \in Threads :
        /\ \A i \in 1 .. Len(stack[t]) :
            /\ stack[t][i].node \in Nodes
            /\ i > 1 => stack[t][i].phase \in {"run", "validate"}
        /\ task[t].todo \cup task[t].cleared \subseteq Nodes
        /\ task[t] # NoTask => stack[t] = <<>>
    <3>1. TAKE t \in Threads
    <3> QED
      BY <1>6
  <2> QED
    BY ONLY <2>1, <2>2, <2>3 DEF TypeOK
<1> QED
  BY <1>3, <1>4, <1>7 DEF OneComputer

(* Single flight, for any queries and threads: a slot is Computing or      *)
(* Validating exactly while one get, on one thread, works on it, whatever  *)
(* invalidations do beside it; and a sleeper sleeps on a slot that another *)
(* thread works on (begin_computation, wait, publish in database.rs).      *)
THEOREM SingleFlight == Spec => []OneComputer
<1>1. Init => FlightInv
  BY FlightInitially
<1>2. FlightInv /\ [Next]_vars => FlightInv'
  BY FlightStep
<1>3. FlightInv => OneComputer
  BY FlightShows
<1> QED
  BY <1>1, <1>2, <1>3, PTL DEF Spec

-----------------------------------------------------------------------------
(* Edges and inputs.  Most frames of a step follow a frame that was there. *)

TrackInv == EdgesHeld /\ InputsTracked

Follows(g, f) ==
    /\ g.node = f.node /\ g.kept = f.kept
    /\ g.reads = f.reads \/ NextOf(f) # Done
    /\ g.phase \in Judging => f.phase \in Judging
    /\ g.phase = "publish" => f.phase = "publish"

Sources(t) ==
    \A j \in 1 .. Len(stack'[t]) :
        \/ \E i \in 1 .. Len(stack[t]) : Follows(stack'[t][j], stack[t][i])
        \/ FrameTracked(stack[t][j])'

(* What a step of a get on n may do to other nodes, to the slot and to the *)
(* edges of n.                                                             *)
Touches(t, n) ==
    /\ stack[t] # <<>> => Top(t).node = n
    /\ \E N : Others(t, N)
    /\ UNCHANGED <<task, cell>>
    /\ \A m \in Nodes \ {n} : slot'[m] = slot[m] /\ forward'[m] = forward[m]

SlotSettled(n) ==
    \/ slot'[n] = slot[n]
    \/ SlotTracked(n)' /\ (~Busy(n) \/ ~Busy(n)')

EdgesSettled(t, n) ==
    \/ forward'[n] = {}
    \/ slot'[n].state \in {"Ready", "PotentiallyOutdated", "Validating"}
    \/ Clearing(t, n)'
    \/ slot'[n] = slot[n] /\ forward'[n] = forward[n] /\ ~Clearing(t, n)

(* A frame that follows a tracked one is tracked. *)
LEMMA FollowsTracked ==
    ASSUME NEW f \in Frames, FrameTracked(f), NEW g, Follows(g, f), UNCHANGED <<task, cell>>,
           slot[f.node].invalidated => slot'[f.node].invalidated
    PROVE  FrameTracked(g)'
<1>1. \A m : Announced(m)' <=> Announced(m)
  BY DEF Announced, Announces
<1>2. f.node \in Leaves /\ f.reads = <<>> => NextOf(f) = Done
  BY DEF Leaves, NextOf
<1> QED
  BY <1>1, <1>2 DEF FrameTracked, Follows

LEMMA StillFollows ==
    ASSUME Typed, NEW u \in Threads, NEW N, Still(u, N)
    PROVE  \A i \in 1 .. Len(stack[u]) : Follows(stack'[u][i], stack[u][i])
<1>1. TAKE i \in 1 .. Len(stack[u])
<1>2. stack[u][i] \in Frames /\ Woke(stack'[u][i], stack[u][i])
  BY EveryFrame DEF Still
<1>3. CASE stack'[u][i] = stack[u][i]
  BY <1>3 DEF Follows
<1>4. CASE stack'[u][i] = [stack[u][i] EXCEPT !.phase = "woken"]
  <2>1. /\ stack'[u][i].phase = "woken" /\ stack'[u][i].node = stack[u][i].node
        /\ stack'[u][i].kept = stack[u][i].kept /\ stack'[u][i].reads = stack[u][i].reads
    BY <1>2, <1>4 DEF Frames
  <2> QED
    BY <2>1 DEF Follows, Judging
<1> QED
  BY <1>2, <1>3, <1>4 DEF Woke

(* A get keeps inputs tracked. *)
LEMMA TrackedGet ==
    ASSUME FlightInv, FlightInv', InputsTracked, NEW t \in Threads, NEW n \in Nodes,
           Touches(t, n), Sources(t), SlotSettled(n)
    PROVE  InputsTracked'
<1>0. Typed /\ Typed' /\ Single /\ Single'
  BY DEF FlightInv
<1>1. \A m : Announced(m)' <=> Announced(m)
  BY DEF Announced, Announces, Touches
<1>2. ASSUME NEW m \in Nodes
      PROVE  SlotTracked(m)'
  <2>1. SlotTracked(m)
    BY DEF InputsTracked
  <2>2. CASE slot'[m] = slot[m]
    BY <1>1, <2>1, <2>2 DEF SlotTracked, Touches
  <2>3. CASE slot'[m] # slot[m]
    BY <2>3 DEF SlotSettled, Touches
  <2> QED
    BY <2>2, <2>3
<1>3. ASSUME NEW u \in Threads, NEW j \in 1 .. Len(stack'[u]), NEW i \in 1 .. Len(stack[u]),
             Follows(stack'[u][j], stack[u][i])
      PROVE  FrameTracked(stack[u][j])'
  <2>0. stack[u][i] \in Frames /\ FrameTracked(stack[u][i])
    BY <1>0, EveryFrame DEF InputsTracked
  <2> DEFINE f == stack[u][i]
             g == stack'[u][j]
  <2>1. CASE slot'[f.node] = slot[f.node]
    <3>1. \A h : h = g => FrameTracked(h)'
      BY <1>3, <2>0, <2>1, FollowsTracked DEF Touches
    <3> QED
      BY <3>1
  <2>2. CASE slot'[f.node] # slot[f.node]
    <3>1. f.node = n /\ g.node = n
      BY <1>3, <2>0, <2>2 DEF Touches, Frames, Follows
    <3>2. ~Owns(u, j, n)' \/ ~Owns(u, i, n)
      <4>1. CASE ~Busy(n)'
        BY <1>0, <4>1 DEF Single
      <4>2. CASE ~Busy(n)
        BY <1>0, <4>2 DEF Single
      <4> QED
        BY <2>2, <3>1, <4>1, <4>2 DEF SlotSettled
    <3>3. g.phase \notin Judging \cup {"publish"}
      BY <1>3, <3>1, <3>2 DEF Owns, Owning, Judging, Follows
    <3>4. g.node \in Leaves => g.reads = <<>>
      BY <1>3, <2>0 DEF Follows, FrameTracked, Leaves, NextOf
    <3> QED
      BY <3>3, <3>4 DEF FrameTracked
  <2> QED
    BY <2>1, <2>2
<1>4. ASSUME NEW u \in Threads, NEW j \in 1 .. Len(stack'[u])
      PROVE  FrameTracked(stack[u][j])'
  <2>1. CASE u # t
    <3>1. PICK N : Others(t, N)
      BY DEF Touches
    <3>2. Still(u, N)
      BY <2>1, <3>1 DEF Others
    <3>3. j \in 1 .. Len(stack[u])
      BY <3>2 DEF Still
    <3>4. Follows(stack'[u][j], stack[u][j])
      BY <1>0, <3>2, <3>3, StillFollows
    <3> QED
      BY <1>3, <2>1, <3>3, <3>4
  <2>2. CASE u = t
    BY <1>3, <2>2 DEF Sources
  <2> QED
    BY <2>1, <2>2
<1>5. \A u \in Threads : task'[u].step = "check" => Policy[task'[u].root] = "StableValue"
  BY DEF InputsTracked, Touches
<1> QED
  BY <1>2, <1>4, <1>5 DEF InputsTracked

(* A get leaves edges only where somebody will remove them. *)
LEMMA EdgesGet ==
    ASSUME FlightInv, FlightInv', EdgesHeld, NEW t \in Threads, NEW n \in Nodes,
           Touches(t, n), EdgesSettled(t, n)
    PROVE  EdgesHeld'
<1>0. Typed /\ Typed'
  BY DEF FlightInv
<1>1. PICK N : Others(t, N)
  BY DEF Touches
<1>2. \A u \in Threads : \A m : Sweeping(u, m)' <=> Sweeping(u, m)
  BY DEF Sweeping, Touches
<1>3. ASSUME NEW u \in Threads \ {t}, NEW m \in Nodes, Clearing(u, m), slot'[m] = slot[m]
      PROVE  Clearing(u, m)'
  <2>1. Still(u, N) /\ stack'[u] \in Seq(Frames)
    BY <1>1 DEF Others, Stacks
  <2>2. /\ stack[u] # <<>> /\ Top(u) = stack[u][1] /\ 1 \in 1 .. Len(stack[u])
        /\ Len(stack[u]) > 0 /\ Top(u) \in Frames
    BY <1>0, <1>3, TopFrame DEF Clearing
  <2>3. Woke(stack'[u][1], stack[u][1]) /\ Len(stack'[u]) > 0
    BY <2>1, <2>2 DEF Still
  <2>4. stack'[u] # <<>> /\ Head(stack'[u]) = stack'[u][1]
    BY <2>1, <2>3, SeqHead
  <2>5. /\ stack'[u][1].node = Top(u).node
        /\ stack'[u][1].phase = Top(u).phase \/ (Top(u).phase = "wait" /\ stack'[u][1].phase = "woken")
    BY <2>2, <2>3 DEF Woke, Frames
  <2> QED
    BY <1>3, <2>4, <2>5 DEF Clearing, Top
<1>4. ASSUME NEW m \in Nodes, forward'[m] # {}, slot'[m] = slot[m], forward'[m] = forward[m],
             ~Clearing(t, m)
      PROVE  \/ slot'[m].state \in {"Ready", "PotentiallyOutdated", "Validating"}
             \/ \E u \in Threads : Clearing(u, m)'
             \/ \E u \in Threads : Sweeping(u, m)'
  <2>1. \/ slot[m].state \in {"Ready", "PotentiallyOutdated", "Validating"}
        \/ \E u \in Threads : Clearing(u, m)
        \/ \E u \in Threads : Sweeping(u, m)
    BY <1>4 DEF EdgesHeld
  <2> QED
    BY <1>2, <1>3, <1>4, <2>1
<1>5. ASSUME NEW m \in Nodes, forward'[m] # {}
      PROVE  \/ slot'[m].state \in {"Ready", "PotentiallyOutdated", "Validating"}
             \/ \E u \in Threads : Clearing(u, m)'
             \/ \E u \in Threads : Sweeping(u, m)'
  <2>1. CASE m = n
    BY <1>4, <1>5, <2>1 DEF EdgesSettled
  <2>2. CASE m # n
    <3>1. ~Clearing(t, m) /\ slot'[m] = slot[m] /\ forward'[m] = forward[m]
      BY <2>2 DEF Clearing, Touches
    <3> QED
      BY <1>4, <1>5, <3>1
  <2> QED
    BY <2>1, <2>2
<1> QED
  BY <1>5 DEF EdgesHeld

(* The two together. *)
LEMMA TrackGet ==
    ASSUME FlightInv, FlightInv', TrackInv, NEW t \in Threads, NEW n \in Nodes,
           Touches(t, n), Sources(t), SlotSettled(n), EdgesSettled(t, n)
    PROVE  TrackInv'
BY TrackedGet, EdgesGet DEF TrackInv

(* Where the frames of each kind of step come from. *)
LEMMA StaysSources ==
    ASSUME Typed, NEW t \in Threads, stack[t] # <<>>, NEW f, NEW N, Stays(t, f, N),
           Follows(f, Top(t)) \/ FrameTracked(f)'
    PROVE  Sources(t)
<1>1. Top(t) = stack[t][1] /\ 1 \in 1 .. Len(stack[t]) /\ Len(stack[t]) \in Nat
  BY TopFrame
<1>2. ASSUME NEW j \in 1 .. Len(stack'[t])
      PROVE  \/ \E i \in 1 .. Len(stack[t]) : Follows(stack'[t][j], stack[t][i])
             \/ FrameTracked(stack[t][j])'
  <2>1. CASE j = 1
    <3>1. stack'[t][j] = f
      BY <2>1 DEF Stays
    <3>2. FrameTracked(f)' => FrameTracked(stack[t][j])'
      BY <3>1 DEF FrameTracked
    <3> QED
      BY <1>1, <3>1, <3>2
  <2>2. CASE j # 1
    <3>1. j \in 2 .. Len(stack[t]) /\ j \in 1 .. Len(stack[t])
      BY <1>1, <2>2 DEF Stays
    <3>2. stack'[t][j] = stack[t][j]
      BY <3>1 DEF Stays
    <3> QED
      BY <3>1, <3>2 DEF Follows
  <2> QED
    BY <2>1, <2>2
<1> QED
  BY <1>2 DEF Sources

LEMMA ResumesSources ==
    ASSUME Typed, NEW t \in Threads, stack[t] # <<>>, NEW f, NEW N, Resumes(t, f, N)
    PROVE  Sources(t)
<1>1. Len(stack[t]) \in Nat /\ Len(stack[t]) > 0 /\ Len(stack'[t]) = Len(stack[t]) - 1
  BY TopFrame DEF Resumes, Returns
<1>2. ASSUME NEW j \in 1 .. Len(stack'[t])
      PROVE  \E i \in 1 .. Len(stack[t]) : Follows(stack'[t][j], stack[t][i])
  <2>1. CASE j = 1
    <3>1. Len(stack[t]) > 1 /\ 2 \in 1 .. Len(stack[t])
      BY <1>1, <2>1
    <3>2. stack'[t][j] = f /\ Resumed(stack[t][2], f)
      BY <2>1, <3>1 DEF Resumes, Returns
    <3>3. Follows(f, stack[t][2])
      BY <3>2 DEF Follows, Resumed, CallerOK, Judging
    <3> QED
      BY <3>1, <3>2, <3>3
  <2>2. CASE j # 1
    <3>1. j + 1 \in 3 .. Len(stack[t]) /\ j + 1 \in 1 .. Len(stack[t]) /\ (j + 1) - 1 = j
      BY <1>1, <2>2
    <3>2. stack'[t][j] = stack[t][j + 1]
      BY <3>1 DEF Resumes, Returns
    <3> QED
      BY <3>1, <3>2 DEF Follows
  <2> QED
    BY <2>1, <2>2
<1> QED
  BY <1>2 DEF Sources

LEMMA CallsSources ==
    ASSUME Typed, NEW t \in Threads, NEW g, NEW d, Calls(t, g, Frame(d)),
           Len(stack[t]) > 0 => Follows(g, Top(t))
    PROVE  Sources(t)
<1>1. Len(stack[t]) \in Nat /\ Len(stack'[t]) = Len(stack[t]) + 1
  BY DEF Calls, Typed
<1>2. Len(stack[t]) > 0 => Top(t) = stack[t][1]
  BY SeqHead DEF Top, Typed
<1>3. ASSUME NEW j \in 1 .. Len(stack'[t])
      PROVE  \/ \E i \in 1 .. Len(stack[t]) : Follows(stack'[t][j], stack[t][i])
             \/ FrameTracked(stack[t][j])'
  <2>1. CASE j = 1
    <3>1. stack'[t][j] = Frame(d)
      BY <2>1 DEF Calls
    <3> QED
      BY <3>1 DEF FrameTracked, Frame, Judging
  <2>2. CASE j = 2
    <3>1. Len(stack[t]) > 0 /\ 1 \in 1 .. Len(stack[t])
      BY <1>1, <2>2
    <3>2. stack'[t][j] = g
      BY <2>2, <3>1 DEF Calls
    <3> QED
      BY <1>2, <3>1, <3>2
  <2>3. CASE j # 1 /\ j # 2
    <3>1. j - 1 \in 2 .. Len(stack[t]) /\ j - 1 \in 1 .. Len(stack[t]) /\ (j - 1) + 1 = j
      BY <1>1, <2>3
    <3>2. stack'[t][j] = stack[t][j - 1]
      BY <3>1 DEF Calls
    <3> QED
      BY <3>1, <3>2 DEF Follows
  <2> QED
    BY <2>1, <2>2, <2>3
<1> QED
  BY <1>3 DEF Sources

-----------------------------------------------------------------------------
(* The steps of a get, once more. *)

(* The top frame moves on, on its own slot. *)
LEMMA TrackStays ==
    ASSUME FlightInv, FlightInv', TrackInv, NEW t \in Threads, NEW n \in Nodes, stack[t] # <<>>,
           Top(t).node = n, NEW f, NEW N, Stays(t, f, N), Follows(f, Top(t)) \/ FrameTracked(f)',
           \A m \in Nodes \ {n} : slot'[m] = slot[m] /\ forward'[m] = forward[m],
           UNCHANGED <<task, cell>>, SlotSettled(n), EdgesSettled(t, n)
    PROVE  TrackInv'
<1>1. Sources(t)
  BY StaysSources DEF FlightInv
<1>2. Touches(t, n)
  BY DEF Touches, Stays
<1> QED
  BY <1>1, <1>2, TrackGet

LEMMA TopTracked ==
    ASSUME Typed, TrackInv, NEW t \in Threads, stack[t] # <<>>
    PROVE  FrameTracked(Top(t)) /\ SlotTracked(Top(t).node)
BY TopFrame DEF TrackInv, InputsTracked

LEMMA StaysTop ==
    ASSUME NEW t \in Threads, NEW f, NEW N, Stays(t, f, N)
    PROVE  stack'[t] # <<>> /\ Top(t)' = f
<1>1. stack'[t] \in Seq(Frames) /\ Len(stack'[t]) > 0 /\ stack'[t][1] = f
  BY DEF Stays, Others, Stacks
<1>2. stack'[t] # <<>> /\ Head(stack'[t]) = f
  BY <1>1, SeqHead
<1> QED
  BY <1>2 DEF Top

(* A get returns. *)
LEMMA TrackReturns ==
    ASSUME FlightInv, FlightInv', TrackInv, NEW t \in Threads, NEW n \in Nodes, stack[t] # <<>>,
           Top(t).node = n, NEW N, \E f : Resumes(t, f, N),
           \A m \in Nodes \ {n} : slot'[m] = slot[m] /\ forward'[m] = forward[m],
           UNCHANGED <<task, cell>>, SlotSettled(n), EdgesSettled(t, n)
    PROVE  TrackInv'
<1>0. PICK f : Resumes(t, f, N)
  OBVIOUS
<1>1. Sources(t)
  BY <1>0, ResumesSources DEF FlightInv
<1>2. Touches(t, n)
  BY <1>0 DEF Touches, Resumes, Returns
<1> QED
  BY <1>1, <1>2, TrackGet

(* A get is made. *)
LEMMA TrackCalls ==
    ASSUME FlightInv, FlightInv', TrackInv, NEW t \in Threads, NEW n \in Nodes,
           stack[t] # <<>> => Top(t).node = n /\ Top(t).phase \in {"run", "validate"},
           NEW g, NEW d, Calls(t, g, Frame(d)), Len(stack[t]) > 0 => Follows(g, Top(t)),
           UNCHANGED <<slot, graph, task, cell>>
    PROVE  TrackInv'
<1>1. Sources(t)
  BY CallsSources DEF FlightInv
<1>2. Touches(t, n) /\ SlotSettled(n)
  BY DEF Touches, SlotSettled, Calls, graph
<1>3. EdgesSettled(t, n)
  BY DEF EdgesSettled, Clearing, graph
<1> QED
  BY <1>1, <1>2, <1>3, TrackGet

(* A step of a frame at work that only changes its phase. *)
LEMMA TrackPhase ==
    ASSUME FlightInv, FlightInv', TrackInv, NEW t \in Threads, NEW p, NEW q, At(t, p),
           p \in Owning \ {"clear"}, q \in Owning,
           q \in Judging => p \in Judging, q # "publish", stack' = InPhase(t, q),
           UNCHANGED <<slot, graph, task, cell>>
    PROVE  TrackInv'
<1>1. stack[t] # <<>> /\ Top(t).phase = p /\ Top(t) \in Frames /\ Typed /\ Top(t).node \in Nodes
  BY AtTop
<1>2. PICK n, f : n \in Nodes /\ n = Top(t).node /\ f = [Top(t) EXCEPT !.phase = q]
  BY <1>1
<1>3. /\ f \in Frames /\ f.node = Top(t).node /\ f.phase = q /\ f.kept = Top(t).kept
      /\ f.reads = Top(t).reads
  BY <1>1, <1>2, PhaseTyped
<1>4. stack' = WithTop(t, f)
  BY <1>2 DEF InPhase
<1>5. Follows(f, Top(t))
  BY <1>1, <1>3 DEF Follows
<1>6. SlotSettled(n) /\ EdgesSettled(t, n)
  BY <1>1 DEF SlotSettled, EdgesSettled, Clearing, graph, Owning
<1>7. forward' = forward /\ slot' = slot
  BY DEF graph
<1>8. Stays(t, f, {})
  BY <1>1, <1>3, <1>4, Staying
<1> QED
  BY <1>1, <1>2, <1>5, <1>6, <1>7, <1>8, TrackStays

LEMMA TrackLookupReady ==
    ASSUME FlightInv, FlightInv', TrackInv, NEW t \in Threads, LookupReady(t)
    PROVE  TrackInv'
<1>1. At(t, "lookup") /\ slot[Top(t).node].state = "Ready" /\ UNCHANGED <<slot, graph, task, cell>>
  BY DEF LookupReady, Lookup
<1>2. /\ stack[t] # <<>> /\ Typed /\ FramesOK /\ Top(t).node \in Nodes
      /\ slot[Top(t).node] \in Slots /\ SlotOK(slot[Top(t).node])
  BY <1>1, AtTop
<1>3. /\ slot[Top(t).node].payload.value \in Values
      /\ slot[Top(t).node].payload.fingerprint \in Fingerprints
  BY <1>1, <1>2 DEF SlotOK, Slots, Payloads
<1>4. \E f : Resumes(t, f, {})
  BY <1>2, <1>3, GivesValue DEF LookupReady
<1>5. PICK n \in Nodes : n = Top(t).node
  BY <1>2
<1>6. SlotSettled(n) /\ EdgesSettled(t, n)
  BY <1>1, <1>5 DEF SlotSettled, EdgesSettled
<1> QED
  BY <1>1, <1>2, <1>4, <1>5, <1>6, TrackReturns DEF graph

LEMMA TrackLookupCycle ==
    ASSUME FlightInv, FlightInv', TrackInv, NEW t \in Threads, LookupCycle(t)
    PROVE  TrackInv'
<1>1. /\ At(t, "lookup") /\ slot[Top(t).node].state \in {"Computing", "Validating"}
      /\ UNCHANGED <<slot, graph, task, cell>>
  BY DEF LookupCycle, Lookup
<1>2. stack[t] # <<>> /\ Typed /\ FramesOK /\ Top(t).node \in Nodes /\ Top(t).phase = "lookup"
  BY <1>1, AtTop
<1>4. \E f : Resumes(t, f, {})
  BY <1>2, GivesError DEF LookupCycle
<1>5. PICK n \in Nodes : n = Top(t).node
  BY <1>2
<1>6. SlotSettled(n) /\ EdgesSettled(t, n)
  BY <1>1, <1>2, <1>5 DEF SlotSettled, EdgesSettled, Clearing, graph
<1> QED
  BY <1>1, <1>2, <1>4, <1>5, <1>6, TrackReturns DEF graph

LEMMA TrackLookupBusy ==
    ASSUME FlightInv, FlightInv', TrackInv, NEW t \in Threads, LookupBusy(t)
    PROVE  TrackInv'
<1>1. /\ At(t, "lookup") /\ slot[Top(t).node].state \in {"Computing", "Validating"}
      /\ stack' = InPhase(t, "wait") /\ UNCHANGED <<slot, graph, task, cell>>
  BY DEF LookupBusy, Lookup
<1>2. /\ stack[t] # <<>> /\ Typed /\ Top(t).node \in Nodes /\ Top(t).phase = "lookup"
      /\ Top(t) \in Frames
  BY <1>1, AtTop
<1>3. PICK n, f : n \in Nodes /\ n = Top(t).node /\ f = [Top(t) EXCEPT !.phase = "wait"]
  BY <1>2
<1>4. f \in Frames /\ Follows(f, Top(t))
  BY <1>2, <1>3, PhaseTyped DEF Follows, Judging
<1>5. Stays(t, f, {})
  BY <1>1, <1>2, <1>3, <1>4, Staying DEF InPhase
<1>6. SlotSettled(n) /\ EdgesSettled(t, n)
  BY <1>1, <1>2, <1>3 DEF SlotSettled, EdgesSettled, Clearing, graph
<1> QED
  BY <1>1, <1>2, <1>3, <1>4, <1>5, <1>6, TrackStays DEF graph

LEMMA TrackWakeUp ==
    ASSUME FlightInv, FlightInv', TrackInv, NEW t \in Threads, WakeUp(t)
    PROVE  TrackInv'
<1>1. At(t, "woken") /\ stack' = InPhase(t, "lookup") /\ UNCHANGED <<slot, graph, task, cell>>
  BY DEF WakeUp
<1>2. /\ stack[t] # <<>> /\ Typed /\ Top(t).node \in Nodes /\ Top(t).phase = "woken"
      /\ Top(t) \in Frames
  BY <1>1, AtTop
<1>3. PICK n, f : n \in Nodes /\ n = Top(t).node /\ f = [Top(t) EXCEPT !.phase = "lookup"]
  BY <1>2
<1>4. f \in Frames /\ Follows(f, Top(t)) /\ f.node = n /\ f.phase = "lookup"
  BY <1>2, <1>3, PhaseTyped DEF Follows, Judging
<1>5. Stays(t, f, {})
  BY <1>1, <1>2, <1>3, <1>4, Staying DEF InPhase
<1>6. stack'[t] # <<>> /\ Top(t)' = f
  BY <1>5, StaysTop
<1>7. SlotSettled(n)
  BY <1>1 DEF SlotSettled
<1>8. EdgesSettled(t, n)
  <2>1. CASE slot[n].state = "Empty"
    <3>1. Clearing(t, n)'
      BY <1>1, <1>4, <1>6, <2>1 DEF Clearing
    <3> QED
      BY <3>1 DEF EdgesSettled
  <2>2. CASE slot[n].state # "Empty"
    BY <1>1, <1>2, <2>2 DEF EdgesSettled, Clearing, graph
  <2> QED
    BY <2>1, <2>2
<1> QED
  BY <1>1, <1>2, <1>3, <1>4, <1>5, <1>7, <1>8, TrackStays DEF graph

LEMMA TrackLookupOutdated ==
    ASSUME FlightInv, FlightInv', TrackInv, NEW t \in Threads, LookupOutdated(t)
    PROVE  TrackInv'
<1>1. /\ At(t, "lookup") /\ slot[Top(t).node].state = "PotentiallyOutdated"
      /\ SetSlot(Top(t).node, Validating) /\ UNCHANGED <<graph, task, cell>>
  BY DEF LookupOutdated, Lookup
<1>2. /\ stack[t] # <<>> /\ Typed /\ SlotsOK /\ Top(t).node \in Nodes /\ Top(t) \in Frames
      /\ slot[Top(t).node] \in Slots
  BY <1>1, AtTop
<1>3. PICK n, old, f :
        /\ n \in Nodes /\ n = Top(t).node /\ old = slot[n].payload
        /\ f = [Top(t) EXCEPT !.phase = "validate", !.kept = old, !.todo = DOMAIN old.deps]
  BY <1>2
<1>4. old \in Payloads /\ DOMAIN old.deps \in SUBSET Nodes
  BY <1>2, <1>3, EvidenceTyped DEF Slots, Payloads
<1>5. /\ f \in Frames /\ f.node = n /\ f.phase = "validate" /\ f.kept = old
      /\ f.reads = Top(t).reads
  BY <1>2, <1>3, <1>4 DEF Frames, Owning
<1>6. stack' = WithTop(t, f)
  BY <1>3 DEF LookupOutdated
<1>7. Stays(t, f, {})
  BY <1>2, <1>5, <1>6, Staying
<1>8. /\ slot'[n] = Validating /\ Validating.state = "Validating" /\ slot[n].state = "PotentiallyOutdated"
      /\ \A m \in Nodes \ {n} : slot'[m] = slot[m]
  BY <1>1, <1>2, <1>3, SettingSlot, SlotTyped, NoPayloadTyped
<1>9. SlotSettled(n) /\ EdgesSettled(t, n)
  <2>1. SlotTracked(n)' /\ ~Busy(n)
    BY <1>8 DEF SlotTracked, Busy
  <2> QED
    BY <1>8, <2>1 DEF SlotSettled, EdgesSettled
<1>10. FrameTracked(f)'
  <2>1. SlotTracked(n) /\ FrameTracked(Top(t))
    BY <1>2, <1>3, TopTracked
  <2>2. \A m : Announced(m)' <=> Announced(m)
    BY <1>1 DEF Announced, Announces
  <2>3. n \in Leaves => f.reads = <<>>
    BY <1>3, <1>5, <2>1 DEF FrameTracked
  <2>4. n \in Leaves => f.kept.value = Provide(n, cell'[n], <<>>) \/ Announced(n)'
    BY <1>1, <1>3, <1>5, <1>8, <2>1, <2>2 DEF SlotTracked
  <2>5. Policy[n] = "StableValue" => f.kept.fingerprint = f.kept.value
    BY <1>3, <1>5, <1>8, <2>1 DEF SlotTracked
  <2> QED
    BY <1>5, <2>3, <2>4, <2>5 DEF FrameTracked
<1> QED
  BY <1>1, <1>2, <1>3, <1>7, <1>8, <1>9, <1>10, TrackStays DEF graph

LEMMA TrackLookupEmpty ==
    ASSUME FlightInv, FlightInv', TrackInv, NEW t \in Threads, LookupEmpty(t)
    PROVE  TrackInv'
<1>1. /\ At(t, "lookup") /\ slot[Top(t).node].state = "Empty" /\ stack' = InPhase(t, "clear")
      /\ SetSlot(Top(t).node, Computing) /\ UNCHANGED <<graph, task, cell>>
  BY DEF LookupEmpty, Lookup
<1>2. /\ stack[t] # <<>> /\ Typed /\ SlotsOK /\ Top(t).node \in Nodes /\ Top(t) \in Frames
  BY <1>1, AtTop
<1>3. PICK n, f : n \in Nodes /\ n = Top(t).node /\ f = [Top(t) EXCEPT !.phase = "clear"]
  BY <1>2
<1>4. f \in Frames /\ Follows(f, Top(t)) /\ f.node = n /\ f.phase = "clear"
  <2>1. "clear" \in Owning
    BY DEF Owning
  <2>2. /\ f \in Frames /\ f.node = Top(t).node /\ f.phase = "clear" /\ f.kept = Top(t).kept
        /\ f.reads = Top(t).reads
    BY <1>2, <1>3, <2>1, PhaseTyped
  <2> QED
    BY <1>3, <2>2 DEF Follows, Judging
<1>5. Stays(t, f, {})
  BY <1>1, <1>2, <1>3, <1>4, Staying DEF InPhase
<1>6. stack'[t] # <<>> /\ Top(t)' = f
  BY <1>5, StaysTop
<1>7. /\ slot'[n] = Computing /\ Computing.state = "Computing" /\ slot[n].state = "Empty"
      /\ \A m \in Nodes \ {n} : slot'[m] = slot[m]
  BY <1>1, <1>2, <1>3, SettingSlot, SlotTyped, NoPayloadTyped
<1>8. SlotSettled(n)
  BY <1>7 DEF SlotSettled, SlotTracked, Busy
<1>9. EdgesSettled(t, n)
  <2>1. Clearing(t, n)'
    BY <1>4, <1>6 DEF Clearing
  <2> QED
    BY <2>1 DEF EdgesSettled
<1> QED
  BY <1>1, <1>2, <1>3, <1>4, <1>5, <1>7, <1>8, <1>9, TrackStays DEF graph

LEMMA TrackStartProvider ==
    ASSUME FlightInv, FlightInv', TrackInv, NEW t \in Threads, StartProvider(t)
    PROVE  TrackInv'
<1>1. /\ At(t, "clear") /\ stack' = InPhase(t, "run") /\ remove_dependencies_from({Top(t).node})
      /\ UNCHANGED <<slot, task, cell>>
  BY DEF StartProvider
<1>2. stack[t] # <<>> /\ Typed /\ Top(t).node \in Nodes /\ Top(t) \in Frames
  BY <1>1, AtTop
<1>3. PICK n, f : n \in Nodes /\ n = Top(t).node /\ f = [Top(t) EXCEPT !.phase = "run"]
  BY <1>2
<1>4. f \in Frames /\ Follows(f, Top(t))
  <2>1. "run" \in Owning
    BY DEF Owning
  <2>2. /\ f \in Frames /\ f.node = Top(t).node /\ f.phase = "run" /\ f.kept = Top(t).kept
        /\ f.reads = Top(t).reads
    BY <1>2, <1>3, <2>1, PhaseTyped
  <2> QED
    BY <2>2 DEF Follows, Judging
<1>5. Stays(t, f, {})
  BY <1>1, <1>2, <1>3, <1>4, Staying DEF InPhase
<1>6. \A m \in Nodes : forward'[m] = IF m \in {n} THEN {} ELSE forward[m]
  BY <1>1, <1>2, <1>3, GraphTyped
<1>7. SlotSettled(n) /\ EdgesSettled(t, n)
  BY <1>1, <1>3, <1>6 DEF SlotSettled, EdgesSettled
<1> QED
  BY <1>1, <1>2, <1>3, <1>4, <1>5, <1>6, <1>7, TrackStays

LEMMA TrackProviderReads ==
    ASSUME FlightInv, FlightInv', TrackInv, NEW t \in Threads, ProviderReads(t)
    PROVE  TrackInv'
<1>1. At(t, "run") /\ NextOf(Top(t)) # Done /\ UNCHANGED <<slot, graph, task, cell>>
  BY DEF ProviderReads
<1>2. /\ stack[t] # <<>> /\ Top(t).phase = "run" /\ Top(t) \in Frames /\ Typed
      /\ Top(t).node \in Nodes
  BY <1>1, AtTop
<1>3. PICK n, d, deps, g :
        /\ n \in Nodes /\ n = Top(t).node /\ d = NextOf(Top(t))
        /\ deps = IF d \in DOMAIN Top(t).deps THEN Top(t).deps
                  ELSE Recorded(Top(t).deps, d, NoFingerprint)
        /\ g = [Top(t) EXCEPT !.deps = deps]
  BY <1>2
<1>4. d \in Nodes
  BY <1>1, <1>2, <1>3, CallerReads
<1>5. deps \in Reads
  <2>1. Top(t).deps \in Reads /\ NoFingerprint \in Fingerprints
    BY <1>2 DEF Frames, Fingerprints
  <2> QED
    BY <1>3, <1>4, <2>1, RecordedTyped
<1>6. /\ g \in Frames /\ g.node = Top(t).node /\ g.phase = Top(t).phase /\ g.reads = Top(t).reads
      /\ g.kept = Top(t).kept
  BY <1>2, <1>3, <1>5 DEF Frames
<1>7. stack' = [stack EXCEPT ![t] = <<Frame(d), g>> \o Tail(stack[t])]
  BY <1>3 DEF ProviderReads
<1>8. Calls(t, g, Frame(d))
  BY <1>2, <1>4, <1>6, <1>7, FrameTyped, CallingOver
<1>9. Follows(g, Top(t))
  BY <1>6 DEF Follows
<1> QED
  BY <1>1, <1>2, <1>3, <1>8, <1>9, TrackCalls

LEMMA TrackProviderRefused ==
    ASSUME FlightInv, FlightInv', TrackInv, NEW t \in Threads, ProviderRefused(t)
    PROVE  TrackInv'
<1>1. At(t, "run") /\ stack' = InPhase(t, "fail") /\ UNCHANGED <<slot, graph, task, cell>>
  BY DEF ProviderRefused
<1>2. "run" \in Owning \ {"clear"} /\ "fail" \in Owning /\ "fail" \notin Judging
  BY DEF Owning, Judging
<1> QED
  BY <1>1, <1>2, TrackPhase

LEMMA TrackProviderFails ==
    ASSUME FlightInv, FlightInv', TrackInv, NEW t \in Threads, ProviderFails(t)
    PROVE  TrackInv'
<1>1. /\ At(t, "run") /\ (stack' = InPhase(t, "fail") \/ stack' = InPhase(t, "ice"))
      /\ UNCHANGED <<slot, graph, task, cell>>
  BY DEF ProviderFails
<1>2. /\ "run" \in Owning \ {"clear"} /\ "fail" \in Owning /\ "fail" \notin Judging
      /\ "ice" \in Owning /\ "ice" \notin Judging
  BY DEF Owning, Judging
<1> QED
  BY <1>1, <1>2, TrackPhase

LEMMA TrackValidateUnfingerprinted ==
    ASSUME FlightInv, FlightInv', TrackInv, NEW t \in Threads, ValidateUnfingerprinted(t)
    PROVE  TrackInv'
<1>1. At(t, "validate") /\ stack' = InPhase(t, "red") /\ UNCHANGED <<slot, graph, task, cell>>
  BY DEF ValidateUnfingerprinted
<1>2. "validate" \in (Owning \ {"clear"}) \cap Judging /\ "red" \in Owning
  BY DEF Owning, Judging
<1> QED
  BY <1>1, <1>2, TrackPhase

LEMMA TrackValidateEnsures ==
    ASSUME FlightInv, FlightInv', TrackInv, NEW t \in Threads, ValidateEnsures(t)
    PROVE  TrackInv'
<1>1. /\ At(t, "validate") /\ Top(t).todo # {}
      /\ \/ stack' = InPhase(t, "error")
         \/ stack' = [stack EXCEPT ![t] = <<Frame(NextDependency(Top(t)))>> \o stack[t]]
      /\ UNCHANGED <<slot, graph, task, cell>>
  BY DEF ValidateEnsures
<1>2. /\ stack[t] # <<>> /\ Top(t).phase = "validate" /\ Top(t) \in Frames /\ Typed
      /\ Top(t).node \in Nodes
  BY <1>1, AtTop
<1>3. CASE stack' = InPhase(t, "error")
  <2>1. "validate" \in (Owning \ {"clear"}) \cap Judging /\ "error" \in Owning
    BY DEF Owning, Judging
  <2> QED
    BY <1>1, <1>3, <2>1, TrackPhase
<1>4. CASE stack' = [stack EXCEPT ![t] = <<Frame(NextDependency(Top(t)))>> \o stack[t]]
  <2>1. PICK n, d, g : n = Top(t).node /\ d = NextDependency(Top(t)) /\ g = Top(t)
    OBVIOUS
  <2>2. n \in Nodes /\ d \in Nodes
    BY <1>1, <1>2, <2>1, NextDependencyTaken
  <2>3. Calls(t, g, Frame(d))
    BY <1>2, <1>4, <2>1, <2>2, FrameTyped, CallingTop
  <2>4. Follows(g, Top(t))
    BY <2>1 DEF Follows
  <2> QED
    BY <1>1, <1>2, <2>1, <2>2, <2>3, <2>4, TrackCalls
<1> QED
  BY <1>1, <1>3, <1>4

LEMMA TrackCompare ==
    ASSUME FlightInv, FlightInv', TrackInv, NEW t \in Threads, Compare(t)
    PROVE  TrackInv'
<1> DEFINE after == [Top(t) EXCEPT !.phase = "validate", !.todo = @ \ {NextDependency(Top(t))}]
<1>1. /\ At(t, "compare")
      /\ stack' = InPhase(t, "red") \/ stack' = WithTop(t, after)
      /\ UNCHANGED <<slot, graph, task, cell>>
  BY DEF Compare
<1>2. stack[t] # <<>> /\ Top(t).phase = "compare" /\ Top(t) \in Frames /\ Typed
      /\ Top(t).node \in Nodes
  BY <1>1, AtTop
<1>3. CASE stack' = InPhase(t, "red")
  <2>1. "compare" \in (Owning \ {"clear"}) \cap Judging /\ "red" \in Owning
    BY DEF Owning, Judging
  <2> QED
    BY <1>1, <1>3, <2>1, TrackPhase
<1>4. CASE stack' = WithTop(t, after)
  <2>1. PICK n, f : n = Top(t).node /\ f = after
    OBVIOUS
  <2>2. Top(t).todo \ {NextDependency(Top(t))} \in SUBSET Nodes
    BY <1>2 DEF Frames
  <2>3. /\ f \in Frames /\ f.node = Top(t).node /\ f.phase = "validate" /\ f.kept = Top(t).kept
        /\ f.reads = Top(t).reads
    BY <1>2, <2>1, <2>2 DEF Frames, Owning
  <2>4. Stays(t, f, {})
    BY <1>2, <1>4, <2>1, <2>3, Staying
  <2>5. Follows(f, Top(t))
    BY <1>2, <2>3 DEF Follows, Judging
  <2>6. SlotSettled(n) /\ EdgesSettled(t, n)
    BY <1>1, <1>2 DEF SlotSettled, EdgesSettled, Clearing, graph
  <2> QED
    BY <1>1, <1>2, <2>1, <2>4, <2>5, <2>6, TrackStays DEF graph
<1> QED
  BY <1>1, <1>3, <1>4

(* The provider of an input returns what the context holds now. *)
LEMMA TrackProviderReturns ==
    ASSUME FlightInv, FlightInv', TrackInv, NEW t \in Threads, ProviderReturns(t)
    PROVE  TrackInv'
<1> DEFINE v == Provide(Top(t).node, Context(Top(t).node), Top(t).reads)
<1>1. /\ At(t, "run") /\ UNCHANGED <<slot, graph, task, cell>>
      /\ stack' = WithTop(t, [Top(t) EXCEPT !.phase = "publish", !.kept.value = v])
      /\ NextOf(Top(t)) = Done
  BY DEF ProviderReturns
<1>2. /\ stack[t] # <<>> /\ Top(t).phase = "run" /\ Top(t) \in Frames /\ Typed
      /\ Top(t).node \in Nodes
  BY <1>1, AtTop
<1>3. v \in Values
  <2>1. Context(Top(t).node) \in IF Top(t).node \in Inputs THEN Values ELSE {0}
    BY <1>2 DEF Context, Typed
  <2>2. Top(t).reads \in ReadValues /\ NextRead(Top(t).node, Top(t).reads) = Done
    BY <1>1, <1>2 DEF Frames, NextOf
  <2> QED
    BY <1>2, <2>1, <2>2, ProvidersAssumption
<1>4. PICK n, value, f :
        /\ n = Top(t).node /\ value = v
        /\ f = [Top(t) EXCEPT !.phase = "publish", !.kept.value = value]
  OBVIOUS
<1>5. [Top(t).kept EXCEPT !.value = value] \in Payloads /\ Top(t).kept \in Payloads
  BY <1>2, <1>3, <1>4 DEF Frames, Payloads
<1>6. /\ f \in Frames /\ f.node = n /\ f.phase = "publish" /\ f.kept.value = value
      /\ f.reads = Top(t).reads
  <2> HIDE DEF v
  <2> QED
    BY <1>2, <1>4, <1>5 DEF Frames, Owning, Payloads
<1>7. Stays(t, f, {})
  BY <1>1, <1>2, <1>4, <1>6, Staying
<1>8. n \in Leaves => f.reads = <<>> /\ value = Provide(n, cell'[n], <<>>)
  <2>1. FrameTracked(Top(t))
    BY <1>2, TopTracked
  <2>2. n \in Leaves => Top(t).reads = <<>> /\ n \in Inputs
    BY <1>4, <2>1 DEF FrameTracked, Leaves
  <2>3. n \in Inputs => value = Provide(n, cell'[n], Top(t).reads)
    BY <1>1, <1>4 DEF Context
  <2> QED
    BY <1>6, <2>2, <2>3
<1>9. FrameTracked(f)'
  BY <1>6, <1>8 DEF FrameTracked, Judging
<1>10. SlotSettled(n) /\ EdgesSettled(t, n)
  BY <1>1, <1>2 DEF SlotSettled, EdgesSettled, Clearing, graph
<1> QED
  BY <1>1, <1>2, <1>4, <1>7, <1>9, <1>10, TrackStays DEF graph

LEMMA TrackRequest ==
    ASSUME FlightInv, FlightInv', TrackInv, NEW t \in Threads, NEW n \in Nodes, Request(t, n)
    PROVE  TrackInv'
<1>1. stack[t] = <<>> /\ stack' = [stack EXCEPT ![t] = <<Frame(n)>>]
      /\ UNCHANGED <<slot, graph, task, cell>>
  BY DEF Request
<1>2. Typed /\ Len(stack[t]) = 0
  BY <1>1 DEF FlightInv
<1>3. Calls(t, Frame(n), Frame(n))
  BY <1>1, <1>2, FrameTyped, CallingFirst
<1> QED
  BY <1>1, <1>2, <1>3, TrackCalls

(* A get settles its slot and returns. *)
LEMMA TrackSettles ==
    ASSUME FlightInv, FlightInv', TrackInv, NEW t \in Threads, NEW n \in Nodes, stack[t] # <<>>,
           Top(t).node = n, \E f : Resumes(t, f, {n}),
           NEW s \in Slots, SlotOK(s), SetSlot(n, s), s.state \notin {"Computing", "Validating"},
           forward'[n] = {} \/ s.state \in {"Ready", "PotentiallyOutdated"},
           \A m \in Nodes \ {n} : forward'[m] = forward[m], UNCHANGED <<task, cell>>,
           s.state \in {"Ready", "PotentiallyOutdated"} =>
                /\ Top(t).phase \in Judging \cup {"publish"} /\ ~slot[n].invalidated
                /\ s.payload.value = Top(t).kept.value
                /\ Policy[n] = "StableValue" => s.payload.fingerprint = s.payload.value
    PROVE  TrackInv'
<1>0. Typed /\ SlotsOK
  BY DEF FlightInv
<1>1. slot'[n] = s /\ ~Busy(n)' /\ \A m \in Nodes \ {n} : slot'[m] = slot[m]
  BY <1>0, SettingSlot
<1>2. \A m : Announced(m)' <=> Announced(m)
  BY DEF Announced, Announces
<1>3. FrameTracked(Top(t))
  BY <1>0, TopTracked
<1>4. SlotTracked(n)'
  <2>1. CASE s.state \in {"Ready", "PotentiallyOutdated"}
    <3>1. n \in Leaves => s.payload.value = Provide(n, cell'[n], <<>>) \/ Announced(n)'
      BY <1>2, <1>3, <2>1 DEF FrameTracked
    <3> QED
      BY <1>1, <2>1, <3>1 DEF SlotTracked
  <2>2. CASE s.state \notin {"Ready", "PotentiallyOutdated"}
    BY <1>1, <2>2 DEF SlotTracked
  <2> QED
    BY <2>1, <2>2
<1>5. SlotSettled(n) /\ EdgesSettled(t, n)
  BY <1>1, <1>4 DEF SlotSettled, EdgesSettled
<1> QED
  BY <1>1, <1>5, TrackReturns

LEMMA TrackPublish ==
    ASSUME FlightInv, FlightInv', TrackInv, NEW t \in Threads, Publish(t)
    PROVE  TrackInv'
<1>1. PICK n, f, fp, deps, p, s :
        /\ f = Top(t) /\ n = f.node /\ fp = FingerprintOf(f)
        /\ deps = IF Policy[n] = "None" THEN NoFingerprints ELSE f.deps
        /\ p = Payload(f.kept.value, fp, deps) /\ s = Ready(p)
  OBVIOUS
<1>2. /\ At(t, "publish") /\ SetSlot(n, s) /\ replace_dependencies_from(n, DOMAIN f.deps)
      /\ stack' = Notified([stack EXCEPT ![t] = Returned(t, f.kept.value, fp)], n)
      /\ ~slot[n].invalidated /\ UNCHANGED <<task, cell>>
  BY <1>1 DEF Publish
<1>3. /\ stack[t] # <<>> /\ f.phase = "publish" /\ f \in Frames /\ Typed /\ FramesOK /\ n \in Nodes
      /\ FrameOK(f)
  BY <1>1, <1>2, AtTop
<1>4. f.kept.value \in Values /\ f.deps \in Reads
  BY <1>3 DEF FrameOK, Frames
<1>5. fp \in Fingerprints
  BY <1>1, <1>3, <1>4, RevisionTyped
<1>6. deps \in Evidence /\ DOMAIN f.deps \in SUBSET Nodes
  BY <1>1, <1>4, EvidenceTyped, NoPayloadTyped
<1>7. p \in Payloads /\ p.value = f.kept.value /\ p.fingerprint = fp
  BY <1>1, <1>4, <1>5, <1>6 DEF Payload, Payloads
<1>8. s \in Slots /\ SlotOK(s) /\ s.state = "Ready" /\ s.payload = p
  BY <1>1, <1>4, <1>7, SlotTyped
<1>9. \A m \in Nodes \ {n} : forward'[m] = forward[m]
  BY <1>2, <1>3, <1>6, GraphTyped
<1>10. \E g : Resumes(t, g, {n})
  BY <1>2, <1>3, <1>4, <1>5, GivesValue
<1>11. Policy[n] = "StableValue" => fp = f.kept.value
  BY <1>1 DEF FingerprintOf
<1> QED
  BY <1>1, <1>2, <1>3, <1>7, <1>8, <1>9, <1>10, <1>11, TrackSettles

LEMMA TrackDiscardResult ==
    ASSUME FlightInv, FlightInv', TrackInv, NEW t \in Threads, DiscardResult(t)
    PROVE  TrackInv'
<1>1. PICK n, f : f = Top(t) /\ n = f.node
  OBVIOUS
<1>2. /\ At(t, "publish") /\ SetSlot(n, Empty) /\ remove_dependencies_from({n})
      /\ stack' = Notified([stack EXCEPT ![t] = Returned(t, f.kept.value, NoFingerprint)], n)
      /\ UNCHANGED <<task, cell>>
  BY <1>1 DEF DiscardResult
<1>3. /\ stack[t] # <<>> /\ f.phase = "publish" /\ f \in Frames /\ Typed /\ FramesOK /\ n \in Nodes
      /\ FrameOK(f)
  BY <1>1, <1>2, AtTop
<1>4. f.kept.value \in Values /\ NoFingerprint \in Fingerprints
  BY <1>3 DEF FrameOK, Fingerprints
<1>5. \E g : Resumes(t, g, {n})
  BY <1>2, <1>3, <1>4, GivesValue
<1>6. forward'[n] = {} /\ \A m \in Nodes \ {n} : forward'[m] = forward[m]
  BY <1>2, <1>3, GraphTyped
<1>7. Empty \in Slots /\ SlotOK(Empty) /\ Empty.state = "Empty"
  BY SlotTyped, NoPayloadTyped
<1> QED
  BY <1>1, <1>2, <1>3, <1>5, <1>6, <1>7, TrackSettles

LEMMA TrackFail ==
    ASSUME FlightInv, FlightInv', TrackInv, NEW t \in Threads, Fail(t)
    PROVE  TrackInv'
<1>1. PICK n : n = Top(t).node
  OBVIOUS
<1>2. /\ At(t, "fail") \/ At(t, "ice")
      /\ SetSlot(n, Empty) /\ remove_dependencies_from({n})
      /\ stack' = Notified([stack EXCEPT ![t] = Raised(t)], n) /\ UNCHANGED <<task, cell>>
  BY <1>1 DEF Fail
<1>3. stack[t] # <<>> /\ Typed /\ FramesOK /\ n \in Nodes
  BY <1>1, <1>2, AtTop
<1>5. \E g : Resumes(t, g, {n})
  BY <1>2, <1>3, GivesError
<1>6. forward'[n] = {} /\ \A m \in Nodes \ {n} : forward'[m] = forward[m]
  BY <1>2, <1>3, GraphTyped
<1>7. Empty \in Slots /\ SlotOK(Empty) /\ Empty.state = "Empty"
  BY SlotTyped, NoPayloadTyped
<1> QED
  BY <1>1, <1>2, <1>3, <1>5, <1>6, <1>7, TrackSettles

LEMMA TrackSettleGreen ==
    ASSUME FlightInv, FlightInv', TrackInv, NEW t \in Threads, SettleGreen(t)
    PROVE  TrackInv'
<1>1. PICK n, f, s : f = Top(t) /\ n = f.node /\ s = Ready(f.kept)
  OBVIOUS
<1>2. /\ At(t, "validate") /\ SetSlot(n, s) /\ ~slot[n].invalidated
      /\ stack' = Notified([stack EXCEPT ![t] = Returned(t, f.kept.value, f.kept.fingerprint)], n)
      /\ UNCHANGED <<graph, task, cell>>
  BY <1>1 DEF SettleGreen
<1>3. /\ stack[t] # <<>> /\ f.phase = "validate" /\ f \in Frames /\ Typed /\ FramesOK /\ n \in Nodes
      /\ FrameOK(f)
  BY <1>1, <1>2, AtTop
<1>4. f.kept \in Payloads /\ f.kept.value \in Values /\ f.kept.fingerprint \in Fingerprints
  BY <1>3 DEF FrameOK, Frames, Payloads, Judging
<1>5. \E g : Resumes(t, g, {n})
  BY <1>2, <1>3, <1>4, GivesValue
<1>6. s \in Slots /\ SlotOK(s) /\ s.state = "Ready" /\ s.payload = f.kept
  BY <1>1, <1>4, SlotTyped
<1>7. f.phase \in Judging /\ (Policy[n] = "StableValue" => f.kept.fingerprint = f.kept.value)
  BY <1>1, <1>3, TopTracked DEF FrameTracked, Judging
<1>8. \A m \in Nodes \ {n} : forward'[m] = forward[m]
  BY <1>2 DEF graph
<1> QED
  BY <1>1, <1>2, <1>3, <1>5, <1>6, <1>7, <1>8, TrackSettles

LEMMA TrackSettleError ==
    ASSUME FlightInv, FlightInv', TrackInv, NEW t \in Threads, SettleError(t)
    PROVE  TrackInv'
<1>1. PICK n, f, s : f = Top(t) /\ n = f.node /\ s = PotentiallyOutdated(f.kept)
  OBVIOUS
<1>2. /\ At(t, "error")
      /\ \/ SetSlot(n, Empty) /\ remove_dependencies_from({n})
         \/ ~slot[n].invalidated /\ SetSlot(n, s) /\ UNCHANGED graph
      /\ stack' = Notified([stack EXCEPT ![t] = Raised(t)], n)
      /\ UNCHANGED <<task, cell>>
  BY <1>1 DEF SettleError
<1>3. /\ stack[t] # <<>> /\ f.phase = "error" /\ f \in Frames /\ Typed /\ FramesOK /\ n \in Nodes
      /\ FrameOK(f)
  BY <1>1, <1>2, AtTop
<1>4. \E g : Resumes(t, g, {n})
  BY <1>2, <1>3, GivesError
<1>5. CASE SetSlot(n, Empty) /\ remove_dependencies_from({n})
  <2>1. forward'[n] = {} /\ \A m \in Nodes \ {n} : forward'[m] = forward[m]
    BY <1>3, <1>5, GraphTyped
  <2>2. Empty \in Slots /\ SlotOK(Empty) /\ Empty.state = "Empty"
    BY SlotTyped, NoPayloadTyped
  <2> QED
    BY <1>1, <1>2, <1>3, <1>4, <1>5, <2>1, <2>2, TrackSettles
<1>6. CASE ~slot[n].invalidated /\ SetSlot(n, s) /\ UNCHANGED graph
  <2>1. f.kept \in Payloads /\ f.kept.value \in Values /\ f.kept.fingerprint # NoFingerprint
    BY <1>3 DEF FrameOK, Frames, Judging
  <2>2. s \in Slots /\ SlotOK(s) /\ s.state = "PotentiallyOutdated" /\ s.payload = f.kept
    BY <1>1, <2>1, SlotTyped
  <2>3. f.phase \in Judging /\ (Policy[n] = "StableValue" => f.kept.fingerprint = f.kept.value)
    BY <1>1, <1>3, TopTracked DEF FrameTracked, Judging
  <2>4. \A m \in Nodes \ {n} : forward'[m] = forward[m]
    BY <1>6 DEF graph
  <2> QED
    BY <1>1, <1>2, <1>3, <1>4, <1>6, <2>2, <2>3, <2>4, TrackSettles
<1> QED
  BY <1>2, <1>5, <1>6

LEMMA TrackSettleRed ==
    ASSUME FlightInv, FlightInv', TrackInv, NEW t \in Threads, SettleRed(t)
    PROVE  TrackInv'
<1>1. PICK n, e, f :
        /\ n = Top(t).node /\ e = [Top(t).kept EXCEPT !.deps = NoFingerprints]
        /\ f = [Frame(n) EXCEPT !.stale = e]
  OBVIOUS
<1>2. /\ At(t, "red") \/ At(t, "validate")
      /\ SetSlot(n, Empty) /\ stack' = Notified(WithTop(t, f), n) /\ UNCHANGED <<graph, task, cell>>
  BY <1>1 DEF SettleRed
<1>3. stack[t] # <<>> /\ Top(t) \in Frames /\ Typed /\ SlotsOK /\ n \in Nodes
  BY <1>1, <1>2, AtTop
<1>4. e \in Payloads
  BY <1>1, <1>3, NoPayloadTyped DEF Frames, Payloads
<1>5. /\ f \in Frames /\ f.node = n /\ f.phase = "lookup" /\ f.reads = <<>>
  BY <1>1, <1>3, <1>4, FrameTyped DEF Frames, Frame
<1>6. Stays(t, f, {n})
  BY <1>2, <1>3, <1>5, StayingNotified
<1>7. stack'[t] # <<>> /\ Top(t)' = f
  BY <1>6, StaysTop
<1>8. Empty \in Slots /\ SlotOK(Empty) /\ Empty.state = "Empty"
  BY SlotTyped, NoPayloadTyped
<1>9. slot'[n] = Empty /\ ~Busy(n)' /\ \A m \in Nodes \ {n} : slot'[m] = slot[m]
  BY <1>2, <1>3, <1>8, SettingSlot
<1>10. SlotSettled(n)
  BY <1>8, <1>9 DEF SlotSettled, SlotTracked
<1>11. EdgesSettled(t, n)
  <2>1. Clearing(t, n)'
    BY <1>5, <1>7, <1>8, <1>9 DEF Clearing
  <2> QED
    BY <2>1 DEF EdgesSettled
<1>12. FrameTracked(f)'
  BY <1>5 DEF FrameTracked, Judging
<1> QED
  BY <1>1, <1>2, <1>3, <1>6, <1>9, <1>10, <1>11, <1>12, TrackStays DEF graph

-----------------------------------------------------------------------------
(* The steps of an invalidation, once more.  The frames stay, but for some *)
(* that are woken.                                                         *)

Cached == {"Ready", "PotentiallyOutdated"}

(* What is about to be cached of m stays current, flagged or announced. *)
ReportKept(m) ==
    Busy(m) =>
        \/ slot'[m].invalidated
        \/ Announced(m)'
        \/ cell'[m] = cell[m] /\ ~slot[m].invalidated /\ ~Announced(m)

(* The edges of m keep somebody to remove them. *)
EdgesKept(m) ==
    forward'[m] # {} =>
        /\ forward[m] # {}
        /\ \/ slot'[m].state \in {"Ready", "PotentiallyOutdated", "Validating"}
           \/ \E u \in Threads : Sweeping(u, m)'
           \/ /\ slot'[m].state = slot[m].state
              /\ \A u \in Threads : Sweeping(u, m) => Sweeping(u, m)'

LEMMA StillClearing ==
    ASSUME Typed, NEW u \in Threads, NEW N, Rests(N), NEW m \in Nodes, Clearing(u, m),
           slot'[m].state = slot[m].state
    PROVE  Clearing(u, m)'
<1>1. Still(u, N) /\ stack'[u] \in Seq(Frames)
  BY DEF Rests, Stacks
<1>2. /\ stack[u] # <<>> /\ Top(u) = stack[u][1] /\ 1 \in 1 .. Len(stack[u])
      /\ Len(stack[u]) > 0 /\ Top(u) \in Frames
  BY TopFrame DEF Clearing
<1>3. Woke(stack'[u][1], stack[u][1]) /\ Len(stack'[u]) > 0
  BY <1>1, <1>2 DEF Still
<1>4. stack'[u] # <<>> /\ Head(stack'[u]) = stack'[u][1]
  BY <1>1, <1>3, SeqHead
<1>5. /\ stack'[u][1].node = Top(u).node
      /\ stack'[u][1].phase = Top(u).phase \/ (Top(u).phase = "wait" /\ stack'[u][1].phase = "woken")
  BY <1>2, <1>3 DEF Woke, Frames
<1> QED
  BY <1>4, <1>5 DEF Clearing, Top

(* A slot that keeps its value and fingerprint, or loses both. *)
LEMMA SlotCarried ==
    ASSUME NEW m \in Nodes, SlotTracked(m),
           slot'[m].state \in Cached =>
                /\ slot[m].state \in Cached
                /\ slot'[m].payload.value = slot[m].payload.value
                /\ slot'[m].payload.fingerprint = slot[m].payload.fingerprint
                /\ m \in Leaves =>
                    Announced(m)' \/ (cell'[m] = cell[m] /\ (Announced(m) => Announced(m)'))
    PROVE  SlotTracked(m)'
<1>1. SUFFICES ASSUME slot'[m].state \in Cached
               PROVE  SlotTracked(m)'
  BY DEF SlotTracked, Cached
<1>2. m \in Leaves => slot'[m].payload.value = Provide(m, cell'[m], <<>>) \/ Announced(m)'
  BY <1>1 DEF SlotTracked, Cached
<1>3. Policy[m] = "StableValue" => slot'[m].payload.fingerprint = slot'[m].payload.value
  BY <1>1 DEF SlotTracked, Cached
<1> QED
  BY <1>2, <1>3 DEF SlotTracked

(* A step of an invalidation, or of a retirement. *)
LEMMA TrackTask ==
    ASSUME FlightInv, FlightInv', TrackInv, NEW N, Rests(N),
           \A m \in Nodes : SlotTracked(m)' /\ EdgesKept(m),
           \A m \in Leaves : ReportKept(m),
           \A u \in Threads : task'[u].step = "check" => Policy[task'[u].root] = "StableValue"
    PROVE  TrackInv'
<1>0. Typed /\ Typed' /\ Single /\ Single' /\ Leaves \subseteq Nodes
  BY InputsAssumption DEF FlightInv, Leaves
<1>1. ASSUME NEW u \in Threads, NEW i \in 1 .. Len(stack'[u])
      PROVE  FrameTracked(stack[u][i])'
  <2>1. Still(u, N) /\ i \in 1 .. Len(stack[u])
    BY DEF Rests, Still
  <2>2. PICK f, g : f = stack[u][i] /\ g = stack'[u][i]
    OBVIOUS
  <2>3. Follows(g, f) /\ FrameTracked(f) /\ f \in Frames
    BY <1>0, <2>1, <2>2, StillFollows, EveryFrame DEF TrackInv, InputsTracked
  <2>4. g.node \in Leaves => g.reads = <<>>
    BY <2>3 DEF Follows, FrameTracked, Leaves, NextOf
  <2>5. ASSUME g.node \in Leaves, g.phase \in Judging \cup {"publish"}
        PROVE  \/ g.kept.value = Provide(g.node, cell'[g.node], <<>>)
               \/ slot'[g.node].invalidated
               \/ Announced(g.node)'
    <3>1. PICK m : m = f.node
      OBVIOUS
    <3>2. /\ m \in Leaves /\ m \in Nodes /\ m = g.node /\ g.kept = f.kept
          /\ f.phase \in Judging \cup {"publish"}
      BY <1>0, <2>3, <2>5, <3>1 DEF Follows
    <3>3. Busy(m)
      <4>1. Owns(u, i, m)
        BY <2>2, <3>1, <3>2 DEF Owns, Owning, Judging
      <4> QED
        BY <1>0, <2>1, <3>2, <4>1 DEF Single
    <3>4. f.kept.value = Provide(m, cell[m], <<>>) \/ slot[m].invalidated \/ Announced(m)
      BY <2>3, <3>1, <3>2 DEF FrameTracked
    <3>5. f.kept.value = Provide(m, cell'[m], <<>>) \/ slot'[m].invalidated \/ Announced(m)'
      BY <3>2, <3>3, <3>4 DEF ReportKept
    <3>6. Announced(m)' => Announced(g.node)'
      BY <2>2, <3>2
    <3> QED
      BY <3>2, <3>5, <3>6
  <2>6. (Policy[g.node] = "StableValue" /\ g.phase \in Judging) => g.kept.fingerprint = g.kept.value
    BY <2>3 DEF Follows, FrameTracked
  <2>7. FrameTracked(g)'
    BY <2>4, <2>5, <2>6 DEF FrameTracked
  <2> QED
    BY <2>2, <2>7 DEF FrameTracked
<1>2. InputsTracked'
  BY <1>1 DEF InputsTracked
<1>3. ASSUME NEW m \in Nodes, forward'[m] # {}
      PROVE  \/ slot'[m].state \in {"Ready", "PotentiallyOutdated", "Validating"}
             \/ \E u \in Threads : Clearing(u, m)'
             \/ \E u \in Threads : Sweeping(u, m)'
  <2>1. CASE /\ slot'[m].state = slot[m].state
             /\ \A u \in Threads : Sweeping(u, m) => Sweeping(u, m)'
    <3>1. \/ slot[m].state \in {"Ready", "PotentiallyOutdated", "Validating"}
          \/ \E u \in Threads : Clearing(u, m)
          \/ \E u \in Threads : Sweeping(u, m)
      BY <1>3 DEF TrackInv, EdgesHeld, EdgesKept
    <3>2. \A u \in Threads : Clearing(u, m) => Clearing(u, m)'
      BY <1>0, <2>1, StillClearing
    <3> QED
      BY <2>1, <3>1, <3>2
  <2> QED
    BY <1>3, <2>1 DEF EdgesKept
<1>4. EdgesHeld'
  BY <1>3 DEF EdgesHeld
<1> QED
  BY <1>2, <1>4 DEF TrackInv

(* Reports of other threads, and of other inputs, stay. *)
LEMMA ReportsStay ==
    ASSUME Typed, NEW t \in Threads, NEW k, task' = [task EXCEPT ![t] = k], NEW m,
           cell'[m] = cell[m], Announces(t, m) => Announces(t, m)'
    PROVE  Announced(m) => Announced(m)'
<1>1. \A u \in Threads \ {t} : task'[u] = task[u]
  BY DEF Typed
<1>2. \A u \in Threads : Announces(u, m) => Announces(u, m)'
  BY <1>1 DEF Announces
<1> QED
  BY <1>2 DEF Announced

LEMMA TrackChangeInput ==
    ASSUME FlightInv, FlightInv', TrackInv, NEW t \in Threads, NEW n \in Inputs, NEW v \in Values,
           ChangeInput(t, n, v)
    PROVE  TrackInv'
<1>0. Typed /\ Typed' /\ Leaves \subseteq Inputs /\ Inputs \subseteq Nodes
  BY InputsAssumption DEF FlightInv, Leaves
<1>1. /\ task[t] = NoTask /\ cell' = [cell EXCEPT ![n] = v]
      /\ UNCHANGED <<slot, graph, stack>>
  BY DEF ChangeInput
<1>2. PICK step, k :
        /\ step \in {"check", "collect"} /\ (step = "check" => Policy[n] = "StableValue")
        /\ k = Task(step, n, Provide(n, v, <<>>)) /\ task' = [task EXCEPT ![t] = k]
  BY DEF ChangeInput
<1>3. k.step = step /\ k.root = n /\ k.value = Provide(n, v, <<>>)
  BY <1>2 DEF Task
<1>4. task'[t] = k /\ \A u \in Threads \ {t} : task'[u] = task[u]
  BY <1>0, <1>2 DEF Typed
<1>5. cell'[n] = v /\ \A m \in Inputs \ {n} : cell'[m] = cell[m]
  BY <1>0, <1>1 DEF Typed
<1>6. Announced(n)'
  <2>1. Announces(t, n)'
    BY <1>2, <1>3, <1>4, <1>5 DEF Announces
  <2> QED
    BY <2>1 DEF Announced
<1>7. task[t].step = "none"
  BY <1>1 DEF NoTask, Task
<1>8. ASSUME NEW m \in Leaves
      PROVE  Announced(m)' \/ (cell'[m] = cell[m] /\ (Announced(m) => Announced(m)'))
  <2>1. CASE m = n
    BY <1>6, <2>1
  <2>2. CASE m # n
    <3>1. cell'[m] = cell[m] /\ ~Announces(t, m)
      BY <1>0, <1>5, <1>7, <2>2 DEF Announces
    <3> QED
      BY <1>0, <1>2, <3>1, ReportsStay
  <2> QED
    BY <2>1, <2>2
<1>9. ASSUME NEW m \in Nodes
      PROVE  SlotTracked(m)' /\ EdgesKept(m)
  <2>1. SlotTracked(m)'
    BY <1>1, <1>8, SlotCarried DEF TrackInv, InputsTracked
  <2>2. \A u \in Threads : Sweeping(u, m) => Sweeping(u, m)'
    BY <1>4, <1>7 DEF Sweeping
  <2> QED
    BY <1>1, <2>1, <2>2 DEF EdgesKept, graph
<1>10. \A m \in Leaves : ReportKept(m)
  BY <1>1, <1>8 DEF ReportKept
<1>11. \A u \in Threads : task'[u].step = "check" => Policy[task'[u].root] = "StableValue"
  BY <1>2, <1>3, <1>4 DEF TrackInv, InputsTracked
<1>12. Rests({})
  BY <1>0, <1>1, Resting
<1> QED
  BY <1>9, <1>10, <1>11, <1>12, TrackTask

(* An input that is found green has the value of the report. *)
LEMMA TrackCheckInput ==
    ASSUME FlightInv, FlightInv', TrackInv, NEW t \in Threads, CheckInput(t)
    PROVE  TrackInv'
<1>0. Typed /\ SlotsOK /\ TasksOK /\ Leaves \subseteq Nodes
  BY InputsAssumption DEF FlightInv, Leaves
<1>1. PICK n, k :
        /\ n = task[t].root
        /\ k = IF \/ slot[n].state = "Empty"
                  \/ ~Busy(n) /\ slot[n].payload.fingerprint = task[t].value
               THEN NoTask ELSE [task[t] EXCEPT !.step = "collect"]
  OBVIOUS
<1>2. /\ task[t].step = "check" /\ task' = [task EXCEPT ![t] = k]
      /\ UNCHANGED <<graph, stack, cell>>
      /\ \/ UNCHANGED slot
         \/ slot[n].state = "PotentiallyOutdated" /\ slot' = [slot EXCEPT ![n] = Ready(slot[n].payload)]
  BY <1>1 DEF CheckInput
<1>3. task[t] \in Invalidations /\ stack[t] = <<>> /\ n \in Inputs /\ n \in Nodes
  BY <1>0, <1>1, <1>2, TaskTyped
<1>4. slot[n] \in Slots /\ SlotOK(slot[n]) /\ slot[n].payload \in Payloads
  BY <1>0, <1>3 DEF Typed, SlotsOK, Slots
<1>5. task'[t] = k /\ \A u \in Threads \ {t} : task'[u] = task[u]
  BY <1>0, <1>2 DEF Typed
<1>6. \/ slot'[n] = slot[n]
      \/ /\ slot[n].state = "PotentiallyOutdated" /\ slot'[n].state = "Ready"
         /\ slot'[n].payload = slot[n].payload
  BY <1>0, <1>2, <1>3, <1>4, SlotTyped DEF Typed
<1>7. \A m \in Nodes \ {n} : slot'[m] = slot[m]
  BY <1>0, <1>2 DEF Typed
<1>8. /\ k = NoTask \/ (k.step = "collect" /\ k.root = n)
      /\ k.step # "check" /\ k.step # "mark"
  BY <1>1, <1>3 DEF NoTask, Task, Invalidations
<1>9. ASSUME NEW m \in Nodes, Announced(m)
      PROVE  Announced(m)' \/ (m = n /\ Announces(t, n) /\ k = NoTask)
  <2>1. PICK u \in Threads : Announces(u, m)
    BY <1>9 DEF Announced
  <2>2. CASE u # t
    <3>1. Announces(u, m)'
      BY <1>2, <1>5, <2>1, <2>2 DEF Announces
    <3> QED
      BY <3>1 DEF Announced
  <2>3. CASE u = t
    <3>1. m = n
      BY <1>1, <2>1, <2>3 DEF Announces
    <3>2. k # NoTask => Announces(t, n)'
      BY <1>5, <1>8 DEF Announces
    <3>3. k # NoTask => Announced(n)'
      BY <3>2 DEF Announced
    <3> QED
      BY <2>1, <2>3, <3>1, <3>3
  <2> QED
    BY <2>2, <2>3
<1>10. ASSUME Announces(t, n), k = NoTask, slot[n].state \in Cached
       PROVE  slot[n].payload.value = Provide(n, cell[n], <<>>)
  <2>1. task[t].value = Provide(n, cell[n], <<>>) /\ Policy[n] = "StableValue"
    BY <1>1, <1>2, <1>10 DEF Announces, TrackInv, InputsTracked
  <2>2. slot[n].payload.fingerprint = task[t].value
    <3>1. [task[t] EXCEPT !.step = "collect"].step = "collect"
      BY <1>3 DEF Invalidations
    <3>2. [task[t] EXCEPT !.step = "collect"] # NoTask
      BY <3>1 DEF NoTask, Task
    <3> QED
      BY <1>1, <1>10, <3>2 DEF Cached
  <2>3. slot[n].payload.fingerprint = slot[n].payload.value
    BY <1>3, <1>10, <2>1 DEF TrackInv, InputsTracked, SlotTracked, Cached
  <2> QED
    BY <2>1, <2>2, <2>3
<1>11. ASSUME NEW m \in Nodes
       PROVE  SlotTracked(m)'
  <2>0. SlotTracked(m)
    BY DEF TrackInv, InputsTracked
  <2>1. slot'[m].state \in Cached => slot[m].state \in Cached /\ slot'[m].payload = slot[m].payload
    BY <1>6, <1>7 DEF Cached
  <2>2. CASE m = n /\ Announces(t, n) /\ k = NoTask /\ slot'[m].state \in Cached
    <3>1. slot'[m].payload.value = Provide(m, cell'[m], <<>>)
      BY <1>2, <1>10, <2>1, <2>2
    <3>2. Policy[m] = "StableValue" => slot'[m].payload.fingerprint = slot'[m].payload.value
      BY <2>0, <2>1, <2>2 DEF SlotTracked, Cached
    <3> QED
      BY <3>1, <3>2 DEF SlotTracked
  <2>3. CASE ~(m = n /\ Announces(t, n) /\ k = NoTask /\ slot'[m].state \in Cached)
    <3>1. slot'[m].state \in Cached => (Announced(m) => Announced(m)')
      BY <1>9, <2>3
    <3> QED
      BY <1>2, <2>0, <2>1, <3>1, SlotCarried
  <2> QED
    BY <2>2, <2>3
<1>12. ASSUME NEW m \in Leaves
       PROVE  ReportKept(m)
  <2>1. SUFFICES ASSUME Busy(m)
                 PROVE  ReportKept(m)
    BY DEF ReportKept
  <2>2. slot'[m] = slot[m]
    BY <1>0, <1>6, <1>7, <2>1 DEF Busy
  <2>3. Announced(m) => Announced(m)'
    <3>1. m = n => k # NoTask
      <4>1. [task[t] EXCEPT !.step = "collect"].step = "collect"
        BY <1>3 DEF Invalidations
      <4>2. [task[t] EXCEPT !.step = "collect"] # NoTask
        BY <4>1 DEF NoTask, Task
      <4> QED
        BY <1>1, <2>1, <4>2 DEF Busy
    <3> QED
      BY <1>0, <1>9, <3>1
  <2> QED
    BY <1>2, <2>2, <2>3 DEF ReportKept
<1>13. ASSUME NEW m \in Nodes
       PROVE  EdgesKept(m)
  <2>1. \A u \in Threads : Sweeping(u, m) => Sweeping(u, m)'
    BY <1>2, <1>5 DEF Sweeping
  <2>2. slot'[m].state = slot[m].state \/ slot'[m].state = "Ready"
    BY <1>6, <1>7
  <2> QED
    BY <1>2, <2>1, <2>2 DEF EdgesKept, graph
<1>14. \A u \in Threads : task'[u].step = "check" => Policy[task'[u].root] = "StableValue"
  BY <1>5, <1>8 DEF TrackInv, InputsTracked
<1>15. Rests({})
  BY <1>0, <1>2, Resting
<1> QED
  BY <1>11, <1>12, <1>13, <1>14, <1>15, TrackTask

LEMMA TrackCollectDependents ==
    ASSUME FlightInv, FlightInv', TrackInv, NEW t \in Threads, CollectDependents(t)
    PROVE  TrackInv'
<1>0. Typed /\ SlotsOK /\ TasksOK
  BY DEF FlightInv
<1>1. task[t].step = "collect" /\ UNCHANGED <<slot, graph, stack, cell>>
  BY DEF CollectDependents
<1>2. task[t] \in Invalidations
  BY <1>0, <1>1, TaskTyped
<1>3. PICK C, k :
        /\ C = collect_dependents(task[t].root) \ {task[t].root}
        /\ k = [task[t] EXCEPT !.step = "root", !.todo = C]
  OBVIOUS
<1>4. task' = [task EXCEPT ![t] = k]
  BY <1>0, <1>2, <1>3 DEF CollectDependents, Typed, Invalidations
<1>5. k.step = "root" /\ k.root = task[t].root
  BY <1>2, <1>3 DEF Invalidations
<1>6. task'[t] = k /\ \A u \in Threads \ {t} : task'[u] = task[u]
  BY <1>0, <1>4 DEF Typed
<1>7. ASSUME NEW m
      PROVE  Announced(m) => Announced(m)'
  <2>1. Announces(t, m) => Announces(t, m)'
    BY <1>5, <1>6 DEF Announces
  <2>2. cell'[m] = cell[m]
    BY <1>1
  <2> QED
    BY <1>0, <1>4, <2>1, <2>2, ReportsStay
<1>8. ASSUME NEW m \in Nodes
      PROVE  SlotTracked(m)' /\ EdgesKept(m)
  <2>1. SlotTracked(m)'
    BY <1>1, <1>7, SlotCarried DEF TrackInv, InputsTracked
  <2>2. \A u \in Threads : Sweeping(u, m) => Sweeping(u, m)'
    BY <1>1, <1>6 DEF Sweeping
  <2> QED
    BY <1>1, <2>1, <2>2 DEF EdgesKept, graph
<1>9. \A m \in Leaves : ReportKept(m)
  BY <1>1, <1>7 DEF ReportKept
<1>10. \A u \in Threads : task'[u].step = "check" => Policy[task'[u].root] = "StableValue"
  BY <1>5, <1>6 DEF TrackInv, InputsTracked
<1>11. Rests({})
  BY <1>0, <1>1, Resting
<1> QED
  BY <1>8, <1>9, <1>10, <1>11, TrackTask

(* The report reaches the slot: the value is gone, or what will be         *)
(* published of it is flagged.                                             *)
LEMMA TrackInvalidateRoot ==
    ASSUME FlightInv, FlightInv', TrackInv, NEW t \in Threads, InvalidateRoot(t)
    PROVE  TrackInv'
<1>0. Typed /\ SlotsOK /\ TasksOK /\ Leaves \subseteq Nodes
  BY InputsAssumption DEF FlightInv, Leaves
<1>1. PICK n, s, k :
        /\ n = task[t].root /\ s = Invalidated(slot[n])
        /\ k = [task[t] EXCEPT !.step = "mark", !.cleared = {n}]
  OBVIOUS
<1>2. /\ task[t].step = "root" /\ SetSlot(n, s) /\ (stack' = stack \/ stack' = Notified(stack, n))
      /\ UNCHANGED <<graph, cell>>
  BY <1>1 DEF InvalidateRoot
<1>3. task[t] \in Invalidations /\ n \in Nodes
  BY <1>0, <1>1, <1>2, TaskTyped
<1>4. task' = [task EXCEPT ![t] = k]
  BY <1>0, <1>1, <1>3 DEF InvalidateRoot, Typed, Invalidations
<1>5. k.step = "mark" /\ k.cleared = {n}
  BY <1>1, <1>3 DEF Invalidations
<1>6. task'[t] = k /\ \A u \in Threads \ {t} : task'[u] = task[u]
  BY <1>0, <1>4 DEF Typed
<1>7. slot[n] \in Slots /\ SlotOK(slot[n])
  BY <1>0, <1>3 DEF Typed, SlotsOK
<1>8. s \in Slots /\ SlotOK(s)
  BY <1>1, <1>7, InvalidatedSlot
<1>9. slot'[n] = s /\ \A m \in Nodes \ {n} : slot'[m] = slot[m]
  BY <1>0, <1>2, <1>3, <1>8, SettingSlot
<1>10. IF Busy(n) THEN s.invalidated /\ s.state \notin Cached ELSE s.state = "Empty"
  <2>1. CASE Busy(n)
    <3>1. s = [slot[n] EXCEPT !.invalidated = TRUE]
      BY <1>1, <2>1 DEF Invalidated, Busy
    <3> QED
      BY <1>7, <2>1, <3>1 DEF Slots, Busy, Cached
  <2>2. CASE ~Busy(n)
    <3>1. s = Empty
      BY <1>1, <2>2 DEF Invalidated, Busy
    <3> QED
      BY <2>2, <3>1, SlotTyped, NoPayloadTyped
  <2> QED
    BY <2>1, <2>2
<1>11. ASSUME NEW m \in Nodes, m # n
       PROVE  Announced(m) => Announced(m)'
  <2>1. ~Announces(t, m)
    BY <1>1, <1>11 DEF Announces
  <2>2. cell'[m] = cell[m]
    BY <1>2
  <2> QED
    BY <1>0, <1>4, <2>1, <2>2, ReportsStay
<1>12. ASSUME NEW m \in Nodes
       PROVE  SlotTracked(m)'
  <2>1. CASE m = n
    BY <1>9, <1>10, <2>1 DEF SlotTracked, Cached
  <2>2. CASE m # n
    BY <1>2, <1>9, <1>11, <2>2, SlotCarried DEF TrackInv, InputsTracked
  <2> QED
    BY <2>1, <2>2
<1>13. ASSUME NEW m \in Nodes
       PROVE  EdgesKept(m)
  <2>1. CASE m = n
    <3>1. Sweeping(t, m)'
      BY <1>5, <1>6, <2>1 DEF Sweeping
    <3> QED
      BY <1>2, <3>1 DEF EdgesKept, graph
  <2>2. CASE m # n
    <3>1. \A u \in Threads : Sweeping(u, m) => Sweeping(u, m)'
      BY <1>2, <1>6 DEF Sweeping
    <3> QED
      BY <1>2, <1>9, <2>2, <3>1 DEF EdgesKept, graph
  <2> QED
    BY <2>1, <2>2
<1>14. ASSUME NEW m \in Leaves
       PROVE  ReportKept(m)
  <2>1. CASE m = n
    BY <1>9, <1>10, <2>1 DEF ReportKept
  <2>2. CASE m # n
    BY <1>0, <1>2, <1>9, <1>11, <2>2 DEF ReportKept
  <2> QED
    BY <2>1, <2>2
<1>15. \A u \in Threads : task'[u].step = "check" => Policy[task'[u].root] = "StableValue"
  BY <1>5, <1>6 DEF TrackInv, InputsTracked
<1>16. PICK N : Rests(N)
  BY <1>0, <1>2, Resting, RestingNotified
<1> QED
  BY <1>12, <1>13, <1>14, <1>15, <1>16, TrackTask

(* What is left of a marked slot. *)
LEMMA MarkedSlot ==
    ASSUME NEW s \in Slots
    PROVE  /\ HasEvidence(s) => Marked(s).state = "PotentiallyOutdated" /\ s.state \in Cached
           /\ Marked(s).state \in Cached => HasEvidence(s) /\ Marked(s).payload = s.payload
           /\ s.state \in {"Computing", "Validating"} => Marked(s).invalidated
<1>1. CASE HasEvidence(s)
  <2>1. Marked(s) = PotentiallyOutdated(s.payload) /\ s.payload \in Payloads
    BY <1>1 DEF Marked, Slots
  <2>2. Marked(s).state = "PotentiallyOutdated" /\ Marked(s).payload = s.payload
    BY <2>1, SlotTyped
  <2> QED
    BY <1>1, <2>2 DEF HasEvidence, Cached
<1>2. CASE ~HasEvidence(s) /\ s.state \in {"Computing", "Validating"}
  <2>1. Marked(s) = [s EXCEPT !.invalidated = TRUE]
    BY <1>2 DEF Marked, Invalidated
  <2> QED
    BY <1>2, <2>1 DEF Slots, Cached
<1>3. CASE ~HasEvidence(s) /\ s.state \notin {"Computing", "Validating"}
  <2>1. Marked(s) = Empty
    BY <1>3 DEF Marked, Invalidated
  <2>2. Marked(s).state = "Empty"
    BY <2>1, SlotTyped, NoPayloadTyped
  <2> QED
    BY <1>3, <2>2 DEF Cached
<1> QED
  BY <1>1, <1>2, <1>3

LEMMA TrackMarkDependent ==
    ASSUME FlightInv, FlightInv', TrackInv, NEW t \in Threads, NEW n \in Nodes, MarkDependent(t, n)
    PROVE  TrackInv'
<1>0. Typed /\ SlotsOK /\ TasksOK /\ Leaves \subseteq Nodes
  BY InputsAssumption DEF FlightInv, Leaves
<1>1. PICK s, C, k :
        /\ s = Marked(slot[n])
        /\ C = IF HasEvidence(slot[n]) THEN task[t].cleared ELSE task[t].cleared \cup {n}
        /\ k = [task[t] EXCEPT !.todo = task[t].todo \ {n}, !.cleared = C]
  OBVIOUS
<1>2. /\ task[t].step = "mark" /\ SetSlot(n, s) /\ (stack' = stack \/ stack' = Notified(stack, n))
      /\ UNCHANGED <<graph, cell>>
  BY <1>1 DEF MarkDependent
<1>3. task[t] \in Invalidations
  BY <1>0, <1>2, TaskTyped
<1>4. task' = [task EXCEPT ![t] = k]
  BY <1>0, <1>1, <1>3 DEF MarkDependent, Typed, Invalidations
<1>5. k.step = "mark" /\ k.cleared = C
  BY <1>1, <1>2, <1>3 DEF Invalidations
<1>6. task'[t] = k /\ \A u \in Threads \ {t} : task'[u] = task[u]
  BY <1>0, <1>4 DEF Typed
<1>7. slot[n] \in Slots /\ SlotOK(slot[n])
  BY <1>0 DEF Typed, SlotsOK
<1>8. /\ s \in Slots /\ SlotOK(s)
      /\ HasEvidence(slot[n]) => s.state = "PotentiallyOutdated" /\ slot[n].state \in Cached
      /\ s.state \in Cached => HasEvidence(slot[n]) /\ s.payload = slot[n].payload
      /\ slot[n].state \in {"Computing", "Validating"} => s.invalidated
  BY <1>1, <1>7, InvalidatedSlot, MarkedSlot
<1>9. slot'[n] = s /\ \A m \in Nodes \ {n} : slot'[m] = slot[m]
  BY <1>0, <1>2, <1>8, SettingSlot
<1>11. ASSUME NEW m
       PROVE  Announced(m) => Announced(m)'
  <2>1. ~Announces(t, m)
    BY <1>2 DEF Announces
  <2>2. cell'[m] = cell[m]
    BY <1>2
  <2> QED
    BY <1>0, <1>4, <2>1, <2>2, ReportsStay
<1>12. ASSUME NEW m \in Nodes
       PROVE  SlotTracked(m)'
  <2>1. slot'[m].state \in Cached => slot[m].state \in Cached /\ slot'[m].payload = slot[m].payload
    BY <1>8, <1>9
  <2> QED
    BY <1>2, <1>11, <2>1, SlotCarried DEF TrackInv, InputsTracked
<1>13. ASSUME NEW m \in Nodes
       PROVE  EdgesKept(m)
  <2>1. CASE m = n /\ ~HasEvidence(slot[n])
    <3>1. Sweeping(t, m)'
      BY <1>1, <1>5, <1>6, <2>1 DEF Sweeping
    <3> QED
      BY <1>2, <3>1 DEF EdgesKept, graph
  <2>2. CASE m = n /\ HasEvidence(slot[n])
    BY <1>2, <1>8, <1>9, <2>2 DEF EdgesKept, graph
  <2>3. CASE m # n
    <3>1. \A u \in Threads : Sweeping(u, m) => Sweeping(u, m)'
      BY <1>1, <1>5, <1>6 DEF Sweeping
    <3> QED
      BY <1>2, <1>9, <2>3, <3>1 DEF EdgesKept, graph
  <2> QED
    BY <2>1, <2>2, <2>3
<1>14. ASSUME NEW m \in Leaves
       PROVE  ReportKept(m)
  BY <1>0, <1>2, <1>8, <1>9, <1>11 DEF ReportKept, Busy
<1>15. \A u \in Threads : task'[u].step = "check" => Policy[task'[u].root] = "StableValue"
  BY <1>5, <1>6 DEF TrackInv, InputsTracked
<1>16. PICK N : Rests(N)
  BY <1>0, <1>2, Resting, RestingNotified
<1> QED
  BY <1>12, <1>13, <1>14, <1>15, <1>16, TrackTask

LEMMA TrackSweepEdges ==
    ASSUME FlightInv, FlightInv', TrackInv, NEW t \in Threads, SweepEdges(t)
    PROVE  TrackInv'
<1>0. Typed
  BY DEF FlightInv
<1>1. /\ task[t].step = "mark" /\ task' = [task EXCEPT ![t] = NoTask]
      /\ remove_dependencies_from(task[t].cleared) /\ UNCHANGED <<slot, stack, cell>>
  BY DEF SweepEdges
<1>2. task'[t] = NoTask /\ NoTask.step = "none" /\ \A u \in Threads \ {t} : task'[u] = task[u]
  BY <1>0, <1>1 DEF Typed, NoTask, Task
<1>3. \A m \in Nodes : forward'[m] = IF m \in task[t].cleared THEN {} ELSE forward[m]
  BY <1>0, <1>1, GraphTyped
<1>4. ASSUME NEW m
      PROVE  Announced(m) => Announced(m)'
  <2>1. ~Announces(t, m)
    BY <1>1 DEF Announces
  <2>2. cell'[m] = cell[m]
    BY <1>1
  <2> QED
    BY <1>0, <1>1, <2>1, <2>2, ReportsStay
<1>5. ASSUME NEW m \in Nodes
      PROVE  SlotTracked(m)' /\ EdgesKept(m)
  <2>1. SlotTracked(m)'
    BY <1>1, <1>4, SlotCarried DEF TrackInv, InputsTracked
  <2>2. forward'[m] # {} => \A u \in Threads : Sweeping(u, m) => Sweeping(u, m)'
    BY <1>2, <1>3 DEF Sweeping
  <2> QED
    BY <1>1, <1>3, <2>1, <2>2 DEF EdgesKept
<1>6. \A m \in Leaves : ReportKept(m)
  BY <1>1, <1>4 DEF ReportKept
<1>7. \A u \in Threads : task'[u].step = "check" => Policy[task'[u].root] = "StableValue"
  BY <1>2 DEF TrackInv, InputsTracked
<1>8. Rests({})
  BY <1>0, <1>1, Resting
<1> QED
  BY <1>5, <1>6, <1>7, <1>8, TrackTask

(* Nobody is at work under the barrier: no slot is busy, no report pending *)
(* and no edge is left without a value.                                    *)
LEMMA AtRest ==
    ASSUME FlightInv, TrackInv, \A t \in Threads : stack[t] = <<>> /\ task[t] = NoTask
    PROVE  \A m \in Nodes :
              /\ ~Busy(m) /\ ~Announced(m)
              /\ forward[m] # {} => slot[m].state \in Cached
<1>1. \A t \in Threads : Len(stack[t]) = 0 /\ task[t].step = "none"
  BY DEF NoTask, Task
<1>2. \A t \in Threads : ~\E i \in 1 .. Len(stack[t]) : TRUE
  BY <1>1
<1>3. \A m \in Nodes : ~Busy(m)
  BY <1>2 DEF FlightInv, Single
<1>4. \A m : ~Announced(m)
  BY <1>1 DEF Announced, Announces
<1>5. \A t \in Threads : \A m : ~Clearing(t, m) /\ ~Sweeping(t, m)
  BY <1>1 DEF Clearing, Sweeping
<1>6. \A m \in Nodes : forward[m] # {} =>
        slot[m].state \in {"Ready", "PotentiallyOutdated", "Validating"}
  BY <1>5 DEF TrackInv, EdgesHeld
<1> QED
  BY <1>3, <1>4, <1>6 DEF Busy, Cached

LEMMA TrackChangeDuringRetirement ==
    ASSUME FlightInv, FlightInv', TrackInv, NEW n \in Inputs, NEW v \in Values,
           ChangeDuringRetirement(n, v)
    PROVE  TrackInv'
<1>0. Typed /\ SlotsOK /\ n \in Nodes /\ Leaves \subseteq Inputs /\ Leaves \subseteq Nodes
  BY InputsAssumption DEF FlightInv, Leaves
<1>1. PICK A, S : A = collect_dependents(n) /\ S = {n} \cup {m \in A : ~HasEvidence(slot[m])}
  OBVIOUS
<1>2. /\ \A t \in Threads : stack[t] = <<>> /\ task[t] = NoTask
      /\ slot' = [m \in Nodes |-> IF m = n THEN Invalidated(slot[m])
                                  ELSE IF m \in A THEN Marked(slot[m]) ELSE slot[m]]
      /\ remove_dependencies_from(S)
      /\ cell' = [cell EXCEPT ![n] = v]
      /\ UNCHANGED <<stack, task>>
  BY <1>1 DEF ChangeDuringRetirement
<1>3. \A m \in Nodes : ~Busy(m) /\ ~Announced(m) /\ (forward[m] # {} => slot[m].state \in Cached)
  BY <1>2, AtRest
<1>4. \A m \in Nodes : forward'[m] = IF m \in S THEN {} ELSE forward[m]
  BY <1>0, <1>2, GraphTyped
<1>5. slot'[n].state = "Empty"
  <2>1. slot'[n] = Invalidated(slot[n]) /\ Invalidated(slot[n]) = Empty
    BY <1>0, <1>2, <1>3 DEF Invalidated, Busy
  <2> QED
    BY <2>1, SlotTyped, NoPayloadTyped
<1>6. \A m \in Inputs \ {n} : cell'[m] = cell[m]
  BY <1>0, <1>2 DEF Typed
<1>7. ASSUME NEW m \in Nodes
      PROVE  SlotTracked(m)' /\ EdgesKept(m)
  <2>1. CASE m = n
    BY <1>0, <1>1, <1>4, <1>5, <2>1 DEF SlotTracked, EdgesKept
  <2>2. CASE m # n
    <3>1. /\ slot[m] \in Slots
          /\ slot'[m] = IF m \in A THEN Marked(slot[m]) ELSE slot[m]
      BY <1>0, <1>2, <2>2 DEF Typed
    <3>2. slot'[m].state \in Cached => slot[m].state \in Cached /\ slot'[m].payload = slot[m].payload
      BY <3>1, MarkedSlot
    <3>3. SlotTracked(m)'
      BY <1>0, <1>3, <1>6, <2>2, <3>2, SlotCarried DEF TrackInv, InputsTracked
    <3>4. forward'[m] # {} => forward[m] # {} /\ slot'[m].state \in Cached
      <4>1. SUFFICES ASSUME forward'[m] # {}
                     PROVE  forward[m] # {} /\ slot'[m].state \in Cached
        OBVIOUS
      <4>2. m \notin S /\ forward[m] # {} /\ slot[m].state \in Cached
        BY <1>3, <1>4, <4>1
      <4>3. m \in A => HasEvidence(slot[m])
        BY <1>1, <4>2
      <4> QED
        BY <3>1, <4>2, <4>3, MarkedSlot DEF Cached
    <3> QED
      BY <3>3, <3>4 DEF EdgesKept, Cached
  <2> QED
    BY <2>1, <2>2
<1>8. \A m \in Leaves : ReportKept(m)
  BY <1>0, <1>3 DEF ReportKept
<1>9. \A u \in Threads : task'[u].step = "check" => Policy[task'[u].root] = "StableValue"
  BY <1>2 DEF TrackInv, InputsTracked
<1>10. Rests({})
  BY <1>0, <1>2, Resting
<1> QED
  BY <1>7, <1>8, <1>9, <1>10, TrackTask

LEMMA ForgottenSlot ==
    ASSUME NEW s \in Slots, SlotOK(s), NEW n \in Nodes
    PROVE  /\ Forgotten(s, n).state = s.state
           /\ Forgotten(s, n).payload.value = s.payload.value
           /\ Forgotten(s, n).payload.fingerprint = s.payload.fingerprint
<1>1. CASE n \in DOMAIN s.payload.deps /\ s.payload.deps[n] # NoFingerprint
  <2>1. s.payload \in Payloads
    BY DEF Slots
  <2>2. PICK e, p :
          e = [s.payload.deps EXCEPT ![n] = RetiredNode] /\ p = [s.payload EXCEPT !.deps = e]
    OBVIOUS
  <2>3. Forgotten(s, n) = [s EXCEPT !.payload = p]
    BY <1>1, <2>1, <2>2 DEF Forgotten, Slots, Payloads
  <2>4. p.value = s.payload.value /\ p.fingerprint = s.payload.fingerprint
    BY <2>1, <2>2 DEF Payloads
  <2> QED
    BY <2>3, <2>4 DEF Slots
<1>2. CASE ~(n \in DOMAIN s.payload.deps /\ s.payload.deps[n] # NoFingerprint)
  BY <1>2 DEF Forgotten
<1> QED
  BY <1>1, <1>2

LEMMA TrackRetire ==
    ASSUME FlightInv, FlightInv', TrackInv, NEW n \in Nodes, Retire(n)
    PROVE  TrackInv'
<1>0. Typed /\ SlotsOK /\ Leaves \subseteq Nodes
  BY InputsAssumption DEF FlightInv, Leaves
<1>1. PICK A, S : A = collect_dependents(n) /\ S = {n} \cup {m \in A : ~HasEvidence(slot[m])}
  OBVIOUS
<1>2. /\ \A t \in Threads : stack[t] = <<>> /\ task[t] = NoTask
      /\ slot' = [m \in Nodes |-> IF m = n THEN Empty
                                  ELSE IF m \in A THEN Forgotten(Marked(slot[m]), n) ELSE slot[m]]
      /\ forward' = [m \in Nodes |-> RemovedForward(S)[m] \ {n}]
      /\ UNCHANGED <<stack, task, cell>>
  BY <1>1 DEF Retire
<1>3. \A m \in Nodes : ~Busy(m) /\ ~Announced(m) /\ (forward[m] # {} => slot[m].state \in Cached)
  BY <1>2, AtRest
<1>4. \A m \in Nodes : forward'[m] # {} => m \notin S /\ forward[m] # {}
  BY <1>2 DEF RemovedForward
<1>5. slot'[n].state = "Empty"
  BY <1>2, SlotTyped, NoPayloadTyped
<1>7. ASSUME NEW m \in Nodes
      PROVE  SlotTracked(m)' /\ EdgesKept(m)
  <2>1. CASE m = n
    BY <1>0, <1>1, <1>4, <1>5, <2>1 DEF SlotTracked, EdgesKept
  <2>2. CASE m # n
    <3>0. slot[m] \in Slots /\ SlotOK(slot[m]) /\ Marked(slot[m]) \in Slots /\ SlotOK(Marked(slot[m]))
      BY <1>0, InvalidatedSlot DEF Typed, SlotsOK
    <3>1. slot'[m] = IF m \in A THEN Forgotten(Marked(slot[m]), n) ELSE slot[m]
      BY <1>2, <2>2
    <3>2. m \in A => /\ slot'[m].state = Marked(slot[m]).state
                     /\ slot'[m].payload.value = Marked(slot[m]).payload.value
                     /\ slot'[m].payload.fingerprint = Marked(slot[m]).payload.fingerprint
      BY <3>0, <3>1, ForgottenSlot
    <3>3. slot'[m].state \in Cached =>
            /\ slot[m].state \in Cached
            /\ slot'[m].payload.value = slot[m].payload.value
            /\ slot'[m].payload.fingerprint = slot[m].payload.fingerprint
      BY <3>0, <3>1, <3>2, MarkedSlot
    <3>4. SlotTracked(m)'
      BY <1>2, <1>3, <3>3, SlotCarried DEF TrackInv, InputsTracked
    <3>5. forward'[m] # {} => forward[m] # {} /\ slot'[m].state \in Cached
      <4>1. SUFFICES ASSUME forward'[m] # {}
                     PROVE  forward[m] # {} /\ slot'[m].state \in Cached
        OBVIOUS
      <4>2. m \notin S /\ forward[m] # {} /\ slot[m].state \in Cached
        BY <1>3, <1>4, <4>1
      <4>3. m \in A => HasEvidence(slot[m])
        BY <1>1, <4>2
      <4> QED
        BY <3>0, <3>1, <3>2, <4>2, <4>3, MarkedSlot DEF Cached
    <3> QED
      BY <3>4, <3>5 DEF EdgesKept, Cached
  <2> QED
    BY <2>1, <2>2
<1>8. \A m \in Leaves : ReportKept(m)
  BY <1>0, <1>3 DEF ReportKept
<1>9. \A u \in Threads : task'[u].step = "check" => Policy[task'[u].root] = "StableValue"
  BY <1>2 DEF TrackInv, InputsTracked
<1>10. Rests({})
  BY <1>0, <1>2, Resting
<1> QED
  BY <1>7, <1>8, <1>9, <1>10, TrackTask

-----------------------------------------------------------------------------
LEMMA TrackInitially ==
    ASSUME Init
    PROVE  TrackInv
<1>1. \A t \in Threads : Len(stack[t]) = 0 /\ task[t].step = "none"
  BY DEF Init, NoTask, Task
<1>2. \A t \in Threads : ~\E i \in 1 .. Len(stack[t]) : TRUE
  BY <1>1
<1>3. \A n \in Nodes : slot[n].state = "Empty" /\ forward[n] = {}
  BY SlotTyped, NoPayloadTyped DEF Init
<1>4. EdgesHeld /\ \A n \in Nodes : SlotTracked(n)
  BY <1>3 DEF EdgesHeld, SlotTracked
<1> QED
  BY <1>1, <1>2, <1>4 DEF TrackInv, InputsTracked

LEMMA TrackStep ==
    ASSUME FlightInv, FlightInv', TrackInv, [Next]_vars
    PROVE  TrackInv'
<1>1. ASSUME NEW t \in Threads, Step(t)
      PROVE  TrackInv'
  BY <1>1, TrackLookupReady, TrackLookupOutdated, TrackLookupBusy, TrackLookupCycle,
     TrackLookupEmpty, TrackWakeUp, TrackStartProvider, TrackProviderReads,
     TrackProviderRefused, TrackProviderReturns, TrackProviderFails, TrackPublish,
     TrackDiscardResult, TrackFail, TrackValidateUnfingerprinted, TrackValidateEnsures,
     TrackCompare, TrackSettleGreen, TrackSettleRed, TrackSettleError, TrackCheckInput,
     TrackCollectDependents, TrackInvalidateRoot, TrackMarkDependent, TrackSweepEdges
     DEF Step
<1>2. ASSUME UNCHANGED vars
      PROVE  TrackInv'
  <2>1. UNCHANGED <<slot, forward, stack, task, cell>>
    BY <1>2 DEF vars
  <2>2. \A m : Announced(m)' <=> Announced(m)
    BY <2>1 DEF Announced, Announces
  <2>3. (\A m : SlotTracked(m)' <=> SlotTracked(m)) /\ (\A f : FrameTracked(f)' <=> FrameTracked(f))
    BY <2>1, <2>2 DEF SlotTracked, FrameTracked
  <2>4. InputsTracked'
    BY <2>1, <2>3 DEF TrackInv, InputsTracked
  <2>5. \A u, m : (Clearing(u, m)' <=> Clearing(u, m)) /\ (Sweeping(u, m)' <=> Sweeping(u, m))
    BY <2>1 DEF Clearing, Sweeping, Top
  <2>6. EdgesHeld'
    BY <2>1, <2>5 DEF TrackInv, EdgesHeld
  <2> QED
    BY <2>4, <2>6 DEF TrackInv
<1> QED
  BY <1>1, <1>2, TrackRequest, TrackChangeInput, TrackChangeDuringRetirement, TrackRetire
     DEF Next

LEMMA TrackAlways == Spec => [](FlightInv /\ TrackInv)
<1>1. Init => FlightInv /\ TrackInv
  BY FlightInitially, TrackInitially
<1>2. (FlightInv /\ TrackInv) /\ [Next]_vars => (FlightInv /\ TrackInv)'
  BY FlightStep, TrackStep
<1> QED
  BY <1>1, <1>2, PTL DEF Spec

(* For any queries and threads, a failed or a discarded execution leaves   *)
(* no edges in the dependency graph: once nobody is at work, every edge    *)
(* starts at a cached value (clear_dependencies_from, replace_dependencies *)
(* and the sweep of an invalidation in database.rs and dependency.rs).     *)
THEOREM LeavesNoEdges == Spec => []NoSpeculativeEdges
<1>1. FlightInv /\ TrackInv => NoSpeculativeEdges
  BY AtRest DEF NoSpeculativeEdges, Cached
<1> QED
  BY <1>1, TrackAlways, PTL

(* For any queries and threads, an input that reads no query is not served *)
(* from before a reported change, although providers run and publish while *)
(* the report is on its way: validate_input and invalidate empty the slot, *)
(* flag the execution that is under way or find the new value in the slot. *)
THEOREM ServesCurrentInputs == Spec => []InputIsCurrent
<1>1. ASSUME FlightInv, TrackInv
      PROVE  InputIsCurrent
  <2>1. SUFFICES ASSUME NEW n \in Inputs, NextRead(n, <<>>) = Done, slot[n].state = "Ready"
                 PROVE  \/ slot[n].payload.value = Provide(n, cell[n], <<>>)
                        \/ \E t \in Threads : task[t] # NoTask /\ task[t].root = n
    BY DEF InputIsCurrent
  <2>2. n \in Leaves /\ SlotTracked(n)
    BY <1>1, <2>1, InputsAssumption DEF Leaves, TrackInv, InputsTracked
  <2>3. slot[n].payload.value = Provide(n, cell[n], <<>>) \/ Announced(n)
    BY <2>1, <2>2 DEF SlotTracked
  <2>4. \A t \in Threads : Announces(t, n) => task[t] # NoTask /\ task[t].root = n
    BY DEF Announces, NoTask, Task
  <2> QED
    BY <2>3, <2>4 DEF Announced
<1>2. FlightInv /\ TrackInv => InputIsCurrent
  BY <1>1
<1> QED
  BY <1>2, TrackAlways, PTL

-----------------------------------------------------------------------------
(* Changes under the barrier: no Ready value stands on one that is not.    *)

ReadyNodes == {n \in Nodes : slot[n].state = "Ready"}

(* No invalidation runs beside queries, so that no execution is flagged. *)
Calm ==
    /\ \A t \in Threads : task[t] = NoTask
    /\ \A n \in Nodes : ~slot[n].invalidated

(* What a kept value has edges to is among its evidence. *)
Evident ==
    \A n \in Nodes : HasEvidence(slot[n]) => forward[n] \subseteq DOMAIN slot[n].payload.deps

(* The query that frame i has asked for. *)
Awaited(t, i) == IF i = 1 THEN {} ELSE {stack[t][i - 1].node}

(* A frame that asked for A, where the slots of R are Ready and F are the  *)
(* edges: what an execution has read is Ready, and so is what a validation *)
(* has compared; a validation compares what has a fingerprint.             *)
Stands(f, A, R, F) ==
    /\ f.phase \notin Judging \cup {"fail", "ice"} => DOMAIN f.deps \subseteq R \cup A
    /\ f.phase \in Judging => F[f.node] \subseteq DOMAIN f.kept.deps
    /\ f.phase \in {"validate", "compare"} => F[f.node] \subseteq f.todo \cup R
    /\ f.phase = "compare" \/ (f.phase = "validate" /\ A # {}) =>
        f.todo # {} /\ f.kept.deps[NextDependency(f)] # NoFingerprint

FramesStand ==
    \A t \in Threads : \A i \in 1 .. Len(stack[t]) :
        Stands(stack[t][i], Awaited(t, i), ReadyNodes, forward)

StandInv == Calm /\ Mirrored /\ ReadyStandsOnReady /\ Evident /\ FramesStand

(* A frame that waits goes on standing where it stood. *)
LEMMA StandsOn ==
    ASSUME NEW f \in Frames, NEW g, Woke(g, f), NEW A, NEW R, NEW S, NEW F, NEW G,
           Stands(f, A, R, F), R \subseteq S, f.phase \in Judging => G[f.node] = F[f.node]
    PROVE  Stands(g, A, S, G)
<1>1. CASE g = f
  BY <1>1 DEF Stands, Judging
<1>2. CASE f.phase = "wait" /\ g = [f EXCEPT !.phase = "woken"]
  <2>1. g.phase = "woken" /\ g.deps = f.deps
    BY <1>2 DEF Frames
  <2> QED
    BY <1>2, <2>1 DEF Stands, Judging
<1> QED
  BY <1>1, <1>2 DEF Woke

(* What a get on n does for the other frames: slots stay Ready, and only   *)
(* the owner of a slot changes its edges.                                  *)
Settles(t, n) ==
    /\ ReadyNodes \subseteq ReadyNodes'
    /\ \A m \in Nodes \ {n} : forward'[m] = forward[m]
    /\ forward'[n] = forward[n] \/ (Len(stack[t]) > 0 /\ Owns(t, 1, n))

LEMMA OthersJudge ==
    ASSUME FlightInv, NEW t \in Threads, NEW n \in Nodes, Settles(t, n),
           NEW u \in Threads, NEW i \in 1 .. Len(stack[u]), u # t \/ i # 1,
           stack[u][i].phase \in Judging
    PROVE  forward'[stack[u][i].node] = forward[stack[u][i].node]
<1>1. Typed /\ Single
  BY DEF FlightInv
<1>2. stack[u][i].node \in Nodes
  BY <1>1, EveryFrame
<1>3. CASE stack[u][i].node # n \/ forward'[n] = forward[n]
  BY <1>2, <1>3 DEF Settles
<1>4. CASE stack[u][i].node = n /\ forward'[n] # forward[n]
  <2>1. Owns(t, 1, n) /\ 1 \in 1 .. Len(stack[t])
    <3>1. Len(stack[t]) \in Nat /\ Len(stack[t]) > 0
      BY <1>1, <1>4 DEF Typed, Settles
    <3> QED
      BY <1>4, <3>1 DEF Settles
  <2>2. Owns(u, i, n)
    BY <1>4 DEF Owns, Owning, Judging
  <2> QED
    BY <1>1, <2>1, <2>2 DEF Single
<1> QED
  BY <1>3, <1>4

LEMMA OthersStand ==
    ASSUME FlightInv, FramesStand, NEW t \in Threads, NEW n \in Nodes, Settles(t, n),
           NEW N, Others(t, N),
           NEW u \in Threads \ {t}, NEW i \in 1 .. Len(stack'[u])
    PROVE  Stands(stack[u][i], Awaited(u, i), ReadyNodes, forward)'
<1>1. Typed /\ Still(u, N)
  BY DEF FlightInv, Others
<1>2. i \in 1 .. Len(stack[u]) /\ Len(stack[u]) \in Nat
  BY <1>1 DEF Still, Typed
<1>3. stack[u][i] \in Frames /\ Woke(stack'[u][i], stack[u][i])
  BY <1>1, <1>2, EveryFrame DEF Still
<1>4. Awaited(u, i)' = Awaited(u, i)
  <2>1. CASE i = 1
    BY <2>1 DEF Awaited
  <2>2. CASE i # 1
    <3>1. i - 1 \in 1 .. Len(stack[u])
      BY <1>2, <2>2
    <3>2. stack'[u][i - 1].node = stack[u][i - 1].node
      BY <1>1, <3>1, EveryFrame, Waking DEF Still
    <3> QED
      BY <2>2, <3>2 DEF Awaited
  <2> QED
    BY <2>1, <2>2
<1>5. Stands(stack[u][i], Awaited(u, i), ReadyNodes, forward)
  BY <1>2 DEF FramesStand
<1>6. stack[u][i].phase \in Judging => forward'[stack[u][i].node] = forward[stack[u][i].node]
  BY <1>2, OthersJudge
<1>7. Stands(stack'[u][i], Awaited(u, i), ReadyNodes', forward')
  BY <1>3, <1>5, <1>6, StandsOn DEF Settles
<1> QED
  BY <1>4, <1>7
LEMMA StandStays ==
    ASSUME FlightInv, FramesStand, NEW t \in Threads, NEW n \in Nodes, Settles(t, n),
           NEW f, NEW N, Stays(t, f, N), f.node = stack[t][1].node,
           Stands(f, {}, ReadyNodes', forward')
    PROVE  FramesStand'
<1>0. Typed /\ Others(t, N)
  BY DEF FlightInv, Stays
<1>1. Len(stack[t]) \in Nat /\ Len(stack'[t]) = Len(stack[t])
  BY <1>0 DEF Typed, Stays
<1>2. ASSUME NEW i \in 1 .. Len(stack'[t])
      PROVE  Stands(stack[t][i], Awaited(t, i), ReadyNodes, forward)'
  <2>1. CASE i = 1
    <3>1. stack'[t][i] = f /\ Awaited(t, i)' = {}
      BY <2>1 DEF Stays, Awaited
    <3> QED
      BY <3>1
  <2>2. CASE i # 1
    <3>1. i \in 2 .. Len(stack[t]) /\ i \in 1 .. Len(stack[t]) /\ (i - 1 = 1 \/ i - 1 \in 2 .. Len(stack[t]))
      BY <1>1, <2>2
    <3>2. stack'[t][i] = stack[t][i] /\ stack'[t][i - 1].node = stack[t][i - 1].node
      BY <3>1 DEF Stays
    <3>3. Awaited(t, i)' = Awaited(t, i)
      BY <2>2, <3>2 DEF Awaited
    <3>4. stack[t][i].phase \in Judging => forward'[stack[t][i].node] = forward[stack[t][i].node]
      BY <2>2, <3>1, OthersJudge
    <3>5. Stands(stack[t][i], Awaited(t, i), ReadyNodes, forward) /\ stack[t][i] \in Frames
      BY <1>0, <3>1, EveryFrame DEF FramesStand
    <3>6. Stands(stack[t][i], Awaited(t, i), ReadyNodes', forward')
      BY <3>4, <3>5, StandsOn DEF Settles, Woke
    <3> QED
      BY <3>2, <3>3, <3>6
  <2> QED
    BY <2>1, <2>2
<1> QED
  BY <1>0, <1>2, OthersStand DEF FramesStand

LEMMA StandCalls ==
    ASSUME FlightInv, FramesStand, NEW t \in Threads, NEW n \in Nodes, Settles(t, n),
           NEW g, NEW d \in Nodes, Calls(t, g, Frame(d)), Len(stack[t]) > 0 => g.node = stack[t][1].node,
           Len(stack[t]) > 0 => Stands(g, {d}, ReadyNodes', forward')
    PROVE  FramesStand'
<1>0. Typed /\ Others(t, {})
  BY DEF FlightInv, Calls
<1>1. Len(stack[t]) \in Nat /\ Len(stack'[t]) = Len(stack[t]) + 1
  BY <1>0 DEF Typed, Calls
<1>2. ASSUME NEW i \in 1 .. Len(stack'[t])
      PROVE  Stands(stack[t][i], Awaited(t, i), ReadyNodes, forward)'
  <2>1. CASE i = 1
    <3>1. stack'[t][i] = Frame(d)
      BY <2>1 DEF Calls
    <3>2. Frame(d).phase = "lookup" /\ DOMAIN Frame(d).deps = {}
      BY DEF Frame, NoFingerprints
    <3> QED
      BY <3>1, <3>2 DEF Stands, Judging
  <2>2. CASE i = 2
    <3>1. Len(stack[t]) > 0 /\ i - 1 = 1
      BY <1>1, <2>2
    <3>2. stack'[t][i] = g /\ stack'[t][i - 1] = Frame(d) /\ Frame(d).node = d
      BY <2>2, <3>1, FrameTyped DEF Calls
    <3>3. Awaited(t, i)' = {d}
      BY <2>2, <3>2 DEF Awaited
    <3> QED
      BY <3>1, <3>2, <3>3
  <2>3. CASE i # 1 /\ i # 2
    <3>0. Len(stack[t]) > 0 /\ stack'[t][2] = g
      BY <1>1, <2>3 DEF Calls
    <3>1. PICK j : j = i - 1
      OBVIOUS
    <3>2. /\ j \in 2 .. Len(stack[t]) /\ j \in 1 .. Len(stack[t]) /\ j + 1 = i /\ j # 1
          /\ (j = 2 \/ (j - 1 \in 2 .. Len(stack[t]) /\ (j - 1) + 1 = j))
      BY <1>1, <2>3, <3>1
    <3>3. stack'[t][i] = stack[t][j]
      BY <3>2 DEF Calls
    <3>4. stack'[t][j].node = stack[t][j - 1].node
      <4>1. CASE j = 2
        <5>1. j - 1 = 1
          BY <4>1
        <5> QED
          BY <3>0, <4>1, <5>1
      <4>2. CASE j # 2
        <5>1. stack'[t][(j - 1) + 1] = stack[t][j - 1]
          BY <3>2, <4>2 DEF Calls
        <5> QED
          BY <3>2, <4>2, <5>1
      <4> QED
        BY <4>1, <4>2
    <3>5. Awaited(t, i)' = Awaited(t, j)
      BY <2>3, <3>1, <3>2, <3>4 DEF Awaited
    <3>6. stack[t][j].phase \in Judging => forward'[stack[t][j].node] = forward[stack[t][j].node]
      BY <3>2, OthersJudge
    <3>7. Stands(stack[t][j], Awaited(t, j), ReadyNodes, forward) /\ stack[t][j] \in Frames
      BY <1>0, <3>2, EveryFrame DEF FramesStand
    <3>8. Stands(stack[t][j], Awaited(t, j), ReadyNodes', forward')
      BY <3>6, <3>7, StandsOn DEF Settles, Woke
    <3> QED
      BY <3>3, <3>5, <3>8
  <2> QED
    BY <2>1, <2>2, <2>3
<1> QED
  BY <1>0, <1>2, OthersStand DEF FramesStand

LEMMA StandReturns ==
    ASSUME FlightInv, FramesStand, NEW t \in Threads, NEW n \in Nodes, Settles(t, n),
           NEW f, NEW N, Returns(t, f, N), Len(stack[t]) > 1 => f.node = stack[t][2].node,
           Len(stack[t]) > 1 => Stands(f, {}, ReadyNodes', forward')
    PROVE  FramesStand'
<1>0. Typed /\ Others(t, N)
  BY DEF FlightInv, Returns
<1>1. Len(stack[t]) \in Nat /\ Len(stack'[t]) = Len(stack[t]) - 1
  BY <1>0 DEF Typed, Returns
<1>2. ASSUME NEW i \in 1 .. Len(stack'[t])
      PROVE  Stands(stack[t][i], Awaited(t, i), ReadyNodes, forward)'
  <2>0. Len(stack[t]) > 1 /\ stack'[t][1] = f
    BY <1>1 DEF Returns
  <2>1. CASE i = 1
    <3>1. stack'[t][i] = f /\ Awaited(t, i)' = {}
      BY <2>0, <2>1 DEF Awaited
    <3> QED
      BY <2>0, <3>1
  <2>2. CASE i # 1
    <3>1. PICK j : j = i + 1
      OBVIOUS
    <3>2. /\ j \in 3 .. Len(stack[t]) /\ j \in 1 .. Len(stack[t]) /\ j - 1 = i /\ j # 1
          /\ (i = 2 \/ i \in 3 .. Len(stack[t]))
      BY <1>1, <2>2, <3>1
    <3>3. stack'[t][j - 1] = stack[t][j]
      BY <3>2 DEF Returns
    <3>4. stack'[t][i - 1].node = stack[t][i].node
      <4>1. CASE i = 2
        <5>1. i - 1 = 1
          BY <4>1
        <5> QED
          BY <2>0, <4>1, <5>1
      <4>2. CASE i # 2
        <5>1. stack'[t][i - 1] = stack[t][i]
          BY <3>2, <4>2 DEF Returns
        <5> QED
          BY <5>1
      <4> QED
        BY <4>1, <4>2
    <3>5. Awaited(t, i)' = Awaited(t, j)
      BY <2>2, <3>2, <3>4 DEF Awaited
    <3>6. stack[t][j].phase \in Judging => forward'[stack[t][j].node] = forward[stack[t][j].node]
      BY <3>2, OthersJudge
    <3>7. Stands(stack[t][j], Awaited(t, j), ReadyNodes, forward) /\ stack[t][j] \in Frames
      BY <1>0, <3>2, EveryFrame DEF FramesStand
    <3>8. Stands(stack[t][j], Awaited(t, j), ReadyNodes', forward')
      BY <3>6, <3>7, StandsOn DEF Settles, Woke
    <3> QED
      BY <3>2, <3>3, <3>5, <3>8
  <2> QED
    BY <2>1, <2>2
<1> QED
  BY <1>0, <1>2, OthersStand DEF FramesStand

(* What a get on n does to slots and edges. *)
SettlesSlot(n) ==
    /\ \A m \in Nodes \ {n} : slot'[m] = slot[m] /\ forward'[m] = forward[m]
    /\ UNCHANGED task
    /\ ~slot'[n].invalidated
    /\ slot[n].state = "Ready" => slot'[n].state = "Ready"
    /\ slot'[n].state = "Ready" => forward'[n] \subseteq ReadyNodes \cup {n}
    /\ HasEvidence(slot'[n]) => forward'[n] \subseteq DOMAIN slot'[n].payload.deps

LEMMA StandSlots ==
    ASSUME Typed, StandInv, NEW n \in Nodes, SettlesSlot(n), Mirrored', FramesStand'
    PROVE  StandInv'
<1>0. forward \in [Nodes -> SUBSET Nodes]
  BY DEF Typed
<1>1. Calm'
  BY DEF StandInv, Calm, SettlesSlot
<1>2. \A m \in Nodes : slot[m].state = "Ready" => slot'[m].state = "Ready"
  BY DEF SettlesSlot
<1>3. \A m \in Nodes : slot'[m].state = "Ready" => \A d \in forward'[m] : slot'[d].state = "Ready"
  <2>1. TAKE m \in Nodes
  <2>2. SUFFICES ASSUME slot'[m].state = "Ready", NEW d \in forward'[m]
                 PROVE  slot'[d].state = "Ready"
    OBVIOUS
  <2>3. CASE m = n
    BY <1>2, <2>2, <2>3 DEF SettlesSlot, ReadyNodes
  <2>4. CASE m # n
    <3>1. slot[m].state = "Ready" /\ d \in forward[m]
      BY <2>2, <2>4 DEF SettlesSlot
    <3>2. slot[d].state = "Ready" /\ d \in Nodes
      BY <1>0, <3>1 DEF StandInv, ReadyStandsOnReady
    <3> QED
      BY <1>2, <3>2
  <2> QED
    BY <2>3, <2>4
<1>4. Evident'
  <2>1. \A m \in Nodes \ {n} : HasEvidence(slot'[m]) => forward'[m] \subseteq DOMAIN slot'[m].payload.deps
    BY DEF StandInv, Evident, SettlesSlot
  <2>2. \A m \in Nodes : HasEvidence(slot'[m]) => forward'[m] \subseteq DOMAIN slot'[m].payload.deps
    BY <2>1 DEF SettlesSlot
  <2> QED
    BY <2>2 DEF Evident
<1> QED
  BY <1>1, <1>3, <1>4 DEF StandInv, ReadyStandsOnReady

(* The graph's operations keep its directions in step. *)
LEMMA MirrorKept ==
    ASSUME Typed, Mirrored
    PROVE  /\ \A S : remove_dependencies_from(S) => Mirrored'
           /\ \A n \in Nodes : \A T \in SUBSET Nodes : replace_dependencies_from(n, T) =>
                Mirrored' /\ forward'[n] = T
           /\ UNCHANGED graph => Mirrored'
<1>1. forward \in [Nodes -> SUBSET Nodes] /\ reverse \in [Nodes -> SUBSET Nodes]
  BY DEF Typed
<1>2. ASSUME NEW S, remove_dependencies_from(S)
      PROVE  Mirrored'
  BY <1>1, <1>2 DEF remove_dependencies_from, RemovedForward, RemovedReverse, Mirrored
<1>3. ASSUME NEW n \in Nodes, NEW T \in SUBSET Nodes, replace_dependencies_from(n, T)
      PROVE  Mirrored' /\ forward'[n] = T
  BY <1>1, <1>3 DEF replace_dependencies_from, Mirrored
<1>4. UNCHANGED graph => Mirrored'
  BY DEF Mirrored, graph
<1> QED
  BY <1>2, <1>3, <1>4
(* A step that touches neither slots nor edges. *)
LEMMA StandUntouched ==
    ASSUME Typed, StandInv, NEW t \in Threads, NEW n \in Nodes, UNCHANGED <<slot, graph, task>>
    PROVE  Settles(t, n) /\ SettlesSlot(n) /\ Mirrored'
<1>1. slot' = slot /\ forward' = forward /\ task' = task /\ ReadyNodes' = ReadyNodes
  BY DEF graph, ReadyNodes
<1>2. Settles(t, n)
  BY <1>1 DEF Settles
<1>3. slot[n].state = "Ready" => forward[n] \subseteq ReadyNodes
  BY DEF StandInv, ReadyStandsOnReady, ReadyNodes, Typed
<1>4. SettlesSlot(n)
  BY <1>1, <1>3 DEF SettlesSlot, StandInv, Calm, Evident
<1> QED
  BY <1>2, <1>4, MirrorKept DEF StandInv

(* A step that sets a slot that was not Ready, the edges staying. *)
LEMMA StandSet ==
    ASSUME Typed, SlotsOK, StandInv, NEW t \in Threads, NEW n \in Nodes, NEW s \in Slots, SlotOK(s),
           SetSlot(n, s), slot[n].state # "Ready", ~s.invalidated, UNCHANGED task,
           \A m \in Nodes \ {n} : forward'[m] = forward[m],
           forward'[n] = forward[n] \/ (Len(stack[t]) > 0 /\ Owns(t, 1, n)),
           s.state = "Ready" => forward'[n] \subseteq ReadyNodes,
           HasEvidence(s) => forward'[n] \subseteq DOMAIN s.payload.deps
    PROVE  /\ Settles(t, n) /\ SettlesSlot(n) /\ slot'[n] = s
<1>1. slot'[n] = s /\ \A m \in Nodes \ {n} : slot'[m] = slot[m]
  BY SettingSlot
<1>2. ReadyNodes \subseteq ReadyNodes'
  BY <1>1 DEF ReadyNodes
<1> QED
  BY <1>1, <1>2 DEF Settles, SettlesSlot

LEMMA TopStands ==
    ASSUME Typed, StandInv, NEW t \in Threads, stack[t] # <<>>
    PROVE  Stands(Top(t), {}, ReadyNodes, forward)
<1>1. Top(t) = stack[t][1] /\ 1 \in 1 .. Len(stack[t])
  BY TopFrame
<1>2. Awaited(t, 1) = {}
  BY DEF Awaited
<1> QED
  BY <1>1, <1>2 DEF StandInv, FramesStand

(* The top frame moves on. *)
LEMMA StandTop ==
    ASSUME FlightInv, StandInv, NEW t \in Threads, stack[t] # <<>>, NEW n \in Nodes,
           Settles(t, n), SettlesSlot(n), Mirrored',
           NEW f, NEW N, Stays(t, f, N), f.node = Top(t).node, Stands(f, {}, ReadyNodes', forward')
    PROVE  StandInv'
<1>1. Typed /\ FramesStand /\ Top(t) = stack[t][1]
  BY TopFrame DEF FlightInv, StandInv
<1>2. FramesStand'
  BY <1>1, StandStays
<1> QED
  BY <1>1, <1>2, StandSlots

(* Executions go on, or fail, or a validation comes to its end. *)
Moves(p, q) ==
    \/ q \in {"fail", "ice"}
    \/ p \notin Judging \cup {"fail", "ice"} /\ q \notin Judging
    \/ p \in Judging /\ q \in {"red", "error"}

LEMMA PhaseStands ==
    ASSUME NEW f \in Frames, NEW q \in Owning \cup {"lookup", "wait", "woken"}, Moves(f.phase, q),
           NEW R, NEW S, NEW F, NEW G, Stands(f, {}, R, F), R \subseteq S,
           f.phase \in Judging => G[f.node] = F[f.node]
    PROVE  Stands([f EXCEPT !.phase = q], {}, S, G)
<1>1. PICK g : g = [f EXCEPT !.phase = q]
  OBVIOUS
<1>2. g.phase = q /\ g.node = f.node /\ g.deps = f.deps /\ g.kept = f.kept
  BY <1>1 DEF Frames
<1> SUFFICES Stands(g, {}, S, G)
  BY <1>1
<1>3. CASE q \in {"fail", "ice"}
  BY <1>2, <1>3 DEF Stands, Judging
<1>4. CASE f.phase \notin Judging \cup {"fail", "ice"} /\ q \notin Judging
  <2>1. DOMAIN g.deps \subseteq S
    BY <1>2, <1>4 DEF Stands
  <2> QED
    BY <1>2, <1>4, <2>1 DEF Stands, Judging
<1>5. CASE f.phase \in Judging /\ q \in {"red", "error"}
  <2>1. G[g.node] \subseteq DOMAIN g.kept.deps
    BY <1>2, <1>5 DEF Stands
  <2> QED
    BY <1>2, <1>5, <2>1 DEF Stands, Judging
<1> QED
  BY <1>3, <1>4, <1>5 DEF Moves

LEMMA StandPhase ==
    ASSUME FlightInv, StandInv, NEW t \in Threads, NEW p, At(t, p),
           NEW q \in Owning \cup {"lookup", "wait", "woken"}, Moves(p, q), stack' = InPhase(t, q),
           NEW n \in Nodes, Settles(t, n), SettlesSlot(n), Mirrored',
           p \in Judging => forward' = forward
    PROVE  StandInv'
<1>1. stack[t] # <<>> /\ Top(t).phase = p /\ Top(t) \in Frames /\ Typed
  BY AtTop
<1>2. PICK f : f = [Top(t) EXCEPT !.phase = q]
  OBVIOUS
<1>3. f \in Frames /\ f.node = Top(t).node
  BY <1>1, <1>2, PhaseTyped
<1>4. Stays(t, f, {})
  BY <1>1, <1>2, <1>3, Staying DEF InPhase
<1>5. ReadyNodes \subseteq ReadyNodes' /\ Stands(Top(t), {}, ReadyNodes, forward)
  BY <1>1, TopStands DEF Settles
<1>6. Stands(f, {}, ReadyNodes', forward')
  BY <1>1, <1>2, <1>5, PhaseStands
<1> QED
  BY <1>1, <1>3, <1>4, <1>6, StandTop

(* The caller goes on with a value that is Ready ... *)
LEMMA ReceivedStands ==
    ASSUME NEW g \in Frames, CallerOK(g), NEW n, NEW v, NEW fp, NEW R, NEW S, NEW F, NEW G,
           Stands(g, {n}, R, F), R \subseteq S, n \in S, g.phase \in Judging => G[g.node] = F[g.node]
    PROVE  Stands(Received(g, n, v, fp), {}, S, G)
<1>1. PICK f : f = Received(g, n, v, fp)
  OBVIOUS
<1>2. CASE g.phase = "run"
  <2>1. f.phase = "run" /\ f.deps = Recorded(g.deps, n, fp)
    BY <1>1, <1>2 DEF Received, Frames
  <2>2. DOMAIN f.deps = DOMAIN g.deps \cup {n}
    BY <2>1 DEF Recorded
  <2>3. DOMAIN f.deps \subseteq S
    BY <1>2, <2>2 DEF Stands, Judging
  <2>4. Stands(f, {}, S, G)
    BY <2>1, <2>3 DEF Stands, Judging
  <2> QED
    BY <1>1, <2>4
<1>3. CASE g.phase = "validate"
  <2>1. f = [g EXCEPT !.phase = "compare"]
    BY <1>1, <1>3 DEF Received
  <2>2. f.phase = "compare" /\ f.node = g.node /\ f.kept = g.kept /\ f.todo = g.todo
    BY <2>1 DEF Frames
  <2>3. NextDependency(f) = NextDependency(g)
    BY <2>2 DEF NextDependency
  <2>4. /\ G[g.node] \subseteq DOMAIN g.kept.deps /\ G[g.node] \subseteq g.todo \cup S
        /\ g.todo # {} /\ g.kept.deps[NextDependency(g)] # NoFingerprint
    BY <1>3 DEF Stands, Judging
  <2>5. Stands(f, {}, S, G)
    BY <2>2, <2>3, <2>4 DEF Stands, Judging
  <2> QED
    BY <1>1, <2>5
<1> QED
  BY <1>2, <1>3 DEF CallerOK

(* ... or with an error. *)
LEMMA RaisedStands ==
    ASSUME NEW g \in Frames, CallerOK(g), NEW A, NEW R, NEW S, NEW F, NEW G,
           Stands(g, A, R, F), g.phase \in Judging => G[g.node] = F[g.node]
    PROVE  Stands(RaisedFrame(g), {}, S, G)
<1>1. PICK f : f = RaisedFrame(g)
  OBVIOUS
<1>2. /\ f.phase = IF g.phase = "run" THEN "fail" ELSE "error"
      /\ f.node = g.node /\ f.kept = g.kept
  BY <1>1 DEF RaisedFrame, Frames
<1>3. g.phase = "validate" => G[g.node] \subseteq DOMAIN g.kept.deps
  BY DEF Stands, Judging
<1>4. Stands(f, {}, S, G)
  BY <1>2, <1>3 DEF Stands, Judging, CallerOK
<1> QED
  BY <1>1, <1>4

LEMMA CallerStands ==
    ASSUME FlightInv, StandInv, NEW t \in Threads, stack[t] # <<>>, NEW n \in Nodes, Settles(t, n),
           Len(stack[t]) > 1
    PROVE  /\ stack[t][2] \in Frames /\ CallerOK(stack[t][2])
           /\ Stands(stack[t][2], {Top(t).node}, ReadyNodes, forward)
           /\ stack[t][2].phase \in Judging => forward'[stack[t][2].node] = forward[stack[t][2].node]
<1>1. Typed /\ FramesOK
  BY DEF FlightInv
<1>2. Top(t) = stack[t][1] /\ Len(stack[t]) \in Nat
  BY <1>1, TopFrame
<1>3. 2 \in 1 .. Len(stack[t]) /\ 2 # 1 /\ 2 - 1 = 1
  BY <1>2
<1>4. Awaited(t, 2) = {Top(t).node}
  BY <1>2, <1>3 DEF Awaited
<1>5. Stands(stack[t][2], Awaited(t, 2), ReadyNodes, forward)
  BY <1>3 DEF StandInv, FramesStand
<1> QED
  BY <1>1, <1>3, <1>4, <1>5, CallerFrame, OthersJudge

(* A get returns a value that is Ready, or an error. *)
LEMMA StandGives ==
    ASSUME FlightInv, StandInv, NEW t \in Threads, stack[t] # <<>>, NEW n \in Nodes, Top(t).node = n,
           Settles(t, n), SettlesSlot(n), Mirrored', slot'[n].state = "Ready",
           NEW v \in Values, NEW fp \in Fingerprints,
           \/ stack' = [stack EXCEPT ![t] = Returned(t, v, fp)]
           \/ stack' = Notified([stack EXCEPT ![t] = Returned(t, v, fp)], n)
    PROVE  StandInv'
<1>0. Typed /\ FramesOK /\ FramesStand
  BY DEF FlightInv, StandInv
<1>1. PICK f : f = Received(Head(Tail(stack[t])), Top(t).node, v, fp)
  OBVIOUS
<1>2. Returned(t, v, fp) = Popped(t, f)
  BY <1>1 DEF Returned, Popped
<1>3. Len(stack[t]) > 1 => Resumed(Head(Tail(stack[t])), f) /\ Head(Tail(stack[t])) = stack[t][2]
  BY <1>0, <1>1, CallerFrame, TopFrame, ReceivedFrame
<1>4. PICK N : Resumes(t, f, N)
  BY <1>0, <1>2, <1>3, ResumesAny
<1>5. n \in ReadyNodes' /\ ReadyNodes \subseteq ReadyNodes'
  BY DEF ReadyNodes, Settles
<1>6. Len(stack[t]) > 1 => Stands(f, {}, ReadyNodes', forward')
  BY <1>1, <1>3, <1>5, CallerStands, ReceivedStands
<1>7. Returns(t, f, N) /\ (Len(stack[t]) > 1 => f.node = stack[t][2].node)
  BY <1>3, <1>4 DEF Resumes, Resumed
<1>8. FramesStand'
  BY <1>0, <1>6, <1>7, StandReturns
<1> QED
  BY <1>0, <1>8, StandSlots

LEMMA StandRaises ==
    ASSUME FlightInv, StandInv, NEW t \in Threads, stack[t] # <<>>, NEW n \in Nodes, Top(t).node = n,
           Settles(t, n), SettlesSlot(n), Mirrored',
           \/ stack' = [stack EXCEPT ![t] = Raised(t)]
           \/ stack' = Notified([stack EXCEPT ![t] = Raised(t)], n)
    PROVE  StandInv'
<1>0. Typed /\ FramesOK /\ FramesStand
  BY DEF FlightInv, StandInv
<1>1. PICK f : f = RaisedFrame(Head(Tail(stack[t])))
  OBVIOUS
<1>2. Raised(t) = Popped(t, f)
  BY <1>1 DEF Raised, Popped, RaisedFrame
<1>3. Len(stack[t]) > 1 => Resumed(Head(Tail(stack[t])), f) /\ Head(Tail(stack[t])) = stack[t][2]
  BY <1>0, <1>1, CallerFrame, RaisedFrames
<1>4. PICK N : Resumes(t, f, N)
  BY <1>0, <1>2, <1>3, ResumesAny
<1>6. Len(stack[t]) > 1 => Stands(f, {}, ReadyNodes', forward')
  BY <1>1, <1>3, CallerStands, RaisedStands
<1>7. Returns(t, f, N) /\ (Len(stack[t]) > 1 => f.node = stack[t][2].node)
  BY <1>3, <1>4 DEF Resumes, Resumed
<1>8. FramesStand'
  BY <1>0, <1>6, <1>7, StandReturns
<1> QED
  BY <1>0, <1>8, StandSlots
-----------------------------------------------------------------------------
(* The steps of a get where changes are confined to the barrier. *)

LEMMA StandLookupReady ==
    ASSUME FlightInv, StandInv, NEW t \in Threads, LookupReady(t)
    PROVE  StandInv'
<1>1. At(t, "lookup") /\ slot[Top(t).node].state = "Ready" /\ UNCHANGED <<slot, graph, task>>
  BY DEF LookupReady, Lookup
<1>2. PICK n, v, fp : n = Top(t).node /\ v = slot[n].payload.value /\ fp = slot[n].payload.fingerprint
  OBVIOUS
<1>3. stack[t] # <<>> /\ Typed /\ n \in Nodes /\ slot[n] \in Slots /\ SlotOK(slot[n])
  BY <1>1, <1>2, AtTop
<1>4. v \in Values /\ fp \in Fingerprints
  BY <1>1, <1>2, <1>3 DEF SlotOK, Slots, Payloads
<1>5. Settles(t, n) /\ SettlesSlot(n) /\ Mirrored'
  BY <1>1, <1>3, StandUntouched
<1>6. stack' = [stack EXCEPT ![t] = Returned(t, v, fp)] /\ slot'[n].state = "Ready"
  BY <1>1, <1>2 DEF LookupReady
<1> QED
  BY <1>2, <1>3, <1>4, <1>5, <1>6, StandGives

LEMMA StandLookupCycle ==
    ASSUME FlightInv, StandInv, NEW t \in Threads, LookupCycle(t)
    PROVE  StandInv'
<1>1. /\ At(t, "lookup") /\ stack' = [stack EXCEPT ![t] = Raised(t)]
      /\ UNCHANGED <<slot, graph, task>>
  BY DEF LookupCycle, Lookup
<1>2. PICK n : n = Top(t).node
  OBVIOUS
<1>3. stack[t] # <<>> /\ Typed /\ n \in Nodes
  BY <1>1, <1>2, AtTop
<1>4. Settles(t, n) /\ SettlesSlot(n) /\ Mirrored'
  BY <1>1, <1>3, StandUntouched
<1> QED
  BY <1>1, <1>2, <1>3, <1>4, StandRaises

(* A step that only changes the phase. *)
LEMMA StandMoves ==
    ASSUME FlightInv, StandInv, NEW t \in Threads, NEW p, At(t, p),
           NEW q \in Owning \cup {"lookup", "wait", "woken"}, Moves(p, q), stack' = InPhase(t, q),
           UNCHANGED <<slot, graph, task>>
    PROVE  StandInv'
<1>1. PICK n : n = Top(t).node
  OBVIOUS
<1>2. Typed /\ n \in Nodes /\ forward' = forward
  BY <1>1, AtTop DEF graph
<1>3. Settles(t, n) /\ SettlesSlot(n) /\ Mirrored'
  BY <1>2, StandUntouched
<1> QED
  BY <1>2, <1>3, StandPhase

LEMMA StandMoving ==
    ASSUME FlightInv, StandInv, NEW t \in Threads,
           \/ LookupBusy(t) \/ WakeUp(t) \/ ProviderRefused(t) \/ ProviderFails(t)
           \/ ValidateUnfingerprinted(t)
    PROVE  StandInv'
<1>1. /\ {"fail", "ice", "red", "error"} \subseteq Owning
      /\ Moves("lookup", "wait") /\ Moves("woken", "lookup") /\ Moves("run", "fail")
      /\ Moves("run", "ice") /\ Moves("validate", "red")
  BY DEF Owning, Moves, Judging
<1>2. CASE LookupBusy(t)
  <2>1. At(t, "lookup") /\ stack' = InPhase(t, "wait") /\ UNCHANGED <<slot, graph, task>>
    BY <1>2 DEF LookupBusy, Lookup
  <2> QED
    BY <1>1, <2>1, StandMoves
<1>3. CASE WakeUp(t)
  <2>1. At(t, "woken") /\ stack' = InPhase(t, "lookup") /\ UNCHANGED <<slot, graph, task>>
    BY <1>3 DEF WakeUp
  <2> QED
    BY <1>1, <2>1, StandMoves
<1>4. CASE ProviderRefused(t) \/ ProviderFails(t)
  <2>1. /\ At(t, "run") /\ (stack' = InPhase(t, "fail") \/ stack' = InPhase(t, "ice"))
        /\ UNCHANGED <<slot, graph, task>>
    BY <1>4 DEF ProviderRefused, ProviderFails
  <2> QED
    BY <1>1, <2>1, StandMoves
<1>5. CASE ValidateUnfingerprinted(t)
  <2>1. At(t, "validate") /\ stack' = InPhase(t, "red") /\ UNCHANGED <<slot, graph, task>>
    BY <1>5 DEF ValidateUnfingerprinted
  <2> QED
    BY <1>1, <2>1, StandMoves
<1> QED
  BY <1>2, <1>3, <1>4, <1>5

LEMMA StandLookupOutdated ==
    ASSUME FlightInv, StandInv, NEW t \in Threads, LookupOutdated(t)
    PROVE  StandInv'
<1>1. /\ At(t, "lookup") /\ slot[Top(t).node].state = "PotentiallyOutdated"
      /\ SetSlot(Top(t).node, Validating) /\ UNCHANGED <<graph, task>>
  BY DEF LookupOutdated, Lookup
<1>2. /\ stack[t] # <<>> /\ Typed /\ SlotsOK /\ Top(t).node \in Nodes /\ Top(t) \in Frames
      /\ slot[Top(t).node] \in Slots
  BY <1>1, AtTop
<1>3. PICK n, old, f :
        /\ n \in Nodes /\ n = Top(t).node /\ old = slot[n].payload
        /\ f = [Top(t) EXCEPT !.phase = "validate", !.kept = old, !.todo = DOMAIN old.deps]
  BY <1>2
<1>4. old \in Payloads /\ DOMAIN old.deps \in SUBSET Nodes
  BY <1>2, <1>3, EvidenceTyped DEF Slots, Payloads
<1>5. /\ f \in Frames /\ f.node = n /\ f.phase = "validate" /\ f.kept = old
      /\ f.todo = DOMAIN old.deps
  BY <1>2, <1>3, <1>4 DEF Frames, Owning
<1>6. stack' = WithTop(t, f)
  BY <1>3 DEF LookupOutdated
<1>7. Stays(t, f, {})
  BY <1>2, <1>5, <1>6, Staying
<1>8. forward' = forward /\ Mirrored'
  BY <1>1, <1>2, MirrorKept DEF graph, StandInv
<1>9. forward[n] \subseteq DOMAIN old.deps
  BY <1>1, <1>3 DEF StandInv, Evident, HasEvidence
<1>10. /\ Validating \in Slots /\ SlotOK(Validating) /\ Validating.state = "Validating"
       /\ ~Validating.invalidated
  BY SlotTyped, NoPayloadTyped DEF Validating, Slot
<1>11. Settles(t, n) /\ SettlesSlot(n)
  BY <1>1, <1>2, <1>3, <1>8, <1>10, StandSet DEF HasEvidence
<1>12. Stands(f, {}, ReadyNodes', forward')
  BY <1>5, <1>8, <1>9 DEF Stands, Judging
<1> QED
  BY <1>2, <1>3, <1>5, <1>7, <1>8, <1>11, <1>12, StandTop

LEMMA StandLookupEmpty ==
    ASSUME FlightInv, StandInv, NEW t \in Threads, LookupEmpty(t)
    PROVE  StandInv'
<1>1. /\ At(t, "lookup") /\ slot[Top(t).node].state = "Empty" /\ stack' = InPhase(t, "clear")
      /\ SetSlot(Top(t).node, Computing) /\ UNCHANGED <<graph, task>>
  BY DEF LookupEmpty, Lookup
<1>2. PICK n : n = Top(t).node
  OBVIOUS
<1>3. Typed /\ SlotsOK /\ n \in Nodes
  BY <1>1, <1>2, AtTop
<1>4. forward' = forward /\ Mirrored'
  BY <1>1, <1>3, MirrorKept DEF graph, StandInv
<1>5. /\ Computing \in Slots /\ SlotOK(Computing) /\ Computing.state = "Computing"
      /\ ~Computing.invalidated
  BY SlotTyped, NoPayloadTyped DEF Computing, Slot
<1>6. Settles(t, n) /\ SettlesSlot(n)
  BY <1>1, <1>2, <1>3, <1>4, <1>5, StandSet DEF HasEvidence
<1>7. "clear" \in Owning /\ Moves("lookup", "clear")
  BY DEF Owning, Moves, Judging
<1> QED
  BY <1>1, <1>3, <1>4, <1>6, <1>7, StandPhase

LEMMA StandStartProvider ==
    ASSUME FlightInv, StandInv, NEW t \in Threads, StartProvider(t)
    PROVE  StandInv'
<1>1. /\ At(t, "clear") /\ stack' = InPhase(t, "run") /\ remove_dependencies_from({Top(t).node})
      /\ UNCHANGED <<slot, task>>
  BY DEF StartProvider
<1>2. PICK n : n = Top(t).node
  OBVIOUS
<1>3. /\ Typed /\ n \in Nodes /\ stack[t] # <<>> /\ Top(t).phase = "clear" /\ Busy(n)
      /\ slot[n] \in Slots
  BY <1>1, <1>2, AtTop DEF Owning
<1>4. /\ forward'[n] = {} /\ \A m \in Nodes \ {n} : forward'[m] = forward[m]
      /\ Mirrored'
  BY <1>1, <1>2, <1>3, GraphTyped, MirrorKept DEF StandInv
<1>5. Len(stack[t]) > 0 /\ Owns(t, 1, n)
  BY <1>2, <1>3, TopFrame DEF Owns, Owning
<1>6. Settles(t, n)
  BY <1>1, <1>4, <1>5 DEF Settles, ReadyNodes
<1>7. SettlesSlot(n)
  BY <1>1, <1>3, <1>4 DEF SettlesSlot, StandInv, Calm
<1>8. "run" \in Owning /\ Moves("clear", "run") /\ "clear" \notin Judging
  BY DEF Owning, Moves, Judging
<1> QED
  BY <1>1, <1>3, <1>4, <1>6, <1>7, <1>8, StandPhase

LEMMA StandProviderReads ==
    ASSUME FlightInv, StandInv, NEW t \in Threads, ProviderReads(t)
    PROVE  StandInv'
<1>1. At(t, "run") /\ NextOf(Top(t)) # Done /\ UNCHANGED <<slot, graph, task>>
  BY DEF ProviderReads
<1>2. /\ stack[t] # <<>> /\ Top(t).phase = "run" /\ Top(t) \in Frames /\ Typed
      /\ Top(t).node \in Nodes
  BY <1>1, AtTop
<1>3. PICK n, d, deps, g :
        /\ n \in Nodes /\ n = Top(t).node /\ d = NextOf(Top(t))
        /\ deps = IF d \in DOMAIN Top(t).deps THEN Top(t).deps
                  ELSE Recorded(Top(t).deps, d, NoFingerprint)
        /\ g = [Top(t) EXCEPT !.deps = deps]
  BY <1>2
<1>4. d \in Nodes
  BY <1>1, <1>2, <1>3, CallerReads
<1>5. deps \in Reads
  <2>1. Top(t).deps \in Reads /\ NoFingerprint \in Fingerprints
    BY <1>2 DEF Frames, Fingerprints
  <2> QED
    BY <1>3, <1>4, <2>1, RecordedTyped
<1>6. g \in Frames /\ g.node = Top(t).node /\ g.phase = "run" /\ g.deps = deps
  BY <1>2, <1>3, <1>5 DEF Frames
<1>7. stack' = [stack EXCEPT ![t] = <<Frame(d), g>> \o Tail(stack[t])]
  BY <1>3 DEF ProviderReads
<1>8. Calls(t, g, Frame(d))
  BY <1>2, <1>4, <1>6, <1>7, FrameTyped, CallingOver
<1>9. DOMAIN deps \subseteq DOMAIN Top(t).deps \cup {d}
  BY <1>3 DEF Recorded
<1>10. DOMAIN Top(t).deps \subseteq ReadyNodes
  BY <1>2, TopStands DEF Stands, Judging
<1>11. Settles(t, n) /\ SettlesSlot(n) /\ Mirrored' /\ FramesStand
  BY <1>1, <1>2, <1>3, StandUntouched DEF StandInv
<1>12. Stands(g, {d}, ReadyNodes', forward')
  <2>1. DOMAIN g.deps \subseteq ReadyNodes' \cup {d}
    BY <1>6, <1>9, <1>10, <1>11 DEF Settles
  <2> QED
    BY <1>6, <2>1 DEF Stands, Judging
<1>13. FramesStand'
  BY <1>2, <1>3, <1>4, <1>6, <1>8, <1>11, <1>12, TopFrame, StandCalls
<1> QED
  BY <1>2, <1>3, <1>11, <1>13, StandSlots

LEMMA StandRequest ==
    ASSUME FlightInv, StandInv, NEW t \in Threads, NEW n \in Nodes, Request(t, n)
    PROVE  StandInv'
<1>1. stack[t] = <<>> /\ stack' = [stack EXCEPT ![t] = <<Frame(n)>>] /\ UNCHANGED <<slot, graph, task>>
  BY DEF Request
<1>2. Typed /\ Len(stack[t]) = 0 /\ FramesStand
  BY <1>1 DEF FlightInv, StandInv
<1>3. Calls(t, Frame(n), Frame(n))
  BY <1>1, <1>2, FrameTyped, CallingFirst
<1>4. Settles(t, n) /\ SettlesSlot(n) /\ Mirrored'
  BY <1>1, <1>2, StandUntouched
<1>5. ~(Len(stack[t]) > 0)
  BY <1>2
<1>6. FramesStand'
  BY <1>2, <1>3, <1>4, <1>5, StandCalls
<1> QED
  BY <1>2, <1>4, <1>6, StandSlots

LEMMA StandProviderReturns ==
    ASSUME FlightInv, StandInv, NEW t \in Threads, ProviderReturns(t)
    PROVE  StandInv'
<1> DEFINE v == Provide(Top(t).node, Context(Top(t).node), Top(t).reads)
<1>1. /\ At(t, "run") /\ UNCHANGED <<slot, graph, task>>
      /\ stack' = WithTop(t, [Top(t) EXCEPT !.phase = "publish", !.kept.value = v])
      /\ NextOf(Top(t)) = Done
  BY DEF ProviderReturns
<1>2. /\ stack[t] # <<>> /\ Top(t).phase = "run" /\ Top(t) \in Frames /\ Typed
      /\ Top(t).node \in Nodes
  BY <1>1, AtTop
<1>3. v \in Values
  <2>1. Context(Top(t).node) \in IF Top(t).node \in Inputs THEN Values ELSE {0}
    BY <1>2 DEF Context, Typed
  <2>2. Top(t).reads \in ReadValues /\ NextRead(Top(t).node, Top(t).reads) = Done
    BY <1>1, <1>2 DEF Frames, NextOf
  <2> QED
    BY <1>2, <2>1, <2>2, ProvidersAssumption
<1>4. PICK n, value, f :
        /\ n = Top(t).node /\ value = v
        /\ f = [Top(t) EXCEPT !.phase = "publish", !.kept.value = value]
  OBVIOUS
<1>5. [Top(t).kept EXCEPT !.value = value] \in Payloads /\ Top(t).kept \in Payloads
  BY <1>2, <1>3, <1>4 DEF Frames, Payloads
<1>6. f \in Frames /\ f.node = n /\ f.phase = "publish" /\ f.deps = Top(t).deps
  <2> HIDE DEF v
  <2> QED
    BY <1>2, <1>4, <1>5 DEF Frames, Owning, Payloads
<1>7. Stays(t, f, {})
  BY <1>1, <1>2, <1>4, <1>6, Staying
<1>8. Settles(t, n) /\ SettlesSlot(n) /\ Mirrored'
  BY <1>1, <1>2, <1>4, StandUntouched
<1>9. DOMAIN f.deps \subseteq ReadyNodes'
  BY <1>2, <1>6, <1>8, TopStands DEF Stands, Judging, Settles
<1>10. Stands(f, {}, ReadyNodes', forward')
  BY <1>6, <1>9 DEF Stands, Judging
<1> QED
  BY <1>2, <1>4, <1>6, <1>7, <1>8, <1>10, StandTop
(* A frame at work owns its slot, and nobody has flagged it. *)
LEMMA StandOwner ==
    ASSUME FlightInv, StandInv, NEW t \in Threads, NEW p \in Owning, At(t, p)
    PROVE  /\ Len(stack[t]) > 0 /\ Owns(t, 1, Top(t).node)
           /\ slot[Top(t).node].state # "Ready" /\ ~slot[Top(t).node].invalidated
<1>1. /\ stack[t] # <<>> /\ Typed /\ Top(t).node \in Nodes /\ Top(t).phase = p /\ Busy(Top(t).node)
  BY AtTop
<1>2. Len(stack[t]) > 0 /\ Owns(t, 1, Top(t).node)
  BY <1>1, TopFrame DEF Owns
<1> QED
  BY <1>1, <1>2 DEF StandInv, Calm, Busy

LEMMA StandPublish ==
    ASSUME FlightInv, StandInv, NEW t \in Threads, Publish(t)
    PROVE  StandInv'
<1>1. PICK n, f, fp, deps, p, s :
        /\ f = Top(t) /\ n = f.node /\ fp = FingerprintOf(f)
        /\ deps = IF Policy[n] = "None" THEN NoFingerprints ELSE f.deps
        /\ p = Payload(f.kept.value, fp, deps) /\ s = Ready(p)
  OBVIOUS
<1>2. /\ At(t, "publish") /\ SetSlot(n, s) /\ replace_dependencies_from(n, DOMAIN f.deps)
      /\ stack' = Notified([stack EXCEPT ![t] = Returned(t, f.kept.value, fp)], n)
      /\ UNCHANGED task
  BY <1>1 DEF Publish
<1>3. /\ stack[t] # <<>> /\ f.phase = "publish" /\ f \in Frames /\ Typed /\ SlotsOK /\ n \in Nodes
      /\ FrameOK(f)
  BY <1>1, <1>2, AtTop
<1>4. f.kept.value \in Values /\ f.deps \in Reads
  BY <1>3 DEF FrameOK, Frames
<1>5. fp \in Fingerprints
  BY <1>1, <1>3, <1>4, RevisionTyped
<1>6. deps \in Evidence /\ DOMAIN f.deps \in SUBSET Nodes
  BY <1>1, <1>4, EvidenceTyped, NoPayloadTyped
<1>7. p \in Payloads /\ p.value = f.kept.value /\ p.fingerprint = fp /\ p.deps = deps
  BY <1>1, <1>4, <1>5, <1>6 DEF Payload, Payloads
<1>8. s \in Slots /\ SlotOK(s) /\ s.state = "Ready" /\ s.payload = p /\ ~s.invalidated
  BY <1>1, <1>4, <1>7, SlotTyped DEF Ready, Slot
<1>9. /\ \A m \in Nodes \ {n} : forward'[m] = forward[m]
      /\ Mirrored' /\ forward'[n] = DOMAIN f.deps
  BY <1>2, <1>3, <1>6, GraphTyped, MirrorKept DEF StandInv
<1>10. DOMAIN f.deps \subseteq ReadyNodes
  BY <1>1, <1>3, TopStands DEF Stands, Judging
<1>11. HasEvidence(s) => DOMAIN f.deps \subseteq DOMAIN s.payload.deps
  BY <1>1, <1>7, <1>8 DEF HasEvidence, FingerprintOf
<1>12. Len(stack[t]) > 0 /\ Owns(t, 1, n) /\ slot[n].state # "Ready"
  BY <1>1, <1>2, StandOwner DEF Owning
<1>13. Settles(t, n) /\ SettlesSlot(n) /\ slot'[n] = s
  BY <1>2, <1>3, <1>8, <1>9, <1>10, <1>11, <1>12, StandSet
<1> QED
  BY <1>1, <1>2, <1>3, <1>4, <1>5, <1>8, <1>9, <1>13, StandGives

LEMMA StandDiscardResult ==
    ASSUME FlightInv, StandInv, NEW t \in Threads, DiscardResult(t)
    PROVE  StandInv'
<1>1. At(t, "publish") /\ slot[Top(t).node].invalidated
  BY DEF DiscardResult
<1> QED
  BY <1>1, StandOwner DEF Owning

(* A get that fails empties its slot. *)
LEMMA StandFail ==
    ASSUME FlightInv, StandInv, NEW t \in Threads, Fail(t)
    PROVE  StandInv'
<1>1. PICK n : n = Top(t).node
  OBVIOUS
<1>2. /\ At(t, "fail") \/ At(t, "ice")
      /\ SetSlot(n, Empty) /\ remove_dependencies_from({n})
      /\ stack' = Notified([stack EXCEPT ![t] = Raised(t)], n) /\ UNCHANGED task
  BY <1>1 DEF Fail
<1>3. stack[t] # <<>> /\ Typed /\ SlotsOK /\ n \in Nodes
  BY <1>1, <1>2, AtTop
<1>4. forward'[n] = {} /\ (\A m \in Nodes \ {n} : forward'[m] = forward[m]) /\ Mirrored'
  BY <1>2, <1>3, GraphTyped, MirrorKept DEF StandInv
<1>5. Empty \in Slots /\ SlotOK(Empty) /\ Empty.state = "Empty" /\ ~Empty.invalidated
  BY SlotTyped, NoPayloadTyped DEF Empty, Slot
<1>6. Len(stack[t]) > 0 /\ Owns(t, 1, n) /\ slot[n].state # "Ready"
  BY <1>1, <1>2, StandOwner DEF Owning
<1>7. Settles(t, n) /\ SettlesSlot(n)
  BY <1>2, <1>3, <1>4, <1>5, <1>6, StandSet
<1> QED
  BY <1>1, <1>2, <1>3, <1>4, <1>7, StandRaises

LEMMA StandValidateEnsures ==
    ASSUME FlightInv, StandInv, NEW t \in Threads, ValidateEnsures(t)
    PROVE  StandInv'
<1>1. /\ At(t, "validate") /\ Top(t).todo # {}
      /\ Top(t).kept.deps[NextDependency(Top(t))] # NoFingerprint
      /\ \/ stack' = InPhase(t, "error")
         \/ stack' = [stack EXCEPT ![t] = <<Frame(NextDependency(Top(t)))>> \o stack[t]]
      /\ UNCHANGED <<slot, graph, task>>
  BY DEF ValidateEnsures
<1>2. /\ stack[t] # <<>> /\ Top(t).phase = "validate" /\ Top(t) \in Frames /\ Typed
      /\ Top(t).node \in Nodes
  BY <1>1, AtTop
<1>3. CASE stack' = InPhase(t, "error")
  <2>1. "error" \in Owning /\ Moves("validate", "error")
    BY DEF Owning, Moves, Judging
  <2> QED
    BY <1>1, <1>3, <2>1, StandMoves
<1>4. CASE stack' = [stack EXCEPT ![t] = <<Frame(NextDependency(Top(t)))>> \o stack[t]]
  <2>1. PICK n, d, g : n = Top(t).node /\ d = NextDependency(Top(t)) /\ g = Top(t)
    OBVIOUS
  <2>2. n \in Nodes /\ d \in Nodes
    BY <1>1, <1>2, <2>1, NextDependencyTaken
  <2>3. Calls(t, g, Frame(d))
    BY <1>2, <1>4, <2>1, <2>2, FrameTyped, CallingTop
  <2>4. Settles(t, n) /\ SettlesSlot(n) /\ Mirrored' /\ FramesStand
    BY <1>1, <1>2, <2>2, StandUntouched DEF StandInv
  <2>5. Stands(g, {}, ReadyNodes, forward) /\ ReadyNodes' = ReadyNodes /\ forward' = forward
    BY <1>1, <1>2, <2>1, TopStands DEF ReadyNodes, graph
  <2>6. Stands(g, {d}, ReadyNodes', forward')
    BY <1>1, <1>2, <2>1, <2>5 DEF Stands, Judging
  <2>7. FramesStand'
    BY <1>2, <2>1, <2>2, <2>3, <2>4, <2>6, TopFrame, StandCalls
  <2> QED
    BY <1>2, <2>2, <2>4, <2>7, StandSlots
<1> QED
  BY <1>1, <1>3, <1>4

(* A dependency that has the fingerprint it had is Ready. *)
LEMMA StandCompare ==
    ASSUME FlightInv, StandInv, NEW t \in Threads, Compare(t)
    PROVE  StandInv'
<1>0. PICK n, d, f :
        /\ n = Top(t).node /\ d = NextDependency(Top(t))
        /\ f = [Top(t) EXCEPT !.phase = "validate", !.todo = @ \ {d}]
  OBVIOUS
<1>1. /\ At(t, "compare") /\ UNCHANGED <<slot, graph, task>>
      /\ \/ stack' = InPhase(t, "red")
         \/ CurrentFingerprint(d) = Top(t).kept.deps[d] /\ stack' = WithTop(t, f)
  BY <1>0 DEF Compare
<1>2. stack[t] # <<>> /\ Top(t).phase = "compare" /\ Top(t) \in Frames /\ Typed /\ n \in Nodes
  BY <1>0, <1>1, AtTop
<1>3. CASE stack' = InPhase(t, "red")
  <2>1. "red" \in Owning /\ Moves("compare", "red")
    BY DEF Owning, Moves, Judging
  <2> QED
    BY <1>1, <1>3, <2>1, StandMoves
<1>4. CASE CurrentFingerprint(d) = Top(t).kept.deps[d] /\ stack' = WithTop(t, f)
  <2>1. Top(t).todo \ {d} \in SUBSET Nodes
    BY <1>2 DEF Frames
  <2>2. /\ f \in Frames /\ f.node = n /\ f.phase = "validate" /\ f.kept = Top(t).kept
        /\ f.todo = Top(t).todo \ {d}
    BY <1>0, <1>2, <2>1 DEF Frames, Owning
  <2>3. Stays(t, f, {})
    BY <1>2, <1>4, <2>2, Staying
  <2>4. Stands(Top(t), {}, ReadyNodes, forward)
    BY <1>2, TopStands
  <2>5. /\ forward[n] \subseteq DOMAIN Top(t).kept.deps /\ forward[n] \subseteq Top(t).todo \cup ReadyNodes
        /\ Top(t).todo # {} /\ Top(t).kept.deps[d] # NoFingerprint
    BY <1>0, <1>2, <2>4 DEF Stands, Judging
  <2>6. d \in ReadyNodes
    <3>1. d \in Nodes
      BY <1>0, <1>2, <2>5, NextDependencyTaken
    <3> QED
      BY <1>4, <2>5, <3>1 DEF CurrentFingerprint, ReadyNodes
  <2>7. ReadyNodes' = ReadyNodes /\ forward' = forward
    BY <1>1 DEF ReadyNodes, graph
  <2>8. forward'[n] \subseteq f.todo \cup ReadyNodes'
    BY <2>2, <2>5, <2>6, <2>7
  <2>9. Stands(f, {}, ReadyNodes', forward')
    BY <2>2, <2>5, <2>7, <2>8 DEF Stands, Judging
  <2>10. Settles(t, n) /\ SettlesSlot(n) /\ Mirrored'
    BY <1>1, <1>2, StandUntouched
  <2> QED
    BY <1>0, <1>2, <2>2, <2>3, <2>9, <2>10, StandTop
<1> QED
  BY <1>1, <1>3, <1>4

LEMMA StandSettleGreen ==
    ASSUME FlightInv, StandInv, NEW t \in Threads, SettleGreen(t)
    PROVE  StandInv'
<1>1. PICK n, f, s : f = Top(t) /\ n = f.node /\ s = Ready(f.kept)
  OBVIOUS
<1>2. /\ At(t, "validate") /\ f.todo = {} /\ SetSlot(n, s)
      /\ stack' = Notified([stack EXCEPT ![t] = Returned(t, f.kept.value, f.kept.fingerprint)], n)
      /\ UNCHANGED <<graph, task>>
  BY <1>1 DEF SettleGreen
<1>3. /\ stack[t] # <<>> /\ f.phase = "validate" /\ f \in Frames /\ Typed /\ SlotsOK /\ n \in Nodes
      /\ FrameOK(f)
  BY <1>1, <1>2, AtTop
<1>4. f.kept \in Payloads /\ f.kept.value \in Values /\ f.kept.fingerprint \in Fingerprints
  BY <1>3 DEF FrameOK, Frames, Payloads, Judging
<1>5. s \in Slots /\ SlotOK(s) /\ s.state = "Ready" /\ s.payload = f.kept /\ ~s.invalidated
  BY <1>1, <1>4, SlotTyped DEF Ready, Slot
<1>6. forward' = forward /\ Mirrored'
  BY <1>2, <1>3, MirrorKept DEF graph, StandInv
<1>7. forward[n] \subseteq DOMAIN f.kept.deps /\ forward[n] \subseteq ReadyNodes
  BY <1>1, <1>2, <1>3, TopStands DEF Stands, Judging
<1>8. Len(stack[t]) > 0 /\ Owns(t, 1, n) /\ slot[n].state # "Ready"
  BY <1>1, <1>2, StandOwner DEF Owning
<1>9. Settles(t, n) /\ SettlesSlot(n) /\ slot'[n] = s
  BY <1>2, <1>3, <1>5, <1>6, <1>7, <1>8, StandSet
<1> QED
  BY <1>1, <1>2, <1>3, <1>4, <1>5, <1>6, <1>9, StandGives

LEMMA StandSettleError ==
    ASSUME FlightInv, StandInv, NEW t \in Threads, SettleError(t)
    PROVE  StandInv'
<1>1. PICK n, f, s : f = Top(t) /\ n = f.node /\ s = PotentiallyOutdated(f.kept)
  OBVIOUS
<1>2. At(t, "error")
  BY DEF SettleError
<1>3. Len(stack[t]) > 0 /\ Owns(t, 1, n) /\ slot[n].state # "Ready" /\ ~slot[n].invalidated
  BY <1>1, <1>2, StandOwner DEF Owning
<1>4. /\ SetSlot(n, s) /\ UNCHANGED <<graph, task>>
      /\ stack' = Notified([stack EXCEPT ![t] = Raised(t)], n)
  BY <1>1, <1>3 DEF SettleError, graph
<1>5. /\ stack[t] # <<>> /\ f.phase = "error" /\ f \in Frames /\ Typed /\ SlotsOK /\ n \in Nodes
      /\ FrameOK(f)
  BY <1>1, <1>2, AtTop
<1>6. f.kept \in Payloads /\ f.kept.value \in Values /\ f.kept.fingerprint # NoFingerprint
  BY <1>5 DEF FrameOK, Frames, Judging
<1>7. s \in Slots /\ SlotOK(s) /\ s.state = "PotentiallyOutdated" /\ s.payload = f.kept /\ ~s.invalidated
  BY <1>1, <1>6, SlotTyped DEF PotentiallyOutdated, Slot
<1>8. forward' = forward /\ Mirrored'
  BY <1>4, <1>5, MirrorKept DEF graph, StandInv
<1>9. forward[n] \subseteq DOMAIN f.kept.deps
  BY <1>1, <1>5, TopStands DEF Stands, Judging
<1>10. Settles(t, n) /\ SettlesSlot(n)
  BY <1>3, <1>4, <1>5, <1>7, <1>8, <1>9, StandSet
<1> QED
  BY <1>1, <1>4, <1>5, <1>8, <1>10, StandRaises

LEMMA StandSettleRed ==
    ASSUME FlightInv, StandInv, NEW t \in Threads, SettleRed(t)
    PROVE  StandInv'
<1>1. PICK n, e, f :
        /\ n = Top(t).node /\ e = [Top(t).kept EXCEPT !.deps = NoFingerprints]
        /\ f = [Frame(n) EXCEPT !.stale = e]
  OBVIOUS
<1>2. /\ At(t, "red") \/ At(t, "validate")
      /\ SetSlot(n, Empty) /\ stack' = Notified(WithTop(t, f), n) /\ UNCHANGED <<graph, task>>
  BY <1>1 DEF SettleRed
<1>3. stack[t] # <<>> /\ Top(t) \in Frames /\ Typed /\ SlotsOK /\ n \in Nodes
  BY <1>1, <1>2, AtTop
<1>4. e \in Payloads
  BY <1>1, <1>3, NoPayloadTyped DEF Frames, Payloads
<1>5. f \in Frames /\ f.node = n /\ f.phase = "lookup" /\ f.deps = NoFingerprints
  BY <1>1, <1>3, <1>4, FrameTyped DEF Frames, Frame
<1>6. Stays(t, f, {n})
  BY <1>2, <1>3, <1>5, StayingNotified
<1>7. Empty \in Slots /\ SlotOK(Empty) /\ Empty.state = "Empty" /\ ~Empty.invalidated
  BY SlotTyped, NoPayloadTyped DEF Empty, Slot
<1>8. forward' = forward /\ Mirrored'
  BY <1>2, <1>3, MirrorKept DEF graph, StandInv
<1>9. slot[n].state # "Ready"
  BY <1>1, <1>2, StandOwner DEF Owning
<1>10. Settles(t, n) /\ SettlesSlot(n)
  BY <1>2, <1>3, <1>7, <1>8, <1>9, StandSet DEF HasEvidence
<1>11. Stands(f, {}, ReadyNodes', forward')
  <2>1. DOMAIN f.deps = {}
    BY <1>5 DEF NoFingerprints
  <2> QED
    BY <1>5, <2>1 DEF Stands, Judging
<1> QED
  BY <1>1, <1>3, <1>5, <1>6, <1>8, <1>10, <1>11, StandTop

-----------------------------------------------------------------------------
(* Changes under the barrier. *)

(* What reads an affected node is affected. *)
LEMMA DependentsClosed ==
    ASSUME Typed, NEW n \in Nodes
    PROVE  /\ n \in collect_dependents(n)
           /\ \A d \in collect_dependents(n) : reverse[d] \subseteq collect_dependents(n)
<1>1. reverse \in [Nodes -> SUBSET Nodes]
  BY DEF Typed
<1> QED
  BY <1>1 DEF collect_dependents

(* A Ready value that is left alone stands on values that are. *)
LEMMA UnaffectedStand ==
    ASSUME Typed, StandInv, NEW n \in Nodes, NEW m \in Nodes, m \notin collect_dependents(n),
           slot[m].state = "Ready", NEW d \in forward[m]
    PROVE  d \in Nodes /\ d \notin collect_dependents(n) /\ slot[d].state = "Ready"
<1>1. d \in Nodes
  BY DEF Typed
<1>2. m \in reverse[d] /\ slot[d].state = "Ready"
  BY <1>1 DEF StandInv, Mirrored, ReadyStandsOnReady
<1> QED
  BY <1>1, <1>2, DependentsClosed

(* Nobody is in a query. *)
LEMMA EmptyStand ==
    ASSUME \A t \in Threads : stack[t] = <<>>, UNCHANGED stack
    PROVE  FramesStand'
<1>1. \A t \in Threads : Len(stack'[t]) = 0
  OBVIOUS
<1> QED
  BY <1>1 DEF FramesStand

LEMMA StandChangeDuringRetirement ==
    ASSUME FlightInv, TrackInv, StandInv, NEW n \in Inputs, NEW v \in Values,
           ChangeDuringRetirement(n, v)
    PROVE  StandInv'
<1>0. Typed /\ SlotsOK /\ n \in Nodes
  BY InputsAssumption DEF FlightInv
<1>1. PICK A, S : A = collect_dependents(n) /\ S = {n} \cup {m \in A : ~HasEvidence(slot[m])}
  OBVIOUS
<1>2. /\ \A t \in Threads : stack[t] = <<>> /\ task[t] = NoTask
      /\ slot' = [m \in Nodes |-> IF m = n THEN Invalidated(slot[m])
                                  ELSE IF m \in A THEN Marked(slot[m]) ELSE slot[m]]
      /\ remove_dependencies_from(S)
      /\ UNCHANGED <<stack, task>>
  BY <1>1 DEF ChangeDuringRetirement
<1>3. \A m \in Nodes : ~Busy(m)
  BY <1>2, AtRest
<1>4. (\A m \in Nodes : forward'[m] = IF m \in S THEN {} ELSE forward[m]) /\ Mirrored'
  BY <1>0, <1>2, GraphTyped, MirrorKept DEF StandInv
<1>5. slot'[n] = Empty /\ Empty.state = "Empty" /\ ~Empty.invalidated
  <2>1. slot'[n] = Invalidated(slot[n]) /\ Invalidated(slot[n]) = Empty
    BY <1>0, <1>2, <1>3 DEF Invalidated, Busy
  <2> QED
    BY <2>1, SlotTyped, NoPayloadTyped DEF Empty, Slot
<1>6. ASSUME NEW m \in Nodes, m # n, m \in A
      PROVE  /\ slot'[m].state # "Ready" /\ ~slot'[m].invalidated
             /\ HasEvidence(slot'[m]) => m \notin S /\ HasEvidence(slot[m]) /\ slot'[m].payload = slot[m].payload
  <2>1. slot[m] \in Slots /\ slot'[m] = Marked(slot[m])
    BY <1>0, <1>2, <1>6 DEF Typed
  <2>2. CASE HasEvidence(slot[m])
    <3>1. slot'[m] = PotentiallyOutdated(slot[m].payload)
      BY <2>1, <2>2 DEF Marked
    <3>2. /\ slot'[m].state = "PotentiallyOutdated" /\ ~slot'[m].invalidated
          /\ slot'[m].payload = slot[m].payload
      BY <3>1 DEF PotentiallyOutdated, Slot
    <3> QED
      BY <1>1, <1>6, <2>2, <3>2
  <2>3. CASE ~HasEvidence(slot[m])
    <3>1. slot'[m] = Empty
      BY <1>3, <2>1, <2>3 DEF Marked, Invalidated, Busy
    <3> QED
      BY <1>5, <3>1 DEF HasEvidence
  <2> QED
    BY <2>2, <2>3
<1>7. \A m \in Nodes : m \notin A => m # n /\ m \notin S /\ slot'[m] = slot[m]
  BY <1>0, <1>1, <1>2, DependentsClosed
<1>8. Calm'
  <2>1. \A m \in Nodes : ~slot'[m].invalidated
    BY <1>5, <1>6, <1>7 DEF StandInv, Calm
  <2> QED
    BY <1>2, <2>1 DEF Calm
<1>9. ASSUME NEW m \in Nodes, slot'[m].state = "Ready", NEW d \in forward'[m]
      PROVE  slot'[d].state = "Ready"
  <2>1. m \notin A
    BY <1>5, <1>6, <1>9
  <2>2. slot[m].state = "Ready" /\ d \in forward[m]
    BY <1>4, <1>7, <1>9, <2>1
  <2>3. d \in Nodes /\ d \notin A /\ slot[d].state = "Ready"
    BY <1>0, <1>1, <2>1, <2>2, UnaffectedStand
  <2> QED
    BY <1>7, <2>3
<1>10. ASSUME NEW m \in Nodes, HasEvidence(slot'[m])
       PROVE  forward'[m] \subseteq DOMAIN slot'[m].payload.deps
  <2>1. m # n
    BY <1>5, <1>10 DEF HasEvidence
  <2>2. m \notin S /\ HasEvidence(slot[m]) /\ slot'[m].payload = slot[m].payload
    BY <1>6, <1>7, <1>10, <2>1
  <2> QED
    BY <1>4, <2>2 DEF StandInv, Evident
<1>11. FramesStand'
  BY <1>2, EmptyStand
<1> QED
  BY <1>4, <1>8, <1>9, <1>10, <1>11 DEF StandInv, ReadyStandsOnReady, Evident
(* Evidence about a retired node stays, as evidence of an error. *)
LEMMA ForgottenEvidence ==
    ASSUME NEW s \in Slots, SlotOK(s), NEW n \in Nodes
    PROVE  /\ Forgotten(s, n).state = s.state /\ Forgotten(s, n).invalidated = s.invalidated
           /\ HasEvidence(Forgotten(s, n)) => HasEvidence(s)
           /\ DOMAIN Forgotten(s, n).payload.deps = DOMAIN s.payload.deps
<1>0. /\ Forgotten(s, n).state = s.state
      /\ Forgotten(s, n).payload.fingerprint = s.payload.fingerprint
  BY ForgottenSlot
<1>1. CASE n \in DOMAIN s.payload.deps /\ s.payload.deps[n] # NoFingerprint
  <2>1. s.payload \in Payloads
    BY DEF Slots
  <2>2. PICK e, p :
          e = [s.payload.deps EXCEPT ![n] = RetiredNode] /\ p = [s.payload EXCEPT !.deps = e]
    OBVIOUS
  <2>3. Forgotten(s, n) = [s EXCEPT !.payload = p]
    BY <1>1, <2>1, <2>2 DEF Forgotten, Slots, Payloads
  <2>4. p.deps = e /\ DOMAIN e = DOMAIN s.payload.deps
    BY <2>1, <2>2 DEF Payloads
  <2>5. Forgotten(s, n).payload = p /\ Forgotten(s, n).invalidated = s.invalidated
    BY <2>3 DEF Slots
  <2> QED
    BY <1>0, <2>4, <2>5 DEF HasEvidence
<1>2. CASE ~(n \in DOMAIN s.payload.deps /\ s.payload.deps[n] # NoFingerprint)
  BY <1>2 DEF Forgotten
<1> QED
  BY <1>1, <1>2

LEMMA MirrorRetire ==
    ASSUME Typed, Mirrored, NEW n \in Nodes, Retire(n)
    PROVE  Mirrored'
<1>1. forward \in [Nodes -> SUBSET Nodes] /\ reverse \in [Nodes -> SUBSET Nodes]
  BY DEF Typed
<1>2. PICK S : S = {n} \cup {m \in collect_dependents(n) : ~HasEvidence(slot[m])}
  OBVIOUS
<1>3. /\ forward' = [m \in Nodes |-> RemovedForward(S)[m] \ {n}]
      /\ reverse' = [RemovedReverse(S) EXCEPT ![n] = {}]
  BY <1>2 DEF Retire
<1>4. /\ \A m \in Nodes : forward'[m] = IF m \in S THEN {} ELSE forward[m] \ {n}
      /\ \A m \in Nodes : reverse'[m] = IF m = n THEN {} ELSE reverse[m] \ S
  BY <1>1, <1>3 DEF RemovedForward, RemovedReverse
<1>5. ASSUME NEW m \in Nodes, NEW d \in Nodes
      PROVE  d \in forward'[m] <=> m \in reverse'[d]
  <2>1. d \in forward[m] <=> m \in reverse[d]
    BY DEF Mirrored
  <2>2. d \in forward'[m] <=> m \notin S /\ d \in forward[m] /\ d # n
    BY <1>4
  <2>3. m \in reverse'[d] <=> d # n /\ m \in reverse[d] /\ m \notin S
    BY <1>4
  <2> QED
    BY <2>1, <2>2, <2>3
<1> QED
  BY <1>5 DEF Mirrored

LEMMA StandRetire ==
    ASSUME FlightInv, TrackInv, StandInv, NEW n \in Nodes, Retire(n)
    PROVE  StandInv'
<1>0. Typed /\ SlotsOK /\ forward \in [Nodes -> SUBSET Nodes]
  BY DEF FlightInv, Typed
<1>1. PICK A, S : A = collect_dependents(n) /\ S = {n} \cup {m \in A : ~HasEvidence(slot[m])}
  OBVIOUS
<1>2. /\ \A t \in Threads : stack[t] = <<>> /\ task[t] = NoTask
      /\ slot' = [m \in Nodes |-> IF m = n THEN Empty
                                  ELSE IF m \in A THEN Forgotten(Marked(slot[m]), n) ELSE slot[m]]
      /\ forward' = [m \in Nodes |-> RemovedForward(S)[m] \ {n}]
      /\ UNCHANGED <<stack, task>>
  BY <1>1 DEF Retire
<1>3. \A m \in Nodes : ~Busy(m)
  BY <1>2, AtRest
<1>4. \A m \in Nodes : forward'[m] = IF m \in S THEN {} ELSE forward[m] \ {n}
  BY <1>0, <1>2 DEF RemovedForward
<1>5. Mirrored'
  BY <1>0, MirrorRetire DEF StandInv
<1>6. slot'[n] = Empty /\ Empty.state = "Empty" /\ ~Empty.invalidated
  BY <1>2, SlotTyped, NoPayloadTyped DEF Empty, Slot
<1>7. ASSUME NEW m \in Nodes, m # n, m \in A
      PROVE  /\ slot'[m].state # "Ready" /\ ~slot'[m].invalidated
             /\ HasEvidence(slot'[m]) =>
                    /\ m \notin S /\ HasEvidence(slot[m])
                    /\ DOMAIN slot'[m].payload.deps = DOMAIN slot[m].payload.deps
  <2>1. /\ slot[m] \in Slots /\ SlotOK(slot[m]) /\ slot'[m] = Forgotten(Marked(slot[m]), n)
        /\ Marked(slot[m]) \in Slots /\ SlotOK(Marked(slot[m]))
    BY <1>0, <1>2, <1>7, InvalidatedSlot DEF Typed, SlotsOK
  <2>2. PICK s : s = Marked(slot[m])
    OBVIOUS
  <2>3. /\ slot'[m].state = s.state /\ slot'[m].invalidated = s.invalidated
        /\ HasEvidence(slot'[m]) => HasEvidence(s)
        /\ DOMAIN slot'[m].payload.deps = DOMAIN s.payload.deps
    BY <2>1, <2>2, ForgottenEvidence
  <2>4. CASE HasEvidence(slot[m])
    <3>1. s = PotentiallyOutdated(slot[m].payload)
      BY <2>2, <2>4 DEF Marked
    <3>2. s.state = "PotentiallyOutdated" /\ ~s.invalidated /\ s.payload = slot[m].payload
      BY <3>1 DEF PotentiallyOutdated, Slot
    <3> QED
      BY <1>1, <1>7, <2>3, <2>4, <3>2
  <2>5. CASE ~HasEvidence(slot[m])
    <3>1. s = Empty
      BY <1>3, <2>2, <2>5 DEF Marked, Invalidated, Busy
    <3> QED
      BY <1>6, <2>3, <3>1 DEF HasEvidence
  <2> QED
    BY <2>4, <2>5
<1>8. \A m \in Nodes : m \notin A => m # n /\ m \notin S /\ slot'[m] = slot[m]
  BY <1>0, <1>1, <1>2, DependentsClosed
<1>9. Calm'
  <2>1. \A m \in Nodes : ~slot'[m].invalidated
    BY <1>6, <1>7, <1>8 DEF StandInv, Calm
  <2> QED
    BY <1>2, <2>1 DEF Calm
<1>10. ASSUME NEW m \in Nodes, slot'[m].state = "Ready", NEW d \in forward'[m]
       PROVE  slot'[d].state = "Ready"
  <2>1. m \notin A
    BY <1>6, <1>7, <1>10
  <2>2. slot[m].state = "Ready" /\ d \in forward[m]
    BY <1>4, <1>8, <1>10, <2>1
  <2>3. d \in Nodes /\ d \notin A /\ slot[d].state = "Ready"
    BY <1>0, <1>1, <2>1, <2>2, UnaffectedStand
  <2> QED
    BY <1>8, <2>3
<1>11. ASSUME NEW m \in Nodes, HasEvidence(slot'[m])
       PROVE  forward'[m] \subseteq DOMAIN slot'[m].payload.deps
  <2>1. m # n
    BY <1>6, <1>11 DEF HasEvidence
  <2>2. /\ m \notin S /\ HasEvidence(slot[m])
        /\ DOMAIN slot'[m].payload.deps = DOMAIN slot[m].payload.deps
    BY <1>7, <1>8, <1>11, <2>1
  <2> QED
    BY <1>4, <2>2 DEF StandInv, Evident
<1>12. FramesStand'
  BY <1>2, EmptyStand
<1> QED
  BY <1>5, <1>9, <1>10, <1>11, <1>12 DEF StandInv, ReadyStandsOnReady, Evident

-----------------------------------------------------------------------------
(* Every step treats the two directions of the graph alike. *)
LEMMA MirrorStep ==
    ASSUME FlightInv, Mirrored, [Next]_vars
    PROVE  Mirrored'
<1>0. Typed
  BY DEF FlightInv
<1>1. ASSUME NEW t \in Threads, Publish(t)
      PROVE  Mirrored'
  <2>1. PICK n, f : f = Top(t) /\ n = f.node
    OBVIOUS
  <2>2. At(t, "publish") /\ replace_dependencies_from(n, DOMAIN f.deps)
    BY <1>1, <2>1 DEF Publish
  <2>3. n \in Nodes /\ f \in Frames
    BY <2>1, <2>2, AtTop
  <2>4. DOMAIN f.deps \in SUBSET Nodes
    BY <2>3, EvidenceTyped DEF Frames
  <2> QED
    BY <1>0, <2>2, <2>3, <2>4, MirrorKept
<1>2. ASSUME NEW t \in Threads, Step(t)
      PROVE  Mirrored'
  <2>1. CASE \/ StartProvider(t) \/ DiscardResult(t) \/ Fail(t) \/ SettleError(t) \/ SweepEdges(t)
    <3>1. (\E S : remove_dependencies_from(S)) \/ UNCHANGED graph
      BY <2>1 DEF StartProvider, DiscardResult, Fail, SettleError, SweepEdges
    <3> QED
      BY <1>0, <3>1, MirrorKept
  <2>2. CASE \/ LookupReady(t) \/ LookupOutdated(t) \/ LookupBusy(t) \/ LookupCycle(t)
             \/ LookupEmpty(t) \/ WakeUp(t) \/ ProviderReads(t) \/ ProviderRefused(t)
             \/ ProviderReturns(t) \/ ProviderFails(t) \/ ValidateUnfingerprinted(t)
             \/ ValidateEnsures(t) \/ Compare(t) \/ SettleGreen(t) \/ SettleRed(t)
             \/ CheckInput(t) \/ CollectDependents(t) \/ InvalidateRoot(t)
             \/ \E n \in Nodes : MarkDependent(t, n)
    <3>1. UNCHANGED graph
      BY <2>2 DEF LookupReady, LookupOutdated, LookupBusy, LookupCycle, LookupEmpty, WakeUp,
         ProviderReads, ProviderRefused, ProviderReturns, ProviderFails, ValidateUnfingerprinted,
         ValidateEnsures, Compare, SettleGreen, SettleRed, CheckInput, CollectDependents,
         InvalidateRoot, MarkDependent
    <3> QED
      BY <1>0, <3>1, MirrorKept
  <2> QED
    BY <1>1, <1>2, <2>1, <2>2 DEF Step
<1>3. ASSUME NEW n \in Inputs, NEW v \in Values, ChangeDuringRetirement(n, v)
      PROVE  Mirrored'
  <2>1. \E S : remove_dependencies_from(S)
    BY <1>3 DEF ChangeDuringRetirement
  <2> QED
    BY <1>0, <2>1, MirrorKept
<1>4. ASSUME UNCHANGED graph
      PROVE  Mirrored'
  BY <1>0, <1>4, MirrorKept
<1>5. \A t \in Threads : (\A n : Request(t, n) => UNCHANGED graph)
                        /\ \A n, v : ChangeInput(t, n, v) => UNCHANGED graph
  BY DEF Request, ChangeInput
<1>6. UNCHANGED vars => UNCHANGED graph
  BY DEF vars, graph
<1> QED
  BY <1>0, <1>2, <1>3, <1>4, <1>5, <1>6, MirrorRetire DEF Next

(* For any queries and threads, with changes beside queries or under the   *)
(* barrier, forward and reverse hold the same edges after every critical   *)
(* section of the graph (replace_dependencies_from,                        *)
(* remove_dependencies_from and remove_node in dependency.rs), so that the *)
(* walk of collect_dependents misses no recorded reader.                   *)
THEOREM GraphIsMirrored == Spec => []Mirrored
<1>1. Init => FlightInv /\ Mirrored
  BY FlightInitially DEF Init, Mirrored
<1>2. (FlightInv /\ Mirrored) /\ [Next]_vars => (FlightInv /\ Mirrored)'
  BY FlightStep, MirrorStep
<1> QED
  BY <1>1, <1>2, PTL DEF Spec

LEMMA StandInitially ==
    ASSUME Init
    PROVE  StandInv
<1>1. \A t \in Threads : Len(stack[t]) = 0 /\ task[t] = NoTask
  BY DEF Init
<1>2. \A n \in Nodes : slot[n].state = "Empty" /\ ~slot[n].invalidated /\ forward[n] = {} /\ reverse[n] = {}
  BY SlotTyped, NoPayloadTyped DEF Init, Empty, Slot
<1>3. Calm /\ Mirrored /\ ReadyStandsOnReady /\ Evident
  BY <1>1, <1>2 DEF Calm, Mirrored, ReadyStandsOnReady, Evident, HasEvidence
<1>4. FramesStand
  BY <1>1 DEF FramesStand
<1> QED
  BY <1>3, <1>4 DEF StandInv

LEMMA StandStep ==
    ASSUME ~Overlapping, FlightInv, TrackInv, StandInv, [Next]_vars
    PROVE  StandInv'
<1>1. \A t \in Threads : task[t].step = "none"
  BY DEF StandInv, Calm, NoTask, Task
<1>2. ASSUME NEW t \in Threads, Step(t)
      PROVE  StandInv'
  <2>1. /\ ~CheckInput(t) /\ ~CollectDependents(t) /\ ~InvalidateRoot(t) /\ ~SweepEdges(t)
        /\ \A n \in Nodes : ~MarkDependent(t, n)
    BY <1>1 DEF CheckInput, CollectDependents, InvalidateRoot, SweepEdges, MarkDependent
  <2> QED
    BY <1>2, <2>1, StandLookupReady, StandLookupOutdated, StandMoving, StandLookupCycle,
       StandLookupEmpty, StandStartProvider, StandProviderReads, StandProviderReturns,
       StandPublish, StandDiscardResult, StandFail, StandValidateEnsures, StandCompare,
       StandSettleGreen, StandSettleRed, StandSettleError DEF Step
<1>3. ASSUME UNCHANGED vars
      PROVE  StandInv'
  <2>1. UNCHANGED <<slot, forward, reverse, stack, task>>
    BY <1>3 DEF vars
  <2>2. Calm' /\ Mirrored' /\ ReadyStandsOnReady' /\ Evident'
    BY <2>1 DEF StandInv, Calm, Mirrored, ReadyStandsOnReady, Evident
  <2>3. FramesStand'
    BY <2>1 DEF StandInv, FramesStand, Awaited, ReadyNodes
  <2> QED
    BY <2>2, <2>3 DEF StandInv
<1>4. \A t \in Threads, n \in Inputs, v \in Values : ~ChangeInput(t, n, v)
  BY DEF ChangeInput
<1> QED
  BY <1>2, <1>3, <1>4, StandRequest, StandChangeDuringRetirement, StandRetire DEF Next

(* For any queries and threads, with changes of the context confined to    *)
(* the retirement barrier, no Ready value stands on one that is not: an    *)
(* invalidation reaches every reader (collect_dependents and the two       *)
(* directions of the graph, dependency.rs), an execution publishes         *)
(* only what it read from Ready slots, and a validation that ends green    *)
(* has found every dependency Ready (database.rs).                         *)
THEOREM StandsOnReady == ASSUME ~Overlapping PROVE Spec => []ReadyStandsOnReady
<1>1. Init => FlightInv /\ TrackInv /\ StandInv
  BY FlightInitially, TrackInitially, StandInitially
<1>2. (FlightInv /\ TrackInv /\ StandInv) /\ [Next]_vars => (FlightInv /\ TrackInv /\ StandInv)'
  BY FlightStep, TrackStep, StandStep
<1>3. FlightInv /\ TrackInv /\ StandInv => ReadyStandsOnReady
  BY DEF StandInv
<1> QED
  BY <1>1, <1>2, <1>3, PTL DEF Spec
=============================================================================
