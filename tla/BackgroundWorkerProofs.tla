----------------------- MODULE BackgroundWorkerProofs -----------------------
(***************************************************************************)
(* What is promised about background tasks holds for any number of keys,   *)
(* tasks and slots.                                                        *)
(*                                                                         *)
(* The argument: the queue of a semaphore holds tasks that wait and        *)
(* tasks that were cancelled while they did, each once, so that a slot     *)
(* given back goes to a task that has none.  Somebody can wait beside a    *)
(* free slot, but then a task that was woken has not taken its next step,  *)
(* in which it wakes the next, or gives its slot back.  And the first task *)
(* of a key is in the table for as long as it is going, so that no second  *)
(* one is submitted, and the shutdown finds it.                            *)
(* On top of that, who waits is in the queue, and every step of a task     *)
(* brings it nearer to its end.                                            *)
(***************************************************************************)
EXTENDS BackgroundWorker, FiniteSetTheorems, SequenceTheorems, TLAPS

(* A task is in the table under its own key, if at all, and only one that  *)
(* ended has a callback.                                                   *)
TableInv ==
  /\ \A key \in Keys : table[key] # NoTask => tasks[table[key]].key = key
  /\ \A t \in callbacks : Ended(t)

(* The tasks of a kind that have a slot, those of them that were woken and *)
(* have not resumed, and the places of a queue of those that wait.         *)
HoldersIn(ts, kind) ==
  { t \in 1 .. Len(ts) :
      KindOf(ts[t].key) = kind /\ ts[t].state \in { "given", "running" } }

WokenIn(ts, kind) ==
  { t \in 1 .. Len(ts) : KindOf(ts[t].key) = kind /\ ts[t].state = "given" }

PlacesIn(q, gone) == { i \in DOMAIN q : q[i] \notin gone }

(* Who is in a queue waits for this semaphore, or did when it was          *)
(* cancelled, and is there once.                                           *)
Queued(ts, q, gone, kind) ==
  /\ q \in Seq(1 .. Len(ts))
  /\ \A i \in 1 .. Len(q) :
       /\ ts[q[i]].state = "waiting" \/ q[i] \in gone
       /\ KindOf(ts[q[i]].key) = kind
       /\ \A j \in 1 .. Len(q) : q[j] = q[i] => j = i

(* Free slots and those that tasks have are all there are.                 *)
Balanced(ts, n, kind) ==
  n \in Nat /\ n + Cardinality(HoldersIn(ts, kind)) = Capacity(kind)

(* While a slot is free and somebody waits, one that was woken has still   *)
(* to resume, and will wake the next.                                      *)
Accounted(ts, q, gone, n, kind) ==
  /\ Balanced(ts, n, kind)
  /\ PlacesIn(q, gone) # {} /\ n > 0 => WokenIn(ts, kind) # {}

Slots(ts, q, gone, n, kind) ==
  Queued(ts, q, gone, kind) /\ Accounted(ts, q, gone, n, kind)

SlotsInv ==
  /\ free \in [ Kinds -> Nat ] /\ queue \in [ Kinds -> Seq(Ids) ]
  /\ \A kind \in Kinds : Slots(tasks, queue[kind], cancelled, free[kind], kind)

(* The first task of a key is registered as long as it is going, and the   *)
(* shutdown has cancelled it.                                              *)
StopInv ==
  /\ stopping = "no" => cancelled = {}
  /\ \A t \in Ids : First(t) /\ ~Ended(t) =>
       /\ stopping # "done" /\ table[tasks[t].key] = t
       /\ stopping = "waiting" => t \in cancelled

IInv ==
  /\ TypeOK /\ TableInv /\ SlotsInv /\ StopInv
  /\ NoStaleEntry /\ CoroutinesClosed /\ FirstIsAlone

(* What a task does to the tasks: no key changes, what has ended or is     *)
(* closed stays so, and only the task itself ends, with a callback to come.*)
OthersGoOn(t) ==
  /\ tasks' \in Seq(Task) /\ Len(tasks') = Len(tasks)
  /\ \A u \in Ids :
       /\ tasks'[u].key = tasks[u].key
       /\ tasks[u].closed => tasks'[u].closed
       /\ Ended(u) => tasks'[u].state = "ended"
       /\ tasks'[u].state = "ended" /\ ~Ended(u) => u = t /\ t \in callbacks'
-----------------------------------------------------------------------------
(* What the assumptions and the types say of the constants and tasks.      *)
LEMMA Basics ==
  ASSUME TypeOK
  PROVE  /\ Len(tasks) \in Nat /\ Ids = DOMAIN tasks
         /\ \A t \in Ids : tasks[t] \in Task /\ tasks[t].key \in Keys /\ Kind(t) \in Kinds
         /\ \A kind \in Kinds : Capacity(kind) \in Nat
         /\ \A kind \in Kinds : /\ Len(queue[kind]) \in Nat
                                /\ DOMAIN queue[kind] = 1 .. Len(queue[kind])
                                /\ \A i \in 1 .. Len(queue[kind]) : queue[kind][i] \in Ids
<1>1. Len(tasks) \in Nat /\ Ids = DOMAIN tasks
  BY DEF TypeOK, Ids
<1>2. \A t \in Ids : tasks[t] \in Task /\ tasks[t].key \in Keys
  <2>1. \A t \in Ids : tasks[t] \in Task
    BY <1>1 DEF TypeOK
  <2>. QED  BY <2>1 DEF Task
<1>3. \A t \in Ids : Kind(t) \in Kinds
  BY DEF Kind, KindOf, Kinds
<1>4. \A kind \in Kinds : Capacity(kind) \in Nat
  BY CapacityAssumption DEF Capacity
<1>5. \A kind \in Kinds : /\ Len(queue[kind]) \in Nat
                          /\ DOMAIN queue[kind] = 1 .. Len(queue[kind])
                          /\ \A i \in 1 .. Len(queue[kind]) : queue[kind][i] \in Ids
  BY DEF TypeOK
<1>. QED  BY <1>1, <1>2, <1>3, <1>4, <1>5

(* The ways a task changes, and what they have in common.                  *)
WithState(ts, t, state) == [ ts EXCEPT ![t].state = state ]
WithClosed(ts, t) == [ ts EXCEPT ![t].closed = TRUE ]
WithEnd(ts, t) == [ ts EXCEPT ![t].state = "ended", ![t].closed = TRUE ]

Changed(old, new, t, state) ==
  /\ new \in Seq(Task) /\ Len(new) = Len(old)
  /\ \A u \in 1 .. Len(old) : u # t => new[u] = old[u]
  /\ new[t].state = state /\ new[t].key = old[t].key
  /\ old[t].closed => new[t].closed

(* A record put in the place of another that belongs to the same key.      *)
LEMMA TaskReplaced ==
  ASSUME NEW ts \in Seq(Task), NEW t \in 1 .. Len(ts), NEW r \in Task,
         r.key = ts[t].key, ts[t].closed => r.closed
  PROVE  Changed(ts, [ ts EXCEPT ![t] = r ], t, r.state)
  BY DEF Changed

(* A new state, a closed coroutine or the end of one task.                 *)
LEMMA StateSet ==
  ASSUME NEW ts \in Seq(Task), NEW t \in 1 .. Len(ts)
  PROVE  /\ \A state \in { "scheduled", "waiting", "given", "running", "ended" } :
              Changed(ts, WithState(ts, t, state), t, state)
         /\ Changed(ts, WithClosed(ts, t), t, ts[t].state)
         /\ WithClosed(ts, t)[t].closed
         /\ Changed(ts, WithEnd(ts, t), t, "ended") /\ WithEnd(ts, t)[t].closed
<1>1. ts[t] \in Task /\ ts \in [ 1 .. Len(ts) -> Task ]
  OBVIOUS
<1>2. ASSUME NEW state \in { "scheduled", "waiting", "given", "running", "ended" }
      PROVE  Changed(ts, WithState(ts, t, state), t, state)
  <2>. DEFINE r == [ ts[t] EXCEPT !.state = state ]
  <2>1. r \in Task /\ r.state = state /\ r.key = ts[t].key /\ r.closed = ts[t].closed
    BY <1>1 DEF Task
  <2>2. WithState(ts, t, state) = [ ts EXCEPT ![t] = r ]
    BY <1>1 DEF WithState
  <2>. HIDE DEF r
  <2>. QED  BY <2>1, <2>2, TaskReplaced
<1>3. Changed(ts, WithClosed(ts, t), t, ts[t].state) /\ WithClosed(ts, t)[t].closed
  <2>. DEFINE r == [ ts[t] EXCEPT !.closed = TRUE ]
  <2>1. r \in Task /\ r.state = ts[t].state /\ r.key = ts[t].key /\ r.closed
    BY <1>1 DEF Task
  <2>2. WithClosed(ts, t) = [ ts EXCEPT ![t] = r ] /\ [ ts EXCEPT ![t] = r ][t] = r
    BY <1>1 DEF WithClosed
  <2>. HIDE DEF r
  <2>. QED  BY <2>1, <2>2, TaskReplaced
<1>4. Changed(ts, WithEnd(ts, t), t, "ended") /\ WithEnd(ts, t)[t].closed
  <2>. DEFINE r == [ ts[t] EXCEPT !.state = "ended", !.closed = TRUE ]
  <2>1. r \in Task /\ r.state = "ended" /\ r.key = ts[t].key /\ r.closed
    BY <1>1 DEF Task
  <2>2. WithEnd(ts, t) = [ ts EXCEPT ![t] = r ] /\ [ ts EXCEPT ![t] = r ][t] = r
    BY <1>1 DEF WithEnd
  <2>. HIDE DEF r
  <2>. QED  BY <2>1, <2>2, TaskReplaced
<1>. QED  BY <1>2, <1>3, <1>4

(* There are finitely many holders of a slot.                              *)
LEMMA HoldersFinite ==
  ASSUME NEW ts \in Seq(Task), NEW kind
  PROVE  IsFiniteSet(HoldersIn(ts, kind)) /\ Cardinality(HoldersIn(ts, kind)) \in Nat
<1>1. IsFiniteSet(1 .. Len(ts))
  BY FS_Interval
<1>2. IsFiniteSet(HoldersIn(ts, kind))
  BY <1>1, FS_Subset DEF HoldersIn
<1>. QED  BY <1>2, FS_CardinalityType

(* Tasks change, but for this kind neither who has a slot nor who waits.   *)
LEMMA SlotsKept ==
  ASSUME NEW old \in Seq(Task), NEW new \in Seq(Task), Len(new) = Len(old),
         NEW q, NEW gone, NEW n, NEW kind, Slots(old, q, gone, n, kind),
         \A u \in 1 .. Len(old) : new[u].key = old[u].key,
         \A u \in 1 .. Len(old) :
           old[u].state = "waiting" => new[u].state = "waiting" \/ u \in gone,
         HoldersIn(new, kind) = HoldersIn(old, kind),
         WokenIn(new, kind) = WokenIn(old, kind)
  PROVE  Slots(new, q, gone, n, kind)
<1>1. Queued(new, q, gone, kind)
  BY DEF Slots, Queued
<1>2. Accounted(new, q, gone, n, kind)
  BY DEF Slots, Accounted, Balanced
<1>. QED  BY <1>1, <1>2 DEF Slots

(* One task t changes, which has no slot before or after.                  *)
LEMMA SlotsUntouched ==
  ASSUME NEW old \in Seq(Task), NEW new \in Seq(Task), Len(new) = Len(old),
         NEW q, NEW gone, NEW n, NEW kind, Slots(old, q, gone, n, kind),
         NEW t \in 1 .. Len(old), new[t].key = old[t].key,
         \A u \in 1 .. Len(old) : u # t => new[u] = old[u],
         old[t].state \notin { "given", "running" },
         new[t].state \notin { "given", "running" },
         old[t].state = "waiting" => new[t].state = "waiting" \/ t \in gone
  PROVE  Slots(new, q, gone, n, kind)
<1>1. HoldersIn(new, kind) = HoldersIn(old, kind) /\ WokenIn(new, kind) = WokenIn(old, kind)
  BY DEF HoldersIn, WokenIn
<1>. QED  BY <1>1, SlotsKept

(* One task of another kind changes.                                       *)
LEMMA SlotsOfOthers ==
  ASSUME NEW old \in Seq(Task), NEW new \in Seq(Task), Len(new) = Len(old),
         NEW q, NEW gone, NEW n, NEW kind, Slots(old, q, gone, n, kind),
         \A u \in 1 .. Len(old) : new[u].key = old[u].key,
         \A u \in 1 .. Len(old) : KindOf(old[u].key) = kind => new[u] = old[u]
  PROVE  Slots(new, q, gone, n, kind)
<1>1. HoldersIn(new, kind) = HoldersIn(old, kind) /\ WokenIn(new, kind) = WokenIn(old, kind)
  BY DEF HoldersIn, WokenIn
<1>2. Queued(new, q, gone, kind)
  <2>1. \A i \in 1 .. Len(q) : q[i] \in 1 .. Len(old) /\ KindOf(old[q[i]].key) = kind
    BY DEF Slots, Queued
  <2>2. \A i \in 1 .. Len(q) : new[q[i]] = old[q[i]]
    BY <2>1
  <2>. QED  BY <2>2 DEF Slots, Queued
<1>3. Accounted(new, q, gone, n, kind)
  BY <1>1 DEF Slots, Accounted, Balanced
<1>. QED  BY <1>2, <1>3 DEF Slots

(* A free slot is taken when nobody waits for it.                          *)
LEMMA SlotTaken ==
  ASSUME NEW old \in Seq(Task), NEW new \in Seq(Task), Len(new) = Len(old),
         NEW q, NEW gone, NEW n, NEW kind, Slots(old, q, gone, n, kind), n > 0,
         PlacesIn(q, gone) = {},
         NEW t \in 1 .. Len(old), new[t].key = old[t].key, KindOf(old[t].key) = kind,
         \A u \in 1 .. Len(old) : u # t => new[u] = old[u],
         old[t].state = "scheduled", new[t].state = "running"
  PROVE  Slots(new, q, gone, n - 1, kind)
<1>1. HoldersIn(new, kind) = HoldersIn(old, kind) \cup { t } /\ t \notin HoldersIn(old, kind)
  BY DEF HoldersIn
<1>2. Cardinality(HoldersIn(new, kind)) = Cardinality(HoldersIn(old, kind)) + 1
  <2>1. IsFiniteSet(HoldersIn(old, kind))
    BY HoldersFinite
  <2>. QED  BY <1>1, <2>1, FS_AddElement
<1>3. Cardinality(HoldersIn(old, kind)) \in Nat /\ Cardinality(HoldersIn(new, kind)) \in Nat
      /\ Capacity(kind) \in Nat
  BY HoldersFinite, CapacityAssumption DEF Capacity
<1>4. Accounted(new, q, gone, n - 1, kind)
  BY <1>2, <1>3 DEF Slots, Accounted, Balanced
<1>5. Queued(new, q, gone, kind)
  BY DEF Slots, Queued
<1>. QED  BY <1>4, <1>5 DEF Slots

(* A task waits, last in the queue, when there is no free slot, or others  *)
(* were before it.                                                         *)
LEMMA SlotAwaited ==
  ASSUME NEW old \in Seq(Task), NEW new \in Seq(Task), Len(new) = Len(old),
         NEW q, NEW gone, NEW n, NEW kind, Slots(old, q, gone, n, kind),
         n = 0 \/ PlacesIn(q, gone) # {} \/ WokenIn(old, kind) # {},
         NEW t \in 1 .. Len(old), new[t].key = old[t].key, KindOf(old[t].key) = kind,
         \A u \in 1 .. Len(old) : u # t => new[u] = old[u],
         old[t].state = "scheduled", new[t].state = "waiting", t \notin gone
  PROVE  Slots(new, Append(q, t), gone, n, kind)
<1>1. HoldersIn(new, kind) = HoldersIn(old, kind) /\ WokenIn(new, kind) = WokenIn(old, kind)
  BY DEF HoldersIn, WokenIn
<1>2. Accounted(new, Append(q, t), gone, n, kind)
  <2>1. Balanced(new, n, kind)
    BY <1>1 DEF Slots, Accounted, Balanced
  <2>2. n > 0 => WokenIn(new, kind) # {}
    BY <1>1, <2>1 DEF Slots, Accounted, Balanced
  <2>. HIDE DEF Balanced
  <2>. QED  BY <2>1, <2>2 DEF Accounted
<1>3. q \in Seq(1 .. Len(old)) /\ \A i \in 1 .. Len(q) : q[i] # t
  BY DEF Slots, Queued
<1>4. /\ Append(q, t) \in Seq(1 .. Len(new)) /\ Len(Append(q, t)) = Len(q) + 1
      /\ \A i \in 1 .. Len(q) : Append(q, t)[i] = q[i]
      /\ Append(q, t)[Len(q) + 1] = t /\ Len(q) \in Nat
  BY <1>3, AppendProperties
<1>5. Queued(new, Append(q, t), gone, kind)
  <2>. DEFINE r == Append(q, t)
  <2>. SUFFICES ASSUME NEW i \in 1 .. Len(r)
                PROVE  /\ new[r[i]].state = "waiting" \/ r[i] \in gone
                       /\ KindOf(new[r[i]].key) = kind
                       /\ \A j \in 1 .. Len(r) : r[j] = r[i] => j = i
    BY <1>4 DEF Queued
  <2>1. CASE i = Len(q) + 1
    BY <1>3, <1>4, <2>1
  <2>2. CASE i \in 1 .. Len(q)
    <3>1. r[i] = q[i] /\ q[i] # t /\ q[i] \in 1 .. Len(old)
      BY <1>3, <1>4, <2>2
    <3>. HIDE DEF r
    <3>2. /\ old[q[i]].state = "waiting" \/ q[i] \in gone
          /\ KindOf(old[q[i]].key) = kind
          /\ \A j \in 1 .. Len(q) : q[j] = q[i] => j = i
      BY <2>2 DEF Slots, Queued
    <3>3. \A j \in 1 .. Len(r) : r[j] = r[i] => j = i
      <4>. SUFFICES ASSUME NEW j \in 1 .. Len(r), r[j] = r[i]  PROVE j = i
        OBVIOUS
      <4>1. j \in 1 .. Len(q) \/ j = Len(q) + 1
        BY <1>4 DEF r
      <4>2. j \in 1 .. Len(q) => r[j] = q[j]
        BY <1>4 DEF r
      <4>3. j = Len(q) + 1 => r[j] = t
        BY <1>4 DEF r
      <4>. QED  BY <3>1, <3>2, <4>1, <4>2, <4>3
    <3>. QED  BY <3>1, <3>2, <3>3
  <2>. QED  BY <1>4, <2>1, <2>2
<1>. QED  BY <1>2, <1>5 DEF Slots

(* A task that had a slot has none any more, or goes on with it.           *)
LEMMA HolderMoves ==
  ASSUME NEW old \in Seq(Task), NEW new \in Seq(Task), Len(new) = Len(old),
         NEW q, NEW gone, NEW n, NEW kind, Slots(old, q, gone, n, kind),
         NEW t \in 1 .. Len(old), new[t].key = old[t].key, KindOf(old[t].key) = kind,
         \A u \in 1 .. Len(old) : u # t => new[u] = old[u],
         old[t].state \in { "given", "running" }
  PROVE  /\ Queued(new, q, gone, kind)
         /\ new[t].state = "running" => Balanced(new, n, kind)
         /\ new[t].state = "ended" => Balanced(new, n + 1, kind)
<1>1. Queued(new, q, gone, kind)
  <2>1. /\ q \in Seq(1 .. Len(new))
        /\ \A i \in 1 .. Len(q) : q[i] \in 1 .. Len(old)
    BY DEF Slots, Queued
  <2>2. \A i \in 1 .. Len(q) : q[i] # t => new[q[i]] = old[q[i]]
    BY <2>1
  <2>3. \A i \in 1 .. Len(q) : q[i] = t => t \in gone
    BY DEF Slots, Queued
  <2>4. \A i \in 1 .. Len(q) :
          /\ old[q[i]].state = "waiting" \/ q[i] \in gone
          /\ KindOf(old[q[i]].key) = kind
          /\ \A j \in 1 .. Len(q) : q[j] = q[i] => j = i
    BY DEF Slots, Queued
  <2>5. \A i \in 1 .. Len(q) :
          /\ new[q[i]].state = "waiting" \/ q[i] \in gone
          /\ KindOf(new[q[i]].key) = kind
    <3>. SUFFICES ASSUME NEW i \in 1 .. Len(q)
                  PROVE  /\ new[q[i]].state = "waiting" \/ q[i] \in gone
                         /\ KindOf(new[q[i]].key) = kind
      OBVIOUS
    <3>1. CASE q[i] = t
      BY <2>3, <3>1
    <3>2. CASE q[i] # t
      BY <2>2, <2>4, <3>2
    <3>. QED  BY <3>1, <3>2
  <2>. QED  BY <2>1, <2>4, <2>5 DEF Queued
<1>2. CASE new[t].state = "running"
  <2>1. HoldersIn(new, kind) = HoldersIn(old, kind)
    BY <1>2 DEF HoldersIn
  <2>. QED  BY <1>1, <1>2, <2>1 DEF Slots, Accounted, Balanced
<1>3. CASE new[t].state = "ended"
  <2>1. HoldersIn(new, kind) = HoldersIn(old, kind) \ { t } /\ t \in HoldersIn(old, kind)
    BY <1>3 DEF HoldersIn
  <2>2. Cardinality(HoldersIn(new, kind)) = Cardinality(HoldersIn(old, kind)) - 1
    <3>1. IsFiniteSet(HoldersIn(old, kind))
      BY HoldersFinite
    <3>. QED  BY <2>1, <3>1, FS_RemoveElement
  <2>3. /\ Cardinality(HoldersIn(old, kind)) \in Nat
        /\ Cardinality(HoldersIn(new, kind)) \in Nat /\ Capacity(kind) \in Nat
    BY HoldersFinite, CapacityAssumption DEF Capacity
  <2>4. Balanced(new, n + 1, kind)
    BY <2>2, <2>3 DEF Slots, Accounted, Balanced
  <2>. QED  BY <1>1, <1>3, <2>4
<1>. QED  BY <1>1, <1>2, <1>3

(* Of the free slots the first that waits is given one.                    *)
LEMMA SlotPassedOn ==
  ASSUME NEW old \in Seq(Task), NEW new \in Seq(Task), Len(new) = Len(old),
         NEW q, NEW gone, NEW n, NEW kind,
         Queued(old, q, gone, kind), Balanced(old, n, kind), n > 0,
         NEW i \in PlacesIn(q, gone),
         new[q[i]].key = old[q[i]].key, new[q[i]].state = "given",
         \A u \in 1 .. Len(old) : u # q[i] => new[u] = old[u]
  PROVE  Slots(new, SubSeq(q, i + 1, Len(q)), gone, n - 1, kind)
<1>. DEFINE r == SubSeq(q, i + 1, Len(q))
            u == q[i]
<1>1. /\ q \in Seq(1 .. Len(old)) /\ Len(q) \in Nat /\ i \in 1 .. Len(q)
      /\ u \in 1 .. Len(old) /\ u \notin gone
  BY DEF Queued, PlacesIn
<1>2. old[u].state = "waiting" /\ KindOf(old[u].key) = kind
  BY <1>1 DEF Queued
<1>3. /\ r \in Seq(1 .. Len(old)) /\ Len(r) = Len(q) - i
      /\ \A m \in 1 .. Len(r) : r[m] = q[i + m] /\ i + m \in 1 .. Len(q)
  <2>. DEFINE S == 1 .. Len(old)
  <2>1. q \in Seq(S) /\ Len(q) \in Nat /\ i \in 1 .. Len(q)
    BY <1>1
  <2>. HIDE DEF S
  <2>2. SubSeq(q, i + 1, Len(q)) \in Seq(S) /\ Len(SubSeq(q, i + 1, Len(q))) = Len(q) - i
    BY <2>1
  <2>3. \A m \in 1 .. Len(q) - i :
          SubSeq(q, i + 1, Len(q))[m] = q[i + m] /\ i + m \in 1 .. Len(q)
    BY <2>1
  <2>. QED  BY <2>2, <2>3 DEF S
<1>4. Cardinality(HoldersIn(new, kind)) = Cardinality(HoldersIn(old, kind)) + 1
  <2>1. HoldersIn(new, kind) = HoldersIn(old, kind) \cup { u } /\ u \notin HoldersIn(old, kind)
    BY <1>1, <1>2 DEF HoldersIn
  <2>2. IsFiniteSet(HoldersIn(old, kind))
    BY HoldersFinite
  <2>. HIDE DEF u
  <2>. QED  BY <2>1, <2>2, FS_AddElement
<1>5. /\ Cardinality(HoldersIn(old, kind)) \in Nat
      /\ Cardinality(HoldersIn(new, kind)) \in Nat /\ Capacity(kind) \in Nat
  BY HoldersFinite, CapacityAssumption DEF Capacity
<1>6. Accounted(new, r, gone, n - 1, kind)
  <2>1. Balanced(new, n - 1, kind)
    BY <1>4, <1>5 DEF Balanced
  <2>2. u \in WokenIn(new, kind)
    BY <1>1, <1>2 DEF WokenIn
  <2>. QED  BY <2>1, <2>2 DEF Accounted
<1>7. \A j \in 1 .. Len(q) : q[j] \in 1 .. Len(old)
  <2>. DEFINE S == 1 .. Len(old)
  <2>1. q \in Seq(S)
    BY <1>1
  <2>. HIDE DEF S
  <2>2. \A j \in 1 .. Len(q) : q[j] \in S
    BY <2>1
  <2>. QED  BY <2>2 DEF S
<1>8. Queued(new, r, gone, kind)
  <2>. SUFFICES ASSUME NEW m \in 1 .. Len(r)
                PROVE  /\ new[r[m]].state = "waiting" \/ r[m] \in gone
                       /\ KindOf(new[r[m]].key) = kind
                       /\ \A j \in 1 .. Len(r) : r[j] = r[m] => j = m
    BY <1>3 DEF Queued
  <2>1. r[m] = q[i + m] /\ i + m \in 1 .. Len(q) /\ m \in Nat \ { 0 }
    BY <1>1, <1>3
  <2>. HIDE DEF r
  <2>2. /\ old[r[m]].state = "waiting" \/ r[m] \in gone
        /\ KindOf(old[r[m]].key) = kind
        /\ \A j \in 1 .. Len(q) : q[j] = r[m] => j = i + m
    BY <2>1 DEF Queued
  <2>3. r[m] # u
    BY <1>1, <2>1, <2>2
  <2>4. r[m] \in 1 .. Len(old)
    BY <1>7, <2>1
  <2>5. new[r[m]] = old[r[m]]
    BY <2>3, <2>4
  <2>6. \A j \in 1 .. Len(r) : r[j] = r[m] => j = m
    <3>. SUFFICES ASSUME NEW j \in 1 .. Len(r), r[j] = r[m]  PROVE j = m
      OBVIOUS
    <3>1. r[j] = q[i + j] /\ i + j \in 1 .. Len(q)
      BY <1>3
    <3>2. i + j = i + m
      BY <2>2, <3>1
    <3>3. j \in Nat /\ i \in Nat
      BY <1>1
    <3>. QED  BY <2>1, <3>2, <3>3
  <2>. QED  BY <2>2, <2>5, <2>6
<1>. QED  BY <1>6, <1>8 DEF Slots
-----------------------------------------------------------------------------
(* A task that changes alone leaves the others to themselves.              *)
LEMMA AloneGoesOn ==
  ASSUME TypeOK, NEW t \in Ids, NEW state, Changed(tasks, tasks', t, state),
         Ended(t) => state = "ended",
         state = "ended" => t \in callbacks' \/ Ended(t)
  PROVE  /\ OthersGoOn(t) /\ tasks'[t].state = state
         /\ \A u \in Ids : u # t => tasks'[u] = tasks[u]
  BY DEF Changed, OthersGoOn, Ended, Ids

(* The slots of one kind change, with tasks of this kind.                  *)
LEMMA SlotsOfKind ==
  ASSUME IInv, UNCHANGED cancelled, NEW k \in Kinds, NEW n, NEW q,
         tasks' \in Seq(Task), Len(tasks') = Len(tasks),
         \A u \in Ids : tasks'[u].key = tasks[u].key,
         \A u \in Ids : Kind(u) # k => tasks'[u] = tasks[u],
         free' = [ free EXCEPT ![k] = n ],
         queue' = [ queue EXCEPT ![k] = q ],
         Slots(tasks', q, cancelled, n, k)
  PROVE  SlotsInv'
<1>1. n \in Nat /\ free' \in [ Kinds -> Nat ]
  BY DEF Slots, Accounted, Balanced, IInv, SlotsInv
<1>2. tasks \in Seq(Task) /\ queue \in [ Kinds -> Seq(Ids) ]
  BY DEF IInv, TypeOK
<1>3. \A kind \in Kinds : Slots(tasks', queue'[kind], cancelled', free'[kind], kind)
  <2>. SUFFICES ASSUME NEW kind \in Kinds
                PROVE  Slots(tasks', queue'[kind], cancelled', free'[kind], kind)
    OBVIOUS
  <2>1. CASE kind = k
    <3>1. queue'[kind] = q /\ free'[kind] = n
      BY <1>2, <2>1 DEF IInv, SlotsInv
    <3>. QED  BY <2>1, <3>1
  <2>2. CASE kind # k
    <3>1. queue'[kind] = queue[kind] /\ free'[kind] = free[kind]
      BY <1>2, <2>2 DEF IInv, SlotsInv
    <3>2. Slots(tasks, queue[kind], cancelled, free[kind], kind)
      BY DEF IInv, SlotsInv
    <3>3. /\ \A u \in 1 .. Len(tasks) : tasks'[u].key = tasks[u].key
          /\ \A u \in 1 .. Len(tasks) : KindOf(tasks[u].key) = kind => tasks'[u] = tasks[u]
      BY <2>2 DEF Ids, Kind
    <3>4. Slots(tasks', queue[kind], cancelled, free[kind], kind)
      BY <1>2, <3>2, <3>3, SlotsOfOthers
    <3>. QED  BY <3>1, <3>4
  <2>. QED  BY <2>1, <2>2
<1>4. queue' \in [ Kinds -> Seq(1 .. Len(tasks')) ]
  <2>1. q \in Seq(1 .. Len(tasks'))
    BY DEF Slots, Queued
  <2>2. queue \in [ Kinds -> Seq(1 .. Len(tasks')) ]
    BY <1>2 DEF Ids
  <2>. QED  BY <2>1, <2>2
<1>. QED  BY <1>1, <1>3, <1>4 DEF SlotsInv, Ids

(* What the invariant says before a step of a task.                        *)
LEMMA Before ==
  ASSUME IInv, NEW t \in Ids
  PROVE  /\ TypeOK /\ tasks \in Seq(Task) /\ t \in 1 .. Len(tasks)
         /\ Kind(t) \in Kinds /\ KindOf(tasks[t].key) = Kind(t)
         /\ free \in [ Kinds -> Nat ] /\ queue \in [ Kinds -> Seq(Ids) ]
         /\ \A kind \in Kinds : Slots(tasks, queue[kind], cancelled, free[kind], kind)
  BY DEF IInv, TypeOK, SlotsInv, Ids, Kind, KindOf, Kinds

(* The first step of a task takes a slot or a place in the queue.          *)
LEMMA BeginSlots ==
  ASSUME IInv, NEW t \in Ids, Begin(t)
  PROVE  OthersGoOn(t) /\ SlotsInv'
<1>. DEFINE k == Kind(t)
<1>0. Places(k) = PlacesIn(queue[k], cancelled) /\ Woken(k) = WokenIn(tasks, k)
  BY DEF Places, PlacesIn, Woken, WokenIn, Kind, Ids
<1>1. CASE /\ ~Locked(k) /\ free' = [ free EXCEPT ![k] = @ - 1 ]
           /\ tasks' = SetState(t, "running") /\ UNCHANGED queue
  <2>0. Changed(tasks, tasks', t, "running")
    BY <1>1, Before, StateSet DEF SetState, WithState
  <2>1. /\ OthersGoOn(t) /\ tasks'[t].state = "running"
        /\ \A u \in Ids : u # t => tasks'[u] = tasks[u]
    BY <2>0, Before, AloneGoesOn DEF Begin, Ended
  <2>2. Slots(tasks', queue[k], cancelled, free[k] - 1, k)
    <3>1. /\ Slots(tasks, queue[k], cancelled, free[k], k) /\ KindOf(tasks[t].key) = k
          /\ t \in 1 .. Len(tasks) /\ tasks \in Seq(Task)
      BY Before
    <3>2. /\ tasks' \in Seq(Task) /\ Len(tasks') = Len(tasks)
          /\ tasks'[t].key = tasks[t].key /\ tasks[t].state = "scheduled"
          /\ \A u \in 1 .. Len(tasks) : u # t => tasks'[u] = tasks[u]
      BY <2>1 DEF OthersGoOn, Begin, Ids
    <3>3. free[k] > 0 /\ PlacesIn(queue[k], cancelled) = {}
      BY <1>0, <1>1, Before DEF Locked
    <3>. HIDE DEF k
    <3>. QED  BY <2>1, <3>1, <3>2, <3>3, SlotTaken
  <2>3. queue' = [ queue EXCEPT ![k] = queue[k] ] /\ free' = [ free EXCEPT ![k] = free[k] - 1 ]
    BY <1>1, Before
  <2>4. SlotsInv'
    <3>1. /\ tasks' \in Seq(Task) /\ Len(tasks') = Len(tasks) /\ UNCHANGED cancelled
          /\ \A u \in Ids : tasks'[u].key = tasks[u].key
      BY <2>1 DEF OthersGoOn, Begin
    <3>2. k \in Kinds /\ \A u \in Ids : Kind(u) # k => tasks'[u] = tasks[u]
      BY <2>1, Before
    <3>. HIDE DEF k
    <3>. QED  BY <2>2, <2>3, <3>1, <3>2, SlotsOfKind
  <2>. QED  BY <2>1, <2>4
<1>2. CASE /\ Locked(k) /\ queue' = [ queue EXCEPT ![k] = Append(@, t) ]
           /\ tasks' = SetState(t, "waiting") /\ UNCHANGED free
  <2>0. Changed(tasks, tasks', t, "waiting")
    BY <1>2, Before, StateSet DEF SetState, WithState
  <2>1. /\ OthersGoOn(t) /\ tasks'[t].state = "waiting"
        /\ \A u \in Ids : u # t => tasks'[u] = tasks[u]
    BY <2>0, Before, AloneGoesOn DEF Begin, Ended
  <2>2. Slots(tasks', Append(queue[k], t), cancelled, free[k], k)
    <3>1. free[k] = 0 \/ PlacesIn(queue[k], cancelled) # {} \/ WokenIn(tasks, k) # {}
      BY <1>0, <1>2 DEF Locked
    <3>2. /\ tasks' \in Seq(Task) /\ Len(tasks') = Len(tasks) /\ t \notin cancelled
          /\ tasks'[t].key = tasks[t].key /\ tasks[t].state = "scheduled"
          /\ \A u \in 1 .. Len(tasks) : u # t => tasks'[u] = tasks[u]
      BY <2>1 DEF OthersGoOn, Begin, Ids
    <3>3. /\ Slots(tasks, queue[k], cancelled, free[k], k) /\ KindOf(tasks[t].key) = k
          /\ t \in 1 .. Len(tasks) /\ tasks \in Seq(Task)
      BY Before
    <3>. HIDE DEF k
    <3>. QED  BY <2>1, <3>1, <3>2, <3>3, SlotAwaited
  <2>3. /\ queue' = [ queue EXCEPT ![k] = Append(queue[k], t) ]
        /\ free' = [ free EXCEPT ![k] = free[k] ]
    BY <1>2, Before
  <2>4. SlotsInv'
    <3>1. /\ tasks' \in Seq(Task) /\ Len(tasks') = Len(tasks) /\ UNCHANGED cancelled
          /\ \A u \in Ids : tasks'[u].key = tasks[u].key
      BY <2>1 DEF OthersGoOn, Begin
    <3>2. k \in Kinds /\ \A u \in Ids : Kind(u) # k => tasks'[u] = tasks[u]
      BY <2>1, Before
    <3>. HIDE DEF k
    <3>. QED  BY <2>2, <2>3, <3>1, <3>2, SlotsOfKind
  <2>. QED  BY <2>1, <2>4
<1>. QED  BY <1>1, <1>2 DEF Begin

(* A task that has no slot changes and takes none.                         *)
LEMMA QuietSlots ==
  ASSUME IInv, NEW t \in Ids, UNCHANGED << free, queue, cancelled >>, OthersGoOn(t),
         \A u \in Ids : u # t => tasks'[u] = tasks[u],
         ~Holds(t), tasks'[t].state \notin { "given", "running" },
         tasks[t].state = "waiting" => tasks'[t].state = "waiting" \/ t \in cancelled
  PROVE  SlotsInv'
<1>. DEFINE k == Kind(t)
<1>1. Slots(tasks', queue[k], cancelled, free[k], k)
  BY Before, SlotsUntouched DEF OthersGoOn, Ids, Holds
<1>2. queue' = [ queue EXCEPT ![k] = queue[k] ] /\ free' = [ free EXCEPT ![k] = free[k] ]
  BY Before
<1>3. \A u \in Ids : Kind(u) # k => tasks'[u] = tasks[u]
  OBVIOUS
<1>4. k \in Kinds
  BY Before
<1>5. /\ tasks' \in Seq(Task) /\ Len(tasks') = Len(tasks)
      /\ \A u \in Ids : tasks'[u].key = tasks[u].key
  BY DEF OthersGoOn
<1>. HIDE DEF k
<1>. QED  BY <1>1, <1>2, <1>3, <1>4, <1>5, SlotsOfKind

(* A task that had a slot goes on or ends, which leaves n slots free, and  *)
(* the first that waits is woken.                                          *)
LEMMA WakeUpSlots ==
  ASSUME IInv, NEW t \in Ids, Holds(t), NEW ts, NEW n, NEW state \in { "running", "ended" },
         Changed(tasks, ts, t, state), WakeUpNext(Kind(t), n, ts),
         n = IF state = "running" THEN free[Kind(t)] ELSE free[Kind(t)] + 1,
         UNCHANGED cancelled, state = "ended" => t \in callbacks'
  PROVE  OthersGoOn(t) /\ SlotsInv' /\ tasks'[t].state = state
<1>. DEFINE k == Kind(t)
            q == queue[k]
<1>1. /\ ts \in Seq(Task) /\ Len(ts) = Len(tasks)
      /\ \A u \in 1 .. Len(tasks) : u # t => ts[u] = tasks[u]
      /\ ts[t].state = state /\ ts[t].key = tasks[t].key
      /\ tasks[t].closed => ts[t].closed
  BY DEF Changed
<1>2. tasks[t].state \in { "given", "running" }
  BY DEF Holds
<1>3. Places(k) = PlacesIn(q, cancelled)
  BY DEF Places, PlacesIn
<1>4. Queued(ts, q, cancelled, k) /\ Balanced(ts, n, k)
  <2>1. /\ Slots(tasks, q, cancelled, free[k], k) /\ KindOf(tasks[t].key) = k
        /\ t \in 1 .. Len(tasks) /\ tasks \in Seq(Task)
    BY Before
  <2>. HIDE DEF q, k
  <2>2. /\ Queued(ts, q, cancelled, k)
        /\ ts[t].state = "running" => Balanced(ts, free[k], k)
        /\ ts[t].state = "ended" => Balanced(ts, free[k] + 1, k)
    BY <1>1, <1>2, <2>1, HolderMoves
  <2>. QED  BY <1>1, <2>2 DEF k
<1>5. CASE /\ n = 0 \/ Places(k) = {}
           /\ free' = [ free EXCEPT ![k] = n ] /\ tasks' = ts /\ UNCHANGED queue
  <2>1. OthersGoOn(t)
    BY <1>1, <1>2, <1>5 DEF OthersGoOn, Ended, Ids
  <2>2. Slots(tasks', q, cancelled, n, k)
    BY <1>3, <1>4, <1>5 DEF Slots, Accounted
  <2>3. queue' = [ queue EXCEPT ![k] = q ]
    BY <1>5, Before
  <2>4. \A u \in Ids : Kind(u) # k => tasks'[u] = tasks[u]
    BY <1>1, <1>5 DEF Ids
  <2>5. SlotsInv'
    <3>1. free' = [ free EXCEPT ![k] = n ]
      BY <1>5
    <3>2. /\ tasks' \in Seq(Task) /\ Len(tasks') = Len(tasks)
          /\ \A u \in Ids : tasks'[u].key = tasks[u].key
      BY <2>1 DEF OthersGoOn
    <3>3. k \in Kinds
      BY Before
    <3>. HIDE DEF k, q
    <3>. QED  BY <2>2, <2>3, <2>4, <3>1, <3>2, <3>3, SlotsOfKind
  <2>. QED  BY <1>1, <1>5, <2>1, <2>5
<1>6. ASSUME n > 0, NEW i \in Places(k), free' = [ free EXCEPT ![k] = n - 1 ],
             tasks' = WithState(ts, q[i], "given"),
             queue' = [ queue EXCEPT ![k] = SubSeq(@, i + 1, Len(@)) ]
      PROVE  OthersGoOn(t) /\ SlotsInv' /\ tasks'[t].state = state
  <2>. DEFINE w == q[i]
  <2>1. /\ q \in Seq(1 .. Len(tasks)) /\ i \in 1 .. Len(q) /\ w \in 1 .. Len(tasks)
        /\ w \notin cancelled
    <3>. DEFINE S == 1 .. Len(tasks)
    <3>1. q \in Seq(S)
      BY Before DEF Ids
    <3>2. i \in DOMAIN q /\ q[i] \notin cancelled
      BY <1>3, <1>6 DEF PlacesIn
    <3>. HIDE DEF S, q
    <3>3. i \in 1 .. Len(q) /\ q[i] \in S
      BY <3>1, <3>2
    <3>. QED  BY <3>1, <3>2, <3>3 DEF S
  <2>2. tasks[w].state = "waiting" /\ Kind(w) = k /\ w # t
    BY <1>2, <2>1, Before DEF Slots, Queued, Kind
  <2>3. w \in 1 .. Len(ts)
    BY <1>1, <2>1
  <2>4. /\ tasks' \in Seq(Task) /\ Len(tasks') = Len(ts)
        /\ \A u \in 1 .. Len(ts) : u # w => tasks'[u] = ts[u]
        /\ tasks'[w].state = "given" /\ tasks'[w].key = ts[w].key
        /\ ts[w].closed => tasks'[w].closed
    <3>1. Changed(ts, WithState(ts, w, "given"), w, "given")
      BY <1>1, <2>3, StateSet
    <3>2. tasks' = WithState(ts, w, "given")
      BY <1>6
    <3>. QED  BY <3>1, <3>2 DEF Changed
  <2>. HIDE DEF w
  <2>5. /\ tasks' \in Seq(Task) /\ Len(tasks') = Len(tasks)
        /\ \A u \in 1 .. Len(tasks) : u # t /\ u # w => tasks'[u] = tasks[u]
        /\ tasks'[w].state = "given" /\ tasks'[w].key = tasks[w].key
        /\ tasks[w].closed => tasks'[w].closed
        /\ tasks'[t].state = state /\ tasks'[t].key = tasks[t].key
        /\ tasks[t].closed => tasks'[t].closed
    BY <1>1, <2>1, <2>2, <2>4, Before
  <2>6. OthersGoOn(t)
    BY <1>2, <2>2, <2>5 DEF OthersGoOn, Ended, Ids
  <2>7. Slots(tasks', SubSeq(q, i + 1, Len(q)), cancelled, n - 1, k)
    <3>1. i \in PlacesIn(q, cancelled) /\ w = q[i]
      BY <1>3, <1>6 DEF w
    <3>. HIDE DEF q, k
    <3>2. /\ tasks'[q[i]].key = ts[q[i]].key /\ tasks'[q[i]].state = "given"
          /\ \A u \in 1 .. Len(ts) : u # q[i] => tasks'[u] = ts[u]
      BY <2>4, <3>1
    <3>3. /\ ts \in Seq(Task) /\ tasks' \in Seq(Task) /\ Len(tasks') = Len(ts) /\ n > 0
      BY <1>1, <1>6, <2>4
    <3>. QED  BY <1>4, <3>1, <3>2, <3>3, SlotPassedOn
  <2>8. queue' = [ queue EXCEPT ![k] = SubSeq(q, i + 1, Len(q)) ]
    BY <1>6, Before
  <2>9. \A u \in Ids : Kind(u) # k => tasks'[u] = tasks[u]
    BY <2>2, <2>5 DEF Ids
  <2>10. SlotsInv'
    <3>1. free' = [ free EXCEPT ![k] = n - 1 ]
      BY <1>6
    <3>2. /\ tasks' \in Seq(Task) /\ Len(tasks') = Len(tasks)
          /\ \A u \in Ids : tasks'[u].key = tasks[u].key
      BY <2>6 DEF OthersGoOn
    <3>3. k \in Kinds
      BY Before
    <3>. HIDE DEF k, q
    <3>. QED  BY <2>7, <2>8, <2>9, <3>1, <3>2, <3>3, SlotsOfKind
  <2>. QED  BY <2>5, <2>6, <2>10
<1>7. CASE /\ n > 0 /\ free' = [ free EXCEPT ![k] = n - 1 ]
           /\ \E i \in Places(k) :
                /\ tasks' = WithState(ts, q[i], "given")
                /\ queue' = [ queue EXCEPT ![k] = SubSeq(@, i + 1, Len(@)) ]
  BY <1>6, <1>7
<1>. QED  BY <1>5, <1>7 DEF WakeUpNext, WithState
-----------------------------------------------------------------------------
(* A task that goes on, or ends with its callback to come, keeps the       *)
(* invariant, given that it leaves the slots in order.                     *)
LEMMA GoesOnInv ==
  ASSUME IInv, NEW t \in Ids, OthersGoOn(t), SlotsInv',
         UNCHANGED << table, stopping, cancelled >>,
         callbacks \subseteq callbacks', callbacks' \subseteq callbacks \cup { t },
         t \in callbacks' => tasks'[t].state = "ended"
  PROVE  IInv'
<1>1. Ids' = Ids /\ \A u \in Ids : Ended(u) => Ended(u)'
  BY DEF OthersGoOn, Ids, Ended
<1>2. \A u \in Ids : First(u)' <=> First(u)
  BY <1>1 DEF First, OthersGoOn
<1>3. TypeOK'
  <2>1. \A kind \in Kinds : free'[kind] \in 0 .. Capacity(kind)
    <3>. SUFFICES ASSUME NEW kind \in Kinds  PROVE free'[kind] \in 0 .. Capacity(kind)
      OBVIOUS
    <3>1. free'[kind] \in Nat
          /\ free'[kind] + Cardinality(HoldersIn(tasks', kind)) = Capacity(kind)
      BY DEF SlotsInv, Slots, Accounted, Balanced
    <3>2. Cardinality(HoldersIn(tasks', kind)) \in Nat /\ Capacity(kind) \in Nat
      BY HoldersFinite, CapacityAssumption DEF OthersGoOn, Capacity
    <3>. QED  BY <3>1, <3>2
  <2>2. tasks' \in Seq(Task) /\ Len(tasks') <= MaxTasks
    BY DEF OthersGoOn, IInv, TypeOK
  <2>3. table' \in [ Keys -> { NoTask } \cup Ids' ] /\ cancelled' \subseteq Ids'
        /\ callbacks' \subseteq Ids' /\ stopping' \in { "no", "waiting", "done" }
    BY <1>1 DEF IInv, TypeOK
  <2>4. queue' \in [ Kinds -> Seq(Ids') ]
    BY DEF SlotsInv
  <2>. QED  BY <2>1, <2>2, <2>3, <2>4 DEF TypeOK
<1>4. TableInv'
  BY <1>1 DEF IInv, TypeOK, TableInv, OthersGoOn, Ended, NoTask
<1>5. StopInv'
  BY <1>1, <1>2 DEF IInv, StopInv, OthersGoOn
<1>6. NoStaleEntry'
  BY <1>1 DEF IInv, TypeOK, NoStaleEntry, OthersGoOn, Ended, NoTask
<1>7. CoroutinesClosed'
  BY <1>1 DEF IInv, CoroutinesClosed, OthersGoOn, Ended
<1>8. FirstIsAlone'
  BY <1>1, <1>2 DEF IInv, FirstIsAlone, OthersGoOn
<1>. QED  BY <1>3, <1>4, <1>5, <1>6, <1>7, <1>8 DEF IInv

(* The steps of a task before its callback.                                *)
LEMMA BeginInv ==
  ASSUME IInv, NEW t \in Ids, Begin(t)
  PROVE  IInv'
<1>1. t \notin callbacks
  BY DEF Begin, IInv, TableInv, Ended
<1>. QED  BY <1>1, BeginSlots, GoesOnInv DEF Begin

LEMMA ResumeInv ==
  ASSUME IInv, NEW t \in Ids, Resume(t)
  PROVE  IInv'
<1>1. Changed(tasks, SetState(t, "running"), t, "running")
  BY Before, StateSet DEF SetState, WithState
<1>2. OthersGoOn(t) /\ SlotsInv'
  BY <1>1, WakeUpSlots DEF Resume, Holds
<1>3. t \notin callbacks
  BY DEF Resume, IInv, TableInv, Ended
<1>. QED  BY <1>2, <1>3, GoesOnInv DEF Resume

LEMMA GiveBackEnds ==
  ASSUME IInv, NEW t \in Ids, Holds(t), GiveBack(Kind(t), EndTask(t)),
         callbacks' = callbacks \cup { t }, UNCHANGED << table, stopping, cancelled >>
  PROVE  IInv'
<1>1. Changed(tasks, EndTask(t), t, "ended")
  BY Before, StateSet DEF EndTask, WithEnd
<1>2. OthersGoOn(t) /\ SlotsInv' /\ tasks'[t].state = "ended"
  BY <1>1, WakeUpSlots DEF GiveBack
<1>. QED  BY <1>2, GoesOnInv

LEMMA QuietEnds ==
  ASSUME IInv, NEW t \in Ids, t \in cancelled,
         tasks[t].state \in { "scheduled", "waiting" }, Changed(tasks, tasks', t, "ended"),
         callbacks' = callbacks \cup { t },
         UNCHANGED << table, free, queue, stopping, cancelled >>
  PROVE  IInv'
<1>1. /\ OthersGoOn(t) /\ tasks'[t].state = "ended"
      /\ \A u \in Ids : u # t => tasks'[u] = tasks[u]
  BY Before, AloneGoesOn DEF Ended
<1>2. SlotsInv'
  BY <1>1, QuietSlots DEF Holds
<1>. QED  BY <1>1, <1>2, GoesOnInv

LEMMA FinishInv ==
  ASSUME IInv, NEW t \in Ids, Finish(t)
  PROVE  IInv'
  BY GiveBackEnds DEF Finish, Holds

LEMMA CancelBeforeRunInv ==
  ASSUME IInv, NEW t \in Ids, CancelBeforeRun(t)
  PROVE  IInv'
<1>1. CASE tasks[t].state = "scheduled" /\ tasks' = SetState(t, "ended")
           /\ UNCHANGED << free, queue >>
  <2>1. Changed(tasks, tasks', t, "ended")
    BY <1>1, Before, StateSet DEF SetState, WithState
  <2>. QED  BY <1>1, <2>1, QuietEnds DEF CancelBeforeRun
<1>2. CASE tasks[t].state = "waiting" /\ tasks' = EndTask(t)
           /\ UNCHANGED << free, queue >>
  <2>1. Changed(tasks, tasks', t, "ended")
    BY <1>2, Before, StateSet DEF EndTask, WithEnd
  <2>. QED  BY <1>2, <2>1, QuietEnds DEF CancelBeforeRun
<1>3. CASE tasks[t].state = "given" /\ GiveBack(Kind(t), EndTask(t))
  BY <1>3, GiveBackEnds DEF CancelBeforeRun, Holds
<1>. QED  BY <1>1, <1>2, <1>3 DEF CancelBeforeRun

(* The callback of a task takes nothing out of the table that a first task *)
(* still needs: a first task that is going is alone under its key.         *)
LEMMA OnTaskDoneInv ==
  ASSUME IInv, NEW t \in Ids, OnTaskDone(t)
  PROVE  IInv'
<1>1. Changed(tasks, tasks', t, tasks[t].state) /\ tasks'[t].closed
  BY Before, StateSet DEF OnTaskDone, WithClosed
<1>2. Ended(t) /\ tasks[t].state = "ended"
  BY DEF OnTaskDone, IInv, TableInv, Ended
<1>3. /\ OthersGoOn(t) /\ tasks'[t].state = "ended"
      /\ \A u \in Ids : u # t => tasks'[u] = tasks[u]
  BY <1>1, <1>2, Before, AloneGoesOn
<1>4. SlotsInv'
  BY <1>2, <1>3, QuietSlots DEF OnTaskDone, Holds
<1>5. Ids' = Ids /\ \A u \in Ids : Ended(u) <=> Ended(u)'
  BY <1>2, <1>3 DEF OthersGoOn, Ids, Ended
<1>6. \A u \in Ids : tasks'[u].key = tasks[u].key
  BY <1>3 DEF OthersGoOn
<1>7. \A u \in Ids : First(u)' <=> First(u)
  BY <1>5, <1>6 DEF First
<1>8. /\ table \in [ Keys -> { NoTask } \cup Ids ] /\ tasks[t].key \in Keys
      /\ table' = [ table EXCEPT ![tasks[t].key] = NoTask ]
  BY Basics DEF OnTaskDone, IInv, TypeOK
<1>9. /\ table' \in [ Keys -> { NoTask } \cup Ids ] /\ table'[tasks[t].key] = NoTask
      /\ \A key \in Keys : key # tasks[t].key => table'[key] = table[key]
  BY <1>8
<1>10. callbacks' = callbacks \ { t } /\ UNCHANGED << free, queue, stopping, cancelled >>
  BY DEF OnTaskDone
<1>11. TypeOK'
  <2>1. /\ tasks' \in Seq(Task) /\ Len(tasks') <= MaxTasks
        /\ callbacks' \subseteq Ids' /\ cancelled' \subseteq Ids'
    BY <1>3, <1>5, <1>10 DEF OthersGoOn, IInv, TypeOK
  <2>2. /\ \A kind \in Kinds : free'[kind] \in 0 .. Capacity(kind)
        /\ queue' \in [ Kinds -> Seq(Ids') ] /\ stopping' \in { "no", "waiting", "done" }
    BY <1>5, <1>10 DEF IInv, TypeOK
  <2>. QED  BY <1>5, <1>9, <2>1, <2>2 DEF TypeOK
<1>12. TableInv'
  BY <1>5, <1>6, <1>9, <1>10 DEF IInv, TypeOK, TableInv, NoTask
<1>13. StopInv'
  <2>1. \A u \in Ids : First(u) /\ ~Ended(u) => tasks[u].key # tasks[t].key
    BY <1>2 DEF IInv, FirstIsAlone
  <2>2. \A u \in Ids : tasks[u].key \in Keys
    BY Basics DEF IInv
  <2>. QED  BY <1>5, <1>6, <1>7, <1>9, <1>10, <2>1, <2>2 DEF IInv, StopInv
<1>14. NoStaleEntry'
  <2>. SUFFICES ASSUME NEW key \in Keys, table'[key] # NoTask
                PROVE  tasks'[table'[key]].state = "ended" => table'[key] \in callbacks'
    BY DEF NoStaleEntry, Ended
  <2>1. key # tasks[t].key /\ table'[key] = table[key] /\ table[key] \in Ids
    BY <1>8, <1>9
  <2>2. table[key] # t
    BY <2>1 DEF IInv, TableInv, NoTask, Ids
  <2>. QED  BY <1>5, <1>10, <2>1, <2>2 DEF IInv, NoStaleEntry, NoTask, Ended
<1>15. CoroutinesClosed'
  BY <1>1, <1>3, <1>5, <1>10 DEF IInv, CoroutinesClosed, OthersGoOn
<1>16. FirstIsAlone'
  BY <1>5, <1>6, <1>7 DEF IInv, FirstIsAlone
<1>. QED  BY <1>4, <1>11, <1>12, <1>13, <1>14, <1>15, <1>16 DEF IInv
-----------------------------------------------------------------------------
(* A new task, which has and waits for nothing.                            *)
LEMMA SlotsExtended ==
  ASSUME NEW old \in Seq(Task), NEW r \in Task, r.state = "scheduled",
         NEW q, NEW gone, NEW n, NEW kind, Slots(old, q, gone, n, kind)
  PROVE  Slots(Append(old, r), q, gone, n, kind)
<1>. DEFINE new == Append(old, r)
<1>1. /\ new \in Seq(Task) /\ Len(new) = Len(old) + 1 /\ Len(old) \in Nat
      /\ \A u \in 1 .. Len(old) : new[u] = old[u]
      /\ new[Len(old) + 1] = r
  BY AppendProperties
<1>. HIDE DEF new
<1>2. HoldersIn(new, kind) = HoldersIn(old, kind) /\ WokenIn(new, kind) = WokenIn(old, kind)
  <2>1. \A u \in 1 .. Len(new) : u \in 1 .. Len(old) \/ u = Len(old) + 1
    BY <1>1
  <2>2. \A u \in 1 .. Len(old) : u \in 1 .. Len(new)
    BY <1>1
  <2>. QED  BY <1>1, <2>1, <2>2 DEF HoldersIn, WokenIn
<1>3. Queued(new, q, gone, kind)
  <2>1. q \in Seq(1 .. Len(new))
    BY <1>1 DEF Slots, Queued
  <2>2. \A i \in 1 .. Len(q) : q[i] \in 1 .. Len(old)
    BY DEF Slots, Queued
  <2>. QED  BY <1>1, <2>1, <2>2 DEF Slots, Queued
<1>4. Accounted(new, q, gone, n, kind)
  BY <1>2 DEF Slots, Accounted, Balanced
<1>. QED  BY <1>3, <1>4 DEF Slots, new

(* A second task of a key comes only after the first has ended.            *)
LEMMA SubmitInv ==
  ASSUME IInv, NEW key \in Keys, Submit(key)
  PROVE  IInv'
<1>. SUFFICES ASSUME NEW n, n = Len(tasks) + 1  PROVE IInv'
  OBVIOUS
<1>1. NewTask(key) \in Task /\ NewTask(key).state = "scheduled" /\ NewTask(key).key = key
  BY DEF NewTask, Task
<1>2. tasks \in Seq(Task) /\ Len(tasks) \in Nat /\ Len(tasks) < MaxTasks
  BY Basics DEF IInv, TypeOK, Submit
<1>3. /\ tasks' \in Seq(Task) /\ Len(tasks') = n
      /\ \A u \in Ids : tasks'[u] = tasks[u]
      /\ tasks'[n].state = "scheduled" /\ tasks'[n].key = key
  BY <1>1, <1>2, AppendProperties DEF Submit, Ids
<1>4. Ids' = Ids \cup { n } /\ n \notin Ids /\ n # NoTask
  BY <1>2, <1>3 DEF Ids, NoTask
<1>5. /\ \A u \in Ids : Ended(u)' <=> Ended(u)
      /\ ~Ended(n)'
  BY <1>3 DEF Ended, Ids
<1>6. /\ table \in [ Keys -> { NoTask } \cup Ids ]
      /\ table' = [ table EXCEPT ![key] = n ]
      /\ UNCHANGED << callbacks, free, queue, stopping, cancelled >>
      /\ stopping = "no" /\ (table[key] = NoTask \/ Ended(table[key]))
  BY DEF Submit, Running, IInv, TypeOK
<1>7. /\ table' \in [ Keys -> { NoTask } \cup Ids' ] /\ table'[key] = n
      /\ \A k \in Keys : k # key => table'[k] = table[k]
  BY <1>4, <1>6
<1>8. \A u \in Ids : tasks[u].key \in Keys
  BY Basics DEF IInv
<1>9. \A u \in Ids : First(u)' => First(u)
  BY <1>3, <1>4 DEF First
<1>10. \A u \in Ids : First(u) /\ ~Ended(u) => tasks[u].key # key
  BY <1>6, <1>4 DEF IInv, StopInv, Ids, NoTask
<1>11. First(n)' => \A u \in Ids : tasks[u].key # key
  <2>1. \A u \in Ids : ~(n <= u)
    BY <1>2 DEF Ids
  <2>. QED  BY <1>3, <1>4, <2>1 DEF First
<1>12. SlotsInv'
  <2>1. ASSUME NEW kind \in Kinds
        PROVE  Slots(tasks', queue'[kind], cancelled', free'[kind], kind)
    <3>1. Slots(tasks, queue[kind], cancelled, free[kind], kind)
      BY DEF IInv, SlotsInv
    <3>2. tasks' = Append(tasks, NewTask(key))
      BY DEF Submit
    <3>. QED  BY <1>1, <1>2, <1>6, <3>1, <3>2, SlotsExtended
  <2>2. queue' \in [ Kinds -> Seq(Ids') ]
    BY <1>4, <1>6 DEF IInv, TypeOK
  <2>. QED  BY <1>6, <2>1, <2>2 DEF SlotsInv, IInv
<1>13. TypeOK'
  <2>1. /\ Len(tasks') <= MaxTasks /\ callbacks' \subseteq Ids' /\ cancelled' \subseteq Ids'
    BY <1>2, <1>3, <1>4, <1>6, MaxTasksAssumption DEF IInv, TypeOK
  <2>2. /\ \A kind \in Kinds : free'[kind] \in 0 .. Capacity(kind)
        /\ stopping' \in { "no", "waiting", "done" }
    BY <1>6 DEF IInv, TypeOK
  <2>3. queue' \in [ Kinds -> Seq(Ids') ]
    BY <1>12 DEF SlotsInv
  <2>. QED  BY <1>3, <1>7, <2>1, <2>2, <2>3 DEF TypeOK
<1>14. TableInv'
  BY <1>3, <1>4, <1>5, <1>6, <1>7 DEF IInv, TypeOK, TableInv, NoTask
<1>15. StopInv'
  BY <1>3, <1>4, <1>5, <1>6, <1>7, <1>8, <1>9, <1>10 DEF IInv, StopInv
<1>16. NoStaleEntry'
  <2>. SUFFICES ASSUME NEW k \in Keys, table'[k] # NoTask,
                       tasks'[table'[k]].state = "ended"
                PROVE  table'[k] \in callbacks'
    BY DEF NoStaleEntry, Ended
  <2>1. k # key
    BY <1>3, <1>7
  <2>2. table'[k] = table[k] /\ table[k] \in Ids
    BY <1>6, <1>7, <2>1
  <2>3. Ended(table[k])
    BY <1>5, <2>2 DEF Ended
  <2>. QED  BY <1>6, <2>2, <2>3 DEF IInv, NoStaleEntry
<1>17. CoroutinesClosed'
  BY <1>3, <1>4, <1>5, <1>6 DEF IInv, CoroutinesClosed
<1>18. FirstIsAlone'
  BY <1>3, <1>4, <1>5, <1>9, <1>10, <1>11 DEF IInv, FirstIsAlone
<1>. QED  BY <1>12, <1>13, <1>14, <1>15, <1>16, <1>17, <1>18 DEF IInv
-----------------------------------------------------------------------------
(* Nothing but the cancelled tasks and the table change in a shutdown.     *)
LEMMA ShutdownInv ==
  ASSUME IInv, Shutdown
  PROVE  IInv'
<1>1. /\ UNCHANGED << tasks, table, callbacks, free, queue >>
      /\ cancelled' = Registered /\ stopping' \in { "waiting", "done" }
      /\ stopping' = "done" => Registered = {}
      /\ cancelled = {}
  BY DEF Shutdown, IInv, StopInv
<1>2. Ids' = Ids /\ \A u \in Ids : (Ended(u)' <=> Ended(u)) /\ (First(u)' <=> First(u))
  BY <1>1 DEF Ids, Ended, First
<1>3. SlotsInv'
  <2>1. ASSUME NEW kind \in Kinds
        PROVE  Slots(tasks', queue'[kind], cancelled', free'[kind], kind)
    <3>1. Slots(tasks, queue[kind], {}, free[kind], kind)
      BY <1>1 DEF IInv, SlotsInv
    <3>2. Queued(tasks, queue[kind], Registered, kind)
      BY <3>1 DEF Slots, Queued
    <3>3. PlacesIn(queue[kind], Registered) \subseteq PlacesIn(queue[kind], {})
      BY DEF PlacesIn
    <3>4. Accounted(tasks, queue[kind], Registered, free[kind], kind)
      BY <3>1, <3>3 DEF Slots, Accounted
    <3>. QED  BY <1>1, <3>2, <3>4 DEF Slots
  <2>. QED  BY <1>1, <1>2, <2>1 DEF SlotsInv, IInv
<1>4. TypeOK'
  BY <1>1, <1>2 DEF IInv, TypeOK, Registered
<1>5. StopInv'
  <2>1. \A u \in Ids : First(u) /\ ~Ended(u) => u \in Registered
    BY DEF IInv, StopInv, Registered
  <2>. QED  BY <1>1, <1>2, <2>1 DEF IInv, StopInv
<1>6. TableInv' /\ NoStaleEntry' /\ CoroutinesClosed' /\ FirstIsAlone'
  <2>1. TableInv' /\ NoStaleEntry'
    BY <1>1 DEF IInv, TableInv, NoStaleEntry, Ended
  <2>2. CoroutinesClosed'
    BY <1>1, <1>2 DEF IInv, CoroutinesClosed
  <2>3. FirstIsAlone'
    BY <1>1, <1>2 DEF IInv, FirstIsAlone
  <2>. QED  BY <2>1, <2>2, <2>3
<1>. QED  BY <1>3, <1>4, <1>5, <1>6 DEF IInv

(* A first task that is going was cancelled, and the shutdown waits for it.*)
LEMMA ShutdownReturnsInv ==
  ASSUME IInv, ShutdownReturns
  PROVE  IInv'
<1>1. /\ UNCHANGED << tasks, callbacks, free, queue, cancelled >>
      /\ table' = [ key \in Keys |-> NoTask ] /\ stopping' = "done"
      /\ \A t \in cancelled : Ended(t)
      /\ stopping = "waiting"
  BY DEF ShutdownReturns
<1>2. Ids' = Ids /\ \A u \in Ids : (Ended(u)' <=> Ended(u)) /\ (First(u)' <=> First(u))
  BY <1>1 DEF Ids, Ended, First
<1>3. SlotsInv'
  BY <1>1, <1>2 DEF IInv, SlotsInv
<1>4. TypeOK'
  BY <1>1, <1>2 DEF IInv, TypeOK
<1>5. StopInv'
  <2>1. \A u \in Ids : First(u) => Ended(u)
    BY <1>1 DEF IInv, StopInv
  <2>. QED  BY <1>1, <1>2, <2>1 DEF StopInv
<1>6. TableInv' /\ NoStaleEntry' /\ CoroutinesClosed' /\ FirstIsAlone'
  <2>1. TableInv' /\ NoStaleEntry'
    BY <1>1 DEF IInv, TableInv, NoStaleEntry, Ended
  <2>2. CoroutinesClosed'
    BY <1>1, <1>2 DEF IInv, CoroutinesClosed
  <2>3. FirstIsAlone'
    BY <1>1, <1>2 DEF IInv, FirstIsAlone
  <2>. QED  BY <2>1, <2>2, <2>3
<1>. QED  BY <1>3, <1>4, <1>5, <1>6 DEF IInv

(* Nothing happens.                                                        *)
LEMMA StutterInv ==
  ASSUME IInv, UNCHANGED vars
  PROVE  IInv'
<1>1. /\ UNCHANGED << tasks, table, callbacks, free, queue, stopping, cancelled >>
      /\ Ids' = Ids
      /\ \A u \in Ids : (Ended(u)' <=> Ended(u)) /\ (First(u)' <=> First(u))
  BY DEF vars, Ids, Ended, First
<1>2. TypeOK' /\ SlotsInv'
  BY <1>1 DEF IInv, TypeOK, SlotsInv
<1>3. TableInv' /\ NoStaleEntry'
  BY <1>1 DEF IInv, TableInv, NoStaleEntry, Ended
<1>4. StopInv' /\ CoroutinesClosed' /\ FirstIsAlone'
  BY <1>1 DEF IInv, StopInv, CoroutinesClosed, FirstIsAlone
<1>. QED  BY <1>2, <1>3, <1>4 DEF IInv

(* The process starts without a task, all slots free.                      *)
LEMMA InitInv ==
  ASSUME Init
  PROVE  IInv
<1>1. Len(tasks) = 0 /\ Ids = {} /\ tasks \in Seq(Task)
  BY DEF Init, Ids
<1>2. \A kind \in Kinds : Capacity(kind) \in Nat
  BY CapacityAssumption DEF Capacity
<1>3. TypeOK
  <2>1. queue \in [ Kinds -> Seq(Ids) ]
    BY DEF Init
  <2>. QED  BY <1>1, <1>2, <2>1, MaxTasksAssumption DEF Init, TypeOK
<1>4. SlotsInv
  <2>1. ASSUME NEW kind \in Kinds
        PROVE  Slots(tasks, queue[kind], cancelled, free[kind], kind)
    <3>1. queue[kind] = << >> /\ free[kind] = Capacity(kind)
      BY DEF Init
    <3>2. HoldersIn(tasks, kind) = {}
      BY <1>1 DEF HoldersIn
    <3>3. Queued(tasks, queue[kind], cancelled, kind)
      BY <3>1 DEF Queued
    <3>4. PlacesIn(queue[kind], cancelled) = {}
      BY <3>1 DEF PlacesIn
    <3>5. Accounted(tasks, queue[kind], cancelled, free[kind], kind)
      BY <1>2, <3>1, <3>2, <3>4, FS_EmptySet DEF Accounted, Balanced
    <3>. QED  BY <3>3, <3>5 DEF Slots
  <2>2. free \in [ Kinds -> Nat ]
    BY <1>2 DEF Init
  <2>. QED  BY <1>3, <2>1, <2>2 DEF SlotsInv, TypeOK
<1>5. TableInv /\ StopInv /\ NoStaleEntry /\ CoroutinesClosed /\ FirstIsAlone
  BY <1>1 DEF Init, TableInv, StopInv, NoStaleEntry, CoroutinesClosed, FirstIsAlone
<1>. QED  BY <1>3, <1>4, <1>5 DEF IInv
-----------------------------------------------------------------------------
(* Whatever is submitted, however tasks end and whenever the process       *)
(* stops, the invariant holds (background.py 44-156).                      *)
THEOREM Invariance == Spec => []IInv
<1>1. Init => IInv
  BY InitInv
<1>2. IInv /\ [Next]_vars => IInv'
  <2>. SUFFICES ASSUME IInv, [Next]_vars  PROVE IInv'
    OBVIOUS
  <2>1. CASE \E key \in Keys : Submit(key)
    BY <2>1, SubmitInv
  <2>2. ASSUME NEW t \in Ids, TaskStep(t)  PROVE IInv'
    <3>1. CASE Begin(t)
      BY <3>1, BeginInv
    <3>2. CASE Resume(t)
      BY <3>2, ResumeInv
    <3>3. CASE Finish(t)
      BY <3>3, FinishInv
    <3>4. CASE CancelBeforeRun(t)
      BY <3>4, CancelBeforeRunInv
    <3>5. CASE OnTaskDone(t)
      BY <3>5, OnTaskDoneInv
    <3>. QED  BY <2>2, <3>1, <3>2, <3>3, <3>4, <3>5 DEF TaskStep
  <2>3. CASE Shutdown
    BY <2>3, ShutdownInv
  <2>4. CASE ShutdownReturns
    BY <2>4, ShutdownReturnsInv
  <2>5. CASE UNCHANGED vars
    BY <2>5, StutterInv
  <2>. QED  BY <2>1, <2>2, <2>3, <2>4, <2>5 DEF Next
<1>. QED  BY <1>1, <1>2, PTL DEF Spec

(* The table, the semaphores and their queues only ever hold tasks that    *)
(* were created, and no semaphore exceeds its capacity.                    *)
THEOREM TypeCorrect == Spec => []TypeOK
<1>1. IInv => TypeOK
  BY DEF IInv
<1>. QED  BY <1>1, Invariance, PTL

(* No slot is lost or given twice, for any capacities, and nobody waits    *)
(* beside a free slot unless a woken task has still to wake the next       *)
(* (background.py 44-52, 112-129).                                         *)
THEOREM SlotsAreAccounted == Spec => []SlotsAccounted
<1>1. IInv => SlotsAccounted
  <2>. SUFFICES ASSUME IInv, NEW kind \in Kinds
                PROVE  /\ free[kind] + Cardinality(Holders(kind)) = Capacity(kind)
                       /\ Places(kind) # {} /\ free[kind] > 0 => Woken(kind) # {}
    BY DEF SlotsAccounted
  <2>1. Accounted(tasks, queue[kind], cancelled, free[kind], kind)
    BY DEF IInv, SlotsInv, Slots
  <2>2. Holders(kind) = HoldersIn(tasks, kind)
    BY DEF Holders, HoldersIn, Holds, Kind, Ids
  <2>3. Places(kind) = PlacesIn(queue[kind], cancelled) /\ Woken(kind) = WokenIn(tasks, kind)
    BY DEF Places, PlacesIn, Woken, WokenIn, Kind, Ids
  <2>. QED  BY <2>1, <2>2, <2>3 DEF Accounted, Balanced
<1>. QED  BY <1>1, Invariance, PTL

(* The table forgets every task that ended, once its callback has run      *)
(* (background.py 54-67).                                                  *)
THEOREM TableForgets == Spec => []NoStaleEntry
<1>1. IInv => NoStaleEntry
  BY DEF IInv
<1>. QED  BY <1>1, Invariance, PTL

(* No coroutine stays open, not that of a task cancelled before it began   *)
(* either (background.py 54-67, 112-129).                                  *)
THEOREM CoroutinesAreClosed == Spec => []CoroutinesClosed
<1>1. IInv => CoroutinesClosed
  BY DEF IInv
<1>. QED  BY <1>1, Invariance, PTL

(* The first task of an application or a document has no second beside it  *)
(* (background.py 69-110).                                                 *)
THEOREM FirstTaskIsAlone == Spec => []FirstIsAlone
<1>1. IInv => FirstIsAlone
  BY DEF IInv
<1>. QED  BY <1>1, Invariance, PTL

(* The shutdown does not return before every first task has ended: it      *)
(* finds each of them in the table and waits for it (background.py         *)
(* 131-156).                                                               *)
THEOREM ShutdownLeavesNoFirstTask == Spec => []NoFirstTaskLeft
<1>1. IInv => NoFirstTaskLeft
  BY DEF IInv, StopInv, NoFirstTaskLeft
<1>. QED  BY <1>1, Invariance, PTL
-----------------------------------------------------------------------------
(***************************************************************************)
(* Nobody waits in vain                                                    *)
(***************************************************************************)
(* Who waits for a slot and was not cancelled, and has a place in the      *)
(* queue from which it is given one.                                       *)
Waits(t) == tasks[t].state = "waiting" /\ t \notin cancelled

HasPlace(t) == \E i \in 1 .. Len(queue[Kind(t)]) : queue[Kind(t)][i] = t

WaitersInv == \A t \in Ids : Waits(t) => HasPlace(t)

(* Who waits is in the queue, and behind a task of its own kind that has a *)
(* slot to give back: no wakeup is lost, tasks that wait never wait for    *)
(* one another, and OCR never waits for a workflow                         *)
(* (background.py 44-52, 112-129).                                         *)
NobodyWaitsInVain ==
  \A t \in Ids : Waits(t) => HasPlace(t) /\ Holders(Kind(t)) # {}

(* What a task has still to do: every step of a task brings one nearer to  *)
(* its end and moves none back, also the one that is handed a slot.        *)
Rank(t) ==
  CASE tasks[t].state = "scheduled" -> 5
    [] tasks[t].state = "waiting"   -> 4
    [] tasks[t].state = "given"     -> 3
    [] tasks[t].state = "running"   -> 2
    [] OTHER                        -> IF t \in callbacks THEN 1 ELSE 0

(* No step moves a task back, and a step of a task moves it on: tasks end  *)
(* after five steps each, cancelled or not (background.py 54-67, 112-156). *)
TasksGetOn ==
  [][ \A t \in Ids : /\ Rank(t)' <= Rank(t)
                     /\ TaskStep(t) => Rank(t)' < Rank(t) ]_vars

(* A free slot goes to one task that waits, or to none.                    *)
Given(t, i) ==
  LET w == queue[Kind(t)][i]
  IN  /\ w \in Ids /\ w # t /\ Waits(w) /\ Kind(w) = Kind(t)
      /\ tasks'[w].state = "given" /\ tasks'[w].key = tasks[w].key
      /\ \A u \in Ids : u # t /\ u # w => tasks'[u] = tasks[u]
      /\ queue' = [ queue EXCEPT ![Kind(t)] = SubSeq(@, i + 1, Len(@)) ]

LEMMA WakeUpMoves ==
  ASSUME IInv, NEW t \in Ids, Holds(t), NEW ts, NEW n, NEW state,
         Changed(tasks, ts, t, state), WakeUpNext(Kind(t), n, ts)
  PROVE  /\ Len(tasks') = Len(tasks)
         /\ tasks'[t].state = state /\ tasks'[t].key = tasks[t].key
         /\ \/ UNCHANGED queue /\ \A u \in Ids : u # t => tasks'[u] = tasks[u]
            \/ \E i \in Places(Kind(t)) :
                 Given(t, i) /\ \A j \in Places(Kind(t)) : i <= j
<1>. DEFINE k == Kind(t)
            q == queue[k]
<1>1. /\ ts \in Seq(Task) /\ Len(ts) = Len(tasks)
      /\ \A u \in 1 .. Len(tasks) : u # t => ts[u] = tasks[u]
      /\ ts[t].state = state /\ ts[t].key = tasks[t].key
  BY DEF Changed
<1>2. CASE tasks' = ts /\ UNCHANGED queue
  BY <1>1, <1>2 DEF Ids
<1>3. ASSUME NEW i \in Places(k), \A j \in Places(k) : i <= j,
             tasks' = WithState(ts, q[i], "given"),
             queue' = [ queue EXCEPT ![k] = SubSeq(@, i + 1, Len(@)) ]
      PROVE  /\ Given(t, i) /\ Len(tasks') = Len(tasks)
             /\ tasks'[t].state = state /\ tasks'[t].key = tasks[t].key
  <2>. DEFINE w == q[i]
  <2>1. /\ q \in Seq(1 .. Len(tasks)) /\ i \in 1 .. Len(q) /\ w \in 1 .. Len(tasks)
        /\ w \notin cancelled
    BY <1>3, Before DEF Places, Ids
  <2>2. Waits(w) /\ Kind(w) = k /\ w # t
    BY <2>1, Before DEF Slots, Queued, Kind, Holds, Waits
  <2>3. Changed(ts, WithState(ts, w, "given"), w, "given")
    BY <1>1, <2>1, StateSet
  <2>. HIDE DEF w
  <2>4. /\ Len(tasks') = Len(tasks)
        /\ tasks'[w].state = "given" /\ tasks'[w].key = ts[w].key
        /\ \A u \in 1 .. Len(tasks) : u # w => tasks'[u] = ts[u]
    <3>1. tasks' = WithState(ts, w, "given")
      BY <1>3 DEF w
    <3>. QED  BY <1>1, <2>3, <3>1 DEF Changed
  <2>5. tasks'[w].key = tasks[w].key /\ tasks'[t] = ts[t]
    BY <1>1, <2>1, <2>2, <2>4, Before
  <2>6. \A u \in Ids : u # t /\ u # w => tasks'[u] = tasks[u]
    BY <1>1, <2>4 DEF Ids
  <2>7. Given(t, i)
    BY <1>3, <2>1, <2>2, <2>4, <2>5, <2>6 DEF Given, w, Ids
  <2>. QED  BY <1>1, <2>4, <2>5, <2>7
<1>. QED  BY <1>2, <1>3 DEF WakeUpNext, WithState

(* What a step of a task does to the tasks and the queues.                 *)
Alone(t, states) ==
  /\ Len(tasks') = Len(tasks) /\ tasks'[t].state \in states
  /\ tasks'[t].key = tasks[t].key
  /\ \A u \in Ids : u # t => tasks'[u] = tasks[u]

Handing(t) ==
  /\ Holds(t) /\ Len(tasks') = Len(tasks)
  /\ tasks'[t].key = tasks[t].key
  /\ \/ tasks'[t].state = "ended" /\ callbacks' = callbacks \cup { t }
     \/ tasks[t].state = "given" /\ tasks'[t].state = "running" /\ UNCHANGED callbacks
  /\ \E i \in Places(Kind(t)) :
       Given(t, i) /\ \A j \in Places(Kind(t)) : i <= j

TaskMove(t) ==
  \/ /\ tasks[t].state = "scheduled" /\ Alone(t, { "running" })
     /\ UNCHANGED << queue, callbacks >>
  \/ /\ tasks[t].state = "scheduled" /\ Alone(t, { "waiting" })
     /\ queue' = [ queue EXCEPT ![Kind(t)] = Append(@, t) ] /\ UNCHANGED callbacks
  \/ /\ tasks[t].state = "given" /\ Alone(t, { "running" })
     /\ UNCHANGED << queue, callbacks >>
  \/ /\ ~Ended(t) /\ Alone(t, { "ended" })
     /\ UNCHANGED queue /\ callbacks' = callbacks \cup { t }
  \/ /\ Ended(t) /\ t \in callbacks /\ Alone(t, { "ended" })
     /\ UNCHANGED queue /\ callbacks' = callbacks \ { t }
  \/ Handing(t)

LEMMA ChangedAlone ==
  ASSUME NEW t \in Ids, NEW state, Changed(tasks, tasks', t, state)
  PROVE  Alone(t, { state })
  BY DEF Changed, Alone, Ids

LEMMA TaskMoves ==
  ASSUME IInv, NEW t \in Ids, TaskStep(t)
  PROVE  TaskMove(t) /\ UNCHANGED cancelled
<1>1. CASE Begin(t)
  <2>1. CASE tasks' = SetState(t, "running") /\ UNCHANGED queue
    <3>1. Changed(tasks, tasks', t, "running")
      BY <2>1, Before, StateSet DEF SetState, WithState
    <3>. QED  BY <1>1, <2>1, <3>1, ChangedAlone DEF Begin, TaskMove
  <2>2. CASE /\ tasks' = SetState(t, "waiting")
             /\ queue' = [ queue EXCEPT ![Kind(t)] = Append(@, t) ]
    <3>1. Changed(tasks, tasks', t, "waiting")
      BY <2>2, Before, StateSet DEF SetState, WithState
    <3>. QED  BY <1>1, <2>2, <3>1, ChangedAlone DEF Begin, TaskMove
  <2>. QED  BY <1>1, <2>1, <2>2 DEF Begin
<1>2. CASE Resume(t)
  <2>1. Changed(tasks, SetState(t, "running"), t, "running")
    BY Before, StateSet DEF SetState, WithState
  <2>. QED  BY <1>2, <2>1, WakeUpMoves DEF Resume, TaskMove, Handing, Alone, Holds
<1>3. ASSUME Holds(t), GiveBack(Kind(t), EndTask(t)), callbacks' = callbacks \cup { t }
      PROVE  TaskMove(t)
  <2>1. Changed(tasks, EndTask(t), t, "ended")
    BY Before, StateSet DEF EndTask, WithEnd
  <2>. QED  BY <1>3, <2>1, WakeUpMoves DEF GiveBack, TaskMove, Handing, Alone, Holds, Ended
<1>4. CASE Finish(t)
  BY <1>3, <1>4 DEF Finish, Holds
<1>5. CASE CancelBeforeRun(t)
  <2>1. CASE /\ tasks[t].state \in { "scheduled", "waiting" } /\ UNCHANGED queue
             /\ tasks' = SetState(t, "ended") \/ tasks' = EndTask(t)
    <3>1. Changed(tasks, tasks', t, "ended")
      <4>1. tasks' = WithState(tasks, t, "ended") \/ tasks' = WithEnd(tasks, t)
        BY <2>1 DEF SetState, WithState, EndTask, WithEnd
      <4>. QED  BY <4>1, Before, StateSet
    <3>. QED  BY <1>5, <2>1, <3>1, ChangedAlone DEF CancelBeforeRun, TaskMove, Ended
  <2>2. CASE tasks[t].state = "given" /\ GiveBack(Kind(t), EndTask(t))
    BY <1>3, <1>5, <2>2 DEF CancelBeforeRun, Holds
  <2>. QED  BY <1>5, <2>1, <2>2 DEF CancelBeforeRun
<1>6. CASE OnTaskDone(t)
  <2>1. Changed(tasks, tasks', t, tasks[t].state)
    BY <1>6, Before, StateSet DEF OnTaskDone, WithClosed
  <2>2. Ended(t) /\ tasks[t].state = "ended"
    BY <1>6 DEF OnTaskDone, IInv, TableInv, Ended
  <2>. QED  BY <1>6, <2>1, <2>2, ChangedAlone DEF OnTaskDone, TaskMove
<1>. QED  BY <1>1, <1>2, <1>4, <1>5, <1>6
          DEF TaskStep, Begin, Resume, Finish, CancelBeforeRun, OnTaskDone

(* Every such step lowers the rank of its task, and raises none.           *)
LEMMA TaskStepLowers ==
  ASSUME IInv, NEW t \in Ids, TaskStep(t)
  PROVE  /\ Rank(t)' < Rank(t)
         /\ \A u \in Ids : Rank(u)' <= Rank(u)
<1>1. TaskMove(t)
  BY TaskMoves
<1>2. tasks[t].state \in { "scheduled", "waiting", "given", "running", "ended" }
  BY Basics DEF IInv, Task
<1>3. Rank(t)' < Rank(t)
  <2>1. CASE Handing(t)
    BY <2>1 DEF Handing, Holds, Rank
  <2>2. CASE ~Handing(t)
    BY <1>1, <1>2, <2>2 DEF TaskMove, Alone, Ended, Rank
  <2>. QED  BY <2>1, <2>2
<1>4. ASSUME NEW u \in Ids, u # t PROVE Rank(u)' <= Rank(u)
  <2>1. u \in callbacks' <=> u \in callbacks
    BY <1>1, <1>4 DEF TaskMove, Handing
  <2>2. \/ tasks'[u] = tasks[u]
        \/ tasks[u].state = "waiting" /\ tasks'[u].state = "given"
    BY <1>1, <1>4 DEF TaskMove, Handing, Alone, Given, Waits
  <2>3. Rank(u) \in 0 .. 5
    BY DEF Rank
  <2>. QED  BY <2>1, <2>2, <2>3 DEF Rank
<1>5. Rank(t) \in 0 .. 5 /\ Rank(t)' \in 0 .. 5
  BY DEF Rank
<1>. QED  BY <1>3, <1>4, <1>5

(* What somebody else does moves no task back.                             *)
LEMMA OthersMoveNothing ==
  ASSUME IInv, [Next]_vars, \A t \in Ids : ~TaskStep(t)
  PROVE  \A u \in Ids : Rank(u)' = Rank(u)
<1>1. CASE \E key \in Keys : Submit(key)
  <2>1. PICK key \in Keys : Submit(key)
    BY <1>1
  <2>2. \A u \in Ids : tasks'[u] = tasks[u]
    BY <2>1, AppendProperties DEF Submit, Ids, NewTask, Task, IInv, TypeOK
  <2>. QED  BY <2>1, <2>2 DEF Submit, Rank
<1>2. CASE Shutdown \/ ShutdownReturns \/ UNCHANGED vars
  BY <1>2 DEF Shutdown, ShutdownReturns, vars, Rank
<1>. QED  BY <1>1, <1>2 DEF Next
-----------------------------------------------------------------------------
(* Who is given a slot was the first that waited: the others keep their    *)
(* places.                                                                 *)
LEMMA HandingKeepsPlaces ==
  ASSUME IInv, WaitersInv, NEW t \in Ids, Handing(t), UNCHANGED cancelled
  PROVE  WaitersInv'
<1>. DEFINE k == Kind(t)
            q == queue[k]
<1>1. PICK i \in Places(k) : Given(t, i) /\ \A j \in Places(k) : i <= j
  BY DEF Handing
<1>2. /\ queue \in [ Kinds -> Seq(Ids) ] /\ k \in Kinds
      /\ q \in Seq(Ids) /\ i \in 1 .. Len(q) /\ Len(q) \in Nat
  BY Before DEF Places
<1>3. queue' = [ queue EXCEPT ![k] = SubSeq(q, i + 1, Len(q)) ]
  BY <1>1, <1>2 DEF Given
<1>4. Ids' = Ids
  BY DEF Handing, Ids
<1>. SUFFICES ASSUME NEW u \in Ids, Waits(u)'
              PROVE  HasPlace(u)'
  BY <1>4 DEF WaitersInv
<1>5. u # t /\ u # q[i] /\ tasks'[u] = tasks[u]
  BY <1>1 DEF Handing, Given, Waits
<1>6. Waits(u) /\ Kind(u)' = Kind(u) /\ Kind(u) \in Kinds
  BY <1>5, Before DEF Waits, Kind
<1>7. PICK m \in 1 .. Len(queue[Kind(u)]) : queue[Kind(u)][m] = u
  BY <1>6 DEF WaitersInv, HasPlace
<1>8. CASE Kind(u) # k
  <2>1. queue'[Kind(u)] = queue[Kind(u)]
    BY <1>2, <1>3, <1>6, <1>8
  <2>. QED  BY <1>6, <1>7, <2>1 DEF HasPlace
<1>9. CASE Kind(u) = k
  <2>1. m \in 1 .. Len(q) /\ q[m] = u
    BY <1>7, <1>9
  <2>2. m \in Places(k)
    BY <1>2, <1>6, <2>1 DEF Places, Waits
  <2>3. i < m
    BY <1>1, <1>2, <1>5, <2>1, <2>2
  <2>4. queue'[k] = SubSeq(q, i + 1, Len(q))
    BY <1>2, <1>3
  <2>. HIDE DEF q, k
  <2>5. m - i \in 1 .. Len(q) - i /\ i + (m - i) = m
    BY <1>2, <2>1, <2>3
  <2>6. /\ Len(SubSeq(q, i + 1, Len(q))) = Len(q) - i
        /\ \A n \in 1 .. Len(q) - i : SubSeq(q, i + 1, Len(q))[n] = q[i + n]
    BY <1>2
  <2>7. /\ m - i \in 1 .. Len(queue'[k])
        /\ queue'[k][m - i] = u
    BY <2>1, <2>4, <2>5, <2>6
  <2>. QED  BY <1>6, <1>9, <2>7 DEF HasPlace
<1>. QED  BY <1>8, <1>9

(* A task that changes alone leaves everybody else's place, and has one    *)
(* itself if it waits.                                                     *)
LEMMA AloneKeepsPlaces ==
  ASSUME IInv, WaitersInv, NEW t \in Ids, UNCHANGED cancelled,
         \/ /\ Alone(t, { "running", "ended" })
            /\ UNCHANGED queue
         \/ /\ Alone(t, { "waiting" })
            /\ queue' = [ queue EXCEPT ![Kind(t)] = Append(@, t) ]
  PROVE  WaitersInv'
<1>1. Ids' = Ids
  BY DEF Alone, Ids
<1>. SUFFICES ASSUME NEW u \in Ids, Waits(u)'
              PROVE  HasPlace(u)'
  BY <1>1 DEF WaitersInv
<1>2. /\ Kind(u)' = Kind(u) /\ Kind(u) \in Kinds /\ Kind(t) \in Kinds
      /\ queue \in [ Kinds -> Seq(Ids) ]
  <2>1. tasks'[u].key = tasks[u].key
    BY DEF Alone
  <2>. QED  BY <2>1, Before DEF Kind
<1>3. CASE Alone(t, { "running", "ended" }) /\ UNCHANGED queue
  <2>1. u # t
    BY <1>3 DEF Alone, Waits
  <2>2. Waits(u) /\ HasPlace(u)
    BY <1>3, <2>1 DEF Alone, Waits, WaitersInv
  <2>. QED  BY <1>2, <1>3, <2>2 DEF HasPlace
<1>4. CASE /\ Alone(t, { "waiting" })
           /\ queue' = [ queue EXCEPT ![Kind(t)] = Append(@, t) ]
  <2>. DEFINE q == queue[Kind(t)]
  <2>1. q \in Seq(Ids) /\ Len(q) \in Nat
    BY <1>2
  <2>2. queue'[Kind(t)] = Append(q, t)
    BY <1>2, <1>4
  <2>3. /\ Len(Append(q, t)) = Len(q) + 1 /\ Append(q, t)[Len(q) + 1] = t
        /\ \A m \in 1 .. Len(q) : Append(q, t)[m] = q[m]
    BY <2>1
  <2>4. CASE u = t
    BY <1>2, <2>1, <2>2, <2>3, <2>4 DEF HasPlace
  <2>5. CASE u # t
    <3>1. Waits(u) /\ HasPlace(u)
      BY <1>4, <2>5 DEF Alone, Waits, WaitersInv
    <3>2. PICK m \in 1 .. Len(queue[Kind(u)]) : queue[Kind(u)][m] = u
      BY <3>1 DEF HasPlace
    <3>3. CASE Kind(u) = Kind(t)
      <4>1. m \in 1 .. Len(q) /\ q[m] = u
        BY <3>2, <3>3
      <4>. HIDE DEF q
      <4>2. m \in 1 .. Len(Append(q, t)) /\ Append(q, t)[m] = u
        BY <2>1, <2>3, <4>1
      <4>. QED  BY <1>2, <2>2, <3>3, <4>2 DEF HasPlace
    <3>4. CASE Kind(u) # Kind(t)
      <4>1. queue'[Kind(u)] = queue[Kind(u)]
        BY <1>2, <1>4, <3>4
      <4>. QED  BY <1>2, <3>2, <4>1 DEF HasPlace
    <3>. QED  BY <3>3, <3>4
  <2>. QED  BY <2>4, <2>5
<1>. QED  BY <1>3, <1>4

(* Submissions and the shutdown leave the queues alone.                    *)
LEMMA OthersKeepPlaces ==
  ASSUME IInv, WaitersInv, [Next]_vars, \A t \in Ids : ~TaskStep(t)
  PROVE  WaitersInv'
<1>1. CASE \E key \in Keys : Submit(key)
  <2>1. PICK key \in Keys : Submit(key)
    BY <1>1
  <2>2. /\ tasks' = Append(tasks, NewTask(key)) /\ UNCHANGED << queue, cancelled >>
        /\ NewTask(key).state = "scheduled" /\ tasks \in Seq(Task) /\ Len(tasks) \in Nat
    BY <2>1, Basics DEF Submit, NewTask, IInv, TypeOK
  <2>3. /\ \A u \in Ids : tasks'[u] = tasks[u]
        /\ Ids' = Ids \cup { Len(tasks) + 1 } /\ tasks'[Len(tasks) + 1].state = "scheduled"
    <3>1. NewTask(key) \in Task
      BY DEF NewTask, Task
    <3>. QED  BY <2>2, <3>1, AppendProperties DEF Ids
  <2>4. ASSUME NEW u \in Ids', Waits(u)' PROVE HasPlace(u)'
    <3>1. u \in Ids
      BY <2>3, <2>4 DEF Waits
    <3>2. Waits(u) /\ Kind(u)' = Kind(u)
      BY <2>2, <2>3, <2>4, <3>1 DEF Waits, Kind
    <3>3. HasPlace(u)
      BY <3>1, <3>2 DEF WaitersInv
    <3>. QED  BY <2>2, <3>2, <3>3 DEF HasPlace
  <2>. QED  BY <2>4 DEF WaitersInv
<1>2. CASE Shutdown
  <2>1. cancelled = {} /\ UNCHANGED << tasks, queue >>
    BY <1>2 DEF Shutdown, IInv, StopInv
  <2>. QED  BY <2>1 DEF WaitersInv, Waits, HasPlace, Kind, Ids
<1>3. CASE ShutdownReturns \/ UNCHANGED vars
  BY <1>3 DEF ShutdownReturns, vars, WaitersInv, Waits, HasPlace, Kind, Ids
<1>. QED  BY <1>1, <1>2, <1>3 DEF Next

LEMMA StepWaiters ==
  ASSUME IInv, WaitersInv, [Next]_vars
  PROVE  WaitersInv'
<1>1. ASSUME NEW t \in Ids, TaskStep(t) PROVE WaitersInv'
  <2>1. TaskMove(t) /\ UNCHANGED cancelled
    BY <1>1, TaskMoves
  <2>2. CASE Handing(t)
    BY <2>1, <2>2, HandingKeepsPlaces
  <2>3. CASE ~Handing(t)
    <3>1. \/ Alone(t, { "running", "ended" }) /\ UNCHANGED queue
          \/ /\ Alone(t, { "waiting" })
             /\ queue' = [ queue EXCEPT ![Kind(t)] = Append(@, t) ]
      BY <2>1, <2>3 DEF TaskMove, Alone
    <3>. QED  BY <2>1, <3>1, AloneKeepsPlaces
  <2>. QED  BY <2>2, <2>3
<1>2. CASE \A t \in Ids : ~TaskStep(t)
  BY <1>2, OthersKeepPlaces
<1>. QED  BY <1>1, <1>2

(* Behind whom one waits: without a free slot all of the capacity, which   *)
(* is at least one, is with tasks; with one a woken task has still to      *)
(* resume.                                                                 *)
LEMMA WaitersWaitForHolders ==
  ASSUME IInv, WaitersInv
  PROVE  NobodyWaitsInVain
<1>. SUFFICES ASSUME NEW t \in Ids, Waits(t)
              PROVE  HasPlace(t) /\ Holders(Kind(t)) # {}
  BY DEF NobodyWaitsInVain
<1>1. HasPlace(t)
  BY DEF WaitersInv
<1>. DEFINE k == Kind(t)
            q == queue[k]
<1>2. k \in Kinds /\ q \in Seq(Ids) /\ Slots(tasks, q, cancelled, free[k], k)
  BY Before
<1>3. PlacesIn(q, cancelled) # {}
  BY <1>1, <1>2 DEF HasPlace, PlacesIn, Waits
<1>4. Cardinality(HoldersIn(tasks, k)) \in Nat /\ Capacity(k) # 0 /\ Capacity(k) \in Nat
  BY HoldersFinite, CapacityAssumption DEF IInv, TypeOK, Capacity
<1>5. Accounted(tasks, q, cancelled, free[k], k)
  BY <1>2 DEF Slots
<1>6. HoldersIn(tasks, k) # {}
  <2>. HIDE DEF q, k
  <2>1. CASE free[k] = 0
    <3>1. Cardinality(HoldersIn(tasks, k)) # 0
      BY <1>4, <1>5, <2>1 DEF Accounted, Balanced
    <3>. QED  BY <3>1, FS_EmptySet
  <2>2. CASE free[k] # 0
    <3>1. WokenIn(tasks, k) # {}
      BY <1>3, <1>5, <2>2 DEF Accounted, Balanced
    <3>. QED  BY <3>1 DEF WokenIn, HoldersIn
  <2>. QED  BY <2>1, <2>2
<1>7. Holders(k) = HoldersIn(tasks, k)
  BY DEF Holders, HoldersIn, Holds, Kind, Ids
<1>. QED  BY <1>1, <1>6, <1>7
-----------------------------------------------------------------------------
(* Who waits for a slot is in the queue of its kind, and behind a task of  *)
(* this kind that has a slot, cancelled or not: no wakeup is lost, and     *)
(* nothing that waits ever waits for something that waits                  *)
(* (background.py 44-52, 112-129).                                         *)
THEOREM NoWaitIsInVain == Spec => []NobodyWaitsInVain
<1>1. Init => WaitersInv
  BY DEF Init, WaitersInv, Ids
<1>2. IInv /\ WaitersInv /\ [Next]_vars => WaitersInv'
  BY StepWaiters
<1>3. IInv /\ WaitersInv => NobodyWaitsInVain
  BY WaitersWaitForHolders
<1>. QED  BY <1>1, <1>2, <1>3, Invariance, PTL DEF Spec

(* No step moves a task back, and each of its own steps moves it on, also  *)
(* when the process stops (background.py 54-67, 112-156).                  *)
THEOREM TasksMoveOn == Spec => TasksGetOn
<1>1. IInv /\ [Next]_vars =>
        [ \A t \in Ids : /\ Rank(t)' <= Rank(t)
                         /\ TaskStep(t) => Rank(t)' < Rank(t) ]_vars
  <2>. SUFFICES ASSUME IInv, [Next]_vars
                PROVE  \A t \in Ids : /\ Rank(t)' <= Rank(t)
                                      /\ TaskStep(t) => Rank(t)' < Rank(t)
    OBVIOUS
  <2>1. CASE \E t \in Ids : TaskStep(t)
    BY <2>1, TaskStepLowers
  <2>2. CASE \A t \in Ids : ~TaskStep(t)
    <3>1. \A u \in Ids : Rank(u) \in 0 .. 5
      BY DEF Rank
    <3>. QED  BY <2>2, <3>1, OthersMoveNothing
  <2>. QED  BY <2>1, <2>2
<1>. QED  BY <1>1, Invariance, PTL DEF Spec, TasksGetOn
=============================================================================
