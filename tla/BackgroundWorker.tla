------------------------- MODULE BackgroundWorker -------------------------
(***************************************************************************)
(* The table of background tasks (app/worker/background.py): submission    *)
(* with deduplication by key, the two semaphores, the done callbacks and   *)
(* the shutdown of the process (app/main.py 31-39).                        *)
(*                                                                         *)
(* Everything runs on one event loop and yields only where it has to wait: *)
(* the lock of a submission is never held across a wait, so that a         *)
(* submission is one step.  A task that ends only schedules its done       *)
(* callback; the loop may run other steps before it.  A key stands for an  *)
(* application or a document, and belongs to one of the two kinds of task. *)
(***************************************************************************)
EXTENDS Integers, Sequences, FiniteSets

CONSTANTS
  OcrKeys,        (* document ids                                          *)
  WorkflowKeys,   (* application ids                                       *)
  MaxOcr,         (* max_ocr_concurrency                                   *)
  MaxWorkflow,    (* max_workflow_concurrency                              *)
  MaxTasks        (* bound on the tasks of one behaviour                   *)

ASSUME KeysAssumption == OcrKeys \cap WorkflowKeys = {}
ASSUME CapacityAssumption == MaxOcr \in Nat \ {0} /\ MaxWorkflow \in Nat \ {0}
ASSUME MaxTasksAssumption == MaxTasks \in Nat

VARIABLES
  tasks,      (* the tasks created, in order                               *)
  table,      (* _tasks: the task registered under a key, or NoTask        *)
  callbacks,  (* tasks that ended and whose done callback has not run      *)
  free,       (* the value of each semaphore                               *)
  queue,      (* who waits for each semaphore, first come first served     *)
  stopping,   (* "no", "waiting" in shutdown(), or "done"                  *)
  cancelled   (* the tasks shutdown() cancelled and waits for              *)

vars == << tasks, table, callbacks, free, queue, stopping, cancelled >>

Keys == OcrKeys \cup WorkflowKeys
Kinds == { "ocr", "workflow" }
KindOf(key) == IF key \in OcrKeys THEN "ocr" ELSE "workflow"
Capacity(kind) == IF kind = "ocr" THEN MaxOcr ELSE MaxWorkflow

NoTask == 0
Ids == 1 .. Len(tasks)

(* A task is first scheduled; it may have to wait for a slot, is then      *)
(* given one, and runs its coroutine.                                      *)
Task == [ key : Keys,
          state : { "scheduled", "waiting", "given", "running", "ended" },
          closed : BOOLEAN ]

Ended(t) == tasks[t].state = "ended"
Holds(t) == tasks[t].state \in { "given", "running" }
Kind(t) == KindOf(tasks[t].key)

TypeOK ==
  /\ tasks \in Seq(Task) /\ Len(tasks) <= MaxTasks
  /\ table \in [ Keys -> { NoTask } \cup Ids ]
  /\ callbacks \subseteq Ids /\ cancelled \subseteq Ids
  /\ \A kind \in Kinds : free[kind] \in 0 .. Capacity(kind)
  /\ queue \in [ Kinds -> Seq(Ids) ]
  /\ stopping \in { "no", "waiting", "done" }

Init ==
  /\ tasks = << >> /\ table = [ key \in Keys |-> NoTask ]
  /\ callbacks = {} /\ cancelled = {}
  /\ free = [ kind \in Kinds |-> Capacity(kind) ]
  /\ queue = [ kind \in Kinds |-> << >> ]
  /\ stopping = "no"
-----------------------------------------------------------------------------
(***************************************************************************)
(* The semaphores                                                          *)
(***************************************************************************)
SetState(t, state) == [ tasks EXCEPT ![t].state = state ]

(* The places in a queue of those that wait: who is cancelled waits no     *)
(* longer, and is passed over.                                             *)
Places(kind) == { i \in DOMAIN queue[kind] : queue[kind][i] \notin cancelled }

(* Those that were given a slot and have not resumed, cancelled or not.    *)
Woken(kind) == { t \in Ids : Kind(t) = kind /\ tasks[t].state = "given" }

(* locked() of asyncio.Semaphore, here as in Python 3.11 (pyproject.toml 5 *)
(* asks for 3.10 or newer): a newcomer has to wait without a free slot, and *)
(* also while others wait or were woken and have not resumed.              *)
Locked(kind) == free[kind] = 0 \/ Places(kind) # {} \/ Woken(kind) # {}

(* Mutant: a slot given back is not handed on. *)
WakeUpNobody(kind, n, ts) ==
  /\ free' = [ free EXCEPT ![kind] = n ]
  /\ tasks' = ts /\ UNCHANGED queue

(* With n free slots the first that waits is given one of them; ts are the *)
(* tasks after the step that wakes it.                                     *)
WakeUpNext(kind, n, ts) ==
  \/ /\ n = 0 \/ Places(kind) = {}
     /\ free' = [ free EXCEPT ![kind] = n ]
     /\ tasks' = ts /\ UNCHANGED queue
  \/ /\ n > 0
     /\ free' = [ free EXCEPT ![kind] = n - 1 ]
     /\ \E i \in Places(kind) :
          /\ \A j \in Places(kind) : i <= j
          /\ tasks' = [ ts EXCEPT ![queue[kind][i]].state = "given" ]
          /\ queue' = [ queue EXCEPT ![kind] = SubSeq(@, i + 1, Len(@)) ]

(* A slot given back goes to the first that waits. *)
GiveBack(kind, ts) == WakeUpNext(kind, free[kind] + 1, ts)
-----------------------------------------------------------------------------
(***************************************************************************)
(* Submitting and running                                                  *)
(***************************************************************************)
(* The key has a registered task that is not done. *)
Running(key) == table[key] # NoTask /\ ~Ended(table[key])

NewTask(key) == [ key |-> key, state |-> "scheduled", closed |-> FALSE ]

(* Mutant: the table is not looked at. *)
SubmitUnchecked(key) ==
  /\ stopping = "no" /\ Len(tasks) < MaxTasks
  /\ tasks' = Append(tasks, NewTask(key))
  /\ table' = [ table EXCEPT ![key] = Len(tasks) + 1 ]
  /\ UNCHANGED << callbacks, free, queue, stopping, cancelled >>

(* submit_ocr_task and submit_workflow_task.  While the registered task of *)
(* the key is not done the new coroutine is closed and nothing changes.    *)
(* The server takes no more requests once the process stops.               *)
Submit(key) ==
  /\ stopping = "no" /\ Len(tasks) < MaxTasks
  /\ ~Running(key)
  /\ tasks' = Append(tasks, NewTask(key))
  /\ table' = [ table EXCEPT ![key] = Len(tasks) + 1 ]
  /\ UNCHANGED << callbacks, free, queue, stopping, cancelled >>

(* The task's first step: it takes a slot, or waits for one, if only behind *)
(* another that has been woken.                                            *)
Begin(t) ==
  /\ tasks[t].state = "scheduled" /\ t \notin cancelled
  /\ \/ /\ ~Locked(Kind(t))
        /\ free' = [ free EXCEPT ![Kind(t)] = @ - 1 ]
        /\ tasks' = SetState(t, "running")
        /\ UNCHANGED queue
     \/ /\ Locked(Kind(t))
        /\ queue' = [ queue EXCEPT ![Kind(t)] = Append(@, t) ]
        /\ tasks' = SetState(t, "waiting")
        /\ UNCHANGED free
  /\ UNCHANGED << table, callbacks, stopping, cancelled >>

(* Mutant: whoever came while a task was woken is forgotten. *)
ResumeAlone(t) ==
  /\ tasks[t].state = "given" /\ t \notin cancelled
  /\ tasks' = SetState(t, "running")
  /\ UNCHANGED << table, callbacks, free, queue, stopping, cancelled >>

(* The task that was given a slot goes on.  If there is another one free,  *)
(* whoever came meanwhile is woken.                                        *)
Resume(t) ==
  /\ tasks[t].state = "given" /\ t \notin cancelled
  /\ WakeUpNext(Kind(t), free[Kind(t)], SetState(t, "running"))
  /\ UNCHANGED << table, callbacks, stopping, cancelled >>

(* The coroutine returns, raises (which is logged) or is cancelled; it is  *)
(* closed in the `finally', and the callback is scheduled.                 *)
EndTask(t) == [ tasks EXCEPT ![t].state = "ended", ![t].closed = TRUE ]

Finish(t) ==
  /\ tasks[t].state = "running"
  /\ GiveBack(Kind(t), EndTask(t))
  /\ callbacks' = callbacks \cup { t }
  /\ UNCHANGED << table, stopping, cancelled >>

(* Mutant: a task cancelled after it was given a slot keeps it. *)
CancelBeforeRunKeepingSlot(t) ==
  /\ t \in cancelled
  /\ \/ /\ tasks[t].state = "scheduled"
        /\ tasks' = SetState(t, "ended") /\ UNCHANGED << free, queue >>
     \/ /\ tasks[t].state \in { "waiting", "given" }
        /\ tasks' = EndTask(t) /\ UNCHANGED << free, queue >>
  /\ callbacks' = callbacks \cup { t }
  /\ UNCHANGED << table, stopping, cancelled >>

(* Mutant: a task cancelled while it waits gives back a slot it never had. *)
CancelBeforeRunGivingBack(t) ==
  /\ t \in cancelled
  /\ \/ /\ tasks[t].state = "scheduled"
        /\ tasks' = SetState(t, "ended") /\ UNCHANGED << free, queue >>
     \/ /\ tasks[t].state \in { "waiting", "given" }
        /\ GiveBack(Kind(t), EndTask(t))
  /\ callbacks' = callbacks \cup { t }
  /\ UNCHANGED << table, stopping, cancelled >>

(* Mutant: a task cancelled while it waits for a slot does not notice. *)
CancelBeforeRunUnnoticed(t) ==
  /\ t \in cancelled
  /\ \/ /\ tasks[t].state = "scheduled"
        /\ tasks' = SetState(t, "ended") /\ UNCHANGED << free, queue >>
     \/ /\ tasks[t].state = "given"
        /\ GiveBack(Kind(t), EndTask(t))
  /\ callbacks' = callbacks \cup { t }
  /\ UNCHANGED << table, stopping, cancelled >>

(* A cancelled task that did not get to its coroutine.  One that was not   *)
(* even begun ends without the `finally' that closes the coroutine; one    *)
(* that was given a slot gives it back.                                    *)
CancelBeforeRun(t) ==
  /\ t \in cancelled
  /\ \/ /\ tasks[t].state = "scheduled"
        /\ tasks' = SetState(t, "ended") /\ UNCHANGED << free, queue >>
     \/ /\ tasks[t].state = "waiting"
        /\ tasks' = EndTask(t) /\ UNCHANGED << free, queue >>
     \/ /\ tasks[t].state = "given"
        /\ GiveBack(Kind(t), EndTask(t))
  /\ callbacks' = callbacks \cup { t }
  /\ UNCHANGED << table, stopping, cancelled >>

(* Mutant: a cancelled task stays in the table. *)
OnTaskDoneUnlessCancelled(t) ==
  /\ t \in callbacks
  /\ callbacks' = callbacks \ { t }
  /\ table' = IF t \in cancelled
              THEN table ELSE [ table EXCEPT ![tasks[t].key] = NoTask ]
  /\ tasks' = [ tasks EXCEPT ![t].closed = TRUE ]
  /\ UNCHANGED << free, queue, stopping, cancelled >>

(* Mutant: the coroutine of a task that never began is forgotten. *)
OnTaskDoneWithoutClose(t) ==
  /\ t \in callbacks
  /\ callbacks' = callbacks \ { t }
  /\ table' = [ table EXCEPT ![tasks[t].key] = NoTask ]
  /\ UNCHANGED << tasks, free, queue, stopping, cancelled >>

(* _on_task_done takes whatever is registered under the key out of the     *)
(* table, and closes the coroutine if nobody has.                          *)
OnTaskDone(t) ==
  /\ t \in callbacks
  /\ callbacks' = callbacks \ { t }
  /\ table' = [ table EXCEPT ![tasks[t].key] = NoTask ]
  /\ tasks' = [ tasks EXCEPT ![t].closed = TRUE ]
  /\ UNCHANGED << free, queue, stopping, cancelled >>
-----------------------------------------------------------------------------
(***************************************************************************)
(* shutdown                                                                *)
(***************************************************************************)
Registered == { t \in Ids : ~Ended(t) /\ table[tasks[t].key] = t }

(* Everything registered and not done is cancelled.  Without such a task   *)
(* there is nothing to do.                                                 *)
Shutdown ==
  /\ stopping = "no"
  /\ stopping' = IF Registered = {} THEN "done" ELSE "waiting"
  /\ cancelled' = Registered
  /\ UNCHANGED << tasks, table, callbacks, free, queue >>

(* Mutant: the shutdown gives up after its timeout. *)
ShutdownGivesUp ==
  /\ stopping = "waiting" /\ stopping' = "done"
  /\ table' = [ key \in Keys |-> NoTask ]
  /\ UNCHANGED << tasks, callbacks, free, queue, cancelled >>

(* It waits for the cancelled tasks, past its timeout too, and their done  *)
(* callbacks run before it goes on.                                        *)
ShutdownReturns ==
  /\ stopping = "waiting" /\ stopping' = "done"
  /\ \A t \in cancelled : Ended(t) /\ t \notin callbacks
  /\ table' = [ key \in Keys |-> NoTask ]
  /\ UNCHANGED << tasks, callbacks, free, queue, cancelled >>

TaskStep(t) ==
  Begin(t) \/ Resume(t) \/ Finish(t) \/ CancelBeforeRun(t) \/ OnTaskDone(t)

Next ==
  \/ \E key \in Keys : Submit(key)
  \/ \E t \in Ids : TaskStep(t)
  \/ Shutdown \/ ShutdownReturns

(* The event loop runs whatever is ready, and every coroutine ends. *)
Fairness ==
  /\ \A t \in 1 .. MaxTasks : WF_vars(t \in Ids /\ TaskStep(t))
  /\ WF_vars(ShutdownReturns)

Spec == Init /\ [][Next]_vars /\ Fairness
-----------------------------------------------------------------------------
(***************************************************************************)
(* What is promised about the tasks                                        *)
(***************************************************************************)
Holders(kind) == { t \in Ids : Kind(t) = kind /\ Holds(t) }

(* However tasks end, no slot is lost or given twice: at most MaxOcr and   *)
(* MaxWorkflow coroutines run at once.  Somebody may wait while a slot is  *)
(* free, who came between a wakeup and its task's next step, but never     *)
(* without a task that is woken and will wake the next                     *)
(* (background.py 44-52, 112-129).                                         *)
SlotsAccounted ==
  \A kind \in Kinds :
    /\ free[kind] + Cardinality(Holders(kind)) = Capacity(kind)
    /\ Places(kind) # {} /\ free[kind] > 0 => Woken(kind) # {}

(* The table forgets what has ended, cancelled or not: an entry of an      *)
(* ended task goes when its callback runs (background.py 54-67).           *)
NoStaleEntry ==
  \A key \in Keys : table[key] # NoTask =>
    ~Ended(table[key]) \/ table[key] \in callbacks

(* No coroutine is left unfinished and unclosed, also when its task was    *)
(* cancelled before it began (background.py 54-67, 112-129).               *)
CoroutinesClosed == \A t \in Ids : Ended(t) => tasks[t].closed \/ t \in callbacks

First(t) == \A u \in Ids : tasks[u].key = tasks[t].key => t <= u

(* As long as the first task of an application or a document is going,     *)
(* there is no second one of it (background.py 69-110).                    *)
FirstIsAlone ==
  \A t \in Ids : First(t) /\ ~Ended(t) =>
    \A u \in Ids : tasks[u].key = tasks[t].key => u = t

(* When the shutdown returns, and the database is closed, no first task of *)
(* a key is going any more; in the application every key is submitted once *)
(* (background.py 131-156, main.py 31-39).                                 *)
NoFirstTaskLeft ==
  stopping = "done" => \A t \in Ids : First(t) => Ended(t)

(* Every task ends: nobody waits for a slot for ever, cancelled or not     *)
(* (background.py 112-129).                                                *)
TasksEnd == \A t \in 1 .. MaxTasks : t \in Ids ~> t \in Ids /\ Ended(t)

(* shutdown() returns, also when tasks end only after its timeout          *)
(* (background.py 131-156).                                                *)
ShutdownEnds == stopping = "waiting" ~> stopping = "done"
=============================================================================
