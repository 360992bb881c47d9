---------------------- MODULE BackgroundWorkerClaims ----------------------
(***************************************************************************)
(* A statement the source makes about the background worker and that it    *)
(* does not keep.                                                          *)
(***************************************************************************)
EXTENDS BackgroundWorker

(* shutdown() is there "to ensure no dangling tasks": when it returns, no  *)
(* task is going.  The done callback of a task takes the registration of   *)
(* its key away, also if it is by now that of a newer task, which shutdown *)
(* then neither cancels nor waits for (background.py 54-67, 131-156).      *)
NoDanglingTasks == stopping = "done" => \A t \in Ids : Ended(t)
=============================================================================
