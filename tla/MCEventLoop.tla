---------------------------- MODULE MCEventLoop ----------------------------
(* The instance of EventLoop that TLC checks.  Closures differ only by name, *)
(* so that they are named in the order in which they are queued; a symmetry  *)
(* set would be unsound with the liveness properties of this run.            *)
EXTENDS EventLoop, TLC

TasksInOrder ==
    \A t \in Range(taskQueueW') \ Range(taskQueueW) :
        \A u \in Tasks : u < t =>
            u \in Range(taskQueueW) \cup Range(taskQueueR) \cup Range(executed)
=============================================================================
