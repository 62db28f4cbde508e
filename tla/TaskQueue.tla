----------------------------- MODULE TaskQueue -----------------------------
(***************************************************************************)
(* What an event loop promises to the goroutines that call QueueInLoop: a  *)
(* single worker runs the submitted closures one at a time, in the order   *)
(* they were submitted, each exactly once, and goes on doing so until the  *)
(* loop ends.  Closures that are still pending when it ends never run.     *)
(***************************************************************************)
EXTENDS Sequences

CONSTANT Tasks        \* the closures passed to QueueInLoop, each passed once

VARIABLES
    pending,          \* closures submitted and not yet started, oldest first
    executed,         \* closures started, in the order they were started
    open              \* the loop has not ended

vars == <<pending, executed, open>>

Init ==
    /\ pending = <<>>
    /\ executed = <<>>
    /\ open = TRUE

Submit(t) ==
    /\ \A i \in DOMAIN pending : pending[i] # t
    /\ \A i \in DOMAIN executed : executed[i] # t
    /\ pending' = Append(pending, t)
    /\ UNCHANGED <<executed, open>>

Execute ==
    /\ open
    /\ pending # <<>>
    /\ executed' = Append(executed, Head(pending))
    /\ pending' = Tail(pending)
    /\ UNCHANGED open

End ==
    /\ open
    /\ open' = FALSE
    /\ UNCHANGED <<pending, executed>>

Next == Execute \/ End \/ \E t \in Tasks : Submit(t)

\* What the worker never does.
Safety == Init /\ [][Next]_vars

\* The worker never leaves a submitted closure pending for ever.
Spec == Safety /\ WF_vars(Execute)
=============================================================================
