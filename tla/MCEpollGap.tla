----------------------------- MODULE MCEpollGap -----------------------------
(* A target thread that mixes two epoll variants, a sibling thread of the    *)
(* same process, and a task with the target's ids in another PID namespace.  *)
EXTENDS EpollGap, TLC

TargetTask == [pidns |-> "target", tgid |-> 1, tid |-> 1]
Sibling    == [pidns |-> "target", tgid |-> 1, tid |-> 2]
Stranger   == [pidns |-> "host",   tgid |-> 1, tid |-> 1]

MCConfig == [pidns |-> "target", target_tgid |-> 1, target_tid |-> 1]

\* Everyone is there
MCTasks == {TargetTask, Sibling, Stranger}
MCUses == (TargetTask :> {1, 2}) @@ (Sibling :> {1}) @@ (Stranger :> {1})

\* The target and the task only its PID namespace tells apart
MCPair == {TargetTask, Stranger}
MCPairUses == (TargetTask :> {1, 2}) @@ (Stranger :> {1})

\* The target alone
MCAlone == {TargetTask}
MCAloneMixes == TargetTask :> {1, 2}
=============================================================================
