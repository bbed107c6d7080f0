------------------------- MODULE MCDiagnosisFanout -------------------------
(* An instance of DiagnosisFanout small enough for TLC.                    *)
EXTENDS DiagnosisFanoutProps
CONSTANTS cron, job1, job2, pod1, pod2, pod3, service, node

\* A CronJob with two jobs, of two pods and of one, and another diagnosis at the same time
\* by the same engine.
MCTasks == {cron, job1, job2, pod1, pod2, pod3, service}
MCCallOf == [t \in Tasks |-> IF t = service THEN service ELSE cron]
MCChildren ==
  [t \in Tasks |-> CASE t = cron -> {job1, job2}
                     [] t = job1 -> {pod1, pod2}
                     [] t = job2 -> {pod3}
                     [] OTHER -> {}]
\* Pods of both jobs, and the other diagnosis, read one node.
MCReads ==
  [t \in Tasks |-> CASE t \in {pod1, pod3, service} -> <<node>>
                     [] OTHER -> <<>>]
=============================================================================
