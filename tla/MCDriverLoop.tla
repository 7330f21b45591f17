------------------------------ MODULE MCDriverLoop ------------------------------
EXTENDS DriverLoop, TLC
CONSTANTS w1, w2, t1, t2, arrival, copy, contribution, answer
TwoWorkers == {w1, w2}
OneWorker == {w1}
TwoTasks == {t1, t2}

(* A broadcast arrives, goes on to one child and becomes the task t2.  The *)
(* program may execute t1 and contribute to a reduction on the root; the   *)
(* callback sends an answer to another process.                            *)
AllMail == {arrival, copy, contribution, answer}
Nothing == [tasks |-> {}, sends |-> {}, queued |-> {}]
MailBecomes ==
  (arrival :> [Nothing EXCEPT !.tasks = {t2}, !.sends = {copy}])
  @@ (contribution :> [Nothing EXCEPT !.queued = {answer}])
  @@ [m \in AllMail |-> Nothing]
=============================================================================
