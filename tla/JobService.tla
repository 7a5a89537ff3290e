----------------------------- MODULE JobService -----------------------------
(***************************************************************************)
(* What the service promises a client, whatever programs provide it: the   *)
(* job of a client that asked is done at some time, once, and the client   *)
(* is told after it is done and never before.                              *)
(***************************************************************************)
CONSTANT Clients

VARIABLE job   \* [Clients -> {"none", "asked", "done", "told"}]

TypeOK == job \in [Clients -> {"none", "asked", "done", "told"}]

Init == job = [c \in Clients |-> "none"]

Move(c, from, to) == job[c] = from /\ job' = [job EXCEPT ![c] = to]

Ask(c) == Move(c, "none", "asked")
Do(c) == Move(c, "asked", "done")
Tell(c) == Move(c, "done", "told")

Next == \E c \in Clients : Ask(c) \/ Do(c) \/ Tell(c)

Spec == Init /\ [][Next]_job

FairSpec == Spec /\ \A c \in Clients : WF_job(Do(c)) /\ WF_job(Tell(c))
=============================================================================
