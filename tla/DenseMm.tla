------------------------------ MODULE DenseMm ------------------------------
(***************************************************************************)
(* The worker thread of the server, fifo_threaded/dense_mm.c.  The main    *)
(* thread passes every worker the address of the same stack variable,      *)
(* pthread_args, and refills it for the next request without waiting: the  *)
(* worker loads the fields one by one, each when it needs it.              *)
(*                                                                         *)
(* A worker is named by the client whose request it was created for.  A    *)
(* field of pthread_args, and what a worker loaded from it, is represented *)
(* by the client whose request the value came from.                        *)
(***************************************************************************)
EXTENDS Ipc

CONSTANTS BadPriority,  \* clients that ask for a priority outside 1..99
          SingleCore,   \* TRUE when the server was started with -c
          FdLimit       \* how many descriptors the server's code may hold

VARIABLES pthread_args, \* the slot main fills and all workers read
          wpc,          \* [Clients -> ...]: where each worker is
          arg,          \* [Clients -> ...]: what each worker has loaded
          C,            \* [Clients -> ...]: what each worker's C holds
          cancelled     \* the threads main cancelled, in the order it did

workerVars == <<pthread_args, wpc, arg, C, cancelled>>

Slots == Clients \cup {NoClient}
WorkerSteps == {"none", "size", "fd", "affinity", "sched", "segment",
                "multiply", "writeBack", "reply", "done"}
NothingLoaded == [size |-> NoClient, fd |-> NoClient, shm |-> NoClient]

WorkerInit == /\ pthread_args = [size |-> NoClient, fd |-> NoClient,
                                 prio |-> NoClient, shm |-> NoClient]
              /\ wpc = [c \in Clients |-> "none"]
              /\ arg = [c \in Clients |-> NothingLoaded]
              /\ C = [c \in Clients |-> "none"]
              /\ cancelled = <<>>

WorkerTypeOK ==
    /\ pthread_args \in [size : Slots, fd : Slots, prio : Slots, shm : Slots]
    /\ wpc \in [Clients -> WorkerSteps]
    /\ arg \in [Clients -> [size : Slots, fd : Slots, shm : Slots]]
    /\ C \in [Clients -> Contents]
    /\ cancelled \in Seq(Processes)

IsCancelled(t) == \E i \in DOMAIN cancelled : cancelled[i] = t

(* The descriptors the server holds beyond the standard three: one per     *)
(* FIFO end and one per opened segment.  Workers never close one.          *)
Fds == Cardinality({f \in Processes : <<Server, f>> \in readers})
         + Cardinality({f \in Processes : <<Server, f>> \in writers})
         + Cardinality({c \in Clients : arg[c].shm # NoClient})

(* The segment holds A and B, doubles of 8 bytes, in whole 4096-byte pages.*)
Pages(n) == (2 * n * n * 8 + 4095) \div 4096

At(c, step) == Server \in alive /\ wpc[c] = step
Advance(c, step) == wpc' = [wpc EXCEPT ![c] = step]
Load(c, field, value) == arg' = [arg EXCEPT ![c] = [@ EXCEPT ![field] = value]]

(* The server process dies: every thread of it stops where it is.          *)
Crash == Exit(Server) /\ UNCHANGED <<wpc, replies>>

(* write(server_to_client, &matrix_compute_result, 8).  write is a         *)
(* cancellation point, and every worker returns when it fails, as it does  *)
(* once main has closed the descriptor.  Nobody handles SIGPIPE, so that a *)
(* FIFO without a reader kills the process.                                *)
CanWrite(c) == ~IsCancelled(c) /\ <<Server, arg[c].fd>> \in writers

Answer(c, next) ==
    \/ /\ ~CanWrite(c)
       /\ Advance(c, "done")
       /\ UNCHANGED <<alive, endVars, replies>>
    \/ /\ CanWrite(c)
       /\ HasReader(arg[c].fd)
       /\ replies' = [replies EXCEPT ![arg[c].fd] = @ + 1]
       /\ Advance(c, next)
       /\ UNCHANGED <<alive, endVars>>
    \/ /\ CanWrite(c)
       /\ ~HasReader(arg[c].fd)
       /\ Crash

LoadSize(c) == /\ At(c, "size")
               /\ Load(c, "size", pthread_args.size)
               /\ Advance(c, "fd")
               /\ UNCHANGED <<ipcVars, pthread_args, C, cancelled>>

LoadFd(c) == /\ At(c, "fd")
             /\ Load(c, "fd", pthread_args.fd)
             /\ Advance(c, IF SingleCore THEN "affinity" ELSE "sched")
             /\ UNCHANGED <<ipcVars, pthread_args, C, cancelled>>

(* With -c the worker pins itself to core 0.  When malloc fails it writes  *)
(* an uninitialized double and then stores through the null pointer; when  *)
(* sched_setaffinity fails it writes one and carries on.                   *)
SetAffinity(c) ==
    /\ At(c, "affinity")
    /\ \/ /\ Advance(c, "sched")
          /\ UNCHANGED <<alive, endVars, replies>>
       \/ /\ "sched_setaffinity" \in Faults
          /\ Answer(c, "sched")
       \/ /\ "malloc" \in Faults
          /\ ~CanWrite(c)
          /\ Advance(c, "done")
          /\ UNCHANGED <<alive, endVars, replies>>
       \/ /\ "malloc" \in Faults
          /\ CanWrite(c)
          /\ Exit(Server)
          /\ replies' = IF HasReader(arg[c].fd)
                          THEN [replies EXCEPT ![arg[c].fd] = @ + 1]
                          ELSE replies
          /\ UNCHANGED wpc
    /\ UNCHANGED <<paths, pipe, shm, pthread_args, arg, C, cancelled>>

(* The priority is read from the slot now.  An invalid one is answered     *)
(* with an uninitialized double.                                           *)
SetScheduler(c) ==
    /\ At(c, "sched")
    /\ \/ /\ pthread_args.prio \notin BadPriority
          /\ Advance(c, "segment")
          /\ UNCHANGED <<alive, endVars, replies>>
       \/ /\ pthread_args.prio \in BadPriority
          /\ Answer(c, "done")
    /\ UNCHANGED <<paths, pipe, shm, pthread_args, arg, C, cancelled>>

(* Mutant of OpenSegment: a worker that gives up closes its descriptor.    *)
OpenSegmentOrClose(c) ==
    LET name == pthread_args.shm IN
    /\ At(c, "segment")
    /\ \/ /\ name = NoClient
          /\ writers' = writers \ {<<Server, arg[c].fd>>}
          /\ Advance(c, "done")
          /\ UNCHANGED arg
       \/ /\ name # NoClient
          /\ Load(c, "shm", name)
          /\ Advance(c, "multiply")
          /\ UNCHANGED writers
    /\ UNCHANGED <<alive, paths, readers, asleep, pipe, replies, shm,
                   pthread_args, C, cancelled>>

(* shm_open reads the name from the slot now, and mmap follows.  Either    *)
(* failure ends the worker without an answer; mmap fails after shm_open    *)
(* took a descriptor.                                                      *)
OpenSegment(c) ==
    LET name == pthread_args.shm IN
    /\ At(c, "segment")
    /\ \/ /\ name = NoClient \/ Fds >= FdLimit
          /\ Advance(c, "done")
          /\ UNCHANGED arg
       \/ /\ name # NoClient /\ Fds < FdLimit
          /\ Load(c, "shm", name)
          /\ \/ Advance(c, "multiply")
             \/ "mmap" \in Faults /\ Advance(c, "done")
    /\ UNCHANGED <<ipcVars, pthread_args, C, cancelled>>

(* The size is one a client made a segment for, which rules out what       *)
(* dense_mm.c tests first, a size above 65536.                             *)
(*                                                                         *)
(* What the loops leave in C.  It is the product A*B only if the worker's  *)
(* size is the segment's own, and A is still what the client stored; if    *)
(* another worker is writing to the segment meanwhile, A may be torn.      *)
Outcomes(c) ==
    LET seg == arg[c].shm
        clean == Size[arg[c].size] = Size[seg] /\ shm[seg] = "input"
        busy == \E d \in Clients \ {c} : arg[d].shm = seg
                                         /\ wpc[d] = "writeBack"
    IN  (IF clean THEN {"product"} ELSE {"wrong"})
          \cup (IF busy THEN {"wrong"} ELSE {})

(* The loop indices are unsigned: a negative size is one of four thousand  *)
(* million to them, and they run out of every array.  So they do with a    *)
(* size whose matrices need more pages than the segment has: SIGBUS.  A    *)
(* failed calloc is answered with an uninitialized double.                 *)
LeavesSegment(used, own) == Size[used] < 0 \/ Pages(Size[used]) > Pages(Size[own])

Multiply(c) ==
    /\ At(c, "multiply")
    /\ \/ /\ "calloc" \in Faults
          /\ Answer(c, "done")
          /\ UNCHANGED C
       \/ /\ LeavesSegment(arg[c].size, arg[c].shm)
          /\ Crash
          /\ UNCHANGED C
       \/ /\ ~LeavesSegment(arg[c].size, arg[c].shm)
          /\ \E result \in Outcomes(c) : C' = [C EXCEPT ![c] = result]
          /\ Advance(c, "writeBack")
          /\ UNCHANGED <<alive, endVars, replies>>
    /\ UNCHANGED <<paths, pipe, shm, pthread_args, arg, cancelled>>

(* Mutants of WriteBack: the copy is forgotten, or the client is answered  *)
(* before the copy and again after it.                                     *)
WriteBackForgotten(c) == /\ At(c, "writeBack")
                         /\ Advance(c, "reply")
                         /\ UNCHANGED <<ipcVars, pthread_args, arg, C, cancelled>>
WriteBackAnswers(c) == /\ At(c, "writeBack")
                       /\ shm' = [shm EXCEPT ![arg[c].shm] = C[c]]
                       /\ Answer(c, "reply")
                       /\ UNCHANGED <<paths, pipe, pthread_args, arg, C, cancelled>>

(* C is copied over A.                                                     *)
WriteBack(c) ==
    /\ At(c, "writeBack")
    /\ shm' = [shm EXCEPT ![arg[c].shm] = C[c]]
    /\ Advance(c, "reply")
    /\ UNCHANGED <<alive, paths, endVars, pipe, replies, pthread_args, arg, C,
                   cancelled>>

(* Mutant of Reply: the worker returns without writing.                    *)
ReplyForgotten(c) == /\ At(c, "reply")
                     /\ Advance(c, "done")
                     /\ UNCHANGED <<ipcVars, pthread_args, arg, C, cancelled>>

Reply(c) == /\ At(c, "reply")
            /\ Answer(c, "done")
            /\ UNCHANGED <<paths, pipe, shm, pthread_args, arg, C, cancelled>>

(* printf may be a cancellation point as well.                             *)
StopInPrintf(c) == /\ Server \in alive
                   /\ wpc[c] \in {"multiply", "reply"}
                   /\ IsCancelled(c)
                   /\ Advance(c, "done")
                   /\ UNCHANGED <<ipcVars, pthread_args, arg, C, cancelled>>

WorkerNext(c) == \/ LoadSize(c) \/ LoadFd(c) \/ SetAffinity(c)
                 \/ SetScheduler(c) \/ OpenSegment(c) \/ Multiply(c)
                 \/ WriteBack(c) \/ Reply(c) \/ StopInPrintf(c)
=============================================================================
