--------------------------- MODULE CgroupService ---------------------------
(***************************************************************************)
(* The service as cgroup_implementation has it.  A client makes a cgroup   *)
(* for itself and joins it; the worker for its request writes getpid() to  *)
(* the same cgroup, which is the pid of the server: the main thread and    *)
(* all the workers move with it.  Nobody removes a cgroup.                 *)
(*                                                                         *)
(* Both sides have one struct matrix_computation here.  Where the programs *)
(* do what those of fifo_threaded do, the actions of MatrixService are     *)
(* taken.                                                                  *)
(***************************************************************************)
EXTENDS MatrixService

CONSTANT StaleGroups   \* cgroups that clients of the same pid may have left

ASSUME StaleGroupsAreClients == StaleGroups \subseteq Clients

VARIABLES groups,             \* the clients whose cgroup exists
          member,             \* [Processes -> ...]: the cgroup of each process
          cgroup_procs_path,  \* this field of pthread_args
          joined              \* [Clients -> ...]: the path each worker opened

cgroupVars == <<groups, member, cgroup_procs_path, joined>>
allVars == <<vars, cgroupVars>>

CgroupInit == /\ Init
              /\ groups \in SUBSET StaleGroups
              /\ member = [p \in Processes |-> NoClient]
              /\ cgroup_procs_path = NoClient
              /\ joined = [c \in Clients |-> NoClient]

-----------------------------------------------------------------------------
(* The client makes its FIFO, then its cgroup, and writes its pid to it;   *)
(* the stream is flushed, and the process moved, in fclose.  The FIFO and  *)
(* the cgroup stay behind when a call fails.                               *)
CgroupSetup(c) ==
    \/ /\ c \in paths
       /\ Setup(c)
       /\ UNCHANGED <<groups, member>>
    \/ /\ c \notin paths \cup groups
       /\ Setup(c)
       /\ groups' = groups \cup {c}
       /\ member' = [member EXCEPT ![c] = c]
    \/ /\ cpc[c] = "mkfifo"
       /\ c \notin paths
       /\ Cardinality(alive \cap Clients) < MaxLive
       /\ paths' = paths \cup {c}
       /\ \/ c \in groups /\ Goto(c, "BAD_MKDIR") /\ UNCHANGED groups
          \/ /\ c \notin groups
             /\ groups' = groups \cup {c}
             /\ \/ "fopen" \in Faults /\ Goto(c, "BAD_OPEN")
                \/ "fclose" \in Faults /\ Goto(c, "BAD_CLOSE")
       /\ UNCHANGED <<alive, shm, endVars, pipe, replies, member>>

CgroupUser(c) == /\ \/ CgroupSetup(c)
                    \/ Kill(c) /\ UNCHANGED <<groups, member>>
                 /\ UNCHANGED <<workerVars, serverVars, cgroup_procs_path, joined>>

CgroupClient(c) == Client(c) /\ UNCHANGED cgroupVars

-----------------------------------------------------------------------------
(* The main thread copies one more name into the slot, in between the      *)
(* segment's name and pthread_create.                                      *)
SegmentNameCopied == Store("nameCopied", "shm", mc, "copyPath")
                         /\ UNCHANGED <<cpc, cgroupVars>>

(* Mutant of StorePath: only an empty field is filled.                     *)
StorePathOnce(call, value, next) ==
    /\ Before(call)
    /\ cgroup_procs_path' = IF cgroup_procs_path = NoClient THEN value
                              ELSE cgroup_procs_path
    /\ spc' = next
    /\ UNCHANGED <<ipcVars, cpc, workerVars, server_on, mc, server_to_client,
                   list, hold, groups, member, joined>>

StorePath(call, value, next) ==
    /\ Before(call)
    /\ cgroup_procs_path' = value
    /\ spc' = next
    /\ UNCHANGED <<ipcVars, cpc, workerVars, server_on, mc, server_to_client,
                   list, hold, groups, member, joined>>

CopyPath == StorePath("copyPath", NoClient, "pathCopied")

PathCopied == StorePath("pathCopied", mc, "spawn")

CgroupMain == \/ spc # "nameCopied" /\ Main /\ UNCHANGED cgroupVars
              \/ SegmentNameCopied \/ CopyPath \/ PathCopied

-----------------------------------------------------------------------------
(* Mutant of CgroupAffinity: it carries on as in fifo_threaded.            *)
AffinityGoesOn(c) == SetAffinity(c) /\ UNCHANGED cgroupVars

(* Every failure up to shm_open is answered and ends the worker.           *)
cancel_client(c) == Answer(c, "done")

CgroupAffinity(c) ==
    /\ At(c, "affinity")
    /\ \/ /\ Advance(c, "sched")
          /\ UNCHANGED <<alive, endVars, replies>>
       \/ /\ Faults \cap {"malloc", "sched_setaffinity"} # {}
          /\ cancel_client(c)
    /\ UNCHANGED <<paths, pipe, shm, pthread_args, arg, C, cancelled, cgroupVars>>

CgroupScheduler(c) ==
    /\ At(c, "sched")
    /\ \/ /\ pthread_args.prio \notin BadPriority
          /\ Advance(c, "openGroup")
          /\ UNCHANGED <<alive, endVars, replies>>
       \/ /\ pthread_args.prio \in BadPriority
          /\ cancel_client(c)
    /\ UNCHANGED <<paths, pipe, shm, pthread_args, arg, C, cancelled, cgroupVars>>

(* fopen(args->cgroup_procs_path, "a") reads the slot; half a path names   *)
(* no file.  open is a cancellation point.                                 *)
OpenGroup(c) ==
    /\ At(c, "openGroup")
    /\ \/ /\ ~IsCancelled(c)
          /\ cgroup_procs_path \in groups
          /\ joined' = [joined EXCEPT ![c] = cgroup_procs_path]
          /\ Advance(c, "join")
          /\ UNCHANGED <<alive, endVars, replies>>
       \/ /\ \/ cgroup_procs_path \notin groups
             \/ "fopen" \in Faults
             \/ IsCancelled(c)
          /\ cancel_client(c)
          /\ UNCHANGED joined
    /\ UNCHANGED <<paths, pipe, shm, pthread_args, arg, C, cancelled, groups,
                   member, cgroup_procs_path>>

(* Mutant of JoinGroup: fclose is not checked.                             *)
JoinUnchecked(c) ==
    /\ At(c, "join")
    /\ \/ member' = [member EXCEPT ![Server] = joined[c]]
       \/ "fclose" \in Faults /\ UNCHANGED member
    /\ Advance(c, "segment")
    /\ UNCHANGED <<ipcVars, pthread_args, arg, C, cancelled, groups,
                   cgroup_procs_path, joined>>

(* fprintf and fclose: the write moves the process the pid belongs to.     *)
JoinGroup(c) ==
    /\ At(c, "join")
    /\ \/ /\ member' = [member EXCEPT ![Server] = joined[c]]
          /\ Advance(c, "segment")
          /\ UNCHANGED <<alive, endVars, replies>>
       \/ /\ "fclose" \in Faults
          /\ cancel_client(c)
          /\ UNCHANGED member
    /\ UNCHANGED <<paths, pipe, shm, pthread_args, arg, C, cancelled, groups,
                   cgroup_procs_path, joined>>

CgroupWorker(c) ==
    /\ \/ CgroupAffinity(c) \/ CgroupScheduler(c) \/ OpenGroup(c) \/ JoinGroup(c)
       \/ /\ wpc[c] \notin {"affinity", "sched"}
          /\ WorkerNext(c)
          /\ UNCHANGED cgroupVars
    /\ UNCHANGED <<cpc, serverVars>>

CgroupHold == Hold /\ UNCHANGED cgroupVars
CgroupInterrupt == Interrupt /\ UNCHANGED cgroupVars

-----------------------------------------------------------------------------
CgroupNext ==
    \/ \E c \in Clients : CgroupClient(c) \/ CgroupUser(c) \/ CgroupWorker(c)
    \/ CgroupMain \/ CgroupHold \/ CgroupInterrupt

(* As in MatrixService.                                                    *)
CgroupSpec ==
    /\ CgroupInit /\ [][CgroupNext]_allVars
    /\ \A c \in Clients : /\ WF_allVars(CgroupClient(c))
                          /\ WF_allVars(CgroupWorker(c))
    /\ WF_allVars(CgroupMain)
    /\ WF_allVars(CgroupHold)

-----------------------------------------------------------------------------
(* The variables keep to their types, with the calls, the exit code and    *)
(* the field that cgroup_implementation adds (all of the assignments).     *)
CgroupTypeOK ==
    /\ IpcTypeOK
    /\ cpc \in [Clients -> ClientCalls \cup ClientExits \cup {"BAD_MKDIR"}]
    /\ wpc \in [Clients -> WorkerSteps \cup {"openGroup", "join"}]
    /\ spc \in ServerCalls \cup ServerExits \cup {"copyPath", "pathCopied"}
    /\ pthread_args \in [size : Slots, fd : Slots, prio : Slots, shm : Slots]
    /\ arg \in [Clients -> [size : Slots, fd : Slots, shm : Slots]]
    /\ C \in [Clients -> Contents]
    /\ cancelled \in Seq(Processes)
    /\ server_on \in BOOLEAN
    /\ mc \in Slots
    /\ server_to_client \in Clients \cup {"uninitialized", "error"}
    /\ list \in Seq(Processes)
    /\ hold \in {"none", "created", "holding", "failed"}
    /\ groups \subseteq Clients
    /\ member \in [Processes -> Slots]
    /\ cgroup_procs_path \in Slots
    /\ joined \in [Clients -> Slots]

(* A worker puts the server into the cgroup of its own client or of one    *)
(* accepted later, never into one left by an earlier request, although it  *)
(* reads the path while main refills the slot (dense_mm.c, fopen).         *)
JoinGoesForward ==
    \A c \in Clients :
        \/ joined[c] \in {NoClient, c}
        \/ After(c, joined[c])
        \/ joined[c] = mc /\ Storing

(* The server leaves the cgroup of a client it computes for only because   *)
(* another worker, which runs in the same process, joined another one: a   *)
(* worker that passed fclose runs in the cgroup it opened, or some other   *)
(* worker moved the server since (dense_mm.c, getpid in place of the id of *)
(* the thread).                                                            *)
BudgetLostToAnotherWorker ==
    \A c \in Clients :
        (Server \in alive /\ wpc[c] \in {"segment", "multiply", "writeBack", "reply"})
            => \/ member[Server] = joined[c]
               \/ \E d \in Clients \ {c} : joined[d] = member[Server]

(* No client is answered more often than workers took its descriptor, as   *)
(* long as main has not closed that to exit: each failure is answered and  *)
(* ends the worker, which the worker of fifo_threaded, without             *)
(* cancel_client, does not do (dense_mm.c).                                *)
AnswersTo(c) == replies[c] + IF cpc[c] \in {"report", "SUCCESS", "BAD_CLOSE",
                                            "BAD_UNLINK"}
                                 /\ shm[c] # "none"
                               THEN 1 ELSE 0
OneAnswerPerWorker ==
    \A c \in Clients :
        (Server \in alive /\ ~ClosedAtShutdown(c)) =>
            AnswersTo(c) <= Cardinality({d \in Clients : /\ arg[d].fd = c
                                                         /\ wpc[d] = "done"})
=============================================================================
