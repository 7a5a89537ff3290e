--------------------------- MODULE StaticService ---------------------------
(***************************************************************************)
(* The service as static_alloc has it, the version before fifo_threaded:   *)
(* every segment is one struct shared_mem_struct with room for 1000 rows   *)
(* and columns of A and of B, so that a wrong size can no longer leave the *)
(* segment, and rows start where they start whatever the size is.          *)
(*                                                                         *)
(* The list of threads is modelled node by node here; the variable list of *)
(* ServerFifo is the history of what should be in it.  Where the programs  *)
(* do what those of fifo_threaded do, the actions of MatrixService are     *)
(* taken.                                                                  *)
(***************************************************************************)
EXTENDS MatrixService, ThreadList

(* SHARED_MEM_SIZE bounds what a client can store without leaving its      *)
(* segment; of a negative size it stores nothing.  Sizes 0 and 1, whose    *)
(* product is A itself, are left out.                                      *)
ASSUME StaticSizes == \A c \in Clients : Size[c] < 0 \/ Size[c] \in 2 .. 1000

VARIABLE dropped   \* the threads whose node could not be allocated

allVars == <<vars, listVars, dropped>>

StaticInit == Init /\ ListInit /\ dropped = {}

-----------------------------------------------------------------------------
(* The segment always has the same size, and a mmap of it that is not made *)
(* to fail succeeds.                                                       *)
StaticSetup(c) == Setup(c)

(* From the request to the exit the client does as in fifo_threaded.       *)
AskAndWait(c) == Client(c) /\ UNCHANGED <<listVars, dropped>>
StaticUser(c) ==
    /\ StaticSetup(c) \/ Kill(c)
    /\ UNCHANGED <<workerVars, serverVars, listVars, dropped>>

-----------------------------------------------------------------------------
(* malloc of the List structure is not checked.                            *)
StaticStart == /\ Start
               /\ \/ make_list
                  \/ "make_list" \in Faults /\ make_list_fails
               /\ UNCHANGED dropped

AddToList(thread) ==
    \/ list_add(thread) /\ UNCHANGED dropped
    \/ /\ "create_node" \in Faults
       /\ list_add_fails
       /\ dropped' = dropped \cup {thread}

(* Without a List, list_add for the hold thread reads through NULL.        *)
StaticCreateHold ==
    \/ /\ head # NoList
       /\ CreateHold
       /\ IF spc' = "while" THEN AddToList(Server)
                            ELSE UNCHANGED <<listVars, dropped>>
    \/ /\ head = NoList
       /\ Before("inOpenRequest")
       /\ <<Server, Server>> \notin asleep
       /\ Exit(Server)
       /\ UNCHANGED <<paths, pipe, replies, shm, workerVars, serverVars,
                      listVars, dropped>>

StaticSpawn == /\ SpawnWorker
               /\ IF spc' = "while" THEN AddToList(mc)
                                    ELSE UNCHANGED <<listVars, dropped>>

(* The threads in the list, and no others, are cancelled.                  *)
CancelListed ==
    /\ Before("cancel")
    /\ cancelled' = Listed
    /\ list_destroy
    /\ list' = <<>>
    /\ spc' = "close"
    /\ UNCHANGED <<ipcVars, pthread_args, wpc, arg, C, server_on, mc,
                   server_to_client, hold, dropped>>

StaticMain ==
    /\ \/ StaticStart \/ StaticCreateHold \/ StaticSpawn \/ CancelListed
       \/ /\ spc \notin {"mkfifo", "inOpenRequest", "spawn", "cancel"}
          /\ MainStep
          /\ UNCHANGED <<listVars, dropped>>
    /\ UNCHANGED cpc

-----------------------------------------------------------------------------
(* Mutant of RightSizes: rows are size doubles apart.                      *)
SameSizes(used, own) == used = own

(* Rows are 1000 doubles apart and what the client did not store is zero:  *)
(* a larger size adds nothing but zeros to the product.                    *)
RightSizes(used, own) == used >= own

StaticOutcomes(c) ==
    LET seg == arg[c].shm
        clean == RightSizes(Size[arg[c].size], Size[seg]) /\ shm[seg] = "input"
        busy == \E d \in Clients \ {c} : arg[d].shm = seg
                                         /\ wpc[d] = "writeBack"
    IN  (IF clean THEN {"product"} ELSE {"wrong"})
          \cup (IF busy THEN {"wrong"} ELSE {})

(* Mutant of StaticMultiply: the segment is as large as its client asked.  *)
MultiplyInPages(c) ==
    /\ At(c, "multiply")
    /\ \/ /\ LeavesSegment(arg[c].size, arg[c].shm)
          /\ Crash
          /\ UNCHANGED C
       \/ /\ ~LeavesSegment(arg[c].size, arg[c].shm)
          /\ \E result \in StaticOutcomes(c) : C' = [C EXCEPT ![c] = result]
          /\ Advance(c, "writeBack")
          /\ UNCHANGED <<alive, endVars, replies>>
    /\ UNCHANGED <<paths, pipe, shm, pthread_args, arg, cancelled>>

(* malloc of C is not checked, and C is cleared in a loop.  A negative     *)
(* size is a huge one to the unsigned loops, as in fifo_threaded.          *)
StaticMultiply(c) ==
    /\ At(c, "multiply")
    /\ \/ /\ Size[arg[c].size] < 0
          /\ Crash
          /\ UNCHANGED C
       \/ /\ Size[arg[c].size] >= 0
          /\ \E result \in StaticOutcomes(c) : C' = [C EXCEPT ![c] = result]
          /\ Advance(c, "writeBack")
          /\ UNCHANGED <<alive, endVars, replies>>
       \/ /\ "malloc" \in Faults
          /\ C' = [C EXCEPT ![c] = "NULL"]
          /\ Crash
    /\ UNCHANGED <<paths, pipe, shm, pthread_args, arg, cancelled>>

(* printf, of the segment's name and of the end of the multiplication, may *)
(* be a cancellation point.                                                *)
StaticStop(c) == /\ Server \in alive
                 /\ wpc[c] \in {"segment", "reply"}
                 /\ IsCancelled(c)
                 /\ Advance(c, "done")
                 /\ UNCHANGED <<ipcVars, pthread_args, arg, C, cancelled>>

StaticWorker(c) ==
    /\ \/ StaticMultiply(c) \/ StaticStop(c)
       \/ LoadSize(c) \/ LoadFd(c) \/ SetAffinity(c) \/ SetScheduler(c)
       \/ OpenSegment(c) \/ WriteBack(c) \/ Reply(c)
    /\ UNCHANGED <<cpc, serverVars, listVars, dropped>>

StaticHold == Hold /\ UNCHANGED <<listVars, dropped>>
StaticInterrupt == Interrupt /\ UNCHANGED <<listVars, dropped>>

-----------------------------------------------------------------------------
StaticNext ==
    \/ \E c \in Clients : AskAndWait(c) \/ StaticUser(c) \/ StaticWorker(c)
    \/ StaticMain \/ StaticHold \/ StaticInterrupt

StaticSpec == StaticInit /\ [][StaticNext]_allVars

-----------------------------------------------------------------------------
(* The list holds the threads main created, in order, except those no node *)
(* could be allocated for; shutdown cancels every worker in it and leaves  *)
(* no node allocated (list.c, and the loop over the list in main).         *)
Elements(s) == {s[i] : i \in DOMAIN s}
ListHoldsThreads ==
    /\ head # NoList =>
          /\ Elements(Listed) = Elements(list) \ dropped
          /\ \A i, j \in DOMAIN Listed : i < j =>
                \E k, l \in DOMAIN list :
                    k < l /\ Listed[i] = list[k] /\ Listed[j] = list[l]
    /\ spc \in ClosingDown =>
          /\ Allocated = {}
          /\ \A c \in Clients \ dropped : wpc[c] # "none" => IsCancelled(c)

(* No positive size crashes the server: it dies of a client that left, of  *)
(* two workers that answer one client, of a negative size, which the       *)
(* client's test lets through and the worker's unsigned loops take for a   *)
(* huge one, or of a NULL that malloc returned and nobody tested           *)
(* (client_fifo.c, dense_mm.c, main).  In fifo_threaded a raced size alone *)
(* can do it.                                                              *)
TwoAnswer == \E c \in Clients : \E d \in Clients \ {c} :
                arg[c].fd = arg[d].fd /\ arg[c].fd # NoClient
CrashNeedsTwoAnswersOrDeath ==
    Crashed => \/ TwoAnswer
               \/ \E c \in Clients : GaveUp(c) \/ LoadedNegative(c) \/ C[c] = "NULL"
               \/ spc = "inOpenRequest" /\ head = NoList

(* A client reports a wrong matrix only if the server died or has closed   *)
(* its descriptors to exit, if another worker took the client's descriptor *)
(* or its segment, or if its own worker took another segment or a smaller  *)
(* size: a larger size alone does no harm (dense_mm.c, the fixed rows of   *)
(* struct shared_mem_struct; server_fifo.c, the closes at the end of main).*)
WrongReportHasCause ==
    \A c \in Clients :
        (cpc[c] = "report" /\ shm[c] # "product")
            => \/ Server \notin alive
               \/ ClosedAtShutdown(c)
               \/ \E d \in Clients \ {c} : c \in {arg[d].fd, arg[d].shm}
               \/ arg[c].shm # c
               \/ Size[arg[c].size] < Size[c]
=============================================================================
