----------------------------- MODULE ServerFifo -----------------------------
(***************************************************************************)
(* The server program, fifo_threaded/server_fifo.c: the main thread, its   *)
(* SIGINT handler, and the thread that holds the request FIFO open.        *)
(*                                                                         *)
(* spc is the call the main thread is about to make, or its exit code.  A  *)
(* server killed by a signal keeps the spc it died at and is not alive.    *)
(***************************************************************************)
EXTENDS DenseMm

CONSTANTS ReadWords,  \* sizeof(struct matrix_computation) in the server
          Signals     \* TRUE when SIGINT may be sent to the server

ASSUME ReadCoversRequest == ReadWords \in Nat /\ ReadWords >= MsgWords

VARIABLES spc,
          server_on,         \* cleared by the handler
          mc,                \* whose request the buffer mc holds
          server_to_client,  \* whose FIFO the variable is a descriptor of
          list,              \* the threads created; Server is the hold thread
          hold               \* what the hold thread is doing

serverVars == <<spc, server_on, mc, server_to_client, list, hold>>

ServerExits == {"SUCCESS", "BAD_SET_SCHED", "BAD_FIFO", "BAD_THREAD",
                "BAD_OPEN", "BAD_READ", "BAD_CLOSE", "BAD_UNLINK"}
FillSteps == {"fillSize", "fillFd", "fillPriority", "copyName", "nameCopied",
              "spawn"}
ServerCalls == {"mkfifo", "openRequest", "inOpenRequest", "while", "read",
                "inRead", "openReply", "inOpenReply", "cancel", "close",
                "closeReply", "unlink", "return"} \cup FillSteps

ServerInit == /\ spc = "mkfifo"
              /\ server_on = TRUE
              /\ mc = NoClient
              /\ server_to_client = "uninitialized"
              /\ list = <<>>
              /\ hold = "none"

ServerTypeOK ==
    /\ spc \in ServerCalls \cup ServerExits
    /\ server_on \in BOOLEAN
    /\ mc \in Slots
    /\ server_to_client \in Clients \cup {"uninitialized", "error"}
    /\ list \in Seq(Processes)
    /\ hold \in {"none", "created", "holding", "failed"}

Before(call) == Server \in alive /\ spc = call

(* Everything before the request FIFO is opened, from the installation of  *)
(* the handler on.                                                         *)
Start ==
    /\ Before("mkfifo")
    /\ \/ /\ "sched_setscheduler" \in Faults
          /\ spc' = "BAD_SET_SCHED"
          /\ Exit(Server)
          /\ UNCHANGED paths
       \/ /\ Server \in paths
          /\ spc' = "BAD_FIFO"
          /\ Exit(Server)
          /\ UNCHANGED paths
       \/ /\ Server \notin paths
          /\ paths' = paths \cup {Server}
          /\ spc' = "openRequest"
          /\ UNCHANGED <<alive, endVars>>
    /\ UNCHANGED <<pipe, replies, shm, workerVars, server_on, mc,
                   server_to_client, list, hold>>

(* open(client_to_server_fifo, O_RDONLY) sleeps until a first client.      *)
ServerOpenRequest ==
    /\ Before("openRequest")
    /\ \/ /\ OpenRead(Server, Server)
          /\ spc' = "inOpenRequest"
          /\ UNCHANGED alive
       \/ /\ "open" \in Faults
          /\ spc' = "BAD_OPEN"
          /\ Exit(Server)
    /\ UNCHANGED <<paths, pipe, replies, shm, workerVars, server_on, mc,
                   server_to_client, list, hold>>

(* The hold thread is created as soon as open returns.                     *)
CreateHold ==
    /\ Before("inOpenRequest")
    /\ <<Server, Server>> \notin asleep
    /\ \/ /\ spc' = "while"
          /\ list' = Append(list, Server)
          /\ hold' = "created"
          /\ UNCHANGED <<alive, endVars>>
       \/ /\ "pthread_create" \in Faults
          /\ spc' = "BAD_THREAD"
          /\ Exit(Server)
          /\ UNCHANGED <<list, hold>>
    /\ UNCHANGED <<paths, pipe, replies, shm, workerVars, server_on, mc,
                   server_to_client>>

(* Mutant of HoldFifoOpen: the hold thread opens the wrong side.           *)
HoldFifoOpenForReading ==
    /\ Server \in alive
    /\ hold = "created"
    /\ ~IsCancelled(Server)
    /\ OpenRead(Server, Server)
    /\ hold' = "holding"
    /\ UNCHANGED <<alive, paths, pipe, replies, shm, workerVars, spc,
                   server_on, mc, server_to_client, list>>

(* hold_fifo_open: open the FIFO for writing, then spin for ever.          *)
HoldFifoOpen ==
    /\ Server \in alive
    /\ hold = "created"
    /\ ~IsCancelled(Server)
    /\ \/ /\ Fds < FdLimit
          /\ OpenWrite(Server, Server)
          /\ hold' = "holding"
       \/ /\ Fds >= FdLimit \/ "open" \in Faults
          /\ hold' = "failed"
          /\ UNCHANGED endVars
    /\ UNCHANGED <<alive, paths, pipe, replies, shm, workerVars, spc,
                   server_on, mc, server_to_client, list>>

(* Mutant of While: server_on is not tested.                               *)
WhileForever == /\ Before("while")
                /\ spc' = "read"
                /\ UNCHANGED <<ipcVars, workerVars, server_on, mc,
                               server_to_client, list, hold>>

(* The condition of the loop.                                              *)
While == /\ Before("while")
         /\ spc' = IF server_on THEN "read" ELSE "cancel"
         /\ UNCHANGED <<ipcVars, workerVars, server_on, mc, server_to_client,
                        list, hold>>

(* read() of the empty FIFO sleeps while somebody has it open for writing. *)
SleepInRead == /\ Before("read")
               /\ pipe = <<>>
               /\ HasWriter(Server)
               /\ spc' = "inRead"
               /\ UNCHANGED <<ipcVars, workerVars, server_on, mc,
                              server_to_client, list, hold>>

(* Mutant of ServerRead: the server's structure has one word more.         *)
ServerReadWide ==
    /\ Before("read") \/ Before("inRead")
    /\ pipe # <<>>
    /\ mc' = IF Head(pipe)[2] = 1 THEN Head(pipe)[1] ELSE NoClient
    /\ pipe' = SubSeq(pipe, ReadWords + 2, Len(pipe))
    /\ spc' = "openReply"
    /\ UNCHANGED <<alive, endVars, paths, replies, shm, workerVars, server_on,
                   server_to_client, list, hold>>

(* One read of sizeof(mc) bytes takes at most ReadWords words.  If they    *)
(* start with a request, mc is that request; if they start in the middle   *)
(* of one, the path in mc names no FIFO.  End-of-file leaves mc alone and  *)
(* is not looked for.                                                      *)
ServerRead ==
    /\ Before("read") \/ Before("inRead")
    /\ \/ /\ pipe # <<>>
          /\ mc' = IF Head(pipe)[2] = 1 THEN Head(pipe)[1] ELSE NoClient
          /\ pipe' = SubSeq(pipe, ReadWords + 1, Len(pipe))
          /\ spc' = "openReply"
          /\ UNCHANGED <<alive, endVars>>
       \/ /\ pipe = <<>>
          /\ ~HasWriter(Server)
          /\ spc' = "openReply"
          /\ UNCHANGED <<alive, endVars, pipe, mc>>
       \/ /\ "read" \in Faults
          /\ spc' = "BAD_READ"
          /\ Exit(Server)
          /\ UNCHANGED <<pipe, mc>>
    /\ UNCHANGED <<paths, replies, shm, workerVars, server_on,
                   server_to_client, list, hold>>

(* Mutants of ServerOpenReply: a failed open is not skipped; O_NONBLOCK,   *)
(* which fails without a reader.                                           *)
ServerOpenReplyUnchecked ==
    /\ Before("openReply")
    /\ IF mc \in paths /\ Fds < FdLimit
         THEN /\ OpenWrite(Server, mc)
              /\ spc' = "inOpenReply"
              /\ UNCHANGED server_to_client
         ELSE /\ server_to_client' = "error"
              /\ spc' = "fillSize"
              /\ UNCHANGED endVars
    /\ UNCHANGED <<alive, paths, pipe, replies, shm, workerVars, server_on, mc,
                   list, hold>>
ServerOpenReplyNonblock ==
    /\ Before("openReply")
    /\ IF mc \in paths /\ HasReader(mc)
         THEN /\ OpenWrite(Server, mc)
              /\ spc' = "inOpenReply"
              /\ UNCHANGED server_to_client
         ELSE /\ server_to_client' = "error"
              /\ spc' = "while"
              /\ UNCHANGED endVars
    /\ UNCHANGED <<alive, paths, pipe, replies, shm, workerVars, server_on, mc,
                   list, hold>>

(* open(mc.server_to_client_path, O_WRONLY) sleeps until that client opens *)
(* it too.  If it fails the request is skipped and mc keeps its contents.  *)
ServerOpenReply ==
    /\ Before("openReply")
    /\ \/ /\ mc \notin paths \/ Fds >= FdLimit \/ "open" \in Faults
          /\ server_to_client' = "error"
          /\ spc' = "while"
          /\ UNCHANGED endVars
       \/ /\ mc \in paths /\ Fds < FdLimit
          /\ OpenWrite(Server, mc)
          /\ spc' = "inOpenReply"
          /\ UNCHANGED server_to_client
    /\ UNCHANGED <<alive, paths, pipe, replies, shm, workerVars, server_on, mc,
                   list, hold>>

ServerReplyOpened ==
    /\ Before("inOpenReply")
    /\ <<Server, mc>> \notin asleep
    /\ server_to_client' = mc
    /\ spc' = "fillSize"
    /\ UNCHANGED <<ipcVars, workerVars, server_on, mc, list, hold>>

(* One store into the slot that every worker reads.                        *)
Store(call, field, value, next) ==
    /\ Before(call)
    /\ pthread_args' = [pthread_args EXCEPT ![field] = value]
    /\ spc' = next
    /\ UNCHANGED <<ipcVars, wpc, arg, C, cancelled, server_on, mc,
                   server_to_client, list, hold>>

FillSize == Store("fillSize", "size", mc, "fillFd")
FillFd == Store("fillFd", "fd", server_to_client, "fillPriority")
FillPriority == Store("fillPriority", "prio", mc, "copyName")

(* strncpy is not one store: a name half copied names no segment.          *)
CopyName == Store("copyName", "shm", NoClient, "nameCopied")
NameCopied == Store("nameCopied", "shm", mc, "spawn")

(* Mutants of SpawnWorker: mc is not cleared; list_add adds at the head;   *)
(* list_add comes first and a failed pthread_create is tried again.        *)
SpawnWithoutMemset ==
    /\ Before("spawn")
    /\ Advance(mc, "size")
    /\ list' = Append(list, mc)
    /\ spc' = "while"
    /\ UNCHANGED <<ipcVars, pthread_args, arg, C, cancelled, server_on, mc,
                   server_to_client, hold>>
SpawnAtHead ==
    /\ Before("spawn")
    /\ Advance(mc, "size")
    /\ list' = <<mc>> \o list
    /\ mc' = NoClient
    /\ spc' = "while"
    /\ UNCHANGED <<ipcVars, pthread_args, arg, C, cancelled, server_on,
                   server_to_client, hold>>

SpawnListedFirst ==
    /\ Before("spawn")
    /\ list' = Append(list, mc)
    /\ \/ /\ Advance(mc, "size")
          /\ mc' = NoClient
          /\ spc' = "while"
       \/ /\ "pthread_create" \in Faults
          /\ Len(list) < Cardinality(Processes)
          /\ UNCHANGED <<wpc, mc, spc>>
    /\ UNCHANGED <<ipcVars, pthread_args, arg, C, cancelled, server_on,
                   server_to_client, hold>>

(* pthread_create, list_add and memset(&mc, 0, sizeof(mc)).  A failed      *)
(* pthread_create returns from main, which ends all the other workers.     *)
SpawnWorker ==
    /\ Before("spawn")
    /\ \/ /\ Advance(mc, "size")
          /\ list' = Append(list, mc)
          /\ mc' = NoClient
          /\ spc' = "while"
          /\ UNCHANGED <<alive, endVars>>
       \/ /\ "pthread_create" \in Faults
          /\ spc' = "BAD_THREAD"
          /\ Exit(Server)
          /\ UNCHANGED <<wpc, list, mc>>
    /\ UNCHANGED <<paths, pipe, replies, shm, pthread_args, arg, C, cancelled,
                   server_on, server_to_client, hold>>

(* pthread_cancel for every thread of the list, then list_destroy.         *)
CancelThreads ==
    /\ Before("cancel")
    /\ cancelled' = list
    /\ list' = <<>>
    /\ spc' = "close"
    /\ UNCHANGED <<ipcVars, pthread_args, wpc, arg, C, server_on, mc,
                   server_to_client, hold>>

(* close(client_to_server).                                                *)
CloseRequest ==
    /\ Before("close")
    /\ \/ /\ CloseRead(Server, Server)
          /\ spc' = "closeReply"
          /\ UNCHANGED alive
       \/ /\ "close" \in Faults
          /\ spc' = "BAD_CLOSE"
          /\ Exit(Server)
    /\ UNCHANGED <<paths, pipe, replies, shm, workerVars, server_on, mc,
                   server_to_client, list, hold>>

(* close(server_to_client): the reply FIFO opened last, and no other.  The *)
(* variable is -1 after a failed open.  Before the first open it is        *)
(* indeterminate: whatever it closes then, no worker runs.                 *)
CloseReply ==
    /\ Before("closeReply")
    /\ \/ /\ server_to_client \in Clients
          /\ CloseWrite(Server, server_to_client)
          /\ spc' = "unlink"
          /\ UNCHANGED alive
       \/ /\ server_to_client = "uninitialized"
          /\ spc' = "unlink"
          /\ UNCHANGED <<alive, endVars>>
       \/ /\ server_to_client \notin Clients \/ "close" \in Faults
          /\ spc' = "BAD_CLOSE"
          /\ Exit(Server)
    /\ UNCHANGED <<paths, pipe, replies, shm, workerVars, server_on, mc,
                   server_to_client, list, hold>>

(* The name of the request FIFO is removed; an interrupted open of it      *)
(* comes here as well.                                                     *)
UnlinkRequest ==
    /\ Before("unlink")
    /\ \/ /\ paths' = paths \ {Server}
          /\ spc' = "return"
          /\ UNCHANGED <<alive, endVars>>
       \/ /\ "unlink" \in Faults
          /\ spc' = "BAD_UNLINK"
          /\ Exit(Server)
          /\ UNCHANGED paths
    /\ UNCHANGED <<pipe, replies, shm, workerVars, server_on, mc,
                   server_to_client, list, hold>>

(* main returns, which ends every thread that still runs.                  *)
Return == /\ Before("return")
          /\ spc' = "SUCCESS"
          /\ Exit(Server)
          /\ UNCHANGED <<paths, pipe, replies, shm, workerVars, server_on, mc,
                         server_to_client, list, hold>>

MainStep == \/ Start \/ ServerOpenRequest \/ CreateHold \/ While \/ SleepInRead
            \/ ServerRead \/ ServerOpenReply \/ ServerReplyOpened \/ FillSize \/ FillFd
            \/ FillPriority \/ CopyName \/ NameCopied \/ SpawnWorker
            \/ CancelThreads \/ CloseRequest \/ CloseReply \/ UnlinkRequest
            \/ Return

(* SIGINT, delivered to the main thread.  The handler clears server_on; a  *)
(* call that was sleeping then fails with EINTR, and main reacts to that.  *)
(* Between the test of server_on and the sleep in read there is no such    *)
(* call: main goes to sleep all the same.                                  *)
SleepsIn(call, f) == spc = call /\ <<Server, f>> \in asleep
SleepsInRead == spc = "inRead" /\ pipe = <<>> /\ HasWriter(Server)

Sigint ==
    /\ Signals
    /\ Server \in alive
    /\ spc # "mkfifo"
    /\ server_on' = FALSE
    /\ \/ /\ SleepsIn("inOpenRequest", Server)
          /\ spc' = "unlink"
          /\ InterruptOpenRead(Server, Server)
          /\ UNCHANGED server_to_client
       \/ /\ SleepsIn("inOpenReply", mc)
          /\ spc' = "cancel"
          /\ server_to_client' = "error"
          /\ InterruptOpenWrite(Server, mc)
       \/ /\ SleepsInRead
          /\ spc' = "cancel"
          /\ UNCHANGED <<endVars, server_to_client>>
       \/ /\ ~SleepsIn("inOpenRequest", Server)
          /\ ~SleepsIn("inOpenReply", mc)
          /\ ~SleepsInRead
          /\ UNCHANGED <<endVars, server_to_client, spc>>
    /\ UNCHANGED <<alive, paths, pipe, replies, shm, workerVars, mc, list, hold>>

ServerNext == MainStep \/ HoldFifoOpen \/ Sigint
=============================================================================
