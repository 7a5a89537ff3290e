--------------------------- MODULE MatrixService ---------------------------
(***************************************************************************)
(* The matrix multiplication service of fifo_threaded: client processes    *)
(* and one server process with its main thread, its hold thread and one    *)
(* worker thread per request.  Threads and processes interleave at every   *)
(* system call and at every access to the shared slot pthread_args.        *)
(***************************************************************************)
EXTENDS ClientFifo, ServerFifo

CONSTANT Stale   \* FIFO files that an earlier run may have left in /tmp

ASSUME StaleAreFifos == Stale \subseteq Processes

vars == <<ipcVars, cpc, workerVars, serverVars>>

Init == /\ IpcInit(Stale)
        /\ ClientInit
        /\ WorkerInit
        /\ ServerInit

Client(c) == ClientStep(c) /\ UNCHANGED <<workerVars, serverVars>>
User(c) == (Setup(c) \/ Kill(c)) /\ UNCHANGED <<workerVars, serverVars>>
Worker(c) == WorkerNext(c) /\ UNCHANGED <<cpc, serverVars>>
Main == MainStep /\ UNCHANGED cpc
Hold == HoldFifoOpen /\ UNCHANGED cpc
Interrupt == Sigint /\ UNCHANGED cpc

Next == \/ \E c \in Clients : Client(c) \/ User(c) \/ Worker(c)
        \/ Main \/ Hold \/ Interrupt

Spec == Init /\ [][Next]_vars

(* Every thread that can run does run in the end: the kernel schedules the *)
(* threads of a machine with more cores than spinning threads.  Nobody has *)
(* to start a client, kill one or press Ctrl-C.                            *)
Fairness == /\ \A c \in Clients : WF_vars(Client(c)) /\ WF_vars(Worker(c))
            /\ WF_vars(Main)
            /\ WF_vars(Hold)

FairSpec == Spec /\ Fairness

-----------------------------------------------------------------------------
(* The variables keep to their types (all of the code's assignments).      *)
TypeOK == IpcTypeOK /\ ClientTypeOK /\ WorkerTypeOK /\ ServerTypeOK

(* The requests the main thread accepted, in order, through list.          *)
Started == cancelled \o list

(* No two threads are created for one request, although the buffer mc is   *)
(* used again after a failed open and after end-of-file                    *)
(* (server_fifo.c, the loop of main).                                      *)
NoDuplicateWorkers ==
    \A i, j \in DOMAIN Started : Started[i] = Started[j] => i = j

(* The main thread is storing the request in mc into the slot, or died of  *)
(* a failed pthread_create right after it did.                             *)
Storing == spc \in FillSteps \cup {"BAD_THREAD"}

(* Request d was accepted after request c, or is being stored now.         *)
After(c, d) == \E i, j \in DOMAIN Started :
                  i < j /\ Started[i] = c /\ Started[j] = d
Later(c, d) == (Storing /\ d = mc) \/ After(c, d)

(* The race on pthread_args goes one way: whatever a worker loads from it  *)
(* is its own request's or that of a request accepted later, never one of  *)
(* an earlier request (dense_mm.c loads args->..., server_fifo.c refills). *)
SlotFields == {"size", "fd", "shm"}
ForwardOnly ==
    \A c \in Clients : \A field \in SlotFields :
        arg[c][field] \in {NoClient, c} \/ Later(c, arg[c][field])

(* The main thread fills the slot for a client, whose FIFO it has open.    *)
RequestInHand == /\ spc \in {"inOpenReply"} \cup FillSteps => mc \in Clients
                 /\ spc \in FillSteps => server_to_client = mc

(* Which fields of the slot hold mc already.                               *)
Stored ==
    {field \in SlotFields :
        \/ spc = "spawn"
        \/ spc \in {"fillPriority", "copyName", "nameCopied"} /\ field # "shm"
        \/ spc = "fillFd" /\ field = "size"}

Newest == IF Started = <<>> THEN NoClient ELSE Started[Len(Started)]

(* Why the race goes one way: the hold thread is created first and threads *)
(* are cancelled last; all fields are stored before the next worker is     *)
(* created; the slot only ever holds the newest request accepted or the    *)
(* one being stored; and only a request that was accepted has a worker     *)
(* (server_fifo.c, from the fill of pthread_args to memset, and shutdown). *)
ListIsEmptyFirst ==
    spc \in {"mkfifo", "openRequest", "inOpenRequest"} => list = <<>>
ClosingDown == {"close", "closeReply", "unlink", "return", "SUCCESS",
                "BAD_CLOSE", "BAD_UNLINK"}
CancelIsLast == cancelled # <<>> => spc \in ClosingDown
StoredIsInHand == \A field \in Stored : pthread_args[field] = mc
SlotIsNewest ==
    \A field \in SlotFields :
        \/ pthread_args[field] \in {NoClient, Newest}
        \/ Storing /\ pthread_args[field] = mc
WorkersAreStarted ==
    \A c \in Clients : IF wpc[c] = "none" THEN arg[c] = NothingLoaded
                        ELSE \E i \in DOMAIN Started : Started[i] = c

SlotInv == /\ RequestInHand /\ ListIsEmptyFirst /\ CancelIsLast
           /\ StoredIsInHand /\ SlotIsNewest /\ WorkersAreStarted /\ ForwardOnly

(* When the main thread opens a reply FIFO for a request it read, the FIFO *)
(* is still there and the segment is filled: a client does not clean up    *)
(* before it is answered, even when main is late, skips or reads           *)
(* end-of-file (client_fifo.c unlinks last, server_fifo.c opens).          *)
RequestNamesLiveObjects ==
    (Server \in alive /\ spc = "openReply" /\ mc \in Clients)
        => mc \in paths /\ shm[mc] # "none"

(* Some worker acts on another request than its own.                       *)
Raced == \E c \in Clients : \E field \in SlotFields :
            arg[c][field] \notin {NoClient, c}

Crashed == Server \notin alive /\ spc \notin ServerExits

(* A client that left without its answer; a worker that loaded a negative  *)
(* size.                                                                   *)
GaveUp(c) == cpc[c] \in {"killed", "BAD_READ"}
LoadedNegative(c) == arg[c].size # NoClient /\ Size[arg[c].size] < 0

(* The server is not killed by SIGPIPE or SIGBUS unless a client died, the *)
(* slot was raced or a size was negative (dense_mm.c writes replies and    *)
(* touches segments without any check).                                    *)
CrashNeedsRaceOrDeath ==
    Crashed => Raced \/ \E c \in Clients : GaveUp(c) \/ LoadedNegative(c)

(* The descriptor in the slot and the one a worker loaded earlier aside,   *)
(* every worker answers once: a client whose worker ended while it still   *)
(* waits lost its descriptor, or the worker lost the segment's name, to a  *)
(* request accepted later (dense_mm.c, its returns without a write).       *)
StrandedMeansRaced ==
    \A c \in Clients :
        (wpc[c] = "done" /\ cpc[c] = "read" /\ replies[c] = 0
                         /\ ~IsCancelled(c))
            => arg[c].fd # c \/ arg[c].shm = NoClient

(* A client mistakes end-of-file for its answer (client_fifo.c tests its   *)
(* read for ERROR only) in two cases: the server is gone, or main, shutting*)
(* down, has closed this client's reply FIFO, the one it opened last, and  *)
(* has not exited yet (server_fifo.c, close(server_to_client)).  No worker *)
(* that gives up, and no request main skips, does it.                      *)
ClosedAtShutdown(c) == server_to_client = c /\ spc \in {"unlink", "return"}
EofMeansShutdown ==
    [][\A c \in Clients : cpc[c] = "read" /\ replies[c] = 0
                              /\ cpc'[c] = "report"
                          => Server \notin alive \/ ClosedAtShutdown(c)]_vars

(* Every request is read from its first word on.                           *)
RequestsStayFramed == pipe # <<>> => Head(pipe)[2] = 1

(* The main thread, which serves everybody, waits in the open of a reply   *)
(* FIFO for ever only if the client it waits for is dead.                  *)
MainWaitsForTheDeadOnly ==
    \A c \in Clients : (spc = "inOpenReply" /\ mc = c)
                           ~> (spc # "inOpenReply" \/ {c, Server} \ alive # {})

(* The main thread stops to read end-of-file: from some time on the hold   *)
(* thread keeps a writer there (server_fifo.c, hold_fifo_open), unless its *)
(* own open failed.                                                        *)
HoldEndsEof ==
    <>[](Server \in alive => HasWriter(Server) \/ hold \in {"none", "failed"})

Asked(c) == \E i \in DOMAIN pipe : pipe[i] = <<c, 1>>

(* Every request that was written gets a worker, as long as the server     *)
(* runs (server_fifo.c, the loop of main).                                 *)
EveryRequestGetsAWorker ==
    \A c \in Clients : Asked(c) ~> (wpc[c] # "none" \/ Server \notin alive)

(* A client that reports completion finds the product in its matrix A      *)
(* (client_fifo.c: "Wait for server to finish").                           *)
CompletedMeansComputed ==
    \A c \in Clients : cpc[c] = "report" => shm[c] = "product"

(* A client that sent its request exits with success in the end.           *)
EveryRequestAnswered ==
    \A c \in Clients : (cpc[c] = "openReply") ~> (cpc[c] = "SUCCESS")

(* An interrupt that came too late for the call main went to sleep in, as  *)
(* one between the test of server_on and the read, is not lost for good:   *)
(* once another request is in the FIFO the server ends, unless it sleeps   *)
(* in the open for a client that died (server_fifo.c, the test of          *)
(* server_on, the handler, and the two calls that return EINTR).           *)
InterruptTakesEffectAtNextRequest ==
    \A c \in Clients :
        (~server_on /\ Asked(c))
            ~> (Server \notin alive \/ (spc = "inOpenReply" /\ mc \notin alive))

(* An interrupted server that returns from main removes its FIFO; the case *)
(* of an indeterminate server_to_client is left out.                       *)
ShutdownRemovesFifo ==
    (Server \notin alive /\ ~server_on /\ spc \in ServerExits
         /\ server_to_client # "uninitialized")
        => Server \notin paths

-----------------------------------------------------------------------------
(* The service as its clients see it, when the server is used as intended. *)
Job(c) == IF cpc[c] = "SUCCESS" THEN "told"
          ELSE IF shm[c] = "product" THEN "done"
          ELSE IF cpc[c] \in {"openReply", "inOpenReply", "read"} THEN "asked"
          ELSE "none"

Abstract == INSTANCE JobService WITH job <- [c \in Clients |-> Job(c)]

(* Used as intended, the programs implement the abstract service.          *)
ImplementsJobService == Abstract!FairSpec
=============================================================================
