----------------------------- MODULE ClientFifo -----------------------------
(***************************************************************************)
(* The client program, fifo_threaded/client_fifo.c.  It makes its reply    *)
(* FIFO and its shared segment, sends one request through the server's     *)
(* FIFO, waits for one double on its own FIFO, prints matrix A from the    *)
(* segment and exits.  Every run is a new process with a new pid.          *)
(*                                                                         *)
(* cpc[c] is the call client c is about to make, or its exit code; a       *)
(* client killed by a signal has no exit code and is "killed".             *)
(***************************************************************************)
EXTENDS Ipc

CONSTANTS MaxLive,   \* how many clients whoever starts them runs at a time
          Mortal     \* the clients that may be killed from outside

VARIABLE cpc

ClientExits == {"SUCCESS", "BAD_FIFO", "BAD_SHM_OPEN", "BAD_TRUNCATE",
                "BAD_MMAP", "BAD_OPEN", "BAD_WRITE", "BAD_READ", "BAD_CLOSE",
                "BAD_UNLINK", "killed"}
ClientCalls == {"mkfifo", "openRequest", "inOpenRequest", "write", "openReply",
                "inOpenReply", "read", "report"}

ClientInit == cpc = [c \in Clients |-> "mkfifo"]
ClientTypeOK == cpc \in [Clients -> ClientCalls \cup ClientExits]

Goto(c, call) == cpc' = [cpc EXCEPT ![c] = call]

(* The process starts, makes its FIFO and its segment, fills A and B and   *)
(* builds the request.  Any failure returns from main at once and leaves   *)
(* the FIFO behind.  A size of zero fails in mmap, a negative one does not *)
(* fail: its square is positive, and nothing is stored.                    *)
Setup(c) ==
    /\ cpc[c] = "mkfifo"
    /\ Cardinality(alive \cap Clients) < MaxLive
    /\ \/ /\ c \in paths
          /\ Goto(c, "BAD_FIFO")
          /\ UNCHANGED <<alive, paths, shm>>
       \/ /\ c \notin paths
          /\ paths' = paths \cup {c}
          /\ \/ /\ "shm_open" \in Faults
                /\ Goto(c, "BAD_SHM_OPEN")
                /\ UNCHANGED <<alive, shm>>
             \/ /\ "ftruncate" \in Faults
                /\ Goto(c, "BAD_TRUNCATE")
                /\ UNCHANGED <<alive, shm>>
             \/ /\ Size[c] = 0 \/ "mmap" \in Faults
                /\ Goto(c, "BAD_MMAP")
                /\ UNCHANGED <<alive, shm>>
             \/ /\ Size[c] # 0
                /\ shm' = [shm EXCEPT ![c] = "input"]
                /\ alive' = alive \cup {c}
                /\ Goto(c, "openRequest")
    /\ UNCHANGED <<endVars, pipe, replies>>

(* open(client_to_server_fifo, O_WRONLY) sleeps while nobody reads it.     *)
OpenRequest(c) ==
    /\ cpc[c] = "openRequest"
    /\ \/ /\ Server \notin paths \/ "open" \in Faults
          /\ Goto(c, "BAD_OPEN")
          /\ Exit(c)
       \/ /\ Server \in paths
          /\ Goto(c, "inOpenRequest")
          /\ OpenWrite(c, Server)
          /\ UNCHANGED alive
    /\ UNCHANGED <<paths, pipe, replies, shm>>

RequestOpened(c) == /\ cpc[c] = "inOpenRequest"
                    /\ <<c, Server>> \notin asleep
                    /\ Goto(c, "write")
                    /\ UNCHANGED ipcVars

Request(c) == [k \in 1 .. MsgWords |-> <<c, k>>]

(* Mutant of Write: the client forgets to open its reply FIFO.             *)
WriteThenRead(c) == /\ cpc[c] = "write"
                    /\ HasReader(Server)
                    /\ pipe' = pipe \o Request(c)
                    /\ Goto(c, "read")
                    /\ UNCHANGED <<alive, endVars, paths, replies, shm>>

(* The request is shorter than PIPE_BUF, so one write appends all of it or *)
(* none.  Without a reader SIGPIPE ends the client.  Any other failure of  *)
(* write, and of the calls that follow, returns from main and leaves the   *)
(* FIFO behind.                                                            *)
Write(c) ==
    /\ cpc[c] = "write"
    /\ \/ /\ HasReader(Server)
          /\ pipe' = pipe \o Request(c)
          /\ Goto(c, "openReply")
          /\ UNCHANGED <<alive, endVars>>
       \/ /\ ~HasReader(Server)
          /\ Goto(c, "killed")
          /\ Exit(c)
          /\ UNCHANGED pipe
       \/ /\ "write" \in Faults
          /\ Goto(c, "BAD_WRITE")
          /\ Exit(c)
          /\ UNCHANGED pipe
    /\ UNCHANGED <<paths, replies, shm>>

(* Mutant of OpenReply: the flag O_NONBLOCK, which a comment in the code   *)
(* mentions, is passed to open.                                            *)
OpenReplyNonblock(c) ==
    /\ cpc[c] = "openReply"
    /\ readers' = readers \cup {<<c, c>>}
    /\ asleep' = {e \in asleep : ~(e \in writers /\ e[2] = c)}
    /\ Goto(c, "inOpenReply")
    /\ UNCHANGED <<alive, paths, writers, pipe, replies, shm>>

(* open(server_to_client_fifo, O_RDONLY) sleeps until the server opens the *)
(* FIFO for writing.                                                       *)
OpenReply(c) ==
    /\ cpc[c] = "openReply"
    /\ \/ /\ OpenRead(c, c)
          /\ Goto(c, "inOpenReply")
          /\ UNCHANGED alive
       \/ /\ "open" \in Faults
          /\ Goto(c, "BAD_OPEN")
          /\ Exit(c)
    /\ UNCHANGED <<paths, pipe, replies, shm>>

ReplyOpened(c) == /\ cpc[c] = "inOpenReply"
                  /\ <<c, c>> \notin asleep
                  /\ Goto(c, "read")
                  /\ UNCHANGED ipcVars

(* Mutant of Read: the client does not wait for its answer.                *)
ReadWithoutWaiting(c) == /\ cpc[c] = "read"
                         /\ replies' = [replies EXCEPT ![c] = @ - 1]
                         /\ Goto(c, "report")
                         /\ UNCHANGED <<alive, paths, endVars, pipe, shm>>

(* One read.  Only ERROR is looked for: end-of-file, when no writer is     *)
(* left, is taken for an answer.                                           *)
Read(c) ==
    /\ cpc[c] = "read"
    /\ \/ /\ replies[c] > 0
          /\ replies' = [replies EXCEPT ![c] = @ - 1]
          /\ Goto(c, "report")
          /\ UNCHANGED <<alive, endVars>>
       \/ /\ replies[c] = 0
          /\ ~HasWriter(c)
          /\ Goto(c, "report")
          /\ UNCHANGED <<alive, endVars, replies>>
       \/ /\ "read" \in Faults
          /\ Goto(c, "BAD_READ")
          /\ Exit(c)
          /\ UNCHANGED replies
    /\ UNCHANGED <<paths, pipe, shm>>

(* "Sever completed computing matrix.": A is printed, both descriptors are *)
(* closed, the reply FIFO is unlinked.  The segment is never unlinked.     *)
(* One step with the exit: main does not open the FIFO of a client that is *)
(* here (RequestNamesLiveObjects), the only one who could tell the closes  *)
(* from the unlink.                                                        *)
Finish(c) ==
    /\ cpc[c] = "report"
    /\ Exit(c)
    /\ \/ /\ Goto(c, "SUCCESS")
          /\ paths' = paths \ {c}
       \/ /\ "close" \in Faults
          /\ Goto(c, "BAD_CLOSE")
          /\ UNCHANGED paths
       \/ /\ "unlink" \in Faults
          /\ Goto(c, "BAD_UNLINK")
          /\ UNCHANGED paths
    /\ UNCHANGED <<pipe, replies, shm>>

(* The user kills a running client, whatever call it is in.                *)
Kill(c) == /\ c \in alive \cap Mortal
           /\ Goto(c, "killed")
           /\ Exit(c)
           /\ UNCHANGED <<paths, pipe, replies, shm>>

(* What the client program does by itself once it is running.              *)
ClientStep(c) == \/ OpenRequest(c) \/ RequestOpened(c) \/ Write(c)
                 \/ OpenReply(c) \/ ReplyOpened(c) \/ Read(c) \/ Finish(c)

ClientNext(c) == Setup(c) \/ ClientStep(c) \/ Kill(c)
=============================================================================
