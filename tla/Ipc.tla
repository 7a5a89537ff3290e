-------------------------------- MODULE Ipc --------------------------------
(***************************************************************************)
(* The kernel objects through which the processes of fifo_threaded meet:   *)
(* the FIFOs and what they buffer, and the POSIX shared memory segments.   *)
(*                                                                         *)
(* A FIFO bears the name of the process that makes it: FIFO c is the reply *)
(* FIFO /tmp/server_to_client_fifo_<pid> of client c, FIFO Server is the   *)
(* request FIFO /tmp/client_to_server_fifo.                                *)
(***************************************************************************)
EXTENDS Fifo, Integers

CONSTANTS NoClient,    \* a path, name or slot that designates no client
          MsgWords,    \* length of a client's request in 8-byte words
          Size,        \* [Clients -> Int]: the matrix_size each client asks for
          Faults       \* the system calls that may fail

ASSUME ProcessesAreDistinct == /\ Server \notin Clients
                               /\ NoClient \notin Clients
                               /\ NoClient # Server
ASSUME RequestIsNotEmpty == MsgWords \in Nat \ {0}
ASSUME SizesAreNumbers == Size \in [Clients -> Int]

Words == Clients \X (1 .. MsgWords)

VARIABLES pipe,     \* the words buffered in the request FIFO, oldest first
          replies,  \* [Clients -> Nat]: unread doubles in each reply FIFO
          shm       \* [Clients -> ...]: what matrix A of the segment holds

ipcVars == <<alive, paths, readers, writers, asleep, pipe, replies, shm>>

(* Matrix A of a segment: not created, the client's coefficients, the      *)
(* product A*B of the client's own two matrices, anything else.            *)
Contents == {"none", "input", "product", "wrong"}

IpcInit(stale) == /\ alive = {Server}
                  /\ paths \in SUBSET stale
                  /\ readers = {} /\ writers = {} /\ asleep = {}
                  /\ pipe = <<>>
                  /\ replies = [c \in Clients |-> 0]
                  /\ shm = [c \in Clients |-> "none"]

IpcTypeOK == /\ alive \subseteq Processes
             /\ paths \subseteq Processes
             /\ readers \subseteq Processes \X Processes
             /\ writers \subseteq Processes \X Processes
             /\ asleep \subseteq Processes \X Processes
             /\ pipe \in Seq(Words)
             /\ replies \in [Clients -> Nat]
             /\ shm \in [Clients -> Contents]
============================================================================
