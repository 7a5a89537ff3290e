-------------------------- MODULE SingleFifoServer --------------------------
(***************************************************************************)
(* The programs of other/fifo_single_thread: a server that reads requests  *)
(* from one FIFO, multiplies, and writes every result to one other FIFO,   *)
(* which all clients read.                                                 *)
(*                                                                         *)
(* spc and cpc[c] are the call the server or client c is about to make, or *)
(* its exit code.  A result bears the name of the client it was computed   *)
(* for, a request the name of the client that sent it.                     *)
(***************************************************************************)
EXTENDS Fifo

CONSTANTS Quitters,  \* clients that ask for matrix size 0 and priority 0
          Huge,      \* clients whose matrices cannot be allocated or overflow
          Mortal,    \* clients that may be killed
          Stale,     \* FIFO files an earlier server may have left
          Faults     \* the system calls that may fail

Fifos == {"c2s", "s2c"}

ASSUME SingleFifoAssumption == /\ IsFiniteSet(Clients)
                               /\ Server \notin Clients
                               /\ Quitters \subseteq Clients
                               /\ Stale \subseteq Fifos
                               /\ {"none", "garbage"} \cap Clients = {}

VARIABLES requests,  \* unread requests, oldest first
          results,   \* unread results, oldest first
          spc, mc,
          cpc,
          got        \* [Clients -> ...]: what a client prints as its result

vars == <<alive, paths, readers, writers, asleep, requests, results, spc, mc,
          cpc, got>>
serverVars == <<spc, mc>>
clientVars == <<cpc, got>>

ServerExits == {"SUCCESS", "BAD_FIFO", "BAD_READ", "BAD_CLOSE", "BAD_UNLINK",
                "killed"}
ClientExits == {"SUCCESS", "BAD_OPEN", "killed"}

TypeOK ==
    /\ alive \subseteq Processes
    /\ paths \subseteq Fifos
    /\ readers \subseteq Processes \X Fifos
    /\ writers \subseteq Processes \X Fifos
    /\ asleep \subseteq readers \cup writers
    /\ requests \in Seq(Clients)
    /\ results \in Seq(Clients)
    /\ spc \in {"mkfifoRequests", "mkfifoResults", "openRequests",
                "inOpenRequests", "inOpenResults", "read", "multiply", "write",
                "close", "unlinkRequests", "unlinkResults"} \cup ServerExits
    /\ mc \in Clients \cup {"none"}
    /\ cpc \in [Clients -> {"openRequests", "inOpenRequests", "openResults",
                            "inOpenResults", "write", "read"} \cup ClientExits]
    /\ got \in [Clients -> Clients \cup {"none", "garbage"}]

Init == /\ alive = {Server}
        /\ paths \in SUBSET Stale
        /\ readers = {} /\ writers = {} /\ asleep = {}
        /\ requests = <<>> /\ results = <<>>
        /\ spc = "mkfifoRequests"
        /\ mc = "none"
        /\ cpc = [c \in Clients |-> "openRequests"]
        /\ got = [c \in Clients |-> "none"]
-----------------------------------------------------------------------------
(* The server.                                                             *)
Before(call) == Server \in alive /\ spc = call
Quit(code) == spc' = code /\ Exit(Server)

(* mkfifo fails on a file that exists; the file made before is then left.  *)
MakeFifo(call, f, next) ==
    /\ Before(call)
    /\ \/ /\ f \notin paths
          /\ paths' = paths \cup {f}
          /\ spc' = next
          /\ UNCHANGED <<alive, endVars>>
       \/ /\ f \in paths
          /\ Quit("BAD_FIFO")
          /\ UNCHANGED paths
    /\ UNCHANGED <<requests, results, mc, clientVars>>

MakeFifos == \/ MakeFifo("mkfifoRequests", "c2s", "mkfifoResults")
             \/ MakeFifo("mkfifoResults", "s2c", "openRequests")

ServerOpenRequests ==
    /\ Before("openRequests")
    /\ OpenRead(Server, "c2s")
    /\ spc' = "inOpenRequests"
    /\ UNCHANGED <<alive, paths, requests, results, mc, clientVars>>

(* The second open starts when the first has found a writer.               *)
ServerOpenResults ==
    /\ Before("inOpenRequests")
    /\ <<Server, "c2s">> \notin asleep
    /\ OpenWrite(Server, "s2c")
    /\ spc' = "inOpenResults"
    /\ UNCHANGED <<alive, paths, requests, results, mc, clientVars>>

ServerOpened ==
    /\ Before("inOpenResults")
    /\ <<Server, "s2c">> \notin asleep
    /\ spc' = "read"
    /\ UNCHANGED <<alive, paths, endVars, requests, results, mc, clientVars>>

(* Mutants of ServerRead: end-of-file is not told from a request, and mc   *)
(* was cleared after the last one, or is still uninitialized; the buffer   *)
(* takes all that is queued, and only the first request is looked at.      *)
ServerReadEof(next) ==
    /\ Before("read")
    /\ \/ /\ requests # <<>>
          /\ mc' = Head(requests)
          /\ requests' = Tail(requests)
          /\ spc' = IF mc' \in Quitters THEN "close" ELSE "multiply"
       \/ /\ requests = <<>>
          /\ ~HasWriter("c2s")
          /\ spc' = next
          /\ UNCHANGED <<requests, mc>>
    /\ UNCHANGED <<alive, paths, endVars, results, clientVars>>
ServerReadCleared == ServerReadEof("close")
ServerReadUninitialized == ServerReadEof("multiply")
ServerReadAll ==
    /\ Before("read")
    /\ requests # <<>>
    /\ mc' = Head(requests)
    /\ requests' = <<>>
    /\ spc' = IF mc' \in Quitters THEN "close" ELSE "multiply"
    /\ UNCHANGED <<alive, paths, endVars, results, clientVars>>

(* read, the test for end-of-file, on which the loop just goes round, and  *)
(* the test for the request that shuts the server down.                    *)
ServerRead ==
    /\ Before("read")
    /\ \/ /\ requests # <<>>
          /\ mc' = Head(requests)
          /\ requests' = Tail(requests)
          /\ spc' = IF mc' \in Quitters THEN "close" ELSE "multiply"
          /\ UNCHANGED <<alive, endVars>>
       \/ /\ "read" \in Faults
          /\ Quit("BAD_READ")
          /\ UNCHANGED <<requests, mc>>
    /\ UNCHANGED <<paths, results, clientVars>>

(* dense_mm: sizes above 65536, negative ones among them, give the result  *)
(* -1; what it does with a size it cannot allocate is left to chance.      *)
Multiply ==
    /\ Before("multiply")
    /\ \/ /\ spc' = "write"
          /\ UNCHANGED <<alive, endVars>>
       \/ /\ mc \in Huge
          /\ Quit("killed")
    /\ UNCHANGED <<paths, requests, results, mc, clientVars>>

(* write and memset.  Without a reader SIGPIPE ends the server.            *)
ServerWrite ==
    /\ Before("write")
    /\ \/ /\ HasReader("s2c")
          /\ results' = Append(results, mc)
          /\ mc' = "none"
          /\ spc' = "read"
          /\ UNCHANGED <<alive, endVars>>
       \/ /\ ~HasReader("s2c")
          /\ Quit("killed")
          /\ UNCHANGED <<results, mc>>
    /\ UNCHANGED <<paths, requests, clientVars>>

(* Both descriptors are closed.                                            *)
Close ==
    /\ Before("close")
    /\ \/ /\ readers' = readers \ {<<Server, "c2s">>}
          /\ writers' = writers \ {<<Server, "s2c">>}
          /\ spc' = "unlinkRequests"
          /\ UNCHANGED <<alive, asleep>>
       \/ /\ "close" \in Faults
          /\ Quit("BAD_CLOSE")
    /\ UNCHANGED <<paths, requests, results, mc, clientVars>>

UnlinkRequests ==
    /\ Before("unlinkRequests")
    /\ \/ /\ paths' = paths \ {"c2s"}
          /\ spc' = "unlinkResults"
          /\ UNCHANGED <<alive, endVars>>
       \/ /\ "unlink" \in Faults
          /\ Quit("BAD_UNLINK")
          /\ UNCHANGED paths
    /\ UNCHANGED <<requests, results, mc, clientVars>>

UnlinkResults ==
    /\ Before("unlinkResults")
    /\ \/ /\ paths' = paths \ {"s2c"}
          /\ Quit("SUCCESS")
       \/ /\ "unlink" \in Faults
          /\ Quit("BAD_UNLINK")
          /\ UNCHANGED paths
    /\ UNCHANGED <<requests, results, mc, clientVars>>

ServerStep == \/ MakeFifos \/ ServerOpenRequests \/ ServerOpenResults
              \/ ServerOpened \/ ServerRead \/ Multiply \/ ServerWrite \/ Close
              \/ UnlinkRequests \/ UnlinkResults
-----------------------------------------------------------------------------
(* The clients.                                                            *)
Goto(c, call) == cpc' = [cpc EXCEPT ![c] = call]

(* The client starts.  Whether this open failed is only looked at after    *)
(* the second one: a client that has no request FIFO is not in writers.    *)
OpenRequests(c) ==
    /\ cpc[c] = "openRequests"
    /\ alive' = alive \cup {c}
    /\ \/ /\ "c2s" \in paths
          /\ OpenWrite(c, "c2s")
          /\ Goto(c, "inOpenRequests")
       \/ /\ "c2s" \notin paths
          /\ Goto(c, "openResults")
          /\ UNCHANGED endVars
    /\ UNCHANGED <<paths, requests, results, serverVars, got>>

RequestsOpened(c) ==
    /\ cpc[c] = "inOpenRequests"
    /\ <<c, "c2s">> \notin asleep
    /\ Goto(c, "openResults")
    /\ UNCHANGED <<alive, paths, endVars, requests, results, serverVars, got>>

OpenResults(c) ==
    /\ cpc[c] = "openResults"
    /\ \/ /\ "s2c" \in paths
          /\ OpenRead(c, "s2c")
          /\ Goto(c, "inOpenResults")
          /\ UNCHANGED alive
       \/ /\ "s2c" \notin paths
          /\ Goto(c, "BAD_OPEN")
          /\ Exit(c)
    /\ UNCHANGED <<paths, requests, results, serverVars, got>>

ResultsOpened(c) ==
    /\ cpc[c] = "inOpenResults"
    /\ <<c, "s2c">> \notin asleep
    /\ \/ /\ <<c, "c2s">> \in writers
          /\ Goto(c, "write")
          /\ UNCHANGED <<alive, endVars>>
       \/ /\ <<c, "c2s">> \notin writers
          /\ Goto(c, "BAD_OPEN")
          /\ Exit(c)
    /\ UNCHANGED <<paths, requests, results, serverVars, got>>

(* Without a reader SIGPIPE ends the client.                               *)
Write(c) ==
    /\ cpc[c] = "write"
    /\ \/ /\ HasReader("c2s")
          /\ requests' = Append(requests, c)
          /\ Goto(c, "read")
          /\ UNCHANGED <<alive, endVars>>
       \/ /\ ~HasReader("c2s")
          /\ Goto(c, "killed")
          /\ Exit(c)
          /\ UNCHANGED requests
    /\ UNCHANGED <<paths, results, serverVars, got>>

(* Mutants of Read: the client reads again when it meets end-of-file; the  *)
(* client does not wait, as with O_NONBLOCK.                               *)
ReadInsist(c) ==
    /\ cpc[c] = "read"
    /\ results # <<>>
    /\ got' = [got EXCEPT ![c] = Head(results)]
    /\ results' = Tail(results)
    /\ Goto(c, "SUCCESS")
    /\ Exit(c)
    /\ UNCHANGED <<paths, requests, serverVars>>
ReadNonblock(c) ==
    /\ cpc[c] = "read"
    /\ got' = [got EXCEPT ![c] = IF results = <<>> THEN "garbage"
                                                  ELSE Head(results)]
    /\ results' = IF results = <<>> THEN <<>> ELSE Tail(results)
    /\ Goto(c, "SUCCESS")
    /\ Exit(c)
    /\ UNCHANGED <<paths, requests, serverVars>>

(* One read; at end-of-file computation_result was never assigned.  Then   *)
(* the value is printed, both descriptors are closed and main returns.     *)
Read(c) ==
    /\ cpc[c] = "read"
    /\ \/ /\ results # <<>>
          /\ got' = [got EXCEPT ![c] = Head(results)]
          /\ results' = Tail(results)
       \/ /\ results = <<>>
          /\ ~HasWriter("s2c")
          /\ got' = [got EXCEPT ![c] = "garbage"]
          /\ UNCHANGED results
    /\ Goto(c, "SUCCESS")
    /\ Exit(c)
    /\ UNCHANGED <<paths, requests, serverVars>>

Kill(c) == /\ c \in alive \cap Mortal
           /\ Goto(c, "killed")
           /\ Exit(c)
           /\ UNCHANGED <<paths, requests, results, serverVars, got>>

ClientStep(c) == \/ RequestsOpened(c) \/ OpenResults(c) \/ ResultsOpened(c)
                 \/ Write(c) \/ Read(c)

Next == ServerStep \/ \E c \in Clients : \/ OpenRequests(c) \/ ClientStep(c)
                                         \/ Kill(c)

Fairness == WF_vars(ServerStep) /\ \A c \in Clients : WF_vars(ClientStep(c))
Spec == Init /\ [][Next]_vars
FairSpec == Spec /\ Fairness
-----------------------------------------------------------------------------
(* Properties.                                                             *)
Waiting == {c \in Clients : cpc[c] = "read"}
Killed == {c \in Clients : cpc[c] = "killed"}
Serving == Server \in alive /\ spc \in {"read", "multiply", "write"}

(* The requests and results on their way, the one in the server's hands    *)
(* included.                                                               *)
Outstanding == Len(requests) + Len(results)
                   + (IF spc \in {"multiply", "write"} THEN 1 ELSE 0)

(* While the server is in its loop no client waits for a result that will  *)
(* not come, whoever took whose result before (server_fifo.c, the loop;    *)
(* client_fifo.c, the read of the one result FIFO).                        *)
WaitersAreOwed == Serving => Cardinality(Waiting) <= Outstanding

(* More results than clients that wait for one are there only because a    *)
(* client was killed after it had sent its request: from then on every     *)
(* client reads the result of an earlier one.                              *)
SurplusMeansKilled == Serving =>
    Outstanding <= Cardinality(Waiting) + Cardinality(Killed)

(* The server leaves its loop in order only for a request (0, 0), never    *)
(* because it found no writer at the request FIFO.                         *)
ShutdownWasAsked == spc \in {"close", "unlinkRequests", "unlinkResults",
                             "SUCCESS", "BAD_CLOSE", "BAD_UNLINK"}
                        => mc \in Quitters

(* A client that sent its request ends, whatever becomes of the server.    *)
SendersLeave == \A c \in Clients : cpc[c] = "read" ~> cpc[c] \in ClientExits
=============================================================================
