----------------------------- MODULE EpollServer -----------------------------
(***************************************************************************)
(* The two servers that wait with epoll and their clients:                 *)
(*   other/single_thread    sends each client that connects a priority;    *)
(*   other/client_to_server prints the text each client sends.             *)
(* other/fifo_single_thread holds copies of the first server and client.   *)
(*                                                                         *)
(* Both loops handle one event of a batch and break, register the          *)
(* listening socket edge-triggered, and remember one descriptor, cfd.      *)
(***************************************************************************)
EXTENDS Naturals, Sequences, FiniteSets, FiniteSetsExt

CONSTANTS Clients,
          Programs,  \* which of the two servers are looked at
          MaxEvent,  \* MAX_EVENT, the length of the array epollEvents
          Keys,      \* bound: how often there is new input on stdin
          Backlog,   \* how many connections listen(2) lets wait
          MaxOpen,   \* how many connections there are descriptors for
          Mortal     \* clients that may be killed

ASSUME EpollAssumption == /\ IsFiniteSet(Clients)
                          /\ "free" \notin Clients
                          /\ Programs \subseteq {"priority", "text"}
                          /\ MaxEvent \in Nat \ {0}
                          /\ Keys \in Nat
                          /\ Backlog \in Nat \ {0}
                          /\ MaxOpen \in Nat

VARIABLES program,  \* the server that runs, with its clients
          spc,
          cfd,      \* the descriptor of the last accept, whatever it is now
          events,   \* the part of epollEvents the for loop has not looked at
          ready,    \* the kernel's list of ready descriptors of the epoll set
          backlog,  \* connections that wait for accept
          conn,     \* [Descriptors -> Clients or "free"]: accepted connections
          watched,  \* accepted descriptors in the epoll set
          keys,     \* how often stdin had new input
          cpc       \* what each client does

serverVars == <<spc, cfd, events>>
kernelVars == <<ready, backlog, conn, watched, keys>>
vars == <<program, serverVars, kernelVars, cpc>>

(* sfd is the first descriptor opened, epoll_fd the second.  Before the    *)
(* first accept cfd is indeterminate, and there is nothing to compare it   *)
(* with.                                                                   *)
Stdin == 0
Sfd == 3
Descriptors == 5 .. 4 + Cardinality(Clients)
Sources == Descriptors \cup {Stdin, Sfd}

TypeOK ==
    /\ program \in Programs
    /\ spc \in {"listen", "watch", "wait", "loop", "accept", "add", "send",
                "scan", "exited"}
    /\ cfd \in Descriptors \cup {Stdin}
    /\ events \in Seq(Sources)
    /\ ready \in Seq(Sources)
    /\ backlog \in Seq(Clients)
    /\ conn \in [Descriptors -> Clients \cup {"free"}]
    /\ watched \subseteq {d \in Descriptors : conn[d] # "free"}
    /\ keys \in 0 .. Keys
    /\ cpc \in [Clients -> {"connect", "connected", "sent", "closed",
                            "refused"}]

Init == /\ program \in Programs
        /\ spc = "listen"
        /\ cfd = Stdin
        /\ events = <<>> /\ ready = <<>> /\ backlog = <<>>
        /\ conn = [d \in Descriptors |-> "free"]
        /\ watched = {}
        /\ keys = 0
        /\ cpc = [c \in Clients |-> "connect"]

InSeq(x, s) == \E i \in DOMAIN s : s[i] = x
-----------------------------------------------------------------------------
(* The kernel.  A descriptor that becomes ready is put at the end of the   *)
(* ready list, once.                                                       *)
Wake(x) == ready' = IF InSeq(x, ready) THEN ready ELSE Append(ready, x)
Without(s, x) ==
    IF ~InSeq(x, s) THEN s
    ELSE LET i == CHOOSE j \in DOMAIN s : s[j] = x
         IN  SubSeq(s, 1, i - 1) \o SubSeq(s, i + 1, Len(s))

Descriptor(c) == CHOOSE d \in Descriptors : conn[d] = c
Accepted(c) == \E d \in Descriptors : conn[d] = c
HungUp(d) == conn[d] # "free" /\ cpc[conn[d]] = "closed"

(* stdin and sfd are registered with EPOLLET, each client's descriptor     *)
(* only with EPOLLRDHUP, level-triggered: it goes back to the end of the   *)
(* list whenever it is reported, until it is closed.                       *)
LevelTriggered(s) == Without(Without(s, Stdin), Sfd)

Batch == SubSeq(ready, 1, IF Len(ready) < MaxEvent THEN Len(ready)
                                                   ELSE MaxEvent)

(* New input on stdin.  The server never reads it.                         *)
Type == /\ keys < Keys
        /\ keys' = keys + 1
        /\ IF spc \in {"listen", "watch", "exited"} THEN UNCHANGED ready
                                          ELSE Wake(Stdin)
        /\ UNCHANGED <<program, serverVars, backlog, conn, watched, cpc>>
-----------------------------------------------------------------------------
(* The clients.                                                            *)
Goto(c, call) == cpc' = [cpc EXCEPT ![c] = call]

(* connect(2) completes without accept while the backlog has room.         *)
Connect(c) ==
    /\ cpc[c] = "connect"
    /\ \/ /\ spc \in {"listen", "exited"}
          /\ Goto(c, "refused")
          /\ UNCHANGED <<backlog, ready>>
       \/ /\ spc \notin {"listen", "exited"}
          /\ Len(backlog) < Backlog
          /\ backlog' = Append(backlog, c)
          /\ IF spc = "watch" THEN UNCHANGED ready ELSE Wake(Sfd)
          /\ Goto(c, "connected")
    /\ UNCHANGED <<program, serverVars, conn, watched, keys>>

(* The client's socket is closed: the server's end, once accepted and      *)
(* registered, reports EPOLLRDHUP.                                         *)
Close(c) ==
    /\ Goto(c, "closed")
    /\ IF Accepted(c) /\ Descriptor(c) \in watched
         THEN Wake(Descriptor(c)) ELSE UNCHANGED ready
    /\ UNCHANGED <<program, serverVars, backlog, conn, watched, keys>>

(* other/single_thread: recv waits for the priority, or for the end of the *)
(* connection, then the socket is closed.  other/client_to_server: send    *)
(* does not wait.                                                          *)
Finish(c) == /\ \/ cpc[c] = "sent"
                \/ cpc[c] = "connected" /\ (program = "text" \/ spc = "exited")
             /\ Close(c)

Kill(c) == /\ c \in Mortal
           /\ cpc[c] \in {"connected", "sent"}
           /\ Close(c)
-----------------------------------------------------------------------------
(* The server.  Errors of socket, bind and listen exit before anything is  *)
(* shared, and are left out; so are those of the epoll calls and of send.  *)
Listen == /\ spc = "listen"
          /\ spc' = "watch"
          /\ UNCHANGED <<program, cfd, events, kernelVars, cpc>>

(* epoll_create1 and the two EPOLL_CTL_ADD report what is ready already.   *)
Watch == /\ spc = "watch"
         /\ spc' = "wait"
         /\ ready' = (IF keys > 0 THEN <<Stdin>> ELSE <<>>)
                         \o (IF backlog # <<>> THEN <<Sfd>> ELSE <<>>)
         /\ UNCHANGED <<program, cfd, events, backlog, conn, watched, keys, cpc>>

(* Mutant of EpollWait: clients are registered with EPOLLET too.           *)
EpollWaitEdge ==
    /\ spc = "wait"
    /\ ready # <<>>
    /\ events' = Batch
    /\ ready' = SubSeq(ready, Len(Batch) + 1, Len(ready))
    /\ spc' = "loop"
    /\ UNCHANGED <<program, cfd, backlog, conn, watched, keys, cpc>>

(* epoll_wait sleeps until something is ready and takes up to MaxEvent.    *)
EpollWait ==
    /\ spc = "wait"
    /\ ready # <<>>
    /\ events' = Batch
    /\ ready' = SubSeq(ready, Len(Batch) + 1, Len(ready))
                    \o LevelTriggered(Batch)
    /\ spc' = "loop"
    /\ UNCHANGED <<program, cfd, backlog, conn, watched, keys, cpc>>

(* break: what is left of the batch is dropped.                            *)
Break == spc' = "wait" /\ events' = <<>>

LoopEnds == /\ spc = "loop"
            /\ events = <<>>
            /\ spc' = "wait"
            /\ UNCHANGED <<program, cfd, events, kernelVars, cpc>>

StdinReady == /\ spc = "loop"
              /\ events # <<>> /\ Head(events) = Stdin
              /\ Break
              /\ UNCHANGED <<program, cfd, kernelVars, cpc>>

Listening == /\ spc = "loop"
             /\ events # <<>> /\ Head(events) = Sfd
             /\ spc' = "accept"
             /\ UNCHANGED <<program, cfd, events, kernelVars, cpc>>

(* handle_error: the server exits, and every connection ends.              *)
HandleError == /\ spc' = "exited"
               /\ events' = <<>> /\ ready' = <<>> /\ backlog' = <<>>
               /\ conn' = [d \in Descriptors |-> "free"]
               /\ watched' = {}
               /\ UNCHANGED <<program, cfd, keys, cpc>>

Open == {d \in Descriptors : conn[d] # "free"}

(* accept(2) takes the oldest connection, dead or not, and gives it the    *)
(* lowest free descriptor.  It fails when there is none.                   *)
Accept ==
    /\ spc = "accept"
    /\ \/ /\ Cardinality(Open) < MaxOpen
          /\ backlog # <<>>
          /\ cfd' = Min(Descriptors \ Open)
          /\ conn' = [conn EXCEPT ![cfd'] = Head(backlog)]
          /\ backlog' = Tail(backlog)
          /\ spc' = "add"
          /\ UNCHANGED <<program, events, ready, watched, keys, cpc>>
       \/ /\ Cardinality(Open) >= MaxOpen
          /\ HandleError

(* EPOLL_CTL_ADD of cfd, which may have been hung up already.              *)
AddClient ==
    /\ spc = "add"
    /\ watched' = watched \cup {cfd}
    /\ IF HungUp(cfd) THEN Wake(cfd) ELSE UNCHANGED ready
    /\ spc' = IF program = "text" THEN "scan" ELSE "send"
    /\ UNCHANGED <<program, cfd, events, backlog, conn, keys, cpc>>

(* Mutant of Send: the loop accepts until nobody waits, with a socket that *)
(* sleeps in accept.                                                       *)
SendAcceptAgain ==
    /\ spc = "send"
    /\ cpc' = [cpc EXCEPT ![conn[cfd]] = IF @ = "connected" THEN "sent" ELSE @]
    /\ spc' = "accept"
    /\ UNCHANGED <<program, cfd, events, kernelVars>>

(* The priority is sent: the first send to a client that has closed goes   *)
(* well.  The other server (Scan) reads the text up to its end, which      *)
(* comes when the client closes, and closes the descriptor with the stream.*)
Send ==
    /\ spc = "send"
    /\ cpc' = [cpc EXCEPT ![conn[cfd]] = IF @ = "connected" THEN "sent" ELSE @]
    /\ Break
    /\ UNCHANGED <<program, cfd, kernelVars>>

(* close(d) takes d out of the epoll set and its ready list.               *)
CloseDescriptor(d) == /\ conn' = [conn EXCEPT ![d] = "free"]
                      /\ watched' = watched \ {d}
                      /\ ready' = Without(ready, d)

(* Mutant of Scan: cfd is registered after the stream, and cfd with it,    *)
(* were closed.                                                            *)
ScanThenAdd == /\ spc = "scan"
               /\ HungUp(cfd)
               /\ conn' = [conn EXCEPT ![cfd] = "free"]
               /\ watched' = watched \cup {cfd}
               /\ Break
               /\ UNCHANGED <<program, cfd, ready, backlog, keys, cpc>>

Scan == /\ spc = "scan"
        /\ HungUp(cfd)
        /\ CloseDescriptor(cfd)
        /\ Break
        /\ UNCHANGED <<program, cfd, backlog, keys, cpc>>

(* Mutants of ClientClosed: the descriptor of the event is not compared    *)
(* with cfd, and cfd is closed; every hang-up ends the batch.              *)
ClientClosedAny ==
    /\ spc = "loop"
    /\ events # <<>> /\ Head(events) \in Descriptors
    /\ CloseDescriptor(cfd)
    /\ Break
    /\ UNCHANGED <<program, cfd, backlog, keys, cpc>>
ClientClosedBreak ==
    /\ spc = "loop"
    /\ events # <<>> /\ Head(events) \in Descriptors
    /\ IF Head(events) = cfd THEN CloseDescriptor(cfd)
                             ELSE UNCHANGED <<conn, watched, ready>>
    /\ Break
    /\ UNCHANGED <<program, cfd, backlog, keys, cpc>>

(* A hang-up is acted on only for the client accepted last; one of another *)
(* client is passed over and reported again by every epoll_wait.           *)
ClientClosed ==
    /\ spc = "loop"
    /\ events # <<>> /\ Head(events) \in Descriptors
    /\ \/ /\ Head(events) = cfd
          /\ CloseDescriptor(cfd)
          /\ Break
       \/ /\ Head(events) # cfd
          /\ events' = Tail(events)
          /\ UNCHANGED <<spc, conn, watched, ready>>
    /\ UNCHANGED <<program, cfd, backlog, keys, cpc>>

ServerStep == \/ Listen \/ Watch \/ EpollWait \/ LoopEnds \/ StdinReady
              \/ Listening \/ Accept \/ AddClient \/ Send \/ Scan \/ ClientClosed

Next == ServerStep \/ Type \/ \E c \in Clients : \/ Connect(c) \/ Finish(c)
                                                \/ Kill(c)

Fairness == /\ WF_vars(ServerStep)
            /\ \A c \in Clients : WF_vars(Finish(c))
Spec == Init /\ [][Next]_vars
FairSpec == Spec /\ Fairness
-----------------------------------------------------------------------------
(* Properties.                                                             *)

(* accept never sleeps although the listening socket is a blocking one:    *)
(* every event for it stands for a connection nobody has accepted.         *)
AcceptNeverSleeps ==
    (\/ spc = "accept"
     \/ spc = "loop" /\ InSeq(Sfd, events)
     \/ InSeq(Sfd, ready)) => backlog # <<>>

(* A connection is closed by the server only after its client closed it,   *)
(* although descriptor numbers are used again and cfd is never reset,      *)
(* unless the server runs out of descriptors and exits.                    *)
NoLiveClientCut == [][\A d \in Descriptors :
    conn[d] # "free" /\ conn'[d] # conn[d] => HungUp(d) \/ spc' = "exited"]_vars

(* A client that hangs up is closed, unless another was accepted after it: *)
(* dropped events, stdin and clients never closed do not hide it.          *)
LastHangUpIsSeen == \A c \in Clients :
    (Accepted(c) /\ cpc[c] = "closed") ~> (~Accepted(c) \/ Descriptor(c) # cfd)

(* A connection is accepted unless an event that ends the batch comes      *)
(* before the listening socket's in the ready list: the hang-ups that are  *)
(* reported and passed over for ever do not hide it.                       *)
NothingBreaksBefore(x) ==
    \E i \in DOMAIN ready : /\ ready[i] = x
                            /\ \A j \in 1 .. i : ready[j] \notin {Stdin, cfd}
AcceptedUnlessBroken == \A c \in Clients :
    (spc = "wait" /\ InSeq(c, backlog) /\ Head(backlog) = c
                  /\ NothingBreaksBefore(Sfd)) ~> ~InSeq(c, backlog)
=============================================================================
