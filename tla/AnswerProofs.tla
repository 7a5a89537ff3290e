---------------------------- MODULE AnswerProofs ----------------------------
(***************************************************************************)
(* A worker that was not cancelled and kept its own descriptor and its     *)
(* segment has answered its client before it ends, for any number of       *)
(* clients: a client is stranded only by the race on pthread_args          *)
(* (StrandedMeansRaced).  And the server crashes only by that race,        *)
(* because a client left without its answer or of a negative size          *)
(* (CrashNeedsRaceOrDeath).                                                *)
(*                                                                         *)
(* Then the service as it was meant to be used: whoever starts the clients *)
(* waits for one to end before starting the next (MaxLive), no size is     *)
(* negative, nobody is killed or interrupted, and no call fails that leaves*)
(* a request without its product.  Then the programs implement JobService, *)
(* for any number of clients, any length of a read and any limit on        *)
(* descriptors.                                                            *)
(***************************************************************************)
EXTENDS RequestProofs, FiniteSetTheorems

(* Everyone reads its own FIFO, a client from its open on.  The server got *)
(* past its open of a reply FIFO because the client was there.             *)
ReadersAreOwn == \A e \in readers : e[1] = e[2]
ReadersAreThere ==
    \A c \in Clients : <<c, c>> \in readers
                           => cpc[c] \in {"inOpenReply", "read", "report"}
Holds(c) == <<Server, c>> \in writers /\ <<Server, c>> \notin asleep
Parted == {"SUCCESS", "BAD_READ", "BAD_CLOSE", "BAD_UNLINK", "killed"}
AwakeMeetsReader ==
    \A c \in Clients : Holds(c) => <<c, c>> \in readers \/ cpc[c] \in Parted

(* It keeps the FIFO of every client it accepted open until it stops, and  *)
(* it cancels the workers before it closes anything.                       *)
InHand(c) == mc = c /\ spc \in FillSteps
MainHoldsReplies ==
    (Server \in alive /\ spc \notin ClosingDown) =>
        /\ spc = "inOpenReply" => <<Server, mc>> \in writers
        /\ \A c \in Clients : (Accepted(c) \/ InHand(c)) => Holds(c)
WorkersStopFirst ==
    spc \in ClosingDown => \A c \in Clients : Accepted(c) => IsCancelled(c)

ServeInv == /\ ReadersAreOwn /\ ReadersAreThere /\ AwakeMeetsReader
            /\ MainHoldsReplies /\ WorkersStopFirst

(* A client becomes accepted only when its worker is created.              *)
LEMMA AcceptedBySpawn ==
    ASSUME TypeOK, SlotInv, [Next]_vars, NEW c \in Clients, Accepted(c)'
    PROVE  Accepted(c) \/ (SpawnWorker /\ c = mc)
<1>1. CASE UNCHANGED <<list, cancelled>>
  BY <1>1 DEF Accepted, Started
<1>2. CASE SpawnWorker /\ list' = Append(list, mc)
  <2>1. mc \in Processes /\ cancelled = <<>> /\ cancelled' = cancelled
    BY <1>2 DEF SpawnWorker, Before, SlotInv, RequestInHand, FillSteps,
                CancelIsLast, ClosingDown, Processes
  <2>2. \A q : Accepted(q)' <=> Accepted(q) \/ q = mc
    BY <1>2, <2>1, TypeShape, AppendAccepts
  <2> QED BY <1>2, <2>2
<1>3. CASE CreateHold /\ list' = Append(list, Server)
  <2>1. Server \in Processes /\ cancelled = <<>> /\ cancelled' = cancelled
    BY <1>3 DEF CreateHold, Before, SlotInv, CancelIsLast, ClosingDown,
                Processes, workerVars
  <2>2. \A q : Accepted(q)' <=> Accepted(q) \/ q = Server
    BY <1>3, <2>1, TypeShape, AppendAccepts
  <2> QED BY <2>2, ProcessesAreDistinct
<1>4. CASE CancelThreads
  <2>1. list \in Seq(Processes) /\ cancelled = <<>>
    BY <1>4 DEF CancelThreads, Before, SlotInv, CancelIsLast, ClosingDown,
                TypeOK, ServerTypeOK
  <2>2. list \o <<>> = list
    BY <2>1, ConcatEmptySeq
  <2>3. Started' = Started
    BY <1>4, <2>1, <2>2, StartedIsList DEF CancelThreads, Started
  <2> QED BY <2>3 DEF Accepted
<1>5. CASE Main
  BY <1>1, <1>2, <1>3, <1>4, <1>5
     DEF Main, MainStep, Start, ServerOpenRequest, CreateHold, While,
         ServerRead, ServerOpenReply, ServerReplyOpened, FillSize, FillFd,
         FillPriority, CopyName, NameCopied, Store, SpawnWorker,
         CloseRequest, CloseReply, UnlinkRequest, Return, SleepInRead,
         workerVars
<1>6. CASE ~Main
  BY <1>1, <1>6
     DEF Next, Client, User, Worker, WorkerNext, LoadSize, LoadFd, SetAffinity,
         SetScheduler, OpenSegment, Multiply, WriteBack, Reply, StopInPrintf,
         Hold, HoldFifoOpen, Interrupt, Sigint, vars, workerVars, serverVars
<1> QED BY <1>5, <1>6

(* What a step of the worker of c leaves alone.                            *)
LEMMA WorkerLeaves ==
    ASSUME TypeOK, NEW c \in Clients, Worker(c)
    PROVE  /\ UNCHANGED <<cpc, spc, mc, list, cancelled, pthread_args, pipe, paths>>
           /\ \A d \in Clients \ {c} : wpc'[d] = wpc[d] /\ arg'[d] = arg[d]
           /\ Server \in alive /\ wpc[c] \notin {"none", "done"} /\ wpc'[c] # "none"
  BY DEF Worker, WorkerNext, LoadSize, LoadFd, SetAffinity, SetScheduler,
         OpenSegment, Multiply, WriteBack, Reply, StopInPrintf, At, Answer,
         Crash, Advance, Load, TypeOK, WorkerTypeOK, serverVars, ipcVars

LEMMA ReadersStep ==
    ASSUME TypeOK, ReadersAreOwn, ReadersAreThere, [Next]_vars
    PROVE  ReadersAreOwn' /\ ReadersAreThere'
<1>0. Server \notin Clients /\ cpc \in [Clients -> ClientCalls \cup ClientExits]
  BY ProcessesAreDistinct DEF TypeOK, ClientTypeOK
<1>1. ASSUME NEW p \in Clients, Client(p) \/ User(p)
      PROVE  /\ \A e \in readers' : e \in readers \/ e = <<p, p>>
             /\ <<p, p>> \in readers' =>
                   cpc'[p] \in {"inOpenReply", "read", "report"}
             /\ \A c \in Clients \ {p} : cpc'[c] = cpc[c]
  BY <1>0, <1>1
     DEF Client, User, ClientStep, OpenRequest, RequestOpened, Write,
         OpenReply, ReplyOpened, Read, Finish, Setup, Kill, Goto, Exit,
         OpenRead, OpenWrite, ipcVars, endVars, ReadersAreThere
<1>2. ASSUME ~ \E p \in Clients : Client(p) \/ User(p)
      PROVE  /\ cpc' = cpc
             /\ \A e \in readers' : e \in readers \/ e = <<Server, Server>>
  BY <1>2
     DEF Next, Main, MainStep, Start, ServerOpenRequest, CreateHold, While,
         SleepInRead, ServerRead, ServerOpenReply, ServerReplyOpened, FillSize,
         FillFd, FillPriority, CopyName, NameCopied, Store, SpawnWorker,
         CancelThreads, CloseRequest, CloseReply, UnlinkRequest, Return, Hold,
         HoldFifoOpen, Interrupt, Sigint, Worker, WorkerNext, LoadSize, LoadFd,
         SetAffinity, SetScheduler, OpenSegment, Multiply, WriteBack, Reply,
         StopInPrintf, Answer, Crash, Exit, OpenRead, OpenWrite,
         InterruptOpenWrite, InterruptOpenRead, CloseRead, CloseWrite, vars,
         ipcVars, endVars
<1>3. CASE \E p \in Clients : Client(p) \/ User(p)
  <2>1. PICK p \in Clients : Client(p) \/ User(p)
    BY <1>3
  <2>2. ReadersAreOwn'
    <3>1. \A e \in readers' : e \in readers \/ e = <<p, p>>
      BY <1>1, <2>1
    <3> QED BY <3>1 DEF ReadersAreOwn
  <2>3. \A c \in Clients \ {p} : <<c, c>> \in readers' => <<c, c>> \in readers
    BY <1>1, <2>1
  <2> QED BY <1>1, <2>1, <2>2, <2>3 DEF ReadersAreThere
<1>4. CASE ~ \E p \in Clients : Client(p) \/ User(p)
  <2>1. \A c \in Clients : <<c, c>> # <<Server, Server>>
    BY <1>0
  <2> QED BY <1>2, <1>4, <2>1 DEF ReadersAreOwn, ReadersAreThere
<1> QED BY <1>3, <1>4

(* Who is gone does not come back, and a server that closes down goes on.  *)
LEMMA LeftForGood ==
    ASSUME TypeOK, [Next]_vars
    PROVE  /\ Server \in alive' => Server \in alive
           /\ spc \in ClosingDown => spc' \in ClosingDown
           /\ \A c \in Clients : cpc[c] \in Parted => cpc'[c] \in Parted
<1>1. Server \in alive' => Server \in alive
  BY ProcessesAreDistinct
     DEF Next, Client, User, ClientStep, OpenRequest, RequestOpened, Write,
         OpenReply, ReplyOpened, Read, Finish, Setup, Kill, Main, MainStep,
         Start, ServerOpenRequest, CreateHold, While, SleepInRead, ServerRead,
         ServerOpenReply, ServerReplyOpened, FillSize, FillFd, FillPriority,
         CopyName, NameCopied, Store, SpawnWorker, CancelThreads,
         CloseRequest, CloseReply, UnlinkRequest, Return, Hold, HoldFifoOpen,
         Interrupt, Sigint, Worker, WorkerNext, LoadSize, LoadFd, SetAffinity,
         SetScheduler, OpenSegment, Multiply, WriteBack, Reply, StopInPrintf,
         Answer, Crash, Exit, vars, ipcVars
<1>2. \A c \in Clients : cpc[c] \in Parted => cpc'[c] \in Parted
  BY DEF Next, Client, User, ClientStep, OpenRequest, RequestOpened, Write,
         OpenReply, ReplyOpened, Read, Finish, Setup, Kill, Goto, Worker, Main,
         Hold, Interrupt, vars, TypeOK, ClientTypeOK, Parted
<1>3. spc \in ClosingDown => spc' \in ClosingDown
  BY DEF Next, Client, User, Main, MainStep, Start, ServerOpenRequest,
         CreateHold, While, SleepInRead, ServerRead, ServerOpenReply,
         ServerReplyOpened, FillSize, FillFd, FillPriority, CopyName,
         NameCopied, Store, SpawnWorker, CancelThreads, CloseRequest,
         CloseReply, UnlinkRequest, Return, Before, Hold, HoldFifoOpen,
         Interrupt, Sigint, SleepsIn, SleepsInRead, Worker, vars, serverVars,
         ClosingDown
<1> QED BY <1>1, <1>2, <1>3

(* How the ends of the FIFO of one client change.                          *)
EndsKept(c) == /\ <<Server, c>> \in writers' <=> <<Server, c>> \in writers
               /\ <<Server, c>> \in asleep' => <<Server, c>> \in asleep
               /\ <<Server, c>> \in asleep => <<Server, c>> \in asleep' \/ <<c, c>> \in readers'
               /\ <<c, c>> \in readers => <<c, c>> \in readers' \/ cpc'[c] \in Parted
EndsGone(c) == <<Server, c>> \notin writers' /\ Server \notin alive'
EndsOpened(c) == /\ ServerOpenReply /\ mc = c /\ OpenWrite(Server, c)
                 /\ UNCHANGED <<alive, cpc>>
EndsInterrupted(c) == <<Server, c>> \notin writers' /\ <<Server, c>> \in asleep
EndsClosed(c) == <<Server, c>> \notin writers' /\ spc' \in ClosingDown

LEMMA EndsOfClient ==
    ASSUME TypeOK, ReadersAreThere, [Next]_vars, NEW c \in Clients
    PROVE  \/ EndsKept(c) \/ EndsGone(c) \/ EndsOpened(c)
           \/ EndsInterrupted(c) \/ EndsClosed(c)
<1>0. c # Server /\ cpc \in [Clients -> ClientCalls \cup ClientExits]
  BY ProcessesAreDistinct DEF TypeOK, ClientTypeOK
<1>1. CASE UNCHANGED endVars
  BY <1>1 DEF EndsKept, endVars
<1>2. CASE Exit(Server)
  BY <1>2 DEF Exit, EndsGone
<1>3. ASSUME NEW p \in Clients, Exit(p),
             cpc[p] \in {"inOpenReply", "read", "report"} => cpc'[p] \in Parted
      PROVE  EndsKept(c)
  BY <1>0, <1>3, ProcessesAreDistinct DEF Exit, EndsKept, ReadersAreThere
<1>4. ASSUME NEW p \in Processes, OpenRead(p, Server) \/ OpenWrite(p, Server)
      PROVE  EndsKept(c)
  <2>1. \A q : <<q, c>> # <<p, Server>> /\ <<q, c>>[2] = c
    BY <1>0
  <2> QED BY <1>0, <1>4, <2>1 DEF OpenRead, OpenWrite, EndsKept
<1>5. ASSUME NEW p \in Clients, OpenRead(p, p)
      PROVE  EndsKept(c)
  <2>1. <<Server, c>> # <<p, p>> /\ <<Server, c>>[2] = c
    BY <1>0, <1>5, ProcessesAreDistinct
  <2> QED BY <1>5, <2>1 DEF OpenRead, EndsKept
<1>6. CASE ServerOpenReply /\ OpenWrite(Server, mc) /\ UNCHANGED <<alive, cpc>>
  <2>1. CASE c = mc
    BY <1>6, <2>1 DEF EndsOpened
  <2>2. CASE c # mc
    <3>1. <<Server, c>> # <<Server, mc>> /\ <<Server, c>>[2] = c
      BY <2>2
    <3> QED BY <1>6, <2>2, <3>1 DEF OpenWrite, EndsKept
  <2> QED BY <2>1, <2>2
<1>7. CASE InterruptOpenWrite(Server, mc) /\ <<Server, mc>> \in asleep
  <2>1. CASE c = mc
    BY <1>7, <2>1 DEF InterruptOpenWrite, EndsInterrupted
  <2>2. CASE c # mc
    <3>1. <<Server, c>> # <<Server, mc>>
      BY <2>2
    <3> QED BY <1>7, <3>1 DEF InterruptOpenWrite, EndsKept
  <2> QED BY <2>1, <2>2
<1>8. ASSUME NEW p \in Clients, Client(p) \/ User(p)
      PROVE  EndsKept(c)
  <2>1. \/ UNCHANGED endVars
        \/ /\ Exit(p)
           /\ cpc[p] \in {"inOpenReply", "read", "report"} => cpc'[p] \in Parted
        \/ OpenWrite(p, Server)
        \/ OpenRead(p, p)
    BY <1>0, <1>8
       DEF Client, User, ClientStep, OpenRequest, RequestOpened, Write,
           OpenReply, ReplyOpened, Read, Finish, Setup, Kill, Goto, ipcVars,
           endVars, Parted
  <2>2. UNCHANGED endVars => EndsKept(c)
    BY DEF EndsKept, endVars
  <2> QED BY <1>3, <1>4, <1>5, <2>1, <2>2 DEF Processes
<1>9. CASE Main \/ Hold \/ Interrupt
  <2>1. \/ UNCHANGED endVars
        \/ Exit(Server)
        \/ OpenRead(Server, Server) \/ OpenWrite(Server, Server)
        \/ ServerOpenReply /\ OpenWrite(Server, mc) /\ UNCHANGED <<alive, cpc>>
        \/ InterruptOpenWrite(Server, mc) /\ <<Server, mc>> \in asleep
        \/ CloseRead(Server, Server) \/ InterruptOpenRead(Server, Server)
        \/ CloseWrite(Server, server_to_client) /\ spc' = "unlink"
    BY <1>9
       DEF Main, MainStep, Start, ServerOpenRequest, CreateHold, While,
         ServerRead, ServerOpenReply, ServerReplyOpened, FillSize, FillFd,
         FillPriority, CopyName, NameCopied, Store, SpawnWorker, CancelThreads,
         CloseRequest, CloseReply, UnlinkRequest, Return, SleepInRead, Hold,
         HoldFifoOpen, Interrupt, Sigint, SleepsIn,
         ipcVars, endVars
  <2>2. CASE CloseRead(Server, Server) \/ InterruptOpenRead(Server, Server)
    <3>1. <<Server, c>> # <<Server, Server>> /\ <<c, c>> # <<Server, Server>>
      BY <1>0
    <3> QED BY <2>2, <3>1 DEF CloseRead, InterruptOpenRead, EndsKept
  <2>3. CASE CloseWrite(Server, server_to_client) /\ spc' = "unlink"
    <3>1. CASE c = server_to_client
      BY <2>3, <3>1 DEF CloseWrite, EndsClosed, ClosingDown
    <3>2. CASE c # server_to_client
      <4>1. <<Server, c>> # <<Server, server_to_client>>
        BY <3>2
      <4> QED BY <2>3, <4>1 DEF CloseWrite, EndsKept
    <3> QED BY <3>1, <3>2
  <2> QED BY <1>1, <1>2, <1>4, <1>6, <1>7, <2>1, <2>2, <2>3 DEF Processes
<1>10. ASSUME NEW d \in Clients, Worker(d)
       PROVE  UNCHANGED endVars \/ Exit(Server)
  BY <1>10
     DEF Worker, WorkerNext, LoadSize, LoadFd, SetAffinity, SetScheduler,
         OpenSegment, Multiply, WriteBack, Reply, StopInPrintf, Answer, Crash,
         ipcVars, endVars
<1>11. CASE UNCHANGED vars
  BY <1>1, <1>11 DEF vars, ipcVars, endVars
<1> QED BY <1>1, <1>2, <1>8, <1>9, <1>10, <1>11 DEF Next

LEMMA AwakeStep ==
    ASSUME TypeOK, ReadersAreOwn, ReadersAreThere, AwakeMeetsReader, [Next]_vars
    PROVE  AwakeMeetsReader'
<1> SUFFICES ASSUME NEW c \in Clients, Holds(c)'
             PROVE  <<c, c>> \in readers' \/ cpc'[c] \in Parted
  BY DEF AwakeMeetsReader
<1>1. CASE EndsKept(c)
  BY <1>1, LeftForGood DEF EndsKept, Holds, AwakeMeetsReader
<1>2. CASE EndsOpened(c)
  <2>1. HasReader(c)
    BY <1>2 DEF EndsOpened, OpenWrite, Holds
  <2>2. <<c, c>> \in readers
    BY <2>1 DEF HasReader, ReadersAreOwn
  <2> QED BY <1>2, <2>2 DEF EndsOpened, OpenWrite
<1> QED
  BY <1>1, <1>2, EndsOfClient DEF EndsGone, EndsInterrupted, EndsClosed, Holds

LEMMA HoldsStep ==
    ASSUME TypeOK, SlotInv, OnceInv, ReadersAreThere, MainHoldsReplies, [Next]_vars
    PROVE  MainHoldsReplies'
<1> SUFFICES ASSUME Server \in alive', spc' \notin ClosingDown
             PROVE  /\ spc' = "inOpenReply" => <<Server, mc'>> \in writers'
                    /\ \A c \in Clients : (Accepted(c) \/ InHand(c))' => Holds(c)'
  BY DEF MainHoldsReplies
<1>0. Server \in alive /\ spc \notin ClosingDown
  BY LeftForGood
<1>1. \/ spc' = spc /\ mc' = mc
      \/ Main
      \/ Interrupt /\ spc' \in {"cancel", "unlink"} /\ mc' = mc
  BY DEF Next, Client, User, Worker, WorkerNext, LoadSize, LoadFd, SetAffinity,
         SetScheduler, OpenSegment, Multiply, WriteBack, Reply, StopInPrintf,
         Hold, HoldFifoOpen, Interrupt, Sigint, vars, workerVars, serverVars
<1>2. ASSUME spc' = "inOpenReply"
      PROVE  <<Server, mc'>> \in writers'
  <2>1. CASE spc = "inOpenReply" /\ spc' = spc /\ mc' = mc
    <3>1. <<Server, mc>> \in writers /\ mc \in Clients
      BY <1>0, <2>1 DEF MainHoldsReplies, SlotInv, RequestInHand
    <3>2. ~EndsInterrupted(mc) \/ <<Server, mc>> \in writers'
      <4>1. CASE Interrupt
        BY <2>1, <4>1 DEF Interrupt, Sigint, SleepsIn, endVars, EndsInterrupted
      <4>2. CASE ~Interrupt /\ EndsInterrupted(mc)
        <5>1. \A p \in Clients : ~Client(p) /\ ~User(p)
          <6> SUFFICES ASSUME NEW p \in Clients, Client(p) \/ User(p)
                       PROVE <<Server, mc>> \in writers'
            BY <4>2 DEF EndsInterrupted
          <6> QED
            BY <3>1, ProcessesAreDistinct
               DEF Client, User, ClientStep, OpenRequest, RequestOpened, Write,
                 OpenReply, ReplyOpened, Read, Finish, Setup, Kill, ipcVars,
                 endVars, Exit, OpenRead, OpenWrite
        <5>2. UNCHANGED endVars \/ OpenWrite(Server, Server)
          BY <1>0, <2>1, <4>2, <5>1
             DEF Next, Main, MainStep, Start, ServerOpenRequest, CreateHold,
               While, ServerRead, ServerOpenReply, ServerReplyOpened, FillSize,
               FillFd, FillPriority, CopyName, NameCopied, Store, SpawnWorker,
               CancelThreads, CloseRequest, CloseReply, UnlinkRequest, Return,
               SleepInRead, Hold, HoldFifoOpen, Worker,
               WorkerNext, LoadSize, LoadFd, SetAffinity, SetScheduler,
               OpenSegment, Multiply, WriteBack, Reply, StopInPrintf, Answer,
               Crash, Exit, Before, vars, ipcVars, endVars
        <5> QED BY <3>1, <5>2 DEF OpenWrite, endVars
      <4> QED BY <4>1, <4>2
    <3> QED
      BY <2>1, <3>1, <3>2, EndsOfClient
         DEF EndsKept, EndsGone, EndsOpened, EndsClosed, OpenWrite
  <2>2. CASE Main /\ ~(spc = "inOpenReply" /\ spc' = spc /\ mc' = mc)
    BY <1>2, <2>2
       DEF Main, MainStep, Start, ServerOpenRequest, CreateHold, While,
         ServerRead, ServerOpenReply, ServerReplyOpened, FillSize, FillFd,
         FillPriority, CopyName, NameCopied, Store, SpawnWorker, CancelThreads,
         CloseRequest, CloseReply, UnlinkRequest, Return, SleepInRead, Before,
         OpenWrite
  <2> QED BY <1>1, <1>2, <2>1, <2>2
<1>3. ASSUME NEW c \in Clients, (Accepted(c) \/ InHand(c))'
      PROVE  Holds(c)'
  <2>1. CASE Accepted(c) \/ InHand(c)
    <3>1. Holds(c)
      BY <1>0, <2>1 DEF MainHoldsReplies
    <3>2. ~EndsOpened(c)
      BY <2>1 DEF EndsOpened, ServerOpenReply, Before, InHand, FillSteps,
                  OnceInv
    <3> QED
      BY <3>1, <3>2, EndsOfClient
         DEF EndsKept, EndsGone, EndsInterrupted, EndsClosed, Holds
  <2>2. CASE ServerReplyOpened /\ c = mc
    BY <1>0, <2>2
       DEF ServerReplyOpened, Before, MainHoldsReplies, Holds, ipcVars
  <2>3. CASE ~Accepted(c) /\ ~InHand(c)
    <3>1. Accepted(c)' => InHand(c)
      BY <2>3, AcceptedBySpawn DEF InHand, SpawnWorker, Before, FillSteps
    <3>2. InHand(c)'
      BY <1>3, <2>3, <3>1
    <3>3. Main
      BY <1>1, <2>3, <3>2 DEF InHand, FillSteps
    <3>4. ServerReplyOpened /\ c = mc
      BY <2>3, <3>2, <3>3
         DEF InHand, FillSteps, Main, MainStep, Start, ServerOpenRequest,
           CreateHold, While, ServerRead, ServerOpenReply, ServerReplyOpened,
           FillSize, FillFd, FillPriority, CopyName, NameCopied, Store,
           SpawnWorker, CancelThreads, CloseRequest, CloseReply, UnlinkRequest,
           Return, SleepInRead, Before
    <3> QED BY <2>2, <3>4
  <2> QED BY <2>1, <2>3
<1> QED BY <1>2, <1>3

(* CancelThreads cancels everybody there is, and nobody comes after it.    *)
LEMMA StopStep ==
    ASSUME TypeOK, SlotInv, WorkersStopFirst, [Next]_vars
    PROVE  WorkersStopFirst'
<1> SUFFICES ASSUME spc' \in ClosingDown, NEW c \in Clients, Accepted(c)'
             PROVE  IsCancelled(c)'
  BY DEF WorkersStopFirst
<1>1. Accepted(c)
  BY AcceptedBySpawn DEF SpawnWorker, ClosingDown
<1>2. CASE spc \in ClosingDown
  <2>1. IsCancelled(c)
    BY <1>1, <1>2 DEF WorkersStopFirst
  <2>2. ~CancelThreads
    BY <1>2 DEF CancelThreads, Before, ClosingDown
  <2>3. cancelled' = cancelled
    BY <2>2 DEF Next, Client, User, Main, MainStep, Start, ServerOpenRequest,
         CreateHold, While, SleepInRead, ServerRead, ServerOpenReply,
         ServerReplyOpened, FillSize, FillFd, FillPriority, CopyName,
         NameCopied, Store, SpawnWorker, CloseRequest, CloseReply,
         UnlinkRequest, Return, Hold, HoldFifoOpen, Interrupt, Sigint, Worker,
         WorkerNext, LoadSize, LoadFd, SetAffinity, SetScheduler, OpenSegment,
         Multiply, WriteBack, Reply, StopInPrintf, vars, workerVars
  <2> QED BY <2>1, <2>3 DEF IsCancelled
<1>3. CASE spc \notin ClosingDown
  <2>1. cancelled = <<>>
    BY <1>3 DEF SlotInv, CancelIsLast
  <2>2. Started = list
    BY <2>1, TypeShape, StartedIsList
  <2>3. CASE CancelThreads
    BY <1>1, <2>2, <2>3 DEF CancelThreads, Accepted, IsCancelled
  <2>4. CASE ~CancelThreads
    <3>1. Interrupt /\ spc = "inOpenRequest"
      BY <1>3, <2>4
         DEF Next, Client, User, Main, MainStep, Start, ServerOpenRequest,
           CreateHold, While, SleepInRead, ServerRead, ServerOpenReply,
           ServerReplyOpened, FillSize, FillFd, FillPriority, CopyName,
           NameCopied, Store, SpawnWorker, CloseRequest, CloseReply,
           UnlinkRequest, Return, Before, Hold, HoldFifoOpen, Interrupt,
           Sigint, SleepsIn, Worker, vars, serverVars, ClosingDown
    <3> QED BY <1>1, <2>2, <3>1 DEF SlotInv, ListIsEmptyFirst, Accepted
  <2> QED BY <2>3, <2>4
<1> QED BY <1>2, <1>3

LEMMA ServeStep ==
    ASSUME TypeOK, SlotInv, OnceInv, ServeInv, [Next]_vars
    PROVE  ServeInv'
  BY ReadersStep, AwakeStep, HoldsStep, StopStep DEF ServeInv

LEMMA ServeInit == Init => ServeInv
<1> SUFFICES ASSUME Init PROVE ServeInv
  OBVIOUS
<1>1. readers = {} /\ writers = {} /\ spc = "mkfifo"
  BY DEF Init, IpcInit, ServerInit
<1>2. \A c \in Clients : ~Accepted(c) /\ ~InHand(c)
  BY <1>1, OnceInit
     DEF Init, ClientInit, OnceInv, SilentNowhere, Silent, InHand, FillSteps
<1> QED
  BY <1>1, <1>2
     DEF ServeInv, ReadersAreOwn, ReadersAreThere, AwakeMeetsReader, Holds,
         MainHoldsReplies, WorkersStopFirst, ClosingDown

(* A worker that was not cancelled has its client's FIFO to write to.      *)
LEMMA WorkerIsServed ==
    ASSUME SlotInv, ServeInv, Server \in alive, NEW c \in Clients,
           wpc[c] # "none", ~IsCancelled(c)
    PROVE  Accepted(c) /\ spc \notin ClosingDown /\ Holds(c)
<1>1. Accepted(c)
  BY DEF SlotInv, WorkersAreStarted, Accepted
<1>2. spc \notin ClosingDown
  BY <1>1 DEF ServeInv, WorkersStopFirst
<1> QED BY <1>1, <1>2 DEF ServeInv, MainHoldsReplies

-----------------------------------------------------------------------------
(* The segment's name is loaded last.                                      *)
Early == {"none", "size", "fd", "affinity", "sched", "segment"}
EarlyHasNoSegment == \A c \in Clients : wpc[c] \in Early => arg[c].shm = NoClient

(* The answer lies in the FIFO until the client takes it.                  *)
Unread == ClientCalls \ {"report"}
DoneIsAnswered ==
    \A c \in Clients :
        (/\ wpc[c] = "done" /\ ~IsCancelled(c) /\ cpc[c] \in Unread
         /\ arg[c].fd = c /\ arg[c].shm # NoClient)
            => replies[c] > 0

AnswerInv == EarlyHasNoSegment /\ DoneIsAnswered

-----------------------------------------------------------------------------
(* Steps of the other threads take no answer back.                         *)
LEMMA AnswerQuiet ==
    ASSUME AnswerInv, UNCHANGED <<wpc, arg>>,
           \A c \in Clients : IsCancelled(c) => IsCancelled(c)',
           \A c \in Clients : cpc'[c] \in Unread => cpc[c] \in Unread /\ replies'[c] = replies[c]
    PROVE  AnswerInv'
  BY DEF AnswerInv, EarlyHasNoSegment, DoneIsAnswered

LEMMA AnswerClient ==
    ASSUME TypeOK, AnswerInv, NEW c \in Clients, Client(c) \/ User(c)
    PROVE  AnswerInv'
<1>1. UNCHANGED <<wpc, arg, cancelled>>
  BY DEF Client, User, workerVars
<1>2. \A d \in Clients : cpc'[d] \in Unread => cpc[d] \in Unread /\ replies'[d] = replies[d]
  BY DEF Client, User, ClientStep, OpenRequest, RequestOpened, Write, OpenReply,
         ReplyOpened, Read, Finish, Setup, Kill, Goto, ipcVars, Unread,
         ClientCalls, TypeOK, ClientTypeOK, IpcTypeOK
<1> QED BY <1>1, <1>2, AnswerQuiet DEF IsCancelled

(* A worker is created for a request that had none.                        *)
LEMMA AnswerMain ==
    ASSUME TypeOK, SlotInv, OnceInv, AnswerInv, Main
    PROVE  AnswerInv'
<1>1. UNCHANGED <<cpc, replies>>
  BY DEF Main, MainStep, Start, ServerOpenRequest, CreateHold, While,
         ServerRead, ServerOpenReply, ServerReplyOpened, FillSize, FillFd,
         FillPriority, CopyName, NameCopied, Store, SpawnWorker, CancelThreads,
         CloseRequest, CloseReply, UnlinkRequest, Return, SleepInRead, ipcVars
<1>2. CASE UNCHANGED <<wpc, arg>>
  <2>1. CASE cancelled' = cancelled
    BY <1>1, <1>2, <2>1, AnswerQuiet DEF IsCancelled
  <2>2. CASE CancelThreads
    <3>1. \A c \in Clients : ~IsCancelled(c)
      BY <2>2 DEF CancelThreads, Before, SlotInv, CancelIsLast, ClosingDown,
                  IsCancelled
    <3> QED BY <1>1, <1>2, <3>1, AnswerQuiet
  <2> QED
    BY <2>1, <2>2
       DEF Main, MainStep, Start, ServerOpenRequest, CreateHold, While,
           ServerRead, ServerOpenReply, ServerReplyOpened, FillSize, FillFd,
           FillPriority, CopyName, NameCopied, Store, SpawnWorker,
           CloseRequest, CloseReply, UnlinkRequest, Return, SleepInRead,
           workerVars
<1>3. CASE SpawnWorker /\ Advance(mc, "size")
  <2>1. mc \in Clients /\ UNCHANGED <<arg, cancelled>>
    BY <1>3 DEF SpawnWorker, Before, SlotInv, RequestInHand, FillSteps
  <2>2. arg[mc] = NothingLoaded
    BY <2>1 DEF SlotInv, WorkersAreStarted, OnceInv, Accepted
  <2>3. \A d \in Clients : wpc'[d] = IF d = mc THEN "size" ELSE wpc[d]
    BY <1>3 DEF Advance, TypeOK, WorkerTypeOK
  <2>4. EarlyHasNoSegment'
    BY <2>1, <2>2, <2>3 DEF AnswerInv, EarlyHasNoSegment, NothingLoaded
  <2>5. DoneIsAnswered'
    BY <1>1, <2>1, <2>3 DEF AnswerInv, DoneIsAnswered, IsCancelled
  <2> QED BY <2>4, <2>5 DEF AnswerInv
<1> QED
  BY <1>2, <1>3
     DEF Main, MainStep, Start, ServerOpenRequest, CreateHold, While,
         ServerRead, ServerOpenReply, ServerReplyOpened, FillSize, FillFd,
         FillPriority, CopyName, NameCopied, Store, SpawnWorker, CancelThreads,
         CloseRequest, CloseReply, UnlinkRequest, Return, SleepInRead,
         workerVars

(* One worker moves.  Answers are only added, and when it ends it has      *)
(* added one of its own, or lacks the segment, or was cancelled.           *)
LEMMA AnswerWorker ==
    ASSUME TypeOK, SlotInv, ServeInv, AnswerInv, "mmap" \notin Faults,
           NEW c \in Clients, Worker(c)
    PROVE  AnswerInv'
<1>0. /\ wpc \in [Clients -> WorkerSteps] /\ replies \in [Clients -> Nat]
      /\ arg \in [Clients -> [size : Slots, fd : Slots, shm : Slots]]
  BY DEF TypeOK, WorkerTypeOK, IpcTypeOK
<1>1. UNCHANGED <<cpc, cancelled>> /\ wpc[c] \notin {"none", "done"}
  BY DEF Worker, WorkerNext, LoadSize, LoadFd, SetAffinity, SetScheduler,
         OpenSegment, Multiply, WriteBack, Reply, StopInPrintf, At
<1>2. \A d \in Clients \ {c} : wpc'[d] = wpc[d] /\ arg'[d] = arg[d]
  BY <1>0 DEF Worker, WorkerNext, LoadSize, LoadFd, SetAffinity, SetScheduler,
         OpenSegment, Multiply, WriteBack, Reply, StopInPrintf, Answer, Crash,
         Advance, Load
<1>3. \/ replies' = replies
      \/ replies' = [replies EXCEPT ![arg[c].fd] = @ + 1]
  BY DEF Worker, WorkerNext, LoadSize, LoadFd, SetAffinity, SetScheduler,
         OpenSegment, Multiply, WriteBack, Reply, StopInPrintf, Answer, Crash,
         ipcVars
<1>4. \A d \in Clients : replies[d] > 0 => replies'[d] > 0
  BY <1>0, <1>3
<1>5. wpc'[c] \in Early => arg'[c].shm = NoClient
  <2>1. CASE wpc[c] \in Early
    BY <1>0, <1>1, <2>1
       DEF Worker, WorkerNext, LoadSize, LoadFd, SetAffinity, SetScheduler,
           OpenSegment, Multiply, WriteBack, Reply, StopInPrintf, Answer, Crash,
           Advance, Load, At, Early, AnswerInv, EarlyHasNoSegment
  <2>2. CASE wpc[c] \notin Early
    BY <1>0, <1>1, <2>2
       DEF Worker, WorkerNext, LoadSize, LoadFd, SetAffinity, SetScheduler,
           OpenSegment, Multiply, WriteBack, Reply, StopInPrintf, Answer, Crash,
           Advance, Load, At, Early
  <2> QED BY <2>1, <2>2
<1>6. ASSUME wpc'[c] = "done", ~IsCancelled(c), arg'[c].fd = c, arg'[c].shm # NoClient
      PROVE  replies'[c] > 0
  <2>1. wpc[c] \in {"multiply", "reply"} /\ Answer(c, "done") /\ arg' = arg
    BY <1>0, <1>1, <1>6
       DEF Worker, WorkerNext, LoadSize, LoadFd, SetAffinity, SetScheduler,
           OpenSegment, Multiply, WriteBack, Reply, StopInPrintf, Answer, Crash,
           Advance, Load, At, Early, AnswerInv, EarlyHasNoSegment
  <2>2. CanWrite(c)
    BY <1>6, <2>1, WorkerLeaves, WorkerIsServed DEF CanWrite, Holds
  <2>3. replies' = [replies EXCEPT ![c] = @ + 1]
    BY <1>0, <1>1, <1>6, <2>1, <2>2 DEF Answer, Crash
  <2> QED BY <1>0, <2>3
<1>7. EarlyHasNoSegment'
  BY <1>2, <1>5 DEF AnswerInv, EarlyHasNoSegment
<1>8. DoneIsAnswered'
  BY <1>1, <1>2, <1>4, <1>6 DEF AnswerInv, DoneIsAnswered, IsCancelled
<1> QED BY <1>7, <1>8 DEF AnswerInv

(* A client whose worker has ended, and which still waits, lost its        *)
(* descriptor or its segment's name to a request accepted later            *)
(* (dense_mm.c, the returns without a write), unless mmap failed.          *)
THEOREM StrandedByTheRace ==
    ASSUME "mmap" \notin Faults
    PROVE  Spec => []StrandedMeansRaced
<1>1. TypeOK /\ SlotInv /\ OnceInv /\ ServeInv /\ AnswerInv /\ [Next]_vars
        => (TypeOK /\ SlotInv /\ OnceInv /\ ServeInv /\ AnswerInv)'
  <2> SUFFICES ASSUME TypeOK, SlotInv, OnceInv, ServeInv, AnswerInv, [Next]_vars
               PROVE  (TypeOK /\ SlotInv /\ OnceInv /\ ServeInv /\ AnswerInv)'
    OBVIOUS
  <2>1. (TypeOK /\ SlotInv /\ OnceInv /\ ServeInv)'
    BY TypeStep, SlotStep, OnceStep, ServeStep DEF SlotInv
  <2>2. ASSUME Hold \/ Interrupt \/ UNCHANGED vars
        PROVE  AnswerInv'
    <3>1. UNCHANGED <<wpc, arg, cancelled, cpc, replies>>
      BY <2>2 DEF Hold, HoldFifoOpen, Interrupt, Sigint, vars, workerVars,
                  ipcVars
    <3> QED BY <3>1, AnswerQuiet DEF IsCancelled
  <2> QED BY <2>1, <2>2, AnswerClient, AnswerMain, AnswerWorker DEF Next
<1>2. Init => TypeOK /\ SlotInv /\ OnceInv /\ ServeInv /\ AnswerInv
  <2>1. Init => AnswerInv
    BY DEF Init, WorkerInit, NothingLoaded, AnswerInv, EarlyHasNoSegment,
           DoneIsAnswered
  <2> QED BY <2>1, TypeInit, SlotInit, OnceInit, ServeInit
<1>3. AnswerInv => StrandedMeansRaced
  BY DEF AnswerInv, DoneIsAnswered, StrandedMeansRaced, Unread, ClientCalls
<1> QED BY <1>1, <1>2, <1>3, PTL DEF Spec
-----------------------------------------------------------------------------
(* Why the server survives as long as nobody dies and nothing is raced:    *)
(* each worker answers its own client, once, and that client is there to   *)
(* read it.                                                                *)
Calm == ~Raced /\ \A c \in Clients : ~GaveUp(c) /\ ~LoadedNegative(c)

(* A worker finds fields in the slot that name clients, loads each once    *)
(* and keeps it.                                                           *)
SlotNamesClients ==
    \A c \in Clients : Accepted(c) => /\ pthread_args.size \in Clients
                                      /\ pthread_args.fd \in Clients
Loads(c) ==
    /\ IF wpc[c] \in {"none", "size"} THEN arg[c].size = NoClient
                                      ELSE arg[c].size \in Clients
    /\ IF wpc[c] \in {"none", "size", "fd"} THEN arg[c].fd = NoClient
                                            ELSE arg[c].fd \in Clients
    /\ wpc[c] \in Early => arg[c].shm = NoClient
    /\ wpc[c] \in {"multiply", "writeBack", "reply"} => arg[c].shm \in Clients
    /\ wpc[c] = "affinity" => SingleCore
ArgsAreLoaded == \A c \in Clients : Loads(c)

(* A client whose worker has not ended has not been answered, unless the   *)
(* server closes down: then its client may take end-of-file for an answer. *)
Answered == {"report", "SUCCESS", "BAD_CLOSE", "BAD_UNLINK"}
UnansweredWaits ==
    (Calm /\ Server \in alive /\ spc \notin ClosingDown) =>
        \A c \in Clients : wpc[c] # "done"
                              => replies[c] = 0 /\ cpc[c] \notin Answered

CrashInv == /\ SlotNamesClients /\ ArgsAreLoaded
            /\ UnansweredWaits /\ CrashNeedsRaceOrDeath

-----------------------------------------------------------------------------
(* The slot and what is loaded from it.                                    *)
LEMMA ArgsWorker ==
    ASSUME TypeOK, SlotInv, SlotNamesClients, ArgsAreLoaded,
           NEW c \in Clients, Worker(c)
    PROVE  ArgsAreLoaded'
<1>0. /\ wpc \in [Clients -> WorkerSteps]
      /\ arg \in [Clients -> [size : Slots, fd : Slots, shm : Slots]]
      /\ pthread_args.shm \in Slots /\ Loads(c)
  BY DEF TypeOK, WorkerTypeOK, ArgsAreLoaded
<1>1. pthread_args.size \in Clients /\ pthread_args.fd \in Clients
  <2>1. Accepted(c)
    BY WorkerLeaves DEF SlotInv, WorkersAreStarted, Accepted
  <2> QED BY <2>1 DEF SlotNamesClients
<1>2. Loads(c)'
  <2>1. CASE LoadSize(c)
    BY <1>0, <1>1, <2>1 DEF LoadSize, At, Load, Advance, Loads, Early
  <2>2. CASE LoadFd(c)
    BY <1>0, <1>1, <2>2 DEF LoadFd, At, Load, Advance, Loads, Early
  <2>3. CASE OpenSegment(c)
    BY <1>0, <2>3 DEF OpenSegment, At, Load, Advance, Loads, Early, Slots
  <2>4. CASE SetAffinity(c)
    BY <1>0, <2>4 DEF SetAffinity, Answer, Crash, At, Advance, Loads, Early
  <2>5. CASE SetScheduler(c)
    BY <1>0, <2>5 DEF SetScheduler, Answer, Crash, At, Advance, Loads, Early
  <2>6. CASE Multiply(c)
    BY <1>0, <2>6 DEF Multiply, Answer, Crash, At, Advance, Loads, Early
  <2>7. CASE WriteBack(c)
    BY <1>0, <2>7 DEF WriteBack, At, Advance, Loads, Early
  <2>8. CASE Reply(c) \/ StopInPrintf(c)
    BY <1>0, <2>8 DEF Reply, StopInPrintf, Answer, Crash, At, Advance, Loads,
                      Early
  <2> QED
    BY <2>1, <2>2, <2>3, <2>4, <2>5, <2>6, <2>7, <2>8 DEF Worker, WorkerNext
<1> QED BY <1>2, WorkerLeaves DEF ArgsAreLoaded, Loads

LEMMA ArgsStep ==
    ASSUME TypeOK, SlotInv, OnceInv, SlotNamesClients, ArgsAreLoaded, [Next]_vars
    PROVE  SlotNamesClients' /\ ArgsAreLoaded'
<1>1. CASE SpawnWorker /\ UNCHANGED cpc
  <2>1. mc \in Clients /\ UNCHANGED <<pthread_args, arg>>
    BY <1>1 DEF SpawnWorker, Before, SlotInv, RequestInHand, FillSteps
  <2>2. pthread_args.size = mc /\ pthread_args.fd = mc
    BY <1>1 DEF SpawnWorker, Before, SlotInv, StoredIsInHand, Stored, SlotFields
  <2>3. wpc[mc] = "none"
    BY <2>1 DEF SlotInv, WorkersAreStarted, OnceInv, Accepted
  <2>4. \A d \in Clients : wpc'[d] = wpc[d] \/ (d = mc /\ wpc'[d] = "size")
    BY <1>1 DEF SpawnWorker, Advance, TypeOK, WorkerTypeOK
  <2>5. ArgsAreLoaded'
    BY <2>1, <2>3, <2>4 DEF ArgsAreLoaded, Loads, Early
  <2> QED BY <2>1, <2>2, <2>5 DEF SlotNamesClients
<1>2. CASE /\ FillSize \/ FillFd \/ FillPriority \/ CopyName \/ NameCopied
           /\ UNCHANGED cpc
  <2>1. mc \in Clients /\ server_to_client = mc /\ UNCHANGED <<wpc, arg, list, cancelled>>
    BY <1>2 DEF FillSize, FillFd, FillPriority, CopyName, NameCopied, Store,
                Before, SlotInv, RequestInHand, FillSteps
  <2>2. /\ pthread_args'.size \in {pthread_args.size, mc}
        /\ pthread_args'.fd \in {pthread_args.fd, mc}
    BY <1>2, <2>1 DEF FillSize, FillFd, FillPriority, CopyName, NameCopied,
                      Store,
                      TypeOK, WorkerTypeOK
  <2> QED BY <2>1, <2>2 DEF SlotNamesClients, ArgsAreLoaded, Loads, Accepted, Started
<1>3. ASSUME UNCHANGED pthread_args, ~SpawnWorker
      PROVE  SlotNamesClients'
  BY <1>3, AcceptedBySpawn DEF SlotNamesClients
<1>4. ASSUME NEW c \in Clients, Worker(c)
      PROVE  SlotNamesClients' /\ ArgsAreLoaded'
  BY <1>4, ArgsWorker, WorkerLeaves DEF SlotNamesClients, Accepted, Started
<1>5. CASE UNCHANGED <<pthread_args, wpc, arg>> /\ ~SpawnWorker
  BY <1>3, <1>5 DEF ArgsAreLoaded, Loads
<1>6. CASE Main
  BY <1>1, <1>2, <1>5, <1>6
     DEF Main, MainStep, Start, ServerOpenRequest, CreateHold, While,
         ServerRead, ServerOpenReply, ServerReplyOpened, CancelThreads,
         CloseRequest, CloseReply, UnlinkRequest, Return, SleepInRead,
         SpawnWorker, Before, workerVars
<1>7. CASE Hold \/ Interrupt \/ (\E c \in Clients : Client(c) \/ User(c)) \/ UNCHANGED vars
  <2>1. UNCHANGED <<pthread_args, wpc, arg, list, cancelled>>
    BY <1>7 DEF Hold, HoldFifoOpen, Interrupt, Sigint, Client, User, vars,
                workerVars, serverVars
  <2> QED BY <2>1 DEF SlotNamesClients, ArgsAreLoaded, Loads, Accepted, Started
<1> QED BY <1>4, <1>6, <1>7 DEF Next

(* What is loaded is kept, and the killed stay dead: a race or a death is  *)
(* not undone.                                                             *)
LEMMA CalmBefore ==
    ASSUME TypeOK, ArgsAreLoaded, [Next]_vars, Calm'
    PROVE  Calm
<1>1. \A c \in Clients : GaveUp(c) => GaveUp(c)'
  BY DEF Next, Client, User, ClientStep, OpenRequest, RequestOpened, Write,
         OpenReply, ReplyOpened, Read, Finish, Setup, Kill, Goto, Worker, Main,
         Hold, Interrupt, vars, TypeOK, ClientTypeOK, GaveUp
<1>2. ASSUME NEW c \in Clients, NEW field \in SlotFields, arg[c][field] # NoClient
      PROVE  arg'[c][field] = arg[c][field]
  <2>1. CASE arg' = arg
    BY <2>1
  <2>2. CASE \E d \in Clients : LoadSize(d) \/ LoadFd(d) \/ OpenSegment(d)
    <3>1. PICK d \in Clients : LoadSize(d) \/ LoadFd(d) \/ OpenSegment(d)
      BY <2>2
    <3>2. CASE d # c
      BY <3>1, <3>2 DEF LoadSize, LoadFd, OpenSegment, Load, TypeOK,
                        WorkerTypeOK
    <3>3. CASE d = c
      BY <1>2, <3>1, <3>3
         DEF LoadSize, LoadFd, OpenSegment, Load, At, TypeOK, WorkerTypeOK,
             ArgsAreLoaded, Loads, Early, SlotFields
    <3> QED BY <3>2, <3>3
  <2> QED
    BY <2>1, <2>2
       DEF Next, Client, User, Main, MainStep, Start, ServerOpenRequest,
           CreateHold, While, ServerRead, ServerOpenReply, ServerReplyOpened,
           FillSize, FillFd, FillPriority, CopyName, NameCopied, Store,
           SpawnWorker, CancelThreads, CloseRequest, CloseReply, UnlinkRequest,
           Return, SleepInRead, Hold, HoldFifoOpen,
           Interrupt, Sigint, Worker, WorkerNext, SetAffinity, SetScheduler,
           Multiply, WriteBack, Reply, StopInPrintf, vars, workerVars
<1> QED BY <1>1, <1>2 DEF Calm, Raced, LoadedNegative, SlotFields

-----------------------------------------------------------------------------
(* A failed sched_setaffinity is answered twice, and a failed malloc kills *)
(* the server at once (dense_mm.c, the pinning to core 0): that the server *)
(* outlives every run in which no client leaves early, no size is negative *)
(* and nothing is raced is said without the two.  Both are reached with -c *)
(* only.                                                                   *)
PinningWorks == SingleCore => Faults \cap {"malloc", "sched_setaffinity"} = {}

(* An undisturbed worker has its own client's values.                      *)
LEMMA CalmWorker ==
    ASSUME ArgsAreLoaded, Calm, NEW c \in Clients
    PROVE  /\ wpc[c] \notin {"none", "size", "fd"} => arg[c].fd = c
           /\ wpc[c] \in {"multiply", "writeBack", "reply"} =>
                 arg[c].size = c /\ arg[c].shm = c
  BY ProcessesAreDistinct DEF ArgsAreLoaded, Loads, Calm, Raced, SlotFields

(* Its client is there when it answers.                                    *)
LEMMA CalmReader ==
    ASSUME SlotInv, ServeInv, UnansweredWaits, Calm, Server \in alive,
           NEW c \in Clients, wpc[c] \notin {"none", "done"}, ~IsCancelled(c)
    PROVE  HasReader(c)
<1>1. Holds(c) /\ spc \notin ClosingDown
  BY WorkerIsServed
<1>2. <<c, c>> \in readers \/ cpc[c] \in Parted
  BY <1>1 DEF ServeInv, AwakeMeetsReader
<1>3. cpc[c] \notin Parted
  BY <1>1 DEF Calm, GaveUp, UnansweredWaits, Answered, Parted
<1> QED BY <1>2, <1>3 DEF HasReader, Processes

(* A client is answered by the worker that ends with it.                   *)
LEMMA UnansweredWorker ==
    ASSUME TypeOK, PinningWorks, ArgsAreLoaded, Calm, Server \in alive',
           NEW d \in Clients, Worker(d),
           NEW c \in Clients, wpc'[c] # "done"
    PROVE  replies'[c] = replies[c]
<1>0. /\ wpc \in [Clients -> WorkerSteps] /\ replies \in [Clients -> Nat]
      /\ Loads(d)
  BY DEF TypeOK, WorkerTypeOK, IpcTypeOK, ArgsAreLoaded
<1>1. ASSUME NEW next, Answer(d, next), c # d \/ next = "done",
             wpc[d] \notin {"none", "size", "fd"}
      PROVE  replies'[c] = replies[c]
  <2>1. arg[d].fd = d
    BY <1>1, CalmWorker
  <2> QED BY <1>0, <1>1, <2>1 DEF Answer, Advance, Crash
<1>2. CASE SetAffinity(d)
  <2>1. SingleCore
    BY <1>0, <1>2 DEF SetAffinity, At, Loads
  <2> QED BY <1>2, <2>1 DEF SetAffinity, PinningWorks
<1>3. CASE SetScheduler(d)
  BY <1>1, <1>3 DEF SetScheduler, At
<1>4. CASE Multiply(d)
  BY <1>1, <1>4 DEF Multiply, At, Crash
<1>5. CASE Reply(d)
  BY <1>1, <1>5 DEF Reply, At
<1> QED
  BY <1>2, <1>3, <1>4, <1>5
     DEF Worker, WorkerNext, LoadSize, LoadFd, OpenSegment, WriteBack,
         StopInPrintf, ipcVars

LEMMA UnansweredStep ==
    ASSUME TypeOK, SlotInv, OnceInv, MeetInv, PinningWorks, ArgsAreLoaded,
           UnansweredWaits, [Next]_vars
    PROVE  UnansweredWaits'
<1> SUFFICES ASSUME Calm', Server \in alive', spc' \notin ClosingDown,
                    NEW c \in Clients, wpc'[c] # "done"
             PROVE  replies'[c] = 0 /\ cpc'[c] \notin Answered
  BY DEF UnansweredWaits
<1>0. /\ cpc \in [Clients -> ClientCalls \cup ClientExits]
      /\ wpc \in [Clients -> WorkerSteps] /\ replies \in [Clients -> Nat]
  BY DEF TypeOK, WorkerTypeOK, IpcTypeOK, ClientTypeOK
<1>1. Calm /\ Server \in alive /\ spc \notin ClosingDown
  BY CalmBefore, LeftForGood
<1>2. wpc[c] # "done"
  <2>1. ASSUME wpc[c] = "done"
        PROVE  wpc' = wpc \/ SpawnWorker \/ \E d \in Clients \ {c} : Worker(d)
    BY <2>1
       DEF Next, Client, User, Main, MainStep, Start, ServerOpenRequest,
           CreateHold, While, ServerRead, ServerOpenReply, ServerReplyOpened,
           FillSize, FillFd, FillPriority, CopyName, NameCopied, Store,
           CancelThreads, CloseRequest, CloseReply, UnlinkRequest, Return,
           SleepInRead, Hold, HoldFifoOpen, Interrupt,
           Sigint, Worker, WorkerNext, LoadSize, LoadFd, SetAffinity,
           SetScheduler, OpenSegment, Multiply, WriteBack, Reply, StopInPrintf,
           At, vars, workerVars
  <2>2. CASE SpawnWorker /\ wpc[c] = "done"
    <3>1. Accepted(c) /\ ~Accepted(mc)
      BY <2>2 DEF SlotInv, WorkersAreStarted, OnceInv, Accepted
    <3> QED BY <1>0, <2>2, <3>1 DEF SpawnWorker, Advance
  <2>3. ASSUME NEW d \in Clients \ {c}, Worker(d)
        PROVE  wpc'[c] = wpc[c]
    BY <2>3, WorkerLeaves
  <2> QED BY <2>1, <2>2, <2>3
<1>3. replies[c] = 0 /\ cpc[c] \notin Answered
  BY <1>1, <1>2 DEF UnansweredWaits
<1>4. ASSUME NEW d \in Clients, Client(d) \/ User(d)
      PROVE  replies'[c] = 0 /\ cpc'[c] \notin Answered
  <2>1. CASE d # c
    BY <1>0, <1>3, <1>4, <2>1
       DEF Client, User, ClientStep, OpenRequest, RequestOpened, Write,
           OpenReply, ReplyOpened, Read, Finish, Setup, Kill, Goto, ipcVars
  <2>2. CASE d = c /\ Read(c)
    <3>1. Meets(c) /\ cpc[c] = "read"
      BY <2>2 DEF Read, MeetInv, EndsInv, ReaderMeetsWriter
    <3>2. HasWriter(c)
      BY <1>1, <3>1 DEF Meets, Left, ClosedAtShutdown, ClosingDown, HasWriter,
                        Processes
    <3>3. cpc'[c] = "BAD_READ" /\ replies' = replies
      BY <1>0, <1>3, <2>2, <3>2 DEF Read, Goto
    <3> QED BY <1>3, <3>3 DEF Answered
  <2>3. CASE d = c /\ ~Read(c)
    BY <1>0, <1>3, <1>4, <2>3
       DEF Client, User, ClientStep, OpenRequest, RequestOpened, Write,
           OpenReply, ReplyOpened, Finish, Setup, Kill, Goto, Answered, ipcVars
  <2> QED BY <2>1, <2>2, <2>3
<1>5. ASSUME NEW d \in Clients, Worker(d)
      PROVE  replies'[c] = 0 /\ cpc'[c] \notin Answered
  BY <1>1, <1>3, <1>5, UnansweredWorker, WorkerLeaves
<1>6. CASE Main \/ Hold \/ Interrupt \/ UNCHANGED vars
  <2>1. UNCHANGED <<cpc, replies>>
    BY <1>6
       DEF Main, MainStep, Start, ServerOpenRequest, CreateHold, While,
           ServerRead, ServerOpenReply, ServerReplyOpened, FillSize, FillFd,
           FillPriority, CopyName, NameCopied, Store, SpawnWorker,
           CancelThreads, CloseRequest, CloseReply, UnlinkRequest, Return,
           SleepInRead, Hold, HoldFifoOpen, Interrupt,
           Sigint, vars, ipcVars
  <2> QED BY <1>3, <2>1
<1> QED BY <1>4, <1>5, <1>6 DEF Next

(* A worker that kills the server found no reader, or pages that are not   *)
(* there.                                                                  *)
LEMMA PagesAreCounted ==
    ASSUME NEW n \in Nat
    PROVE  ~(Pages(n) > Pages(n))
<1>1. 2 * n * n * 8 + 4095 \in Nat
  OBVIOUS
<1>2. Pages(n) \in Nat
  BY <1>1 DEF Pages
<1> QED BY <1>2

LEMMA CalmWorkerSurvives ==
    ASSUME TypeOK, SlotInv, ServeInv, PinningWorks, ArgsAreLoaded,
           UnansweredWaits, Calm, NEW c \in Clients, Worker(c)
    PROVE  Server \in alive'
<1>1. Server \in alive /\ wpc[c] \notin {"none", "done"} /\ Loads(c)
  BY WorkerLeaves DEF ArgsAreLoaded
<1>2. IsCancelled(c) \/ HasReader(c)
  BY <1>1, CalmReader
<1>3. ASSUME NEW next, Answer(c, next), wpc[c] \notin {"size", "fd"}
      PROVE  Server \in alive'
  <2>1. arg[c].fd = c
    BY <1>1, <1>3, CalmWorker
  <2> QED BY <1>1, <1>2, <1>3, <2>1 DEF Answer, CanWrite
<1>4. CASE SetAffinity(c)
  <2>1. SingleCore
    BY <1>1, <1>4 DEF SetAffinity, At, Loads
  <2> QED BY <1>1, <1>4, <2>1 DEF SetAffinity, PinningWorks
<1>5. CASE SetScheduler(c)
  BY <1>1, <1>3, <1>5 DEF SetScheduler, At
<1>6. CASE Multiply(c)
  <2>1. arg[c].size = c /\ arg[c].shm = c
    BY <1>6, CalmWorker DEF Multiply, At
  <2>2. Size[c] \in Nat
    BY <2>1, SizesAreNumbers, ProcessesAreDistinct DEF Calm, LoadedNegative
  <2>3. ~LeavesSegment(arg[c].size, arg[c].shm)
    BY <2>1, <2>2, PagesAreCounted DEF LeavesSegment
  <2> QED BY <1>1, <1>3, <1>6, <2>3 DEF Multiply, At
<1>7. CASE Reply(c)
  BY <1>1, <1>3, <1>7 DEF Reply, At
<1> QED
  BY <1>1, <1>4, <1>5, <1>6, <1>7
     DEF Worker, WorkerNext, LoadSize, LoadFd, OpenSegment, WriteBack,
         StopInPrintf, ipcVars

LEMMA SurvivesStep ==
    ASSUME TypeOK, SlotInv, ServeInv, PinningWorks, CrashInv, [Next]_vars
    PROVE  CrashNeedsRaceOrDeath'
<1> SUFFICES ASSUME Calm', Server \notin alive', spc' \notin ServerExits
             PROVE  FALSE
  BY DEF CrashNeedsRaceOrDeath, Crashed, Calm
<1>1. Calm
  BY CalmBefore DEF CrashInv
<1>2. Server \in alive \/ spc \in ServerExits
  BY <1>1 DEF CrashInv, CrashNeedsRaceOrDeath, Crashed, Calm
<1>3. CASE Server \notin alive
  <2>1. spc' = spc
    BY <1>3
       DEF Next, Client, User, Main, MainStep, Start, ServerOpenRequest,
           CreateHold, While, ServerRead, ServerOpenReply, ServerReplyOpened,
           FillSize, FillFd, FillPriority, CopyName, NameCopied, Store,
           SpawnWorker, CancelThreads, CloseRequest, CloseReply, UnlinkRequest,
           Return, SleepInRead, Before, Hold,
           HoldFifoOpen, Interrupt, Sigint, Worker, vars, serverVars
  <2> QED BY <1>2, <1>3, <2>1
<1>4. CASE Server \in alive
  <2>1. ASSUME NEW c \in Clients, Client(c) \/ User(c)
        PROVE  Server \in alive'
    BY <1>4, <2>1, ProcessesAreDistinct
       DEF Client, User, ClientStep, OpenRequest, RequestOpened, Write,
           OpenReply, ReplyOpened, Read, Finish, Setup, Kill, Exit, ipcVars
  <2>2. ASSUME NEW c \in Clients, Worker(c)
        PROVE  Server \in alive'
    BY <1>1, <2>2, CalmWorkerSurvives DEF CrashInv
  <2>3. CASE Main \/ Hold \/ Interrupt \/ UNCHANGED vars
    BY <1>4, <2>3
       DEF Main, MainStep, Start, ServerOpenRequest, CreateHold, While,
           ServerRead, ServerOpenReply, ServerReplyOpened, FillSize, FillFd,
           FillPriority, CopyName, NameCopied, Store, SpawnWorker,
           CancelThreads, CloseRequest, CloseReply, UnlinkRequest, Return,
           SleepInRead, Hold, HoldFifoOpen, Interrupt,
           Sigint, ServerExits, vars, ipcVars
  <2> QED BY <2>1, <2>2, <2>3 DEF Next
<1> QED BY <1>3, <1>4

(* All of this together.                                                   *)
AnyUse == TypeOK /\ SlotInv /\ OnceInv /\ MeetInv /\ ServeInv /\ CrashInv

LEMMA CrashCorrect ==
    ASSUME PinningWorks
    PROVE  Spec => []AnyUse
<1>1. AnyUse /\ [Next]_vars => AnyUse'
  <2> SUFFICES ASSUME AnyUse, [Next]_vars
               PROVE  AnyUse'
    OBVIOUS
  <2>1. (TypeOK /\ SlotInv /\ OnceInv /\ MeetInv /\ ServeInv)'
    BY TypeStep, SlotStep, OnceStep, MeetStep, ServeStep DEF AnyUse, SlotInv
  <2>2. CrashInv'
    BY ArgsStep, UnansweredStep, SurvivesStep DEF AnyUse, CrashInv
  <2> QED BY <2>1, <2>2 DEF AnyUse
<1>2. Init => AnyUse
  <2> SUFFICES ASSUME Init PROVE CrashInv
    BY TypeInit, SlotInit, OnceInit, MeetInit, ServeInit DEF AnyUse
  <2>1. /\ alive = {Server} /\ spc = "mkfifo" /\ list = <<>> /\ cancelled = <<>>
        /\ \A c \in Clients : /\ cpc[c] = "mkfifo" /\ wpc[c] = "none"
                              /\ arg[c] = NothingLoaded /\ replies[c] = 0
    BY DEF Init, IpcInit, ClientInit, WorkerInit, ServerInit
  <2>2. \A c \in Clients : ~Accepted(c) /\ ~InHand(c)
    BY <2>1, OnceInit DEF OnceInv, SilentNowhere, Silent, InHand, FillSteps
  <2> QED
    BY <2>1, <2>2
       DEF CrashInv, SlotNamesClients, ArgsAreLoaded, Loads, NothingLoaded,
           UnansweredWaits, Answered, CrashNeedsRaceOrDeath, Crashed
<1> QED BY <1>1, <1>2, PTL DEF Spec

(* The server is killed by SIGPIPE or SIGBUS only after a client was killed*)
(* or its read failed, a worker acted on another request, or a worker      *)
(* loaded a negative size (dense_mm.c writes its answer and touches the    *)
(* segment without a check), provided that pinning works where -c asks for *)
(* it.                                                                     *)
THEOREM CrashesHaveACause ==
    ASSUME PinningWorks
    PROVE  Spec => []CrashNeedsRaceOrDeath
<1>1. AnyUse => CrashNeedsRaceOrDeath
  BY DEF AnyUse, CrashInv
<1> QED BY CrashCorrect, <1>1, PTL
-----------------------------------------------------------------------------
UsedAsIntended ==
    /\ MaxLive = 1 /\ Mortal = {} /\ BadPriority = {} /\ ~Signals
    /\ \A c \in Clients : Size[c] >= 0
    /\ Faults \subseteq {"shm_open", "ftruncate", "close", "unlink",
                        "sched_setscheduler"}

(* One client runs at a time, and while none waits for an answer no        *)
(* request is on its way.                                                  *)
RunnersLive == \A c \in Clients : cpc[c] \in Running => c \in alive
OneRuns == \A c, d \in Clients : cpc[c] \in Running /\ cpc[d] \in Running => c = d
Waits(c) == cpc[c] \in {"openReply", "inOpenReply", "read"}
QuietUnlessAsked ==
    \A c \in Clients : Waits(c) \/ /\ wpc[c] \in {"none", "done"}
                                   /\ mc # c
                                   /\ \A i \in DOMAIN pipe : pipe[i][1] # c
OneRequest == pipe = <<>> \/ \E c \in Clients : pipe = Request(c)

(* So that the slot is the worker's own while it runs.                     *)
SlotIsOwn ==
    \A c \in Clients : wpc[c] \notin {"none", "done"}
                           => \A field \in SlotFields : pthread_args[field] = c

(* The server that has read a request stays.                               *)
NothingReadFirst ==
    spc \in {"mkfifo", "openRequest", "inOpenRequest"} => mc = NoClient
ServerStays ==
    /\ server_on /\ spc \notin {"cancel"} \cup ClosingDown
    /\ Server \notin alive => \A c \in Clients : ~Opened(c)

(* What the segment of a client holds, as far as its worker has come.      *)
Asking == {"openRequest", "inOpenRequest", "write"}
Computed(c) ==
    /\ shm[c] = "product" => wpc[c] \in {"reply", "done"}
    /\ (cpc[c] \in Asking \/ Waits(c)) /\ wpc[c] # "done"
            => shm[c] = IF wpc[c] = "reply" THEN "product" ELSE "input"
    /\ wpc[c] = "writeBack" => C[c] = "product"
    /\ replies[c] > 0 => wpc[c] = "done" /\ shm[c] = "product"
    /\ cpc[c] \in Answered => shm[c] = "product"

OneInv == /\ RunnersLive /\ OneRuns /\ QuietUnlessAsked /\ OneRequest
          /\ SlotIsOwn /\ ~Raced /\ NothingReadFirst /\ ServerStays
          /\ \A c \in Clients : Computed(c)

LEMMA PinningIsOutOfUse == UsedAsIntended => PinningWorks
  BY DEF UsedAsIntended, PinningWorks

-----------------------------------------------------------------------------
(* A worker is cancelled by nobody and its client reads.                   *)
LEMMA WorkerIsAwaited ==
    ASSUME AnyUse, OneInv, NEW c \in Clients, Worker(c)
    PROVE  /\ Server \in alive /\ ~IsCancelled(c)
           /\ Waits(c) /\ Accepted(c) /\ HasReader(c)
           /\ <<Server, c>> \in writers
<1>1. Server \in alive /\ wpc[c] \notin {"none", "done"}
  BY WorkerLeaves DEF AnyUse
<1>2. ~IsCancelled(c)
  BY DEF AnyUse, SlotInv, CancelIsLast, ClosingDown, OneInv, ServerStays,
         IsCancelled
<1>3. Waits(c)
  BY <1>1 DEF OneInv, QuietUnlessAsked
<1>4. Accepted(c) /\ Holds(c)
  BY <1>1, <1>2, WorkerIsServed DEF AnyUse
<1>5. <<c, c>> \in readers
  BY <1>3, <1>4 DEF AnyUse, ServeInv, AwakeMeetsReader, Waits, Parted
<1> QED BY <1>1, <1>2, <1>3, <1>4, <1>5 DEF HasReader, Processes, Holds

(* It goes from loads through product and copy to the answer, on its own   *)
(* client's values, or gives up before it has computed anything.           *)
Loading == {"size", "fd", "affinity", "sched", "segment"}
Prepares(c) == /\ wpc[c] \in Loading
               /\ wpc'[c] \in Loading \cup {"multiply", "done"}
               /\ UNCHANGED <<shm, replies, C>>
Computes(c) == /\ wpc[c] = "multiply" /\ wpc'[c] = "writeBack"
               /\ C' = [C EXCEPT ![c] = "product"]
               /\ UNCHANGED <<shm, replies>>
Copies(c) == /\ wpc[c] = "writeBack" /\ wpc'[c] = "reply"
             /\ shm' = [shm EXCEPT ![c] = "product"]
             /\ UNCHANGED <<replies, C>>
Answers(c) == /\ wpc[c] = "reply" /\ wpc'[c] = "done"
              /\ replies' = [replies EXCEPT ![c] = @ + 1]
              /\ UNCHANGED <<shm, C>>

LEMMA WorkerComputes ==
    ASSUME UsedAsIntended, AnyUse, OneInv, NEW c \in Clients, Worker(c)
    PROVE  /\ UNCHANGED <<alive, endVars>>
           /\ Prepares(c) \/ Computes(c) \/ Copies(c) \/ Answers(c)
<1>0. /\ wpc \in [Clients -> WorkerSteps] /\ replies \in [Clients -> Nat]
      /\ Loads(c) /\ \A field \in SlotFields : arg[c][field] \in {NoClient, c}
      /\ Computed(c)
  BY DEF AnyUse, TypeOK, WorkerTypeOK, IpcTypeOK, CrashInv, ArgsAreLoaded,
         OneInv, Raced
<1>1. ASSUME wpc[c] = "reply"
      PROVE  arg[c].fd = c
  BY <1>0, <1>1, ProcessesAreDistinct DEF Loads, SlotFields
<1>2. ASSUME wpc[c] \in {"multiply", "writeBack"}
      PROVE  arg[c].size = c /\ arg[c].shm = c
  BY <1>0, <1>2, ProcessesAreDistinct DEF Loads, SlotFields
<1>3. CASE LoadSize(c) \/ LoadFd(c) \/ OpenSegment(c)
  BY <1>0, <1>3
     DEF LoadSize, LoadFd, OpenSegment, At, Advance, Prepares, Loading, ipcVars, endVars
<1>4. CASE SetAffinity(c) \/ SetScheduler(c)
  BY <1>0, <1>4
     DEF SetAffinity, SetScheduler, At, Advance, Prepares, Loading,
         UsedAsIntended, endVars
<1>5. CASE Multiply(c)
  <2>1. arg[c].size = c /\ arg[c].shm = c /\ Size[c] \in Nat /\ wpc[c] = "multiply"
    BY <1>2, <1>5, SizesAreNumbers DEF Multiply, At, UsedAsIntended
  <2>2. ~LeavesSegment(arg[c].size, arg[c].shm)
    BY <2>1, PagesAreCounted DEF LeavesSegment
  <2>3. shm[c] = "input"
    BY <1>0, <1>5, <2>1, WorkerIsAwaited DEF Computed
  <2>4. \A d \in Clients \ {c} : arg[d].shm # c
    BY ProcessesAreDistinct DEF OneInv, Raced, SlotFields
  <2>5. Outcomes(c) = {"product"}
    BY <2>1, <2>3, <2>4 DEF Outcomes
  <2>6. /\ \E result \in Outcomes(c) : C' = [C EXCEPT ![c] = result]
        /\ Advance(c, "writeBack") /\ UNCHANGED <<alive, endVars, replies, shm>>
    BY <1>5, <2>2 DEF Multiply, UsedAsIntended
  <2> QED BY <1>0, <2>1, <2>5, <2>6 DEF Computes, Advance
<1>6. CASE WriteBack(c)
  BY <1>0, <1>2, <1>6 DEF WriteBack, At, Advance, Copies, Computed, endVars
<1>7. CASE Reply(c)
  BY <1>0, <1>1, <1>7, WorkerIsAwaited
     DEF Reply, At, Answer, CanWrite, Advance, Answers, endVars
<1>8. CASE StopInPrintf(c)
  BY <1>8, WorkerIsAwaited DEF StopInPrintf
<1> QED BY <1>3, <1>4, <1>5, <1>6, <1>7, <1>8 DEF Worker, WorkerNext

(* What it loads is its own.                                               *)
LEMMA OwnLoads ==
    ASSUME AnyUse, OneInv, NEW c \in Clients, Worker(c)
    PROVE  \A field \in SlotFields : arg'[c][field] \in {NoClient, c}
<1>1. \A field \in SlotFields : arg[c][field] \in {NoClient, c}
  BY DEF OneInv, Raced
<1>2. \A field \in SlotFields : pthread_args[field] = c
  BY WorkerLeaves DEF AnyUse, OneInv, SlotIsOwn
<1>3. \/ \E field \in SlotFields : Load(c, field, pthread_args[field])
      \/ arg' = arg
  BY DEF Worker, WorkerNext, LoadSize, LoadFd, SetAffinity, SetScheduler,
         OpenSegment, Multiply, WriteBack, Reply, StopInPrintf, SlotFields
<1>4. arg \in [Clients -> [size : Slots, fd : Slots, shm : Slots]]
  BY DEF AnyUse, TypeOK, WorkerTypeOK
<1>5. \A field \in SlotFields : arg'[c][field] \in {arg[c][field], pthread_args[field]}
  BY <1>3, <1>4 DEF Load, SlotFields
<1> QED BY <1>1, <1>2, <1>5

LEMMA OneWorker ==
    ASSUME UsedAsIntended, AnyUse, OneInv, NEW c \in Clients, Worker(c)
    PROVE  OneInv'
<1>0. /\ UNCHANGED <<cpc, spc, mc, server_on, list, cancelled, pthread_args, pipe, alive>>
      /\ \A d \in Clients \ {c} : wpc'[d] = wpc[d] /\ arg'[d] = arg[d]
      /\ wpc[c] \notin {"none", "done"} /\ Waits(c)
  BY WorkerLeaves, WorkerComputes, WorkerIsAwaited DEF AnyUse, Worker,
                                                       serverVars
<1>1. RunnersLive' /\ OneRuns' /\ OneRequest' /\ NothingReadFirst'
  BY <1>0 DEF OneInv, RunnersLive, OneRuns, OneRequest, NothingReadFirst
<1>2. QuietUnlessAsked'
  BY <1>0 DEF OneInv, QuietUnlessAsked, Waits
<1>3. SlotIsOwn'
  BY <1>0 DEF OneInv, SlotIsOwn
<1>4. ~Raced'
  BY <1>0, OwnLoads DEF OneInv, Raced
<1>5. ServerStays'
  BY <1>0 DEF OneInv, ServerStays, Opened, Accepted, Started
<1>6. ASSUME NEW d \in Clients
      PROVE  Computed(d)'
  <2>0. /\ shm \in [Clients -> Contents] /\ C \in [Clients -> Contents]
        /\ replies \in [Clients -> Nat] /\ Computed(d)
    BY DEF AnyUse, TypeOK, WorkerTypeOK, IpcTypeOK, OneInv
  <2>1. CASE d # c
    BY <1>0, <2>0, <2>1, WorkerComputes
       DEF Computed, Prepares, Computes, Copies, Answers, Waits
  <2>2. CASE d = c
    BY <1>0, <2>0, <2>2, WorkerComputes
       DEF Computed, Prepares, Computes, Copies, Answers, Waits, Loading, Answered
  <2> QED BY <2>1, <2>2
<1> QED BY <1>1, <1>2, <1>3, <1>4, <1>5, <1>6 DEF OneInv

-----------------------------------------------------------------------------
(* A client that is done has its product: end-of-file is nothing it reads. *)
LEMMA ReadsItsAnswer ==
    ASSUME UsedAsIntended, AnyUse, OneInv, NEW c \in Clients, Read(c)
    PROVE  replies[c] > 0
<1>1. cpc[c] = "read" /\ Meets(c) /\ replies[c] \in Nat
  BY DEF Read, AnyUse, MeetInv, EndsInv, ReaderMeetsWriter, TypeOK, IpcTypeOK
<1>2. <<Server, c>> \in writers
  BY <1>1 DEF Meets, Left, ClosedAtShutdown, ClosingDown, OneInv, ServerStays
<1>3. HasWriter(c)
  BY <1>2 DEF HasWriter, Processes
<1> QED BY <1>1, <1>3 DEF Read, UsedAsIntended

(* The FIFO of an accepted client holds no word of its request.            *)
LEMMA AcceptedIsRead ==
    ASSUME AnyUse, OneInv, NEW c \in Clients, Accepted(c)
    PROVE  mc # c /\ \A i \in DOMAIN pipe : pipe[i][1] # c
<1>1. mc # c
  BY DEF AnyUse, OnceInv
<1>2. ASSUME NEW d \in Clients, pipe = Request(d), d = c
      PROVE  FALSE
  <2>1. 1 \in DOMAIN pipe /\ pipe[1] = <<c, 1>>
    BY <1>2, RequestIsNotEmpty DEF Request
  <2> QED BY <2>1 DEF AnyUse, OnceInv, QueuedOnlyInPipe
<1>3. ASSUME NEW d \in Clients, pipe = Request(d), NEW i \in DOMAIN pipe
      PROVE  pipe[i][1] = d
  BY <1>3 DEF Request
<1> QED BY <1>1, <1>2, <1>3 DEF OneInv, OneRequest

(* Whatever client does something, the others stay as they are.            *)
LEMMA OneClientFrame ==
    ASSUME AnyUse, OneInv, NEW c \in Clients, Client(c) \/ User(c),
           c \in alive' <=> cpc'[c] \in Running,
           cpc'[c] \in Running => \A d \in Clients \ {c} : cpc[d] \notin Running,
           Waits(c)' \/ (wpc[c] \in {"none", "done"} /\ mc # c
                         /\ \A i \in DOMAIN pipe' : pipe'[i][1] # c),
           pipe' \in {pipe, Request(c)},
           Computed(c)'
    PROVE  OneInv'
<1>0. /\ UNCHANGED <<pthread_args, wpc, arg, C, cancelled, spc, server_on, mc, list>>
      /\ \A d \in Clients \ {c} :
            /\ cpc'[d] = cpc[d] /\ shm'[d] = shm[d] /\ replies'[d] = replies[d]
            /\ d \in alive' <=> d \in alive
      /\ Server \in alive' <=> Server \in alive
  BY ProcessesAreDistinct
     DEF Client, User, ClientStep, OpenRequest, RequestOpened, Write,
         OpenReply, ReplyOpened, Read, Finish, Setup, Kill, Goto, Exit, ipcVars,
         workerVars, serverVars, AnyUse, TypeOK, ClientTypeOK, IpcTypeOK
<1>1. RunnersLive' /\ OneRuns'
  BY <1>0 DEF OneInv, RunnersLive, OneRuns
<1>2. QuietUnlessAsked'
  <2> SUFFICES ASSUME NEW d \in Clients \ {c}, ~Waits(d)'
               PROVE  /\ wpc[d] \in {"none", "done"} /\ mc # d
                      /\ \A i \in DOMAIN pipe' : pipe'[i][1] # d
    BY <1>0 DEF QuietUnlessAsked
  <2>1. /\ wpc[d] \in {"none", "done"} /\ mc # d
        /\ \A i \in DOMAIN pipe : pipe[i][1] # d
    BY <1>0 DEF OneInv, QuietUnlessAsked, Waits
  <2>2. \A i \in DOMAIN Request(c) : Request(c)[i][1] = c
    BY DEF Request
  <2> QED BY <2>1, <2>2
<1>3. OneRequest' /\ SlotIsOwn' /\ NothingReadFirst' /\ ~Raced'
  BY <1>0 DEF OneInv, OneRequest, SlotIsOwn, NothingReadFirst, Raced, Request
<1>4. ServerStays'
  BY <1>0 DEF OneInv, ServerStays, Opened, Accepted, Started
<1>5. \A d \in Clients \ {c} : Computed(d)'
  BY <1>0 DEF OneInv, Computed, Waits
<1> QED BY <1>1, <1>2, <1>3, <1>4, <1>5 DEF OneInv

LEMMA OneClient ==
    ASSUME UsedAsIntended, AnyUse, OneInv, NEW c \in Clients, Client(c)
    PROVE  OneInv'
<1>0. /\ UNCHANGED <<wpc, mc, C>> /\ c # Server
      /\ cpc \in [Clients -> ClientCalls \cup ClientExits]
      /\ replies \in [Clients -> Nat] /\ Computed(c)
  BY ProcessesAreDistinct
     DEF Client, workerVars, serverVars, AnyUse, TypeOK, ClientTypeOK, IpcTypeOK, OneInv
<1>1. cpc[c] \in Running /\ c \in alive /\ \A d \in Clients \ {c} : cpc[d] \notin Running
  BY DEF Client, ClientStep, OpenRequest, RequestOpened, Write, OpenReply,
         ReplyOpened, Read, Finish, Running, OneInv, RunnersLive, OneRuns
<1>2. c \in alive' <=> cpc'[c] \in Running
  BY <1>0, <1>1
     DEF Client, ClientStep, OpenRequest, RequestOpened, Write, OpenReply,
         ReplyOpened, Read, Finish, Goto, Exit, Running, ipcVars
<1>3. CASE OpenReply(c) \/ ReplyOpened(c)
  <2>1. Waits(c) /\ Waits(c)' /\ UNCHANGED <<pipe, shm, replies>>
        /\ cpc'[c] \notin Answered
    BY <1>0, <1>3
       DEF OpenReply, ReplyOpened, Goto, Waits, ipcVars, Answered, UsedAsIntended
  <2> QED BY <1>0, <1>1, <1>2, <2>1, OneClientFrame DEF Computed
<1>4. CASE OpenRequest(c) \/ RequestOpened(c) \/ (Write(c) /\ pipe' = pipe)
  <2>1. /\ cpc[c] \in Asking /\ ~Waits(c) /\ UNCHANGED <<pipe, shm, replies>>
        /\ cpc'[c] \in Asking \cup {"BAD_OPEN", "killed", "openReply"}
    BY <1>0, <1>4 DEF OpenRequest, RequestOpened, Write, Goto, Waits, ipcVars,
                      Asking, UsedAsIntended
  <2>2. wpc[c] \in {"none", "done"} /\ mc # c /\ \A i \in DOMAIN pipe : pipe[i][1] # c
    BY <2>1 DEF OneInv, QuietUnlessAsked
  <2>3. Computed(c)'
    BY <1>0, <1>4, <2>1
       DEF OpenRequest, RequestOpened, Write, Goto, Computed, Asking, Waits, Answered
  <2> QED BY <1>1, <1>2, <2>1, <2>2, <2>3, OneClientFrame
<1>5. CASE Write(c) /\ pipe' # pipe
  <2>1. /\ cpc[c] = "write" /\ ~Waits(c) /\ UNCHANGED <<shm, replies>>
        /\ cpc'[c] = "openReply" /\ pipe' = pipe \o Request(c)
    BY <1>0, <1>5 DEF Write, Goto, Waits
  <2>2. pipe = <<>>
    <3>1. ASSUME NEW d \in Clients, pipe = Request(d)
          PROVE  FALSE
      <4>1. 1 \in DOMAIN pipe /\ pipe[1][1] = d
        BY <3>1, RequestIsNotEmpty DEF Request
      <4>2. Waits(d)
        BY <4>1 DEF OneInv, QuietUnlessAsked
      <4> QED BY <1>1, <2>1, <4>2 DEF Waits, Running
    <3> QED BY <3>1 DEF OneInv, OneRequest
  <2>3. pipe' = Request(c)
    BY <2>1, <2>2, RequestType, ConcatEmptySeq
  <2>4. Computed(c)' /\ Waits(c)'
    BY <1>0, <2>1 DEF Computed, Asking, Waits, Answered
  <2> QED BY <1>1, <1>2, <2>3, <2>4, OneClientFrame
<1>6. CASE Read(c)
  <2>0. replies[c] > 0
    BY <1>6, ReadsItsAnswer
  <2>1. /\ cpc'[c] = "report" /\ UNCHANGED <<pipe, shm>>
        /\ replies' = [replies EXCEPT ![c] = @ - 1]
        /\ wpc[c] = "done" /\ shm[c] = "product"
    BY <1>0, <1>6, <2>0 DEF Read, Goto, Computed, UsedAsIntended
  <2>2. Accepted(c)
    BY <2>1 DEF AnyUse, SlotInv, WorkersAreStarted, Accepted
  <2>3. Computed(c)'
    BY <1>0, <2>1 DEF Computed, Asking, Waits
  <2> QED BY <1>1, <1>2, <2>1, <2>2, <2>3, AcceptedIsRead, OneClientFrame
<1>7. CASE Finish(c)
  <2>1. /\ cpc[c] = "report" /\ cpc'[c] \in {"SUCCESS", "BAD_CLOSE", "BAD_UNLINK"}
        /\ UNCHANGED <<pipe, shm, replies>> /\ ~Waits(c)
    BY <1>0, <1>7 DEF Finish, Goto, Waits
  <2>2. wpc[c] \in {"none", "done"} /\ mc # c /\ \A i \in DOMAIN pipe : pipe[i][1] # c
    BY <2>1 DEF OneInv, QuietUnlessAsked
  <2>3. Computed(c)'
    BY <1>0, <2>1 DEF Computed, Asking, Waits, Answered
  <2> QED BY <1>1, <1>2, <2>1, <2>2, <2>3, OneClientFrame
<1> QED BY <1>3, <1>4, <1>5, <1>6, <1>7 DEF Client, ClientStep

(* A client is started when no other runs.                                 *)
LEMMA OneSetup ==
    ASSUME UsedAsIntended, AnyUse, OneInv, NEW c \in Clients, User(c)
    PROVE  OneInv'
<1>0. /\ UNCHANGED <<wpc, mc, C, pipe, replies>> /\ Setup(c) /\ cpc[c] = "mkfifo"
      /\ cpc \in [Clients -> ClientCalls \cup ClientExits]
      /\ replies \in [Clients -> Nat] /\ shm \in [Clients -> Contents]
      /\ Computed(c)
  BY DEF User, Setup, Kill, UsedAsIntended, workerVars, serverVars, AnyUse,
         TypeOK, ClientTypeOK, IpcTypeOK, OneInv
<1>1. alive \cap Clients = {}
  <2>1. ASSUME NEW d \in alive \cap Clients
        PROVE  FALSE
    <3>1. alive \cap Clients = {d}
      BY <2>1 DEF AnyUse, MeetInv, NamesInv, LiveAreRunning, OneInv, OneRuns
    <3>2. Cardinality(alive \cap Clients) = 1
      BY <3>1, FS_Singleton
    <3> QED BY <1>0, <3>2 DEF Setup, UsedAsIntended
  <2> QED BY <2>1
<1>2. \A d \in Clients : cpc[d] \notin Running
  BY <1>1 DEF OneInv, RunnersLive
<1>3. c \in alive' <=> cpc'[c] \in Running
  BY <1>0, <1>1 DEF Setup, Goto, Running
<1>4. wpc[c] \in {"none", "done"} /\ mc # c /\ \A i \in DOMAIN pipe : pipe[i][1] # c
  BY <1>0 DEF OneInv, QuietUnlessAsked, Waits
<1>5. wpc[c] = "none"
  <2>1. ~Accepted(c)
    BY <1>0 DEF AnyUse, OnceInv, SilentNowhere, Silent
  <2> QED BY <1>4, <2>1 DEF AnyUse, SlotInv, WorkersAreStarted, Accepted
<1>6. Computed(c)'
  <2>1. /\ shm'[c] \in {shm[c], "input"} /\ cpc'[c] \notin Answered
        /\ cpc'[c] \in Asking => shm'[c] = "input"
    BY <1>0 DEF Setup, Goto, Answered, Asking
  <2>2. ~Waits(c)'
    BY <1>0 DEF Setup, Goto, Waits
  <2>3. shm'[c] # "product"
    BY <1>0, <1>5, <2>1 DEF Computed
  <2> QED BY <1>0, <1>5, <2>1, <2>2, <2>3 DEF Computed
<1> QED BY <1>0, <1>2, <1>3, <1>4, <1>6, OneClientFrame

-----------------------------------------------------------------------------
(* The server's own threads move no client and compute nothing.            *)
LEMMA OneServerFrame ==
    ASSUME AnyUse, OneInv, UNCHANGED <<cpc, replies, shm, arg, C>>,
           \A c \in Clients : (c \in alive') <=> (c \in alive),
           \A c \in Clients : Waits(c) \/ /\ wpc'[c] = wpc[c] /\ mc' # c
                                          /\ \A i \in DOMAIN pipe' : pipe'[i][1] # c,
           pipe' \in {pipe, <<>>},
           \A c \in Clients : \/ wpc'[c] = wpc[c]
                              \/ wpc[c] = "none" /\ wpc'[c] = "size",
           SlotIsOwn', NothingReadFirst', ServerStays'
    PROVE  OneInv'
<1>1. RunnersLive' /\ OneRuns'
  BY DEF OneInv, RunnersLive, OneRuns
<1>2. QuietUnlessAsked'
  BY DEF OneInv, QuietUnlessAsked, Waits
<1>3. OneRequest' /\ ~Raced'
  BY DEF OneInv, OneRequest, Raced, Request
<1>4. \A c \in Clients : Computed(c)'
  <2> SUFFICES ASSUME NEW c \in Clients PROVE Computed(c)'
    OBVIOUS
  <2>1. Computed(c)
    BY DEF OneInv
  <2>2. CASE wpc'[c] = wpc[c]
    BY <2>1, <2>2 DEF Computed, Waits
  <2>3. CASE wpc[c] = "none" /\ wpc'[c] = "size"
    BY <2>1, <2>3 DEF Computed, Waits
  <2> QED BY <2>2, <2>3
<1> QED BY <1>1, <1>2, <1>3, <1>4 DEF OneInv

(* While main holds a request no worker runs.                              *)
LEMMA HeldMeansIdle ==
    ASSUME AnyUse, OneInv, mc \in Clients, NEW c \in Clients
    PROVE  Waits(mc) /\ wpc[c] \in {"none", "done"}
<1>1. Waits(mc)
  BY DEF OneInv, QuietUnlessAsked
<1>2. CASE Waits(c)
  <2>1. c = mc
    BY <1>1, <1>2 DEF OneInv, OneRuns, Waits, Running
  <2> QED BY <1>1, <2>1 DEF AnyUse, OnceInv, SlotInv, WorkersAreStarted, Accepted
<1>3. CASE ~Waits(c)
  BY <1>3 DEF OneInv, QuietUnlessAsked
<1> QED BY <1>1, <1>2, <1>3

(* A read takes the one request there is, whole.                           *)
LEMMA OneRead ==
    ASSUME AnyUse, OneInv, ServerRead, pipe # <<>>, alive' = alive
    PROVE  pipe' = <<>> /\ mc' \in Clients /\ Waits(mc')
<1>1. PICK c \in Clients : pipe = Request(c)
  BY DEF OneInv, OneRequest
<1>2. /\ pipe \in Seq(Words) /\ Len(pipe) = MsgWords /\ 1 \in DOMAIN pipe
      /\ Head(pipe) = <<c, 1>>
  BY <1>1, RequestType, RequestIsNotEmpty DEF Request
<1>3. Waits(c)
  BY <1>2 DEF OneInv, QuietUnlessAsked
<1>4. mc' = c /\ pipe' = SubSeq(pipe, ReadWords + 1, Len(pipe))
  BY <1>2, ProcessesAreDistinct DEF ServerRead, Exit, Before, AnyUse
<1>5. pipe' = <<>>
  BY <1>2, <1>4, ReadCoversRequest, RequestIsNotEmpty, SubSeqProperties
<1> QED BY <1>3, <1>4, <1>5

LEMMA OneMain ==
    ASSUME UsedAsIntended, AnyUse, OneInv, Main
    PROVE  OneInv'
<1>0. /\ UNCHANGED <<cpc, replies, shm, arg, C>>
      /\ \A c \in Clients : (c \in alive') <=> (c \in alive)
      /\ server_on' = server_on
  BY ProcessesAreDistinct
     DEF Main, MainStep, Start, ServerOpenRequest, CreateHold, While,
         ServerRead, ServerOpenReply, ServerReplyOpened, FillSize, FillFd,
         FillPriority, CopyName, NameCopied, Store, SpawnWorker, CancelThreads,
         CloseRequest, CloseReply, UnlinkRequest, Return, SleepInRead, Exit,
         ipcVars, workerVars
<1>1. /\ \A c \in Clients : Waits(c) \/ /\ mc # c
                                        /\ \A i \in DOMAIN pipe : pipe[i][1] # c
      /\ SlotIsOwn /\ NothingReadFirst /\ ServerStays
  BY DEF OneInv, QuietUnlessAsked
<1>2. CASE Start
  <2>1. UNCHANGED <<wpc, mc, pipe, pthread_args, list, cancelled>> /\ spc = "mkfifo"
    BY <1>2 DEF Start, Before, workerVars
  <2>2. mc = NoClient /\ list = <<>> /\ cancelled = <<>>
    BY <2>1, <1>1 DEF NothingReadFirst, AnyUse, SlotInv, ListIsEmptyFirst,
                      CancelIsLast, ClosingDown
  <2>3. \A c \in Clients : ~Opened(c)'
    <3>1. Started' = <<>>
      BY <2>1, <2>2, StartedIsList DEF Started
    <3> QED BY <2>1, <2>2, <3>1, ProcessesAreDistinct DEF Opened, Accepted
  <2>4. spc' \notin {"cancel"} \cup ClosingDown
    BY <1>2 DEF Start, ClosingDown
  <2>5. SlotIsOwn' /\ NothingReadFirst' /\ ServerStays'
    BY <1>0, <1>1, <2>1, <2>2, <2>3, <2>4
       DEF SlotIsOwn, NothingReadFirst, ServerStays
  <2> QED BY <1>0, <1>1, <2>1, <2>5, OneServerFrame
<1>3. Server \in alive' \/ Start
  BY ProcessesAreDistinct
     DEF Main, MainStep, ClosingDown, ServerOpenRequest, CreateHold, While,
         ServerRead, ServerOpenReply, ServerReplyOpened, FillSize, FillFd,
         FillPriority, CopyName, NameCopied, Store, SpawnWorker, CancelThreads,
         CloseRequest, CloseReply, UnlinkRequest, Return, SleepInRead, Before,
         UsedAsIntended, OneInv, ServerStays, ipcVars
<1>4. CASE /\ UNCHANGED <<wpc, pthread_args, pipe, mc>> /\ ~Start
           /\ spc' \notin {"mkfifo", "cancel"} \cup ClosingDown
           /\ spc' \in {"openRequest", "inOpenRequest"} => spc \in {"mkfifo", "openRequest"}
  <2>1. SlotIsOwn' /\ NothingReadFirst' /\ ServerStays'
    BY <1>0, <1>1, <1>3, <1>4 DEF SlotIsOwn, NothingReadFirst, ServerStays
  <2> QED BY <1>0, <1>1, <1>4, <2>1, OneServerFrame
<1>5. CASE \/ ServerOpenRequest \/ CreateHold \/ While \/ SleepInRead
           \/ ServerOpenReply \/ ServerReplyOpened
  BY <1>4, <1>5
     DEF ServerOpenRequest, CreateHold, While, SleepInRead, ServerOpenReply,
         ServerReplyOpened, Before, OneInv, ServerStays, UsedAsIntended,
         ClosingDown, ipcVars, workerVars, Start
<1>6. CASE ServerRead
  <2>1. /\ UNCHANGED <<wpc, pthread_args, alive>>
        /\ spc \in {"read", "inRead"} /\ spc' = "openReply"
        /\ pipe = <<>> => UNCHANGED <<pipe, mc>>
    BY <1>6 DEF ServerRead, Before, UsedAsIntended, workerVars
  <2>2. CASE pipe = <<>>
    BY <1>4, <2>1, <2>2 DEF Start, Before, ClosingDown
  <2>3. CASE pipe # <<>>
    <3>1. pipe' = <<>> /\ mc' \in Clients /\ Waits(mc')
      BY <1>6, <2>1, <2>3, OneRead
    <3>2. SlotIsOwn' /\ NothingReadFirst' /\ ServerStays'
      BY <1>0, <1>1, <1>3, <2>1
         DEF SlotIsOwn, NothingReadFirst, ServerStays, ClosingDown, Start, Before
    <3>3. \A c \in Clients : Waits(c) \/ mc' # c
      BY <3>1
    <3> QED BY <1>0, <2>1, <3>1, <3>2, <3>3, OneServerFrame
  <2> QED BY <2>2, <2>3
<1>7. CASE FillSize \/ FillFd \/ FillPriority \/ CopyName \/ NameCopied
  <2>1. /\ UNCHANGED <<wpc, pipe, mc, alive>> /\ spc \in FillSteps
        /\ spc' \in FillSteps
    BY <1>7 DEF FillSize, FillFd, FillPriority, CopyName, NameCopied, Store,
                Before, FillSteps, ipcVars
  <2>2. mc \in Clients
    BY <2>1 DEF AnyUse, SlotInv, RequestInHand
  <2>3. SlotIsOwn' /\ NothingReadFirst' /\ ServerStays'
    BY <1>0, <1>1, <1>3, <2>1, <2>2, HeldMeansIdle
       DEF SlotIsOwn, NothingReadFirst, ServerStays, ClosingDown, FillSteps, Start, Before
  <2> QED BY <1>0, <1>1, <2>1, <2>3, OneServerFrame
<1>8. CASE SpawnWorker
  <2>1. /\ UNCHANGED <<pthread_args, pipe, alive>> /\ spc = "spawn" /\ spc' = "while"
        /\ mc' = NoClient /\ Advance(mc, "size")
    BY <1>8 DEF SpawnWorker, Before, UsedAsIntended
  <2>2. mc \in Clients /\ \A field \in SlotFields : pthread_args[field] = mc
    BY <2>1 DEF AnyUse, SlotInv, RequestInHand, FillSteps, StoredIsInHand,
                Stored
  <2>3. wpc[mc] = "none"
    BY <2>2 DEF AnyUse, OnceInv, SlotInv, WorkersAreStarted, Accepted
  <2>4. \A c \in Clients : wpc'[c] = IF c = mc THEN "size" ELSE wpc[c]
    BY <2>1 DEF Advance, AnyUse, TypeOK, WorkerTypeOK
  <2>5. SlotIsOwn' /\ NothingReadFirst' /\ ServerStays'
    BY <1>0, <1>1, <1>3, <2>1, <2>2, <2>4, HeldMeansIdle
       DEF SlotIsOwn, NothingReadFirst, ServerStays, ClosingDown, Start, Before
  <2>6. Waits(mc)
    BY <2>2, HeldMeansIdle
  <2> QED BY <1>0, <1>1, <2>1, <2>3, <2>4, <2>5, <2>6, ProcessesAreDistinct, OneServerFrame
<1>9. CASE CancelThreads \/ CloseRequest \/ CloseReply \/ UnlinkRequest \/ Return
  BY <1>1, <1>9 DEF CancelThreads, CloseRequest, CloseReply, UnlinkRequest,
                    Return, Before, ServerStays, ClosingDown
<1> QED BY <1>2, <1>5, <1>6, <1>7, <1>8, <1>9 DEF Main, MainStep

LEMMA OneStep ==
    ASSUME UsedAsIntended, AnyUse, OneInv, [Next]_vars
    PROVE  OneInv'
<1>1. CASE Hold \/ UNCHANGED vars
  <2>1. UNCHANGED <<cpc, replies, shm, arg, C, wpc, pthread_args, pipe, mc, alive,
                    spc, server_on, list, cancelled>>
    BY <1>1 DEF Hold, HoldFifoOpen, vars, ipcVars, workerVars, serverVars
  <2>2. SlotIsOwn' /\ NothingReadFirst' /\ ServerStays'
    BY <2>1 DEF OneInv, SlotIsOwn, NothingReadFirst, ServerStays, Opened,
                Accepted, Started
  <2>3. \A c \in Clients : Waits(c) \/ /\ mc # c
                                       /\ \A i \in DOMAIN pipe : pipe[i][1] # c
    BY DEF OneInv, QuietUnlessAsked
  <2> QED BY <2>1, <2>2, <2>3, OneServerFrame
<1>2. ~Interrupt
  BY DEF Interrupt, Sigint, UsedAsIntended
<1> QED BY <1>1, <1>2, OneClient, OneSetup, OneWorker, OneMain DEF Next

LEMMA OneInit == Init => OneInv
<1> SUFFICES ASSUME Init PROVE OneInv
  OBVIOUS
<1>1. /\ spc = "mkfifo" /\ mc = NoClient /\ server_on = TRUE /\ pipe = <<>>
      /\ alive = {Server}
      /\ \A c \in Clients : /\ cpc[c] = "mkfifo" /\ wpc[c] = "none"
                            /\ arg[c] = NothingLoaded /\ replies[c] = 0
                            /\ shm[c] = "none"
  BY DEF Init, IpcInit, ClientInit, WorkerInit, ServerInit
<1>2. RunnersLive /\ OneRuns /\ OneRequest /\ SlotIsOwn /\ ServerStays
  BY <1>1 DEF RunnersLive, OneRuns, OneRequest, SlotIsOwn, ServerStays,
              ClosingDown, Running
<1>3. QuietUnlessAsked /\ NothingReadFirst
  BY <1>1, ProcessesAreDistinct DEF QuietUnlessAsked, NothingReadFirst
<1>4. ~Raced /\ \A c \in Clients : Computed(c)
  BY <1>1 DEF Raced, NothingLoaded, SlotFields, Computed, Asking, Waits,
              Answered
<1> QED BY <1>2, <1>3, <1>4 DEF OneInv

LEMMA OneCorrect ==
    ASSUME UsedAsIntended
    PROVE  Spec => [](AnyUse /\ OneInv)
<1>1. AnyUse /\ OneInv /\ [Next]_vars => OneInv'
  BY OneStep
<1>2. Init => OneInv
  BY OneInit
<1>3. Spec => []AnyUse
  BY CrashCorrect, PinningIsOutOfUse DEF AnyUse
<1> QED BY <1>1, <1>2, <1>3, PTL DEF Spec

(* A client that prints its matrix prints the product of its own matrices  *)
(* (client_fifo.c: "Wait for server to finish"), when clients run one      *)
(* after the other.                                                        *)
THEOREM PrintsTheProduct ==
    ASSUME UsedAsIntended
    PROVE  Spec => []CompletedMeansComputed
<1>1. OneInv => CompletedMeansComputed
  BY DEF OneInv, Computed, CompletedMeansComputed, Answered
<1> QED BY OneCorrect, <1>1, PTL

-----------------------------------------------------------------------------
(* The refinement: a client's write asks, its worker's copy over A does    *)
(* the job, and the client's exit with success tells; everything else is   *)
(* stuttering.                                                             *)
Jobs == [c \in Clients |-> Job(c)]
Moves(c, from, to) == Job(c) = from /\ Job(c)' = to

LEMMA JobMoves ==
    ASSUME NEW c \in Clients, \A d \in Clients \ {c} : Job(d)' = Job(d),
           \/ Job(c)' = Job(c)
           \/ Moves(c, "none", "asked") \/ Moves(c, "asked", "done")
           \/ Moves(c, "done", "told")
    PROVE  [Abstract!Next]_Jobs
<1>1. CASE Job(c)' = Job(c)
  <2>1. Jobs' = Jobs
    BY <1>1 DEF Jobs
  <2> QED BY <2>1
<1>2. ASSUME NEW from, NEW to, Moves(c, from, to)
      PROVE  Abstract!Move(c, from, to)
  <2>1. Jobs' = [Jobs EXCEPT ![c] = to]
    BY <1>2 DEF Jobs, Moves
  <2> QED BY <1>2, <2>1 DEF Abstract!Move, Jobs, Moves
<1>3. CASE Moves(c, "none", "asked")
  BY <1>2, <1>3 DEF Abstract!Next, Abstract!Ask
<1>4. CASE Moves(c, "asked", "done")
  BY <1>2, <1>4 DEF Abstract!Next, Abstract!Do
<1>5. CASE Moves(c, "done", "told")
  BY <1>2, <1>5 DEF Abstract!Next, Abstract!Tell
<1> QED BY <1>1, <1>3, <1>4, <1>5

LEMMA JobQuiet ==
    ASSUME UNCHANGED <<cpc, shm>>
    PROVE  [Abstract!Next]_Jobs
<1>1. Jobs' = Jobs
  BY DEF Jobs, Job
<1> QED BY <1>1

LEMMA JobClient ==
    ASSUME UsedAsIntended, AnyUse, OneInv, NEW c \in Clients, Client(c) \/ User(c)
    PROVE  [Abstract!Next]_Jobs
<1>0. /\ cpc \in [Clients -> ClientCalls \cup ClientExits]
      /\ shm \in [Clients -> Contents] /\ Computed(c) /\ c # Server
      /\ cpc[c] \in Asking \cup {"mkfifo"} => shm[c] # "product"
  <2>1. ASSUME cpc[c] \in Asking \cup {"mkfifo"}
        PROVE  wpc[c] = "none"
    BY <2>1 DEF AnyUse, OnceInv, SilentNowhere, Silent, Asking, SlotInv,
                WorkersAreStarted, Accepted
  <2> QED
    BY <2>1, ProcessesAreDistinct
       DEF AnyUse, TypeOK, ClientTypeOK, IpcTypeOK, OneInv, Computed
<1>1. \A d \in Clients \ {c} : Job(d)' = Job(d)
  BY <1>0
     DEF Client, User, ClientStep, OpenRequest, RequestOpened, Write,
         OpenReply, ReplyOpened, Read, Finish, Setup, Kill, Goto, ipcVars, Job
<1>2. CASE User(c)
  <2>1. Job(c)' = Job(c)
    BY <1>0, <1>2 DEF User, Setup, Kill, Goto, Job, UsedAsIntended
  <2> QED BY <1>1, <2>1, JobMoves
<1>3. CASE OpenRequest(c) \/ RequestOpened(c)
  <2>1. Job(c)' = Job(c)
    BY <1>0, <1>3 DEF OpenRequest, RequestOpened, Goto, Job, ipcVars
  <2> QED BY <1>1, <2>1, JobMoves
<1>4. CASE Write(c)
  <2>1. Job(c) = "none" /\ Job(c)' \in {"none", "asked"}
    BY <1>0, <1>4 DEF Write, Goto, Job, Asking, UsedAsIntended
  <2> QED BY <1>1, <2>1, JobMoves DEF Moves
<1>5. CASE OpenReply(c) \/ ReplyOpened(c)
  <2>1. Job(c)' = Job(c)
    BY <1>0, <1>5 DEF OpenReply, ReplyOpened, Goto, Job, ipcVars, UsedAsIntended
  <2> QED BY <1>1, <2>1, JobMoves
<1>6. CASE Read(c)
  <2>1. shm[c] = "product"
    BY <1>0, <1>6, ReadsItsAnswer DEF Computed
  <2>2. Job(c)' = Job(c)
    BY <1>0, <1>6, <2>1 DEF Read, Goto, Job
  <2> QED BY <1>1, <2>2, JobMoves
<1>7. CASE Finish(c)
  <2>1. shm[c] = "product" /\ cpc[c] = "report"
    BY <1>0, <1>7 DEF Finish, Computed, Answered
  <2>2. Job(c) = "done" /\ Job(c)' \in {"done", "told"}
    BY <1>0, <1>7, <2>1 DEF Finish, Goto, Job
  <2> QED BY <1>1, <2>2, JobMoves DEF Moves
<1> QED BY <1>2, <1>3, <1>4, <1>5, <1>6, <1>7 DEF Client, ClientStep

LEMMA JobWorker ==
    ASSUME UsedAsIntended, AnyUse, OneInv, NEW c \in Clients, Worker(c)
    PROVE  [Abstract!Next]_Jobs
<1>1. UNCHANGED cpc /\ Waits(c) /\ Computed(c) /\ shm \in [Clients -> Contents]
  BY WorkerLeaves, WorkerIsAwaited DEF AnyUse, TypeOK, IpcTypeOK, OneInv
<1>2. CASE Copies(c)
  <2>1. shm[c] = "input" /\ shm' = [shm EXCEPT ![c] = "product"]
    BY <1>1, <1>2 DEF Copies, Computed
  <2>2. Moves(c, "asked", "done")
    BY <1>1, <2>1 DEF Moves, Job, Waits
  <2>3. \A d \in Clients \ {c} : Job(d)' = Job(d)
    BY <1>1, <2>1 DEF Job
  <2> QED BY <2>2, <2>3, JobMoves
<1>3. CASE ~Copies(c)
  BY <1>1, <1>3, WorkerComputes, JobQuiet DEF Prepares, Computes, Answers
<1> QED BY <1>2, <1>3

LEMMA JobStep ==
    ASSUME UsedAsIntended, AnyUse, OneInv, [Next]_vars
    PROVE  [Abstract!Next]_Jobs
<1>1. CASE Main \/ Hold \/ Interrupt \/ UNCHANGED vars
  <2>1. UNCHANGED <<cpc, shm>>
    BY <1>1
       DEF Main, MainStep, Start, ServerOpenRequest, CreateHold, While,
           ServerRead, ServerOpenReply, ServerReplyOpened, FillSize, FillFd,
           FillPriority, CopyName, NameCopied, Store, SpawnWorker,
           CancelThreads, CloseRequest, CloseReply, UnlinkRequest, Return,
           SleepInRead, Hold, HoldFifoOpen, Interrupt,
           Sigint, vars, ipcVars
  <2> QED BY <2>1, JobQuiet
<1> QED BY <1>1, JobClient, JobWorker DEF Next

(* Used as intended, the client and server programs implement JobService:  *)
(* a client's job is done after it asked and once, and the client is told  *)
(* after it is done (client_fifo.c main, server_fifo.c main, dense_mm.c).  *)
THEOREM ImplementsTheService ==
    ASSUME UsedAsIntended
    PROVE  Spec => Abstract!Spec
<1>1. Init => Abstract!Init
  BY DEF Init, ClientInit, IpcInit, Abstract!Init, Job
<1>2. AnyUse /\ OneInv /\ [Next]_vars => [Abstract!Next]_Jobs
  BY JobStep
<1> QED BY <1>1, <1>2, OneCorrect, PTL DEF Spec, Abstract!Spec, Jobs
=============================================================================
