----------------------------- MODULE SlotProofs -----------------------------
(***************************************************************************)
(* Type correctness of MatrixService, and the race on pthread_args, which  *)
(* goes one way: the inductive invariant SlotInv implies ForwardOnly.      *)
(* Both for any number of clients and any value of the other constants.    *)
(***************************************************************************)
EXTENDS MatrixService, SequenceTheorems, TLAPS

(* The descriptors keep their type through every call that opens one and   *)
(* through the end of a process.                                           *)
EndsTypeOK == /\ readers \subseteq Processes \X Processes
              /\ writers \subseteq Processes \X Processes
              /\ asleep \subseteq Processes \X Processes

LEMMA OpenReadType ==
    ASSUME NEW p \in Processes, NEW f \in Processes, EndsTypeOK, OpenRead(p, f)
    PROVE  EndsTypeOK'
  BY DEF EndsTypeOK, OpenRead

LEMMA OpenWriteType ==
    ASSUME NEW p \in Processes, NEW f \in Processes, EndsTypeOK, OpenWrite(p, f)
    PROVE  EndsTypeOK'
  BY DEF EndsTypeOK, OpenWrite

LEMMA CloseType ==
    ASSUME NEW p, NEW f, EndsTypeOK,
           \/ InterruptOpenWrite(p, f) \/ InterruptOpenRead(p, f)
           \/ CloseRead(p, f) \/ CloseWrite(p, f)
    PROVE  EndsTypeOK'
  BY DEF EndsTypeOK, InterruptOpenWrite, InterruptOpenRead, CloseRead, CloseWrite

LEMMA ExitType ==
    ASSUME NEW p, EndsTypeOK, alive \subseteq Processes, Exit(p)
    PROVE  EndsTypeOK' /\ alive' \subseteq Processes
  BY DEF EndsTypeOK, Exit

(* A request is a sequence of words.                                       *)
LEMMA RequestType ==
    ASSUME NEW c \in Clients
    PROVE  Request(c) \in Seq(Words)
  BY RequestIsNotEmpty DEF Request, Words

(* The types of everything but the program counters.                       *)
ArgsTypeOK ==
    /\ pthread_args \in [size : Slots, fd : Slots, prio : Slots, shm : Slots]
    /\ arg \in [Clients -> [size : Slots, fd : Slots, shm : Slots]]
    /\ C \in [Clients -> Contents]
    /\ cancelled \in Seq(Processes)
MainTypeOK ==
    /\ server_on \in BOOLEAN
    /\ mc \in Slots
    /\ server_to_client \in Clients \cup {"uninitialized", "error"}
    /\ list \in Seq(Processes)
    /\ hold \in {"none", "created", "holding", "failed"}

(* The client program keeps every type.                                    *)
LEMMA ClientData ==
    ASSUME NEW c \in Clients, IpcTypeOK, ClientNext(c)
    PROVE  IpcTypeOK'
<1> USE DEF IpcTypeOK, endVars
<1>0. EndsTypeOK /\ c \in Processes /\ Server \in Processes
  BY DEF EndsTypeOK, Processes
<1>1. CASE Setup(c)
  BY <1>0, <1>1 DEF Setup, Contents
<1>2. CASE OpenRequest(c)
  <2>1. EndsTypeOK' /\ alive' \subseteq Processes
    BY <1>0, <1>2, ExitType, OpenWriteType DEF OpenRequest
  <2> QED BY <1>2, <2>1 DEF OpenRequest, EndsTypeOK
<1>3. CASE RequestOpened(c) \/ ReplyOpened(c) \/ Read(c)
  <2>1. EndsTypeOK' /\ alive' \subseteq Processes
    BY <1>0, <1>3, ExitType DEF RequestOpened, ReplyOpened, Read, ipcVars, EndsTypeOK
  <2> QED BY <1>3, <2>1 DEF RequestOpened, ReplyOpened, Read, ipcVars, EndsTypeOK
<1>4. CASE Write(c)
  <2>1. EndsTypeOK' /\ alive' \subseteq Processes
    BY <1>0, <1>4, ExitType DEF Write, EndsTypeOK
  <2>2. pipe' \in Seq(Words)
    <3>1. CASE pipe' = pipe
      BY <3>1
    <3>2. CASE pipe' = pipe \o Request(c)
      BY <3>2, RequestType, ConcatProperties
    <3> QED BY <1>4, <3>1, <3>2 DEF Write
  <2> QED BY <1>4, <2>1, <2>2 DEF Write, EndsTypeOK
<1>5. CASE OpenReply(c)
  <2>1. EndsTypeOK' /\ alive' \subseteq Processes
    BY <1>0, <1>5, OpenReadType, ExitType DEF OpenReply
  <2> QED BY <1>5, <2>1 DEF OpenReply, EndsTypeOK
<1>6. CASE Finish(c) \/ Kill(c)
  <2>1. EndsTypeOK' /\ alive' \subseteq Processes
    BY <1>0, <1>6, ExitType DEF Finish, Kill
  <2> QED BY <1>6, <2>1 DEF Finish, Kill, EndsTypeOK
<1> QED BY <1>1, <1>2, <1>3, <1>4, <1>5, <1>6 DEF ClientNext, ClientStep

LEMMA ClientType ==
    ASSUME NEW c \in Clients, IpcTypeOK, ClientTypeOK, ClientNext(c)
    PROVE  IpcTypeOK' /\ ClientTypeOK'
<1>1. cpc' \in [Clients -> ClientCalls \cup ClientExits]
  BY DEF ClientTypeOK, ClientNext, ClientStep, Setup, OpenRequest,
         RequestOpened, Write, OpenReply, ReplyOpened, Read, Finish, Kill,
         Goto, ClientCalls, ClientExits
<1> QED BY <1>1, ClientData DEF ClientTypeOK

(* One more unread answer in a FIFO, or in none.                           *)
LEMMA CountType ==
    ASSUME NEW r \in [Clients -> Nat], NEW x
    PROVE  [r EXCEPT ![x] = @ + 1] \in [Clients -> Nat]
<1>1. CASE x \in Clients
  BY <1>1
<1>2. CASE x \notin Clients
  BY <1>2
<1> QED BY <1>1, <1>2

(* A reply, or the SIGPIPE that comes instead, keeps the types.            *)
LEMMA AnswerType ==
    ASSUME NEW c \in Clients, NEW next, IpcTypeOK, Answer(c, next)
    PROVE  /\ EndsTypeOK' /\ alive' \subseteq Processes
           /\ replies' \in [Clients -> Nat]
<1> USE DEF IpcTypeOK, EndsTypeOK
<1>1. EndsTypeOK' /\ alive' \subseteq Processes
  BY ExitType DEF Answer, Crash, endVars
<1>2. replies' \in [Clients -> Nat]
  <2>1. \/ replies' = [replies EXCEPT ![arg[c].fd] = @ + 1]
        \/ replies' = replies
    BY DEF Answer, Crash
  <2> QED BY <2>1, CountType
<1> QED BY <1>1, <1>2

(* The worker threads keep every type.                                     *)
LEMMA WorkerData ==
    ASSUME NEW c \in Clients, IpcTypeOK, ArgsTypeOK, WorkerNext(c)
    PROVE  IpcTypeOK' /\ ArgsTypeOK'
<1> USE DEF IpcTypeOK, ArgsTypeOK, endVars
<1>0. EndsTypeOK
  BY DEF EndsTypeOK
<1>1. CASE LoadSize(c) \/ LoadFd(c)
  BY <1>1 DEF LoadSize, LoadFd, Load, ipcVars
<1>2. CASE SetAffinity(c)
  <2>1. EndsTypeOK' /\ alive' \subseteq Processes
    BY <1>0, <1>2, AnswerType, ExitType DEF SetAffinity, EndsTypeOK
  <2>2. \/ Answer(c, "sched")
        \/ replies' = [replies EXCEPT ![arg[c].fd] = @ + 1]
        \/ replies' = replies
    BY <1>2 DEF SetAffinity
  <2>3. [replies EXCEPT ![arg[c].fd] = @ + 1] \in [Clients -> Nat]
    BY CountType
  <2>4. Answer(c, "sched") => replies' \in [Clients -> Nat]
    BY AnswerType
  <2>5. replies' \in [Clients -> Nat]
    BY <2>2, <2>3, <2>4
  <2> QED BY <1>2, <2>1, <2>5 DEF SetAffinity, EndsTypeOK
<1>3. CASE SetScheduler(c) \/ Reply(c)
  <2>1. EndsTypeOK' /\ alive' \subseteq Processes /\ replies' \in [Clients -> Nat]
    BY <1>0, <1>3, AnswerType DEF SetScheduler, Reply, EndsTypeOK
  <2> QED BY <1>3, <2>1 DEF SetScheduler, Reply, EndsTypeOK
<1>4. CASE OpenSegment(c)
  <2>1. arg' \in [Clients -> [size : Slots, fd : Slots, shm : Slots]]
    BY <1>4 DEF OpenSegment, Load
  <2> QED BY <1>4, <2>1 DEF OpenSegment, ipcVars
<1>5. CASE Multiply(c)
  <2>1. EndsTypeOK' /\ alive' \subseteq Processes
    BY <1>0, <1>5, AnswerType, ExitType DEF Multiply, Crash, EndsTypeOK
  <2>2. replies' \in [Clients -> Nat]
    BY <1>0, <1>5, AnswerType DEF Multiply, Crash
  <2>3. C' \in [Clients -> Contents]
    BY <1>5 DEF Multiply, Outcomes, Contents
  <2> QED BY <1>5, <2>1, <2>2, <2>3 DEF Multiply, EndsTypeOK
<1>6. CASE WriteBack(c) \/ StopInPrintf(c)
  BY <1>6 DEF WriteBack, StopInPrintf, ipcVars
<1> QED BY <1>1, <1>2, <1>3, <1>4, <1>5, <1>6 DEF WorkerNext

LEMMA WorkerType ==
    ASSUME NEW c \in Clients, IpcTypeOK, WorkerTypeOK, WorkerNext(c)
    PROVE  IpcTypeOK' /\ WorkerTypeOK'
<1>1. wpc' \in [Clients -> WorkerSteps]
  BY DEF WorkerTypeOK, WorkerNext, LoadSize, LoadFd, SetAffinity, SetScheduler,
         OpenSegment, Multiply, WriteBack, Reply, StopInPrintf, Answer, Crash,
         Advance, WorkerSteps
<1> QED BY <1>1, WorkerData DEF WorkerTypeOK, ArgsTypeOK

(* The main thread, the hold thread and the handler keep every type, given *)
(* that the slot is filled for a client and with its descriptor.           *)
LEMMA ServerData ==
    ASSUME IpcTypeOK, ArgsTypeOK, MainTypeOK, RequestInHand, ServerNext
    PROVE  IpcTypeOK' /\ ArgsTypeOK' /\ MainTypeOK'
<1> USE DEF IpcTypeOK, MainTypeOK, FillSteps, endVars, workerVars
<1>0. EndsTypeOK /\ Server \in Processes
  BY DEF EndsTypeOK, Processes
<1>1. CASE Start
  <2>1. EndsTypeOK' /\ alive' \subseteq Processes
    BY <1>0, <1>1, ExitType DEF Start, EndsTypeOK
  <2> QED BY <1>0, <1>1, <2>1 DEF Start, EndsTypeOK, ArgsTypeOK
<1>2. CASE ServerOpenRequest
  <2>1. EndsTypeOK' /\ alive' \subseteq Processes
    BY <1>0, <1>2, OpenReadType, ExitType DEF ServerOpenRequest
  <2> QED BY <1>2, <2>1 DEF ServerOpenRequest, EndsTypeOK, ArgsTypeOK
<1>3. CASE CreateHold
  <2>1. EndsTypeOK' /\ alive' \subseteq Processes
    BY <1>0, <1>3, ExitType DEF CreateHold, EndsTypeOK
  <2>2. list' \in Seq(Processes)
    <3>1. Append(list, Server) \in Seq(Processes)
      BY <1>0, AppendProperties
    <3> QED BY <1>3, <3>1 DEF CreateHold
  <2> QED BY <1>3, <2>1, <2>2 DEF CreateHold, EndsTypeOK, ArgsTypeOK
<1>4. CASE HoldFifoOpen
  <2>1. EndsTypeOK'
    BY <1>0, <1>4, OpenWriteType DEF HoldFifoOpen, EndsTypeOK
  <2> QED BY <1>4, <2>1 DEF HoldFifoOpen, EndsTypeOK, ArgsTypeOK
<1>5. CASE While
  BY <1>5 DEF While, ipcVars, ArgsTypeOK
<1>6. CASE ServerRead
  <2>1. EndsTypeOK' /\ alive' \subseteq Processes
    BY <1>0, <1>6, ExitType DEF ServerRead, EndsTypeOK
  <2>2. pipe' \in Seq(Words) /\ mc' \in Slots
    <3>1. CASE UNCHANGED <<pipe, mc>>
      BY <3>1
    <3>2. CASE /\ pipe # <<>>
               /\ mc' = IF Head(pipe)[2] = 1 THEN Head(pipe)[1] ELSE NoClient
               /\ pipe' = SubSeq(pipe, ReadWords + 1, Len(pipe))
      <4>1. Head(pipe) \in Words
        BY <3>2, HeadTailProperties
      <4>2. mc' \in Slots
        BY <3>2, <4>1 DEF Words, Slots
      <4>3. SubSeq(pipe, ReadWords + 1, Len(pipe)) \in Seq(Words)
        BY SubSeqProperties, LenProperties, ElementOfSeq, ReadCoversRequest
      <4> QED BY <3>2, <4>2, <4>3
    <3> QED BY <1>6, <3>1, <3>2 DEF ServerRead
  <2> QED BY <1>6, <2>1, <2>2 DEF ServerRead, EndsTypeOK, ArgsTypeOK
<1>7. CASE ServerOpenReply
  <2>1. EndsTypeOK'
    <3>1. CASE UNCHANGED endVars
      BY <1>0, <3>1 DEF EndsTypeOK
    <3>2. CASE mc \in paths /\ OpenWrite(Server, mc)
      BY <1>0, <3>2, OpenWriteType
    <3> QED BY <1>7, <3>1, <3>2 DEF ServerOpenReply
  <2> QED BY <1>7, <2>1 DEF ServerOpenReply, EndsTypeOK, ArgsTypeOK
<1>8. CASE ServerReplyOpened
  BY <1>8 DEF ServerReplyOpened, Before, RequestInHand, ipcVars, ArgsTypeOK
<1>9. CASE FillSize \/ FillFd \/ FillPriority \/ CopyName \/ NameCopied
  <2>1. PICK call \in FillSteps, field \in {"size", "fd", "prio", "shm"},
             value \in Slots, next \in FillSteps :
                Store(call, field, value, next)
    BY <1>9 DEF FillSize, FillFd, FillPriority, CopyName, NameCopied, Store,
                RequestInHand, Before, Slots
  <2>2. pthread_args' \in [size : Slots, fd : Slots, prio : Slots, shm : Slots]
    BY <2>1 DEF Store, ArgsTypeOK
  <2> QED BY <2>1, <2>2 DEF Store, ipcVars, ArgsTypeOK
<1>10. CASE SpawnWorker
  <2>0. mc \in Clients
    BY <1>10 DEF SpawnWorker, Before, RequestInHand
  <2>1. EndsTypeOK' /\ alive' \subseteq Processes
    BY <1>0, <1>10, ExitType DEF SpawnWorker, EndsTypeOK
  <2>2. list' \in Seq(Processes)
    <3>1. mc \in Processes
      BY <2>0 DEF Processes
    <3>2. Append(list, mc) \in Seq(Processes)
      BY <3>1, AppendProperties
    <3> QED BY <1>10, <3>2 DEF SpawnWorker
  <2>3. mc' \in Slots
    BY <1>10 DEF SpawnWorker, Slots
  <2> QED BY <1>10, <2>1, <2>2, <2>3 DEF SpawnWorker, EndsTypeOK, ArgsTypeOK
<1>11. CASE CancelThreads
  BY <1>11 DEF CancelThreads, ipcVars, ArgsTypeOK
<1>12. CASE SleepInRead \/ CloseRequest \/ CloseReply \/ UnlinkRequest \/ Return
  <2>1. EndsTypeOK' /\ alive' \subseteq Processes
    BY <1>0, <1>12, ExitType, CloseType
       DEF SleepInRead, CloseRequest, CloseReply, UnlinkRequest, Return,
           EndsTypeOK, ipcVars
  <2> QED
    BY <1>12, <2>1 DEF SleepInRead, CloseRequest, CloseReply, UnlinkRequest,
                       Return, EndsTypeOK, ArgsTypeOK, ipcVars
<1>13. CASE Sigint
  <2>1. EndsTypeOK' /\ alive' \subseteq Processes
    BY <1>0, <1>13, CloseType DEF Sigint, EndsTypeOK
  <2> QED BY <1>13, <2>1 DEF Sigint, EndsTypeOK, ArgsTypeOK
<1> QED
  BY <1>1, <1>2, <1>3, <1>4, <1>5, <1>6, <1>7, <1>8, <1>9, <1>10, <1>11,
     <1>12, <1>13 DEF ServerNext, MainStep

LEMMA ServerType ==
    ASSUME IpcTypeOK, WorkerTypeOK, ServerTypeOK, RequestInHand, ServerNext
    PROVE  IpcTypeOK' /\ WorkerTypeOK' /\ ServerTypeOK'
<1>1. IpcTypeOK' /\ ArgsTypeOK' /\ MainTypeOK'
  BY ServerData DEF WorkerTypeOK, ArgsTypeOK, ServerTypeOK, MainTypeOK
<1>2. wpc' \in [Clients -> WorkerSteps]
  BY DEF WorkerTypeOK, ServerNext, MainStep, Start, ServerOpenRequest,
         CreateHold, While, ServerRead, ServerOpenReply, ServerReplyOpened,
         FillSize, FillFd, FillPriority, CopyName, NameCopied, Store,
         SpawnWorker, SleepInRead, CancelThreads, CloseRequest, CloseReply,
         UnlinkRequest, Return, HoldFifoOpen, Sigint,
         Advance, WorkerSteps, workerVars
<1>3. spc' \in ServerCalls \cup ServerExits
  BY DEF ServerTypeOK, ServerNext, MainStep, Start, ServerOpenRequest,
         CreateHold, While, ServerRead, ServerOpenReply, ServerReplyOpened,
         FillSize, FillFd, FillPriority, CopyName, NameCopied, Store,
         SpawnWorker, SleepInRead, CancelThreads, CloseRequest, CloseReply,
         UnlinkRequest, Return, HoldFifoOpen, Sigint,
         ServerCalls, ServerExits, FillSteps
<1> QED
  BY <1>1, <1>2, <1>3 DEF WorkerTypeOK, ArgsTypeOK, ServerTypeOK, MainTypeOK

(* The request in hand stays in hand.                                      *)
LEMMA HandStep ==
    ASSUME TypeOK, RequestInHand, [Next]_vars
    PROVE  RequestInHand'
<1> USE DEF RequestInHand, FillSteps
<1>1. CASE Main
  <2>1. CASE ServerOpenReply
    <3>1. mc \in paths => mc \in Clients
      BY ProcessesAreDistinct DEF TypeOK, IpcTypeOK, ServerTypeOK, Slots, Processes
    <3> QED BY <2>1, <3>1 DEF ServerOpenReply
  <2>2. CASE FillSize \/ FillFd \/ FillPriority \/ CopyName \/ NameCopied
    BY <2>2 DEF FillSize, FillFd, FillPriority, CopyName, NameCopied, Store, Before
  <2>3. CASE SpawnWorker
    BY <2>3 DEF SpawnWorker, Before
  <2>4. CASE ServerReplyOpened
    BY <2>4 DEF ServerReplyOpened, Before
  <2> QED
    BY <1>1, <2>1, <2>2, <2>3, <2>4
       DEF Main, MainStep, Start, ServerOpenRequest, CreateHold, While,
           SleepInRead, ServerRead, CancelThreads, CloseRequest, CloseReply,
           UnlinkRequest, Return
<1>2. CASE Interrupt
  BY <1>2 DEF Interrupt, Sigint, SleepsIn
<1>3. CASE Hold
  BY <1>3 DEF Hold, HoldFifoOpen
<1>4. CASE \E c \in Clients : Client(c) \/ User(c) \/ Worker(c)
  BY <1>4 DEF Client, User, Worker, serverVars
<1>5. CASE UNCHANGED vars
  BY <1>5 DEF vars, serverVars
<1> QED BY <1>1, <1>2, <1>3, <1>4, <1>5 DEF Next

LEMMA TypeInit == Init => TypeOK /\ RequestInHand
<1> SUFFICES ASSUME Init PROVE TypeOK /\ RequestInHand
  OBVIOUS
<1> USE DEF Init
<1>1. IpcTypeOK
  BY StaleAreFifos, EmptySeq DEF IpcInit, IpcTypeOK, Processes, Contents
<1>2. ClientTypeOK
  BY DEF ClientInit, ClientTypeOK, ClientCalls
<1>3. WorkerTypeOK
  BY EmptySeq DEF WorkerInit, WorkerTypeOK, NothingLoaded, Slots, WorkerSteps, Contents
<1>4. ServerTypeOK /\ RequestInHand
  BY EmptySeq DEF ServerInit, ServerTypeOK, ServerCalls, Slots, RequestInHand, FillSteps
<1> QED BY <1>1, <1>2, <1>3, <1>4 DEF TypeOK

LEMMA TypeStep ==
    ASSUME TypeOK, RequestInHand, [Next]_vars
    PROVE  TypeOK'
<1> USE DEF TypeOK
<1>1. CASE Main \/ Hold \/ Interrupt
  <2>1. ServerNext /\ UNCHANGED cpc
    BY <1>1 DEF Main, Hold, Interrupt, ServerNext
  <2> QED BY <2>1, ServerType DEF ClientTypeOK
<1>2. ASSUME NEW c \in Clients, Client(c) \/ User(c)
      PROVE  TypeOK'
  <2>1. ClientNext(c) /\ UNCHANGED <<workerVars, serverVars>>
    BY <1>2 DEF Client, User, ClientNext
  <2> QED BY <2>1, ClientType DEF WorkerTypeOK, ServerTypeOK, workerVars, serverVars
<1>3. ASSUME NEW c \in Clients, Worker(c)
      PROVE  TypeOK'
  <2>1. WorkerNext(c) /\ UNCHANGED <<cpc, serverVars>>
    BY <1>3 DEF Worker
  <2> QED BY <2>1, WorkerType DEF ClientTypeOK, ServerTypeOK, serverVars
<1>4. CASE UNCHANGED vars
  BY <1>4 DEF vars, ipcVars, workerVars, serverVars, IpcTypeOK, ClientTypeOK,
              WorkerTypeOK, ServerTypeOK
<1> QED BY <1>1, <1>2, <1>3, <1>4 DEF Next

(* Every variable keeps its type, and the main thread fills the slot for a *)
(* request it has in hand, in every reachable state (all modules).         *)
THEOREM TypeCorrect == Spec => [](TypeOK /\ RequestInHand)
<1>1. TypeOK /\ RequestInHand /\ [Next]_vars => (TypeOK /\ RequestInHand)'
  BY TypeStep, HandStep
<1> QED BY TypeInit, <1>1, PTL DEF Spec

-----------------------------------------------------------------------------
(* What the lemmas about one call need of the types; it also holds of the  *)
(* programs of cgroup_implementation, which have more calls.               *)
Shape == /\ IpcTypeOK
         /\ DOMAIN cpc = Clients /\ DOMAIN wpc = Clients
         /\ mc \in Slots /\ list \in Seq(Processes) /\ cancelled \in Seq(Processes)

LEMMA TypeShape == TypeOK => Shape
  BY DEF TypeOK, ClientTypeOK, WorkerTypeOK, ServerTypeOK, Shape

(* The threads created, in order, when nothing is cancelled yet.           *)
LEMMA StartedIsList ==
    ASSUME Shape
    PROVE  /\ Started \in Seq(Processes)
           /\ cancelled = <<>> => Started = list
<1>1. cancelled \in Seq(Processes) /\ list \in Seq(Processes)
  BY DEF Shape
<1>2. Started \in Seq(Processes)
  BY <1>1, ConcatProperties DEF Started
<1>3. <<>> \o list = list
  BY <1>1, ConcatEmptySeq
<1> QED BY <1>2, <1>3 DEF Started

(* A step that touches neither the slot, the workers nor the list.         *)
LEMMA QuietStep ==
    ASSUME SlotInv, RequestInHand', ListIsEmptyFirst', CancelIsLast',
           UNCHANGED <<pthread_args, wpc, arg, cancelled, list>>,
           Storing => Storing' /\ mc' = mc,
           Stored' = {} \/ (Stored' = Stored /\ mc' = mc)
    PROVE  SlotInv'
<1> USE DEF SlotInv
<1>1. Started' = Started /\ Newest' = Newest
  BY DEF Started, Newest
<1>2. StoredIsInHand'
  BY DEF StoredIsInHand
<1>3. SlotIsNewest'
  BY <1>1 DEF SlotIsNewest
<1>4. WorkersAreStarted'
  BY <1>1 DEF WorkersAreStarted
<1>5. ForwardOnly'
  BY <1>1 DEF ForwardOnly, Later, After
<1> QED BY <1>2, <1>3, <1>4, <1>5

(* A worker loads a field of the slot, or moves on without.                *)
LEMMA LoadStep ==
    ASSUME TypeOK, SlotInv, RequestInHand',
           NEW c \in Clients, wpc[c] # "none", wpc'[c] # "none",
           \A d \in Clients \ {c} : wpc'[d] = wpc[d] /\ arg'[d] = arg[d],
           UNCHANGED <<pthread_args, cancelled, list, spc, mc>>,
           \A field \in SlotFields :
              arg'[c][field] \in {arg[c][field], pthread_args[field]}
    PROVE  SlotInv'
<1> USE DEF SlotInv
<1>1. Started' = Started /\ Newest' = Newest /\ Stored' = Stored
      /\ (Storing' <=> Storing)
  BY DEF Started, Newest, Stored, Storing
<1>2. ListIsEmptyFirst' /\ CancelIsLast' /\ StoredIsInHand' /\ SlotIsNewest'
  BY <1>1 DEF ListIsEmptyFirst, CancelIsLast, StoredIsInHand, SlotIsNewest
<1>3. WorkersAreStarted'
  BY <1>1 DEF WorkersAreStarted
<1>4. ASSUME NEW field \in SlotFields
      PROVE  pthread_args[field] \in {NoClient, c} \/ Later(c, pthread_args[field])
  <2>1. CASE pthread_args[field] = NoClient \/ (Storing /\ pthread_args[field] = mc)
    BY <2>1 DEF Later
  <2>2. CASE pthread_args[field] = Newest /\ Started # <<>>
    <3>1. PICK i \in DOMAIN Started : Started[i] = c
      BY DEF WorkersAreStarted
    <3>2. Started \in Seq(Processes) /\ Len(Started) \in Nat
          /\ DOMAIN Started = 1 .. Len(Started)
      BY TypeShape, StartedIsList, LenProperties
    <3>3. CASE i = Len(Started)
      BY <2>2, <3>1, <3>3 DEF Newest
    <3>4. CASE i < Len(Started)
      <4>1. Len(Started) \in DOMAIN Started /\ Started[Len(Started)] = pthread_args[field]
        BY <2>2, <3>1, <3>2, <3>4 DEF Newest
      <4> QED BY <3>1, <3>4, <4>1 DEF Later, After
    <3> QED BY <3>1, <3>2, <3>3, <3>4
  <2>3. CASE pthread_args[field] = Newest /\ Started = <<>>
    BY <2>3 DEF Newest
  <2> QED BY <2>1, <2>2, <2>3 DEF SlotIsNewest
<1>5. ForwardOnly'
  <2>1. \A d, e \in Slots : Later(d, e)' <=> Later(d, e)
    BY <1>1 DEF Later, After
  <2> SUFFICES ASSUME NEW d \in Clients, NEW field \in SlotFields
               PROVE  (arg[d][field] \in {NoClient, d} \/ Later(d, arg[d][field]))'
    BY DEF ForwardOnly
  <2>2. CASE d # c
    BY <1>1, <2>2 DEF ForwardOnly, Later, After
  <2>3. CASE d = c /\ arg'[c][field] = arg[c][field]
    BY <1>1, <2>3 DEF ForwardOnly, Later, After
  <2>4. CASE d = c /\ arg'[c][field] = pthread_args[field]
    BY <1>1, <1>4, <2>4 DEF Later, After
  <2> QED BY <2>2, <2>3, <2>4
<1> QED BY <1>2, <1>3, <1>5

(* The main thread stores a field.                                         *)
LEMMA StoreStep ==
    ASSUME TypeOK, SlotInv, RequestInHand',
           FillSize \/ FillFd \/ FillPriority \/ CopyName \/ NameCopied
    PROVE  SlotInv'
<1> USE DEF SlotInv, FillSize, FillFd, FillPriority, CopyName, NameCopied, Store, Before
<1>1. Storing /\ Storing' /\ mc' = mc /\ UNCHANGED <<wpc, arg, cancelled, list>>
  BY DEF Storing, FillSteps
<1>2. Started' = Started /\ Newest' = Newest
  BY <1>1 DEF Started, Newest
<1>3. spc \in FillSteps /\ server_to_client = mc
  BY DEF FillSteps, RequestInHand
<1>4. CancelIsLast' /\ ListIsEmptyFirst'
  BY <1>1, <1>3 DEF CancelIsLast, ClosingDown, ListIsEmptyFirst, FillSteps
<1>5. \A field \in SlotFields : pthread_args'[field] \in {pthread_args[field], mc, NoClient}
  BY <1>3 DEF SlotFields, TypeOK, WorkerTypeOK
<1>6. StoredIsInHand'
  BY <1>1, <1>3 DEF StoredIsInHand, Stored, SlotFields, TypeOK, WorkerTypeOK
<1>7. SlotIsNewest'
  BY <1>1, <1>2, <1>5 DEF SlotIsNewest
<1>8. WorkersAreStarted'
  BY <1>1, <1>2 DEF WorkersAreStarted
<1>9. ForwardOnly'
  BY <1>1, <1>2 DEF ForwardOnly, Later, After
<1> QED BY <1>4, <1>6, <1>7, <1>8, <1>9

(* pthread_create and list_add: the request in hand becomes the newest.    *)
LEMMA SpawnStep ==
    ASSUME TypeOK, SlotInv, RequestInHand', SpawnWorker
    PROVE  SlotInv'
<1> USE DEF SlotInv
<1>1. CASE spc' = "BAD_THREAD"
  <2>1. UNCHANGED <<pthread_args, wpc, arg, cancelled, list, mc>> /\ spc = "spawn"
    BY <1>1 DEF SpawnWorker, Before
  <2>2. Storing' /\ Stored' = {} /\ CancelIsLast' /\ ListIsEmptyFirst'
    BY <1>1, <2>1 DEF Storing, Stored, CancelIsLast, ClosingDown,
                      ListIsEmptyFirst
  <2> QED BY <2>1, <2>2, QuietStep
<1>2. CASE /\ Advance(mc, "size")
           /\ list' = Append(list, mc)
           /\ mc' = NoClient
           /\ spc' = "while"
  <2>1. /\ spc = "spawn" /\ mc \in Clients /\ cancelled = <<>>
        /\ UNCHANGED <<pthread_args, arg, cancelled>>
    BY <1>2 DEF SpawnWorker, Before, RequestInHand, FillSteps, CancelIsLast, ClosingDown
  <2>2. Started = list /\ list \in Seq(Processes) /\ Len(list) \in Nat
    BY <2>1, TypeShape, StartedIsList, LenProperties DEF TypeOK, ServerTypeOK
  <2>3. mc \in Processes
    BY <2>1 DEF Processes
  <2>4. list' \in Seq(Processes) /\ Len(list') = Len(list) + 1
        /\ list'[Len(list) + 1] = mc
        /\ \A i \in 1 .. Len(list) : list'[i] = list[i]
    BY <1>2, <2>2, <2>3, AppendProperties
  <2>5. Started' = list'
    BY <2>1, <2>4, ConcatEmptySeq DEF Started
  <2>6. DOMAIN Started = 1 .. Len(list) /\ DOMAIN Started' = 1 .. (Len(list) + 1)
    BY <2>2, <2>4, <2>5, LenProperties
  <2>7. \A field \in SlotFields : pthread_args[field] = mc
    BY <2>1 DEF StoredIsInHand, Stored
  <2>8. Newest' = mc
    BY <2>2, <2>4, <2>5 DEF Newest
  <2>9. /\ ListIsEmptyFirst' /\ CancelIsLast'
        /\ StoredIsInHand' /\ SlotIsNewest'
    BY <1>2, <2>1, <2>7, <2>8
       DEF ListIsEmptyFirst, CancelIsLast, StoredIsInHand, Stored, SlotIsNewest
  <2>10. \A d : (\E i \in DOMAIN Started : Started[i] = d)
                   => \E i \in 1 .. Len(list) : Started'[i] = d
    BY <2>2, <2>4, <2>5, <2>6
  <2>11. WorkersAreStarted'
    <3> SUFFICES ASSUME NEW c \in Clients
                 PROVE  IF wpc'[c] = "none" THEN arg'[c] = NothingLoaded
                        ELSE \E i \in DOMAIN Started' : Started'[i] = c
      BY DEF WorkersAreStarted
    <3>1. CASE c = mc
      <4>1. wpc'[c] = "size"
        BY <1>2, <2>1, <3>1 DEF Advance, TypeOK, WorkerTypeOK
      <4>2. Len(list) + 1 \in DOMAIN Started' /\ Started'[Len(list) + 1] = c
        BY <2>2, <2>4, <2>5, <2>6, <3>1
      <4> QED BY <4>1, <4>2
    <3>2. CASE c # mc
      <4>1. wpc'[c] = wpc[c] /\ arg'[c] = arg[c]
        BY <1>2, <2>1, <3>2 DEF Advance, TypeOK, WorkerTypeOK
      <4> QED BY <2>2, <2>6, <2>10, <4>1 DEF WorkersAreStarted
    <3> QED BY <3>1, <3>2
  <2>12. ASSUME NEW c \in Clients, NEW field \in SlotFields
         PROVE  arg[c][field] \in {NoClient, c} \/ After(c, arg[c][field])'
    <3>1. CASE arg[c][field] \in {NoClient, c}
      BY <3>1
    <3>2. CASE After(c, arg[c][field])
      <4>1. PICK i, j \in DOMAIN Started :
                   i < j /\ Started[i] = c /\ Started[j] = arg[c][field]
        BY <3>2 DEF After
      <4>2. /\ i \in DOMAIN Started' /\ Started'[i] = c
            /\ j \in DOMAIN Started' /\ Started'[j] = arg[c][field]
        BY <2>2, <2>4, <2>5, <2>6, <4>1
      <4> QED BY <2>1, <4>1, <4>2 DEF After
    <3>3. CASE arg[c][field] = mc /\ mc # NoClient
      <4>0. NothingLoaded[field] = NoClient
        BY DEF NothingLoaded, SlotFields
      <4>1. wpc[c] # "none"
        BY <3>3, <4>0 DEF WorkersAreStarted
      <4>2. PICK i \in 1 .. Len(list) : Started'[i] = c
        BY <2>10, <4>1 DEF WorkersAreStarted
      <4>3. i < Len(list) + 1 /\ Len(list) + 1 \in DOMAIN Started'
            /\ i \in DOMAIN Started' /\ Started'[Len(list) + 1] = mc
        BY <2>2, <2>4, <2>5, <2>6
      <4> QED BY <2>1, <3>3, <4>2, <4>3 DEF After
    <3> QED BY <3>1, <3>2, <3>3 DEF ForwardOnly, Later
  <2>13. ForwardOnly'
    BY <2>1, <2>12 DEF ForwardOnly, Later
  <2> QED BY <2>9, <2>11, <2>13
<1> QED BY <1>1, <1>2 DEF SpawnWorker

(* The hold thread is created before any worker.                           *)
LEMMA HoldStep ==
    ASSUME TypeOK, SlotInv, RequestInHand', CreateHold
    PROVE  SlotInv'
<1> USE DEF SlotInv
<1>1. /\ spc = "inOpenRequest" /\ list = <<>> /\ cancelled = <<>>
      /\ UNCHANGED <<pthread_args, wpc, arg, cancelled, mc>>
  BY DEF CreateHold, Before, ListIsEmptyFirst, CancelIsLast, ClosingDown, workerVars
<1>2. Started = <<>> /\ Newest = NoClient /\ ~Storing /\ DOMAIN Started = {}
  BY <1>1, TypeShape, StartedIsList DEF Newest, Storing, FillSteps
<1>3. spc' \in {"while", "BAD_THREAD"}
  BY DEF CreateHold
<1>4. ListIsEmptyFirst' /\ CancelIsLast' /\ Stored' = {}
  BY <1>1, <1>3 DEF ListIsEmptyFirst, CancelIsLast, Stored
<1>5. StoredIsInHand'
  BY <1>4 DEF StoredIsInHand
<1>6. SlotIsNewest'
  BY <1>1, <1>2 DEF SlotIsNewest
<1>7. \A c \in Clients : wpc[c] = "none" /\ arg[c] = NothingLoaded
  BY <1>2 DEF WorkersAreStarted
<1>8. WorkersAreStarted'
  BY <1>1, <1>7 DEF WorkersAreStarted
<1>9. ForwardOnly'
  BY <1>1, <1>7 DEF ForwardOnly, NothingLoaded, SlotFields
<1> QED BY <1>4, <1>5, <1>6, <1>8, <1>9

(* The list moves to the cancelled threads, in the same order.             *)
LEMMA CancelStep ==
    ASSUME TypeOK, SlotInv, RequestInHand', CancelThreads
    PROVE  SlotInv'
<1> USE DEF SlotInv, CancelThreads, Before
<1>1. cancelled = <<>>
  BY DEF CancelIsLast, ClosingDown
<1>2. Started' = Started
  <2>1. list \in Seq(Processes)
    BY DEF TypeOK, ServerTypeOK
  <2>2. list \o <<>> = list
    BY <2>1, ConcatEmptySeq
  <2> QED BY <1>1, <2>2, TypeShape, StartedIsList DEF Started
<1>3. Newest' = Newest /\ ~Storing /\ Stored' = {} /\ UNCHANGED <<pthread_args, wpc, arg>>
  BY <1>2 DEF Newest, Storing, Stored, FillSteps
<1>4. ListIsEmptyFirst' /\ CancelIsLast' /\ StoredIsInHand' /\ SlotIsNewest'
  BY <1>3 DEF ListIsEmptyFirst, CancelIsLast, ClosingDown, StoredIsInHand,
              SlotIsNewest
<1>5. WorkersAreStarted'
  BY <1>2, <1>3 DEF WorkersAreStarted
<1>6. ForwardOnly'
  BY <1>2, <1>3 DEF ForwardOnly, Later, After
<1> QED BY <1>4, <1>5, <1>6

(* Every step of a worker is a load of at most one field, or none.         *)
LEMMA WorkerStep ==
    ASSUME TypeOK, SlotInv, RequestInHand', NEW c \in Clients, Worker(c)
    PROVE  SlotInv'
<1>1. wpc[c] # "none" /\ UNCHANGED <<pthread_args, cancelled, list, spc, mc>>
  BY DEF Worker, WorkerNext, LoadSize, LoadFd, SetAffinity, SetScheduler,
         OpenSegment, Multiply, WriteBack, Reply, StopInPrintf, At, serverVars
<1>2. wpc'[c] # "none" /\ \A d \in Clients \ {c} : wpc'[d] = wpc[d]
  BY <1>1 DEF Worker, WorkerNext, LoadSize, LoadFd, SetAffinity, SetScheduler,
         OpenSegment, Multiply, WriteBack, Reply, StopInPrintf, Answer, Crash,
         Advance, TypeOK, WorkerTypeOK
<1>3. \/ \E field \in SlotFields : Load(c, field, pthread_args[field])
      \/ arg' = arg
  BY DEF Worker, WorkerNext, LoadSize, LoadFd, SetAffinity, SetScheduler,
         OpenSegment, Multiply, WriteBack, Reply, StopInPrintf, SlotFields
<1>4. /\ \A d \in Clients \ {c} : arg'[d] = arg[d]
      /\ \A field \in SlotFields :
            arg'[c][field] \in {arg[c][field], pthread_args[field]}
  BY <1>3 DEF Load, TypeOK, WorkerTypeOK, SlotFields
<1> QED BY <1>1, <1>2, <1>4, LoadStep

(* The other steps of the main thread move from call to call.              *)
LEMMA MainQuiet ==
    ASSUME TypeOK, SlotInv, RequestInHand',
           \/ Start \/ ServerOpenRequest \/ While \/ ServerRead
           \/ ServerOpenReply \/ ServerReplyOpened \/ SleepInRead
           \/ CloseRequest \/ CloseReply \/ UnlinkRequest \/ Return
    PROVE  SlotInv'
<1> USE DEF SlotInv, Start, ServerOpenRequest, While, ServerRead,
            ServerOpenReply, ServerReplyOpened, SleepInRead, CloseRequest,
            CloseReply, UnlinkRequest, Return, Before, workerVars
<1>1. UNCHANGED <<pthread_args, wpc, arg, cancelled, list>>
  OBVIOUS
<1>2. ~Storing
  BY DEF Storing, FillSteps
<1>3. Stored' = {}
  BY DEF Stored
<1>4. ListIsEmptyFirst' /\ CancelIsLast'
  BY DEF ListIsEmptyFirst, CancelIsLast, ClosingDown
<1> QED BY <1>1, <1>2, <1>3, <1>4, QuietStep

LEMMA SlotStep ==
    ASSUME TypeOK, SlotInv, [Next]_vars
    PROVE  SlotInv'
<1>0. RequestInHand /\ RequestInHand'
  BY HandStep DEF SlotInv
<1>1. CASE Main
  BY <1>0, <1>1, MainQuiet, StoreStep, SpawnStep, HoldStep, CancelStep
     DEF Main, MainStep
<1>2. CASE Interrupt
  <2>1. UNCHANGED <<pthread_args, wpc, arg, cancelled, list, mc>>
    BY <1>2 DEF Interrupt, Sigint, workerVars
  <2>2. Storing => spc' = spc
    BY <1>2 DEF Interrupt, Sigint, Storing, FillSteps, SleepsIn, SleepsInRead
  <2>3. \/ spc' = spc
        \/ spc \in {"inRead", "inOpenReply"} /\ spc' = "cancel"
        \/ spc = "inOpenRequest" /\ spc' = "unlink"
    BY <1>2 DEF Interrupt, Sigint, SleepsIn, SleepsInRead
  <2>4. Stored' = {} \/ Stored' = Stored
    BY <2>3 DEF Stored
  <2>5. ListIsEmptyFirst' /\ CancelIsLast'
    BY <2>1, <2>3 DEF SlotInv, ListIsEmptyFirst, CancelIsLast, ClosingDown
  <2>6. Storing => Storing'
    BY <2>2 DEF Storing
  <2> QED BY <1>0, <2>1, <2>4, <2>5, <2>6, QuietStep
<1>3. ASSUME NEW c \in Clients, Worker(c)
      PROVE  SlotInv'
  BY <1>0, <1>3, WorkerStep
<1>4. CASE Hold \/ (\E c \in Clients : Client(c) \/ User(c)) \/ UNCHANGED vars
  <2>1. UNCHANGED <<pthread_args, wpc, arg, cancelled, list, spc, mc>>
    BY <1>4 DEF Hold, HoldFifoOpen, Client, User, vars, workerVars, serverVars
  <2>2. Stored' = Stored /\ (Storing => Storing')
    BY <2>1 DEF Stored, Storing
  <2>3. ListIsEmptyFirst' /\ CancelIsLast'
    BY <2>1 DEF SlotInv, ListIsEmptyFirst, CancelIsLast
  <2> QED BY <1>0, <2>1, <2>2, <2>3, QuietStep
<1> QED BY <1>1, <1>2, <1>3, <1>4 DEF Next

LEMMA SlotInit == Init => SlotInv
<1> SUFFICES ASSUME Init PROVE SlotInv
  OBVIOUS
<1>1. /\ spc = "mkfifo" /\ list = <<>> /\ cancelled = <<>>
      /\ \A field \in SlotFields : pthread_args[field] = NoClient
      /\ \A c \in Clients : wpc[c] = "none" /\ arg[c] = NothingLoaded
  BY DEF Init, ServerInit, WorkerInit, SlotFields
<1>2. RequestInHand
  BY TypeInit
<1>3. ListIsEmptyFirst /\ CancelIsLast /\ SlotIsNewest /\ WorkersAreStarted
  BY <1>1 DEF ListIsEmptyFirst, CancelIsLast, SlotIsNewest, WorkersAreStarted
<1>4. StoredIsInHand
  BY <1>1 DEF StoredIsInHand, Stored
<1>5. ForwardOnly
  BY <1>1 DEF ForwardOnly, NothingLoaded, SlotFields
<1> QED BY <1>2, <1>3, <1>4, <1>5 DEF SlotInv

(* The inductive invariant of the slot pthread_args holds in every         *)
(* reachable state (server_fifo.c fills the slot, dense_mm.c loads it).    *)
THEOREM SlotCorrect == Spec => []SlotInv
<1>1. TypeOK /\ SlotInv /\ [Next]_vars => (TypeOK /\ SlotInv)'
  BY TypeStep, SlotStep DEF SlotInv
<1>2. Init => TypeOK /\ SlotInv
  BY TypeInit, SlotInit
<1> QED BY <1>1, <1>2, PTL DEF Spec

(* A worker never acts on the descriptor, the size or the segment of a     *)
(* request accepted before its own (the race in server_fifo.c's loop).     *)
THEOREM RaceGoesForward == Spec => []ForwardOnly
<1>1. SlotInv => ForwardOnly
  BY DEF SlotInv
<1> QED BY SlotCorrect, <1>1, PTL
=============================================================================
