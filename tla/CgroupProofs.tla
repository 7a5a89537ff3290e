---------------------------- MODULE CgroupProofs ----------------------------
(***************************************************************************)
(* cgroup_implementation: its reads stay in frame, for any number of       *)
(* clients and any length of a request, because both programs have one     *)
(* structure there; and the inductive invariant CgroupInv, which takes the *)
(* invariants of the slot, the requests and the reply FIFOs over from      *)
(* fifo_threaded and adds the fourth field of the slot, the cgroup the     *)
(* server is in, and the count of answers.                                 *)
(***************************************************************************)
EXTENDS CgroupService, RequestProofs, FiniteSetTheorems

(* Requests lie whole in the FIFO, one behind the other.                   *)
WholeRequests ==
    \A i \in DOMAIN pipe : pipe[i][2] = 1 =>
        /\ i + MsgWords - 1 \in DOMAIN pipe
        /\ i + MsgWords \in DOMAIN pipe => pipe[i + MsgWords][2] = 1
FramedInv == WholeRequests /\ (DOMAIN pipe # {} => pipe[1][2] = 1)

LEMMA FramedWrite ==
    ASSUME pipe \in Seq(Words), FramedInv, NEW c \in Clients, pipe' = pipe \o Request(c)
    PROVE  FramedInv'
<1>1. /\ pipe \in Seq(Words) /\ Request(c) \in Seq(Words)
      /\ Len(pipe) \in Nat /\ Len(Request(c)) = MsgWords
      /\ DOMAIN pipe = 1 .. Len(pipe) /\ MsgWords \in Nat /\ MsgWords > 0
      /\ \A k \in 1 .. MsgWords : Request(c)[k][2] = k
  BY RequestType, RequestIsNotEmpty, LenProperties DEF Request
<1>2. /\ DOMAIN pipe' = 1 .. (Len(pipe) + MsgWords)
      /\ \A i \in 1 .. Len(pipe) : pipe'[i] = pipe[i]
      /\ \A i \in Len(pipe) + 1 .. Len(pipe) + MsgWords : pipe'[i][2] = i - Len(pipe)
  <2>1. /\ pipe' \in Seq(Words) /\ Len(pipe') = Len(pipe) + MsgWords
        /\ \A i \in 1 .. Len(pipe) + MsgWords :
              pipe'[i] = IF i <= Len(pipe) THEN pipe[i] ELSE Request(c)[i - Len(pipe)]
    BY <1>1, ConcatProperties
  <2>2. DOMAIN pipe' = 1 .. (Len(pipe) + MsgWords)
    BY <2>1, LenProperties
  <2>3. ASSUME NEW i \in Len(pipe) + 1 .. Len(pipe) + MsgWords
        PROVE  pipe'[i][2] = i - Len(pipe)
    <3>1. i - Len(pipe) \in 1 .. MsgWords /\ ~(i <= Len(pipe)) /\ i \in 1 .. Len(pipe) + MsgWords
      BY <1>1
    <3> QED BY <1>1, <2>1, <3>1
  <2> QED BY <1>1, <2>1, <2>2, <2>3
<1>3. WholeRequests'
  <2> SUFFICES ASSUME NEW i \in 1 .. (Len(pipe) + MsgWords), pipe'[i][2] = 1
               PROVE  /\ i + MsgWords - 1 \in 1 .. (Len(pipe) + MsgWords)
                      /\ i + MsgWords \in 1 .. (Len(pipe) + MsgWords)
                            => pipe'[i + MsgWords][2] = 1
    BY <1>2 DEF WholeRequests
  <2>1. CASE i \in 1 .. Len(pipe)
    <3>1. /\ i + MsgWords - 1 \in 1 .. Len(pipe)
          /\ i + MsgWords \in 1 .. Len(pipe) => pipe[i + MsgWords][2] = 1
      BY <1>1, <1>2, <2>1 DEF FramedInv, WholeRequests
    <3>2. CASE i + MsgWords \in 1 .. Len(pipe)
      BY <1>1, <1>2, <3>1, <3>2
    <3>3. CASE i + MsgWords = Len(pipe) + 1
      BY <1>1, <1>2, <3>1, <3>3
    <3> QED BY <1>1, <3>1, <3>2, <3>3
  <2>2. CASE i \in Len(pipe) + 1 .. Len(pipe) + MsgWords
    BY <1>1, <1>2, <2>2
  <2> QED BY <1>1, <2>1, <2>2
<1>4. pipe'[1][2] = 1
  <2>1. CASE Len(pipe) = 0
    BY <1>1, <1>2, <2>1
  <2>2. CASE Len(pipe) > 0
    BY <1>1, <1>2, <2>2 DEF FramedInv
  <2> QED BY <1>1, <2>1, <2>2
<1> QED BY <1>3, <1>4 DEF FramedInv

LEMMA FramedRead ==
    ASSUME pipe \in Seq(Words), FramedInv, ReadWords = MsgWords, pipe # <<>>,
           pipe' = SubSeq(pipe, ReadWords + 1, Len(pipe))
    PROVE  FramedInv'
<1>1. /\ pipe \in Seq(Words) /\ Len(pipe) \in Nat /\ DOMAIN pipe = 1 .. Len(pipe)
      /\ MsgWords \in Nat /\ MsgWords > 0 /\ 1 \in DOMAIN pipe
  BY LenProperties, EmptySeq, RequestIsNotEmpty
<1>2. pipe[1][2] = 1 /\ MsgWords \in 1 .. Len(pipe)
  <2>1. pipe[1][2] = 1
    BY <1>1 DEF FramedInv
  <2>2. 1 + MsgWords - 1 \in DOMAIN pipe
    BY <1>1, <2>1 DEF FramedInv, WholeRequests
  <2>3. 1 + MsgWords - 1 = MsgWords
    BY <1>1
  <2> QED BY <1>1, <2>1, <2>2, <2>3
<1>3. /\ DOMAIN pipe' = 1 .. Len(pipe) - MsgWords
      /\ \A i \in 1 .. Len(pipe) - MsgWords : pipe'[i] = pipe[i + MsgWords]
  <2>1. \A i \in 1 .. Len(pipe) : pipe[i] \in Words
    BY <1>1, ElementOfSeq
  <2>2. /\ pipe' \in Seq(Words)
        /\ Len(pipe') = IF MsgWords + 1 <= Len(pipe) THEN Len(pipe) - (MsgWords + 1) + 1 ELSE 0
        /\ \A i \in 1 .. Len(pipe) - (MsgWords + 1) + 1 : pipe'[i] = pipe[MsgWords + 1 + i - 1]
    <3>1. /\ pipe' = SubSeq(pipe, MsgWords + 1, Len(pipe))
          /\ MsgWords + 1 \in Int /\ Len(pipe) \in Int
          /\ \A i \in MsgWords + 1 .. Len(pipe) : pipe[i] \in Words
      BY <1>1, <2>1
    <3> QED BY <3>1, SubSeqProperties
  <2>3. Len(pipe') = Len(pipe) - MsgWords /\ DOMAIN pipe' = 1 .. Len(pipe')
    <3>1. DOMAIN pipe' = 1 .. Len(pipe')
      BY <2>2, LenProperties
    <3>2. CASE MsgWords + 1 <= Len(pipe)
      BY <1>1, <2>2, <3>1, <3>2
    <3>3. CASE MsgWords = Len(pipe)
      <4>1. ~(MsgWords + 1 <= Len(pipe)) /\ Len(pipe) - MsgWords = 0
        BY <1>1, <3>3
      <4>2. Len(pipe') = 0
        BY <2>2, <4>1
      <4> QED BY <3>1, <4>1, <4>2
    <3>4. MsgWords + 1 <= Len(pipe) \/ MsgWords = Len(pipe)
      <4>1. MsgWords \in Nat /\ Len(pipe) \in Nat /\ MsgWords <= Len(pipe)
        BY <1>1, <1>2
      <4> QED BY <4>1
    <3> QED BY <3>2, <3>3, <3>4
  <2>4. ASSUME NEW i \in 1 .. Len(pipe) - MsgWords
        PROVE  i \in 1 .. Len(pipe) - (MsgWords + 1) + 1 /\ MsgWords + 1 + i - 1 = i + MsgWords
    <3>1. Len(pipe) - (MsgWords + 1) + 1 = Len(pipe) - MsgWords
      BY <1>1
    <3>2. MsgWords + 1 + i - 1 = i + MsgWords
      BY <1>1
    <3> QED BY <3>1, <3>2
  <2> QED BY <2>2, <2>3, <2>4
<1>4. WholeRequests'
  <2> SUFFICES ASSUME NEW i \in 1 .. Len(pipe) - MsgWords, pipe'[i][2] = 1
               PROVE  /\ i + MsgWords - 1 \in 1 .. Len(pipe) - MsgWords
                      /\ i + MsgWords \in 1 .. Len(pipe) - MsgWords
                            => pipe'[i + MsgWords][2] = 1
    BY <1>3 DEF WholeRequests
  <2>0. pipe[i + MsgWords][2] = 1
    BY <1>3
  <2>1. i + MsgWords \in 1 .. Len(pipe)
    BY <1>1, <1>2
  <2>2. /\ i + MsgWords + MsgWords - 1 \in 1 .. Len(pipe)
        /\ i + MsgWords + MsgWords \in 1 .. Len(pipe)
              => pipe[i + MsgWords + MsgWords][2] = 1
    BY <1>1, <2>0, <2>1 DEF FramedInv, WholeRequests
  <2>3. i + MsgWords \in 1 .. Len(pipe) - MsgWords
          => pipe'[i + MsgWords] = pipe[i + MsgWords + MsgWords]
    BY <1>3
  <2> QED BY <1>1, <1>2, <2>2, <2>3
<1>5. DOMAIN pipe' # {} => pipe'[1][2] = 1
  <2> SUFFICES ASSUME 1 \in DOMAIN pipe'
               PROVE  pipe[1 + MsgWords][2] = 1
    BY <1>1, <1>2, <1>3
  <2>1. 1 + MsgWords \in 1 .. Len(pipe)
    BY <1>1, <1>2, <1>3
  <2> QED BY <1>1, <1>2, <2>1 DEF FramedInv, WholeRequests
<1> QED BY <1>4, <1>5 DEF FramedInv

(* When client and server have the same structure, every read of the       *)
(* server starts where a write of a client did (client_fifo.c writes and   *)
(* server_fifo.c reads sizeof(struct matrix_computation)).                 *)
THEOREM SameStructureFrames ==
    ASSUME ReadWords = MsgWords
    PROVE  CgroupSpec => []RequestsStayFramed
<1> DEFINE PipeInv == pipe \in Seq(Words) /\ FramedInv
<1>1. PipeInv /\ [CgroupNext]_allVars => PipeInv'
  <2> SUFFICES ASSUME PipeInv, [CgroupNext]_allVars PROVE PipeInv'
    OBVIOUS
  <2>1. CASE pipe' = pipe
    BY <2>1 DEF FramedInv, WholeRequests
  <2>2. CASE pipe # <<>> /\ pipe' = SubSeq(pipe, ReadWords + 1, Len(pipe))
    <3>1. pipe' \in Seq(Words)
      BY <2>2, LenProperties, ElementOfSeq, SubSeqProperties,
         RequestIsNotEmpty, ReadCoversRequest
    <3> QED BY <2>2, <3>1, FramedRead
  <2>3. CASE \E c \in Clients : pipe' = pipe \o Request(c)
    <3>1. pipe' \in Seq(Words)
      BY <2>3, RequestType, ConcatProperties
    <3> QED BY <2>3, <3>1, FramedWrite
  <2>4. ASSUME NEW c \in Clients, CgroupClient(c) \/ CgroupUser(c)
        PROVE  pipe' = pipe \/ pipe' = pipe \o Request(c)
    BY <2>4 DEF CgroupClient, CgroupUser, CgroupSetup, Client, ClientStep,
         OpenRequest, RequestOpened, Write, OpenReply, ReplyOpened, Read,
         Finish, Setup, Kill, ipcVars
  <2>5. ASSUME CgroupMain
        PROVE  pipe' = pipe \/ (pipe # <<>> /\ pipe' = SubSeq(pipe, ReadWords + 1, Len(pipe)))
    BY <2>5 DEF CgroupMain, SegmentNameCopied, CopyPath, PathCopied, StorePath,
         Main, MainStep, Start, ServerOpenRequest, CreateHold, While,
         ServerRead, ServerOpenReply, ServerReplyOpened, FillSize, FillFd,
         FillPriority, CopyName, NameCopied, Store, SpawnWorker, CancelThreads,
         CloseRequest, CloseReply, UnlinkRequest, Return, SleepInRead, ipcVars
  <2>6. ASSUME CgroupHold \/ CgroupInterrupt \/ UNCHANGED allVars
        PROVE  pipe' = pipe
    BY <2>6 DEF CgroupHold, Hold, HoldFifoOpen, CgroupInterrupt, Interrupt,
         Sigint, allVars, vars, ipcVars
  <2>7. ASSUME NEW c \in Clients, CgroupWorker(c)
        PROVE  pipe' = pipe
    BY <2>7 DEF CgroupWorker, CgroupAffinity, CgroupScheduler, OpenGroup,
         JoinGroup, WorkerNext, LoadSize, LoadFd, SetAffinity, SetScheduler,
         OpenSegment, Multiply, WriteBack, Reply, StopInPrintf, ipcVars
  <2> QED BY <2>1, <2>2, <2>3, <2>4, <2>5, <2>6, <2>7 DEF CgroupNext
<1>2. CgroupInit => PipeInv
  BY DEF CgroupInit, Init, IpcInit, FramedInv, WholeRequests
<1>3. PipeInv => RequestsStayFramed
  <2> SUFFICES ASSUME PipeInv, pipe # <<>> PROVE Head(pipe)[2] = 1
    BY DEF RequestsStayFramed
  <2>1. Head(pipe) = pipe[1] /\ Len(pipe) \in Nat \ {0} /\ DOMAIN pipe = 1 .. Len(pipe)
    BY HeadTailProperties, LenProperties, EmptySeq
  <2> QED BY <2>1 DEF FramedInv
<1> QED BY <1>1, <1>2, <1>3, PTL DEF CgroupSpec

-----------------------------------------------------------------------------
(* The request is in hand while its cgroup's path is copied too.           *)
PathInHand == spc \in {"copyPath", "pathCopied"}
                  => mc \in Clients /\ server_to_client = mc
GroupHandInv == HandInv /\ PathInHand

(* The path goes the way of the other fields of the slot, one step later.  *)
PathStored == spc \in {"spawn", "BAD_THREAD"}
PathIsInHand == spc = "spawn" => cgroup_procs_path = mc
PathIsNewest == \/ cgroup_procs_path \in {NoClient, Newest}
                \/ PathStored /\ cgroup_procs_path = mc
WorkersAreAccepted ==
    \A c \in Clients : IF wpc[c] = "none" THEN joined[c] = NoClient ELSE Accepted(c)
JoinedForward ==
    \A c \in Clients : \/ joined[c] \in {NoClient, c}
                       \/ After(c, joined[c])
                       \/ PathStored /\ joined[c] = mc
JoinInv == /\ GroupHandInv /\ PathIsInHand /\ PathIsNewest
           /\ WorkersAreAccepted /\ JoinedForward

(* A worker that has opened no cgroup is none the server could be in; one  *)
(* that passed fclose put the server somewhere.                            *)
BeforeGroup == {"none", "size", "fd", "affinity", "sched", "openGroup"}
InGroup == {"segment", "multiply", "writeBack", "reply"}
BudgetInv ==
    \A c \in Clients :
        /\ wpc[c] \in BeforeGroup => joined[c] = NoClient
        /\ wpc[c] \in {"join"} \cup InGroup => joined[c] \in Clients
        /\ wpc[c] \in InGroup => \/ member[Server] = joined[c]
                                 \/ /\ member[Server] # NoClient
                                    /\ \E d \in Clients \ {c} : joined[d] = member[Server]

(* A segment that was never made is named nowhere, and no result is blank: *)
(* no worker makes a failed client look like one that was answered.        *)
Failed == {"mkfifo", "BAD_FIFO", "BAD_SHM_OPEN", "BAD_TRUNCATE", "BAD_MMAP",
           "BAD_OPEN", "BAD_CLOSE", "BAD_MKDIR", "killed"}
UnmadeIsUnnamed ==
    \A c \in Clients : IF shm[c] # "none" THEN cpc[c] # "mkfifo" ELSE
        /\ c \notin alive /\ cpc[c] \in Failed
        /\ mc # c /\ pthread_args.shm # c
        /\ \A d \in Clients : arg[d].shm # c
        /\ \A i \in DOMAIN pipe : pipe[i][1] # c

(* The workers that ended with the descriptor of c.                        *)
EndedWith(c) == {d \in Clients : arg[d].fd = c /\ wpc[d] = "done"}
AnswersAreCounted ==
    \A c \in Clients :
        /\ IsFiniteSet(EndedWith(c))
        /\ ~Left(c) => AnswersTo(c) <= Cardinality(EndedWith(c))
CountInv == UnmadeIsUnnamed /\ ResultIsThere /\ AnswersAreCounted

(* The request and its reply FIFO, as in fifo_threaded.                    *)
MeetingInv == OnceInv /\ EndsInv

(* Who left the open of its FIFO met main there; BAD_CLOSE is also the     *)
(* code of an fclose that failed in a client without a segment.  Only a    *)
(* client that finishes, and is never killed after, unlinks its FIFO.      *)
LeftOpen(c) == \/ cpc[c] \in {"read", "report", "SUCCESS", "BAD_READ",
                                "BAD_UNLINK"}
               \/ cpc[c] = "BAD_CLOSE" /\ shm[c] # "none"
FilesInv == \A c \in Clients : /\ LeftOpen(c) => Opened(c)
                               /\ shm[c] # "none" => c \in paths \/ cpc[c] = "SUCCESS"
                               /\ c \in alive => cpc[c] # "SUCCESS"

CgroupInv == CgroupTypeOK /\ JoinInv /\ BudgetInv /\ MeetingInv /\ CountInv /\ FilesInv

-----------------------------------------------------------------------------
(* Type correctness.                                                       *)
CallsTypeOK ==
    /\ cpc \in [Clients -> ClientCalls \cup ClientExits \cup {"BAD_MKDIR"}]
    /\ wpc \in [Clients -> WorkerSteps \cup {"openGroup", "join"}]
    /\ spc \in ServerCalls \cup ServerExits \cup {"copyPath", "pathCopied"}
GroupsTypeOK ==
    /\ groups \subseteq Clients
    /\ member \in [Processes -> Slots]
    /\ cgroup_procs_path \in Slots
    /\ joined \in [Clients -> Slots]

(* CgroupTypeOK in parts, of which a step changes one or two.              *)
TypeParts == IpcTypeOK /\ ArgsTypeOK /\ MainTypeOK /\ CallsTypeOK /\ GroupsTypeOK

LEMMA GroupTypes ==
    (CgroupTypeOK => TypeParts) /\ (TypeParts' => CgroupTypeOK')
  BY DEF TypeParts, CgroupTypeOK, ArgsTypeOK, MainTypeOK, CallsTypeOK, GroupsTypeOK

LEMMA GroupShape == CgroupTypeOK => Shape
  BY DEF CgroupTypeOK, Shape

(* The calls of a client, of a worker and of main that both programs make. *)
LEMMA ClientCallsType ==
    ASSUME CallsTypeOK, NEW c \in Clients, ClientNext(c), UNCHANGED <<wpc, spc>>
    PROVE  CallsTypeOK'
  BY DEF CallsTypeOK, ClientNext, ClientStep, Setup, OpenRequest,
         RequestOpened, Write, OpenReply, ReplyOpened, Read, Finish, Kill,
         Goto, ClientCalls, ClientExits

LEMMA MainCallsType ==
    ASSUME CallsTypeOK, MainStep, UNCHANGED cpc
    PROVE  CallsTypeOK'
<1>1. wpc' = wpc \/ wpc' = [wpc EXCEPT ![mc] = "size"]
  BY DEF MainStep, Start, ServerOpenRequest, CreateHold, While, ServerRead,
         ServerOpenReply, ServerReplyOpened, FillSize, FillFd, FillPriority,
         CopyName, NameCopied, Store, SpawnWorker, CancelThreads,
         CloseRequest, CloseReply, UnlinkRequest, Return, SleepInRead, Advance, workerVars
<1>2. spc' \in ServerCalls \cup ServerExits
  BY DEF MainStep, Start, ServerOpenRequest, CreateHold, While, ServerRead,
         ServerOpenReply, ServerReplyOpened, FillSize, FillFd, FillPriority,
         CopyName, NameCopied, Store, SpawnWorker, CancelThreads,
         CloseRequest, CloseReply, UnlinkRequest, Return, SleepInRead, ServerCalls, ServerExits, FillSteps
<1> QED BY <1>1, <1>2 DEF CallsTypeOK, WorkerSteps

(* The worker's own calls on the way: none of them loads a field.          *)
GroupCall(c) == CgroupAffinity(c) \/ CgroupScheduler(c) \/ OpenGroup(c) \/ JoinGroup(c)

LEMMA GroupCallType ==
    ASSUME CgroupTypeOK, NEW c \in Clients, GroupCall(c), UNCHANGED <<cpc, serverVars>>
    PROVE  CgroupTypeOK'
<1>1. /\ IpcTypeOK /\ ArgsTypeOK /\ MainTypeOK /\ CallsTypeOK /\ GroupsTypeOK
      /\ UNCHANGED <<paths, pipe, shm, pthread_args, arg, C, cancelled, groups,
                     cgroup_procs_path, cpc, serverVars>>
  BY GroupTypes DEF TypeParts, GroupCall, CgroupAffinity, CgroupScheduler, OpenGroup,
                    JoinGroup, cgroupVars
<1>2. Answer(c, "done") \/ UNCHANGED <<alive, endVars, replies>>
  BY DEF GroupCall, CgroupAffinity, CgroupScheduler, OpenGroup, JoinGroup, cancel_client
<1>3. IpcTypeOK'
  BY <1>1, <1>2, AnswerType DEF IpcTypeOK, EndsTypeOK, endVars
<1>4. CallsTypeOK'
  BY <1>1 DEF GroupCall, CgroupAffinity, CgroupScheduler, OpenGroup, JoinGroup,
              cancel_client, Answer, Crash, Advance, CallsTypeOK, WorkerSteps, serverVars
<1>5. ArgsTypeOK' /\ MainTypeOK'
  BY <1>1 DEF ArgsTypeOK, MainTypeOK, serverVars
<1>6. GroupsTypeOK'
  BY <1>1 DEF GroupCall, CgroupAffinity, CgroupScheduler, OpenGroup, JoinGroup,
              GroupsTypeOK, cgroupVars
<1> QED BY <1>3, <1>4, <1>5, <1>6, GroupTypes DEF TypeParts

LEMMA GroupUserType ==
    ASSUME CgroupTypeOK, NEW c \in Clients, CgroupUser(c)
    PROVE  CgroupTypeOK'
<1>1. /\ IpcTypeOK /\ ArgsTypeOK /\ MainTypeOK /\ CallsTypeOK /\ GroupsTypeOK
      /\ UNCHANGED <<workerVars, serverVars, cgroup_procs_path, joined>>
  BY GroupTypes DEF TypeParts, CgroupUser
<1>2. ArgsTypeOK' /\ MainTypeOK'
  BY <1>1 DEF ArgsTypeOK, MainTypeOK, serverVars, workerVars
<1>3. GroupsTypeOK'
  BY <1>1 DEF CgroupUser, CgroupSetup, GroupsTypeOK, Slots
<1>4. CASE Setup(c) \/ Kill(c)
  <2>1. ClientNext(c) /\ UNCHANGED <<wpc, spc>>
    BY <1>1, <1>4 DEF ClientNext, workerVars, serverVars
  <2>2. IpcTypeOK' /\ CallsTypeOK'
    BY <1>1, <2>1, ClientData, ClientCallsType
  <2> QED BY <1>2, <1>3, <2>2, GroupTypes DEF TypeParts
<1>5. CASE ~Setup(c) /\ ~Kill(c)
  <2>1. IpcTypeOK'
    BY <1>1, <1>5 DEF CgroupUser, CgroupSetup, IpcTypeOK, Processes, endVars
  <2>2. CallsTypeOK'
    BY <1>1, <1>5 DEF CgroupUser, CgroupSetup, CallsTypeOK, Goto, ClientExits,
                      workerVars, serverVars
  <2> QED BY <1>2, <1>3, <2>1, <2>2, GroupTypes DEF TypeParts
<1> QED BY <1>4, <1>5

LEMMA GroupMainType ==
    ASSUME CgroupTypeOK, GroupHandInv, CgroupMain
    PROVE  CgroupTypeOK'
<1>1. /\ IpcTypeOK /\ ArgsTypeOK /\ MainTypeOK /\ CallsTypeOK /\ GroupsTypeOK
      /\ RequestInHand
  BY GroupTypes DEF TypeParts, GroupHandInv, HandInv
<1>2. CASE Main /\ UNCHANGED cgroupVars
  <2>1. IpcTypeOK' /\ ArgsTypeOK' /\ MainTypeOK'
    BY <1>1, <1>2, ServerData DEF Main, ServerNext
  <2>2. CallsTypeOK'
    BY <1>1, <1>2, MainCallsType DEF Main
  <2>3. GroupsTypeOK'
    BY <1>1, <1>2 DEF GroupsTypeOK, cgroupVars
  <2> QED BY <2>1, <2>2, <2>3, GroupTypes DEF TypeParts
<1>3. CASE SegmentNameCopied
  BY <1>1, <1>3, GroupTypes
     DEF TypeParts, SegmentNameCopied, Store, IpcTypeOK, ArgsTypeOK, MainTypeOK,
         CallsTypeOK, GroupsTypeOK, cgroupVars, ipcVars
<1>4. CASE CopyPath \/ PathCopied
  BY <1>1, <1>4, GroupTypes
     DEF TypeParts, CopyPath, PathCopied, StorePath, IpcTypeOK, ArgsTypeOK, MainTypeOK,
         CallsTypeOK, GroupsTypeOK, ipcVars, workerVars, Slots, ServerCalls, FillSteps
<1> QED BY <1>2, <1>3, <1>4 DEF CgroupMain

LEMMA GroupTypeStep ==
    ASSUME CgroupTypeOK, GroupHandInv, [CgroupNext]_allVars
    PROVE  CgroupTypeOK'
<1>1. /\ IpcTypeOK /\ ArgsTypeOK /\ MainTypeOK /\ CallsTypeOK /\ GroupsTypeOK
      /\ RequestInHand
  BY GroupTypes DEF TypeParts, GroupHandInv, HandInv
<1>2. ASSUME NEW c \in Clients, CgroupClient(c)
      PROVE  CgroupTypeOK'
  <2>1. /\ ClientNext(c) /\ UNCHANGED <<workerVars, serverVars, cgroupVars>>
    BY <1>2 DEF CgroupClient, Client, ClientNext
  <2>2. IpcTypeOK' /\ CallsTypeOK'
    BY <1>1, <2>1, ClientData, ClientCallsType DEF workerVars, serverVars
  <2>3. ArgsTypeOK' /\ MainTypeOK' /\ GroupsTypeOK'
    BY <1>1, <2>1 DEF ArgsTypeOK, MainTypeOK, GroupsTypeOK, workerVars, serverVars, cgroupVars
  <2> QED BY <2>2, <2>3, GroupTypes DEF TypeParts
<1>3. ASSUME NEW c \in Clients, CgroupWorker(c)
      PROVE  CgroupTypeOK'
  <2>1. CASE GroupCall(c)
    BY <1>3, <2>1, GroupCallType DEF CgroupWorker
  <2>2. CASE WorkerNext(c) /\ UNCHANGED <<cpc, serverVars, cgroupVars>>
    <3>1. IpcTypeOK' /\ ArgsTypeOK'
      BY <1>1, <2>2, WorkerData
    <3>2. CallsTypeOK'
      BY <1>1, <2>2 DEF WorkerNext, LoadSize, LoadFd, SetAffinity, SetScheduler,
           OpenSegment, Multiply, WriteBack, Reply, StopInPrintf, Answer, Crash,
           Advance, CallsTypeOK, WorkerSteps, serverVars
    <3>3. MainTypeOK' /\ GroupsTypeOK'
      BY <1>1, <2>2 DEF MainTypeOK, GroupsTypeOK, serverVars, cgroupVars
    <3> QED BY <3>1, <3>2, <3>3, GroupTypes DEF TypeParts
  <2> QED BY <1>3, <2>1, <2>2 DEF CgroupWorker, GroupCall
<1>4. CASE CgroupHold \/ CgroupInterrupt
  <2>1. ServerNext /\ UNCHANGED <<cpc, cgroupVars>>
    BY <1>4 DEF CgroupHold, CgroupInterrupt, Hold, Interrupt, ServerNext
  <2>2. IpcTypeOK' /\ ArgsTypeOK' /\ MainTypeOK'
    BY <1>1, <2>1, ServerData
  <2>3. CallsTypeOK'
    BY <1>1, <1>4 DEF CgroupHold, CgroupInterrupt, Hold, Interrupt, HoldFifoOpen,
         Sigint, CallsTypeOK, ServerCalls, ServerExits, workerVars
  <2>4. GroupsTypeOK'
    BY <1>1, <2>1 DEF GroupsTypeOK, cgroupVars
  <2> QED BY <2>2, <2>3, <2>4, GroupTypes DEF TypeParts
<1>5. CASE UNCHANGED allVars
  BY <1>1, <1>5, GroupTypes
     DEF TypeParts, allVars, vars, ipcVars, workerVars, serverVars, cgroupVars, IpcTypeOK,
         ArgsTypeOK, MainTypeOK, CallsTypeOK, GroupsTypeOK
<1> QED BY <1>2, <1>3, <1>4, <1>5, GroupUserType, GroupMainType DEF CgroupNext

-----------------------------------------------------------------------------
(* What a step of another thread leaves alone.                             *)
LEMMA WorkerKeeps ==
    ASSUME NEW c \in Clients, CgroupWorker(c)
    PROVE  UNCHANGED <<cpc, serverVars, paths, pipe, pthread_args, cancelled,
                       groups, cgroup_procs_path>>
  BY DEF CgroupWorker, CgroupAffinity, CgroupScheduler, OpenGroup, JoinGroup,
         WorkerNext, LoadSize, LoadFd, SetAffinity, SetScheduler, OpenSegment,
         Multiply, WriteBack, Reply, StopInPrintf, ipcVars, cgroupVars

LEMMA OthersKeep ==
    ASSUME \/ \E c \in Clients : CgroupClient(c) \/ CgroupUser(c)
           \/ CgroupHold \/ UNCHANGED allVars
    PROVE  UNCHANGED <<spc, mc, server_to_client, list, workerVars,
                       cgroup_procs_path, joined>>
  BY DEF CgroupClient, Client, CgroupUser, CgroupHold, Hold, HoldFifoOpen,
         allVars, vars, serverVars, cgroupVars

LEMMA InterruptKeeps ==
    ASSUME CgroupInterrupt
    PROVE  /\ UNCHANGED <<mc, list, workerVars, pipe, cpc, cgroupVars>>
           /\ \/ spc' = spc /\ server_to_client' = server_to_client
              \/ /\ spc' \in {"cancel", "unlink"}
                 /\ spc \in {"inRead", "inOpenReply", "inOpenRequest"}
  BY DEF CgroupInterrupt, Interrupt, Sigint, SleepsIn, SleepsInRead

(* The request in hand stays in hand.                                      *)
LEMMA GroupHandStep ==
    ASSUME CgroupTypeOK, GroupHandInv, [CgroupNext]_allVars
    PROVE  GroupHandInv'
<1> USE DEF GroupHandInv, HandInv
<1>1. ASSUME UNCHANGED <<spc, mc, server_to_client, list, cancelled>>
      PROVE  GroupHandInv'
  BY <1>1 DEF RequestInHand, ListIsEmptyFirst, CancelIsLast, ClosingDown, PathInHand
<1>2. CASE CgroupInterrupt
  BY <1>1, <1>2, InterruptKeeps
     DEF RequestInHand, ListIsEmptyFirst, CancelIsLast, ClosingDown, PathInHand, FillSteps, workerVars
<1>3. CASE MainStep /\ spc # "nameCopied"
  <2>1. mc \in paths => mc \in Clients
    BY ProcessesAreDistinct DEF CgroupTypeOK, IpcTypeOK, Slots, Processes
  <2>2. RequestInHand' /\ PathInHand'
    BY <1>3, <2>1
       DEF RequestInHand, PathInHand, FillSteps, MainStep, Start,
           ServerOpenRequest, CreateHold, While, ServerRead, ServerOpenReply,
           ServerReplyOpened, FillSize, FillFd, FillPriority, CopyName,
           NameCopied, Store, SpawnWorker, CancelThreads, CloseRequest, CloseReply, UnlinkRequest, Return, SleepInRead, Before
  <2>3. ListIsEmptyFirst' /\ CancelIsLast'
    BY <1>3
       DEF ListIsEmptyFirst, CancelIsLast, ClosingDown, MainStep, Start, ServerOpenRequest,
           CreateHold, While, ServerRead, ServerOpenReply, ServerReplyOpened,
           FillSize, FillFd, FillPriority, CopyName, NameCopied, Store,
           SpawnWorker, CancelThreads, CloseRequest, CloseReply, UnlinkRequest, Return, SleepInRead, Before, workerVars
  <2> QED BY <2>2, <2>3
<1>4. CASE SegmentNameCopied \/ CopyPath \/ PathCopied
  BY <1>4
     DEF SegmentNameCopied, Store, CopyPath, PathCopied, StorePath, Before,
         RequestInHand, ListIsEmptyFirst, CancelIsLast, ClosingDown, PathInHand, FillSteps,
         workerVars
<1>5. ASSUME NEW c \in Clients, CgroupWorker(c)
      PROVE  GroupHandInv'
  BY <1>1, <1>5, WorkerKeeps DEF serverVars
<1>6. CASE \/ \E c \in Clients : CgroupClient(c) \/ CgroupUser(c)
           \/ CgroupHold \/ UNCHANGED allVars
  BY <1>1, <1>6, OthersKeep DEF workerVars
<1> QED
  BY <1>2, <1>3, <1>4, <1>5, <1>6 DEF CgroupNext, CgroupMain, Main

-----------------------------------------------------------------------------
(* The way of a cgroup's path: from mc to the slot, to a worker.           *)
LEMMA JoinQuiet ==
    ASSUME JoinInv, GroupHandInv',
           UNCHANGED <<list, cancelled, cgroup_procs_path, joined>>,
           \A c \in Clients : wpc'[c] = "none" <=> wpc[c] = "none",
           PathStored => PathStored' /\ mc' = mc,
           spc' # "spawn"
    PROVE  JoinInv'
<1>1. Started' = Started /\ Newest' = Newest
  BY DEF Started, Newest
<1> QED
  BY <1>1 DEF JoinInv, PathIsInHand, PathIsNewest, WorkersAreAccepted,
              JoinedForward, After, Accepted, PathStored

LEMMA JoinSame ==
    ASSUME JoinInv, GroupHandInv',
           UNCHANGED <<spc, mc, list, cancelled, cgroup_procs_path, joined>>,
           \A c \in Clients : wpc'[c] = "none" <=> wpc[c] = "none"
    PROVE  JoinInv'
<1>1. Started' = Started /\ Newest' = Newest
  BY DEF Started, Newest
<1> QED
  BY <1>1 DEF JoinInv, PathIsInHand, PathIsNewest, WorkersAreAccepted,
              JoinedForward, After, Accepted, PathStored

(* The path a worker finds in the slot is not that of an earlier request.  *)
LEMMA JoinOpen ==
    ASSUME CgroupTypeOK, JoinInv, GroupHandInv', NEW c \in Clients, wpc[c] # "none",
           UNCHANGED <<spc, mc, list, cancelled, cgroup_procs_path>>,
           \A d \in Clients : wpc'[d] = "none" <=> wpc[d] = "none",
           joined' = [joined EXCEPT ![c] = cgroup_procs_path]
    PROVE  JoinInv'
<1>1. Started' = Started /\ Newest' = Newest
  BY DEF Started, Newest
<1>2. /\ Started \in Seq(Processes) /\ Len(Started) \in Nat
      /\ DOMAIN Started = 1 .. Len(Started)
  BY GroupShape, StartedIsList, LenProperties
<1>3. PICK i \in DOMAIN Started : Started[i] = c
  BY DEF JoinInv, WorkersAreAccepted, Accepted
<1>4. \/ cgroup_procs_path \in {NoClient, c}
      \/ After(c, cgroup_procs_path)
      \/ PathStored /\ cgroup_procs_path = mc
  <2>1. CASE cgroup_procs_path = Newest /\ i = Len(Started)
    BY <1>3, <2>1 DEF Newest
  <2>2. CASE cgroup_procs_path = Newest /\ i < Len(Started)
    <3>1. Len(Started) \in DOMAIN Started /\ Started[Len(Started)] = cgroup_procs_path
      BY <1>2, <1>3, <2>2 DEF Newest
    <3> QED BY <1>3, <2>2, <3>1 DEF After
  <2> QED BY <1>2, <1>3, <2>1, <2>2 DEF JoinInv, PathIsNewest
<1>5. joined'[c] = cgroup_procs_path /\ \A d \in Clients \ {c} : joined'[d] = joined[d]
  BY DEF CgroupTypeOK
<1>6. JoinedForward'
  BY <1>1, <1>4, <1>5 DEF JoinInv, JoinedForward, After, PathStored
<1> QED
  BY <1>1, <1>5, <1>6 DEF JoinInv, PathIsInHand, PathIsNewest,
                          WorkersAreAccepted, Accepted, PathStored

(* pthread_create: the request whose path was stored becomes the newest.   *)
LEMMA JoinSpawn ==
    ASSUME CgroupTypeOK, JoinInv, GroupHandInv', SpawnWorker,
           UNCHANGED cgroupVars
    PROVE  JoinInv'
<1>1. CASE spc' = "BAD_THREAD"
  BY <1>1, JoinQuiet DEF SpawnWorker, Before, PathStored, cgroupVars
<1>2. CASE /\ Advance(mc, "size")
           /\ list' = Append(list, mc)
           /\ mc' = NoClient
           /\ spc' = "while"
  <2>1. /\ mc \in Clients /\ mc \in Processes /\ cgroup_procs_path = mc
        /\ cancelled = <<>> /\ cancelled' = cancelled
        /\ UNCHANGED <<cgroup_procs_path, joined>>
    BY DEF SpawnWorker, Before, JoinInv, GroupHandInv, HandInv, RequestInHand,
           FillSteps, CancelIsLast, ClosingDown, PathIsInHand, Processes, cgroupVars
  <2>2. /\ Started = list /\ Started' = list'
        /\ Len(list) \in Nat /\ DOMAIN list = 1 .. Len(list)
        /\ DOMAIN list' = 1 .. Len(list) + 1 /\ list'[Len(list) + 1] = mc
        /\ \A i \in 1 .. Len(list) : list'[i] = list[i]
        /\ \A q : Accepted(q)' <=> Accepted(q) \/ q = mc
    BY <1>2, <2>1, GroupShape, AppendAccepts
  <2>3. Newest' = mc
    <3>1. list \in Seq(Processes)
      BY DEF CgroupTypeOK
    <3>2. Len(list') = Len(list) + 1 /\ list' # <<>>
      BY <1>2, <2>1, <3>1, AppendProperties
    <3> QED BY <2>2, <3>2 DEF Newest
  <2>4. WorkersAreAccepted'
    BY <1>2, <2>1, <2>2
       DEF JoinInv, WorkersAreAccepted, Advance, CgroupTypeOK
  <2>5. ASSUME NEW c \in Clients
        PROVE  joined[c] \in {NoClient, c} \/ After(c, joined[c])'
    <3>1. CASE After(c, joined[c])
      <4>1. PICK i, j \in DOMAIN Started :
                   i < j /\ Started[i] = c /\ Started[j] = joined[c]
        BY <3>1 DEF After
      <4>2. /\ i \in DOMAIN Started' /\ Started'[i] = c
            /\ j \in DOMAIN Started' /\ Started'[j] = joined[c]
        BY <2>2, <4>1
      <4> QED BY <2>1, <4>1, <4>2 DEF After
    <3>2. CASE joined[c] = mc /\ joined[c] # NoClient
      <4>1. Accepted(c)
        BY <3>2 DEF JoinInv, WorkersAreAccepted
      <4>2. PICK i \in 1 .. Len(list) : list[i] = c
        BY <2>2, <4>1 DEF Accepted
      <4>3. /\ i \in DOMAIN Started' /\ Started'[i] = c /\ i < Len(list) + 1
            /\ Len(list) + 1 \in DOMAIN Started' /\ Started'[Len(list) + 1] = mc
        BY <2>2, <4>2
      <4> QED BY <2>1, <3>2, <4>3 DEF After
    <3> QED BY <3>1, <3>2 DEF JoinInv, JoinedForward
  <2>6. JoinedForward'
    BY <2>1, <2>5 DEF JoinedForward
  <2> QED
    BY <1>2, <2>1, <2>3, <2>4, <2>6 DEF JoinInv, PathIsInHand, PathIsNewest
<1> QED BY <1>1, <1>2 DEF SpawnWorker

(* The hold thread and the cancelled threads move no path.                 *)
LEMMA JoinCreateHold ==
    ASSUME CgroupTypeOK, JoinInv, GroupHandInv', CreateHold,
           UNCHANGED cgroupVars
    PROVE  JoinInv'
<1>1. /\ spc = "inOpenRequest" /\ list = <<>> /\ cancelled = <<>>
      /\ spc' \in {"while", "BAD_THREAD"}
      /\ UNCHANGED <<mc, wpc, cancelled, cgroup_procs_path, joined>>
  BY DEF CreateHold, Before, JoinInv, GroupHandInv, HandInv, ListIsEmptyFirst,
         CancelIsLast, ClosingDown, workerVars, cgroupVars
<1>2. Started = <<>> /\ DOMAIN Started = {} /\ ~PathStored
  BY <1>1, GroupShape, StartedIsList DEF PathStored
<1>3. \A c \in Clients : wpc[c] = "none" /\ joined[c] = NoClient
  BY <1>2 DEF JoinInv, WorkersAreAccepted, Accepted
<1>4. cgroup_procs_path = NoClient
  BY <1>2 DEF JoinInv, PathIsNewest, Newest
<1> QED
  BY <1>1, <1>3, <1>4 DEF JoinInv, PathIsInHand, PathIsNewest,
                          WorkersAreAccepted, JoinedForward

LEMMA JoinCancel ==
    ASSUME CgroupTypeOK, JoinInv, GroupHandInv', CancelThreads,
           UNCHANGED cgroupVars
    PROVE  JoinInv'
<1>1. /\ list \in Seq(Processes) /\ cancelled = <<>>
      /\ cancelled' = list /\ list' = <<>> /\ spc = "cancel" /\ spc' = "close"
      /\ UNCHANGED <<mc, wpc, cgroup_procs_path, joined>>
  BY DEF CancelThreads, Before, JoinInv, GroupHandInv, HandInv, CancelIsLast, ClosingDown,
         CgroupTypeOK, cgroupVars
<1>2. list \o <<>> = list
  BY <1>1, ConcatEmptySeq
<1>3. Started' = Started /\ Newest' = Newest
  BY <1>1, <1>2, GroupShape, StartedIsList DEF Started, Newest
<1> QED
  BY <1>1, <1>3 DEF JoinInv, PathIsInHand, PathIsNewest, WorkersAreAccepted,
                    JoinedForward, After, Accepted, PathStored

LEMMA JoinStep ==
    ASSUME CgroupTypeOK, JoinInv, [CgroupNext]_allVars
    PROVE  JoinInv'
<1>0. GroupHandInv /\ GroupHandInv'
  BY GroupHandStep DEF JoinInv
<1>1. CASE MainStep /\ spc # "nameCopied" /\ UNCHANGED cgroupVars
  <2>1. CASE SpawnWorker
    BY <1>0, <1>1, <2>1, JoinSpawn
  <2>2. CASE CreateHold
    BY <1>0, <1>1, <2>2, JoinCreateHold
  <2>3. CASE CancelThreads
    BY <1>0, <1>1, <2>3, JoinCancel
  <2>4. CASE ~SpawnWorker /\ ~CreateHold /\ ~CancelThreads
    <3>1. /\ UNCHANGED <<list, cancelled, wpc, cgroup_procs_path, joined>>
          /\ spc' # "spawn" /\ ~PathStored
      BY <1>1, <2>4
         DEF MainStep, Start, ServerOpenRequest, While, ServerRead,
             ServerOpenReply, ServerReplyOpened, FillSize, FillFd,
             FillPriority, CopyName, NameCopied, Store, CloseRequest, CloseReply, UnlinkRequest, Return, SleepInRead,
             Before, PathStored, workerVars, cgroupVars
    <3> QED BY <1>0, <3>1, JoinQuiet
  <2> QED BY <2>1, <2>2, <2>3, <2>4
<1>2. CASE SegmentNameCopied
  <2>1. /\ UNCHANGED <<list, cancelled, wpc, cgroup_procs_path, joined>>
        /\ spc' # "spawn" /\ ~PathStored
    BY <1>2 DEF SegmentNameCopied, Store, Before, PathStored, cgroupVars
  <2> QED BY <1>0, <2>1, JoinQuiet
<1>3. CASE CopyPath \/ PathCopied
  <2>1. /\ UNCHANGED <<mc, list, cancelled, wpc, joined>> /\ ~PathStored
        /\ \/ spc' # "spawn" /\ ~PathStored' /\ cgroup_procs_path' = NoClient
           \/ PathStored' /\ cgroup_procs_path' = mc
    BY <1>3 DEF CopyPath, PathCopied, StorePath, Before, PathStored, workerVars
  <2>2. Started' = Started /\ Newest' = Newest
    BY <2>1 DEF Started, Newest
  <2> QED
    BY <1>0, <2>1, <2>2 DEF JoinInv, PathIsInHand, PathIsNewest,
           WorkersAreAccepted, JoinedForward, After, Accepted
<1>4. CASE CgroupInterrupt
  <2>1. CASE spc' = spc
    BY <1>0, <1>4, <2>1, InterruptKeeps, JoinSame DEF cgroupVars, workerVars
  <2>2. CASE spc' # spc
    BY <1>0, <1>4, <2>2, InterruptKeeps, JoinQuiet DEF cgroupVars, workerVars, PathStored
  <2> QED BY <2>1, <2>2
<1>5. ASSUME NEW c \in Clients, CgroupWorker(c)
      PROVE  JoinInv'
  <2>1. UNCHANGED <<spc, mc, list, cancelled, cgroup_procs_path>>
    BY <1>5, WorkerKeeps DEF serverVars
  <2>2. wpc[c] # "none" /\ \A d \in Clients : wpc'[d] = "none" <=> wpc[d] = "none"
    BY <1>5 DEF CgroupWorker, CgroupAffinity, CgroupScheduler, OpenGroup,
         JoinGroup, cancel_client, WorkerNext, LoadSize, LoadFd, SetAffinity,
         SetScheduler, OpenSegment, Multiply, WriteBack, Reply, StopInPrintf,
         Answer, Crash, Advance, At, CgroupTypeOK
  <2>3. joined' = joined \/ joined' = [joined EXCEPT ![c] = cgroup_procs_path]
    BY <1>5 DEF CgroupWorker, CgroupAffinity, CgroupScheduler, OpenGroup,
                JoinGroup, cgroupVars
  <2> QED BY <1>0, <2>1, <2>2, <2>3, JoinSame, JoinOpen
<1>6. CASE \/ \E c \in Clients : CgroupClient(c) \/ CgroupUser(c)
           \/ CgroupHold \/ UNCHANGED allVars
  BY <1>0, <1>6, OthersKeep, JoinSame DEF workerVars
<1> QED
  BY <1>1, <1>2, <1>3, <1>4, <1>5, <1>6 DEF CgroupNext, CgroupMain, Main

LEMMA JoinInit == CgroupInit => CgroupTypeOK /\ JoinInv
<1> SUFFICES ASSUME CgroupInit PROVE CgroupTypeOK /\ JoinInv
  OBVIOUS
<1>1. TypeOK /\ SlotInv
  BY TypeInit, SlotInit DEF CgroupInit
<1>2. CgroupTypeOK
  BY <1>1, StaleGroupsAreClients
     DEF CgroupInit, TypeOK, ClientTypeOK, WorkerTypeOK, ServerTypeOK,
         CgroupTypeOK, Slots
<1>3. /\ spc = "mkfifo" /\ cgroup_procs_path = NoClient
      /\ \A c \in Clients : wpc[c] = "none" /\ joined[c] = NoClient
  BY DEF CgroupInit, Init, WorkerInit, ServerInit
<1> QED
  BY <1>1, <1>2, <1>3
     DEF JoinInv, GroupHandInv, HandInv, SlotInv, PathInHand, PathIsInHand,
         PathIsNewest, WorkersAreAccepted, JoinedForward

-----------------------------------------------------------------------------
(* What the server left stays left.                                        *)
LEMMA GroupLeft ==
    ASSUME [CgroupNext]_allVars
    PROVE  LeftStays
<1>1. CASE MainStep \/ HoldFifoOpen \/ Sigint
  BY <1>1, LeftServer DEF ServerNext
<1>2. CASE SegmentNameCopied \/ CopyPath \/ PathCopied
  BY <1>2 DEF SegmentNameCopied, Store, CopyPath, PathCopied, StorePath,
              Before, ipcVars, LeftStays, Left, ClosedAtShutdown
<1>3. ASSUME NEW c \in Clients, CgroupWorker(c)
      PROVE  LeftStays
  BY <1>3, WorkerKeeps, LeftQuiet
     DEF serverVars, CgroupWorker, CgroupAffinity, CgroupScheduler, OpenGroup,
         JoinGroup, cancel_client, WorkerNext, LoadSize, LoadFd, SetAffinity,
         SetScheduler, OpenSegment, Multiply, WriteBack, Reply, StopInPrintf,
         Answer, Crash, At, Exit, ipcVars
<1>4. CASE \/ \E c \in Clients : CgroupClient(c) \/ CgroupUser(c)
           \/ UNCHANGED allVars
  <2>1. Server \notin alive => Server \notin alive'
    BY <1>4, ProcessesAreDistinct
       DEF CgroupClient, Client, CgroupUser, CgroupSetup, ClientStep,
           OpenRequest, RequestOpened, Write, OpenReply, ReplyOpened, Read,
           Finish, Setup, Kill, Exit, allVars, vars, ipcVars
  <2> QED BY <1>4, <2>1, OthersKeep, LeftQuiet
<1> QED BY <1>1, <1>2, <1>3, <1>4 DEF CgroupNext, CgroupMain, Main, CgroupHold,
                                      Hold, CgroupInterrupt, Interrupt

(* The request and its reply FIFO, as in fifo_threaded.                    *)
LEMMA MeetingMain ==
    ASSUME CgroupTypeOK, JoinInv, MeetingInv, LeftStays, CgroupMain
    PROVE  MeetingInv' /\ OpenedStays
<1>0. Shape /\ HandInv
  BY GroupShape DEF JoinInv, GroupHandInv
<1>1. CASE MainStep /\ UNCHANGED cpc
  BY <1>0, <1>1, OnceMain, OpenedMain, EndsMain DEF MeetingInv
<1>2. CASE SegmentNameCopied \/ CopyPath \/ PathCopied
  <2>1. /\ UNCHANGED <<pipe, mc, list, cancelled, cpc, alive, endVars>>
        /\ spc' \notin Searching
    BY <1>2 DEF SegmentNameCopied, Store, CopyPath, PathCopied, StorePath,
                Searching, ipcVars, endVars, workerVars
  <2>2. OnceInv'
    BY <2>1, OnceQuiet DEF MeetingInv, Silent
  <2>3. OpenedStays
    BY <2>1, OpenedQuiet
  <2> QED BY <2>1, <2>2, <2>3, EndsStays DEF MeetingInv
<1> QED BY <1>1, <1>2 DEF CgroupMain, Main

LEMMA MeetingClient ==
    ASSUME CgroupTypeOK, MeetingInv, LeftStays, NEW c \in Clients,
           CgroupClient(c) \/ CgroupUser(c)
    PROVE  MeetingInv' /\ OpenedStays
<1>0. Shape
  BY GroupShape
<1>1. UNCHANGED <<spc, mc, list, cancelled>>
  BY OthersKeep DEF workerVars
<1>2. OpenedStays
  BY <1>1, OpenedQuiet
<1>3. CASE Client(c) \/ User(c)
  <2>1. ClientNext(c)
    BY <1>3 DEF Client, User, ClientNext
  <2> QED BY <1>0, <1>2, <1>3, <2>1, OnceClient, EndsClient DEF MeetingInv
<1>4. CASE CgroupUser(c) /\ ~User(c)
  <2>1. /\ UNCHANGED <<pipe, endVars>> /\ alive' = alive /\ cpc[c] = "mkfifo"
        /\ \E code \in {"BAD_MKDIR", "BAD_OPEN", "BAD_CLOSE"} : Goto(c, code)
    BY <1>4 DEF CgroupUser, CgroupSetup, User
  <2>2. DOMAIN cpc = Clients
    BY <1>0 DEF Shape
  <2>3. /\ cpc'[c] \in {"BAD_MKDIR", "BAD_OPEN", "BAD_CLOSE"}
        /\ \A d \in Clients \ {c} : cpc'[d] = cpc[d]
    BY <2>1, <2>2 DEF Goto
  <2>4. Silent' \subseteq Silent
    BY <2>1, <2>3 DEF Silent
  <2>5. OnceInv'
    BY <1>1, <2>1, <2>4, OnceQuiet DEF MeetingInv
  <2>6. EndsInv'
    BY <1>2, <2>1, <2>3, EndsQuiet DEF MeetingInv
  <2> QED BY <1>2, <2>5, <2>6 DEF MeetingInv
<1> QED BY <1>3, <1>4 DEF CgroupClient

LEMMA MeetingWorker ==
    ASSUME MeetingInv, LeftStays, NEW c \in Clients, CgroupWorker(c)
    PROVE  MeetingInv' /\ OpenedStays
<1>1. UNCHANGED <<cpc, spc, mc, list, cancelled, pipe>>
  BY WorkerKeeps DEF serverVars
<1>2. Exit(Server) \/ UNCHANGED <<alive, endVars>>
  BY DEF CgroupWorker, CgroupAffinity, CgroupScheduler, OpenGroup, JoinGroup,
         cancel_client, WorkerNext, LoadSize, LoadFd, SetAffinity,
         SetScheduler, OpenSegment, Multiply, WriteBack, Reply, StopInPrintf,
         Answer, Crash, ipcVars, endVars
<1>3. OpenedStays
  BY <1>1, OpenedQuiet
<1>4. OnceInv'
  BY <1>1, OnceQuiet DEF MeetingInv, Silent
<1> QED BY <1>1, <1>2, <1>3, <1>4, EndsStays DEF MeetingInv

LEMMA MeetingStep ==
    ASSUME CgroupTypeOK, JoinInv, MeetingInv, [CgroupNext]_allVars
    PROVE  MeetingInv' /\ OpenedStays
<1>0. LeftStays
  BY GroupLeft
<1>1. CASE CgroupHold \/ CgroupInterrupt
  <2>1. /\ UNCHANGED <<pipe, mc, list, cancelled, cpc>>
        /\ Sigint \/ HoldFifoOpen
    BY <1>1 DEF CgroupHold, Hold, HoldFifoOpen, CgroupInterrupt, Interrupt,
                Sigint, workerVars
  <2>2. spc' = spc \/ spc' \notin Searching
    BY <1>1 DEF CgroupHold, Hold, HoldFifoOpen, CgroupInterrupt, Interrupt,
                Sigint, Searching
  <2>3. OpenedStays
    BY <2>1, <2>2, OpenedQuiet
  <2>4. OnceInv'
    BY <2>1, OnceQuiet DEF MeetingInv, Silent
  <2> QED BY <1>0, <2>1, <2>3, <2>4, EndsSignal DEF MeetingInv
<1>2. CASE UNCHANGED allVars
  <2>1. UNCHANGED <<cpc, spc, mc, list, cancelled, pipe, alive, endVars>>
    BY <1>2 DEF allVars, vars, ipcVars, workerVars, serverVars, endVars
  <2>2. OnceInv'
    BY <2>1, OnceQuiet DEF MeetingInv, Silent
  <2>3. OpenedStays
    BY <2>1, OpenedQuiet
  <2> QED BY <1>0, <2>1, <2>2, <2>3, EndsStays DEF MeetingInv
<1> QED
  BY <1>0, <1>1, <1>2, MeetingMain, MeetingClient, MeetingWorker DEF CgroupNext

LEMMA MeetingInit == CgroupInit => MeetingInv
  BY OnceInit, MeetInit DEF CgroupInit, MeetInv, MeetingInv

-----------------------------------------------------------------------------
(* Where the server is, and who put it there.                              *)
LEMMA BudgetQuiet ==
    ASSUME CgroupTypeOK, BudgetInv, UNCHANGED joined, member'[Server] = member[Server],
           \A c \in Clients :
              \/ wpc'[c] \in {wpc[c], "done"}
              \/ wpc[c] \in BeforeGroup /\ wpc'[c] \in BeforeGroup
              \/ wpc[c] \in InGroup /\ wpc'[c] \in InGroup
    PROVE  BudgetInv'
<1>1. \A x \in InGroup \cup {"join"} : x \notin BeforeGroup /\ x # "done"
  BY DEF InGroup, BeforeGroup
<1>2. "done" \notin BeforeGroup
  BY DEF BeforeGroup
<1> QED BY <1>1, <1>2 DEF BudgetInv

LEMMA BudgetWorker ==
    ASSUME CgroupTypeOK, BudgetInv, NEW c \in Clients, CgroupWorker(c)
    PROVE  BudgetInv'
<1>0. /\ wpc \in [Clients -> WorkerSteps \cup {"openGroup", "join"}]
      /\ joined \in [Clients -> Slots] /\ member \in [Processes -> Slots]
      /\ groups \subseteq Clients /\ Server \in Processes
      /\ NoClient \notin Clients
  BY ProcessesAreDistinct DEF CgroupTypeOK, Processes
<1>1. ASSUME wpc[c] = "openGroup", Advance(c, "join"), member' = member,
             cgroup_procs_path \in groups,
             joined' = [joined EXCEPT ![c] = cgroup_procs_path]
      PROVE  BudgetInv'
  <2>1. /\ wpc'[c] = "join" /\ joined'[c] \in Clients
        /\ \A d \in Clients \ {c} : wpc'[d] = wpc[d] /\ joined'[d] = joined[d]
    BY <1>0, <1>1 DEF Advance
  <2>2. joined[c] = NoClient
    BY <1>1 DEF BudgetInv, BeforeGroup
  <2>3. ASSUME NEW d \in Clients, d # c
        PROVE  /\ wpc'[d] \in BeforeGroup => joined'[d] = NoClient
               /\ wpc'[d] \in {"join"} \cup InGroup => joined'[d] \in Clients
               /\ wpc'[d] \in InGroup
                    => \/ member'[Server] = joined'[d]
                       \/ /\ member'[Server] # NoClient
                          /\ \E e \in Clients \ {d} : joined'[e] = member'[Server]
    BY <1>1, <2>1, <2>2, <2>3 DEF BudgetInv
  <2> QED BY <2>1, <2>3 DEF BudgetInv, BeforeGroup, InGroup
<1>2. ASSUME wpc[c] = "join", Advance(c, "segment"), joined' = joined,
             member' = [member EXCEPT ![Server] = joined[c]]
      PROVE  BudgetInv'
  <2>1. /\ wpc'[c] = "segment" /\ member'[Server] = joined[c] /\ joined[c] \in Clients
        /\ \A d \in Clients \ {c} : wpc'[d] = wpc[d]
    BY <1>0, <1>2 DEF Advance, BudgetInv
  <2> QED BY <1>0, <1>2, <2>1 DEF BudgetInv, BeforeGroup, InGroup
<1>3. ASSUME joined' = joined, member' = member,
             \/ wpc'[c] \in {wpc[c], "done"}
             \/ wpc[c] \in BeforeGroup /\ wpc'[c] \in BeforeGroup
             \/ wpc[c] \in InGroup /\ wpc'[c] \in InGroup,
             \A d \in Clients \ {c} : wpc'[d] = wpc[d]
      PROVE  BudgetInv'
  <2>1. \A d \in Clients :
           \/ wpc'[d] \in {wpc[d], "done"}
           \/ wpc[d] \in BeforeGroup /\ wpc'[d] \in BeforeGroup
           \/ wpc[d] \in InGroup /\ wpc'[d] \in InGroup
    BY <1>3
  <2> QED BY <1>3, <2>1, BudgetQuiet
<1>4. CASE OpenGroup(c) \/ JoinGroup(c)
  BY <1>0, <1>1, <1>2, <1>3, <1>4
     DEF OpenGroup, JoinGroup, cancel_client, Answer, Crash, At, Advance
<1>5. CASE CgroupAffinity(c) \/ CgroupScheduler(c)
  BY <1>0, <1>3, <1>5
     DEF CgroupAffinity, CgroupScheduler, cancel_client, Answer, Crash, At,
         Advance, BeforeGroup, cgroupVars
<1>6. CASE /\ wpc[c] \notin {"affinity", "sched"} /\ WorkerNext(c)
           /\ UNCHANGED cgroupVars
  BY <1>0, <1>3, <1>6
     DEF WorkerNext, LoadSize, LoadFd, SetAffinity, SetScheduler, OpenSegment,
         Multiply, WriteBack, Reply, StopInPrintf, Answer, Crash, At, Advance,
         BeforeGroup, InGroup, cgroupVars
<1> QED BY <1>4, <1>5, <1>6 DEF CgroupWorker

LEMMA BudgetStep ==
    ASSUME CgroupTypeOK, JoinInv, OnceInv, BudgetInv, [CgroupNext]_allVars
    PROVE  BudgetInv'
<1>1. CASE CgroupMain
  <2>1. UNCHANGED <<joined, member>>
    BY <1>1 DEF CgroupMain, SegmentNameCopied, CopyPath, PathCopied, StorePath, cgroupVars
  <2>2. CASE wpc' = wpc
    BY <2>1, <2>2, BudgetQuiet
  <2>3. CASE SpawnWorker /\ wpc' = [wpc EXCEPT ![mc] = "size"]
    <3>1. mc \in Clients /\ ~Accepted(mc)
      BY <2>3 DEF SpawnWorker, Before, JoinInv, GroupHandInv, HandInv,
                  RequestInHand, FillSteps, OnceInv
    <3>2. wpc[mc] = "none"
      BY <3>1 DEF JoinInv, WorkersAreAccepted
    <3>3. \A c \in Clients : wpc'[c] = wpc[c] \/ (wpc[c] = "none" /\ wpc'[c] = "size")
      BY <2>3, <3>2 DEF CgroupTypeOK
    <3> QED BY <2>1, <3>3, BudgetQuiet DEF BeforeGroup
  <2> QED
    BY <1>1, <2>2, <2>3
       DEF CgroupMain, SegmentNameCopied, CopyPath, PathCopied, StorePath,
           Main, MainStep, Start, ServerOpenRequest, CreateHold, While,
           ServerRead, ServerOpenReply, ServerReplyOpened, FillSize, FillFd,
           FillPriority, CopyName, NameCopied, Store, SpawnWorker,
           CancelThreads, CloseRequest, CloseReply, UnlinkRequest, Return, SleepInRead, Advance, workerVars
<1>2. CASE CgroupInterrupt
  BY <1>2, InterruptKeeps, BudgetQuiet DEF workerVars, cgroupVars
<1>3. CASE \/ \E c \in Clients : CgroupClient(c) \/ CgroupUser(c)
           \/ CgroupHold \/ UNCHANGED allVars
  <2>1. UNCHANGED <<joined, wpc>>
    BY <1>3, OthersKeep DEF workerVars
  <2>2. member'[Server] = member[Server]
    BY <1>3, ProcessesAreDistinct
       DEF CgroupClient, CgroupUser, CgroupSetup, CgroupHold, allVars,
           cgroupVars, CgroupTypeOK, Processes
  <2> QED BY <2>1, <2>2, BudgetQuiet
<1> QED BY <1>1, <1>2, <1>3, BudgetWorker DEF CgroupNext

LEMMA BudgetInit == CgroupInit => BudgetInv
  BY DEF CgroupInit, Init, WorkerInit, BudgetInv, InGroup

-----------------------------------------------------------------------------
(* Who is named: a segment that was not made lies in no one's hands.       *)
LEMMA NamedMain ==
    ASSUME CgroupTypeOK, UnmadeIsUnnamed, CgroupMain
    PROVE  UnmadeIsUnnamed'
<1>1. /\ UNCHANGED <<cpc, shm, arg>> /\ alive' \subseteq alive
  BY DEF CgroupMain, SegmentNameCopied, CopyPath, PathCopied, StorePath, Main,
         MainStep, Start, ServerOpenRequest, CreateHold, While, ServerRead,
         ServerOpenReply, ServerReplyOpened, FillSize, FillFd, FillPriority,
         CopyName, NameCopied, Store, SpawnWorker, CancelThreads,
         CloseRequest, CloseReply, UnlinkRequest, Return, SleepInRead, Exit, ipcVars, workerVars
<1>2. pthread_args'.shm \in {pthread_args.shm, mc, NoClient}
  BY DEF CgroupMain, SegmentNameCopied, CopyPath, PathCopied, StorePath, Main,
         MainStep, Start, ServerOpenRequest, CreateHold, While, ServerRead,
         ServerOpenReply, ServerReplyOpened, FillSize, FillFd, FillPriority,
         CopyName, NameCopied, Store, SpawnWorker, CancelThreads,
         CloseRequest, CloseReply, UnlinkRequest, Return, SleepInRead, workerVars, CgroupTypeOK
<1>3. CASE UNCHANGED pipe /\ mc' \in {mc, NoClient}
  BY <1>1, <1>2, <1>3, ProcessesAreDistinct DEF UnmadeIsUnnamed
<1>4. CASE /\ pipe # <<>>
           /\ mc' = IF Head(pipe)[2] = 1 THEN Head(pipe)[1] ELSE NoClient
           /\ pipe' = SubSeq(pipe, ReadWords + 1, Len(pipe))
  <2>1. /\ pipe \in Seq(Words) /\ Len(pipe) \in Nat /\ DOMAIN pipe = 1 .. Len(pipe)
        /\ 1 \in DOMAIN pipe /\ Head(pipe) = pipe[1] /\ ReadWords \in Nat
    BY <1>4, LenProperties, EmptySeq, HeadTailProperties, ReadCoversRequest
       DEF CgroupTypeOK, IpcTypeOK
  <2>2. \A i \in DOMAIN pipe' : \E k \in DOMAIN pipe : pipe'[i] = pipe[k]
    <3>1. \A i \in 1 .. Len(pipe) : pipe[i] \in Words
      BY <2>1, ElementOfSeq
    <3>2. /\ SubSeq(pipe, ReadWords + 1, Len(pipe)) \in Seq(Words)
          /\ Len(pipe') = IF ReadWords + 1 <= Len(pipe) + 1 THEN Len(pipe) + 1 - (ReadWords + 1) ELSE 0
          /\ \A i \in 1 .. Len(pipe) + 1 - (ReadWords + 1) : pipe'[i] = pipe[ReadWords + 1 + i - 1]
      BY <1>4, <2>1, <3>1, SubSeqProperties
    <3>3. DOMAIN pipe' = 1 .. Len(pipe')
      BY <1>4, <3>2, LenProperties
    <3>4. ASSUME NEW i \in DOMAIN pipe'
          PROVE  /\ i \in 1 .. Len(pipe) + 1 - (ReadWords + 1)
                 /\ ReadWords + 1 + i - 1 \in 1 .. Len(pipe)
      BY <2>1, <3>2, <3>3
    <3> QED BY <2>1, <3>2, <3>4
  <2> QED
    BY <1>1, <1>2, <1>4, <2>1, <2>2, ProcessesAreDistinct DEF UnmadeIsUnnamed
<1> QED
  BY <1>3, <1>4
     DEF CgroupMain, SegmentNameCopied, CopyPath, PathCopied, StorePath, Main,
         MainStep, Start, ServerOpenRequest, CreateHold, While, ServerRead,
         ServerOpenReply, ServerReplyOpened, FillSize, FillFd, FillPriority,
         CopyName, NameCopied, Store, SpawnWorker, CancelThreads,
         CloseRequest, CloseReply, UnlinkRequest, Return, SleepInRead, ipcVars, workerVars

LEMMA NamedClient ==
    ASSUME CgroupTypeOK, UnmadeIsUnnamed, NEW c \in Clients,
           CgroupClient(c) \/ CgroupUser(c)
    PROVE  UnmadeIsUnnamed'
<1>0. DOMAIN cpc = Clients /\ DOMAIN shm = Clients
  BY DEF CgroupTypeOK, IpcTypeOK
<1>1. UNCHANGED <<mc, pthread_args, arg>>
  BY OthersKeep DEF workerVars
<1>2. \A d \in Clients \ {c} : /\ cpc'[d] = cpc[d] /\ shm'[d] = shm[d]
                               /\ d \in alive' => d \in alive
  BY <1>0 DEF CgroupClient, Client, CgroupUser, CgroupSetup, ClientStep,
              OpenRequest, RequestOpened, Write, OpenReply, ReplyOpened, Read,
              Finish, Setup, Kill, Goto, Exit, ipcVars
<1>3. shm'[c] = "none"
        => c \notin alive' /\ cpc'[c] \in Failed /\ shm[c] = "none"
  BY <1>0 DEF CgroupClient, Client, CgroupUser, CgroupSetup, ClientStep,
              OpenRequest, RequestOpened, Write, OpenReply, ReplyOpened, Read,
              Finish, Setup, Kill, Goto, Exit, ipcVars, UnmadeIsUnnamed, Failed
<1>4. cpc'[c] = "mkfifo" => cpc[c] = "mkfifo" /\ shm'[c] = shm[c]
  BY <1>0 DEF CgroupClient, Client, CgroupUser, CgroupSetup, ClientStep,
              OpenRequest, RequestOpened, Write, OpenReply, ReplyOpened, Read,
              Finish, Setup, Kill, Goto, Exit, ipcVars
<1>5. CASE pipe' = pipe
  BY <1>1, <1>2, <1>3, <1>4, <1>5 DEF UnmadeIsUnnamed
<1>6. CASE pipe' = pipe \o Request(c) /\ cpc[c] = "write"
  <2>1. shm'[c] # "none"
    BY <1>3, <1>6 DEF UnmadeIsUnnamed, Failed
  <2>2. \A i \in DOMAIN pipe' : pipe'[i][1] = c \/ \E k \in DOMAIN pipe : pipe'[i] = pipe[k]
    <3>1. /\ pipe \in Seq(Words) /\ Request(c) \in Seq(Words)
          /\ Len(pipe) \in Nat /\ Len(Request(c)) = MsgWords /\ MsgWords \in Nat
          /\ DOMAIN pipe = 1 .. Len(pipe)
          /\ \A k \in 1 .. MsgWords : Request(c)[k] = <<c, k>>
      BY RequestType, RequestIsNotEmpty, LenProperties DEF CgroupTypeOK, IpcTypeOK, Request
    <3>2. /\ pipe' \in Seq(Words) /\ Len(pipe') = Len(pipe) + MsgWords
          /\ \A i \in 1 .. Len(pipe) + MsgWords :
                pipe'[i] = IF i <= Len(pipe) THEN pipe[i] ELSE Request(c)[i - Len(pipe)]
      BY <1>6, <3>1, ConcatProperties
    <3>3. DOMAIN pipe' = 1 .. Len(pipe) + MsgWords
      BY <3>2, LenProperties
    <3>4. ASSUME NEW i \in 1 .. Len(pipe) + MsgWords, ~(i <= Len(pipe))
          PROVE  i - Len(pipe) \in 1 .. MsgWords
      BY <3>1, <3>4
    <3>5. ASSUME NEW i \in 1 .. Len(pipe) + MsgWords, i <= Len(pipe)
          PROVE  i \in DOMAIN pipe
      BY <3>1, <3>5
    <3> QED BY <3>1, <3>2, <3>3, <3>4, <3>5
  <2> QED
    BY <1>1, <1>2, <1>4, <2>1, <2>2 DEF UnmadeIsUnnamed
<1> QED
  BY <1>0, <1>5, <1>6 DEF CgroupClient, Client, CgroupUser, CgroupSetup, ClientStep,
     OpenRequest, RequestOpened, Write, OpenReply, ReplyOpened, Read, Finish,
     Setup, Kill, ipcVars

LEMMA NamedWorker ==
    ASSUME CgroupTypeOK, UnmadeIsUnnamed, ResultIsThere, NEW c \in Clients,
           CgroupWorker(c)
    PROVE  /\ UnmadeIsUnnamed' /\ ResultIsThere'
           /\ \A d \in Clients : shm'[d] = "none" <=> shm[d] = "none"
<1>0. /\ DOMAIN wpc = Clients /\ DOMAIN C = Clients /\ DOMAIN shm = Clients
      /\ arg \in [Clients -> [size : Slots, fd : Slots, shm : Slots]]
  BY DEF CgroupTypeOK, IpcTypeOK
<1>1. UNCHANGED <<cpc, mc, pipe, pthread_args>>
  BY WorkerKeeps DEF serverVars
<1>2. /\ alive' \subseteq alive
      /\ \A d \in Clients : arg'[d].shm \in {arg[d].shm, pthread_args.shm}
  BY <1>0 DEF CgroupWorker, CgroupAffinity, CgroupScheduler, OpenGroup,
     JoinGroup, cancel_client, WorkerNext, LoadSize, LoadFd, SetAffinity,
     SetScheduler, OpenSegment, Multiply, WriteBack, Reply, StopInPrintf,
     Answer, Crash, Exit, Load, ipcVars
<1>3. ResultIsThere' /\ \A d \in Clients : shm[d] # "none" => shm'[d] # "none"
  <2>1. CASE WorkerNext(c)
    BY <1>0, <2>1, ResultWorker
  <2>2. CASE GroupCall(c)
    BY <1>0, <2>2 DEF GroupCall, CgroupAffinity, CgroupScheduler, OpenGroup,
       JoinGroup, cancel_client, Answer, Crash, Advance, ResultIsThere
  <2> QED BY <2>1, <2>2 DEF CgroupWorker, GroupCall
<1>4. \A d \in Clients : shm'[d] = "none" <=> shm[d] = "none"
  <2>1. shm' = shm \/ shm' = [shm EXCEPT ![arg[c].shm] = C[c]]
    BY DEF CgroupWorker, CgroupAffinity, CgroupScheduler, OpenGroup,
       JoinGroup, WorkerNext, LoadSize, LoadFd, SetAffinity, SetScheduler,
       OpenSegment, Multiply, WriteBack, Reply, StopInPrintf, ipcVars
  <2>2. \A d \in Clients : shm'[d] # shm[d] => d = arg[c].shm
    BY <1>0, <2>1
  <2>3. \A d \in Clients : shm[d] = "none" => shm'[d] = "none"
    BY <2>2 DEF UnmadeIsUnnamed
  <2> QED BY <1>3, <2>3
<1> QED BY <1>1, <1>2, <1>3, <1>4 DEF UnmadeIsUnnamed

-----------------------------------------------------------------------------
(* At most one more worker has ended, and at most one more answer is out.  *)
LEMMA CountMove ==
    ASSUME CgroupTypeOK, CgroupTypeOK', AnswersAreCounted, LeftStays,
           NEW d \in Clients,
           \A c \in Clients :
              \/ /\ EndedWith(c)' = EndedWith(c)
                 /\ ~Left(c)' => AnswersTo(c)' <= AnswersTo(c)
              \/ /\ d \notin EndedWith(c) /\ EndedWith(c)' = EndedWith(c) \cup {d}
                 /\ ~Left(c)' => AnswersTo(c)' <= AnswersTo(c) + 1
    PROVE  AnswersAreCounted'
<1> SUFFICES ASSUME NEW c \in Clients
             PROVE  /\ IsFiniteSet(EndedWith(c)')
                    /\ ~Left(c)' => AnswersTo(c)' <= Cardinality(EndedWith(c)')
  BY DEF AnswersAreCounted
<1>1. /\ IsFiniteSet(EndedWith(c)) /\ Cardinality(EndedWith(c)) \in Nat
      /\ ~Left(c)' => AnswersTo(c) <= Cardinality(EndedWith(c))
  BY FS_CardinalityType DEF AnswersAreCounted, LeftStays
<1>2. replies[c] \in Nat /\ replies'[c] \in Nat
  BY DEF CgroupTypeOK, IpcTypeOK
<1>3. AnswersTo(c) \in Nat /\ AnswersTo(c)' \in Nat
  BY <1>2 DEF AnswersTo
<1>4. /\ IsFiniteSet(EndedWith(c) \cup {d})
      /\ d \notin EndedWith(c)
           => Cardinality(EndedWith(c) \cup {d}) = Cardinality(EndedWith(c)) + 1
  BY <1>1, FS_AddElement
<1>5. CASE /\ EndedWith(c)' = EndedWith(c)
           /\ ~Left(c)' => AnswersTo(c)' <= AnswersTo(c)
  BY <1>1, <1>3, <1>5
<1>6. CASE /\ d \notin EndedWith(c) /\ EndedWith(c)' = EndedWith(c) \cup {d}
           /\ ~Left(c)' => AnswersTo(c)' <= AnswersTo(c) + 1
  <2>1. /\ IsFiniteSet(EndedWith(c)')
        /\ Cardinality(EndedWith(c)') = Cardinality(EndedWith(c)) + 1
    BY <1>4, <1>6
  <2> QED BY <1>1, <1>3, <1>6, <2>1
<1> QED BY <1>5, <1>6

(* The client, and the main thread.                                        *)
LEMMA CountClient ==
    ASSUME CgroupTypeOK, CgroupTypeOK', EndsInv, UnmadeIsUnnamed,
           AnswersAreCounted, LeftStays, NEW c \in Clients, CgroupClient(c) \/ CgroupUser(c)
    PROVE  AnswersAreCounted'
<1>0. /\ DOMAIN cpc = Clients /\ DOMAIN shm = Clients /\ replies \in [Clients -> Nat]
      /\ Server # c
  BY ProcessesAreDistinct DEF CgroupTypeOK, IpcTypeOK
<1>1. \A x \in Clients : EndedWith(x)' = EndedWith(x)
  BY OthersKeep DEF workerVars, EndedWith
<1>2. /\ \A d \in Clients \ {c} : cpc'[d] = cpc[d] /\ shm'[d] = shm[d] /\ replies'[d] = replies[d]
  BY <1>0 DEF CgroupClient, Client, CgroupUser, CgroupSetup, ClientStep,
              OpenRequest, RequestOpened, Write, OpenReply, ReplyOpened, Read,
              Finish, Setup, Kill, Goto, ipcVars
<1>3. \A d \in Clients \ {c} : AnswersTo(d)' = AnswersTo(d)
  BY <1>2 DEF AnswersTo
<1>4. ~Left(c)' => AnswersTo(c)' <= AnswersTo(c)
  <2>1. CASE Read(c)
    <3>1. ~Left(c)' => HasWriter(c)
      <4>1. Meets(c) /\ Server \in Processes /\ cpc[c] = "read"
        BY <2>1 DEF Read, EndsInv, ReaderMeetsWriter, Processes
      <4> QED BY <4>1 DEF Meets, HasWriter, LeftStays
    <3>2. shm' = shm /\ cpc[c] = "read"
      BY <2>1 DEF Read
    <3>3. \/ cpc'[c] = "BAD_READ" /\ replies' = replies
          \/ ~Left(c)' => replies'[c] = replies[c] - 1
      BY <1>0, <2>1, <3>1 DEF Read, Goto
    <3> QED BY <1>0, <3>2, <3>3 DEF AnswersTo
  <2>2. CASE ~Read(c)
    <3>1. replies'[c] = replies[c]
      BY <2>2 DEF CgroupClient, Client, CgroupUser, CgroupSetup, ClientStep,
         OpenRequest, RequestOpened, Write, OpenReply, ReplyOpened, Finish,
         Setup, Kill, ipcVars
    <3> DEFINE Told == {"report", "SUCCESS", "BAD_CLOSE", "BAD_UNLINK"}
    <3>2. (cpc'[c] \in Told /\ shm'[c] # "none")
            => (cpc[c] \in Told /\ shm[c] # "none")
      <4>1. CASE CgroupSetup(c)
        <5>1. cpc[c] = "mkfifo" /\ shm[c] = "none"
          BY <4>1 DEF CgroupSetup, Setup, UnmadeIsUnnamed
        <5> QED BY <1>0, <4>1, <5>1 DEF CgroupSetup, Setup, Goto
      <4>2. CASE ~CgroupSetup(c)
        <5>1. shm' = shm
          BY <2>2, <4>2 DEF CgroupClient, Client, CgroupUser, ClientStep,
             OpenRequest, RequestOpened, Write, OpenReply, ReplyOpened, Finish,
             Kill, ipcVars
        <5>2. cpc'[c] \in Told => cpc[c] = "report"
          BY <1>0, <2>2, <4>2 DEF CgroupClient, Client, CgroupUser, ClientStep,
             OpenRequest, RequestOpened, Write, OpenReply, ReplyOpened, Finish,
             Kill, Goto
        <5> QED BY <5>1, <5>2
      <4> QED BY <4>1, <4>2
    <3> QED BY <1>0, <3>1, <3>2 DEF AnswersTo
  <2> QED BY <2>1, <2>2
<1>5. \A d \in Clients \ {c} : AnswersTo(d)' <= AnswersTo(d)
  BY <1>0, <1>3 DEF AnswersTo
<1> QED BY <1>1, <1>4, <1>5, CountMove

LEMMA CountMain ==
    ASSUME CgroupTypeOK, CgroupTypeOK', AnswersAreCounted, LeftStays,
           JoinInv, OnceInv, CgroupMain
    PROVE  AnswersAreCounted'
<1>1. UNCHANGED <<cpc, shm, replies, arg>>
  BY DEF CgroupMain, SegmentNameCopied, CopyPath, PathCopied, StorePath, Main,
         MainStep, Start, ServerOpenRequest, CreateHold, While, ServerRead,
         ServerOpenReply, ServerReplyOpened, FillSize, FillFd, FillPriority,
         CopyName, NameCopied, Store, SpawnWorker, CancelThreads,
         CloseRequest, CloseReply, UnlinkRequest, Return, SleepInRead,
         ipcVars, workerVars
<1>2. \A d \in Clients : wpc'[d] = "done" <=> wpc[d] = "done"
  <2>1. CASE SpawnWorker /\ wpc' = [wpc EXCEPT ![mc] = "size"]
    <3>1. mc \in Clients /\ ~Accepted(mc)
      BY <2>1 DEF SpawnWorker, Before, JoinInv, GroupHandInv, HandInv,
                  RequestInHand, FillSteps, OnceInv
    <3>2. wpc[mc] = "none"
      BY <3>1 DEF JoinInv, WorkersAreAccepted
    <3> QED BY <2>1, <3>2 DEF CgroupTypeOK
  <2> QED
    BY <2>1
       DEF CgroupMain, SegmentNameCopied, CopyPath, PathCopied, StorePath,
           Main, MainStep, Start, ServerOpenRequest, CreateHold, While,
           ServerRead, ServerOpenReply, ServerReplyOpened, FillSize, FillFd,
           FillPriority, CopyName, NameCopied, Store, SpawnWorker,
           CancelThreads, CloseRequest, CloseReply, UnlinkRequest, Return, SleepInRead, Advance, workerVars
<1>3. \A c \in Clients : EndedWith(c)' = EndedWith(c) /\ AnswersTo(c)' = AnswersTo(c)
  BY <1>1, <1>2 DEF EndedWith, AnswersTo
<1> QED BY <1>3 DEF AnswersAreCounted, LeftStays

(* A worker answers at most once, and then it has ended.                   *)
LEMMA CountWorker ==
    ASSUME CgroupTypeOK, CgroupTypeOK', UnmadeIsUnnamed, ResultIsThere,
           AnswersAreCounted, LeftStays, NEW c \in Clients, CgroupWorker(c)
    PROVE  AnswersAreCounted'
<1>0. /\ wpc \in [Clients -> WorkerSteps \cup {"openGroup", "join"}]
      /\ arg \in [Clients -> [size : Slots, fd : Slots, shm : Slots]]
      /\ replies \in [Clients -> Nat]
  BY DEF CgroupTypeOK, IpcTypeOK
<1>1. cpc' = cpc /\ \A d \in Clients : shm'[d] = "none" <=> shm[d] = "none"
  BY WorkerKeeps, NamedWorker
<1>3. wpc[c] # "done" /\ \A d \in Clients \ {c} : wpc'[d] = wpc[d] /\ arg'[d] = arg[d]
  BY <1>0 DEF CgroupWorker, CgroupAffinity, CgroupScheduler, OpenGroup,
     JoinGroup, cancel_client, WorkerNext, LoadSize, LoadFd, SetAffinity,
     SetScheduler, OpenSegment, Multiply, WriteBack, Reply, StopInPrintf, At,
     Answer, Crash, Advance, Load
<1>4. \/ wpc'[c] # "done" /\ replies' = replies
      \/ /\ wpc'[c] = "done" /\ arg'[c].fd = arg[c].fd
         /\ replies' \in {replies, [replies EXCEPT ![arg[c].fd] = @ + 1]}
  BY <1>0 DEF CgroupWorker, CgroupAffinity, CgroupScheduler, OpenGroup,
     JoinGroup, cancel_client, WorkerNext, LoadSize, LoadFd, SetAffinity,
     SetScheduler, OpenSegment, Multiply, WriteBack, Reply, StopInPrintf, At,
     Answer, Crash, Advance, Load, ipcVars
<1>5. ASSUME NEW x \in Clients
      PROVE  \/ /\ EndedWith(x)' = EndedWith(x)
                /\ AnswersTo(x)' <= AnswersTo(x)
             \/ /\ c \notin EndedWith(x) /\ EndedWith(x)' = EndedWith(x) \cup {c}
                /\ AnswersTo(x)' <= AnswersTo(x) + 1
  <2>0. replies[x] \in Nat /\ replies'[x] - replies[x] = AnswersTo(x)' - AnswersTo(x)
        /\ AnswersTo(x) \in Nat /\ AnswersTo(x)' \in Nat /\ replies'[x] \in Nat
    <3>1. replies[x] \in Nat /\ replies'[x] \in Nat
      BY DEF CgroupTypeOK, IpcTypeOK
    <3> QED BY <1>1, <3>1 DEF AnswersTo
  <2>1. CASE wpc'[c] # "done" /\ replies' = replies
    <3>1. EndedWith(x)' = EndedWith(x)
      BY <1>3, <2>1 DEF EndedWith
    <3> QED BY <2>0, <2>1, <3>1
  <2>2. CASE /\ wpc'[c] = "done" /\ arg'[c].fd = arg[c].fd
             /\ replies' \in {replies, [replies EXCEPT ![arg[c].fd] = @ + 1]}
    <3>1. CASE arg[c].fd = x
      <4>1. c \notin EndedWith(x) /\ EndedWith(x)' = EndedWith(x) \cup {c}
        BY <1>3, <2>2, <3>1 DEF EndedWith
      <4>2. replies'[x] <= replies[x] + 1
        BY <1>0, <2>2
      <4> QED BY <2>0, <4>1, <4>2
    <3>2. CASE arg[c].fd # x
      <4>1. EndedWith(x)' = EndedWith(x)
        BY <1>3, <2>2, <3>2 DEF EndedWith
      <4>2. replies'[x] = replies[x]
        BY <1>0, <2>2, <3>2
      <4> QED BY <2>0, <4>1, <4>2
    <3> QED BY <3>1, <3>2
  <2> QED BY <1>4, <2>1, <2>2
<1> QED BY <1>5, CountMove

LEMMA CountStep ==
    ASSUME CgroupTypeOK, CgroupTypeOK', JoinInv, MeetingInv, CountInv,
           [CgroupNext]_allVars
    PROVE  CountInv'
<1>0. LeftStays
  BY GroupLeft
<1>1. ASSUME NEW c \in Clients, CgroupClient(c) \/ CgroupUser(c)
      PROVE  CountInv'
  <2>1. UNCHANGED <<wpc, C>>
    BY <1>1, OthersKeep DEF workerVars
  <2> QED BY <1>0, <1>1, <2>1, NamedClient, CountClient DEF CountInv, MeetingInv, ResultIsThere
<1>2. CASE CgroupMain
  <2>1. ResultIsThere'
    <3>1. C' = C /\ (wpc' = wpc \/ wpc' = [wpc EXCEPT ![mc] = "size"])
      BY <1>2
       DEF CgroupMain, SegmentNameCopied, CopyPath, PathCopied, StorePath,
           Main, MainStep, Start, ServerOpenRequest, CreateHold, While,
           ServerRead, ServerOpenReply, ServerReplyOpened, FillSize, FillFd,
           FillPriority, CopyName, NameCopied, Store, SpawnWorker,
           CancelThreads, CloseRequest, CloseReply, UnlinkRequest, Return, SleepInRead, Advance, workerVars
    <3> QED BY <3>1 DEF CountInv, ResultIsThere, CgroupTypeOK
  <2> QED BY <1>0, <1>2, <2>1, NamedMain, CountMain DEF CountInv, MeetingInv
<1>3. ASSUME NEW c \in Clients, CgroupWorker(c)
      PROVE  CountInv'
  BY <1>0, <1>3, NamedWorker, CountWorker DEF CountInv
<1>4. CASE CgroupHold \/ CgroupInterrupt \/ UNCHANGED allVars
  <2>1. /\ UNCHANGED <<cpc, shm, replies, pipe, mc, wpc, arg, C, pthread_args>>
        /\ alive' \subseteq alive
    BY <1>4 DEF CgroupHold, Hold, HoldFifoOpen, CgroupInterrupt, Interrupt,
         Sigint, Exit, allVars, vars, ipcVars, workerVars, serverVars
  <2>2. \A c \in Clients : EndedWith(c)' = EndedWith(c) /\ AnswersTo(c)' = AnswersTo(c)
    BY <2>1 DEF EndedWith, AnswersTo
  <2> QED
    BY <1>0, <2>1, <2>2 DEF CountInv, UnmadeIsUnnamed, ResultIsThere,
                            AnswersAreCounted, LeftStays
<1> QED BY <1>1, <1>2, <1>3, <1>4 DEF CgroupNext

LEMMA CountInit == CgroupInit => CountInv
<1> SUFFICES ASSUME CgroupInit PROVE CountInv
  OBVIOUS
<1>1. /\ alive = {Server} /\ Server \notin Clients /\ mc = NoClient /\ NoClient \notin Clients
      /\ pthread_args.shm = NoClient /\ pipe = <<>> /\ DOMAIN pipe = {}
      /\ \A c \in Clients : /\ cpc[c] = "mkfifo" /\ shm[c] = "none" /\ replies[c] = 0
                            /\ wpc[c] = "none" /\ arg[c].shm = NoClient
  BY ProcessesAreDistinct
     DEF CgroupInit, Init, IpcInit, ClientInit, WorkerInit, ServerInit, NothingLoaded
<1>2. \A c \in Clients : EndedWith(c) = {} /\ AnswersTo(c) = 0
  BY <1>1 DEF EndedWith, AnswersTo
<1>3. IsFiniteSet({}) /\ Cardinality({}) = 0
  BY FS_EmptySet
<1>4. UnmadeIsUnnamed
  BY <1>1 DEF UnmadeIsUnnamed, Failed
<1>5. ResultIsThere
  BY <1>1 DEF ResultIsThere
<1>6. AnswersAreCounted
  BY <1>2, <1>3 DEF AnswersAreCounted
<1> QED BY <1>4, <1>5, <1>6 DEF CountInv

-----------------------------------------------------------------------------
(* The files that a request names.                                         *)
LEMMA FilesClient ==
    ASSUME CgroupTypeOK, UnmadeIsUnnamed, EndsInv, FilesInv, OpenedStays,
           NEW c \in Clients, CgroupClient(c) \/ CgroupUser(c)
    PROVE  FilesInv'
<1>0. DOMAIN cpc = Clients /\ DOMAIN shm = Clients
  BY DEF CgroupTypeOK, IpcTypeOK
<1>1. \A d \in Clients \ {c} : /\ cpc'[d] = cpc[d] /\ shm'[d] = shm[d]
                               /\ d \in paths => d \in paths'
                               /\ d \in alive' => d \in alive
  BY <1>0 DEF CgroupClient, Client, CgroupUser, CgroupSetup, ClientStep,
              OpenRequest, RequestOpened, Write, OpenReply, ReplyOpened, Read,
              Finish, Setup, Kill, Goto, Exit, ipcVars
<1>2. cpc[c] = "mkfifo" => shm[c] = "none"
  BY DEF UnmadeIsUnnamed
<1>3. \/ LeftOpen(c)' => LeftOpen(c)
      \/ cpc[c] = "inOpenReply" /\ <<c, c>> \notin asleep
  BY <1>0, <1>2 DEF CgroupClient, Client, CgroupUser, CgroupSetup, ClientStep,
              OpenRequest, RequestOpened, Write, OpenReply, ReplyOpened, Read,
              Finish, Setup, Kill, Goto, ipcVars, LeftOpen
<1>4. /\ shm'[c] # "none" => c \in paths' \/ cpc'[c] = "SUCCESS"
      /\ c \in alive' => cpc'[c] # "SUCCESS"
  BY <1>0, <1>2 DEF CgroupClient, Client, CgroupUser, CgroupSetup, ClientStep,
              OpenRequest, RequestOpened, Write, OpenReply, ReplyOpened, Read,
              Finish, Setup, Kill, Goto, Exit, ipcVars, FilesInv
<1>5. LeftOpen(c)' => Opened(c)'
  <2>1. CASE LeftOpen(c)
    BY <2>1 DEF FilesInv, OpenedStays
  <2>2. CASE cpc[c] = "inOpenReply" /\ <<c, c>> \notin asleep
    <3>1. Meets(c)
      BY <2>2 DEF EndsInv, ReaderMeetsWriter
    <3>2. Opened(c)
      BY <2>2, <3>1 DEF Meets, EndsInv, UnopenedHasNoWriter
    <3> QED BY <3>2 DEF OpenedStays
  <2> QED BY <1>3, <2>1, <2>2
<1>6. ASSUME NEW d \in Clients \ {c}
      PROVE  /\ LeftOpen(d)' => Opened(d)'
             /\ shm'[d] # "none" => d \in paths' \/ cpc'[d] = "SUCCESS"
             /\ d \in alive' => cpc'[d] # "SUCCESS"
  <2>1. LeftOpen(d)' => LeftOpen(d)
    BY <1>1 DEF LeftOpen
  <2>2. LeftOpen(d) => Opened(d)'
    BY DEF FilesInv, OpenedStays
  <2> QED BY <1>1, <2>1, <2>2 DEF FilesInv
<1> QED BY <1>4, <1>5, <1>6 DEF FilesInv

LEMMA FilesQuiet ==
    ASSUME FilesInv, OpenedStays, cpc' = cpc, alive' \subseteq alive,
           \A c \in Clients : /\ (c \in paths => c \in paths')
                             /\ (shm'[c] = "none" <=> shm[c] = "none")
    PROVE  FilesInv'
  BY DEF FilesInv, LeftOpen, OpenedStays

LEMMA FilesStep ==
    ASSUME CgroupTypeOK, JoinInv, MeetingInv, CountInv, FilesInv, [CgroupNext]_allVars
    PROVE  FilesInv'
<1>0. OpenedStays /\ Server \notin Clients
  BY MeetingStep, ProcessesAreDistinct
<1>1. ASSUME NEW c \in Clients, CgroupClient(c) \/ CgroupUser(c)
      PROVE  FilesInv'
  BY <1>0, <1>1, FilesClient DEF MeetingInv, CountInv
<1>2. ASSUME NEW c \in Clients, CgroupWorker(c)
      PROVE  FilesInv'
  <2>1. \A d \in Clients : shm'[d] = "none" <=> shm[d] = "none"
    BY <1>2, NamedWorker DEF CountInv
  <2>2. cpc' = cpc /\ paths' = paths
    BY <1>2, WorkerKeeps
  <2>3. alive' \subseteq alive
    BY <1>2 DEF CgroupWorker, CgroupAffinity, CgroupScheduler, OpenGroup,
       JoinGroup, cancel_client, WorkerNext, LoadSize, LoadFd, SetAffinity,
       SetScheduler, OpenSegment, Multiply, WriteBack, Reply, StopInPrintf,
       Answer, Crash, Exit, ipcVars
  <2> QED BY <1>0, <2>1, <2>2, <2>3, FilesQuiet
<1>3. CASE CgroupMain \/ CgroupHold \/ CgroupInterrupt \/ UNCHANGED allVars
  <2>1. /\ cpc' = cpc /\ shm' = shm /\ alive' \subseteq alive
        /\ paths' \in {paths, paths \cup {Server}, paths \ {Server}}
    BY <1>3 DEF CgroupMain, SegmentNameCopied, CopyPath, PathCopied, StorePath,
           Main, MainStep, Start, ServerOpenRequest, CreateHold, While,
           ServerRead, ServerOpenReply, ServerReplyOpened, FillSize, FillFd,
           FillPriority, CopyName, NameCopied, Store, SpawnWorker,
           CancelThreads, CloseRequest, CloseReply, UnlinkRequest, Return, SleepInRead, CgroupHold, Hold, HoldFifoOpen,
           CgroupInterrupt, Interrupt, Sigint, Exit, allVars, vars, ipcVars
  <2> QED BY <1>0, <2>1, FilesQuiet
<1> QED BY <1>1, <1>2, <1>3 DEF CgroupNext

LEMMA FilesInit == CgroupInit => FilesInv
  BY DEF CgroupInit, Init, IpcInit, ClientInit, FilesInv, LeftOpen

-----------------------------------------------------------------------------
(* The inductive invariant holds throughout.                               *)
LEMMA CgroupCorrect == CgroupSpec => []CgroupInv
<1>1. CgroupInv /\ [CgroupNext]_allVars => CgroupInv'
  BY GroupTypeStep, JoinStep, MeetingStep, BudgetStep, CountStep, FilesStep
     DEF CgroupInv, JoinInv, MeetingInv
<1>2. CgroupInit => CgroupInv
  BY JoinInit, MeetingInit, BudgetInit, CountInit, FilesInit DEF CgroupInv
<1> QED BY <1>1, <1>2, PTL DEF CgroupSpec

(* Every variable keeps its type (cgroup_implementation).                  *)
THEOREM CgroupTypes == CgroupSpec => []CgroupTypeOK
<1>1. CgroupInv => CgroupTypeOK
  BY DEF CgroupInv
<1> QED BY <1>1, CgroupCorrect, PTL

(* A worker puts the server into the cgroup of its own client or of one    *)
(* accepted later (dense_mm.c reads args->cgroup_procs_path while          *)
(* server_fifo.c refills it).                                              *)
THEOREM PathGoesForward == CgroupSpec => []JoinGoesForward
<1>1. CgroupInv => JoinGoesForward
  BY DEF CgroupInv, JoinInv, JoinedForward, JoinGoesForward, PathStored, Storing,
         FillSteps
<1> QED BY <1>1, CgroupCorrect, PTL

(* The server leaves the cgroup of a client it computes for only because   *)
(* another worker joined another one (dense_mm.c writes getpid(), the pid  *)
(* of the server, to the cgroup).                                          *)
THEOREM OnlyWorkersMoveTheServer == CgroupSpec => []BudgetLostToAnotherWorker
<1>1. CgroupInv => BudgetLostToAnotherWorker
  BY DEF CgroupInv, BudgetInv, BudgetLostToAnotherWorker, InGroup
<1> QED BY <1>1, CgroupCorrect, PTL

(* No client gets more answers than workers ended with its descriptor,     *)
(* until main closes that to exit (dense_mm.c of cgroup_implementation,    *)
(* cancel_client).                                                         *)
THEOREM WorkersAnswerOnce == CgroupSpec => []OneAnswerPerWorker
<1>1. CgroupInv => OneAnswerPerWorker
  BY DEF CgroupInv, CountInv, AnswersAreCounted, OneAnswerPerWorker, EndedWith, Left
<1> QED BY <1>1, CgroupCorrect, PTL

(* What fifo_threaded guarantees its clients, cgroup_implementation does:  *)
(* one thread per request, and end-of-file only from a server that is gone *)
(* or has closed the client's FIFO to exit (the loop of main and the close *)
(* calls behind it in its server_fifo.c, the read of its client_fifo.c).   *)
THEOREM CgroupOneWorkerPerRequest == CgroupSpec => []NoDuplicateWorkers
<1>1. CgroupInv => NoDuplicateWorkers
  BY DEF CgroupInv, MeetingInv, OnceInv
<1> QED BY <1>1, CgroupCorrect, PTL

THEOREM CgroupEofOnlyAtShutdown == CgroupSpec => EofMeansShutdown
<1> DEFINE FalseEof == \E c \in Clients : /\ cpc[c] = "read" /\ replies[c] = 0
                                         /\ cpc'[c] = "report" /\ ~Left(c)
<1>1. CgroupInv /\ [CgroupNext]_allVars => ~FalseEof
  <2> SUFFICES ASSUME CgroupInv, [CgroupNext]_allVars, NEW c \in Clients,
                      cpc[c] = "read", replies[c] = 0, cpc'[c] = "report"
               PROVE  Left(c)
    OBVIOUS
  <2>1. DOMAIN cpc = Clients
    BY DEF CgroupInv, CgroupTypeOK
  <2>2. PICK d \in Clients : CgroupClient(d) \/ CgroupUser(d)
    BY DEF CgroupNext, CgroupMain, CgroupWorker, CgroupHold, CgroupInterrupt,
           Main, Hold, Interrupt, SegmentNameCopied, CopyPath, PathCopied,
           StorePath, allVars, vars
  <2>3. d = c
    BY <2>1, <2>2 DEF CgroupClient, Client, ClientStep, CgroupUser, CgroupSetup,
       OpenRequest, RequestOpened, Write, OpenReply, ReplyOpened, Read, Finish,
       Setup, Kill, Goto
  <2>4. Read(c)
    BY <2>1, <2>2, <2>3 DEF CgroupClient, Client, ClientStep, CgroupUser,
       CgroupSetup, OpenRequest, RequestOpened, Write, OpenReply, ReplyOpened,
       Finish, Setup, Kill, Goto
  <2>5. <<Server, c>> \notin writers
    <3>1. ~HasWriter(c)
      BY <2>1, <2>4 DEF Read, Goto
    <3> QED BY <3>1 DEF HasWriter, Processes
  <2>6. Meets(c)
    BY DEF CgroupInv, MeetingInv, EndsInv, ReaderMeetsWriter
  <2> QED BY <2>5, <2>6 DEF Meets
<1>2. CgroupInv /\ [CgroupNext]_allVars
        => [\A c \in Clients : cpc[c] = "read" /\ replies[c] = 0 /\ cpc'[c] = "report"
                                => Left(c)]_vars
  BY <1>1
<1> QED BY <1>2, CgroupCorrect, PTL DEF CgroupSpec, EofMeansShutdown, Left

(* In cgroup_implementation too the reply FIFO and the segment a request   *)
(* names are there when main opens the FIFO: a client that fails after     *)
(* mkfifo, as with a cgroup of an earlier process of its pid, has not      *)
(* asked, and one that asked unlinks only after its answer (client_fifo.c).*)
THEOREM CgroupRequestsAreLive == CgroupSpec => []RequestNamesLiveObjects
<1>1. CgroupInv => RequestNamesLiveObjects
  <2> SUFFICES ASSUME CgroupInv, spc = "openReply", mc \in Clients
               PROVE  mc \in paths /\ shm[mc] # "none"
    BY DEF RequestNamesLiveObjects
  <2>1. shm[mc] # "none"
    BY DEF CgroupInv, CountInv, UnmadeIsUnnamed
  <2>2. ~Opened(mc)
    BY DEF CgroupInv, MeetingInv, OnceInv, Opened, Searching
  <2>3. cpc[mc] # "SUCCESS"
    BY <2>2 DEF CgroupInv, FilesInv, LeftOpen
  <2> QED BY <2>1, <2>3 DEF CgroupInv, FilesInv
<1> QED BY <1>1, CgroupCorrect, PTL
=============================================================================
