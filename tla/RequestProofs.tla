--------------------------- MODULE RequestProofs ---------------------------
(***************************************************************************)
(* What becomes of a request, for any number of clients and any length of  *)
(* a read.  It is accepted at most once: the inductive invariant OnceInv   *)
(* says where a request can be, and implies NoDuplicateWorkers.  And the   *)
(* client and the server meet on the client's reply FIFO (MeetInv): until  *)
(* the server has opened it, the client sleeps in its own open, and the    *)
(* names of the request stay good (RequestNamesLiveObjects); from then on  *)
(* the server is the writer that keeps end-of-file from the client, until  *)
(* it closes its descriptors to exit (EofMeansShutdown).                   *)
(***************************************************************************)
EXTENDS SlotProofs

(* The order of main's calls, as far as requests depend on it.             *)
HandInv == RequestInHand /\ ListIsEmptyFirst /\ CancelIsLast

Accepted(p) == \E i \in DOMAIN Started : Started[i] = p

(* The clients that have not sent their request, or never will.  One whose *)
(* open failed may have sent it.                                           *)
Silent == {c \in Clients :
             cpc[c] \in {"mkfifo", "openRequest", "inOpenRequest", "write",
                         "BAD_FIFO", "BAD_SHM_OPEN", "BAD_TRUNCATE",
                         "BAD_MMAP", "BAD_WRITE"}}

(* No word is in the FIFO twice.  A request is in one place at most: whole *)
(* in the FIFO, in mc, or accepted.                                        *)
WordsAreDistinct ==
    \A i, j \in DOMAIN pipe : pipe[i] = pipe[j] => i = j
QueuedOnlyInPipe ==
    \A i \in DOMAIN pipe :
        pipe[i][2] = 1 => pipe[i][1] # mc /\ ~Accepted(pipe[i][1])
SilentNowhere ==
    \A c \in Silent : /\ mc # c /\ ~Accepted(c)
                      /\ \A i \in DOMAIN pipe : pipe[i][1] # c
OnceInv == /\ NoDuplicateWorkers /\ ~Accepted(mc)
           /\ WordsAreDistinct /\ QueuedOnlyInPipe /\ SilentNowhere

-----------------------------------------------------------------------------
(* A step that leaves requests where they are.                             *)
LEMMA OnceQuiet ==
    ASSUME OnceInv, UNCHANGED <<pipe, mc, list, cancelled>>, Silent' \subseteq Silent
    PROVE  OnceInv'
<1>1. Started' = Started
  BY DEF Started
<1>2. \A p : Accepted(p)' <=> Accepted(p)
  BY <1>1 DEF Accepted
<1> QED
  BY <1>1, <1>2 DEF OnceInv, NoDuplicateWorkers, Accepted, WordsAreDistinct,
                    QueuedOnlyInPipe, SilentNowhere

(* A client asks once.                                                     *)
LEMMA OnceWrite ==
    ASSUME Shape, OnceInv, NEW c \in Clients, Client(c), pipe' # pipe
    PROVE  OnceInv'
<1>1. /\ cpc[c] = "write" /\ cpc' = [cpc EXCEPT ![c] = "openReply"]
      /\ pipe' = pipe \o Request(c)
      /\ UNCHANGED <<mc, list, cancelled>>
  BY DEF Client, ClientStep, OpenRequest, RequestOpened, Write, OpenReply,
         ReplyOpened, Read, Finish, ipcVars, Goto, workerVars, serverVars
<1>2. c \in Silent /\ Silent' \subseteq Silent \ {c}
  BY <1>1 DEF Silent, Shape
<1>3. Started' = Started /\ \A p : Accepted(p)' <=> Accepted(p)
  BY <1>1 DEF Started, Accepted
<1>4. /\ pipe \in Seq(Words) /\ Request(c) \in Seq(Words)
      /\ Len(pipe) \in Nat /\ Len(Request(c)) = MsgWords
      /\ DOMAIN pipe = 1 .. Len(pipe)
      /\ \A k \in 1 .. MsgWords : Request(c)[k] = <<c, k>>
  BY RequestType, RequestIsNotEmpty, LenProperties DEF Shape, IpcTypeOK, Request
<1>5. /\ DOMAIN pipe' = 1 .. (Len(pipe) + MsgWords)
      /\ \A i \in DOMAIN pipe : pipe'[i] = pipe[i]
      /\ \A i \in DOMAIN pipe' \ DOMAIN pipe : pipe'[i] = <<c, i - Len(pipe)>>
  <2>1. /\ pipe' \in Seq(Words) /\ Len(pipe') = Len(pipe) + MsgWords
        /\ \A i \in 1 .. Len(pipe) + MsgWords :
              pipe'[i] = IF i <= Len(pipe) THEN pipe[i] ELSE Request(c)[i - Len(pipe)]
    BY <1>1, <1>4, ConcatProperties
  <2>2. DOMAIN pipe' = 1 .. (Len(pipe) + MsgWords)
    BY <2>1, LenProperties
  <2>3. ASSUME NEW i \in DOMAIN pipe' \ DOMAIN pipe
        PROVE  pipe'[i] = <<c, i - Len(pipe)>>
    <3>1. i - Len(pipe) \in 1 .. MsgWords /\ ~(i <= Len(pipe)) /\ i \in 1 .. Len(pipe) + MsgWords
      BY <1>4, <2>2, <2>3, RequestIsNotEmpty
    <3> QED BY <1>4, <2>1, <3>1
  <2>4. ASSUME NEW i \in DOMAIN pipe
        PROVE  pipe'[i] = pipe[i]
    BY <1>4, <2>1, RequestIsNotEmpty
  <2> QED BY <2>2, <2>3, <2>4
<1>6. \A i \in DOMAIN pipe : pipe[i][1] # c
  BY <1>2 DEF OnceInv, SilentNowhere
<1>7. WordsAreDistinct'
  <2> SUFFICES ASSUME NEW i \in DOMAIN pipe', NEW j \in DOMAIN pipe',
                      pipe'[i] = pipe'[j]
               PROVE  i = j
    BY DEF WordsAreDistinct
  <2>1. CASE i \in DOMAIN pipe /\ j \in DOMAIN pipe
    BY <1>5, <2>1 DEF OnceInv, WordsAreDistinct
  <2>2. CASE i \in DOMAIN pipe /\ j \notin DOMAIN pipe
    BY <1>5, <1>6, <2>2
  <2>3. CASE i \notin DOMAIN pipe /\ j \in DOMAIN pipe
    BY <1>5, <1>6, <2>3
  <2>4. CASE i \notin DOMAIN pipe /\ j \notin DOMAIN pipe
    <3>1. pipe'[i] = <<c, i - Len(pipe)>> /\ pipe'[j] = <<c, j - Len(pipe)>>
      BY <1>5, <2>4
    <3>2. \A k, l : <<c, k>> = <<c, l>> => k = l
      OBVIOUS
    <3>3. i \in Nat /\ j \in Nat
      BY <1>4, <1>5, RequestIsNotEmpty
    <3>4. i - Len(pipe) = j - Len(pipe)
      BY <3>1, <3>2, Zenon
    <3> QED BY <1>4, <3>3, <3>4
  <2> QED BY <2>1, <2>2, <2>3, <2>4
<1>8. QueuedOnlyInPipe'
  <2> SUFFICES ASSUME NEW i \in DOMAIN pipe', pipe'[i][2] = 1
               PROVE  pipe'[i][1] # mc /\ ~Accepted(pipe'[i][1])
    BY <1>1, <1>3 DEF QueuedOnlyInPipe
  <2>1. CASE i \in DOMAIN pipe
    BY <1>5, <2>1 DEF OnceInv, QueuedOnlyInPipe
  <2>2. CASE i \notin DOMAIN pipe
    BY <1>2, <1>5, <2>2 DEF OnceInv, SilentNowhere
  <2> QED BY <2>1, <2>2
<1>9. SilentNowhere'
  <2> SUFFICES ASSUME NEW d \in Silent'
               PROVE  /\ mc # d /\ ~Accepted(d)
                      /\ \A i \in DOMAIN pipe' : pipe'[i][1] # d
    BY <1>1, <1>3 DEF SilentNowhere
  <2>1. d \in Silent /\ d # c
    BY <1>2
  <2> QED BY <1>5, <2>1 DEF OnceInv, SilentNowhere
<1> QED BY <1>1, <1>3, <1>7, <1>8, <1>9 DEF OnceInv, NoDuplicateWorkers

(* A request goes from the FIFO to mc.                                     *)
LEMMA OnceRead ==
    ASSUME Shape, OnceInv, ServerRead, pipe' # pipe, UNCHANGED cpc
    PROVE  OnceInv'
<1>1. /\ pipe # <<>>
      /\ mc' = IF Head(pipe)[2] = 1 THEN Head(pipe)[1] ELSE NoClient
      /\ pipe' = SubSeq(pipe, ReadWords + 1, Len(pipe))
      /\ UNCHANGED <<list, cancelled>>
  BY DEF ServerRead, workerVars
<1>2. Started' = Started /\ (\A p : Accepted(p)' <=> Accepted(p)) /\ Silent' = Silent
  BY <1>1 DEF Started, Accepted, Silent
<1>3. /\ pipe \in Seq(Words) /\ Len(pipe) \in Nat /\ DOMAIN pipe = 1 .. Len(pipe)
      /\ 1 \in DOMAIN pipe /\ Head(pipe) = pipe[1] /\ ReadWords \in Nat /\ ReadWords > 0
  BY <1>1, LenProperties, EmptySeq, HeadTailProperties, ReadCoversRequest, RequestIsNotEmpty
     DEF Shape, IpcTypeOK
<1>4. \A i \in DOMAIN pipe' :
        /\ i + ReadWords \in DOMAIN pipe /\ i + ReadWords # 1
        /\ pipe'[i] = pipe[i + ReadWords]
  <2>1. \A i \in 1 .. Len(pipe) : pipe[i] \in Words
    BY <1>3, ElementOfSeq
  <2>2. /\ SubSeq(pipe, ReadWords + 1, Len(pipe)) \in Seq(Words)
        /\ Len(pipe') = IF ReadWords + 1 <= Len(pipe) + 1 THEN Len(pipe) + 1 - (ReadWords + 1) ELSE 0
        /\ \A i \in 1 .. Len(pipe) + 1 - (ReadWords + 1) : pipe'[i] = pipe[ReadWords + 1 + i - 1]
    BY <1>1, <1>3, SubSeqProperties
  <2>3. DOMAIN pipe' = 1 .. Len(pipe')
    BY <1>1, <2>2, LenProperties
  <2>4. ASSUME NEW i \in DOMAIN pipe'
        PROVE  /\ i + ReadWords \in 1 .. Len(pipe) /\ i + ReadWords # 1
               /\ i \in 1 .. Len(pipe) + 1 - (ReadWords + 1)
               /\ ReadWords + 1 + i - 1 = i + ReadWords
    BY <1>3, <2>2, <2>3
  <2> QED BY <1>3, <2>2, <2>4
<1>5. WordsAreDistinct'
  <2> SUFFICES ASSUME NEW i \in DOMAIN pipe', NEW j \in DOMAIN pipe',
                      pipe'[i] = pipe'[j]
               PROVE  i = j
    BY DEF WordsAreDistinct
  <2>1. i + ReadWords = j + ReadWords
    BY <1>4 DEF OnceInv, WordsAreDistinct
  <2>2. i \in Nat /\ j \in Nat
    <3>1. pipe' \in Seq(Words)
      BY <1>1, <1>3, SubSeqProperties, ElementOfSeq
    <3> QED BY <3>1, LenProperties
  <2> QED BY <1>3, <2>1, <2>2
<1>6. CASE Head(pipe)[2] # 1
  <2>1. mc' = NoClient
    BY <1>1, <1>6
  <2>2. \A i \in DOMAIN pipe : pipe[i] \in Words
    BY <1>3, ElementOfSeq
  <2>3. \A i \in DOMAIN pipe' : pipe'[i][1] # NoClient
    BY <1>4, <2>2, ProcessesAreDistinct DEF Words
  <2>4. ~Accepted(NoClient)
    BY StartedIsList, LenProperties, ElementOfSeq, ProcessesAreDistinct DEF Accepted, Processes
  <2>5. QueuedOnlyInPipe'
    BY <1>2, <1>4, <2>1, <2>3 DEF OnceInv, QueuedOnlyInPipe
  <2>6. SilentNowhere'
    BY <1>2, <1>4, <2>1, ProcessesAreDistinct DEF OnceInv, SilentNowhere, Silent
  <2> QED BY <1>2, <1>5, <2>1, <2>4, <2>5, <2>6 DEF OnceInv, NoDuplicateWorkers
<1>7. CASE Head(pipe)[2] = 1
  <2>1. mc' = pipe[1][1] /\ ~Accepted(mc')
    BY <1>1, <1>3, <1>7 DEF OnceInv, QueuedOnlyInPipe
  <2>2. ASSUME NEW i \in DOMAIN pipe', pipe'[i][2] = 1
        PROVE  pipe'[i][1] # mc'
    <3>1. pipe[1] \in Words /\ pipe[i + ReadWords] \in Words
      BY <1>3, <1>4, ElementOfSeq
    <3>2. pipe[1] # pipe[i + ReadWords]
      BY <1>3, <1>4 DEF OnceInv, WordsAreDistinct
    <3>3. pipe[1][2] = 1 /\ pipe[i + ReadWords][2] = 1
      BY <1>3, <1>4, <1>7, <2>2
    <3>4. pipe[1][1] # pipe[i + ReadWords][1]
      BY <3>1, <3>2, <3>3 DEF Words
    <3> QED BY <1>4, <2>1, <3>4
  <2>3. QueuedOnlyInPipe'
    BY <1>2, <1>4, <2>2 DEF OnceInv, QueuedOnlyInPipe
  <2>4. SilentNowhere'
    BY <1>2, <1>3, <1>4, <2>1 DEF OnceInv, SilentNowhere
  <2> QED BY <1>2, <1>5, <2>1, <2>3, <2>4 DEF OnceInv, NoDuplicateWorkers
<1> QED BY <1>6, <1>7

LEMMA OnceServerRead ==
    ASSUME Shape, OnceInv, ServerRead, UNCHANGED cpc
    PROVE  OnceInv'
<1>1. CASE mc' = mc /\ pipe' = pipe
  BY <1>1, OnceQuiet DEF ServerRead, workerVars, Silent
<1>2. CASE pipe # <<>> /\ pipe' = SubSeq(pipe, ReadWords + 1, Len(pipe))
  <2>1. pipe \in Seq(Words) /\ Len(pipe) \in Nat /\ Len(pipe) > 0
    BY <1>2, LenProperties, EmptySeq DEF Shape, IpcTypeOK
  <2>2. Len(pipe') < Len(pipe)
    BY <1>2, <2>1, SubSeqProperties, ElementOfSeq, ReadCoversRequest, RequestIsNotEmpty
  <2>3. pipe' # pipe
    BY <2>1, <2>2
  <2> QED BY <2>3, OnceRead
<1> QED BY <1>1, <1>2 DEF ServerRead

(* One more thread p is in the list.                                       *)
LEMMA AppendAccepts ==
    ASSUME Shape, cancelled = <<>>, cancelled' = cancelled,
           NEW p \in Processes, list' = Append(list, p)
    PROVE  /\ Started = list /\ Started' = list'
           /\ Len(list) \in Nat /\ DOMAIN list = 1 .. Len(list)
           /\ DOMAIN list' = 1 .. Len(list) + 1 /\ list'[Len(list) + 1] = p
           /\ \A i \in 1 .. Len(list) : list'[i] = list[i]
           /\ \A q : Accepted(q)' <=> Accepted(q) \/ q = p
<1>1. Started = list /\ list \in Seq(Processes) /\ Len(list) \in Nat
      /\ DOMAIN list = 1 .. Len(list)
  BY StartedIsList, LenProperties DEF Shape
<1>2. /\ list' \in Seq(Processes) /\ Len(list') = Len(list) + 1
      /\ list'[Len(list) + 1] = p
      /\ \A i \in 1 .. Len(list) : list'[i] = list[i]
  BY <1>1, AppendProperties
<1>3. Started' = list'
  BY <1>2, ConcatEmptySeq DEF Started
<1>4. DOMAIN list' = 1 .. Len(list) + 1
  BY <1>2, LenProperties
<1>5. ASSUME NEW q
      PROVE  Accepted(q)' <=> Accepted(q) \/ q = p
  <2>1. Accepted(q)' <=> \E i \in 1 .. Len(list) + 1 : list'[i] = q
    BY <1>3, <1>4 DEF Accepted
  <2>2. Accepted(q) <=> \E i \in 1 .. Len(list) : list[i] = q
    BY <1>1 DEF Accepted
  <2> QED BY <1>1, <1>2, <2>1, <2>2
<1> QED BY <1>1, <1>2, <1>3, <1>4, <1>5

(* The thread that is added was not in the list.                           *)
LEMMA AppendStarted ==
    ASSUME Shape, NoDuplicateWorkers, cancelled = <<>>, cancelled' = cancelled,
           NEW p \in Processes, ~Accepted(p), list' = Append(list, p)
    PROVE  /\ NoDuplicateWorkers'
           /\ \A q : Accepted(q)' <=> Accepted(q) \/ q = p
<1>1. \A i \in 1 .. Len(list) : list[i] # p
  BY AppendAccepts DEF Accepted
<1>2. NoDuplicateWorkers'
  <2> SUFFICES ASSUME NEW i \in 1 .. Len(list) + 1, NEW j \in 1 .. Len(list) + 1,
                      list'[i] = list'[j]
               PROVE  i = j
    BY AppendAccepts DEF NoDuplicateWorkers
  <2>1. CASE i \in 1 .. Len(list) /\ j \in 1 .. Len(list)
    BY AppendAccepts, <2>1 DEF NoDuplicateWorkers
  <2>2. CASE i = Len(list) + 1 \/ j = Len(list) + 1
    BY AppendAccepts, <1>1, <2>2
  <2>3. Len(list) \in Nat
    BY AppendAccepts
  <2> QED BY <2>1, <2>2, <2>3
<1> QED BY <1>2, AppendAccepts

(* The request in mc is accepted, or the hold thread is created.           *)
LEMMA OnceCreate ==
    ASSUME Shape, HandInv, OnceInv, SpawnWorker \/ CreateHold, UNCHANGED cpc
    PROVE  OnceInv'
<1>0. Silent' = Silent /\ UNCHANGED <<pipe, cancelled>> /\ cancelled = <<>>
  BY DEF Silent, SpawnWorker, CreateHold, HandInv, CancelIsLast, ClosingDown, Before, workerVars
<1>1. CASE UNCHANGED <<mc, list>>
  BY <1>0, <1>1, OnceQuiet
<1>2. CASE SpawnWorker /\ list' = Append(list, mc) /\ mc' = NoClient
  <2>1. mc \in Clients /\ mc \in Processes /\ ~Accepted(mc)
    BY <1>2 DEF SpawnWorker, Before, HandInv, RequestInHand, FillSteps, Processes, OnceInv
  <2>2. NoDuplicateWorkers' /\ \A q : Accepted(q)' <=> Accepted(q) \/ q = mc
    BY <1>0, <1>2, <2>1, AppendStarted DEF OnceInv
  <2>3. ~Accepted(NoClient)
    BY StartedIsList, LenProperties, ElementOfSeq, ProcessesAreDistinct DEF Accepted, Processes
  <2>4. \A i \in DOMAIN pipe : pipe[i][1] # NoClient
    BY LenProperties, ElementOfSeq, ProcessesAreDistinct DEF Shape, IpcTypeOK, Words
  <2>5. (~Accepted(mc))'
    BY <1>2, <2>1, <2>2, <2>3, ProcessesAreDistinct DEF Accepted
  <2>6. QueuedOnlyInPipe'
    BY <1>0, <1>2, <2>2, <2>4 DEF OnceInv, QueuedOnlyInPipe
  <2>7. SilentNowhere'
    BY <1>0, <1>2, <2>2, ProcessesAreDistinct DEF OnceInv, SilentNowhere, Silent
  <2> QED BY <1>0, <2>2, <2>5, <2>6, <2>7 DEF OnceInv, WordsAreDistinct
<1>3. CASE CreateHold /\ list' = Append(list, Server)
  <2>1. mc' = mc /\ spc = "inOpenRequest" /\ list = <<>>
    BY <1>3 DEF CreateHold, Before, HandInv, ListIsEmptyFirst
  <2>2. ~Accepted(Server) /\ Server \in Processes
    BY <1>0, <2>1, StartedIsList DEF Accepted, Processes
  <2>3. NoDuplicateWorkers' /\ \A q : Accepted(q)' <=> Accepted(q) \/ q = Server
    BY <1>0, <1>3, <2>2, AppendStarted DEF OnceInv
  <2>4. mc # Server /\ (\A i \in DOMAIN pipe : pipe[i][1] # Server) /\ Server \notin Silent
    BY LenProperties, ElementOfSeq, ProcessesAreDistinct
       DEF Shape, IpcTypeOK, Slots, Words, Silent
  <2>5. QueuedOnlyInPipe'
    BY <1>0, <2>1, <2>3, <2>4 DEF OnceInv, QueuedOnlyInPipe
  <2>6. SilentNowhere'
    BY <1>0, <2>1, <2>3, <2>4 DEF OnceInv, SilentNowhere
  <2>7. ~Accepted(mc)'
    BY <2>1, <2>3, <2>4 DEF OnceInv
  <2> QED BY <1>0, <2>3, <2>5, <2>6, <2>7 DEF OnceInv, WordsAreDistinct
<1> QED BY <1>1, <1>2, <1>3 DEF SpawnWorker, CreateHold

(* Shutdown changes nothing about who was accepted.                        *)
LEMMA OnceCancel ==
    ASSUME Shape, HandInv, OnceInv, CancelThreads, UNCHANGED cpc
    PROVE  OnceInv'
<1>1. /\ Silent' = Silent /\ UNCHANGED <<pipe, mc>>
      /\ cancelled = <<>> /\ cancelled' = list /\ list' = <<>>
  BY DEF Silent, CancelThreads, ipcVars, Before, HandInv, CancelIsLast, ClosingDown
<1>2. Started' = Started
  <2>1. list \in Seq(Processes)
    BY DEF Shape
  <2>2. list \o <<>> = list
    BY <2>1, ConcatEmptySeq
  <2> QED BY <1>1, <2>2, StartedIsList DEF Started
<1>3. \A p : Accepted(p)' <=> Accepted(p)
  BY <1>2 DEF Accepted
<1> QED
  BY <1>1, <1>2, <1>3 DEF OnceInv, NoDuplicateWorkers, WordsAreDistinct,
                          QueuedOnlyInPipe, SilentNowhere

(* What the main thread and a client do to the requests.                   *)
LEMMA OnceMain ==
    ASSUME Shape, HandInv, OnceInv, MainStep, UNCHANGED cpc
    PROVE  OnceInv'
<1>1. CASE ServerRead
  BY <1>1, OnceServerRead
<1>2. CASE SpawnWorker \/ CreateHold
  BY <1>2, OnceCreate
<1>3. CASE CancelThreads
  BY <1>3, OnceCancel
<1>4. CASE UNCHANGED <<pipe, mc, list, cancelled>>
  BY <1>4, OnceQuiet DEF Silent
<1> QED
  BY <1>1, <1>2, <1>3, <1>4
     DEF MainStep, Start, ServerOpenRequest, While, ServerOpenReply,
         ServerReplyOpened, FillSize, FillFd, FillPriority, CopyName,
         NameCopied, Store, SleepInRead, CloseRequest, CloseReply,
         UnlinkRequest, Return, workerVars, ipcVars

LEMMA OnceClient ==
    ASSUME Shape, OnceInv, NEW c \in Clients, Client(c) \/ User(c)
    PROVE  OnceInv'
<1>1. UNCHANGED <<mc, list, cancelled>>
  BY DEF Client, User, workerVars, serverVars
<1>2. Silent' \subseteq Silent
  BY DEF Client, User, ClientStep, OpenRequest, RequestOpened, Write,
         OpenReply, ReplyOpened, Read, Finish, Setup, Kill, Goto, Silent, Shape
<1>3. CASE pipe' = pipe
  BY <1>1, <1>2, <1>3, OnceQuiet
<1>4. CASE pipe' # pipe
  BY <1>4, OnceWrite DEF User, Setup, Kill
<1> QED BY <1>3, <1>4

LEMMA OnceStep ==
    ASSUME TypeOK, SlotInv, OnceInv, [Next]_vars
    PROVE  OnceInv'
<1>1. CASE Main
  BY <1>1, TypeShape, OnceMain DEF Main, SlotInv, HandInv
<1>2. ASSUME NEW c \in Clients, Client(c) \/ User(c)
      PROVE  OnceInv'
  BY <1>2, TypeShape, OnceClient
<1>3. CASE Hold \/ Interrupt \/ (\E c \in Clients : Worker(c)) \/ UNCHANGED vars
  <2>1. UNCHANGED <<pipe, mc, list, cancelled, cpc>>
    BY <1>3 DEF Hold, HoldFifoOpen, Interrupt, Sigint, Worker, WorkerNext,
                LoadSize, LoadFd, SetAffinity, SetScheduler, OpenSegment,
                Multiply, WriteBack, Reply, StopInPrintf, vars, ipcVars,
                workerVars, serverVars
  <2> QED BY <2>1, OnceQuiet DEF Silent
<1> QED BY <1>1, <1>2, <1>3 DEF Next

LEMMA OnceInit == Init => OnceInv
<1> SUFFICES ASSUME Init PROVE OnceInv
  OBVIOUS
<1>1. list = <<>> /\ cancelled = <<>> /\ pipe = <<>> /\ mc = NoClient
  BY DEF Init, IpcInit, WorkerInit, ServerInit
<1>2. Started = <<>> /\ DOMAIN Started = {} /\ DOMAIN pipe = {}
  BY <1>1, TypeInit, TypeShape, StartedIsList
<1> QED
  BY <1>1, <1>2, ProcessesAreDistinct
     DEF OnceInv, NoDuplicateWorkers, Accepted, WordsAreDistinct,
         QueuedOnlyInPipe, SilentNowhere, Silent

(* No two threads are created for one request (the loop of main in         *)
(* server_fifo.c, which uses mc again after a failed open).                *)
THEOREM OneWorkerPerRequest == Spec => []NoDuplicateWorkers
<1>1. TypeOK /\ SlotInv /\ OnceInv /\ [Next]_vars => (TypeOK /\ SlotInv /\ OnceInv)'
  BY TypeStep, SlotStep, OnceStep DEF SlotInv
<1>2. Init => TypeOK /\ SlotInv /\ OnceInv
  BY TypeInit, SlotInit, OnceInit
<1>3. OnceInv => NoDuplicateWorkers
  BY DEF OnceInv
<1> QED BY <1>1, <1>2, <1>3, PTL DEF Spec
-----------------------------------------------------------------------------
(* Main has opened the reply FIFO of c, or never will.                     *)
Searching == {"mkfifo", "openRequest", "inOpenRequest", "while", "read",
              "inRead", "openReply"}
Opened(c) == Accepted(c) \/ (mc = c /\ spc \notin Searching)

(* Only the server writes to a reply FIFO, and it has none open before it  *)
(* is about to accept the request.                                         *)
ServerWritesReplies ==
    \A e \in writers : e[1] = Server \/ e[2] = Server
UnopenedHasNoWriter ==
    \A c \in Clients : Opened(c) \/ <<Server, c>> \notin writers \cup asleep

(* The server is gone, or has closed this FIFO to exit.                    *)
Left(c) == Server \notin alive \/ ClosedAtShutdown(c)

(* A client that opened its FIFO sleeps there, or shares it with a server  *)
(* that is awake, or the server opened it and left it.                     *)
Meets(c) == /\ <<c, c>> \in readers
            /\ \/ <<c, c>> \in asleep /\ cpc[c] = "inOpenReply"
               \/ <<Server, c>> \in writers /\ <<Server, c>> \notin asleep
               \/ Left(c) /\ Opened(c)
ReaderMeetsWriter ==
    \A c \in Clients : cpc[c] \in {"inOpenReply", "read"} => Meets(c)
EndsInv == ServerWritesReplies /\ UnopenedHasNoWriter /\ ReaderMeetsWriter

(* A client gets past the open of its FIFO only with the server.           *)
Past == {"read", "report", "SUCCESS", "BAD_READ", "BAD_CLOSE", "BAD_UNLINK"}
UnopenedWaits == \A c \in Clients : Opened(c) \/ cpc[c] \notin Past

(* What the names in a request stand for, from the client's start until it *)
(* cleans up, and for good if it leaves before that.                       *)
Running == {"openRequest", "inOpenRequest", "write", "openReply",
            "inOpenReply", "read", "report"}
LiveAreRunning == \A c \in Clients : c \in alive => cpc[c] \in Running
NamesAreGood ==
    \A c \in Clients : cpc[c] \in Running \cup {"killed", "BAD_OPEN"}
                           => c \in paths /\ shm[c] # "none"
ResultIsThere == \A c \in Clients : wpc[c] = "writeBack" => C[c] # "none"
NamesInv == LiveAreRunning /\ NamesAreGood /\ ResultIsThere

MeetInv == EndsInv /\ UnopenedWaits /\ NamesInv

-----------------------------------------------------------------------------
(* Accepted and opened are for good.                                       *)
OpenedStays == \A c \in Clients : Opened(c) => Opened(c)'

LEMMA OpenedQuiet ==
    ASSUME UNCHANGED <<list, cancelled>>,
           \/ UNCHANGED <<spc, mc>>
           \/ spc \in Searching
           \/ mc' = mc /\ spc' \notin Searching
    PROVE  OpenedStays
<1>1. \A c : Accepted(c)' <=> Accepted(c)
  BY DEF Accepted, Started
<1> QED BY <1>1 DEF OpenedStays, Opened

LEMMA OpenedCreate ==
    ASSUME Shape, HandInv, SpawnWorker \/ CreateHold
    PROVE  OpenedStays
<1>1. CASE SpawnWorker /\ list' = Append(list, mc)
  <2>1. mc \in Processes /\ cancelled = <<>> /\ cancelled' = cancelled
    BY <1>1 DEF SpawnWorker, Before, HandInv, RequestInHand, FillSteps,
                CancelIsLast, ClosingDown, Processes
  <2>2. \A q : Accepted(q)' <=> Accepted(q) \/ q = mc
    BY <1>1, <2>1, AppendAccepts
  <2> QED BY <2>2 DEF OpenedStays, Opened
<1>2. CASE CreateHold /\ list' = Append(list, Server)
  <2>1. Server \in Processes /\ cancelled = <<>> /\ cancelled' = cancelled
    BY <1>2 DEF CreateHold, Before, HandInv, CancelIsLast, ClosingDown, Processes, workerVars
  <2>2. \A q : Accepted(q)' <=> Accepted(q) \/ q = Server
    BY <1>2, <2>1, AppendAccepts
  <2> QED BY <1>2, <2>2 DEF OpenedStays, Opened, Searching, CreateHold, Before
<1>3. CASE list' = list
  BY <1>3, OpenedQuiet DEF SpawnWorker, CreateHold, Before, Searching, workerVars
<1> QED BY <1>1, <1>2, <1>3 DEF SpawnWorker, CreateHold

LEMMA OpenedCancel ==
    ASSUME Shape, HandInv, CancelThreads
    PROVE  OpenedStays
<1>1. list \in Seq(Processes) /\ cancelled = <<>>
  BY DEF CancelThreads, Before, HandInv, CancelIsLast, ClosingDown, Shape
<1>2. list \o <<>> = list
  BY <1>1, ConcatEmptySeq
<1>3. Started' = Started
  BY <1>1, <1>2, StartedIsList DEF CancelThreads, Started
<1>4. \A c : Accepted(c)' <=> Accepted(c)
  BY <1>3 DEF Accepted
<1> QED BY <1>4 DEF OpenedStays, Opened, CancelThreads, Searching

(* Every other call of the main thread.                                    *)
LEMMA OpenedMain ==
    ASSUME Shape, HandInv, MainStep
    PROVE  OpenedStays
<1>1. CASE SpawnWorker \/ CreateHold
  BY <1>1, OpenedCreate
<1>2. CASE CancelThreads
  BY <1>2, OpenedCancel
<1>3. CASE ~(SpawnWorker \/ CreateHold \/ CancelThreads)
  <2>1. /\ UNCHANGED <<list, cancelled>>
        /\ spc \in Searching \/ (mc' = mc /\ spc' \notin Searching)
    BY <1>3 DEF MainStep, Start, ServerOpenRequest, While, ServerRead,
         ServerOpenReply, ServerReplyOpened, FillSize, FillFd, FillPriority,
         CopyName, NameCopied, Store, SleepInRead, CloseRequest, CloseReply,
         UnlinkRequest, Return, Before, Searching, workerVars, ipcVars
  <2> QED BY <2>1, OpenedQuiet
<1> QED BY <1>1, <1>2, <1>3

LEMMA OpenedStep ==
    ASSUME TypeOK, SlotInv, [Next]_vars
    PROVE  OpenedStays
<1>1. CASE Main
  BY <1>1, TypeShape, OpenedMain DEF Main, SlotInv, HandInv
<1>2. CASE Interrupt
  <2>1. UNCHANGED <<mc, list, cancelled>> /\ (spc' = spc \/ spc' \notin Searching)
    BY <1>2 DEF Interrupt, Sigint, workerVars, Searching
  <2> QED BY <2>1, OpenedQuiet
<1>3. CASE ~Main /\ ~Interrupt
  <2>1. UNCHANGED <<spc, mc, list, cancelled>>
    BY <1>3 DEF Next, Client, User, Worker, WorkerNext, LoadSize, LoadFd,
         SetAffinity, SetScheduler, OpenSegment, Multiply, WriteBack, Reply,
         StopInPrintf, Hold, HoldFifoOpen, vars, workerVars, serverVars
  <2> QED BY <2>1, OpenedQuiet
<1> QED BY <1>1, <1>2, <1>3

(* So is what the server left.                                             *)
LeftStays == \A c \in Clients : Left(c) => Left(c)'

LEMMA LeftServer ==
    ASSUME ServerNext
    PROVE  LeftStays
<1>1. (Server \notin alive => Server \notin alive')
      /\ (spc \in {"unlink", "return"} =>
            \/ Server \notin alive'
            \/ server_to_client' = server_to_client /\ spc' \in {"unlink", "return"})
  BY DEF ServerNext, MainStep, Start, ServerOpenRequest, CreateHold, While,
         SleepInRead, ServerRead, ServerOpenReply, ServerReplyOpened, FillSize,
         FillFd, FillPriority, CopyName, NameCopied, Store, SpawnWorker,
         CancelThreads, CloseRequest, CloseReply, UnlinkRequest, Return,
         Before, HoldFifoOpen, Sigint, SleepsIn, SleepsInRead, Exit, ipcVars
<1> QED BY <1>1 DEF LeftStays, Left, ClosedAtShutdown

LEMMA LeftQuiet ==
    ASSUME UNCHANGED <<spc, server_to_client>>,
           Server \notin alive => Server \notin alive'
    PROVE  LeftStays
  BY DEF LeftStays, Left, ClosedAtShutdown

LEMMA LeftStep ==
    ASSUME [Next]_vars
    PROVE  LeftStays
<1>1. CASE Main \/ Hold \/ Interrupt
  BY <1>1, LeftServer DEF Main, Hold, Interrupt, ServerNext
<1>2. CASE ~(Main \/ Hold \/ Interrupt)
  <2>1. UNCHANGED <<spc, server_to_client>>
    BY <1>2 DEF Next, Client, User, Worker, vars, serverVars
  <2>2. Server \notin alive => Server \notin alive'
    BY <1>2, ProcessesAreDistinct
       DEF Next, Client, User, ClientStep, OpenRequest, RequestOpened, Write,
           OpenReply, ReplyOpened, Read, Finish, Setup, Kill, Exit, Worker,
           WorkerNext, LoadSize, LoadFd, SetAffinity, SetScheduler,
           OpenSegment, Multiply, WriteBack, Reply, StopInPrintf, Answer,
           Crash, vars, ipcVars
  <2> QED BY <2>1, <2>2, LeftQuiet
<1> QED BY <1>1, <1>2

-----------------------------------------------------------------------------
(* A step that leaves the ends alone.                                      *)
LEMMA EndsQuiet ==
    ASSUME EndsInv, OpenedStays, LeftStays, UNCHANGED endVars, alive \cap {Server} = alive' \cap {Server},
           \A c \in Clients : cpc'[c] = "read" => \/ cpc[c] = "read"
                                                  \/ <<c, c>> \notin asleep /\ cpc[c] = "inOpenReply",
           \A c \in Clients : cpc'[c] = "inOpenReply" => cpc[c] = "inOpenReply"
    PROVE  EndsInv'
<1>1. UNCHANGED <<readers, writers, asleep>> /\ (Server \notin alive => Server \notin alive')
  BY DEF endVars
<1>2. ASSUME NEW c \in Clients, cpc'[c] \in {"inOpenReply", "read"}
      PROVE  Meets(c)'
  <2>1. cpc[c] \in {"inOpenReply", "read"} /\ Meets(c)
    BY <1>2 DEF EndsInv, ReaderMeetsWriter
  <2> QED BY <1>1, <1>2, <2>1 DEF Meets, OpenedStays, LeftStays, Left
<1> QED BY <1>1, <1>2 DEF EndsInv, ServerWritesReplies, UnopenedHasNoWriter,
                          ReaderMeetsWriter, OpenedStays

(* A process ends: the server, or a client that reads no more.             *)
LEMMA EndsExit ==
    ASSUME EndsInv, OpenedStays, LeftStays, NEW p \in Processes, Exit(p),
           \A c \in Clients : IF c = p THEN cpc'[c] \notin {"inOpenReply", "read"}
                                       ELSE cpc'[c] = cpc[c]
    PROVE  EndsInv'
<1>1. /\ writers' \subseteq writers /\ asleep' \subseteq asleep
      /\ alive' = alive \ {p}
      /\ \A q, f : q # p => /\ <<q, f>> \in writers => <<q, f>> \in writers'
                            /\ <<q, f>> \in asleep => <<q, f>> \in asleep'
                            /\ <<q, f>> \in readers => <<q, f>> \in readers'
  BY DEF Exit
<1>2. ASSUME NEW c \in Clients, cpc'[c] \in {"inOpenReply", "read"}
      PROVE  Meets(c)'
  <2>1. p # c /\ cpc'[c] = cpc[c] /\ Meets(c) /\ Server # c
    BY <1>2, ProcessesAreDistinct DEF EndsInv, ReaderMeetsWriter
  <2>3. CASE p # Server
    BY <1>1, <2>1, <2>3 DEF Meets, OpenedStays, LeftStays, Left
  <2>4. CASE p = Server
    <3>1. <<c, c>> \in readers' /\ Server \notin alive'
      BY <1>1, <2>1, <2>4 DEF Meets
    <3>2. CASE <<c, c>> \in asleep /\ cpc[c] = "inOpenReply"
      BY <1>1, <2>1, <2>4, <3>1, <3>2 DEF Meets
    <3>3. CASE Opened(c)
      BY <3>1, <3>3 DEF Meets, OpenedStays, LeftStays, Left
    <3>4. <<Server, c>> \in writers => Opened(c)
      BY DEF EndsInv, UnopenedHasNoWriter
    <3> QED BY <2>1, <3>2, <3>3, <3>4 DEF Meets
  <2> QED BY <1>2, <2>3, <2>4
<1> QED BY <1>1, <1>2 DEF EndsInv, ServerWritesReplies, UnopenedHasNoWriter,
                          ReaderMeetsWriter, OpenedStays

(* A call that opens the request FIFO, at either side.                     *)
LEMMA EndsRequest ==
    ASSUME EndsInv, OpenedStays, LeftStays, NEW p \in Processes, alive' = alive,
           OpenRead(p, Server) \/ OpenWrite(p, Server),
           \A c \in Clients : cpc'[c] = cpc[c] \/ cpc'[c] \notin {"inOpenReply", "read"}
    PROVE  EndsInv'
<1>1. ASSUME NEW c \in Clients, NEW q
      PROVE  /\ <<q, c>> \in readers' <=> <<q, c>> \in readers
             /\ <<q, c>> \in writers' <=> <<q, c>> \in writers
             /\ <<q, c>> \in asleep' <=> <<q, c>> \in asleep
  <2>1. c # Server /\ <<q, c>> # <<p, Server>> /\ <<q, c>>[2] = c
    BY ProcessesAreDistinct
  <2> QED BY <2>1 DEF OpenRead, OpenWrite
<1>2. ASSUME NEW c \in Clients, cpc'[c] \in {"inOpenReply", "read"}
      PROVE  Meets(c)'
  BY <1>1, <1>2 DEF EndsInv, ReaderMeetsWriter, Meets, OpenedStays, LeftStays, Left
<1>3. ServerWritesReplies'
  <2>1. \A e \in writers' : e \in writers \/ e = <<p, Server>>
    BY DEF OpenRead, OpenWrite
  <2> QED BY <2>1 DEF EndsInv, ServerWritesReplies
<1>4. UnopenedHasNoWriter'
  BY <1>1 DEF EndsInv, UnopenedHasNoWriter, OpenedStays
<1> QED BY <1>2, <1>3, <1>4 DEF EndsInv, ReaderMeetsWriter

(* The client opens its reply FIFO: it sleeps, unless main is there.       *)
LEMMA EndsOpenReply ==
    ASSUME Shape, EndsInv, OpenedStays, LeftStays, NEW c \in Clients,
           OpenRead(c, c), alive' = alive, Goto(c, "inOpenReply")
    PROVE  EndsInv'
<1>1. /\ readers' = readers \cup {<<c, c>>}
      /\ writers' = writers /\ alive' = alive
      /\ asleep' = {e \in asleep : ~(e \in writers /\ e[2] = c)}
                       \cup (IF HasWriter(c) THEN {} ELSE {<<c, c>>})
      /\ cpc' = [cpc EXCEPT ![c] = "inOpenReply"]
  BY DEF OpenRead, Goto
<1>2. c # Server /\ Server \in Processes /\ DOMAIN cpc = Clients
  BY ProcessesAreDistinct DEF Processes, Shape
<1>3. Meets(c)'
  <2>1. CASE HasWriter(c)
    <3>1. PICK p \in Processes : <<p, c>> \in writers
      BY <2>1 DEF HasWriter
    <3>2. p = Server
      BY <1>2, <3>1 DEF EndsInv, ServerWritesReplies
    <3>3. <<Server, c>> \notin asleep'
      BY <1>1, <2>1, <3>1, <3>2
    <3> QED BY <1>1, <3>1, <3>2, <3>3 DEF Meets
  <2>2. CASE ~HasWriter(c)
    BY <1>1, <1>2, <2>2 DEF Meets
  <2> QED BY <2>1, <2>2
<1>4. ASSUME NEW d \in Clients, d # c, cpc'[d] \in {"inOpenReply", "read"}
      PROVE  Meets(d)'
  <2>1. cpc'[d] = cpc[d] /\ Meets(d)
    BY <1>1, <1>2, <1>4 DEF EndsInv, ReaderMeetsWriter
  <2>2. <<d, d>>[2] # c /\ <<Server, d>> # <<c, c>>
    BY <1>4
  <2>3. /\ <<d, d>> \in asleep => <<d, d>> \in asleep'
        /\ <<Server, d>> \in asleep' => <<Server, d>> \in asleep
    BY <1>1, <2>2
  <2> QED BY <1>1, <1>4, <2>1, <2>3 DEF Meets, OpenedStays, LeftStays, Left
<1>5. UnopenedHasNoWriter'
  <2>1. \A d \in Clients : <<Server, d>> \in asleep' => <<Server, d>> \in asleep
    <3>1. \A d : <<Server, d>> # <<c, c>>
      BY <1>2
    <3> QED BY <1>1, <3>1
  <2> QED BY <1>1, <2>1 DEF EndsInv, UnopenedHasNoWriter, OpenedStays
<1> QED BY <1>1, <1>3, <1>4, <1>5 DEF EndsInv, ServerWritesReplies, ReaderMeetsWriter

(* Main opens the reply FIFO in mc: its client, if it sleeps, wakes.       *)
LEMMA EndsServerOpenReply ==
    ASSUME Shape, OnceInv, EndsInv, OpenedStays, LeftStays, ServerOpenReply, UNCHANGED cpc
    PROVE  EndsInv'
<1>1. CASE UNCHANGED endVars
  BY <1>1, EndsQuiet DEF ServerOpenReply
<1>2. CASE OpenWrite(Server, mc) /\ spc' = "inOpenReply"
  <2>1. /\ writers' = writers \cup {<<Server, mc>>}
        /\ readers' = readers /\ alive' = alive /\ mc' = mc
        /\ asleep' = {e \in asleep : ~(e \in readers /\ e[2] = mc)}
                         \cup (IF HasReader(mc) THEN {} ELSE {<<Server, mc>>})
        /\ spc = "openReply"
    BY <1>2 DEF OpenWrite, ServerOpenReply, Before
  <2>2. ~Opened(mc) /\ Opened(mc)'
    BY <1>2, <2>1 DEF OnceInv, Opened, Searching
  <2>3. ASSUME NEW d \in Clients, d # mc
        PROVE  /\ <<Server, d>> \in writers' <=> <<Server, d>> \in writers
               /\ <<Server, d>> \in asleep' => <<Server, d>> \in asleep
               /\ <<d, d>> \in asleep => <<d, d>> \in asleep'
    <3>1. <<Server, d>> # <<Server, mc>> /\ <<d, d>>[2] # mc
      BY <2>3
    <3> QED BY <2>1, <3>1
  <2>4. ASSUME NEW d \in Clients, cpc'[d] \in {"inOpenReply", "read"}
        PROVE  Meets(d)'
    <3>1. Meets(d) /\ d \in Processes
      BY <2>4 DEF EndsInv, ReaderMeetsWriter, Processes
    <3>2. CASE d # mc
      BY <2>1, <2>3, <3>1, <3>2 DEF Meets, OpenedStays, LeftStays, Left
    <3>3. CASE d = mc
      <4>1. <<Server, d>> \notin asleep /\ HasReader(d)
        BY <2>2, <3>1, <3>3 DEF EndsInv, UnopenedHasNoWriter, Meets, HasReader
      <4>2. <<Server, d>> \in writers' /\ <<Server, d>> \notin asleep'
        BY <2>1, <3>3, <4>1
      <4> QED BY <2>1, <3>1, <4>2 DEF Meets
    <3> QED BY <3>2, <3>3
  <2>5. UnopenedHasNoWriter'
    BY <2>1, <2>2, <2>3 DEF EndsInv, UnopenedHasNoWriter, OpenedStays
  <2>6. ServerWritesReplies'
    BY <2>1 DEF EndsInv, ServerWritesReplies
  <2> QED BY <2>4, <2>5, <2>6 DEF EndsInv, ReaderMeetsWriter
<1> QED BY <1>1, <1>2 DEF ServerOpenReply

(* A signal ends main's open: the client that opens next sleeps.           *)
LEMMA EndsInterrupt ==
    ASSUME EndsInv, OpenedStays, LeftStays, alive' = alive, UNCHANGED cpc,
           <<Server, mc>> \in asleep, InterruptOpenWrite(Server, mc)
    PROVE  EndsInv'
<1>1. /\ writers' = writers \ {<<Server, mc>>} /\ readers' = readers
      /\ asleep' = asleep \ {<<Server, mc>>}
  BY DEF InterruptOpenWrite
<1>2. ASSUME NEW d \in Clients, cpc'[d] \in {"inOpenReply", "read"}
      PROVE  Meets(d)'
  <2>1. Meets(d) /\ <<d, d>> # <<Server, mc>>
    BY <1>2, ProcessesAreDistinct DEF EndsInv, ReaderMeetsWriter
  <2>2. d = mc => <<Server, d>> \in asleep
    OBVIOUS
  <2>3. d # mc => <<Server, d>> # <<Server, mc>>
    OBVIOUS
  <2> QED BY <1>1, <2>1, <2>2, <2>3 DEF Meets, OpenedStays, LeftStays, Left
<1> QED BY <1>1, <1>2 DEF EndsInv, ServerWritesReplies, UnopenedHasNoWriter,
                          ReaderMeetsWriter, OpenedStays

(* Main gives up its side of the request FIFO.                             *)
LEMMA EndsCloseRequest ==
    ASSUME EndsInv, OpenedStays, LeftStays, alive' = alive, UNCHANGED cpc,
           CloseRead(Server, Server) \/ InterruptOpenRead(Server, Server)
    PROVE  EndsInv'
<1>1. /\ readers' = readers \ {<<Server, Server>>} /\ writers' = writers
      /\ asleep' \in {asleep, asleep \ {<<Server, Server>>}}
  BY DEF CloseRead, InterruptOpenRead
<1>2. ASSUME NEW d \in Clients
      PROVE  <<d, d>> # <<Server, Server>> /\ <<Server, d>> # <<Server, Server>>
  BY ProcessesAreDistinct
<1>3. ReaderMeetsWriter'
  BY <1>1, <1>2 DEF EndsInv, ReaderMeetsWriter, Meets, OpenedStays, LeftStays
<1> QED BY <1>1, <1>2, <1>3 DEF EndsInv, ServerWritesReplies,
                                UnopenedHasNoWriter, OpenedStays

(* Main closes the reply FIFO it opened last, and so leaves it.            *)
LEMMA EndsCloseReply ==
    ASSUME EndsInv, OpenedStays, LeftStays, alive' = alive, UNCHANGED cpc,
           CloseWrite(Server, server_to_client),
           server_to_client' = server_to_client, spc' = "unlink"
    PROVE  EndsInv'
<1>1. /\ writers' = writers \ {<<Server, server_to_client>>}
      /\ UNCHANGED <<readers, asleep>>
  BY DEF CloseWrite
<1>2. ASSUME NEW d \in Clients, cpc'[d] \in {"inOpenReply", "read"}
      PROVE  Meets(d)'
  <2>1. Meets(d)
    BY <1>2 DEF EndsInv, ReaderMeetsWriter
  <2>2. d = server_to_client => Left(d)'
    BY DEF Left, ClosedAtShutdown
  <2>3. <<Server, d>> \in writers => Opened(d)'
    BY DEF EndsInv, UnopenedHasNoWriter, OpenedStays
  <2>4. d # server_to_client => <<Server, d>> # <<Server, server_to_client>>
    OBVIOUS
  <2> QED BY <1>1, <2>1, <2>2, <2>3, <2>4 DEF Meets, OpenedStays, LeftStays
<1> QED BY <1>1, <1>2 DEF EndsInv, ServerWritesReplies, UnopenedHasNoWriter,
                          ReaderMeetsWriter, OpenedStays

(* What the client program, the main thread and the signal do to the ends. *)
LEMMA EndsClient ==
    ASSUME Shape, EndsInv, OpenedStays, LeftStays, NEW c \in Clients, ClientNext(c)
    PROVE  EndsInv'
<1>0. /\ c \in Processes /\ Server \in Processes /\ Server \notin Clients
      /\ DOMAIN cpc = Clients
  BY ProcessesAreDistinct DEF Processes, Shape
<1>1. CASE OpenRead(c, c) /\ alive' = alive /\ Goto(c, "inOpenReply")
  BY <1>1, EndsOpenReply
<1>2. \A d \in Clients \ {c} : cpc'[d] = cpc[d]
  BY <1>0 DEF ClientNext, ClientStep, OpenRequest, RequestOpened, Write,
              OpenReply, ReplyOpened, Read, Finish, Setup, Kill, Goto
<1>3. CASE Exit(c) /\ cpc'[c] \notin {"inOpenReply", "read"}
  BY <1>0, <1>2, <1>3, EndsExit
<1>4. CASE /\ OpenWrite(c, Server) /\ alive' = alive
           /\ cpc'[c] \notin {"inOpenReply", "read"}
  BY <1>0, <1>2, <1>4, EndsRequest
<1>5. CASE /\ UNCHANGED endVars /\ alive \cap {Server} = alive' \cap {Server}
           /\ cpc'[c] # "inOpenReply" \/ cpc'[c] = cpc[c]
           /\ cpc'[c] = "read" => \/ cpc[c] = "read"
                                  \/ <<c, c>> \notin asleep /\ cpc[c] = "inOpenReply"
  BY <1>0, <1>2, <1>5, EndsQuiet
<1>6. CASE OpenRequest(c) \/ Write(c) \/ Finish(c) \/ Kill(c)
  BY <1>0, <1>3, <1>4, <1>5, <1>6
     DEF OpenRequest, Write, Finish, Kill, Goto, endVars
<1>7. CASE RequestOpened(c) \/ ReplyOpened(c) \/ Setup(c)
  BY <1>0, <1>5, <1>7
     DEF RequestOpened, ReplyOpened, Setup, Goto, ipcVars, endVars
<1>8. CASE Read(c) \/ OpenReply(c)
  BY <1>0, <1>1, <1>3, <1>5, <1>8 DEF Read, OpenReply, Goto, endVars
<1> QED BY <1>6, <1>7, <1>8 DEF ClientNext, ClientStep

LEMMA EndsStays ==
    ASSUME EndsInv, OpenedStays, LeftStays, UNCHANGED cpc,
           Exit(Server) \/ UNCHANGED <<alive, endVars>>
    PROVE  EndsInv'
<1>1. Server \in Processes /\ Server \notin Clients
  BY ProcessesAreDistinct DEF Processes
<1> QED BY <1>1, EndsQuiet, EndsExit

LEMMA EndsMain ==
    ASSUME Shape, OnceInv, EndsInv, OpenedStays, LeftStays, MainStep, UNCHANGED cpc
    PROVE  EndsInv'
<1>1. CASE ServerOpenReply
  BY <1>1, EndsServerOpenReply
<1>2. CASE ServerOpenRequest
  BY <1>2, EndsRequest, EndsStays DEF ServerOpenRequest, Processes
<1>3. CASE CloseRequest \/ CloseReply
  BY <1>3, EndsStays, EndsCloseRequest, EndsCloseReply
     DEF CloseRequest, CloseReply
<1>4. CASE ~(ServerOpenReply \/ ServerOpenRequest \/ CloseRequest \/ CloseReply)
  BY <1>4, EndsStays
     DEF MainStep, Start, CreateHold, While, SleepInRead, ServerRead,
         ServerReplyOpened, FillSize, FillFd, FillPriority, CopyName,
         NameCopied, Store, SpawnWorker, CancelThreads, UnlinkRequest, Return,
         ipcVars, endVars
<1> QED BY <1>1, <1>2, <1>3, <1>4

LEMMA EndsSignal ==
    ASSUME EndsInv, OpenedStays, LeftStays, Sigint \/ HoldFifoOpen, UNCHANGED cpc
    PROVE  EndsInv'
<1>1. CASE Sigint
  BY <1>1, EndsStays, EndsInterrupt, EndsCloseRequest DEF Sigint, SleepsIn
<1>2. CASE HoldFifoOpen
  BY <1>2, EndsStays, EndsRequest DEF HoldFifoOpen, Processes
<1> QED BY <1>1, <1>2

LEMMA EndsStep ==
    ASSUME TypeOK, OnceInv, EndsInv, OpenedStays, LeftStays, [Next]_vars
    PROVE  EndsInv'
<1>1. ASSUME NEW c \in Clients, Client(c) \/ User(c)
      PROVE  EndsInv'
  BY <1>1, TypeShape, EndsClient DEF Client, User, ClientNext
<1>2. CASE Main \/ Hold \/ Interrupt
  BY <1>2, TypeShape, EndsMain, EndsSignal DEF Main, Hold, Interrupt
<1>3. ASSUME NEW c \in Clients, Worker(c)
      PROVE  EndsInv'
  BY <1>3, EndsStays
     DEF Worker, WorkerNext, LoadSize, LoadFd, SetAffinity, SetScheduler,
         OpenSegment, Multiply, WriteBack, Reply, StopInPrintf, Answer, Crash,
         ipcVars, endVars
<1>4. CASE UNCHANGED vars
  BY <1>4, EndsStays DEF vars, ipcVars, endVars
<1> QED BY <1>1, <1>2, <1>3, <1>4 DEF Next

(* A client leaves its open only when main has opened the FIFO too.        *)
LEMMA WaitsStep ==
    ASSUME TypeOK, EndsInv, UnopenedWaits, OpenedStays, [Next]_vars
    PROVE  UnopenedWaits'
<1>1. ASSUME NEW c \in Clients, cpc'[c] \in Past, cpc[c] \notin Past
      PROVE  Opened(c)
  <2>1. cpc[c] = "inOpenReply" /\ <<c, c>> \notin asleep
    <3>1. \E d \in Clients : Client(d) \/ User(d)
      BY <1>1 DEF Next, Worker, Main, Hold, Interrupt, vars
    <3> QED
      BY <1>1, <3>1
         DEF Client, User, ClientStep, OpenRequest, RequestOpened, Write,
             OpenReply, ReplyOpened, Read, Finish, Setup, Kill, Goto, Past,
             TypeOK, ClientTypeOK
  <2>2. Meets(c)
    BY <2>1 DEF EndsInv, ReaderMeetsWriter
  <2> QED BY <2>1, <2>2 DEF Meets, EndsInv, UnopenedHasNoWriter
<1> QED BY <1>1 DEF UnopenedWaits, OpenedStays

(* A worker that writes back has a result, and a segment stays made.       *)
LEMMA ResultWorker ==
    ASSUME NEW c \in Clients, DOMAIN wpc = Clients, DOMAIN C = Clients,
           DOMAIN shm = Clients, ResultIsThere, WorkerNext(c)
    PROVE  /\ ResultIsThere'
           /\ \A d \in Clients : shm[d] # "none" => shm'[d] # "none"
<1>1. \A d \in Clients : shm[d] # "none" => shm'[d] # "none"
  <2>1. \/ shm' = shm
        \/ shm' = [shm EXCEPT ![arg[c].shm] = C[c]] /\ wpc[c] = "writeBack"
    BY DEF WorkerNext, LoadSize, LoadFd, SetAffinity, SetScheduler,
           OpenSegment, Multiply, WriteBack, Reply, StopInPrintf, At, ipcVars
  <2>2. CASE shm' = [shm EXCEPT ![arg[c].shm] = C[c]] /\ wpc[c] = "writeBack"
    <3>1. C[c] # "none" /\ \A d \in Clients : shm'[d] \in {shm[d], C[c]}
      BY <2>2 DEF ResultIsThere
    <3> QED BY <3>1
  <2> QED BY <2>1, <2>2
<1>2. CASE /\ \E result \in Outcomes(c) : C' = [C EXCEPT ![c] = result]
           /\ Advance(c, "writeBack")
  <2>1. PICK result \in Outcomes(c) : C' = [C EXCEPT ![c] = result]
    BY <1>2
  <2>2. result # "none" /\ wpc' = [wpc EXCEPT ![c] = "writeBack"]
    BY <1>2, <2>1 DEF Outcomes, Advance
  <2> QED BY <1>1, <2>1, <2>2 DEF ResultIsThere
<1>3. CASE C' = C /\ \A d \in Clients : wpc'[d] = "writeBack" => wpc[d] = "writeBack"
  BY <1>1, <1>3 DEF ResultIsThere
<1>4. CASE Multiply(c)
  BY <1>2, <1>3, <1>4 DEF Multiply, Answer, Crash, Advance
<1>5. CASE ~Multiply(c)
  BY <1>3, <1>5
     DEF WorkerNext, LoadSize, LoadFd, SetAffinity, SetScheduler, OpenSegment,
         WriteBack, Reply, StopInPrintf, Answer, Crash, Advance
<1> QED BY <1>4, <1>5

(* Nobody but the client takes back what its request names.                *)
LEMMA NamesStep ==
    ASSUME TypeOK, NamesInv, [Next]_vars
    PROVE  NamesInv'
<1>0. /\ Server \notin Clients /\ cpc \in [Clients -> ClientCalls \cup ClientExits]
      /\ shm \in [Clients -> Contents] /\ C \in [Clients -> Contents]
      /\ wpc \in [Clients -> WorkerSteps]
  BY ProcessesAreDistinct DEF TypeOK, ClientTypeOK, IpcTypeOK, WorkerTypeOK
<1>1. ASSUME NEW c \in Clients, Client(c) \/ User(c)
      PROVE  NamesInv'
  <2>1. UNCHANGED <<wpc, C>>
    BY <1>1 DEF Client, User, workerVars
  <2>2. \A d \in Clients \ {c} :
           /\ cpc'[d] = cpc[d] /\ shm'[d] = shm[d]
           /\ d \in alive' <=> d \in alive
           /\ d \in paths' <=> d \in paths
    BY <1>0, <1>1
       DEF Client, User, ClientStep, OpenRequest, RequestOpened, Write,
           OpenReply, ReplyOpened, Read, Finish, Setup, Kill, Goto, Exit, ipcVars
  <2>3. /\ c \in alive' => cpc'[c] \in Running
        /\ cpc'[c] \in Running \cup {"killed", "BAD_OPEN"} => c \in paths' /\ shm'[c] # "none"
    BY <1>0, <1>1
       DEF Client, User, ClientStep, OpenRequest, RequestOpened, Write,
           OpenReply, ReplyOpened, Read, Finish, Setup, Kill, Goto, Exit, ipcVars,
           NamesInv, LiveAreRunning, NamesAreGood, Running
  <2>4. LiveAreRunning' /\ NamesAreGood'
    BY <2>2, <2>3 DEF NamesInv, LiveAreRunning, NamesAreGood
  <2> QED BY <2>1, <2>4 DEF NamesInv, ResultIsThere
<1>2. ASSUME UNCHANGED cpc, alive' \subseteq alive,
             \A c \in Clients : c \in paths => c \in paths',
             \A c \in Clients : shm[c] # "none" => shm'[c] # "none",
             ResultIsThere'
      PROVE  NamesInv'
  BY <1>2 DEF NamesInv, LiveAreRunning, NamesAreGood
<1>3. CASE Main \/ Hold \/ Interrupt \/ UNCHANGED vars
  <2>1. UNCHANGED <<cpc, shm, C>>
    BY <1>3 DEF Main, MainStep, Start, ServerOpenRequest, CreateHold, While,
         ServerRead, ServerOpenReply, ServerReplyOpened, FillSize, FillFd,
         FillPriority, CopyName, NameCopied, Store, SpawnWorker, CancelThreads,
         SleepInRead, CloseRequest, CloseReply, UnlinkRequest, Return, Hold,
         HoldFifoOpen, Interrupt, Sigint, vars, ipcVars, workerVars
  <2>2. alive' \subseteq alive /\ \A c \in Clients : c \in paths => c \in paths'
    BY <1>0, <1>3 DEF Main, MainStep, Start, ServerOpenRequest, CreateHold,
         While, ServerRead, ServerOpenReply, ServerReplyOpened, FillSize,
         FillFd, FillPriority, CopyName, NameCopied, Store, SpawnWorker,
         CancelThreads, SleepInRead, CloseRequest, CloseReply, UnlinkRequest,
         Return, Hold, HoldFifoOpen, Interrupt, Sigint, vars, ipcVars, Exit
  <2>3. wpc' = wpc \/ wpc' = [wpc EXCEPT ![mc] = "size"]
    BY <1>3 DEF Main, MainStep, Start, ServerOpenRequest, CreateHold, While,
         ServerRead, ServerOpenReply, ServerReplyOpened, FillSize, FillFd,
         FillPriority, CopyName, NameCopied, Store, SpawnWorker, CancelThreads,
         SleepInRead, CloseRequest, CloseReply, UnlinkRequest, Return, Hold,
         HoldFifoOpen, Interrupt, Sigint, vars, ipcVars, workerVars, Advance
  <2>4. ResultIsThere'
    BY <1>0, <2>1, <2>3 DEF NamesInv, ResultIsThere
  <2> QED BY <1>2, <2>1, <2>2, <2>4
<1>4. ASSUME NEW c \in Clients, Worker(c)
      PROVE  NamesInv'
  <2>1. UNCHANGED <<cpc, paths>> /\ alive' \subseteq alive
    BY <1>4 DEF Worker, WorkerNext, LoadSize, LoadFd, SetAffinity,
         SetScheduler, OpenSegment, Multiply, WriteBack, Reply, StopInPrintf,
         Answer, Crash, Exit, ipcVars
  <2>2. ResultIsThere' /\ \A d \in Clients : shm[d] # "none" => shm'[d] # "none"
    BY <1>0, <1>4, ResultWorker DEF Worker, NamesInv
  <2> QED BY <1>2, <2>1, <2>2
<1> QED BY <1>1, <1>3, <1>4 DEF Next

LEMMA MeetStep ==
    ASSUME TypeOK, SlotInv, OnceInv, MeetInv, [Next]_vars
    PROVE  MeetInv'
  BY OpenedStep, LeftStep, EndsStep, WaitsStep, NamesStep DEF MeetInv

LEMMA MeetInit == Init => MeetInv
<1> SUFFICES ASSUME Init PROVE MeetInv
  OBVIOUS
<1>1. /\ writers = {} /\ asleep = {} /\ alive = {Server} /\ Server \notin Clients
      /\ \A c \in Clients : cpc[c] = "mkfifo" /\ wpc[c] = "none"
  BY ProcessesAreDistinct DEF Init, IpcInit, ClientInit, WorkerInit
<1>2. EndsInv
  BY <1>1 DEF EndsInv, ServerWritesReplies, UnopenedHasNoWriter, ReaderMeetsWriter
<1>3. UnopenedWaits
  BY <1>1 DEF UnopenedWaits, Past
<1>4. NamesInv
  BY <1>1 DEF NamesInv, LiveAreRunning, NamesAreGood, ResultIsThere, Running
<1> QED BY <1>2, <1>3, <1>4 DEF MeetInv

LEMMA MeetCorrect == Spec => [](TypeOK /\ OnceInv /\ MeetInv)
<1>1. TypeOK /\ SlotInv /\ OnceInv /\ MeetInv /\ [Next]_vars
        => (TypeOK /\ SlotInv /\ OnceInv /\ MeetInv)'
  BY TypeStep, SlotStep, OnceStep, MeetStep DEF SlotInv
<1>2. Init => TypeOK /\ SlotInv /\ OnceInv /\ MeetInv
  BY TypeInit, SlotInit, OnceInit, MeetInit
<1> QED BY <1>1, <1>2, PTL DEF Spec

(* When the main thread is about to open the reply FIFO of a request, the  *)
(* FIFO and the segment named in it are there (client_fifo.c unlinks only  *)
(* after its answer).                                                      *)
THEOREM RequestsAreLive == Spec => []RequestNamesLiveObjects
<1>1. TypeOK /\ OnceInv /\ MeetInv => RequestNamesLiveObjects
  <2> SUFFICES ASSUME TypeOK, OnceInv, MeetInv, spc = "openReply", mc \in Clients
               PROVE  mc \in paths /\ shm[mc] # "none"
    BY DEF RequestNamesLiveObjects
  <2>1. ~Opened(mc)
    BY DEF OnceInv, Opened, Searching
  <2>2. cpc[mc] \notin Past /\ mc \notin Silent
    BY <2>1 DEF MeetInv, UnopenedWaits, OnceInv, SilentNowhere
  <2>3. cpc[mc] \in Running \cup {"killed", "BAD_OPEN"}
    BY <2>2 DEF TypeOK, ClientTypeOK, ClientCalls, ClientExits, Past, Silent, Running
  <2> QED BY <2>3 DEF MeetInv, NamesInv, NamesAreGood
<1> QED BY <1>1, MeetCorrect, PTL

(* A client takes end-of-file for its answer only if the server is gone,   *)
(* or main has closed that client's FIFO and is about to exit              *)
(* (client_fifo.c tests its read for ERROR only; server_fifo.c closes one  *)
(* reply FIFO, after its loop, and no other thread closes any).            *)
THEOREM EofOnlyAtShutdown == Spec => EofMeansShutdown
<1>1. TypeOK /\ MeetInv /\ [Next]_vars
        => [\A c \in Clients : cpc[c] = "read" /\ replies[c] = 0 /\ cpc'[c] = "report"
                                => Left(c)]_vars
  <2> SUFFICES ASSUME TypeOK, MeetInv, Next, NEW c \in Clients,
                      cpc[c] = "read", replies[c] = 0, cpc'[c] = "report"
               PROVE  Left(c)
    OBVIOUS
  <2>1. ~HasWriter(c)
    <3>1. \E d \in Clients : Client(d) \/ User(d)
      BY DEF Next, Worker, Main, Hold, Interrupt
    <3> QED
      BY <3>1 DEF Client, User, ClientStep, OpenRequest, RequestOpened, Write,
             OpenReply, ReplyOpened, Read, Finish, Setup, Kill, Goto, TypeOK,
             ClientTypeOK
  <2>2. <<Server, c>> \notin writers
    BY <2>1 DEF HasWriter, Processes
  <2>3. Meets(c)
    BY DEF MeetInv, EndsInv, ReaderMeetsWriter
  <2> QED BY <2>2, <2>3 DEF Meets
<1> QED BY <1>1, MeetCorrect, PTL DEF Spec, EofMeansShutdown, Left
=============================================================================
