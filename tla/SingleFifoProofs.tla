-------------------------- MODULE SingleFifoProofs --------------------------
(***************************************************************************)
(* The safety properties of SingleFifoServer, for any finite number of     *)
(* clients, whatever calls fail and whoever is killed.                     *)
(***************************************************************************)
EXTENDS SingleFifoServer, SequenceTheorems, FiniteSetTheorems, TLAPS

-----------------------------------------------------------------------------
(* Types, and whose request the server has in its hands.                   *)
Leaving == {"close", "unlinkRequests", "unlinkResults", "SUCCESS",
            "BAD_CLOSE", "BAD_UNLINK"}
RequestInHands == spc \in {"multiply", "write"} => mc \in Clients

(* None of the opens of a server in its loop sleeps any more.              *)
Opened == {"read", "multiply", "write", "close"}
ServerIsAwake ==
    /\ spc \in Opened \cup {"inOpenResults"} => <<Server, "c2s">> \notin asleep
    /\ spc \in Opened => <<Server, "s2c">> \notin asleep

(* The server leaves its loop only for a request to shut down.             *)
HandInv == TypeOK /\ RequestInHands /\ ServerIsAwake /\ ShutdownWasAsked

LEMMA OpenTypes ==
    ASSUME TypeOK, NEW p \in Processes, NEW f \in Fifos,
           OpenRead(p, f) \/ OpenWrite(p, f)
    PROVE  /\ readers' \subseteq Processes \X Fifos
           /\ writers' \subseteq Processes \X Fifos
           /\ asleep' \subseteq readers' \cup writers'
  BY DEF TypeOK, OpenRead, OpenWrite

LEMMA ExitTypes ==
    ASSUME TypeOK, NEW p, Exit(p)
    PROVE  /\ alive' \subseteq Processes
           /\ readers' \subseteq Processes \X Fifos
           /\ writers' \subseteq Processes \X Fifos
           /\ asleep' \subseteq readers' \cup writers'
  BY DEF TypeOK, Exit

LEMMA HandServer == HandInv /\ ServerStep => HandInv'
<1> SUFFICES ASSUME HandInv, ServerStep PROVE HandInv'
  OBVIOUS
<1> USE DEF HandInv, RequestInHands, ServerIsAwake, Opened, ShutdownWasAsked,
            endVars, clientVars
<1>0. Server \in Processes /\ {"c2s", "s2c"} \subseteq Fifos
  BY DEF Processes, Fifos
<1>1. CASE MakeFifos
  <2> USE DEF TypeOK, ServerExits
  <2>1. CASE MakeFifo("mkfifoRequests", "c2s", "mkfifoResults")
    BY <1>0, <2>1, ExitTypes DEF MakeFifo, Before, Quit
  <2>2. CASE MakeFifo("mkfifoResults", "s2c", "openRequests")
    BY <1>0, <2>2, ExitTypes DEF MakeFifo, Before, Quit
  <2> QED BY <1>1, <2>1, <2>2 DEF MakeFifos
<1>2. CASE ServerOpenRequests \/ ServerOpenResults \/ ServerOpened
  BY <1>0, <1>2, OpenTypes
     DEF TypeOK, ServerOpenRequests, ServerOpenResults, ServerOpened, Before,
         OpenWrite
<1>3. CASE ServerRead
  <2>1. CASE /\ requests # <<>> /\ mc' = Head(requests)
             /\ requests' = Tail(requests)
             /\ spc' = IF mc' \in Quitters THEN "close" ELSE "multiply"
             /\ UNCHANGED <<alive, endVars>>
    <3>1. Head(requests) \in Clients /\ Tail(requests) \in Seq(Clients)
      BY <2>1, HeadTailProperties DEF TypeOK
    <3>2. CASE mc' \in Quitters
      BY <1>3, <2>1, <3>1, <3>2 DEF TypeOK, ServerRead, Before
    <3>3. CASE mc' \notin Quitters
      BY <1>3, <2>1, <3>1, <3>3 DEF TypeOK, ServerRead, Before
    <3> QED BY <3>2, <3>3
  <2>2. CASE Quit("BAD_READ") /\ UNCHANGED <<requests, mc>>
    BY <1>3, <2>2, ExitTypes DEF TypeOK, ServerRead, Before, Quit, ServerExits
  <2> QED BY <1>3, <2>1, <2>2 DEF ServerRead
<1>4. CASE Multiply \/ Close
  <2>1. CASE Multiply
    BY <1>4, <2>1, ExitTypes DEF TypeOK, Multiply, Before, Quit, ServerExits
  <2>2. CASE Close
    BY <1>4, <2>2, ExitTypes DEF TypeOK, Close, Before, Quit, ServerExits
  <2> QED BY <1>4, <2>1, <2>2
<1>5. CASE ServerWrite
  <2>1. CASE spc' = "read" /\ results' = Append(results, mc)
    BY <1>5, <2>1, AppendProperties DEF TypeOK, ServerWrite, Before, Quit
  <2>2. CASE Quit("killed") /\ UNCHANGED <<results, mc>>
    BY <1>5, <2>2, ExitTypes DEF TypeOK, ServerWrite, Before, Quit, ServerExits
  <2> QED BY <1>5, <2>1, <2>2 DEF ServerWrite
<1>6. CASE UnlinkRequests \/ UnlinkResults
  BY <1>6, ExitTypes
     DEF TypeOK, UnlinkRequests, UnlinkResults, Before, Quit, ServerExits
<1> QED BY <1>1, <1>2, <1>3, <1>4, <1>5, <1>6 DEF ServerStep

ClientMoves(c) == OpenRequests(c) \/ ClientStep(c) \/ Kill(c)

LEMMA HandClient ==
    ASSUME HandInv, NEW c \in Clients, ClientMoves(c)
    PROVE  HandInv'
<1> USE SingleFifoAssumption
    DEF HandInv, RequestInHands, ServerIsAwake, Opened, ShutdownWasAsked,
        endVars, serverVars, Goto, ClientExits
<1>0. c \in Processes /\ {"c2s", "s2c"} \subseteq Fifos
  BY DEF Processes, Fifos
<1>1. CASE OpenRequests(c)
  BY <1>0, <1>1, OpenTypes DEF TypeOK, OpenRequests, OpenWrite
<1>2. CASE RequestsOpened(c)
  BY <1>2 DEF TypeOK, RequestsOpened
<1>3. CASE OpenResults(c)
  BY <1>0, <1>3, OpenTypes, ExitTypes DEF TypeOK, OpenResults, OpenRead, Exit
<1>4. CASE ResultsOpened(c) \/ Kill(c)
  BY <1>4, ExitTypes DEF TypeOK, ResultsOpened, Kill, Exit
<1>5. CASE Write(c)
  <2>1. requests' \in Seq(Clients)
    <3>1. Append(requests, c) \in Seq(Clients)
      BY AppendProperties DEF TypeOK
    <3> QED BY <1>5, <3>1 DEF TypeOK, Write
  <2>2. CASE HasReader("c2s")
    BY <1>5, <2>1, <2>2 DEF TypeOK, Write
  <2>3. CASE ~HasReader("c2s")
    BY <1>5, <2>3, ExitTypes DEF TypeOK, Write, Exit
  <2> QED BY <2>2, <2>3
<1>6. CASE Read(c)
  <2>1. CASE results # <<>>
    <3>1. Head(results) \in Clients /\ Tail(results) \in Seq(Clients)
      BY <2>1, HeadTailProperties DEF TypeOK
    <3> QED BY <1>6, <2>1, <3>1, ExitTypes DEF TypeOK, Read, Exit
  <2>2. CASE results = <<>>
    BY <1>6, <2>2, ExitTypes DEF TypeOK, Read, Exit
  <2> QED BY <2>1, <2>2
<1> QED BY <1>1, <1>2, <1>3, <1>4, <1>5, <1>6 DEF ClientMoves, ClientStep

LEMMA HandQuiet == HandInv /\ UNCHANGED vars => HandInv'
  BY DEF HandInv, TypeOK, RequestInHands, ServerIsAwake, Opened, ShutdownWasAsked, vars

LEMMA HandInit == Init => HandInv
  BY SingleFifoAssumption, EmptySeq
     DEF Init, HandInv, TypeOK, RequestInHands, ServerIsAwake, Opened,
         ShutdownWasAsked, Processes, Fifos

LEMMA HandNext == HandInv /\ [Next]_vars => HandInv'
  BY HandServer, HandClient, HandQuiet DEF Next, ClientMoves

(* The programs keep every variable to its type.                           *)
THEOREM SingleFifoTypes == Spec => []TypeOK
<1>1. HandInv => TypeOK
  BY DEF HandInv
<1> QED BY <1>1, HandInit, HandNext, PTL DEF Spec

(* The server leaves its loop in order only when it was asked to.          *)
THEOREM ShutdownIsAsked == Spec => []ShutdownWasAsked
<1>1. HandInv => ShutdownWasAsked
  BY DEF HandInv
<1> QED BY <1>1, HandInit, HandNext, PTL DEF Spec

-----------------------------------------------------------------------------
(* Before the server opens the result FIFO no client gets past its own     *)
(* open of it, so that nothing was asked; from then on, until it leaves    *)
(* the loop, the server is a writer of results.                            *)
Early == {"mkfifoRequests", "mkfifoResults", "openRequests", "inOpenRequests"}
Loop == {"inOpenResults", "read", "multiply", "write"}
Up == Server \in alive /\ spc \in Loop

ClientsWriteRequests == \A c \in Clients : <<c, "s2c">> \notin writers
NothingAskedEarly ==
    spc \in Early =>
        /\ requests = <<>> /\ results = <<>>
        /\ <<Server, "s2c">> \notin writers
        /\ \A c \in Clients :
              /\ cpc[c] \notin {"write", "read", "SUCCESS"}
              /\ cpc[c] = "inOpenResults" => <<c, "s2c">> \in asleep
ServerWritesResults == Up => <<Server, "s2c">> \in writers

EndsInv == /\ ClientsWriteRequests /\ NothingAskedEarly /\ ServerWritesResults

LEMMA EndsServer == HandInv /\ EndsInv /\ ServerStep => EndsInv'
<1> SUFFICES ASSUME HandInv, EndsInv, ServerStep PROVE EndsInv'
  OBVIOUS
<1> USE SingleFifoAssumption
    DEF EndsInv, ClientsWriteRequests, NothingAskedEarly, ServerWritesResults,
        Early, Loop, Up, endVars, clientVars, Before, Quit, Exit, ServerExits
<1>1. CASE MakeFifos
  BY <1>1 DEF MakeFifos, MakeFifo
<1>2. CASE ServerOpenRequests
  BY <1>2 DEF ServerOpenRequests, OpenRead
<1>3. CASE ServerOpenResults
  BY <1>3 DEF ServerOpenResults, OpenWrite
<1>4. CASE ServerOpened \/ ServerRead
  BY <1>4 DEF ServerOpened, ServerRead
<1>5. CASE Multiply \/ ServerWrite \/ Close
  BY <1>5 DEF Multiply, ServerWrite, Close
<1>6. CASE UnlinkRequests \/ UnlinkResults
  BY <1>6 DEF UnlinkRequests, UnlinkResults
<1> QED BY <1>1, <1>2, <1>3, <1>4, <1>5, <1>6 DEF ServerStep

LEMMA EndsClient ==
    ASSUME HandInv, EndsInv, NEW c \in Clients, ClientMoves(c)
    PROVE  EndsInv'
<1> USE SingleFifoAssumption
    DEF EndsInv, ClientsWriteRequests, NothingAskedEarly, ServerWritesResults,
        Early, Loop, Up, endVars, serverVars, Goto
<1>0. cpc \in [Clients -> {"openRequests", "inOpenRequests", "openResults",
                          "inOpenResults", "write", "read"} \cup ClientExits]
  BY DEF HandInv, TypeOK
<1>1. CASE OpenRequests(c)
  BY <1>0, <1>1 DEF OpenRequests, OpenWrite
<1>2. CASE RequestsOpened(c)
  BY <1>0, <1>2 DEF RequestsOpened
<1>3. CASE OpenResults(c)
  BY <1>0, <1>3 DEF OpenResults, OpenRead, Exit, HasWriter, Processes
<1>4. CASE ResultsOpened(c)
  BY <1>0, <1>4 DEF ResultsOpened, Exit
<1>5. CASE Write(c) \/ Read(c)
  BY <1>0, <1>5 DEF Write, Read, Exit
<1>6. CASE Kill(c)
  BY <1>0, <1>6 DEF Kill, Exit
<1> QED BY <1>1, <1>2, <1>3, <1>4, <1>5, <1>6 DEF ClientMoves, ClientStep

LEMMA EndsQuiet == EndsInv /\ UNCHANGED vars => EndsInv'
  BY DEF EndsInv, ClientsWriteRequests, NothingAskedEarly, ServerWritesResults,
         Up, vars

-----------------------------------------------------------------------------
(* Counting the clients that are where they are.                           *)
At(call) == {c \in Clients : cpc[c] = call}

LEMMA CountsAreNumbers ==
    ASSUME NEW call
    PROVE  IsFiniteSet(At(call)) /\ Cardinality(At(call)) \in Nat
<1>1. IsFiniteSet(At(call))
  BY SingleFifoAssumption, FS_Subset DEF At
<1> QED BY <1>1, FS_CardinalityType

LEMMA CountMoves ==
    ASSUME HandInv, NEW c \in Clients, NEW next, Goto(c, next), NEW call
    PROVE  Cardinality(At(call)') =
             Cardinality(At(call)) + (IF next = call /\ cpc[c] # call THEN 1 ELSE 0)
                                   - (IF next # call /\ cpc[c] = call THEN 1 ELSE 0)
<1>0. At(call)' = IF next = call THEN At(call) \cup {c} ELSE At(call) \ {c}
  BY DEF HandInv, TypeOK, At, Goto
<1>1. IsFiniteSet(At(call)) /\ Cardinality(At(call)) \in Nat
  BY CountsAreNumbers
<1>2. c \in At(call) <=> cpc[c] = call
  BY DEF At
<1>3. Cardinality(At(call) \cup {c}) =
        IF c \in At(call) THEN Cardinality(At(call)) ELSE Cardinality(At(call)) + 1
  BY <1>1, FS_AddElement
<1>4. Cardinality(At(call) \ {c}) =
        IF c \in At(call) THEN Cardinality(At(call)) - 1 ELSE Cardinality(At(call))
  BY <1>1, FS_RemoveElement
<1> QED BY <1>0, <1>1, <1>2, <1>3, <1>4

(* What is owed to the clients that wait, from the moment the server opens *)
(* the result FIFO until it leaves the loop.                               *)
Balanced == /\ Cardinality(At("read")) <= Outstanding
            /\ Outstanding <= Cardinality(At("read")) + Cardinality(At("killed"))
BalanceInv == Up => Balanced

LEMMA BalanceServer == HandInv /\ EndsInv /\ BalanceInv /\ ServerStep => BalanceInv'
<1> SUFFICES ASSUME HandInv, EndsInv, BalanceInv, ServerStep, Up'
             PROVE  Balanced'
  BY DEF BalanceInv
<1>0. /\ UNCHANGED cpc
      /\ Server \in alive
  BY DEF ServerStep, MakeFifos, MakeFifo, ServerOpenRequests, ServerOpenResults,
         ServerOpened, ServerRead, Multiply, ServerWrite, Close, UnlinkRequests,
         UnlinkResults, Before, clientVars
<1>1. At("read")' = At("read") /\ At("killed")' = At("killed")
  BY <1>0 DEF At
<1>2. Cardinality(At("read")) \in Nat /\ Cardinality(At("killed")) \in Nat
  BY CountsAreNumbers
<1>3. Len(requests) \in Nat /\ Len(results) \in Nat
  BY LenProperties DEF HandInv, TypeOK
<1>4. CASE spc = "inOpenRequests"
  <2>1. Outstanding' = 0
    <3>1. requests = <<>> /\ results = <<>> /\ UNCHANGED <<requests, results>>
      BY <1>4 DEF EndsInv, NothingAskedEarly, Early, ServerStep, MakeFifos,
         MakeFifo, ServerOpenRequests, ServerOpenResults, ServerOpened,
         ServerRead, Multiply, ServerWrite, Close, UnlinkRequests,
         UnlinkResults, Before
    <3>2. spc' = "inOpenResults"
      BY <1>4 DEF ServerStep, MakeFifos, MakeFifo, ServerOpenRequests,
         ServerOpenResults, ServerOpened, ServerRead, Multiply, ServerWrite,
         Close, UnlinkRequests, UnlinkResults, Before
    <3> QED BY <3>1, <3>2 DEF Outstanding
  <2>2. At("read") = {}
    BY <1>4 DEF EndsInv, NothingAskedEarly, Early, At
  <2> QED BY <1>1, <1>2, <2>1, <2>2, FS_EmptySet DEF Balanced
<1>5. CASE spc # "inOpenRequests"
  <2>1. Up /\ Outstanding' = Outstanding
    <3>1. CASE ServerOpened \/ Multiply
      BY <3>1, SingleFifoAssumption
         DEF Up, Loop, Outstanding, ServerOpened, Multiply, Before, Quit, Exit
    <3>2. CASE ServerRead
      <4>1. /\ requests # <<>> /\ requests' = Tail(requests)
            /\ spc = "read" /\ spc' = "multiply" /\ results' = results
        BY <3>2 DEF ServerRead, Before, Quit, Exit, Up, Loop
      <4>2. Len(Tail(requests)) = Len(requests) - 1
        BY <4>1, HeadTailProperties DEF HandInv, TypeOK
      <4> QED BY <1>0, <1>3, <4>1, <4>2 DEF Up, Loop, Outstanding
    <3>3. CASE ServerWrite
      <4>1. /\ results' = Append(results, mc) /\ mc \in Clients
            /\ spc = "write" /\ spc' = "read" /\ requests' = requests
        BY <3>3 DEF ServerWrite, Before, Quit, Exit, Up, Loop, HandInv,
                    RequestInHands
      <4>2. Len(Append(results, mc)) = Len(results) + 1
        BY <4>1, AppendProperties DEF HandInv, TypeOK
      <4> QED BY <1>0, <1>3, <4>1, <4>2 DEF Up, Loop, Outstanding
    <3>4. ServerOpened \/ Multiply \/ ServerRead \/ ServerWrite
      BY <1>5 DEF Up, Loop, ServerStep, MakeFifos, MakeFifo, ServerOpenRequests,
         ServerOpenResults, Close, UnlinkRequests, UnlinkResults, Before, Quit
    <3> QED BY <3>1, <3>2, <3>3, <3>4
  <2> QED BY <1>1, <2>1 DEF BalanceInv, Balanced
<1> QED BY <1>4, <1>5

LEMMA BalanceClient ==
    ASSUME HandInv, EndsInv, BalanceInv, NEW c \in Clients, ClientMoves(c)
    PROVE  BalanceInv'
<1> SUFFICES ASSUME Up' PROVE Balanced'
  BY DEF BalanceInv
<1>0. Up /\ UNCHANGED spc
  BY SingleFifoAssumption
     DEF Up, ClientMoves, ClientStep, OpenRequests, RequestsOpened, OpenResults,
         ResultsOpened, Write, Read, Kill, serverVars, Exit
<1>1. /\ Cardinality(At("read")) \in Nat /\ Cardinality(At("killed")) \in Nat
      /\ Len(requests) \in Nat /\ Len(results) \in Nat
  BY CountsAreNumbers, LenProperties DEF HandInv, TypeOK
<1>2. Balanced
  BY <1>0 DEF BalanceInv
<1>3. CASE OpenRequests(c) \/ RequestsOpened(c) \/ OpenResults(c) \/ ResultsOpened(c)
  <2>1. PICK next \in {"inOpenRequests", "openResults", "inOpenResults", "BAD_OPEN",
                      "write"} : Goto(c, next)
    BY <1>3 DEF OpenRequests, RequestsOpened, OpenResults, ResultsOpened
  <2>2. cpc[c] \notin {"read", "killed"} /\ UNCHANGED <<requests, results>>
    BY <1>3 DEF OpenRequests, RequestsOpened, OpenResults, ResultsOpened
  <2>3. /\ Cardinality(At("read")') = Cardinality(At("read"))
        /\ Cardinality(At("killed")') = Cardinality(At("killed"))
    BY <1>1, <2>1, <2>2, CountMoves
  <2> QED BY <1>0, <1>2, <2>2, <2>3 DEF Balanced, Outstanding
<1>4. CASE Write(c)
  <2>0. cpc[c] = "write"
    BY <1>4 DEF Write
  <2>1. CASE HasReader("c2s")
    <3>1. /\ Cardinality(At("read")') = Cardinality(At("read")) + 1
          /\ Cardinality(At("killed")') = Cardinality(At("killed"))
      BY <1>1, <1>4, <2>0, <2>1, CountMoves DEF Write
    <3>2. requests' = Append(requests, c) /\ results' = results
      BY <1>4, <2>1 DEF Write
    <3>3. Len(Append(requests, c)) = Len(requests) + 1
      BY AppendProperties DEF HandInv, TypeOK
    <3> QED BY <1>0, <1>1, <1>2, <3>1, <3>2, <3>3 DEF Balanced, Outstanding
  <2>2. CASE ~HasReader("c2s")
    <3>1. /\ Cardinality(At("read")') = Cardinality(At("read"))
          /\ Cardinality(At("killed")') = Cardinality(At("killed")) + 1
      BY <1>1, <1>4, <2>0, <2>2, CountMoves DEF Write
    <3>2. UNCHANGED <<requests, results>>
      BY <1>4, <2>2 DEF Write
    <3> QED BY <1>0, <1>1, <1>2, <3>1, <3>2 DEF Balanced, Outstanding
  <2> QED BY <2>1, <2>2
<1>5. CASE Read(c)
  <2>1. /\ Cardinality(At("read")') = Cardinality(At("read")) - 1
        /\ Cardinality(At("killed")') = Cardinality(At("killed"))
    BY <1>1, <1>5, CountMoves DEF Read
  <2>2. HasWriter("s2c")
    BY <1>0 DEF EndsInv, ServerWritesResults, HasWriter, Processes
  <2>3. results # <<>> /\ results' = Tail(results) /\ requests' = requests
    BY <1>5, <2>2 DEF Read
  <2>4. Len(Tail(results)) = Len(results) - 1
    BY <2>3, HeadTailProperties DEF HandInv, TypeOK
  <2> QED BY <1>0, <1>1, <1>2, <2>1, <2>3, <2>4 DEF Balanced, Outstanding
<1>6. CASE Kill(c)
  <2>1. /\ Cardinality(At("read")') =
              Cardinality(At("read")) - (IF cpc[c] = "read" THEN 1 ELSE 0)
        /\ Cardinality(At("killed")') =
              Cardinality(At("killed")) + (IF cpc[c] # "killed" THEN 1 ELSE 0)
    BY <1>1, <1>6, CountMoves DEF Kill
  <2>2. UNCHANGED <<requests, results>>
    BY <1>6 DEF Kill
  <2> QED BY <1>0, <1>1, <1>2, <2>1, <2>2 DEF Balanced, Outstanding
<1> QED BY <1>3, <1>4, <1>5, <1>6 DEF ClientMoves, ClientStep

LEMMA BalanceQuiet == BalanceInv /\ UNCHANGED vars => BalanceInv'
<1> SUFFICES ASSUME BalanceInv, UNCHANGED vars PROVE BalanceInv'
  OBVIOUS
<1>1. At("read")' = At("read") /\ At("killed")' = At("killed")
  BY DEF At, vars
<1>2. UNCHANGED <<Up, Outstanding>>
  BY DEF Up, Outstanding, vars
<1> QED BY <1>1, <1>2 DEF BalanceInv, Balanced

LEMMA BalanceCorrect == Spec => [](HandInv /\ EndsInv /\ BalanceInv)
<1>1. Init => EndsInv /\ BalanceInv
  BY DEF Init, EndsInv, ClientsWriteRequests, NothingAskedEarly,
         ServerWritesResults, BalanceInv, Up, Loop
<1>2. HandInv /\ EndsInv /\ BalanceInv /\ [Next]_vars => EndsInv' /\ BalanceInv'
  BY EndsServer, EndsClient, EndsQuiet, BalanceServer, BalanceClient,
     BalanceQuiet DEF Next, ClientMoves
<1> QED BY <1>1, <1>2, HandInit, HandNext, PTL DEF Spec

(* In the server's loop nobody waits for a result that will not come,      *)
(* whichever client takes which result.                                    *)
THEOREM NobodyWaitsInVain == Spec => []WaitersAreOwed
<1>1. BalanceInv => WaitersAreOwed
  BY DEF BalanceInv, Balanced, Up, Loop, Serving, WaitersAreOwed, Waiting, At
<1> QED BY <1>1, BalanceCorrect, PTL

(* More results than clients that wait for one are the killed clients'.    *)
THEOREM SurplusIsTheKilled == Spec => []SurplusMeansKilled
<1>1. BalanceInv => SurplusMeansKilled
  BY DEF BalanceInv, Balanced, Up, Loop, Serving, SurplusMeansKilled, Waiting,
         Killed, At
<1> QED BY <1>1, BalanceCorrect, PTL
=============================================================================
