---------------------------- MODULE StaticProofs ----------------------------
(***************************************************************************)
(* The service of static_alloc, for any number of clients, any negative    *)
(* sizes, any others from 2 to SHARED_MEM_SIZE, and any allocation that    *)
(* fails.  The list holds the threads that were created                    *)
(* (ListHoldsThreads); the server dies only of two answers to one client,  *)
(* of a client that left, of a negative size or of an untested NULL        *)
(* (CrashNeedsTwoAnswersOrDeath); a wrong matrix is reported only for a    *)
(* cause (WrongReportHasCause); and end-of-file is read only from a server *)
(* that is gone or closes down (EofMeansShutdown).                         *)
(*                                                                         *)
(* Until shutdown most steps are steps of MatrixService, and its lemmas    *)
(* are used.  From shutdown on the threads without a node are not in       *)
(* cancelled, and Started no longer tells which requests were accepted:    *)
(* what is needed then (LastingInv) is said without it.                    *)
(***************************************************************************)
EXTENDS StaticService, AnswerProofs

(* The nodes are a chain from the head on.                                 *)
Chain(n) ==
    /\ Allocated = 1 .. n
    /\ head = IF n = 0 THEN NULL ELSE 1
    /\ \A i \in 1 .. n :
          node[i] = [data |-> node[i].data,
                     next |-> IF i = n THEN NULL ELSE i + 1]

(* It holds the threads of the list, in order, but for the dropped ones.   *)
InList(p) == \E k \in DOMAIN list : list[k] = p
NodesHoldThreads ==
    /\ \A p \in dropped : InList(p)
    /\ \A i \in Allocated : InList(node[i].data) /\ node[i].data \notin dropped
    /\ \A k \in DOMAIN list : \/ list[k] \in dropped
                              \/ \E i \in Allocated : list[k] = node[i].data
    /\ \A i, j \in Allocated : i < j =>
          \E k, l \in DOMAIN list :
              k < l /\ node[i].data = list[k] /\ node[j].data = list[l]

(* The List structure is made before the request FIFO is opened, and freed *)
(* at the end; without one main does not get past the hold thread.         *)
Opening == {"mkfifo", "openRequest", "inOpenRequest"}
Serving == {"while", "read", "inRead", "openReply", "inOpenReply", "cancel"}
              \cup FillSteps
ChainInv ==
    IF head = NoList THEN Allocated = {}
                     ELSE /\ IsFiniteSet(Allocated)
                          /\ Chain(Cardinality(Allocated))
                          /\ NodesHoldThreads
ListInv ==
    /\ ChainInv
    /\ spc \in Opening => dropped = {} /\ Allocated = {} /\ list = <<>>
    /\ spc \in Serving => head # NoList
    /\ spc \in ClosingDown =>
          /\ Allocated = {}
          /\ \A c \in Clients \ dropped : wpc[c] # "none" => IsCancelled(c)

(* A NULL that malloc returned for C ends the server.                      *)
NoNull == \A c \in Clients : C[c] # "NULL"
NullIsDeath == NoNull \/ Server \notin alive

(* What the proofs about MatrixService say until shutdown.                 *)
ServingInv == /\ SlotInv /\ OnceInv /\ EndsInv /\ ServeInv
              /\ SlotNamesClients /\ ArgsAreLoaded

(* What is left of it after shutdown.  A client that sleeps in the open of *)
(* its FIFO or reads it shares it with a server that is awake, or the      *)
(* server left it; and the clients whose descriptors workers have loaded   *)
(* or will load asked, and the server does not sleep in the open of theirs.*)
Joined(c) == Holds(c) \/ Left(c)
ClientsAreJoined ==
    \A c \in Clients :
        /\ cpc[c] \in {"inOpenReply", "read"} => <<c, c>> \in readers
        /\ cpc[c] = "inOpenReply" => <<c, c>> \in asleep \/ Joined(c)
        /\ cpc[c] = "read" => Joined(c)
SilentHaveNoWorker == \A c \in Silent : wpc[c] = "none"
Held(c) == /\ c \in Clients \ Silent
           /\ Server \in alive => <<Server, c>> \notin writers \cap asleep
LoadedAreHeld ==
    \A c \in Clients : wpc[c] # "none" =>
        /\ pthread_args.size \in Clients /\ Held(pthread_args.fd)
        /\ wpc[c] # "size" => arg[c].size \in Clients
        /\ wpc[c] \notin {"size", "fd"} => Held(arg[c].fd)
LastingInv == /\ ServerWritesReplies /\ ReadersAreOwn /\ ReadersAreThere
              /\ AwakeMeetsReader /\ ClientsAreJoined /\ SilentHaveNoWorker
              /\ LoadedAreHeld

(* Whatever is loaded is loaded once, and a result is computed after that. *)
Unloaded(c) ==
    /\ wpc[c] \in {"none", "size"} => arg[c].size = NoClient
    /\ wpc[c] \in {"none", "size", "fd"} => arg[c].fd = NoClient
    /\ wpc[c] \in Early => arg[c].shm = NoClient /\ C[c] = "none"
    /\ wpc[c] = "affinity" => SingleCore
    /\ wpc[c] \in {"writeBack", "reply"} => C[c] # "none"

(* A client has a segment when it has asked.                               *)
Unmade == {"mkfifo", "BAD_FIFO", "BAD_SHM_OPEN", "BAD_TRUNCATE", "BAD_MMAP"}
SegmentsAreMade == \A c \in Clients : cpc[c] \notin Unmade => shm[c] # "none"

(* Nobody else acts on the request of c, and its own worker does all that  *)
(* the segment needs: the segment then goes from input to product.         *)
Alone(c) == \A d \in Clients \ {c} : arg[d].fd # c /\ arg[d].shm # c
Fits(c) == arg[c].shm = c /\ Size[arg[c].size] >= Size[c]
Progress(c) ==
    /\ wpc[c] \in Early => shm[c] \in {"none", "input"}
    /\ (wpc[c] = "multiply" /\ Fits(c)) => shm[c] = "input"
    /\ (wpc[c] = "writeBack" /\ Fits(c)) => C[c] = "product"
    /\ (wpc[c] = "reply" /\ Fits(c)) => shm[c] = "product"
    /\ (wpc[c] = "done" /\ Fits(c) /\ C[c] # "none") => shm[c] = "product"
ProgressInv == \A c \in Clients : Alone(c) => Progress(c)

ExitIsDeath == spc \in ServerExits => Server \notin alive
MainInv == /\ TypeOK /\ RequestInHand /\ CancelIsLast /\ ExitIsDeath
           /\ spc \notin ClosingDown => ServingInv
           /\ LastingInv /\ NamesInv /\ SegmentsAreMade
           /\ \A c \in Clients : Unloaded(c)
StaticInv == ListInv /\ NullIsDeath /\ (NoNull => MainInv)

(* A client has an answer only from a worker that has ended, and either    *)
(* gave up early or computed something, until main closes that client's    *)
(* FIFO.                                                                   *)
Served(c) == Server \in alive /\ (<<Server, c>> \in writers \/ ~ClosedAtShutdown(c))
AnsweredBy(d, c) == /\ wpc[d] = "done" /\ arg[d].fd = c
                    /\ arg[d].shm = NoClient \/ C[d] # "none"
AnswersComeFromWorkers ==
    \A c \in Clients :
        (Served(c) /\ (replies[c] > 0 \/ cpc[c] \in Answered))
            => \E d \in Clients : AnsweredBy(d, c)
CauseInv == NoNull => /\ AnswersComeFromWorkers /\ ProgressInv
                      /\ CrashNeedsTwoAnswersOrDeath

-----------------------------------------------------------------------------
(* The recursion along next ends: from the node a on the nodes are a, a+1, *)
(* up to n.                                                                *)
Follows(f, n) ==
    f = [a \in 1 .. n |->
            <<a>> \o (IF node[a].next = NULL THEN <<>> ELSE f[node[a].next])]
Upwards(a, n) == [i \in 1 .. (n - a) + 1 |-> (a + i) - 1]

LEMMA UpwardsStep ==
    ASSUME NEW n \in Nat, NEW a \in 1 .. n
    PROVE  /\ Upwards(a, n) \in Seq(Nat)
           /\ a = n => <<a>> \o <<>> = Upwards(a, n)
           /\ a < n => <<a>> \o Upwards(a + 1, n) = Upwards(a, n)
<1>1. /\ (n - a) + 1 \in Nat /\ \A i \in 1 .. (n - a) + 1 : (a + i) - 1 \in Nat
  OBVIOUS
<1>2. Upwards(a, n) \in Seq(Nat) /\ Len(Upwards(a, n)) = (n - a) + 1
  BY <1>1 DEF Upwards
<1>3. <<a>> \in Seq(Nat) /\ Len(<<a>>) = 1 /\ <<a>>[1] = a
  OBVIOUS
<1>4. CASE a = n
  <2>1. <<a>> \o <<>> = <<a>>
    BY <1>3, ConcatEmptySeq
  <2>2. DOMAIN <<a>> = 1 .. 1 /\ Upwards(a, n) = [i \in 1 .. 1 |-> a]
    <3>1. (n - a) + 1 = 1 /\ \A i \in 1 .. 1 : (a + i) - 1 = a
      BY <1>4
    <3> QED BY <3>1 DEF Upwards
  <2>3. <<a>> = Upwards(a, n)
    BY <1>3, <2>2
  <2> QED BY <1>2, <1>4, <2>1, <2>3
<1>5. CASE a < n
  <2>1. a + 1 \in 1 .. n /\ (n - (a + 1)) + 1 = n - a /\ n - a \in Nat
    BY <1>5
  <2>2. /\ Upwards(a + 1, n) \in Seq(Nat) /\ Len(Upwards(a + 1, n)) = n - a
        /\ \A i \in 1 .. n - a : Upwards(a + 1, n)[i] = a + i
    <3>1. \A i \in 1 .. n - a : ((a + 1) + i) - 1 = a + i /\ a + i \in Nat
      BY <2>1
    <3>2. Upwards(a + 1, n) = [i \in 1 .. n - a |-> ((a + 1) + i) - 1]
      BY <2>1 DEF Upwards
    <3> QED BY <2>1, <3>1, <3>2
  <2>3. /\ <<a>> \o Upwards(a + 1, n) \in Seq(Nat)
        /\ Len(<<a>> \o Upwards(a + 1, n)) = (n - a) + 1
        /\ \A i \in 1 .. (n - a) + 1 :
              (<<a>> \o Upwards(a + 1, n))[i] =
                  IF i <= 1 THEN a ELSE Upwards(a + 1, n)[i - 1]
    BY <1>3, <2>1, <2>2, ConcatProperties
  <2>4. \A i \in 1 .. (n - a) + 1 :
           (<<a>> \o Upwards(a + 1, n))[i] = Upwards(a, n)[i]
    <3> SUFFICES ASSUME NEW i \in 1 .. (n - a) + 1
                 PROVE  (<<a>> \o Upwards(a + 1, n))[i] = Upwards(a, n)[i]
      OBVIOUS
    <3>1. Upwards(a, n)[i] = (a + i) - 1
      BY DEF Upwards
    <3>2. CASE i = 1
      BY <2>1, <2>3, <3>1, <3>2
    <3>3. CASE i # 1
      <4>1. i - 1 \in 1 .. n - a /\ ~(i <= 1) /\ a + (i - 1) = (a + i) - 1
        BY <2>1, <3>3
      <4> QED BY <2>2, <2>3, <3>1, <4>1
    <3> QED BY <3>2, <3>3
  <2>5. Len(<<a>> \o Upwards(a + 1, n)) = Len(Upwards(a, n))
    BY <1>2, <2>3
  <2>6. <<a>> \o Upwards(a + 1, n) = Upwards(a, n)
    BY <1>2, <2>3, <2>4, <2>5, SeqEqual
  <2> QED BY <1>2, <1>5, <2>6
<1> QED BY <1>2, <1>4, <1>5

LEMMA FollowsUpwards ==
    ASSUME NEW n \in Nat, Chain(n), NULL \notin Nat \ {0}
    PROVE  /\ Follows([a \in 1 .. n |-> Upwards(a, n)], n)
           /\ \A f : Follows(f, n) => \A a \in 1 .. n : f[a] = Upwards(a, n)
<1>1. \A a \in 1 .. n : /\ (node[a].next = NULL) <=> a = n
                        /\ a # n => node[a].next = a + 1 /\ a + 1 \in 1 .. n /\ a < n
  <2> SUFFICES ASSUME NEW a \in 1 .. n
               PROVE  /\ (node[a].next = NULL) <=> a = n
                      /\ a # n => node[a].next = a + 1 /\ a + 1 \in 1 .. n /\ a < n
    OBVIOUS
  <2>1. node[a].next = IF a = n THEN NULL ELSE a + 1
    <3>1. node[a] = [data |-> node[a].data, next |-> IF a = n THEN NULL ELSE a + 1]
      BY DEF Chain
    <3> QED BY <3>1
  <2>2. a + 1 \in Nat \ {0} /\ (a # n => a + 1 \in 1 .. n /\ a < n)
    OBVIOUS
  <2> QED BY <2>1, <2>2
<1>2. Follows([a \in 1 .. n |-> Upwards(a, n)], n)
  <2> DEFINE w == [a \in 1 .. n |-> Upwards(a, n)]
  <2> SUFFICES ASSUME NEW a \in 1 .. n
               PROVE  Upwards(a, n) =
                        <<a>> \o (IF node[a].next = NULL THEN <<>> ELSE w[node[a].next])
    BY DEF Follows
  <2> QED BY <1>1, UpwardsStep
<1>3. ASSUME NEW f, Follows(f, n), NEW b \in 1 .. n, f[b] # Upwards(b, n)
      PROVE  FALSE
  <2> DEFINE Bad == {k \in Nat : k < n /\ f[n - k] # Upwards(n - k, n)}
  <2>1. n - b \in Bad
    <3>1. n - b \in Nat /\ n - b < n /\ n - (n - b) = b
      OBVIOUS
    <3> QED BY <1>3, <3>1
  <2>2. PICK k \in Bad : \A j \in Bad : <<j, k>> \notin OpToRel(<, Nat)
    <3>1. Bad \subseteq Nat /\ Bad # {}
      BY <2>1
    <3> HIDE DEF Bad
    <3> QED BY <3>1, WFMin, NatLessThanWellFounded
  <2>3. /\ k \in Nat /\ n - k \in 1 .. n /\ f[n - k] # Upwards(n - k, n)
        /\ f[n - k] = <<n - k>> \o (IF node[n - k].next = NULL THEN <<>> ELSE f[node[n - k].next])
    <3>0. k \in Nat /\ k < n /\ f[n - k] # Upwards(n - k, n)
      BY <2>2
    <3>1. n - k \in 1 .. n
      BY <3>0
    <3>2. ASSUME NEW a \in 1 .. n
          PROVE  f[a] = <<a>> \o (IF node[a].next = NULL THEN <<>> ELSE f[node[a].next])
      <4> DEFINE Rest(b_) == IF node[b_].next = NULL THEN <<>> ELSE f[node[b_].next]
                 g == [b_ \in 1 .. n |-> <<b_>> \o Rest(b_)]
      <4>1. f = g
        BY <1>3 DEF Follows
      <4>2. g[a] = <<a>> \o Rest(a)
        <5> HIDE DEF Rest
        <5> QED OBVIOUS
      <4>3. f[a] = g[a]
        <5> HIDE DEF g
        <5> QED BY <4>1
      <4> HIDE DEF g
      <4> QED BY <4>2, <4>3
    <3> QED BY <3>0, <3>1, <3>2
  <2>4. CASE n - k = n
    BY <1>1, <2>3, <2>4, UpwardsStep
  <2>5. CASE n - k # n
    <3>1. k - 1 \in Nat /\ k - 1 < n /\ n - (k - 1) = (n - k) + 1 /\ k - 1 < k
      BY <2>3, <2>5
    <3>2. <<k - 1, k>> \in OpToRel(<, Nat)
      BY <2>3, <3>1 DEF OpToRel
    <3>3. f[(n - k) + 1] = Upwards((n - k) + 1, n)
      BY <2>2, <3>1, <3>2
    <3> QED BY <1>1, <2>3, <2>5, <3>3, UpwardsStep
  <2> QED BY <2>4, <2>5
<1> QED BY <1>2, <1>3

(* The list that the while loops over next meet.                           *)
LEMMA ListedNodes ==
    ASSUME ListInv, head # NoList
    PROVE  /\ Cardinality(Allocated) \in Nat
           /\ Nodes = [i \in Allocated |-> i] /\ DOMAIN Nodes = Allocated
           /\ Nodes \in Seq(Nat) /\ Len(Nodes) = Cardinality(Allocated)
           /\ Listed = [i \in Allocated |-> node[i].data]
<1> DEFINE n == Cardinality(Allocated)
<1>1. n \in Nat /\ Chain(n) /\ Allocated = 1 .. n
  BY FS_CardinalityType DEF ListInv, ChainInv, Chain
<1> HIDE DEF n
<1>2. Nodes = [i \in 1 .. n |-> i]
  <2>1. CASE n = 0
    BY <1>1, <2>1 DEF Chain, Nodes
  <2>2. CASE n # 0
    <3>1. head = 1 /\ head \notin {NULL, NoList} /\ 1 \in 1 .. n
      BY <1>1, <2>2, NodesAreSomewhere DEF Chain
    <3> DEFINE f == CHOOSE f : Follows(f, n)
    <3>2. Follows(f, n)
      BY <1>1, FollowsUpwards, NodesAreSomewhere
    <3>3. f[1] = Upwards(1, n)
      BY <1>1, <3>1, <3>2, FollowsUpwards, NodesAreSomewhere
    <3>4. Nodes = f[1]
      BY <1>1, <3>1 DEF Nodes, Follows
    <3>5. Upwards(1, n) = [i \in 1 .. n |-> i]
      <4>1. (n - 1) + 1 = n /\ \A i \in 1 .. n : (1 + i) - 1 = i
        BY <1>1
      <4> QED BY <4>1 DEF Upwards
    <3> QED BY <3>3, <3>4, <3>5
  <2> QED BY <2>1, <2>2
<1>3. Nodes \in Seq(Nat) /\ Len(Nodes) = n /\ DOMAIN Nodes = 1 .. n
  BY <1>1, <1>2
<1>4. Listed = [i \in 1 .. n |-> node[i].data]
  BY <1>2, <1>3 DEF Listed
<1> QED BY <1>1, <1>2, <1>3, <1>4 DEF n

(* create_node and list_add: the node goes behind the last.                *)
LEMMA ListAdd ==
    ASSUME ListInv, head # NoList, NEW thread, list_add(thread),
           NEW n \in Nat, n = Cardinality(Allocated)
    PROVE  /\ Allocated = 1 .. n
           /\ IsFiniteSet(Allocated') /\ Cardinality(Allocated') = n + 1
           /\ Chain(n + 1)' /\ head' # NoList
           /\ \A i \in 1 .. n : node'[i].data = node[i].data
           /\ node'[n + 1].data = thread
<1>1. Chain(n) /\ Allocated = 1 .. n
  BY DEF ListInv, ChainInv, Chain
<1>2. NewNode = n + 1
  BY DEF NewNode
<1>3. n = 0 => head = NULL
  BY <1>1 DEF Chain
<1>4. n # 0 => head = 1 /\ head # NULL /\ n \in 1 .. n /\ Nodes[Len(Nodes)] = n
  <2> SUFFICES ASSUME n # 0
               PROVE  head = 1 /\ head # NULL /\ n \in 1 .. n /\ Nodes[Len(Nodes)] = n
    OBVIOUS
  <2>1. n \in 1 .. n
    BY <1>1
  <2>2. head = 1 /\ head # NULL
    BY <1>1, NodesAreSomewhere DEF Chain
  <2>3. Nodes = [i \in Allocated |-> i] /\ Len(Nodes) = n
    BY ListedNodes
  <2> QED BY <1>1, <2>1, <2>2, <2>3
<1> DEFINE new == [data |-> thread, next |-> NULL]
           Link(i) == IF i = n THEN n + 1 ELSE node[i].next
<1>5. /\ DOMAIN node' = 1 .. n + 1 /\ node'[n + 1] = new
      /\ \A i \in 1 .. n : node'[i] = [data |-> node[i].data, next |-> Link(i)]
      /\ head' = 1
  <2> DEFINE linked == IF n = 0 THEN node ELSE [node EXCEPT ![n].next = n + 1]
  <2>1. /\ node' = [a \in (DOMAIN linked) \cup {n + 1} |->
                       IF a = n + 1 THEN new ELSE linked[a]]
        /\ head' = 1
    <3>1. CASE n = 0
      BY <1>2, <1>3, <3>1 DEF list_add, create_node
    <3>2. CASE n # 0
      <4>1. /\ node' = create_node(thread, [node EXCEPT ![n].next = n + 1])
            /\ head' = 1
        BY <1>2, <1>4, <3>2 DEF list_add
      <4> QED BY <1>2, <3>2, <4>1 DEF create_node
    <3> QED BY <3>1, <3>2
  <2>2. DOMAIN node = 1 .. n /\ DOMAIN linked = 1 .. n
    BY <1>1 DEF Allocated
  <2>3. ASSUME NEW i \in 1 .. n
        PROVE  linked[i] = [data |-> node[i].data, next |-> Link(i)]
    <3>1. node[i] = [data |-> node[i].data, next |-> IF i = n THEN NULL ELSE i + 1]
      BY <1>1 DEF Chain
    <3>2. n # 0
      BY <1>1
    <3>3. CASE i = n
      <4>1. linked[n] = [node[n] EXCEPT !.next = n + 1]
        BY <2>2, <3>2, <3>3
      <4>2. [node[n] EXCEPT !.next = n + 1] = [data |-> node[n].data, next |-> n + 1]
        BY <3>1, <3>3
      <4> QED BY <3>3, <4>1, <4>2
    <3>4. CASE i # n
      <4>1. linked[i] = node[i]
        BY <2>2, <3>4
      <4> QED BY <3>1, <3>4, <4>1
    <3> QED BY <3>3, <3>4
  <2>4. (1 .. n) \cup {n + 1} = 1 .. n + 1 /\ n + 1 \notin 1 .. n
    BY <1>1
  <2> HIDE DEF linked, new, Link
  <2>5. DOMAIN node' = 1 .. n + 1 /\ node'[n + 1] = new
    BY <2>1, <2>2, <2>4
  <2>6. \A i \in 1 .. n : node'[i] = linked[i]
    BY <2>1, <2>2, <2>4
  <2> QED BY <2>1, <2>3, <2>5, <2>6
<1>6. IsFiniteSet(1 .. n + 1) /\ Cardinality(1 .. n + 1) = n + 1
  <2>1. n + 1 \in Int /\ 1 \in Int /\ ~(1 > n + 1) /\ (n + 1) - 1 + 1 = n + 1
    OBVIOUS
  <2> QED BY <2>1, FS_Interval
<1>7. Chain(n + 1)'
  <2>1. Allocated' = 1 .. n + 1
    BY <1>5 DEF Allocated
  <2>2. ASSUME NEW i \in 1 .. n + 1
        PROVE  node'[i] = [data |-> node'[i].data,
                           next |-> IF i = n + 1 THEN NULL ELSE i + 1]
    <3>1. CASE i = n + 1
      BY <1>5, <3>1
    <3>2. CASE i # n + 1
      <4>1. i \in 1 .. n
        BY <1>1, <3>2
      <4>2. Link(i) = i + 1
        <5>1. node[i] = [data |-> node[i].data, next |-> IF i = n THEN NULL ELSE i + 1]
          BY <1>1, <4>1 DEF Chain
        <5> QED BY <5>1
      <4>3. node'[i] = [data |-> node[i].data, next |-> i + 1]
        BY <1>5, <4>1, <4>2
      <4> QED BY <3>2, <4>3
    <3> QED BY <3>1, <3>2
  <2>3. n + 1 # 0
    BY <1>1
  <2> HIDE DEF new, Link
  <2> QED BY <1>5, <2>1, <2>2, <2>3 DEF Chain
<1>8. head' # NoList
  BY <1>5, NodesAreSomewhere
<1>9. Allocated' = 1 .. n + 1
  BY <1>5 DEF Allocated
<1>10. ASSUME NEW i \in 1 .. n
       PROVE  node'[i].data = node[i].data
  <2>1. node'[i] = [data |-> node[i].data, next |-> Link(i)]
    BY <1>5
  <2> HIDE DEF Link
  <2> QED BY <2>1
<1>11. node'[n + 1].data = thread
  BY <1>5
<1> HIDE DEF new, Link
<1> QED BY <1>1, <1>6, <1>7, <1>8, <1>9, <1>10, <1>11

(* A thread that is new to the list is added to the nodes, or dropped.     *)
LEMMA AddStep ==
    ASSUME ListInv, head # NoList, NEW thread, ~InList(thread),
           list \in Seq(Processes), thread \in Processes,
           list' = Append(list, thread), AddToList(thread)
    PROVE  ChainInv' /\ head' # NoList
<1>1. /\ Len(list) \in Nat /\ DOMAIN list = 1 .. Len(list)
      /\ DOMAIN list' = 1 .. Len(list) + 1 /\ list'[Len(list) + 1] = thread
      /\ \A k \in 1 .. Len(list) : list'[k] = list[k]
  BY AppendProperties
<1>2. /\ \A k \in DOMAIN list : k \in DOMAIN list' /\ list'[k] = list[k] /\ k < Len(list) + 1
      /\ Len(list) + 1 \in DOMAIN list'
      /\ \A k \in DOMAIN list' : k = Len(list) + 1 \/ k \in DOMAIN list
  BY <1>1
<1> DEFINE m == Len(list) + 1
<1>3. InList(thread)' /\ \A p : InList(p) => InList(p)'
  BY <1>1, <1>2 DEF InList
<1>4. NodesHoldThreads /\ IsFiniteSet(Allocated) /\ Chain(Cardinality(Allocated))
  BY DEF ListInv, ChainInv
<1>5. CASE list_add(thread) /\ dropped' = dropped
  <2>0. PICK n \in Nat : n = Cardinality(Allocated)
    BY <1>4, FS_CardinalityType
  <2>1. /\ Allocated = 1 .. n /\ Chain(n + 1)' /\ head' # NoList
        /\ IsFiniteSet(Allocated') /\ Cardinality(Allocated') = n + 1
        /\ \A i \in 1 .. n : node'[i].data = node[i].data
        /\ node'[n + 1].data = thread
    BY <1>5, <2>0, ListAdd
  <2>2. Allocated' = 1 .. n + 1
    BY <2>1 DEF Chain
  <2>3. /\ \A i \in Allocated : i \in Allocated' /\ node'[i].data = node[i].data
        /\ n + 1 \in Allocated'
        /\ \A i \in Allocated' : i = n + 1 \/ (i \in Allocated /\ i < n + 1)
    BY <2>1, <2>2
  <2>4. \A p \in dropped' : InList(p)'
    BY <1>3, <1>4, <1>5 DEF NodesHoldThreads
  <2>5. \A i \in Allocated' : InList(node[i].data)' /\ node'[i].data \notin dropped'
    <3> SUFFICES ASSUME NEW i \in Allocated'
                 PROVE  InList(node[i].data)' /\ node'[i].data \notin dropped'
      OBVIOUS
    <3>1. CASE i = n + 1
      <4>1. thread \notin dropped
        BY <1>4 DEF NodesHoldThreads
      <4>2. node'[i].data = thread
        BY <2>1, <3>1
      <4> QED BY <1>3, <1>5, <4>1, <4>2 DEF InList
    <3>2. CASE i \in Allocated
      <4>1. InList(node[i].data) /\ node[i].data \notin dropped
        BY <1>4, <3>2 DEF NodesHoldThreads
      <4>2. node'[i].data = node[i].data
        BY <2>3, <3>2
      <4> QED BY <1>3, <1>5, <4>1, <4>2 DEF InList
    <3> QED BY <2>3, <3>1, <3>2
  <2>6. \A k \in DOMAIN list' : \/ list'[k] \in dropped'
                                 \/ \E i \in Allocated' : list'[k] = node'[i].data
    <3> SUFFICES ASSUME NEW k \in DOMAIN list'
                 PROVE  \/ list'[k] \in dropped'
                        \/ \E i \in Allocated' : list'[k] = node'[i].data
      OBVIOUS
    <3>1. CASE k = m
      BY <1>1, <2>1, <2>3, <3>1
    <3>2. CASE k \in DOMAIN list
      <4>1. \/ list[k] \in dropped
            \/ \E i \in Allocated : list[k] = node[i].data
        BY <1>4, <3>2 DEF NodesHoldThreads
      <4>2. list'[k] = list[k]
        BY <1>2, <3>2
      <4> QED BY <1>5, <2>3, <4>1, <4>2
    <3> QED BY <1>2, <3>1, <3>2
  <2>7. ASSUME NEW i \in Allocated', NEW j \in Allocated', i < j
        PROVE  \E k, l \in DOMAIN list' :
                   k < l /\ node'[i].data = list'[k] /\ node'[j].data = list'[l]
    <3>1. i \in Allocated /\ node'[i].data = node[i].data
      <4>1. i # n + 1
        BY <2>1, <2>2, <2>7
      <4> QED BY <2>3, <4>1
    <3>2. CASE j \in Allocated
      <4>1. PICK k, l \in DOMAIN list :
               k < l /\ node[i].data = list[k] /\ node[j].data = list[l]
        BY <1>4, <2>7, <3>1, <3>2 DEF NodesHoldThreads
      <4> QED BY <1>2, <2>3, <3>1, <3>2, <4>1
    <3>3. CASE j = n + 1
      <4>1. PICK k \in DOMAIN list : list[k] = node[i].data
        BY <1>4, <3>1 DEF NodesHoldThreads, InList
      <4> QED BY <1>1, <1>2, <2>1, <3>1, <3>3, <4>1
    <3> QED BY <2>3, <3>2, <3>3
  <2>8. NodesHoldThreads'
    BY <2>4, <2>5, <2>6, <2>7 DEF NodesHoldThreads, InList
  <2>9. Chain(Cardinality(Allocated))'
    BY <2>1
  <2> QED BY <2>1, <2>8, <2>9 DEF ChainInv
<1>6. CASE UNCHANGED listVars /\ dropped' = dropped \cup {thread}
  <2>1. UNCHANGED <<head, node>> /\ Allocated' = Allocated
    BY <1>6 DEF listVars, Allocated
  <2>2. Chain(Cardinality(Allocated))'
    BY <1>4, <2>1 DEF Chain
  <2>3. \A p \in dropped' : InList(p)'
    BY <1>3, <1>4, <1>6 DEF NodesHoldThreads
  <2>4. \A i \in Allocated' : InList(node[i].data)' /\ node'[i].data \notin dropped'
    <3> SUFFICES ASSUME NEW i \in Allocated
                 PROVE  InList(node[i].data)' /\ node[i].data \notin dropped'
      BY <2>1
    <3>1. InList(node[i].data) /\ node[i].data \notin dropped
      BY <1>4 DEF NodesHoldThreads
    <3>2. node[i].data # thread
      BY <3>1
    <3> QED BY <1>3, <1>6, <2>1, <3>1, <3>2 DEF InList
  <2>5. \A k \in DOMAIN list' : \/ list'[k] \in dropped'
                                 \/ \E i \in Allocated' : list'[k] = node'[i].data
    BY <1>1, <1>2, <1>4, <1>6, <2>1 DEF NodesHoldThreads
  <2>6. \A i, j \in Allocated' : i < j =>
           \E k, l \in DOMAIN list' :
               k < l /\ node'[i].data = list'[k] /\ node'[j].data = list'[l]
    BY <1>2, <1>4, <2>1 DEF NodesHoldThreads
  <2>7. NodesHoldThreads'
    BY <2>3, <2>4, <2>5, <2>6 DEF NodesHoldThreads, InList
  <2> QED BY <1>4, <2>1, <2>2, <2>7 DEF ChainInv
<1> QED BY <1>5, <1>6 DEF AddToList, list_add_fails

-----------------------------------------------------------------------------
(* The kinds of steps.  Most are steps of MatrixService.                   *)
Asks(c) == (Client(c) \/ User(c)) /\ UNCHANGED <<listVars, dropped>>
Works(c) ==
    /\ \/ LoadSize(c) \/ LoadFd(c) \/ SetAffinity(c) \/ SetScheduler(c)
       \/ OpenSegment(c) \/ WriteBack(c) \/ Reply(c)
    /\ UNCHANGED <<cpc, serverVars, listVars, dropped>>
Starts == /\ Start /\ (make_list \/ UNCHANGED listVars)
          /\ UNCHANGED <<cpc, dropped>>
CreatesHold == /\ CreateHold /\ spc' = "while" /\ head # NoList
               /\ AddToList(Server) /\ UNCHANGED cpc
Spawns == SpawnWorker /\ spc' = "while" /\ AddToList(mc) /\ UNCHANGED cpc
Serves ==
    /\ \/ ServerOpenRequest \/ While \/ ServerRead \/ ServerOpenReply
       \/ ServerReplyOpened \/ FillSize \/ FillFd \/ FillPriority \/ CopyName
       \/ NameCopied \/ CloseRequest \/ CloseReply \/ UnlinkRequest \/ Return \/ SleepInRead \/ HoldFifoOpen \/ Sigint
       \/ (CreateHold \/ SpawnWorker) /\ spc' = "BAD_THREAD"
       \/ UNCHANGED vars
    /\ UNCHANGED <<cpc, listVars, dropped>>

(* The others are not.                                                     *)
QuietlyFrom(c, from, to) ==
    /\ At(c, from) /\ Advance(c, to)
    /\ UNCHANGED <<ipcVars, cpc, pthread_args, arg, cancelled, serverVars,
                   listVars, dropped>>
Multiplies(c) == /\ QuietlyFrom(c, "multiply", "writeBack")
                 /\ \E result \in StaticOutcomes(c) : C' = [C EXCEPT ![c] = result]
DiesOfNull(c) == /\ At(c, "multiply") /\ Crash
                 /\ C' = [C EXCEPT ![c] = "NULL"]
                 /\ UNCHANGED <<paths, pipe, shm, cpc, pthread_args, arg, cancelled,
                                serverVars, listVars, dropped>>
Stops(c) == /\ IsCancelled(c) /\ UNCHANGED C
            /\ QuietlyFrom(c, "segment", "done") \/ QuietlyFrom(c, "reply", "done")
Dies == /\ \/ spc = "inOpenRequest" /\ head = NoList
           \/ \E c \in Clients : wpc[c] = "multiply" /\ Size[arg[c].size] < 0
        /\ Server \in alive /\ Exit(Server)
        /\ UNCHANGED <<paths, pipe, replies, shm, cpc, workerVars, serverVars,
                       listVars, dropped>>
Cancels == CancelListed /\ UNCHANGED cpc

Plain == \/ \E c \in Clients : Asks(c) \/ Works(c)
         \/ Starts \/ CreatesHold \/ Spawns \/ Serves

LEMMA Kinds ==
    ASSUME [StaticNext]_allVars
    PROVE  \/ Plain
           \/ \E c \in Clients : Multiplies(c) \/ DiesOfNull(c) \/ Stops(c)
           \/ Dies \/ Cancels
<1>1. CASE UNCHANGED allVars
  BY <1>1 DEF allVars, vars, Plain, Serves
<1>2. ASSUME NEW c \in Clients, AskAndWait(c) \/ StaticUser(c)
      PROVE  Asks(c)
  BY <1>2 DEF AskAndWait, StaticUser, StaticSetup, Asks, User
<1>3. ASSUME NEW c \in Clients, StaticWorker(c)
      PROVE  Works(c) \/ Multiplies(c) \/ DiesOfNull(c) \/ Stops(c) \/ Dies
  <2>1. UNCHANGED <<cpc, serverVars, listVars, dropped>>
    BY <1>3 DEF StaticWorker
  <2>2. CASE StaticMultiply(c)
    <3>1. CASE "malloc" \in Faults /\ C' = [C EXCEPT ![c] = "NULL"] /\ Crash
      BY <2>1, <2>2, <3>1 DEF StaticMultiply, DiesOfNull
    <3>2. CASE /\ \E result \in StaticOutcomes(c) : C' = [C EXCEPT ![c] = result]
               /\ Advance(c, "writeBack") /\ UNCHANGED <<alive, endVars, replies>>
      BY <2>1, <2>2, <3>2 DEF StaticMultiply, Multiplies, QuietlyFrom, ipcVars,
                              endVars
    <3>3. CASE Size[arg[c].size] < 0 /\ Crash /\ UNCHANGED C
      BY <2>1, <2>2, <3>3 DEF StaticMultiply, Dies, At, Crash, workerVars
    <3> QED BY <2>2, <3>1, <3>2, <3>3 DEF StaticMultiply
  <2>3. CASE StaticStop(c)
    BY <2>1, <2>3 DEF StaticStop, Stops, QuietlyFrom, At
  <2> QED BY <1>3, <2>1, <2>2, <2>3 DEF StaticWorker, Works
<1>4. CASE StaticMain
  <2>1. UNCHANGED cpc
    BY <1>4 DEF StaticMain
  <2>2. CASE StaticStart
    BY <2>1, <2>2 DEF StaticStart, Plain, Starts, make_list_fails
  <2>3. CASE StaticCreateHold
    <3>1. CASE head # NoList /\ CreateHold
      <4>1. spc' \in {"while", "BAD_THREAD"}
        BY <3>1 DEF CreateHold
      <4> QED BY <2>1, <2>3, <3>1, <4>1 DEF StaticCreateHold, Plain, CreatesHold, Serves
    <3>2. CASE head = NoList
      BY <2>1, <2>3, <3>2 DEF StaticCreateHold, Dies, Before
    <3> QED BY <2>3, <3>1, <3>2 DEF StaticCreateHold
  <2>4. CASE StaticSpawn
    <3>1. spc' \in {"while", "BAD_THREAD"}
      BY <2>4 DEF StaticSpawn, SpawnWorker
    <3> QED BY <2>1, <2>4, <3>1 DEF StaticSpawn, Plain, Spawns, Serves
  <2>5. CASE CancelListed
    BY <2>1, <2>5 DEF Cancels
  <2>6. CASE /\ spc \notin {"mkfifo", "inOpenRequest", "spawn", "cancel"}
             /\ MainStep /\ UNCHANGED <<listVars, dropped>>
    <3>1. ~Start /\ ~CreateHold /\ ~SpawnWorker /\ ~CancelThreads
      BY <2>6 DEF Start, CreateHold, SpawnWorker, CancelThreads, Before
    <3> QED BY <2>1, <2>6, <3>1 DEF MainStep, Plain, Serves
  <2> QED BY <1>4, <2>2, <2>3, <2>4, <2>5, <2>6 DEF StaticMain
<1>5. CASE StaticHold \/ StaticInterrupt
  BY <1>5 DEF StaticHold, StaticInterrupt, Hold, Interrupt, Plain, Serves
<1> QED BY <1>1, <1>2, <1>3, <1>4, <1>5 DEF StaticNext, Plain

LEMMA PlainIsNext ==
    ASSUME Plain
    PROVE  [Next]_vars
<1>1. ASSUME NEW c \in Clients, Asks(c) \/ Works(c)
      PROVE  Next
  BY <1>1 DEF Asks, Works, Worker, WorkerNext, Next
<1>2. CASE Starts \/ CreatesHold \/ Spawns
  BY <1>2 DEF Starts, CreatesHold, Spawns, MainStep, Main, Next
<1>3. CASE Serves
  BY <1>3 DEF Serves, MainStep, Main, Hold, Interrupt, Next
<1> QED BY <1>1, <1>2, <1>3 DEF Plain

(* Plain steps cancel nobody and leave every C alone.                      *)
LEMMA PlainKeeps ==
    ASSUME Plain
    PROVE  UNCHANGED <<C, cancelled>>
<1>1. ASSUME NEW c \in Clients, Asks(c)
      PROVE  UNCHANGED <<C, cancelled>>
  BY <1>1 DEF Asks, Client, User, workerVars
<1>2. ASSUME NEW c \in Clients, Works(c)
      PROVE  UNCHANGED <<C, cancelled>>
  BY <1>2 DEF Works, LoadSize, LoadFd, SetAffinity, SetScheduler, OpenSegment,
              WriteBack, Reply
<1>3. CASE Starts \/ CreatesHold \/ Spawns
  BY <1>3 DEF Starts, CreatesHold, Spawns, Start, CreateHold, SpawnWorker,
              workerVars
<1>4. CASE Serves
  BY <1>4 DEF Serves, ServerOpenRequest, While, ServerRead, ServerOpenReply,
              ServerReplyOpened, FillSize, FillFd, FillPriority, CopyName,
              NameCopied, Store, CloseRequest, CloseReply, UnlinkRequest,
              Return, SleepInRead, HoldFifoOpen, Sigint,
              CreateHold, SpawnWorker, workerVars, vars
<1> QED BY <1>1, <1>2, <1>3, <1>4 DEF Plain

(* When the server is gone nothing of it changes any more.                 *)
LEMMA DeadStays ==
    ASSUME Server \notin alive, [StaticNext]_allVars
    PROVE  /\ Server \notin alive'
           /\ UNCHANGED <<workerVars, serverVars, listVars, dropped>>
<1>1. CASE \E c \in Clients : Asks(c)
  <2>1. PICK c \in Clients : Asks(c)
    BY <1>1
  <2>2. alive' \subseteq alive \cup {c} /\ c # Server
    BY <2>1, ProcessesAreDistinct
       DEF Asks, Client, User, ClientStep, Setup, OpenRequest, RequestOpened, Write,
           OpenReply, ReplyOpened, Read, Finish, Kill, Exit, ipcVars
  <2> QED BY <2>1, <2>2 DEF Asks, Client, User
<1>2. CASE Serves
  <2>1. UNCHANGED vars /\ UNCHANGED <<listVars, dropped>>
    BY <1>2 DEF Serves, ServerOpenRequest, While, ServerRead, ServerOpenReply,
                ServerReplyOpened, FillSize, FillFd, FillPriority, CopyName,
                NameCopied, Store, CloseRequest, CloseReply, UnlinkRequest,
                Return, SleepInRead, HoldFifoOpen, Sigint,
                CreateHold, SpawnWorker, Before
  <2> QED BY <2>1 DEF vars, ipcVars
<1>3. CASE Starts \/ CreatesHold \/ Spawns \/ Dies \/ Cancels
  BY <1>3 DEF Starts, CreatesHold, Spawns, Dies, Cancels, Start,
              CreateHold, SpawnWorker, CancelListed, Before
<1>4. ASSUME NEW c \in Clients, Works(c) \/ Multiplies(c) \/ DiesOfNull(c) \/ Stops(c)
      PROVE  FALSE
  BY <1>4 DEF Works, Multiplies, DiesOfNull, Stops, QuietlyFrom, At, LoadSize,
              LoadFd,
              SetAffinity, SetScheduler, OpenSegment, WriteBack, Reply
<1> QED BY <1>1, <1>2, <1>3, <1>4, Kinds DEF Plain

(* The list.                                                               *)
LEMMA ListQuiet ==
    ASSUME ListInv, UNCHANGED <<head, node, dropped, list>>,
           spc' \in Opening => spc \in Opening,
           spc' \in Serving => spc \in Serving,
           spc' \in ClosingDown =>
               \/ spc \in ClosingDown /\ UNCHANGED cancelled
                  /\ \A c \in Clients : wpc'[c] # "none" => wpc[c] # "none"
               \/ spc \in Opening /\ \A c \in Clients : wpc'[c] = "none"
    PROVE  ListInv'
<1>1. Allocated' = Allocated /\ ChainInv'
  BY DEF ListInv, ChainInv, Chain, NodesHoldThreads, InList, Allocated
<1> QED BY <1>1 DEF ListInv, IsCancelled, ClosingDown

LEMMA ListPlain ==
    ASSUME ListInv, TypeOK, CancelIsLast, spc \notin ClosingDown => SlotInv /\ OnceInv,
           Plain
    PROVE  ListInv'
<1>0. /\ wpc \in [Clients -> WorkerSteps] /\ list \in Seq(Processes)
      /\ Clients \subseteq Processes /\ Server \in Processes
  BY DEF TypeOK, WorkerTypeOK, ServerTypeOK, Processes
<1>1. ASSUME spc \notin ClosingDown
      PROVE  /\ cancelled = <<>> /\ \A p : Accepted(p) <=> InList(p)
             /\ \A c \in Clients : wpc[c] # "none" => InList(c)
  <2>1. cancelled = <<>> /\ SlotInv
    BY <1>1 DEF CancelIsLast, ClosingDown
  <2>2. \A p : Accepted(p) <=> InList(p)
    BY <2>1, StartedIsList, TypeShape DEF Accepted, InList
  <2>3. \A c \in Clients : wpc[c] # "none" => Accepted(c)
    BY <2>1 DEF SlotInv, WorkersAreStarted, Accepted
  <2> QED BY <2>1, <2>2, <2>3
<1>2. ASSUME NEW c \in Clients, Asks(c)
      PROVE  ListInv'
  <2>1. UNCHANGED <<head, node, dropped, list, spc, cancelled, wpc>>
    BY <1>2 DEF Asks, Client, User, workerVars, serverVars, listVars
  <2> QED BY <2>1, ListQuiet
<1>3. ASSUME NEW c \in Clients, Works(c)
      PROVE  ListInv'
  <2>1. UNCHANGED <<head, node, dropped, list, spc, cancelled>>
    BY <1>3, PlainKeeps DEF Works, Plain, serverVars, listVars
  <2>2. \A d \in Clients : wpc'[d] # "none" => wpc[d] # "none"
    BY <1>0, <1>3 DEF Works, LoadSize, LoadFd, SetAffinity, SetScheduler,
                      OpenSegment,
                      WriteBack, Reply, Answer, Crash, Advance, At
  <2> QED BY <2>1, <2>2, ListQuiet
<1>4. CASE Starts
  <2>1. /\ UNCHANGED <<node, dropped, list>> /\ head' \in {head, NULL} /\ spc = "mkfifo"
        /\ spc' \notin ClosingDown \cup Serving
    BY <1>4 DEF Starts, Start, make_list, listVars, Before, ClosingDown,
                Serving, FillSteps
  <2>2. Allocated = {} /\ dropped = {} /\ list = <<>> /\ Allocated' = {}
    BY <2>1 DEF ListInv, Opening, Allocated
  <2>3. CASE head' = head
    BY <2>1, <2>3, ListQuiet DEF Opening
  <2>4. CASE head' = NULL
    <3>1. IsFiniteSet(Allocated') /\ Cardinality(Allocated') = 0
      BY <2>2, FS_EmptySet
    <3>2. Chain(0)' /\ NodesHoldThreads'
      <4>1. 1 .. 0 = {} /\ DOMAIN list' = {}
        BY <2>1, <2>2
      <4> QED BY <2>1, <2>2, <2>4, <4>1 DEF Chain, NodesHoldThreads
    <3>3. Chain(Cardinality(Allocated))'
      BY <3>1, <3>2
    <3>4. ChainInv'
      BY <2>4, <3>1, <3>2, <3>3, NoListIsNotEmpty DEF ChainInv
    <3> QED BY <2>1, <2>2, <3>4 DEF ListInv, ClosingDown, Serving
  <2> QED BY <2>1, <2>3, <2>4
<1>5. ASSUME NEW thread, AddToList(thread), list' = Append(list, thread),
             thread \in Processes, ~InList(thread), head # NoList, spc' = "while"
      PROVE  ListInv'
  <2>1. ChainInv' /\ head' # NoList
    BY <1>0, <1>5, AddStep
  <2> QED BY <1>5, <2>1 DEF ListInv, Opening, ClosingDown, Serving
<1>6. CASE CreatesHold
  <2>1. /\ spc = "inOpenRequest" /\ spc' = "while" /\ list' = Append(list, Server)
        /\ AddToList(Server) /\ head # NoList
    BY <1>6 DEF CreatesHold, CreateHold, Before
  <2>2. list = <<>>
    BY <2>1 DEF ListInv, Opening
  <2>3. ~InList(Server)
    BY <2>2 DEF InList
  <2> QED BY <1>0, <1>5, <2>1, <2>3
<1>7. CASE Spawns
  <2>1. /\ spc = "spawn" /\ spc' = "while" /\ list' = Append(list, mc) /\ AddToList(mc)
    BY <1>7 DEF Spawns, SpawnWorker, Before
  <2>2. spc \notin ClosingDown /\ head # NoList
    BY <2>1 DEF ListInv, ClosingDown, Serving, FillSteps
  <2>3. ~InList(mc) /\ mc \in Clients
    BY <1>1, <2>1, <2>2 DEF OnceInv, SlotInv, RequestInHand, FillSteps
  <2> QED BY <1>0, <1>5, <2>1, <2>2, <2>3
<1>8. CASE Serves
  <2>1. UNCHANGED <<head, node, dropped, list, wpc, cancelled>>
    BY <1>8 DEF Serves, ServerOpenRequest, While, ServerRead, ServerOpenReply,
              ServerReplyOpened, FillSize, FillFd, FillPriority, CopyName,
              NameCopied, Store, CloseRequest, CloseReply, UnlinkRequest,
              Return, SleepInRead, HoldFifoOpen, Sigint,
              CreateHold, SpawnWorker, workerVars, serverVars, vars, listVars
  <2>2. /\ spc' \in Opening => spc \in Opening
        /\ spc' \in Serving => spc \in Serving
        /\ spc' \in ClosingDown => spc \in ClosingDown \/ spc = "inOpenRequest"
    BY <1>8 DEF Serves, ServerOpenRequest, While, ServerRead, ServerOpenReply,
              ServerReplyOpened, FillSize, FillFd, FillPriority, CopyName,
              NameCopied, Store, CloseRequest, CloseReply, UnlinkRequest,
              Return, SleepInRead, HoldFifoOpen, Sigint, SleepsIn,
              SleepsInRead, CreateHold, SpawnWorker, Before, serverVars, vars,
              Opening, Serving, ClosingDown, FillSteps
  <2>3. CASE spc \in ClosingDown
    BY <2>1, <2>2, <2>3, ListQuiet
  <2>4. CASE spc = "inOpenRequest"
    <3>1. spc \in Opening /\ spc \notin ClosingDown /\ list = <<>>
      BY <2>4 DEF Opening, ClosingDown, ListInv
    <3>2. \A c \in Clients : wpc'[c] = "none"
      BY <1>1, <2>1, <3>1 DEF InList
    <3> QED BY <2>1, <2>2, <3>1, <3>2, ListQuiet
  <2>5. CASE spc \notin ClosingDown \cup {"inOpenRequest"}
    BY <2>1, <2>2, <2>5, ListQuiet
  <2> QED BY <2>3, <2>4, <2>5
<1> QED BY <1>2, <1>3, <1>4, <1>6, <1>7, <1>8 DEF Plain

(* The threads of the nodes are cancelled, which are those of the list     *)
(* but for the dropped, and every node is freed.                           *)
LEMMA ListCancel ==
    ASSUME ListInv, TypeOK, SlotInv, Cancels
    PROVE  ListInv' /\ cancelled' \in Seq(Processes)
<1>1. /\ spc = "cancel" /\ spc' = "close" /\ cancelled' = Listed /\ list_destroy
      /\ list' = <<>> /\ UNCHANGED <<dropped, wpc>>
  BY DEF Cancels, CancelListed, Before
<1>2. head # NoList /\ cancelled = <<>>
  BY <1>1 DEF ListInv, Serving, SlotInv, CancelIsLast, ClosingDown
<1>3. /\ Nodes = [i \in Allocated |-> i] /\ DOMAIN Nodes = Allocated
      /\ Listed = [i \in Allocated |-> node[i].data]
      /\ Cardinality(Allocated) \in Nat
  BY <1>2, ListedNodes
<1>4. Allocated' = {} /\ head' = NoList
  <2>1. Allocated \ {Nodes[i] : i \in DOMAIN Nodes} = {}
    BY <1>3
  <2> QED BY <1>1, <2>1 DEF list_destroy, Allocated
<1>5. NodesHoldThreads /\ Allocated = 1 .. Cardinality(Allocated)
  BY <1>2 DEF ListInv, ChainInv, Chain
<1>6. ASSUME NEW c \in Clients \ dropped, wpc[c] # "none"
      PROVE  IsCancelled(c)'
  <2>1. Accepted(c)
    BY <1>6 DEF SlotInv, WorkersAreStarted, Accepted
  <2>2. PICK k \in DOMAIN list : list[k] = c
    BY <1>2, <2>1, StartedIsList, TypeShape DEF Accepted
  <2>3. PICK i \in Allocated : node[i].data = c
    BY <1>5, <1>6, <2>2 DEF NodesHoldThreads
  <2> QED BY <1>1, <1>3, <2>3 DEF IsCancelled
<1>7. Listed \in Seq(Processes)
  <2>1. ASSUME NEW i \in Allocated
        PROVE  node[i].data \in Processes
    <3>1. PICK k \in DOMAIN list : list[k] = node[i].data
      BY <1>5 DEF NodesHoldThreads, InList
    <3>2. list \in Seq(Processes)
      BY DEF TypeOK, ServerTypeOK
    <3> QED BY <3>1, <3>2, ElementOfSeq
  <2> DEFINE n == Cardinality(Allocated)
  <2>2. n \in Nat /\ Allocated = 1 .. n
    BY <1>3, <1>5
  <2> HIDE DEF n
  <2> QED BY <1>3, <2>1, <2>2
<1>8. ChainInv'
  BY <1>4 DEF ChainInv
<1>9. spc' \notin Opening \cup Serving
  BY <1>1 DEF Opening, Serving, FillSteps
<1> QED BY <1>1, <1>4, <1>6, <1>7, <1>8, <1>9 DEF ListInv

LEMMA ListStep ==
    ASSUME ListInv, NullIsDeath, NoNull => MainInv, [StaticNext]_allVars
    PROVE  ListInv'
<1>1. CASE Server \notin alive
  <2>1. UNCHANGED <<head, node, dropped, list, spc, cancelled, wpc>>
    BY <1>1, DeadStays DEF workerVars, serverVars, listVars
  <2> QED BY <2>1, ListQuiet
<1>2. CASE Server \in alive
  <2>1. /\ TypeOK /\ CancelIsLast
        /\ spc \notin ClosingDown => SlotInv /\ OnceInv
        /\ wpc \in [Clients -> WorkerSteps]
    BY <1>2 DEF NullIsDeath, MainInv, ServingInv, TypeOK, WorkerTypeOK
  <2>2. CASE Plain
    BY <2>1, <2>2, ListPlain
  <2>3. ASSUME NEW c \in Clients, Multiplies(c) \/ DiesOfNull(c) \/ Stops(c)
        PROVE  ListInv'
    <3>1. UNCHANGED <<head, node, dropped, list, spc, cancelled>>
      BY <2>3 DEF Multiplies, DiesOfNull, Stops, QuietlyFrom, serverVars,
                  listVars
    <3>2. \A d \in Clients : wpc'[d] # "none" => wpc[d] # "none"
      BY <2>1, <2>3 DEF Multiplies, DiesOfNull, Stops, QuietlyFrom, Crash,
                        Advance, At
    <3> QED BY <3>1, <3>2, ListQuiet
  <2>4. CASE Dies
    <3>1. UNCHANGED <<head, node, dropped, list, spc, cancelled, wpc>>
      BY <2>4 DEF Dies, workerVars, serverVars, listVars
    <3> QED BY <3>1, ListQuiet
  <2>5. CASE Cancels
    <3>1. spc \notin ClosingDown
      BY <2>5 DEF Cancels, CancelListed, Before, ClosingDown
    <3> QED BY <2>1, <2>5, <3>1, ListCancel
  <2> QED BY <2>2, <2>3, <2>4, <2>5, Kinds
<1> QED BY <1>1, <1>2

LEMMA ListMeansThreads ==
    ASSUME ListInv
    PROVE  ListHoldsThreads
<1>1. ASSUME head # NoList
      PROVE  /\ Elements(Listed) = Elements(list) \ dropped
             /\ \A i, j \in DOMAIN Listed : i < j =>
                   \E k, l \in DOMAIN list :
                       k < l /\ Listed[i] = list[k] /\ Listed[j] = list[l]
  <2>1. Listed = [i \in Allocated |-> node[i].data]
    BY <1>1, ListedNodes
  <2>2. NodesHoldThreads
    BY <1>1 DEF ListInv, ChainInv
  <2>3. Elements(Listed) = Elements(list) \ dropped
    <3>1. ASSUME NEW p \in Elements(Listed)
          PROVE  p \in Elements(list) \ dropped
      BY <2>1, <2>2 DEF Elements, NodesHoldThreads, InList
    <3>2. ASSUME NEW p \in Elements(list) \ dropped
          PROVE  p \in Elements(Listed)
      BY <2>1, <2>2 DEF Elements, NodesHoldThreads
    <3> QED BY <3>1, <3>2
  <2> QED BY <2>1, <2>2, <2>3 DEF NodesHoldThreads
<1> QED BY <1>1 DEF ListHoldsThreads, ListInv, ClosingDown

-----------------------------------------------------------------------------
(* What is left of ServingInv when main no longer serves.                  *)
LEMMA ServingLasts ==
    ASSUME TypeOK, ServingInv, ExitIsDeath,
           spc \in ClosingDown => cancelled = <<>>
    PROVE  LastingInv
<1> USE DEF ServingInv, ServeInv
<1>1. ClientsAreJoined
  BY DEF ClientsAreJoined, Joined, Holds, EndsInv, ReaderMeetsWriter, Meets
<1>2. \A c \in Clients : wpc[c] # "none" => Accepted(c)
  BY DEF SlotInv, WorkersAreStarted, Accepted
<1>3. SilentHaveNoWorker
  BY <1>2 DEF SilentHaveNoWorker, OnceInv, SilentNowhere, Silent
<1>4. ASSUME NEW c \in Clients, Accepted(c) \/ InHand(c)
      PROVE  Held(c)
  <2>1. spc \notin ClosingDown
    <3>1. ASSUME spc \in ClosingDown, Accepted(c)
          PROVE  FALSE
      BY <3>1 DEF WorkersStopFirst, IsCancelled
    <3> QED BY <1>4, <3>1 DEF InHand, FillSteps, ClosingDown
  <2>2. Server \in alive => Holds(c)
    BY <1>4, <2>1 DEF MainHoldsReplies
  <2>3. c \notin Silent
    BY <1>4 DEF OnceInv, SilentNowhere, InHand
  <2> QED BY <2>2, <2>3 DEF Held, Holds
<1>5. ASSUME NEW c \in Clients, Storing, c = mc
      PROVE  Held(c)
  <2>1. CASE spc \in FillSteps
    BY <1>4, <1>5, <2>1 DEF InHand
  <2>2. CASE spc = "BAD_THREAD"
    BY <1>5, <2>2 DEF ExitIsDeath, ServerExits, Held, OnceInv, SilentNowhere
  <2> QED BY <1>5, <2>1, <2>2 DEF Storing
<1>6. LoadedAreHeld
  <2> SUFFICES ASSUME NEW c \in Clients, wpc[c] # "none"
               PROVE  /\ pthread_args.size \in Clients /\ Held(pthread_args.fd)
                      /\ wpc[c] # "size" => arg[c].size \in Clients
                      /\ wpc[c] \notin {"size", "fd"} => Held(arg[c].fd)
    BY DEF LoadedAreHeld
  <2>1. /\ pthread_args.size \in Clients /\ pthread_args.fd \in Clients
    BY <1>2 DEF SlotNamesClients
  <2>2. Held(pthread_args.fd)
    <3>1. pthread_args.fd = Newest \/ (Storing /\ pthread_args.fd = mc)
      BY <2>1, ProcessesAreDistinct DEF SlotInv, SlotIsNewest, SlotFields
    <3>2. CASE pthread_args.fd = Newest
      <4>1. Started # <<>> /\ Newest = Started[Len(Started)]
        BY <2>1, <3>2, ProcessesAreDistinct DEF Newest
      <4>2. Len(Started) \in DOMAIN Started
        <5>1. Started \in Seq(Processes)
          BY StartedIsList, TypeShape
        <5>2. Len(Started) \in Nat /\ Len(Started) # 0 /\ DOMAIN Started = 1 .. Len(Started)
          BY <4>1, <5>1, EmptySeq
        <5> QED BY <5>2
      <4>3. Accepted(pthread_args.fd)
        BY <3>2, <4>1, <4>2 DEF Accepted
      <4> QED BY <1>4, <2>1, <4>3
    <3> QED BY <1>5, <2>1, <3>1, <3>2
  <2>3. wpc[c] # "size" => arg[c].size \in Clients
    BY DEF ArgsAreLoaded, Loads
  <2>4. ASSUME wpc[c] \notin {"size", "fd"}
        PROVE  Held(arg[c].fd)
    <3>1. arg[c].fd \in Clients
      BY <2>4 DEF ArgsAreLoaded, Loads
    <3>2. arg[c].fd = c \/ Later(c, arg[c].fd)
      BY <3>1, ProcessesAreDistinct DEF SlotInv, ForwardOnly, SlotFields
    <3>3. CASE arg[c].fd = c
      BY <1>2, <1>4, <3>3
    <3>4. CASE Later(c, arg[c].fd)
      BY <1>4, <1>5, <3>1, <3>4 DEF Later, After, Accepted
    <3> QED BY <3>2, <3>3, <3>4
  <2> QED BY <2>1, <2>2, <2>3, <2>4
<1> QED BY <1>1, <1>3, <1>6 DEF LastingInv, EndsInv

(* Every step leaves ServingInv, as long as main serves and C is a result. *)
LEMMA ServingPlain ==
    ASSUME TypeOK, ServingInv, Plain
    PROVE  ServingInv'
<1>1. [Next]_vars
  BY PlainIsNext
<1> USE DEF ServingInv
<1>2. SlotInv' /\ OnceInv' /\ OpenedStays /\ LeftStays
  BY <1>1, SlotStep, OnceStep, OpenedStep, LeftStep
<1>3. EndsInv'
  BY <1>1, <1>2, EndsStep
<1>4. SlotNamesClients' /\ ArgsAreLoaded'
  BY <1>1, ArgsStep
<1>5. ServeInv'
  BY <1>1, ServeStep
<1> QED BY <1>2, <1>3, <1>4, <1>5

LEMMA ServingMultiplies ==
    ASSUME TypeOK, ServingInv, NEW c \in Clients, Multiplies(c)
    PROVE  ServingInv'
<1> USE DEF ServingInv
<1>0. /\ UNCHANGED <<alive, paths, readers, writers, asleep, pipe, replies, shm,
                     cpc, pthread_args, arg, cancelled, spc, server_on, mc,
                     server_to_client, list, hold>>
      /\ wpc \in [Clients -> WorkerSteps] /\ wpc[c] = "multiply"
      /\ wpc' = [wpc EXCEPT ![c] = "writeBack"]
  BY DEF Multiplies, QuietlyFrom, At, Advance, ipcVars, serverVars, TypeOK,
         WorkerTypeOK
<1>1. wpc'[c] = "writeBack" /\ \A d \in Clients \ {c} : wpc'[d] = wpc[d]
  BY <1>0
<1>2. RequestInHand'
  BY <1>0 DEF SlotInv, RequestInHand
<1>3. SlotInv'
  BY <1>0, <1>1, <1>2, LoadStep
<1>4. OnceInv'
  <2>1. Silent' = Silent
    BY <1>0 DEF Silent
  <2> QED BY <1>0, <2>1, OnceQuiet
<1>5. OpenedStays /\ LeftStays
  BY <1>0, OpenedQuiet, LeftQuiet
<1>6. EndsInv'
  BY <1>0, <1>5, EndsQuiet DEF endVars
<1>7. \A d : Accepted(d)' <=> Accepted(d)
  BY <1>0 DEF Accepted, Started
<1>8. SlotNamesClients'
  BY <1>0, <1>7 DEF SlotNamesClients
<1>9. ArgsAreLoaded'
  BY <1>0, <1>1 DEF ArgsAreLoaded, Loads, Early
<1>10. ServeInv'
  <2>1. /\ \A d : Holds(d)' <=> Holds(d)
        /\ \A d : InHand(d)' <=> InHand(d)
        /\ \A d : IsCancelled(d)' <=> IsCancelled(d)
    BY <1>0 DEF Holds, InHand, IsCancelled
  <2> QED BY <1>0, <1>7, <2>1
          DEF ServeInv, ReadersAreOwn, ReadersAreThere, AwakeMeetsReader,
              MainHoldsReplies, WorkersStopFirst
<1> QED BY <1>3, <1>4, <1>6, <1>8, <1>9, <1>10

LEMMA ServingDies ==
    ASSUME TypeOK, ServingInv, Dies
    PROVE  ServingInv'
<1> USE DEF ServingInv
<1>0. /\ UNCHANGED <<paths, pipe, replies, shm, cpc, wpc, pthread_args, arg, cancelled,
                     spc, server_on, mc, server_to_client, list, hold>>
      /\ Exit(Server) /\ Server \in Processes
  BY DEF Dies, workerVars, serverVars, Processes
<1>1. RequestInHand' /\ ListIsEmptyFirst' /\ CancelIsLast'
  BY <1>0 DEF SlotInv, RequestInHand, ListIsEmptyFirst, CancelIsLast,
              ClosingDown
<1>2. SlotInv'
  BY <1>0, <1>1, QuietStep DEF Storing, Stored
<1>3. OnceInv'
  <2>1. Silent' = Silent
    BY <1>0 DEF Silent
  <2> QED BY <1>0, <2>1, OnceQuiet
<1>4. OpenedStays /\ LeftStays
  BY <1>0, OpenedQuiet, LeftQuiet DEF Exit
<1>5. EndsInv'
  BY <1>0, <1>4, EndsStays
<1>6. \A d : Accepted(d)' <=> Accepted(d)
  BY <1>0 DEF Accepted, Started
<1>7. SlotNamesClients' /\ ArgsAreLoaded'
  BY <1>0, <1>6 DEF SlotNamesClients, ArgsAreLoaded, Loads
<1>8. ServeInv'
  <2>1. ReadersAreOwn' /\ ReadersAreThere' /\ AwakeMeetsReader' /\ MainHoldsReplies'
    BY <1>0 DEF ServeInv, ReadersAreOwn, ReadersAreThere, AwakeMeetsReader,
                MainHoldsReplies, Holds, Exit
  <2>2. WorkersStopFirst'
    BY <1>0, <1>6 DEF ServeInv, WorkersStopFirst, IsCancelled
  <2> QED BY <2>1, <2>2 DEF ServeInv
<1> QED BY <1>2, <1>3, <1>5, <1>7, <1>8

(* A server that closes down goes on to the end: main opens nothing.       *)
ClosingEnds == \/ UNCHANGED <<alive, endVars>>
               \/ Exit(Server)
               \/ OpenWrite(Server, Server) /\ UNCHANGED alive
               \/ CloseRead(Server, Server) /\ UNCHANGED alive
               \/ /\ CloseWrite(Server, server_to_client) /\ spc' = "unlink"
                  /\ UNCHANGED <<alive, server_to_client>>

LEMMA ClosingStays ==
    ASSUME spc \in ClosingDown, Plain
    PROVE  /\ spc' \in ClosingDown /\ UNCHANGED <<pthread_args, cancelled>>
           /\ \/ \E c \in Clients : Asks(c)
              \/ ClosingEnds /\ UNCHANGED cpc /\ \E c \in Clients : Works(c)
              \/ ClosingEnds /\ UNCHANGED <<cpc, wpc, arg>>
<1>1. ASSUME NEW c \in Clients, Asks(c)
      PROVE  spc' = spc /\ UNCHANGED <<pthread_args, cancelled>>
  BY <1>1 DEF Asks, Client, User, workerVars, serverVars
<1>2. ASSUME NEW c \in Clients, Works(c)
      PROVE  spc' = spc /\ UNCHANGED <<pthread_args, cancelled, cpc>> /\ ClosingEnds
  <2>1. UNCHANGED <<spc, cpc>>
    BY <1>2 DEF Works, serverVars
  <2>2. UNCHANGED <<pthread_args, cancelled>>
    BY <1>2 DEF Works, LoadSize, LoadFd, SetAffinity, SetScheduler, OpenSegment,
                WriteBack, Reply
  <2>3. ClosingEnds
    BY <1>2 DEF Works, LoadSize, LoadFd, SetAffinity, SetScheduler, OpenSegment,
                WriteBack, Reply, Answer, Crash, ClosingEnds, ipcVars, endVars
  <2> QED BY <2>1, <2>2, <2>3
<1>3. CASE Starts \/ CreatesHold \/ Spawns
  BY <1>3 DEF Starts, CreatesHold, Spawns, Start, CreateHold, SpawnWorker,
              Before, ClosingDown
<1>4. CASE Serves
  <2>1. CloseRequest \/ CloseReply \/ UnlinkRequest \/ Return \/ SleepInRead \/ HoldFifoOpen \/ Sigint \/ UNCHANGED vars
    BY <1>4 DEF Serves, ServerOpenRequest, While, ServerRead, ServerOpenReply,
                ServerReplyOpened, FillSize, FillFd, FillPriority, CopyName,
                NameCopied, Store, CreateHold, SpawnWorker, Before, ClosingDown
  <2>2. UNCHANGED cpc
    BY <1>4 DEF Serves
  <2>3. CASE CloseRequest \/ CloseReply \/ UnlinkRequest \/ Return \/ SleepInRead
    BY <2>2, <2>3 DEF CloseRequest, CloseReply, UnlinkRequest, Return,
                      SleepInRead,
                      Before, ClosingEnds, workerVars, ClosingDown
  <2>4. CASE HoldFifoOpen
    BY <2>2, <2>4 DEF HoldFifoOpen, ClosingEnds, workerVars
  <2>5. CASE Sigint
    BY <2>2, <2>5 DEF Sigint, SleepsIn, SleepsInRead, ClosingEnds, workerVars,
                      ClosingDown
  <2>6. CASE UNCHANGED vars
    BY <2>2, <2>6 DEF vars, ClosingEnds, workerVars, serverVars, ipcVars,
                      endVars
  <2> QED BY <2>1, <2>3, <2>4, <2>5, <2>6
<1> QED BY <1>1, <1>2, <1>3, <1>4 DEF Plain

(* A client joins the server by its own open, or by the server's.          *)
LEMMA JoinedAsks ==
    ASSUME TypeOK, ServerWritesReplies, ClientsAreJoined, NEW p \in Clients, Asks(p)
    PROVE  ServerWritesReplies' /\ ClientsAreJoined'
<1>0. /\ p # Server /\ Server \notin Clients
      /\ cpc \in [Clients -> ClientCalls \cup ClientExits]
      /\ UNCHANGED <<spc, server_to_client>>
  BY ProcessesAreDistinct DEF TypeOK, ClientTypeOK, Asks, Client, User,
                              serverVars
<1>1. /\ \/ UNCHANGED endVars
         \/ Exit(p)
         \/ OpenWrite(p, Server)
         \/ OpenRead(p, p)
      /\ (Server \in alive') <=> (Server \in alive)
      /\ \A c \in Clients \ {p} : cpc'[c] = cpc[c]
      /\ \/ cpc'[p] \notin {"inOpenReply", "read"}
         \/ OpenRead(p, p) /\ cpc'[p] = "inOpenReply" /\ UNCHANGED alive
         \/ /\ UNCHANGED <<alive, endVars>> /\ cpc'[p] = "read"
            /\ cpc[p] = "inOpenReply" /\ <<p, p>> \notin asleep
  BY <1>0
     DEF Asks, Client, User, ClientStep, OpenRequest, RequestOpened, Write,
         OpenReply, ReplyOpened, Read, Finish, Setup, Kill, Goto, Exit,
         ipcVars, endVars
<1>2. ServerWritesReplies' /\ \A c : Left(c)' <=> Left(c)
  BY <1>0, <1>1 DEF ServerWritesReplies, OpenWrite, OpenRead, Exit, endVars,
                    Left, ClosedAtShutdown
<1>3. ASSUME NEW c \in Clients \ {p}
      PROVE  /\ <<c, c>> \in readers => <<c, c>> \in readers'
             /\ <<c, c>> \in asleep => <<c, c>> \in asleep' \/ Joined(c)'
             /\ Joined(c) => Joined(c)'
  <2>0. c \in Clients /\ c # p /\ c # Server
    BY <1>0
  <2>1. CASE UNCHANGED endVars
    BY <1>1, <1>2, <2>1 DEF endVars, Joined, Holds
  <2>2. CASE Exit(p)
    BY <1>0, <1>1, <1>2, <2>0, <2>2 DEF Exit, Joined, Holds
  <2>3. CASE OpenWrite(p, Server)
    <3>1. \A q : <<q, c>> # <<p, Server>> /\ <<q, c>>[2] = c
      BY <2>0
    <3> QED BY <1>1, <1>2, <2>0, <2>3, <3>1 DEF OpenWrite, Joined, Holds
  <2>4. CASE OpenRead(p, p)
    <3>1. \A q : <<q, c>> # <<p, p>> /\ <<q, c>>[2] = c
      BY <2>0
    <3> QED BY <1>1, <1>2, <2>0, <2>4, <3>1 DEF OpenRead, Joined, Holds
  <2> QED BY <1>1, <2>1, <2>2, <2>3, <2>4
<1>4. CASE OpenRead(p, p) /\ cpc'[p] = "inOpenReply" /\ UNCHANGED alive
  <2>1. <<p, p>> \in readers'
    BY <1>4 DEF OpenRead
  <2>2. <<p, p>> \in asleep' \/ Joined(p)'
    <3>1. CASE HasWriter(p)
      <4>1. PICK q \in Processes : <<q, p>> \in writers
        BY <3>1 DEF HasWriter
      <4>2. q = Server
        BY <1>0, <4>1 DEF ServerWritesReplies
      <4>3. <<Server, p>>[2] = p
        OBVIOUS
      <4> QED BY <1>4, <3>1, <4>1, <4>2, <4>3 DEF OpenRead, Joined, Holds
    <3>2. CASE ~HasWriter(p)
      BY <1>4, <3>2 DEF OpenRead
    <3> QED BY <3>1, <3>2
  <2> QED BY <1>1, <1>2, <1>3, <1>4, <2>1, <2>2 DEF ClientsAreJoined
<1>5. CASE cpc'[p] \notin {"inOpenReply", "read"}
  BY <1>1, <1>2, <1>3, <1>5 DEF ClientsAreJoined
<1>6. CASE /\ UNCHANGED <<alive, endVars>> /\ cpc'[p] = "read"
           /\ cpc[p] = "inOpenReply" /\ <<p, p>> \notin asleep
  <2>1. <<p, p>> \in readers' /\ Joined(p)'
    BY <1>2, <1>6 DEF ClientsAreJoined, Joined, Holds, endVars
  <2> QED BY <1>1, <1>2, <1>3, <1>6, <2>1 DEF ClientsAreJoined
<1> QED BY <1>1, <1>4, <1>5, <1>6

LEMMA JoinedCloses ==
    ASSUME ServerWritesReplies, ClientsAreJoined, LeftStays, ClosingEnds,
           UNCHANGED cpc
    PROVE  ServerWritesReplies' /\ ClientsAreJoined'
<1>0. /\ \A c \in Clients : Left(c) => Left(c)'
      /\ \A c \in Clients : c # Server
  BY ProcessesAreDistinct DEF LeftStays
<1>1. CASE UNCHANGED <<alive, endVars>>
  BY <1>0, <1>1 DEF ServerWritesReplies, ClientsAreJoined, Joined, Holds,
                    endVars
<1>2. CASE Exit(Server)
  <2>1. ServerWritesReplies' /\ \A c : Left(c)'
    BY <1>2 DEF ServerWritesReplies, Exit, Left
  <2>2. \A c \in Clients : <<c, c>> \in readers => <<c, c>> \in readers'
    BY <1>0, <1>2 DEF Exit
  <2> QED BY <2>1, <2>2 DEF ClientsAreJoined, Joined
<1>3. CASE OpenWrite(Server, Server) /\ UNCHANGED alive
  <2>1. \A c \in Clients : \A q : <<q, c>> # <<Server, Server>> /\ <<q, c>>[2] # Server
    BY ProcessesAreDistinct
  <2>2. ServerWritesReplies'
    BY <1>3 DEF ServerWritesReplies, OpenWrite
  <2> QED BY <1>0, <1>3, <2>1, <2>2 DEF ClientsAreJoined, Joined, Holds, OpenWrite
<1>4. CASE CloseRead(Server, Server) /\ UNCHANGED alive
  <2>1. \A c \in Clients : <<c, c>> # <<Server, Server>>
    BY <1>0
  <2> QED BY <1>0, <1>4, <2>1
          DEF ServerWritesReplies, ClientsAreJoined, Joined, Holds, CloseRead
<1>5. CASE /\ CloseWrite(Server, server_to_client) /\ spc' = "unlink"
           /\ UNCHANGED <<alive, server_to_client>>
  <2>1. ServerWritesReplies' /\ UNCHANGED <<readers, asleep>>
    BY <1>5 DEF ServerWritesReplies, CloseWrite
  <2>2. ASSUME NEW c \in Clients, Joined(c)
        PROVE  Joined(c)'
    <3>1. CASE c = server_to_client
      BY <1>5, <3>1 DEF Joined, Left, ClosedAtShutdown
    <3>2. CASE c # server_to_client
      <4>1. <<Server, c>> # <<Server, server_to_client>>
        BY <3>2
      <4> QED BY <1>0, <1>5, <2>2, <4>1 DEF Joined, Holds, CloseWrite
    <3> QED BY <3>1, <3>2
  <2> QED BY <2>1, <2>2 DEF ClientsAreJoined
<1> QED BY <1>1, <1>2, <1>3, <1>4, <1>5 DEF ClosingEnds

LEMMA LastingCloses ==
    ASSUME TypeOK, LastingInv, spc \in ClosingDown, Plain
    PROVE  LastingInv'
<1> USE DEF LastingInv
<1>0. /\ [Next]_vars /\ DOMAIN wpc = Clients
      /\ arg \in [Clients -> [size : Slots, fd : Slots, shm : Slots]]
  BY PlainIsNext DEF TypeOK, WorkerTypeOK
<1>1. ReadersAreOwn' /\ ReadersAreThere' /\ AwakeMeetsReader'
  BY <1>0, ReadersStep, AwakeStep
<1>2. ServerWritesReplies' /\ ClientsAreJoined'
  BY <1>0, LeftStep, ClosingStays, JoinedAsks, JoinedCloses
<1>3. Silent' \subseteq Silent
  <2>1. CASE \E c \in Clients : Asks(c)
    BY <2>1, TypeShape
       DEF Asks, Client, User, ClientStep, OpenRequest, RequestOpened, Write,
           OpenReply, ReplyOpened, Read, Finish, Setup, Kill, Goto, Silent,
           Shape
  <2>2. CASE UNCHANGED cpc
    BY <2>2 DEF Silent
  <2> QED BY <2>1, <2>2, ClosingStays
<1>4. ASSUME NEW c \in Clients, Works(c)
      PROVE  /\ wpc[c] # "none" /\ \A d \in Clients \ {c} : wpc'[d] = wpc[d] /\ arg'[d] = arg[d]
             /\ IF wpc[c] = "size" THEN arg'[c].size = pthread_args.size
                                   ELSE arg'[c].size = arg[c].size
             /\ IF wpc[c] = "fd" THEN arg'[c].fd = pthread_args.fd
                                 ELSE arg'[c].fd = arg[c].fd
             /\ wpc'[c] \notin {"none", "size"}
             /\ wpc[c] = "size" => wpc'[c] = "fd"
  BY <1>0, <1>4 DEF Works, LoadSize, LoadFd, SetAffinity, SetScheduler,
                    OpenSegment,
                    WriteBack, Reply, Answer, Crash, Advance, At, Load
<1>5. ASSUME NEW c \in Clients
      PROVE  wpc'[c] # "none" => wpc[c] # "none"
  <2>1. CASE UNCHANGED wpc
    BY <2>1
  <2>2. CASE \E d \in Clients : Works(d)
    BY <1>4, <2>2
  <2>3. CASE \E d \in Clients : Asks(d)
    BY <2>3 DEF Asks, Client, User, workerVars
  <2> QED BY <2>1, <2>2, <2>3, ClosingStays
<1>6. SilentHaveNoWorker'
  BY <1>3, <1>5 DEF SilentHaveNoWorker, Silent
<1>7. ASSUME NEW f, Held(f)
      PROVE  Held(f)'
  <2>1. f \in Clients \ Silent'
    BY <1>3, <1>7 DEF Held
  <2>2. ASSUME Server \in alive'
        PROVE  <<Server, f>> \notin writers' \cap asleep'
    <3>1. Server \in alive /\ <<Server, f>> \notin writers \cap asleep
      BY <1>0, <1>7, <2>2, LeftForGood DEF Held
    <3>2. ~EndsOpened(f)
      BY DEF EndsOpened, ServerOpenReply, Before, ClosingDown
    <3>3. EndsKept(f) \/ <<Server, f>> \notin writers'
      BY <1>0, <2>1, <3>2, EndsOfClient DEF EndsGone, EndsInterrupted,
                                            EndsClosed
    <3> QED BY <3>1, <3>3 DEF EndsKept
  <2> QED BY <2>1, <2>2 DEF Held
<1>8. LoadedAreHeld'
  <2> SUFFICES ASSUME NEW c \in Clients, wpc'[c] # "none"
               PROVE  /\ pthread_args'.size \in Clients /\ Held(pthread_args.fd)'
                      /\ wpc'[c] # "size" => arg'[c].size \in Clients
                      /\ wpc'[c] \notin {"size", "fd"} => Held(arg[c].fd)'
    BY DEF LoadedAreHeld
  <2>1. /\ wpc[c] # "none" /\ pthread_args' = pthread_args
        /\ pthread_args.size \in Clients /\ Held(pthread_args.fd)
        /\ wpc[c] # "size" => arg[c].size \in Clients
        /\ wpc[c] \notin {"size", "fd"} => Held(arg[c].fd)
    BY <1>5, ClosingStays DEF LoadedAreHeld
  <2>2. /\ arg'[c].size \in {arg[c].size, pthread_args.size}
        /\ wpc[c] = "size" => arg'[c].size = pthread_args.size \/ wpc'[c] = "size"
        /\ arg'[c].fd \in {arg[c].fd, pthread_args.fd}
        /\ wpc[c] \in {"size", "fd"} =>
              arg'[c].fd = pthread_args.fd \/ wpc'[c] \in {"size", "fd"}
    <3>1. CASE UNCHANGED <<wpc, arg>>
      BY <3>1
    <3>2. CASE \E d \in Clients : Works(d)
      BY <1>4, <3>2
    <3>3. CASE \E d \in Clients : Asks(d)
      BY <3>3 DEF Asks, Client, User, workerVars
    <3> QED BY <3>1, <3>2, <3>3, ClosingStays
  <2>3. Held(pthread_args.fd)'
    <3>1. PICK f : f = pthread_args.fd
      OBVIOUS
    <3>2. Held(f)'
      BY <1>7, <2>1, <3>1
    <3> QED BY <2>1, <3>1, <3>2 DEF Held, Holds
  <2>4. wpc'[c] \notin {"size", "fd"} => Held(arg[c].fd)'
    <3>1. PICK f : f = arg'[c].fd
      OBVIOUS
    <3>2. wpc'[c] \notin {"size", "fd"} => Held(f)
      BY <2>1, <2>2, <3>1
    <3>3. wpc'[c] \notin {"size", "fd"} => Held(f)'
      BY <1>7, <3>2
    <3> QED BY <3>1, <3>3 DEF Held, Holds
  <2> QED BY <2>1, <2>2, <2>3, <2>4
<1> QED BY <1>1, <1>2, <1>6, <1>8

(* What a multiplication, a stop and shutdown leave of it.                 *)
LEMMA LastingQuiet ==
    ASSUME LastingInv, LeftStays, DOMAIN wpc = Clients,
           UNCHANGED <<alive, readers, writers, asleep, cpc, pthread_args, arg>>,
           \/ UNCHANGED wpc
           \/ \E c \in Clients : /\ wpc[c] \in {"segment", "multiply", "reply"}
                                 /\ \E x \in {"writeBack", "done"} : Advance(c, x)
    PROVE  LastingInv'
<1> USE DEF LastingInv
<1>1. /\ ServerWritesReplies' /\ ReadersAreOwn' /\ ReadersAreThere'
      /\ AwakeMeetsReader' /\ ClientsAreJoined'
  BY DEF ServerWritesReplies, ReadersAreOwn, ReadersAreThere, AwakeMeetsReader,
         Holds, ClientsAreJoined, Joined, LeftStays
<1>2. \A c \in Clients :
         \/ wpc'[c] = wpc[c]
         \/ wpc[c] \notin {"none", "size", "fd"} /\ wpc'[c] \notin {"none", "size", "fd"}
  BY DEF Advance
<1>3. SilentHaveNoWorker'
  BY <1>2 DEF SilentHaveNoWorker, Silent
<1>4. \A f : Held(f)' <=> Held(f)
  BY DEF Held, Holds, Silent
<1>5. LoadedAreHeld'
  <2> SUFFICES ASSUME NEW c \in Clients, wpc'[c] # "none"
               PROVE  /\ pthread_args'.size \in Clients /\ Held(pthread_args.fd)'
                      /\ wpc'[c] # "size" => arg'[c].size \in Clients
                      /\ wpc'[c] \notin {"size", "fd"} => Held(arg[c].fd)'
    BY DEF LoadedAreHeld
  <2>1. /\ Held(pthread_args.fd)' <=> Held(pthread_args.fd)
        /\ Held(arg[c].fd)' <=> Held(arg[c].fd)
    BY DEF Held, Holds, Silent
  <2> QED BY <1>2, <2>1 DEF LoadedAreHeld
<1> QED BY <1>1, <1>3, <1>5

-----------------------------------------------------------------------------
(* What a worker loads it loads once.                                      *)
LEMMA UnloadedWorks ==
    ASSUME TypeOK, NEW c \in Clients, \A d \in Clients : Unloaded(d),
           \/ Works(c) \/ Multiplies(c) \/ Stops(c)
    PROVE  \A d \in Clients : Unloaded(d)'
<1>0. /\ wpc \in [Clients -> WorkerSteps] /\ C \in [Clients -> Contents]
      /\ arg \in [Clients -> [size : Slots, fd : Slots, shm : Slots]]
  BY DEF TypeOK, WorkerTypeOK
<1>1. \A d \in Clients \ {c} : wpc'[d] = wpc[d] /\ arg'[d] = arg[d] /\ C'[d] = C[d]
  BY <1>0 DEF Works, Multiplies, Stops, QuietlyFrom, LoadSize, LoadFd,
              SetAffinity,
              SetScheduler, OpenSegment, WriteBack, Reply, Answer, Crash,
              Advance, Load
<1>2. \A d \in Clients \ {c} : Unloaded(d)'
  BY <1>1 DEF Unloaded
<1>3. CASE Works(c)
  <2> USE DEF Works, LoadSize, LoadFd, SetAffinity, SetScheduler, OpenSegment,
              WriteBack, Reply, Answer, Crash, Advance, Load, At
  <2>1. C' = C /\ wpc[c] # "none" /\ Unloaded(c)
    BY <1>3
  <2>2. ASSUME wpc[c] = "size"
        PROVE  Unloaded(c)'
    BY <1>0, <1>3, <2>1, <2>2 DEF Unloaded, Early
  <2>3. ASSUME wpc[c] = "fd"
        PROVE  Unloaded(c)'
    BY <1>0, <1>3, <2>1, <2>3 DEF Unloaded, Early
  <2>4. ASSUME wpc[c] \in {"affinity", "sched"}
        PROVE  Unloaded(c)'
    <3>1. /\ arg' = arg /\ wpc'[c] \in {wpc[c], "sched", "segment", "done"}
          /\ wpc'[c] = "affinity" => wpc[c] = "affinity"
      BY <1>0, <1>3, <2>4
    <3> QED BY <2>1, <2>4, <3>1 DEF Unloaded, Early
  <2>5. ASSUME wpc[c] = "segment"
        PROVE  Unloaded(c)'
    <3>1. /\ wpc'[c] \in {"multiply", "done"}
          /\ arg'[c].size = arg[c].size /\ arg'[c].fd = arg[c].fd
      BY <1>0, <1>3, <2>5
    <3> QED BY <2>1, <2>5, <3>1 DEF Unloaded, Early
  <2>6. ASSUME wpc[c] \in {"multiply", "writeBack", "reply", "done"}
        PROVE  Unloaded(c)'
    <3>1. /\ arg' = arg /\ wpc'[c] \in {wpc[c], "reply", "done"}
          /\ wpc[c] \in {"writeBack", "reply"}
      BY <1>0, <1>3, <2>6
    <3> QED BY <2>1, <2>6, <3>1 DEF Unloaded, Early
  <2>7. Unloaded(c)'
    BY <1>0, <2>1, <2>2, <2>3, <2>4, <2>5, <2>6 DEF WorkerSteps
  <2> QED BY <1>2, <2>7
<1>4. CASE Multiplies(c)
  <2>1. wpc'[c] = "writeBack" /\ C'[c] \in StaticOutcomes(c)
    BY <1>0, <1>4 DEF Multiplies, QuietlyFrom, Advance
  <2>2. C'[c] # "none"
    BY <2>1 DEF StaticOutcomes
  <2> QED BY <1>2, <2>1, <2>2 DEF Unloaded, Early
<1>5. CASE Stops(c)
  <2>1. wpc'[c] = "done"
    BY <1>0, <1>5 DEF Stops, QuietlyFrom, Advance
  <2> QED BY <1>2, <2>1 DEF Unloaded, Early
<1> QED BY <1>3, <1>4, <1>5

(* The steps of the others.                                                *)
LEMMA OthersKeep ==
    ASSUME TypeOK, Plain, spc \notin ClosingDown => SlotInv /\ OnceInv,
           ~ \E c \in Clients : Works(c)
    PROVE  /\ UNCHANGED <<arg, C>>
           /\ \/ UNCHANGED wpc
              \/ /\ mc \in Clients /\ wpc[mc] = "none" /\ mc \notin Silent
                 /\ wpc' = [wpc EXCEPT ![mc] = "size"] /\ UNCHANGED <<shm, cpc, replies, alive>>
<1>1. ASSUME NEW c \in Clients, Asks(c)
      PROVE  UNCHANGED <<arg, C, wpc>>
  BY <1>1 DEF Asks, Client, User, workerVars
<1>2. CASE Starts \/ CreatesHold
  BY <1>2 DEF Starts, CreatesHold, Start, CreateHold, workerVars
<1>3. CASE Spawns
  <2>1. /\ spc = "spawn" /\ spc \notin ClosingDown /\ UNCHANGED <<arg, C, shm, cpc, replies>>
        /\ spc' = "while" /\ UNCHANGED cpc
    BY <1>3 DEF Spawns, SpawnWorker, Before, ClosingDown
  <2>2. UNCHANGED alive /\ wpc' = [wpc EXCEPT ![mc] = "size"]
    BY <1>3, <2>1 DEF Spawns, SpawnWorker, Advance
  <2>3. mc \in Clients /\ ~Accepted(mc) /\ mc \notin Silent
    BY <2>1 DEF SlotInv, RequestInHand, FillSteps, OnceInv, SilentNowhere
  <2>4. wpc[mc] = "none"
    BY <2>1, <2>3 DEF SlotInv, WorkersAreStarted, Accepted
  <2> QED BY <2>1, <2>2, <2>3, <2>4
<1>4. CASE Serves
  BY <1>4 DEF Serves, ServerOpenRequest, While, ServerRead, ServerOpenReply,
              ServerReplyOpened, FillSize, FillFd, FillPriority, CopyName,
              NameCopied, Store, CloseRequest, CloseReply, UnlinkRequest,
              Return, SleepInRead, HoldFifoOpen, Sigint,
              CreateHold, SpawnWorker, workerVars, vars
<1> QED BY <1>1, <1>2, <1>3, <1>4 DEF Plain

LEMMA UnloadedPlain ==
    ASSUME TypeOK, Plain, spc \notin ClosingDown => SlotInv /\ OnceInv,
           \A d \in Clients : Unloaded(d)
    PROVE  \A d \in Clients : Unloaded(d)'
<1>1. CASE \E c \in Clients : Works(c)
  BY <1>1, UnloadedWorks
<1>2. CASE ~ \E c \in Clients : Works(c)
  <2>1. /\ UNCHANGED <<arg, C>>
        /\ \/ UNCHANGED wpc
           \/ mc \in Clients /\ wpc[mc] = "none" /\ wpc' = [wpc EXCEPT ![mc] = "size"]
    BY <1>2, OthersKeep
  <2>2. DOMAIN wpc = Clients
    BY DEF TypeOK, WorkerTypeOK
  <2>3. \A d \in Clients : wpc'[d] = wpc[d] \/ (wpc[d] = "none" /\ wpc'[d] = "size")
    BY <2>1, <2>2
  <2> QED BY <2>1, <2>3 DEF Unloaded, Early
<1> QED BY <1>1, <1>2

(* A segment stays made.                                                   *)
LEMMA SegmentsPlain ==
    ASSUME TypeOK, NamesInv, SegmentsAreMade, Plain
    PROVE  SegmentsAreMade'
<1>0. /\ cpc \in [Clients -> ClientCalls \cup ClientExits]
      /\ shm \in [Clients -> Contents] /\ DOMAIN wpc = Clients /\ DOMAIN C = Clients
  BY DEF TypeOK, ClientTypeOK, IpcTypeOK, WorkerTypeOK
<1>1. ASSUME NEW c \in Clients, Asks(c)
      PROVE  SegmentsAreMade'
  <2>1. \A d \in Clients \ {c} : cpc'[d] = cpc[d] /\ shm'[d] = shm[d]
    BY <1>0, <1>1
       DEF Asks, Client, User, ClientStep, OpenRequest, RequestOpened, Write,
           OpenReply, ReplyOpened, Read, Finish, Setup, Kill, Goto, ipcVars
  <2>2. \/ cpc[c] \notin Unmade /\ shm'[c] = shm[c]
        \/ shm'[c] = "input"
        \/ cpc'[c] \in Unmade
        \/ Kill(c) /\ shm'[c] = shm[c]
    BY <1>0, <1>1
       DEF Asks, Client, User, ClientStep, OpenRequest, RequestOpened, Write,
           OpenReply, ReplyOpened, Read, Finish, Setup, Kill, Goto, ipcVars,
           Unmade
  <2>3. Kill(c) => shm[c] # "none"
    BY DEF Kill, NamesInv, LiveAreRunning, NamesAreGood
  <2>4. cpc'[c] \notin Unmade => shm'[c] # "none"
    BY <2>2, <2>3 DEF SegmentsAreMade
  <2> QED BY <2>1, <2>4 DEF SegmentsAreMade
<1>2. ASSUME NEW c \in Clients, Works(c)
      PROVE  SegmentsAreMade'
  <2>1. WorkerNext(c) /\ UNCHANGED cpc
    BY <1>2 DEF Works, WorkerNext
  <2>2. \A d \in Clients : shm[d] # "none" => shm'[d] # "none"
    BY <1>0, <2>1, ResultWorker DEF NamesInv
  <2> QED BY <2>1, <2>2 DEF SegmentsAreMade
<1>3. CASE Starts \/ CreatesHold \/ Spawns
  BY <1>3 DEF Starts, CreatesHold, Spawns, Start, CreateHold, SpawnWorker,
              SegmentsAreMade
<1>4. CASE Serves
  <2>1. UNCHANGED <<shm, cpc>>
    BY <1>4 DEF Serves, ServerOpenRequest, While, ServerRead, ServerOpenReply,
              ServerReplyOpened, FillSize, FillFd, FillPriority, CopyName,
              NameCopied, Store, CloseRequest, CloseReply, UnlinkRequest,
              Return, SleepInRead, HoldFifoOpen, Sigint,
              CreateHold, SpawnWorker, vars, ipcVars
  <2> QED BY <2>1 DEF SegmentsAreMade
<1> QED BY <1>1, <1>2, <1>3, <1>4 DEF Plain

(* Who is alive, and what there is of the clients.                         *)
LEMMA NamesQuiet ==
    ASSUME NamesInv, SegmentsAreMade, UNCHANGED <<paths, shm, cpc>>,
           \A c \in Clients : c \in alive' => c \in alive,
           \A c \in Clients : wpc'[c] = "writeBack" => C'[c] # "none"
    PROVE  NamesInv' /\ SegmentsAreMade'
  BY DEF NamesInv, LiveAreRunning, NamesAreGood, ResultIsThere, SegmentsAreMade

(* Main is gone when it has returned.                                      *)
LEMMA ExitPlain ==
    ASSUME ExitIsDeath, Plain
    PROVE  ExitIsDeath'
<1>1. ASSUME NEW c \in Clients, Asks(c)
      PROVE  ExitIsDeath'
  <2>1. spc' = spc /\ (Server \in alive' => Server \in alive)
    BY <1>1, ProcessesAreDistinct
       DEF Asks, Client, User, ClientStep, Setup, OpenRequest, RequestOpened, Write,
           OpenReply, ReplyOpened, Read, Finish, Kill, Exit, ipcVars, serverVars
  <2> QED BY <2>1 DEF ExitIsDeath
<1>2. ASSUME NEW c \in Clients, Works(c)
      PROVE  ExitIsDeath'
  <2>1. spc' = spc /\ alive' \subseteq alive
    BY <1>2 DEF Works, LoadSize, LoadFd, SetAffinity, SetScheduler, OpenSegment,
                WriteBack, Reply, Answer, Crash, Exit, ipcVars, serverVars
  <2> QED BY <2>1 DEF ExitIsDeath
<1>3. CASE Starts \/ CreatesHold \/ Spawns
  BY <1>3 DEF Starts, CreatesHold, Spawns, Start, CreateHold, SpawnWorker, Exit,
              ExitIsDeath, ServerExits
<1>4. CASE Serves
  BY <1>4 DEF Serves, ServerOpenRequest, While, ServerRead, ServerOpenReply,
              ServerReplyOpened, FillSize, FillFd, FillPriority, CopyName,
              NameCopied, Store, CloseRequest, CloseReply, UnlinkRequest,
              Return, SleepInRead, HoldFifoOpen, Sigint,
              CreateHold, SpawnWorker, vars, ipcVars, serverVars, Exit, Before,
              ExitIsDeath, ServerExits
<1> QED BY <1>1, <1>2, <1>3, <1>4 DEF Plain

LEMMA Lasts ==
    TypeOK /\ ServingInv /\ ExitIsDeath /\ (spc \in ClosingDown => cancelled = <<>>)
        => LastingInv
BY ServingLasts

LEMMA MainPlain ==
    ASSUME MainInv, Plain
    PROVE  MainInv'
<1> USE DEF MainInv
<1>1. [Next]_vars /\ UNCHANGED cancelled
  BY PlainIsNext, PlainKeeps
<1>2. TypeOK' /\ RequestInHand' /\ NamesInv' /\ ExitIsDeath'
  BY <1>1, TypeStep, HandStep, NamesStep, ExitPlain
<1>3. CancelIsLast'
  BY <1>1, ClosingStays DEF CancelIsLast, ClosingDown
<1>4. SegmentsAreMade' /\ \A d \in Clients : Unloaded(d)'
  BY SegmentsPlain, UnloadedPlain DEF ServingInv
<1>5. spc \notin ClosingDown => ServingInv'
  BY ServingPlain
<1>6. spc' \notin ClosingDown => ServingInv'
  BY <1>5, ClosingStays
<1>7. LastingInv'
  <2>1. CASE spc \in ClosingDown
    BY <2>1, LastingCloses
  <2>2. CASE spc \notin ClosingDown
    <3>1. /\ TypeOK' /\ ServingInv' /\ ExitIsDeath'
          /\ (spc \in ClosingDown => cancelled = <<>>)'
      BY <1>1, <1>2, <1>5, <2>2 DEF CancelIsLast
    <3> QED BY <3>1, Lasts, PTL
  <2> QED BY <2>1, <2>2
<1> QED BY <1>2, <1>3, <1>4, <1>6, <1>7

LEMMA MainMultiplies ==
    ASSUME MainInv, NEW c \in Clients, Multiplies(c)
    PROVE  MainInv'
<1> USE DEF MainInv
<1>0. /\ UNCHANGED <<alive, paths, readers, writers, asleep, pipe, replies, shm,
                     cpc, pthread_args, arg, cancelled, spc, server_on, mc,
                     server_to_client, list, hold>>
      /\ wpc \in [Clients -> WorkerSteps] /\ wpc[c] = "multiply"
      /\ wpc' = [wpc EXCEPT ![c] = "writeBack"]
      /\ C \in [Clients -> Contents]
  BY DEF Multiplies, QuietlyFrom, At, Advance, ipcVars, serverVars, TypeOK,
         WorkerTypeOK
<1>1. PICK result \in {"product", "wrong"} : C' = [C EXCEPT ![c] = result]
  BY DEF Multiplies, StaticOutcomes
<1>2. TypeOK'
  <2>1. "writeBack" \in WorkerSteps /\ result \in Contents
    BY <1>1 DEF WorkerSteps, Contents
  <2> QED BY <1>0, <1>1, <2>1 DEF TypeOK, IpcTypeOK, ClientTypeOK, WorkerTypeOK, ServerTypeOK
<1>3. RequestInHand' /\ CancelIsLast' /\ ExitIsDeath'
  BY <1>0 DEF RequestInHand, CancelIsLast, ClosingDown, ExitIsDeath
<1>4. spc' \notin ClosingDown => ServingInv'
  BY <1>0, ServingMultiplies
<1>5. LastingInv'
  <2>1. wpc[c] \in {"segment", "multiply", "reply"} /\ Advance(c, "writeBack")
    BY <1>0 DEF Advance
  <2> QED BY <1>0, <2>1, LeftQuiet, LastingQuiet
<1>6. \A d \in Clients : C'[d] # "none" \/ (C'[d] = C[d] /\ wpc'[d] = wpc[d])
  BY <1>0, <1>1
<1>7. NamesInv' /\ SegmentsAreMade'
  <2>1. \A d \in Clients : wpc'[d] = "writeBack" => C'[d] # "none"
    BY <1>6 DEF NamesInv, ResultIsThere
  <2> QED BY <1>0, <2>1, NamesQuiet
<1>8. \A d \in Clients : Unloaded(d)'
  BY UnloadedWorks
<1> QED BY <1>2, <1>3, <1>4, <1>5, <1>7, <1>8

LEMMA MainStops ==
    ASSUME MainInv, NEW c \in Clients, Stops(c)
    PROVE  MainInv'
<1> USE DEF MainInv
<1>0. /\ UNCHANGED <<alive, paths, readers, writers, asleep, pipe, replies, shm,
                     cpc, pthread_args, arg, cancelled, spc, server_on, mc,
                     server_to_client, list, hold, C>>
      /\ wpc \in [Clients -> WorkerSteps] /\ wpc[c] \in {"segment", "reply"}
      /\ Advance(c, "done")
  BY DEF Stops, QuietlyFrom, At, ipcVars, serverVars, TypeOK, WorkerTypeOK
<1>1. spc \in ClosingDown
  BY DEF Stops, IsCancelled, CancelIsLast, ClosingDown
<1>2. TypeOK'
  <2>1. wpc' \in [Clients -> WorkerSteps]
    BY <1>0 DEF Advance, WorkerSteps
  <2> QED BY <1>0, <2>1 DEF TypeOK, IpcTypeOK, ClientTypeOK, WorkerTypeOK, ServerTypeOK
<1>3. RequestInHand' /\ CancelIsLast' /\ ExitIsDeath' /\ spc' \in ClosingDown
  BY <1>0, <1>1 DEF RequestInHand, CancelIsLast, ClosingDown, ExitIsDeath
<1>4. LastingInv'
  <2>1. wpc[c] \in {"segment", "multiply", "reply"}
    BY <1>0
  <2> QED BY <1>0, <2>1, LeftQuiet, LastingQuiet
<1>5. NamesInv' /\ SegmentsAreMade'
  <2>1. \A d \in Clients : wpc'[d] = "writeBack" => C'[d] # "none"
    BY <1>0 DEF NamesInv, ResultIsThere, Advance
  <2> QED BY <1>0, <2>1, NamesQuiet
<1>6. \A d \in Clients : Unloaded(d)'
  BY UnloadedWorks
<1> QED BY <1>2, <1>3, <1>4, <1>5, <1>6

LEMMA MainDies ==
    ASSUME MainInv, Dies
    PROVE  MainInv'
<1> USE DEF MainInv
<1>0. /\ UNCHANGED <<paths, pipe, replies, shm, cpc, workerVars, serverVars>>
      /\ Exit(Server)
  BY DEF Dies
<1>1. TypeOK'
  <2>1. EndsTypeOK /\ alive \subseteq Processes
    BY DEF TypeOK, IpcTypeOK, EndsTypeOK
  <2>2. EndsTypeOK' /\ alive' \subseteq Processes
    BY <1>0, <2>1, ExitType
  <2> QED BY <1>0, <2>2 DEF TypeOK, IpcTypeOK, EndsTypeOK, ClientTypeOK, WorkerTypeOK,
                            ServerTypeOK, workerVars, serverVars
<1>2. RequestInHand' /\ CancelIsLast' /\ ExitIsDeath'
  BY <1>0 DEF RequestInHand, CancelIsLast, ClosingDown, ExitIsDeath,
              serverVars, workerVars, Exit
<1>3. spc' \notin ClosingDown => ServingInv'
  BY <1>0, ServingDies DEF serverVars
<1>4. LastingInv'
  <2> USE DEF LastingInv
  <2>1. ServerWritesReplies' /\ ClientsAreJoined'
    <3>1. LeftStays
      BY <1>0, LeftQuiet DEF serverVars, Exit
    <3> QED BY <1>0, <3>1, JoinedCloses DEF ClosingEnds
  <2>2. /\ ReadersAreOwn' /\ ReadersAreThere' /\ AwakeMeetsReader'
        /\ SilentHaveNoWorker'
    BY <1>0 DEF ReadersAreOwn, ReadersAreThere, AwakeMeetsReader, Holds, Exit,
                SilentHaveNoWorker, Silent, workerVars
  <2>3. \A f : Held(f) => Held(f)'
    BY <1>0 DEF Held, Silent, Exit
  <2>4. LoadedAreHeld'
    BY <1>0, <2>3 DEF LoadedAreHeld, workerVars, Held
  <2> QED BY <2>1, <2>2, <2>4
<1>5. NamesInv' /\ SegmentsAreMade'
  <2>1. \A d \in Clients : wpc'[d] = "writeBack" => C'[d] # "none"
    BY <1>0 DEF NamesInv, ResultIsThere, workerVars
  <2>2. \A d \in Clients : d \in alive' => d \in alive
    BY <1>0 DEF Exit
  <2> QED BY <1>0, <2>1, <2>2, NamesQuiet
<1>6. \A d \in Clients : Unloaded(d)'
  BY <1>0 DEF Unloaded, workerVars
<1> QED BY <1>1, <1>2, <1>3, <1>4, <1>5, <1>6

(* From here on the threads without a node are in no list.                 *)
LEMMA MainCancels ==
    ASSUME ListInv, MainInv, Cancels
    PROVE  MainInv'
<1> USE DEF MainInv
<1>0. /\ UNCHANGED <<alive, paths, readers, writers, asleep, pipe, replies, shm,
                     cpc, pthread_args, wpc, arg, C, server_on, mc,
                     server_to_client, hold>>
      /\ spc = "cancel" /\ spc' = "close" /\ list' = <<>>
  BY DEF Cancels, CancelListed, Before, ipcVars
<1>1. cancelled' \in Seq(Processes)
  BY <1>0, ListCancel DEF ServingInv, ClosingDown
<1>2. TypeOK'
  BY <1>0, <1>1 DEF TypeOK, IpcTypeOK, ClientTypeOK, WorkerTypeOK,
                    ServerTypeOK, ServerCalls
<1>3. RequestInHand' /\ CancelIsLast' /\ ExitIsDeath' /\ spc' \in ClosingDown
  BY <1>0 DEF RequestInHand, CancelIsLast, ClosingDown, ExitIsDeath,
              ServerExits, ClosingDown, FillSteps
<1>4. LastingInv'
  <2>1. DOMAIN wpc = Clients /\ LeftStays
    BY <1>0 DEF TypeOK, WorkerTypeOK, LeftStays, Left, ClosedAtShutdown
  <2> QED BY <1>0, <2>1, LastingQuiet
<1>5. NamesInv' /\ SegmentsAreMade'
  <2>1. \A d \in Clients : wpc'[d] = "writeBack" => C'[d] # "none"
    BY <1>0 DEF NamesInv, ResultIsThere
  <2> QED BY <1>0, <2>1, NamesQuiet
<1>6. \A d \in Clients : Unloaded(d)'
  BY <1>0 DEF Unloaded
<1> QED BY <1>2, <1>3, <1>4, <1>5, <1>6

(* Before the NULL that kills the server there was none.                   *)
LEMMA NullStep ==
    ASSUME NullIsDeath, NoNull => MainInv, [StaticNext]_allVars
    PROVE  /\ NullIsDeath'
           /\ NoNull' => NoNull
           /\ NoNull' => ~ \E c \in Clients : DiesOfNull(c)
<1>1. CASE Server \notin alive
  <2>1. Server \notin alive' /\ C' = C
    BY <1>1, DeadStays DEF workerVars
  <2>2. \A c \in Clients : ~DiesOfNull(c)
    BY <1>1 DEF DiesOfNull, At
  <2> QED BY <2>1, <2>2 DEF NullIsDeath, NoNull
<1>2. CASE Server \in alive
  <2>1. NoNull /\ DOMAIN C = Clients
    BY <1>2 DEF NullIsDeath, MainInv, TypeOK, WorkerTypeOK
  <2>2. ASSUME NEW c \in Clients, DiesOfNull(c)
        PROVE  Server \notin alive' /\ ~NoNull'
    BY <2>1, <2>2 DEF DiesOfNull, Crash, Exit, NoNull
  <2>3. ASSUME ~ \E c \in Clients : DiesOfNull(c)
        PROVE  NoNull'
    <3>1. CASE Plain \/ \E c \in Clients : Stops(c)
      BY <2>1, <3>1, PlainKeeps DEF Stops, NoNull
    <3>2. ASSUME NEW c \in Clients, Multiplies(c)
          PROVE  NoNull'
      <4>1. PICK result \in {"product", "wrong"} : C' = [C EXCEPT ![c] = result]
        BY <3>2 DEF Multiplies, StaticOutcomes
      <4> QED BY <2>1, <4>1 DEF NoNull
    <3>3. CASE Dies \/ Cancels
      BY <2>1, <3>3 DEF Dies, Cancels, CancelListed, NoNull, workerVars
    <3> QED BY <2>3, <3>1, <3>2, <3>3, Kinds
  <2> QED BY <2>1, <2>2, <2>3 DEF NullIsDeath
<1> QED BY <1>1, <1>2

LEMMA MainKeeps ==
    ASSUME StaticInv, [StaticNext]_allVars, NoNull'
    PROVE  MainInv'
<1>1. NoNull /\ MainInv /\ ListInv /\ ~ \E c \in Clients : DiesOfNull(c)
  BY NullStep DEF StaticInv
<1> QED BY <1>1, Kinds, MainPlain, MainMultiplies, MainStops, MainDies, MainCancels

LEMMA StaticStep ==
    ASSUME StaticInv, [StaticNext]_allVars
    PROVE  StaticInv'
BY ListStep, NullStep, MainKeeps DEF StaticInv

LEMMA StaticBegins ==
    ASSUME StaticInit
    PROVE  StaticInv
<1>1. /\ TypeOK /\ RequestInHand /\ SlotInv /\ OnceInv /\ MeetInv
  BY TypeInit, SlotInit, OnceInit, MeetInit DEF StaticInit
<1>2. /\ \A c \in Clients : /\ cpc[c] = "mkfifo" /\ wpc[c] = "none" /\ C[c] = "none"
                            /\ arg[c] = NothingLoaded
      /\ spc = "mkfifo" /\ Server \in alive /\ writers = {} /\ readers = {}
      /\ list = <<>> /\ cancelled = <<>>
  BY DEF StaticInit, Init, IpcInit, ClientInit, WorkerInit, ServerInit
<1>3. ListInv
  <2>1. head = NoList /\ Allocated = {} /\ dropped = {}
    BY DEF StaticInit, ListInit, Allocated
  <2> QED BY <1>2, <2>1 DEF ListInv, ChainInv, Opening, Serving, ClosingDown, FillSteps
<1>4. NoNull
  BY <1>2 DEF NoNull
<1>5. ExitIsDeath /\ CancelIsLast
  BY <1>2 DEF ExitIsDeath, ServerExits, CancelIsLast, ClosingDown
<1>6. \A p : ~Accepted(p)
  <2>1. Started = <<>>
    <3>1. Shape
      BY <1>1, TypeShape
    <3> QED BY <1>2, <3>1, StartedIsList
  <2> QED BY <2>1 DEF Accepted
<1>7. ServingInv
  <2>1. ServeInv
    BY ServeInit DEF StaticInit
  <2>2. SlotNamesClients
    BY <1>6 DEF SlotNamesClients
  <2>3. ArgsAreLoaded
    BY <1>2 DEF ArgsAreLoaded, Loads, NothingLoaded
  <2> QED BY <1>1, <2>1, <2>2, <2>3 DEF ServingInv, MeetInv
<1>8. LastingInv
  BY <1>1, <1>2, <1>5, <1>7, ServingLasts
<1>9. SegmentsAreMade /\ NamesInv /\ \A c \in Clients : Unloaded(c)
  BY <1>1, <1>2 DEF SegmentsAreMade, Unmade, MeetInv, Unloaded, NothingLoaded
<1>10. MainInv
  BY <1>1, <1>5, <1>7, <1>8, <1>9 DEF MainInv
<1> QED BY <1>3, <1>4, <1>10 DEF StaticInv, NullIsDeath

LEMMA StaticCorrect == StaticSpec => []StaticInv
<1>1. StaticInit => StaticInv
  BY StaticBegins
<1>2. StaticInv /\ [StaticNext]_allVars => StaticInv'
  BY StaticStep
<1> QED BY <1>1, <1>2, PTL DEF StaticSpec

(* The list that shutdown walks holds the threads main created, in order,  *)
(* but for those no node could be allocated for; shutdown cancels all it   *)
(* holds and leaves no node (static_alloc/list.c, and main).  Whatever     *)
(* system call or allocation fails.                                        *)
THEOREM ListNamesThreads == StaticSpec => []ListHoldsThreads
<1>1. StaticInv => ListHoldsThreads
  BY ListMeansThreads DEF StaticInv
<1> QED BY <1>1, StaticCorrect, PTL

-----------------------------------------------------------------------------
(* Who answered, and of what the server died.                              *)
(*                                                                         *)
(* What a worker loaded, and how it ended, stays.                          *)
LEMMA ArgsStay ==
    ASSUME MainInv, Plain \/ \E c \in Clients : Multiplies(c) \/ Stops(c)
    PROVE  \A d \in Clients :
              /\ wpc[d] = "done" =>
                    wpc'[d] = "done" /\ arg'[d] = arg[d] /\ C'[d] = C[d]
              /\ arg[d].fd # NoClient => arg'[d].fd = arg[d].fd
              /\ arg[d].shm # NoClient => arg'[d].shm = arg[d].shm
<1>0. /\ wpc \in [Clients -> WorkerSteps] /\ C \in [Clients -> Contents]
      /\ arg \in [Clients -> [size : Slots, fd : Slots, shm : Slots]]
  BY DEF MainInv, TypeOK, WorkerTypeOK
<1>1. ASSUME NEW c \in Clients, Works(c) \/ Multiplies(c) \/ Stops(c)
      PROVE  /\ \A d \in Clients \ {c} : wpc'[d] = wpc[d] /\ arg'[d] = arg[d] /\ C'[d] = C[d]
             /\ wpc[c] # "done" /\ arg'[c].fd \in {arg[c].fd, pthread_args.fd}
             /\ arg'[c].fd # arg[c].fd => wpc[c] = "fd"
             /\ arg'[c].shm # arg[c].shm => wpc[c] = "segment"
  BY <1>0, <1>1
     DEF Works, Multiplies, Stops, QuietlyFrom, LoadSize, LoadFd, SetAffinity,
         SetScheduler, OpenSegment, WriteBack, Reply, Answer, Crash, Advance,
         Load, At
<1>2. ASSUME NEW c \in Clients, Works(c) \/ Multiplies(c) \/ Stops(c),
             NEW d \in Clients
      PROVE  /\ wpc[d] = "done" =>
                   wpc'[d] = "done" /\ arg'[d] = arg[d] /\ C'[d] = C[d]
             /\ arg[d].fd # NoClient => arg'[d].fd = arg[d].fd
             /\ arg[d].shm # NoClient => arg'[d].shm = arg[d].shm
  <2>1. CASE d # c
    BY <1>1, <1>2, <2>1
  <2>2. CASE d = c
    <3>1. Unloaded(c)
      BY DEF MainInv
    <3>2. /\ wpc[c] = "fd" => arg[c].fd = NoClient
          /\ wpc[c] = "segment" => arg[c].shm = NoClient
      BY <3>1 DEF Unloaded, Early
    <3> QED BY <1>1, <1>2, <2>2, <3>2
  <2> QED BY <2>1, <2>2
<1>3. CASE Plain /\ ~ \E c \in Clients : Works(c)
  <2>1. /\ UNCHANGED <<arg, C>>
        /\ \/ UNCHANGED wpc
           \/ mc \in Clients /\ wpc[mc] = "none" /\ wpc' = [wpc EXCEPT ![mc] = "size"]
    BY <1>3, OthersKeep DEF MainInv, ServingInv
  <2> QED BY <1>0, <2>1
<1> QED BY <1>2, <1>3

(* What a worker does to the replies, when -c works.                       *)
LEMMA WorksAnswers ==
    ASSUME PinningWorks, MainInv, NEW c \in Clients, Works(c)
    PROVE  /\ UNCHANGED <<cpc, spc, C>>
           /\ \/ UNCHANGED <<replies, alive>>
              \/ /\ replies' = [replies EXCEPT ![arg[c].fd] = @ + 1]
                 /\ wpc'[c] = "done" /\ arg' = arg
                 /\ wpc[c] \in {"sched", "reply"} /\ UNCHANGED alive
              \/ /\ wpc[c] \in {"sched", "reply"} /\ ~HasReader(arg[c].fd)
                 /\ <<Server, arg[c].fd>> \in writers
                 /\ Crash /\ UNCHANGED arg
<1>0. wpc \in [Clients -> WorkerSteps] /\ Unloaded(c)
  BY DEF MainInv, TypeOK, WorkerTypeOK
<1>1. UNCHANGED <<cpc, spc, C>>
  BY PlainKeeps DEF Works, Plain, serverVars
<1>2. CASE LoadSize(c) \/ LoadFd(c) \/ OpenSegment(c) \/ WriteBack(c)
  BY <1>1, <1>2 DEF LoadSize, LoadFd, OpenSegment, WriteBack, ipcVars
<1>3. CASE SetAffinity(c)
  <2>1. {"malloc", "sched_setaffinity"} \cap Faults = {}
    BY <1>0, <1>3 DEF Unloaded, SetAffinity, At, PinningWorks
  <2> QED BY <1>1, <1>3, <2>1 DEF SetAffinity
<1>4. CASE SetScheduler(c) \/ Reply(c)
  <2>1. CASE UNCHANGED <<replies, alive>>
    BY <1>1, <2>1
  <2>2. CASE Answer(c, "done") /\ wpc[c] \in {"sched", "reply"} /\ UNCHANGED arg
    BY <1>0, <1>1, <2>2 DEF Answer, CanWrite, Advance
  <2> QED BY <1>4, <2>1, <2>2 DEF SetScheduler, Reply, At
<1> QED BY <1>2, <1>3, <1>4 DEF Works

(* Main and the hold thread end the server by returning from main only.    *)
LEMMA MainReturns ==
    ASSUME Starts \/ CreatesHold \/ Spawns \/ Serves
    PROVE  /\ UNCHANGED <<cpc, replies, shm>>
           /\ (Server \in alive /\ Server \notin alive') => spc' \in ServerExits
<1>1. CASE Starts \/ CreatesHold \/ Spawns
  BY <1>1 DEF Starts, CreatesHold, Spawns, Start, CreateHold, SpawnWorker,
              ServerExits
<1>2. CASE Serves
  BY <1>2 DEF Serves, ServerOpenRequest, While, ServerRead, ServerOpenReply,
              ServerReplyOpened, FillSize, FillFd, FillPriority, CopyName,
              NameCopied, Store, CloseRequest, CloseReply, UnlinkRequest,
              Return, SleepInRead, HoldFifoOpen, Sigint,
              CreateHold, SpawnWorker, vars, ipcVars, ServerExits
<1> QED BY <1>1, <1>2

(* The server serves a client until it closes that client's FIFO, for good.*)
LEMMA ServedBefore ==
    ASSUME MainInv, [StaticNext]_allVars, NEW c \in Clients, Served(c)',
           Plain \/ \E d \in Clients : Multiplies(d) \/ Stops(d)
    PROVE  Served(c)
<1>1. Server \in alive
  BY DeadStays DEF Served
<1>2. CASE ~ClosedAtShutdown(c)
  BY <1>1, <1>2 DEF Served
<1>3. CASE ClosedAtShutdown(c) /\ Plain
  <2>1. [Next]_vars /\ spc \in ClosingDown
    BY <1>3, PlainIsNext DEF ClosedAtShutdown, ClosingDown
  <2>2. ClosedAtShutdown(c)'
    <3>1. Left(c)'
      BY <1>3, <2>1, LeftStep DEF LeftStays, Left
    <3> QED BY <3>1 DEF Served, Left
  <2>3. <<Server, c>> \in writers' /\ Server \in alive'
    BY <2>2 DEF Served
  <2>4. spc \in {"unlink", "return"} /\ cpc' \in [Clients -> ClientCalls \cup ClientExits]
    BY <1>3, <2>1, TypeStep DEF ClosedAtShutdown, MainInv, TypeOK, ClientTypeOK
  <2>5. ~EndsOpened(c) /\ ~EndsGone(c) /\ ~EndsInterrupted(c) /\ ~EndsClosed(c)
    BY <2>3, <2>4 DEF EndsOpened, ServerOpenReply, Before, EndsGone,
                      EndsInterrupted, EndsClosed
  <2>6. EndsKept(c)
    BY <2>1, <2>5, EndsOfClient DEF MainInv, LastingInv
  <2> QED BY <1>1, <2>3, <2>6 DEF EndsKept, Served
<1>4. CASE \E d \in Clients : Multiplies(d) \/ Stops(d)
  <2>1. UNCHANGED <<alive, writers, spc, server_to_client>>
    BY <1>4 DEF Multiplies, Stops, QuietlyFrom, ipcVars, endVars, serverVars
  <2> QED BY <2>1 DEF Served, ClosedAtShutdown
<1> QED BY <1>2, <1>3, <1>4

(* Such a client takes no end-of-file for an answer.                       *)
LEMMA AsksWithoutAnswer ==
    ASSUME MainInv, NEW p \in Clients, Asks(p), NEW c \in Clients, Served(c),
           replies'[c] > 0 \/ cpc'[c] \in Answered
    PROVE  replies[c] > 0 \/ cpc[c] \in Answered
<1>0. /\ cpc \in [Clients -> ClientCalls \cup ClientExits] /\ replies \in [Clients -> Nat]
      /\ ClientsAreJoined
  BY DEF MainInv, LastingInv, TypeOK, ClientTypeOK, IpcTypeOK
<1>1. CASE Read(p) /\ c = p
  <2>1. cpc[p] = "read"
    BY <1>1 DEF Read
  <2>2. HasWriter(p)
    BY <1>0, <1>1, <2>1 DEF ClientsAreJoined, Joined, Holds, Left, Served,
                            HasWriter, Processes
  <2> QED BY <1>0, <1>1, <2>2 DEF Read, Goto, Answered
<1>2. CASE Read(p) /\ c # p
  BY <1>0, <1>2 DEF Read, Goto
<1>3. CASE ~Read(p)
  <2>1. UNCHANGED replies
    BY <1>3 DEF Asks, Client, User, ClientStep, OpenRequest, RequestOpened,
                Write,
                OpenReply, ReplyOpened, Finish, Setup, Kill, ipcVars
  <2>2. cpc'[c] \in Answered => cpc[c] \in Answered
    BY <1>0, <1>3
       DEF Asks, Client, User, ClientStep, OpenRequest, RequestOpened, Write,
           OpenReply, ReplyOpened, Finish, Setup, Kill, Goto, Answered
  <2> QED BY <2>1, <2>2
<1> QED BY <1>1, <1>2, <1>3

LEMMA AnswersStep ==
    ASSUME PinningWorks, MainInv, AnswersComeFromWorkers, [StaticNext]_allVars,
           Plain \/ \E c \in Clients : Multiplies(c) \/ Stops(c)
    PROVE  AnswersComeFromWorkers'
<1>1. \A c \in Clients : Served(c)' => Served(c)
  BY ServedBefore
<1>2. ASSUME NEW d \in Clients, NEW c \in Clients, AnsweredBy(d, c)
      PROVE  AnsweredBy(d, c)'
  BY <1>2, ArgsStay DEF AnsweredBy
<1>3. ASSUME NEW c \in Clients, Served(c)', replies[c] > 0 \/ cpc[c] \in Answered
      PROVE  \E d \in Clients : AnsweredBy(d, c)'
  BY <1>1, <1>2, <1>3 DEF AnswersComeFromWorkers
<1>4. ASSUME NEW c \in Clients, Served(c)', replies'[c] > 0 \/ cpc'[c] \in Answered
      PROVE  \E d \in Clients : AnsweredBy(d, c)'
  <2>1. CASE UNCHANGED <<replies, cpc>>
    BY <1>3, <1>4, <2>1
  <2>2. CASE \E p \in Clients : Asks(p)
    BY <1>1, <1>3, <1>4, <2>2, AsksWithoutAnswer
  <2>3. ASSUME NEW w \in Clients, Works(w)
        PROVE  \E d \in Clients : AnsweredBy(d, c)'
    <3>1. CASE UNCHANGED replies
      BY <1>3, <1>4, <2>3, <3>1, WorksAnswers
    <3>2. CASE /\ replies' = [replies EXCEPT ![arg[w].fd] = @ + 1]
               /\ wpc'[w] = "done" /\ arg' = arg
               /\ wpc[w] \in {"sched", "reply"} /\ UNCHANGED <<C, cpc>>
      <4>1. CASE arg[w].fd = c
        <5>1. Unloaded(w)
          BY DEF MainInv
        <5>2. arg[w].shm = NoClient \/ C[w] # "none"
          BY <3>2, <5>1 DEF Unloaded, Early
        <5> QED BY <3>2, <4>1, <5>2 DEF AnsweredBy
      <4>2. CASE arg[w].fd # c
        <5>1. replies'[c] = replies[c]
          BY <3>2, <4>2 DEF MainInv, TypeOK, IpcTypeOK
        <5> QED BY <1>3, <1>4, <3>2, <5>1
      <4> QED BY <4>1, <4>2
    <3>3. CASE Crash
      BY <1>4, <3>3 DEF Crash, Exit, Served
    <3> QED BY <2>3, <3>1, <3>2, <3>3, WorksAnswers
  <2>4. CASE Starts \/ CreatesHold \/ Spawns \/ Serves
    BY <2>1, <2>4, MainReturns
  <2>5. CASE \E w \in Clients : Multiplies(w) \/ Stops(w)
    BY <2>1, <2>5 DEF Multiplies, Stops, QuietlyFrom, ipcVars
  <2> QED BY <2>2, <2>3, <2>4, <2>5 DEF Plain
<1> QED BY <1>4 DEF AnswersComeFromWorkers

(* Of a segment that only its own worker acts on.                          *)
LEMMA ProgressOther ==
    ASSUME NEW c \in Clients, Progress(c), wpc[c] = wpc'[c] \/ wpc'[c] \in Early \ {"none"},
           arg'[c] = arg[c], C'[c] = C[c],
           shm'[c] = shm[c] \/ (wpc[c] = "none" /\ shm'[c] = "input"),
           wpc'[c] # wpc[c] => wpc[c] = "none"
    PROVE  Progress(c)'
BY DEF Progress, Fits, Early

LEMMA ProgressWorks ==
    ASSUME PinningWorks, MainInv, NEW c \in Clients, Progress(c), Works(c)
    PROVE  Progress(c)'
<1>0. /\ wpc \in [Clients -> WorkerSteps] /\ shm \in [Clients -> Contents]
      /\ arg \in [Clients -> [size : Slots, fd : Slots, shm : Slots]]
      /\ UNCHANGED C /\ Unloaded(c)
  BY PlainKeeps DEF MainInv, TypeOK, WorkerTypeOK, IpcTypeOK, Plain
<1>1. shm[c] # "none"
  <2>1. wpc[c] # "none"
    BY <1>0 DEF Works, LoadSize, LoadFd, SetAffinity, SetScheduler, OpenSegment,
                WriteBack, Reply, At
  <2>2. c \notin Silent
    BY <2>1 DEF MainInv, LastingInv, SilentHaveNoWorker
  <2> QED BY <2>2 DEF MainInv, SegmentsAreMade, Silent, Unmade
<1>2. CASE LoadSize(c) \/ LoadFd(c)
  BY <1>0, <1>2 DEF LoadSize, LoadFd, At, Advance, ipcVars, Progress, Early
<1>3. CASE SetAffinity(c) \/ SetScheduler(c)
  <2>1. /\ UNCHANGED <<shm, arg>> /\ wpc'[c] \in {wpc[c], "sched", "segment", "done"}
        /\ wpc[c] \in {"affinity", "sched"}
    BY <1>0, <1>3 DEF SetAffinity, SetScheduler, Answer, Crash, Advance, At
  <2>2. arg[c].shm = NoClient
    BY <1>0, <2>1 DEF Unloaded, Early
  <2>3. ~Fits(c)'
    BY <2>1, <2>2, ProcessesAreDistinct DEF Fits
  <2> QED BY <2>1, <2>3 DEF Progress, Early
<1>4. CASE OpenSegment(c)
  <2>1. /\ UNCHANGED shm /\ wpc[c] = "segment" /\ wpc'[c] \in {"multiply", "done"}
    BY <1>0, <1>4 DEF OpenSegment, At, Advance, ipcVars
  <2>2. C'[c] = "none" /\ shm'[c] = "input"
    BY <1>0, <1>1, <2>1 DEF Unloaded, Early, Progress
  <2> QED BY <2>1, <2>2 DEF Progress, Early
<1>5. CASE WriteBack(c)
  <2>1. /\ UNCHANGED arg /\ wpc[c] = "writeBack" /\ wpc'[c] = "reply"
        /\ shm' = [shm EXCEPT ![arg[c].shm] = C[c]]
    BY <1>0, <1>5 DEF WriteBack, At, Advance
  <2>2. Fits(c) => shm'[c] = "product"
    BY <1>0, <2>1 DEF Fits, Progress
  <2> QED BY <2>1, <2>2 DEF Progress, Fits, Early
<1>6. CASE Reply(c)
  <2>1. UNCHANGED <<shm, arg>> /\ wpc[c] = "reply" /\ wpc'[c] \in {"reply", "done"}
    BY <1>0, <1>6 DEF Reply, Answer, Crash, At, Advance
  <2> QED BY <2>1 DEF Progress, Fits, Early
<1> QED BY <1>2, <1>3, <1>4, <1>5, <1>6 DEF Works

LEMMA ProgressMultiplies ==
    ASSUME MainInv, NEW c \in Clients, Alone(c), Progress(c), Multiplies(c)
    PROVE  Progress(c)'
<1>1. /\ wpc[c] = "multiply" /\ wpc'[c] = "writeBack" /\ UNCHANGED <<shm, arg>>
      /\ C'[c] \in StaticOutcomes(c)
  BY DEF Multiplies, QuietlyFrom, At, Advance, ipcVars, MainInv, TypeOK,
         WorkerTypeOK
<1>2. Fits(c) => StaticOutcomes(c) = {"product"}
  BY <1>1 DEF StaticOutcomes, RightSizes, Fits, Alone, Progress
<1> QED BY <1>1, <1>2 DEF Progress, Fits, Early

LEMMA ProgressStep ==
    ASSUME PinningWorks, MainInv, ProgressInv, [StaticNext]_allVars,
           \/ Plain \/ Dies \/ Cancels
           \/ \E c \in Clients : Multiplies(c) \/ Stops(c)
    PROVE  ProgressInv'
<1>0. /\ wpc \in [Clients -> WorkerSteps] /\ shm \in [Clients -> Contents]
      /\ C \in [Clients -> Contents]
      /\ arg \in [Clients -> [size : Slots, fd : Slots, shm : Slots]]
  BY DEF MainInv, TypeOK, WorkerTypeOK, IpcTypeOK
<1>1. CASE Dies \/ Cancels
  <2>1. UNCHANGED <<wpc, arg, C, shm>>
    BY <1>1 DEF Dies, Cancels, CancelListed, workerVars, ipcVars
  <2> QED BY <2>1 DEF ProgressInv, Alone, Progress, Fits
<1>2. CASE Plain \/ \E c \in Clients : Multiplies(c) \/ Stops(c)
  <2> SUFFICES ASSUME NEW c \in Clients, Alone(c)'
               PROVE  Progress(c)'
    BY DEF ProgressInv
  <2>1. Alone(c)
    <3>1. \A d \in Clients : /\ arg[d].fd # NoClient => arg'[d].fd = arg[d].fd
                             /\ arg[d].shm # NoClient => arg'[d].shm = arg[d].shm
      BY <1>2, ArgsStay
    <3> QED BY <3>1, ProcessesAreDistinct DEF Alone
  <2>2. Progress(c)
    BY <2>1 DEF ProgressInv
  <2>3. ASSUME NEW w \in Clients, Works(w)
        PROVE  Progress(c)'
    <3>1. CASE w = c
      BY <2>2, <2>3, <3>1, ProgressWorks
    <3>2. CASE w # c
      <4>1. /\ wpc'[c] = wpc[c] /\ arg'[c] = arg[c] /\ C' = C
            /\ shm' = shm \/ shm' = [shm EXCEPT ![arg[w].shm] = C[w]]
        BY <1>0, <2>3, <3>2
           DEF Works, LoadSize, LoadFd, SetAffinity, SetScheduler, OpenSegment,
               WriteBack, Reply, Answer, Crash, Advance, Load, ipcVars
      <4>2. arg[w].shm # c
        BY <2>1, <3>2 DEF Alone
      <4> QED BY <1>0, <2>2, <4>1, <4>2, ProgressOther
    <3> QED BY <3>1, <3>2
  <2>4. ASSUME NEW w \in Clients, Multiplies(w)
        PROVE  Progress(c)'
    <3>1. CASE w = c
      BY <2>1, <2>2, <2>4, <3>1, ProgressMultiplies
    <3>2. CASE w # c
      <4>1. wpc'[c] = wpc[c] /\ arg' = arg /\ C'[c] = C[c] /\ shm' = shm
        BY <1>0, <2>4, <3>2 DEF Multiplies, QuietlyFrom, Advance, ipcVars
      <4> QED BY <2>2, <4>1, ProgressOther
    <3> QED BY <3>1, <3>2
  <2>5. ASSUME NEW w \in Clients, Stops(w)
        PROVE  Progress(c)'
    <3>1. UNCHANGED <<arg, C, shm>> /\ wpc' = [wpc EXCEPT ![w] = "done"]
      BY <2>5 DEF Stops, QuietlyFrom, Advance, ipcVars
    <3>2. CASE w # c
      BY <1>0, <2>2, <3>1, <3>2, ProgressOther
    <3>3. CASE w = c /\ wpc[c] = "segment"
      <4>1. arg[c].shm = NoClient
        BY <3>3 DEF MainInv, Unloaded, Early
      <4>2. ~Fits(c)' /\ wpc'[c] = "done"
        BY <1>0, <3>1, <3>3, <4>1, ProcessesAreDistinct DEF Fits
      <4> QED BY <4>2 DEF Progress, Early
    <3>4. CASE w = c /\ wpc[c] = "reply"
      BY <1>0, <2>2, <3>1, <3>4 DEF Progress, Fits, Early
    <3> QED BY <2>5, <3>2, <3>3, <3>4 DEF Stops, QuietlyFrom, At
  <2>6. ASSUME NEW p \in Clients, Asks(p)
        PROVE  Progress(c)'
    <3>1. /\ UNCHANGED <<wpc, arg, C>>
          /\ \/ UNCHANGED shm
             \/ cpc[p] = "mkfifo" /\ shm' = [shm EXCEPT ![p] = "input"]
      BY <2>6 DEF Asks, Client, User, ClientStep, OpenRequest, RequestOpened,
                  Write,
                  OpenReply, ReplyOpened, Read, Finish, Setup, Kill, ipcVars,
                  workerVars
    <3>2. cpc[p] = "mkfifo" => wpc[p] = "none"
      BY DEF MainInv, LastingInv, SilentHaveNoWorker, Silent
    <3>3. shm'[c] = shm[c] \/ (wpc[c] = "none" /\ shm'[c] = "input")
      BY <1>0, <3>1, <3>2
    <3> QED BY <2>2, <3>1, <3>3, ProgressOther
  <2>7. CASE Starts \/ CreatesHold \/ Spawns \/ Serves
    <3>1. UNCHANGED shm
      BY <2>7, MainReturns
    <3>2. CASE \E w \in Clients : Works(w)
      BY <2>3, <3>2
    <3>3. CASE ~ \E w \in Clients : Works(w)
      <4>1. Plain
        BY <2>7 DEF Plain
      <4>2. /\ UNCHANGED <<arg, C>>
            /\ \/ UNCHANGED wpc
               \/ mc \in Clients /\ wpc[mc] = "none" /\ wpc' = [wpc EXCEPT ![mc] = "size"]
        BY <3>3, <4>1, OthersKeep DEF MainInv, ServingInv
      <4>3. wpc'[c] = wpc[c] \/ (wpc[c] = "none" /\ wpc'[c] \in Early \ {"none"})
        BY <1>0, <4>2 DEF Early
      <4> QED BY <2>2, <3>1, <4>2, <4>3, ProgressOther
    <3> QED BY <3>2, <3>3
  <2> QED BY <1>2, <2>3, <2>4, <2>5, <2>6, <2>7 DEF Plain
<1> QED BY <1>1, <1>2

(* A worker that finds no reader was not the first to answer, unless its   *)
(* client left without an answer.                                          *)
LEMMA NoReaderHasCause ==
    ASSUME MainInv, AnswersComeFromWorkers, Server \in alive,
           NEW w \in Clients, wpc[w] \in {"sched", "reply"},
           ~HasReader(arg[w].fd), <<Server, arg[w].fd>> \in writers
    PROVE  TwoAnswer \/ \E c \in Clients : GaveUp(c)
<1>1. PICK f : f = arg[w].fd
  OBVIOUS
<1>2. f \in Clients \ Silent /\ Holds(f) /\ Served(f)
  BY <1>1 DEF MainInv, LastingInv, LoadedAreHeld, Held, Holds, Served
<1>3. <<f, f>> \notin readers
  BY <1>1, <1>2 DEF HasReader, Processes
<1>4. cpc[f] \in Parted
  BY <1>2, <1>3 DEF MainInv, LastingInv, AwakeMeetsReader
<1>5. GaveUp(f) \/ cpc[f] \in Answered
  BY <1>4 DEF Parted, GaveUp, Answered
<1>6. ASSUME cpc[f] \in Answered
      PROVE  TwoAnswer
  <2>1. PICK d \in Clients : AnsweredBy(d, f)
    BY <1>2, <1>6 DEF AnswersComeFromWorkers
  <2>2. d # w /\ arg[d].fd = arg[w].fd /\ arg[d].fd # NoClient
    BY <1>1, <1>2, <2>1, ProcessesAreDistinct DEF AnsweredBy
  <2> QED BY <2>1, <2>2 DEF TwoAnswer
<1> QED BY <1>2, <1>5, <1>6

LEMMA CrashStep ==
    ASSUME PinningWorks, MainInv, AnswersComeFromWorkers,
           CrashNeedsTwoAnswersOrDeath, [StaticNext]_allVars,
           \/ Plain \/ Dies \/ Cancels
           \/ \E c \in Clients : Multiplies(c) \/ Stops(c)
    PROVE  CrashNeedsTwoAnswersOrDeath'
<1>1. CASE Server \notin alive
  <2>1. UNCHANGED <<arg, C, spc, head>>
    BY <1>1, DeadStays DEF workerVars, serverVars, listVars
  <2>2. ASSUME NEW c \in Clients, GaveUp(c)
        PROVE  GaveUp(c)'
    <3> USE DEF GaveUp
    <3>1. CASE \E p \in Clients : Asks(p)
      BY <2>2, <3>1, TypeShape
         DEF MainInv, Shape, Asks, Client, User, ClientStep, OpenRequest, RequestOpened, Write,
             OpenReply, ReplyOpened, Read, Finish, Setup, Kill, Goto
    <3>2. CASE UNCHANGED cpc
      BY <2>2, <3>2
    <3>3. CASE \E p \in Clients : Works(p) \/ Multiplies(p) \/ Stops(p)
      BY <3>2, <3>3 DEF Works, Multiplies, Stops, QuietlyFrom
    <3>4. CASE Dies \/ Cancels
      BY <3>2, <3>4 DEF Dies, Cancels
    <3> QED BY <3>1, <3>2, <3>3, <3>4, MainReturns DEF Plain
  <2>3. \A c \in Clients : LoadedNegative(c) <=> LoadedNegative(c)'
    BY <2>1 DEF LoadedNegative
  <2> QED BY <1>1, <2>1, <2>2, <2>3
          DEF CrashNeedsTwoAnswersOrDeath, Crashed, TwoAnswer
<1>2. CASE Server \in alive /\ Server \in alive'
  BY <1>2 DEF CrashNeedsTwoAnswersOrDeath, Crashed
<1>3. CASE Server \in alive /\ Server \notin alive'
  <2>1. ASSUME NEW p \in Clients, Asks(p)
        PROVE  FALSE
    BY <1>3, <2>1, ProcessesAreDistinct
       DEF Asks, Client, User, ClientStep, Setup, OpenRequest, RequestOpened, Write,
           OpenReply, ReplyOpened, Read, Finish, Kill, Exit, ipcVars
  <2>2. ASSUME NEW w \in Clients, Works(w)
        PROVE  CrashNeedsTwoAnswersOrDeath'
    <3>1. /\ wpc[w] \in {"sched", "reply"} /\ ~HasReader(arg[w].fd)
          /\ <<Server, arg[w].fd>> \in writers /\ UNCHANGED <<arg, cpc>>
      BY <1>3, <2>2, WorksAnswers
    <3>2. TwoAnswer \/ \E c \in Clients : GaveUp(c)
      BY <1>3, <3>1, NoReaderHasCause
    <3> QED BY <3>1, <3>2 DEF CrashNeedsTwoAnswersOrDeath, TwoAnswer, GaveUp
  <2>3. CASE Starts \/ CreatesHold \/ Spawns \/ Serves
    BY <1>3, <2>3, MainReturns DEF CrashNeedsTwoAnswersOrDeath, Crashed
  <2>4. CASE Cancels \/ \E c \in Clients : Multiplies(c) \/ Stops(c)
    BY <1>3, <2>4 DEF Cancels, CancelListed, Multiplies, Stops, QuietlyFrom,
                      ipcVars
  <2>5. CASE Dies
    <3>1. CASE spc = "inOpenRequest" /\ head = NoList
      <4>1. spc' = "inOpenRequest" /\ head' = NoList
        BY <2>5, <3>1 DEF Dies, serverVars, listVars
      <4> QED BY <4>1 DEF CrashNeedsTwoAnswersOrDeath
    <3>2. CASE \E c \in Clients : wpc[c] = "multiply" /\ Size[arg[c].size] < 0
      <4>1. PICK c \in Clients : wpc[c] = "multiply" /\ Size[arg[c].size] < 0
        BY <3>2
      <4>2. arg[c].size # NoClient
        BY <4>1, ProcessesAreDistinct DEF MainInv, LastingInv, LoadedAreHeld
      <4>3. LoadedNegative(c)'
        BY <2>5, <4>1, <4>2 DEF LoadedNegative, Dies, workerVars
      <4> QED BY <4>3 DEF CrashNeedsTwoAnswersOrDeath
    <3> QED BY <2>5, <3>1, <3>2 DEF Dies
  <2> QED BY <2>1, <2>2, <2>3, <2>4, <2>5 DEF Plain
<1> QED BY <1>1, <1>2, <1>3

LEMMA CauseStep ==
    ASSUME PinningWorks, StaticInv, CauseInv, [StaticNext]_allVars
    PROVE  CauseInv'
<1> SUFFICES ASSUME NoNull'
             PROVE  /\ AnswersComeFromWorkers' /\ ProgressInv'
                    /\ CrashNeedsTwoAnswersOrDeath'
  BY DEF CauseInv
<1>1. NoNull /\ ~ \E c \in Clients : DiesOfNull(c)
  BY NullStep DEF StaticInv
<1>2. /\ MainInv /\ AnswersComeFromWorkers /\ ProgressInv
      /\ CrashNeedsTwoAnswersOrDeath
  BY <1>1 DEF StaticInv, CauseInv
<1>3. \/ Plain \/ Dies \/ Cancels
      \/ \E c \in Clients : Multiplies(c) \/ Stops(c)
  BY <1>1, Kinds
<1>4. ProgressInv' /\ CrashNeedsTwoAnswersOrDeath'
  BY <1>2, <1>3, ProgressStep, CrashStep
<1>5. AnswersComeFromWorkers'
  <2>1. CASE Server \notin alive'
    BY <2>1 DEF AnswersComeFromWorkers, Served
  <2>2. CASE Cancels
    <3>1. UNCHANGED <<alive, replies, cpc, wpc, arg, C>> /\ spc = "cancel"
      BY <2>2 DEF Cancels, CancelListed, Before, ipcVars
    <3>2. \A c \in Clients : Served(c)' => Served(c)
      BY <3>1 DEF Served, ClosedAtShutdown
    <3> QED BY <1>2, <3>1, <3>2 DEF AnswersComeFromWorkers, AnsweredBy
  <2>3. CASE Dies
    BY <2>1, <2>3 DEF Dies, Exit
  <2>4. CASE Server \in alive' /\ (Plain \/ \E c \in Clients : Multiplies(c) \/ Stops(c))
    BY <1>2, <2>4, AnswersStep
  <2> QED BY <1>3, <2>1, <2>2, <2>3, <2>4
<1> QED BY <1>4, <1>5

LEMMA CauseBegins ==
    ASSUME StaticInit
    PROVE  CauseInv
<1>1. /\ \A c \in Clients : /\ cpc[c] = "mkfifo" /\ wpc[c] = "none"
                            /\ replies[c] = 0 /\ shm[c] = "none"
      /\ Server \in alive
  BY DEF StaticInit, Init, IpcInit, ClientInit, WorkerInit, ServerInit
<1>2. AnswersComeFromWorkers
  BY <1>1 DEF AnswersComeFromWorkers, Answered
<1>3. ProgressInv
  BY <1>1 DEF ProgressInv, Progress
<1> QED BY <1>1, <1>2, <1>3 DEF CauseInv, CrashNeedsTwoAnswersOrDeath, Crashed

LEMMA CauseCorrect ==
    ASSUME PinningWorks
    PROVE  StaticSpec => [](StaticInv /\ CauseInv)
<1>1. StaticInit => StaticInv /\ CauseInv
  BY StaticBegins, CauseBegins
<1>2. StaticInv /\ CauseInv /\ [StaticNext]_allVars => StaticInv' /\ CauseInv'
  BY StaticStep, CauseStep
<1> QED BY <1>1, <1>2, PTL DEF StaticSpec

(* No positive size crashes the server of static_alloc: it dies only after *)
(* two workers loaded the same descriptor, after a client was killed or    *)
(* its read failed, of a negative size, which client_fifo.c lets through,  *)
(* or of one of the two untested results of malloc (C in dense_mm.c, the   *)
(* List in make_list, list.c), provided that pinning works where -c asks   *)
(* for it.                                                                 *)
THEOREM StaticCrashesHaveACause ==
    ASSUME PinningWorks
    PROVE  StaticSpec => []CrashNeedsTwoAnswersOrDeath
<1>1. StaticInv /\ CauseInv => CrashNeedsTwoAnswersOrDeath
  BY DEF CauseInv, NoNull, CrashNeedsTwoAnswersOrDeath
<1> QED BY <1>1, CauseCorrect, PTL

(* If a client of static_alloc prints a wrong matrix, the server is gone,  *)
(* or has closed this client's FIFO to shut down; or else the client lost  *)
(* its segment or its descriptor to another worker, or its own worker took *)
(* another segment or a smaller size.  A larger size adds only zeros to    *)
(* the sums (dense_mm.c, the loops over rows of fixed length).             *)
THEOREM WrongReportsHaveACause ==
    ASSUME PinningWorks
    PROVE  StaticSpec => []WrongReportHasCause
<1>1. ASSUME StaticInv, CauseInv
      PROVE  WrongReportHasCause
  <2> SUFFICES ASSUME NEW c \in Clients, cpc[c] = "report", Server \in alive,
                      ~ClosedAtShutdown(c),
                      \A d \in Clients \ {c} : c \notin {arg[d].fd, arg[d].shm},
                      arg[c].shm = c, ~(Size[arg[c].size] < Size[c])
               PROVE  shm[c] = "product"
    BY DEF WrongReportHasCause
  <2>1. MainInv /\ AnswersComeFromWorkers /\ ProgressInv
    BY <1>1 DEF StaticInv, CauseInv, NullIsDeath
  <2>2. PICK d \in Clients : AnsweredBy(d, c)
    BY <2>1 DEF AnswersComeFromWorkers, Answered, Served
  <2>3. wpc[c] = "done" /\ C[c] # "none"
    BY <2>2, ProcessesAreDistinct DEF AnsweredBy
  <2>4. Size[arg[c].size] >= Size[c]
    <3>1. arg[c].size \in Clients
      BY <2>1, <2>3 DEF MainInv, LastingInv, LoadedAreHeld
    <3> QED BY <3>1, SizesAreNumbers
  <2>5. Alone(c) /\ Fits(c)
    BY <2>4 DEF Alone, Fits
  <2> QED BY <2>1, <2>3, <2>5 DEF ProgressInv, Progress
<1> QED BY <1>1, CauseCorrect, PTL

(* As in fifo_threaded, a client of static_alloc takes end-of-file for its *)
(* answer only if the server is gone or, about to exit, has closed this    *)
(* client's FIFO (client_fifo.c, the read of its FIFO; server_fifo.c, the  *)
(* closes at the end), also after any allocation that failed.  Here a      *)
(* worker may still be at the client's product then, as one whose thread   *)
(* is in no node is not cancelled.                                         *)
THEOREM StaticEofOnlyAtShutdown == StaticSpec => EofMeansShutdown
<1>1. ASSUME StaticInv, [StaticNext]_allVars, NEW c \in Clients,
             cpc[c] = "read", replies[c] = 0, cpc'[c] = "report", ~Left(c)
      PROVE  FALSE
  <2>0. MainInv
    BY <1>1 DEF StaticInv, NullIsDeath, Left
  <2>1. DOMAIN cpc = Clients
    BY <2>0 DEF MainInv, TypeOK, ClientTypeOK
  <2>2. PICK d \in Clients : Client(d) \/ Setup(d) \/ Kill(d)
    <3>1. cpc' # cpc
      BY <1>1
    <3>2. \E d \in Clients : AskAndWait(d) \/ StaticUser(d)
      BY <1>1, <3>1 DEF StaticNext, StaticMain, StaticWorker, StaticHold,
                        StaticInterrupt, Hold, Interrupt, allVars, vars
    <3> QED BY <3>2 DEF AskAndWait, StaticUser, StaticSetup
  <2>3. d = c
    BY <1>1, <2>1, <2>2 DEF Client, ClientStep, OpenRequest, RequestOpened,
                            Write,
       OpenReply, ReplyOpened, Read, Finish, Setup, Kill, Goto
  <2>4. Read(c)
    BY <1>1, <2>1, <2>2, <2>3 DEF Client, ClientStep, OpenRequest,
                                  RequestOpened, Write,
       OpenReply, ReplyOpened, Finish, Setup, Kill, Goto
  <2>5. <<Server, c>> \notin writers
    <3>1. ~HasWriter(c)
      BY <1>1, <2>1, <2>4 DEF Read, Goto
    <3> QED BY <3>1 DEF HasWriter, Processes
  <2> QED BY <1>1, <2>0, <2>5
          DEF MainInv, LastingInv, ClientsAreJoined, Joined, Holds
<1>2. StaticInv /\ [StaticNext]_allVars
        => [\A c \in Clients : cpc[c] = "read" /\ replies[c] = 0
                                    /\ cpc'[c] = "report"
                                => Left(c)]_vars
  BY <1>1
<1> QED BY <1>2, StaticCorrect, PTL DEF StaticSpec, EofMeansShutdown, Left
=============================================================================
