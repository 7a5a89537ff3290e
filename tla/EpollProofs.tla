---------------------------- MODULE EpollProofs ----------------------------
(***************************************************************************)
(* The safety properties of EpollServer, for any finite number of clients, *)
(* any length of the batch and of the backlog, and both servers.           *)
(***************************************************************************)
EXTENDS EpollServer, SequenceTheorems, FiniteSetTheorems,
        WellFoundedInduction, TLAPS

-----------------------------------------------------------------------------
(* Sequences in which nothing occurs twice, as the kernel's lists are.     *)
Once(s) == \A i, j \in DOMAIN s : s[i] = s[j] => i = j

(* SubSeqProperties, with the positions that are needed.                   *)
LEMMA Rear ==
    ASSUME NEW T, NEW s \in Seq(T), NEW n \in 0 .. Len(s)
    PROVE  /\ SubSeq(s, n + 1, Len(s)) \in Seq(T)
           /\ Len(SubSeq(s, n + 1, Len(s))) = Len(s) - n
           /\ \A j \in 1 .. Len(s) - n :
                 j + n \in 1 .. Len(s) /\ SubSeq(s, n + 1, Len(s))[j] = s[j + n]
<1> DEFINE rear == SubSeq(s, n + 1, Len(s))
<1>0. Len(s) \in Nat /\ \A i \in n + 1 .. Len(s) : s[i] \in T
  BY LenProperties
<1>1. /\ rear \in Seq(T)
      /\ Len(rear) = IF n + 1 <= Len(s) THEN Len(s) - (n + 1) + 1 ELSE 0
      /\ \A j \in 1 .. Len(s) - (n + 1) + 1 : rear[j] = s[n + 1 + j - 1]
  BY <1>0, SubSeqProperties
<1> HIDE DEF rear
<1>2. ASSUME NEW j \in 1 .. Len(s) - n
      PROVE  j + n \in 1 .. Len(s) /\ rear[j] = s[j + n]
  <2>1. j \in 1 .. Len(s) - (n + 1) + 1 /\ n + 1 + j - 1 = j + n
    BY <1>0
  <2>2. rear[j] = s[n + 1 + j - 1]
    BY <1>1, <2>1
  <2> QED BY <1>0, <2>1, <2>2
<1> QED BY <1>0, <1>1, <1>2 DEF rear

LEMMA TakenOut ==
    ASSUME NEW T, NEW s \in Seq(T), Once(s), NEW x
    PROVE  /\ Without(s, x) \in Seq(T)
           /\ Once(Without(s, x))
           /\ \A y : InSeq(y, Without(s, x)) <=> InSeq(y, s) /\ y # x
<1>0. Len(s) \in Nat /\ DOMAIN s = 1 .. Len(s)
  BY LenProperties
<1>1. CASE ~InSeq(x, s)
  BY <1>1 DEF Without, InSeq
<1>2. CASE InSeq(x, s)
  <2> DEFINE i == CHOOSE j \in DOMAIN s : s[j] = x
             front == SubSeq(s, 1, i - 1)
             rear == SubSeq(s, i + 1, Len(s))
             t == front \o rear
  <2>1. i \in 1 .. Len(s) /\ s[i] = x
    BY <1>0, <1>2 DEF InSeq
  <2> HIDE DEF i
  <2>2. /\ front \in Seq(T) /\ Len(front) = i - 1
        /\ \A j \in 1 .. i - 1 : front[j] = s[j]
    <3>1. \A j \in 1 .. i - 1 : s[j] \in T
      BY <1>0, <2>1, LenProperties
    <3> QED BY <1>0, <2>1, <3>1, SubSeqProperties
  <2>3. /\ rear \in Seq(T) /\ Len(rear) = Len(s) - i
        /\ \A j \in 1 .. Len(s) - i : rear[j] = s[j + i]
    <3>1. i \in 0 .. Len(s)
      BY <1>0, <2>1
    <3> QED BY <3>1, Rear
  <2>4. /\ t \in Seq(T) /\ Len(t) = Len(s) - 1
        /\ \A j \in 1 .. Len(s) - 1 : t[j] = IF j < i THEN s[j] ELSE s[j + 1]
    <3>1. /\ t \in Seq(T) /\ Len(t) = Len(front) + Len(rear)
          /\ \A j \in 1 .. Len(front) + Len(rear) :
                t[j] = IF j <= Len(front) THEN front[j] ELSE rear[j - Len(front)]
      BY <2>2, <2>3, ConcatProperties
    <3> HIDE DEF t, front, rear
    <3>2. ASSUME NEW j \in 1 .. Len(s) - 1
          PROVE  t[j] = IF j < i THEN s[j] ELSE s[j + 1]
      <4>0. j \in 1 .. Len(front) + Len(rear)
        BY <1>0, <2>1, <2>2, <2>3
      <4>1. CASE j < i
        <5>1. j <= Len(front) /\ j \in 1 .. i - 1
          BY <1>0, <2>1, <2>2, <4>1
        <5> QED BY <2>2, <3>1, <4>0, <4>1, <5>1
      <4>2. CASE ~(j < i)
        <5>1. /\ ~(j <= Len(front)) /\ j - Len(front) \in 1 .. Len(s) - i
              /\ j - Len(front) + i = j + 1
          BY <1>0, <2>1, <2>2, <4>2
        <5>2. rear[j - Len(front)] = s[j - Len(front) + i]
          BY <2>3, <5>1
        <5> QED BY <3>1, <4>0, <4>2, <5>1, <5>2
      <4> QED BY <4>1, <4>2
    <3> QED BY <1>0, <2>1, <2>2, <2>3, <3>1, <3>2
  <2>5. Without(s, x) = t
    BY <1>2 DEF Without, i
  <2> HIDE DEF t
  <2>6. DOMAIN t = 1 .. Len(s) - 1
    BY <2>4, LenProperties
  <2> DEFINE from(j) == IF j < i THEN j ELSE j + 1
  <2>7. \A j \in DOMAIN t : /\ from(j) \in DOMAIN s /\ from(j) # i
                            /\ t[j] = s[from(j)]
    BY <1>0, <2>1, <2>4, <2>6
  <2>8. \A j, k \in DOMAIN t : from(j) = from(k) => j = k
    BY <1>0, <2>1, <2>6
  <2>9. Once(t)
    BY <2>7, <2>8 DEF Once
  <2>10. \A y : InSeq(y, t) => InSeq(y, s) /\ y # x
    BY <1>0, <2>1, <2>7 DEF Once, InSeq
  <2>11. ASSUME NEW y, InSeq(y, s), y # x PROVE InSeq(y, t)
    <3>1. PICK k \in 1 .. Len(s) : s[k] = y
      BY <1>0, <2>11 DEF InSeq
    <3>2. CASE k < i
      BY <1>0, <2>1, <2>4, <2>6, <3>1, <3>2 DEF InSeq
    <3>3. CASE k > i
      <4>1. k - 1 \in 1 .. Len(s) - 1 /\ t[k - 1] = s[k]
        BY <1>0, <2>1, <2>4, <3>1, <3>3
      <4> QED BY <2>6, <3>1, <4>1 DEF InSeq
    <3> QED BY <1>0, <2>1, <2>11, <3>1, <3>2, <3>3
  <2> QED BY <2>4, <2>5, <2>9, <2>10, <2>11
<1> QED BY <1>1, <1>2

(* A batch is taken from the front.                                        *)
LEMMA Divided ==
    ASSUME NEW T, NEW s \in Seq(T), Once(s), NEW n \in 0 .. Len(s)
    PROVE  /\ SubSeq(s, 1, n) \in Seq(T) /\ SubSeq(s, n + 1, Len(s)) \in Seq(T)
           /\ Once(SubSeq(s, 1, n)) /\ Once(SubSeq(s, n + 1, Len(s)))
           /\ Len(SubSeq(s, 1, n)) = n
           /\ \A y : InSeq(y, SubSeq(s, 1, n)) \/ InSeq(y, SubSeq(s, n + 1, Len(s)))
                        => InSeq(y, s)
           /\ \A y : ~(InSeq(y, SubSeq(s, 1, n)) /\ InSeq(y, SubSeq(s, n + 1, Len(s))))
<1> DEFINE front == SubSeq(s, 1, n)
           rear == SubSeq(s, n + 1, Len(s))
<1>0. /\ Len(s) \in Nat /\ DOMAIN s = 1 .. Len(s)
      /\ \A i \in 1 .. Len(s) : s[i] \in T
  BY LenProperties
<1>1. /\ front \in Seq(T) /\ Len(front) = n
      /\ \A j \in 1 .. n : front[j] = s[j]
  BY <1>0, SubSeqProperties
<1>2. /\ rear \in Seq(T) /\ Len(rear) = Len(s) - n
      /\ \A j \in 1 .. Len(s) - n : j + n \in 1 .. Len(s) /\ rear[j] = s[j + n]
  BY Rear
<1> HIDE DEF front, rear
<1>3. DOMAIN front = 1 .. n /\ DOMAIN rear = 1 .. Len(s) - n
  BY <1>1, <1>2, LenProperties
<1>4. \A j \in DOMAIN rear : /\ j + n \in DOMAIN s /\ j + n > n
                             /\ rear[j] = s[j + n]
  BY <1>0, <1>2, <1>3
<1>5. \A j \in DOMAIN front : j \in DOMAIN s /\ j <= n /\ front[j] = s[j]
  BY <1>0, <1>1, <1>3
<1>6. \A j, k \in DOMAIN rear : j + n = k + n => j = k
  BY <1>0, <1>3
<1>7. Once(front) /\ Once(rear)
  BY <1>4, <1>5, <1>6 DEF Once
<1>8. \A y : InSeq(y, front) \/ InSeq(y, rear) => InSeq(y, s)
  BY <1>4, <1>5 DEF InSeq
<1>9. ASSUME NEW y, InSeq(y, front), InSeq(y, rear) PROVE FALSE
  <2>1. PICK j \in DOMAIN front : front[j] = y
    BY <1>9 DEF InSeq
  <2>2. PICK k \in DOMAIN rear : rear[k] = y
    BY <1>9 DEF InSeq
  <2>3. j = k + n
    BY <1>4, <1>5, <2>1, <2>2 DEF Once
  <2> QED BY <1>0, <1>3, <1>4, <1>5, <2>1, <2>2, <2>3
<1> QED BY <1>1, <1>2, <1>7, <1>8, <1>9 DEF front, rear

LEMMA Joined ==
    ASSUME NEW T, NEW s \in Seq(T), NEW t \in Seq(T), Once(s), Once(t),
           \A y : ~(InSeq(y, s) /\ InSeq(y, t))
    PROVE  /\ s \o t \in Seq(T) /\ Once(s \o t)
           /\ \A y : InSeq(y, s \o t) <=> InSeq(y, s) \/ InSeq(y, t)
<1> DEFINE u == s \o t
<1>0. /\ Len(s) \in Nat /\ Len(t) \in Nat
      /\ DOMAIN s = 1 .. Len(s) /\ DOMAIN t = 1 .. Len(t)
  BY LenProperties
<1>1. /\ u \in Seq(T) /\ Len(u) = Len(s) + Len(t)
      /\ \A i \in 1 .. Len(s) + Len(t) :
            u[i] = IF i <= Len(s) THEN s[i] ELSE t[i - Len(s)]
  BY ConcatProperties
<1> HIDE DEF u
<1>2. DOMAIN u = 1 .. Len(s) + Len(t)
  BY <1>1, LenProperties
<1>3. \A i \in DOMAIN u : \/ i \in DOMAIN s /\ u[i] = s[i]
                          \/ i - Len(s) \in DOMAIN t /\ u[i] = t[i - Len(s)]
  BY <1>0, <1>1, <1>2
<1>4. Once(u)
  <2> SUFFICES ASSUME NEW i \in DOMAIN u, NEW j \in DOMAIN u, u[i] = u[j]
               PROVE  i = j
    BY DEF Once
  <2>1. CASE i <= Len(s) /\ j <= Len(s)
    BY <1>0, <1>1, <1>2, <2>1 DEF Once
  <2>2. CASE ~(i <= Len(s)) /\ ~(j <= Len(s))
    <3>1. /\ i - Len(s) \in DOMAIN t /\ u[i] = t[i - Len(s)]
          /\ j - Len(s) \in DOMAIN t /\ u[j] = t[j - Len(s)]
      BY <1>0, <1>1, <1>2, <2>2
    <3>2. i - Len(s) = j - Len(s)
      BY <3>1 DEF Once
    <3> QED BY <1>0, <1>2, <3>2
  <2>3. CASE i <= Len(s) /\ ~(j <= Len(s))
    <3>1. /\ i \in DOMAIN s /\ u[i] = s[i]
          /\ j - Len(s) \in DOMAIN t /\ u[j] = t[j - Len(s)]
      BY <1>0, <1>1, <1>2, <2>3
    <3> QED BY <3>1 DEF InSeq
  <2>4. CASE ~(i <= Len(s)) /\ j <= Len(s)
    <3>1. /\ j \in DOMAIN s /\ u[j] = s[j]
          /\ i - Len(s) \in DOMAIN t /\ u[i] = t[i - Len(s)]
      BY <1>0, <1>1, <1>2, <2>4
    <3> QED BY <3>1 DEF InSeq
  <2> QED BY <2>1, <2>2, <2>3, <2>4
<1>5. \A y : InSeq(y, u) => InSeq(y, s) \/ InSeq(y, t)
  BY <1>3 DEF InSeq
<1>6. \A y : InSeq(y, s) => InSeq(y, u)
  BY <1>0, <1>1, <1>2 DEF InSeq
<1>7. ASSUME NEW y, InSeq(y, t) PROVE InSeq(y, u)
  <2>1. PICK k \in 1 .. Len(t) : t[k] = y
    BY <1>0, <1>7 DEF InSeq
  <2>2. Len(s) + k \in DOMAIN u /\ u[Len(s) + k] = t[k]
    BY <1>0, <1>1, <1>2
  <2> QED BY <2>1, <2>2 DEF InSeq
<1> QED BY <1>1, <1>4, <1>5, <1>6, <1>7 DEF u

LEMMA Added ==
    ASSUME NEW T, NEW s \in Seq(T), NEW x \in T, Once(s), ~InSeq(x, s)
    PROVE  /\ Append(s, x) \in Seq(T) /\ Once(Append(s, x))
           /\ \A y : InSeq(y, Append(s, x)) <=> InSeq(y, s) \/ y = x
           /\ Len(Append(s, x)) = Len(s) + 1
<1> DEFINE u == Append(s, x)
<1>0. Len(s) \in Nat /\ DOMAIN s = 1 .. Len(s)
  BY LenProperties
<1>1. /\ u \in Seq(T) /\ Len(u) = Len(s) + 1
      /\ \A i \in 1 .. Len(s) : u[i] = s[i]
      /\ u[Len(s) + 1] = x
  BY AppendProperties
<1> HIDE DEF u
<1>2. DOMAIN u = 1 .. Len(s) + 1
  BY <1>1, LenProperties
<1>3. Once(u)
  BY <1>0, <1>1, <1>2 DEF Once, InSeq
<1>4. \A y : InSeq(y, u) <=> InSeq(y, s) \/ y = x
  <2>1. \A i \in DOMAIN u : i \in DOMAIN s \/ i = Len(s) + 1
    BY <1>0, <1>2
  <2>2. DOMAIN s \subseteq DOMAIN u /\ Len(s) + 1 \in DOMAIN u
    BY <1>0, <1>2
  <2> QED BY <1>0, <1>1, <2>1, <2>2 DEF InSeq
<1> QED BY <1>1, <1>3, <1>4 DEF u

LEMMA Dropped ==
    ASSUME NEW T, NEW s \in Seq(T), s # <<>>
    PROVE  /\ Tail(s) \in Seq(T) /\ Head(s) \in T /\ Len(Tail(s)) = Len(s) - 1
           /\ InSeq(Head(s), s)
           /\ \A y : InSeq(y, Tail(s)) => InSeq(y, s)
           /\ Once(s) => Once(Tail(s)) /\ ~InSeq(Head(s), Tail(s))
<1> DEFINE u == Tail(s)
<1>0. Len(s) \in Nat \ {0} /\ DOMAIN s = 1 .. Len(s)
  BY LenProperties, EmptySeq
<1>1. /\ u \in Seq(T) /\ Len(u) = Len(s) - 1 /\ Head(s) \in T
      /\ \A i \in 1 .. Len(u) : u[i] = s[i + 1]
  BY HeadTailProperties
<1>2. Head(s) = s[1]
  OBVIOUS
<1> HIDE DEF u
<1>3. DOMAIN u = 1 .. Len(s) - 1
  BY <1>1, LenProperties
<1>4. \A i \in DOMAIN u : i + 1 \in DOMAIN s /\ i + 1 # 1 /\ u[i] = s[i + 1]
  BY <1>0, <1>1, <1>3
<1>5. \A y : InSeq(y, u) => InSeq(y, s)
  BY <1>4 DEF InSeq
<1>6. 1 \in DOMAIN s
  BY <1>0
<1>7. Once(s) => Once(u) /\ ~InSeq(Head(s), u)
  <2> SUFFICES ASSUME Once(s) PROVE Once(u) /\ ~InSeq(Head(s), u)
    OBVIOUS
  <2>1. Once(u)
    BY <1>0, <1>1, <1>3, <1>4 DEF Once
  <2>2. ~InSeq(Head(s), u)
    BY <1>2, <1>4, <1>6 DEF Once, InSeq
  <2> QED BY <2>1, <2>2
<1> QED BY <1>1, <1>2, <1>5, <1>6, <1>7 DEF u, InSeq

-----------------------------------------------------------------------------
(* Why accept never meets an empty backlog: one edge stands for at least   *)
(* one connection, and the edge that was taken and the one that came after *)
(* it for two.                                                             *)
EdgeTaken == spc = "accept" \/ (spc = "loop" /\ InSeq(Sfd, events))
EdgesAreConnections ==
    /\ EdgeTaken \/ InSeq(Sfd, ready) => Len(backlog) >= 1
    /\ EdgeTaken /\ InSeq(Sfd, ready) => Len(backlog) >= 2

(* Why there is a descriptor for every connection: each client is in one   *)
(* place.                                                                  *)
EachInOnePlace ==
    /\ Once(backlog)
    /\ \A d, e \in Descriptors : conn[d] = conn[e] /\ conn[d] # "free" => d = e
    /\ \A c \in Clients : InSeq(c, backlog) => ~Accepted(c)
    /\ \A c \in Clients : cpc[c] = "connect" => ~InSeq(c, backlog) /\ ~Accepted(c)

(* Why no live client is cut: what is reported of a descriptor is a        *)
(* hang-up, and stays true until the descriptor is closed, which takes all *)
(* reports of it away.                                                     *)
ReportsAreHangUps ==
    \A d \in Descriptors : InSeq(d, events) \/ InSeq(d, ready) => HungUp(d)
CfdIsAccepted == spc \in {"add", "send", "scan"}
                    => cfd \in Descriptors /\ conn[cfd] # "free"

EpollInv == /\ TypeOK /\ Once(ready) /\ EdgesAreConnections
            /\ EachInOnePlace /\ ReportsAreHangUps /\ CfdIsAccepted

LEMMA SourcesAreNumbers ==
    /\ Cardinality(Clients) \in Nat /\ Descriptors \subseteq Nat
    /\ Stdin \notin Descriptors /\ Sfd \notin Descriptors /\ Stdin # Sfd
    /\ Stdin \in Sources /\ Sfd \in Sources /\ Descriptors \subseteq Sources
<1>1. Cardinality(Clients) \in Nat
  BY EpollAssumption, FS_CardinalityType
<1> QED BY <1>1 DEF Descriptors, Sources, Stdin, Sfd

LEMMA Woken ==
    ASSUME ready \in Seq(Sources), Once(ready), NEW x \in Sources, Wake(x)
    PROVE  /\ ready' \in Seq(Sources) /\ Once(ready')
           /\ \A y : InSeq(y, ready') <=> InSeq(y, ready) \/ y = x
<1>1. CASE InSeq(x, ready)
  BY <1>1 DEF Wake
<1>2. CASE ~InSeq(x, ready)
  BY <1>2, Added DEF Wake
<1> QED BY <1>1, <1>2

(* The lowest free descriptor exists whenever a connection waits.          *)
LEMMA FreeDescriptor ==
    ASSUME EpollInv, backlog # <<>>
    PROVE  /\ Min(Descriptors \ Open) \in Descriptors
           /\ conn[Min(Descriptors \ Open)] = "free"
<1> DEFINE Free == {d \in Descriptors : conn[d] = "free"}
           Others == Clients \ {Head(backlog)}
<1>0. Cardinality(Clients) \in Nat /\ Descriptors \subseteq Nat
  BY SourcesAreNumbers
<1>1. Head(backlog) \in Clients /\ InSeq(Head(backlog), backlog)
  BY Dropped DEF EpollInv, TypeOK
<1>2. Free # {}
  <2> SUFFICES ASSUME Free = {} PROVE FALSE
    OBVIOUS
  <2>1. conn \in [Descriptors -> Others]
    BY <1>1 DEF EpollInv, TypeOK, EachInOnePlace, Accepted
  <2>2. IsFiniteSet(Others) /\ Cardinality(Others) = Cardinality(Clients) - 1
    BY <1>1, EpollAssumption, FS_RemoveElement
  <2>3. IsFiniteSet(Descriptors) /\ Cardinality(Descriptors) = Cardinality(Clients)
    <3>1. 5 \in Int /\ 4 + Cardinality(Clients) \in Int
      BY <1>0
    <3>2. ASSUME NEW n \in Int
          PROVE  /\ IsFiniteSet(5 .. n)
                 /\ Cardinality(5 .. n) = IF 5 > n THEN 0 ELSE n - 5 + 1
      BY <3>1, FS_Interval
    <3> QED BY <1>0, <3>1, <3>2 DEF Descriptors
  <2>4. PICK d, e \in Descriptors : d # e /\ conn[d] = conn[e]
    <3>1. Cardinality(Others) < Cardinality(Descriptors)
      BY <1>0, <2>2, <2>3
    <3> HIDE DEF Others
    <3> QED BY <2>1, <2>2, <2>3, <3>1, FS_PigeonHole
  <2> QED BY <2>4 DEF EpollInv, EachInOnePlace
<1>3. Free \subseteq Nat
  BY <1>0
<1> HIDE DEF Free
<1>4. PICK d \in Free : \A e \in Free : <<e, d>> \notin OpToRel(<, Nat)
  BY <1>2, <1>3, WFMin, NatLessThanWellFounded
<1>5. \A e \in Free : d <= e
  <2> SUFFICES ASSUME NEW e \in Free PROVE d <= e
    OBVIOUS
  <2>1. <<e, d>> \notin OpToRel(<, Nat)
    BY <1>4
  <2>2. e \in Nat /\ d \in Nat
    BY <1>3
  <2>3. ~(e < d)
    BY <2>1, <2>2 DEF OpToRel
  <2> QED BY <2>2, <2>3
<1>6. Min(Free) \in Free
  BY <1>5 DEF Min
<1>7. Free = Descriptors \ Open
  BY DEF Free, Open
<1> QED BY <1>6, <1>7 DEF Free

-----------------------------------------------------------------------------
(* One lemma per group of actions.                                         *)
LEMMA TypeStep == EpollInv /\ Type => EpollInv'
<1> SUFFICES ASSUME EpollInv, Type PROVE EpollInv'
  OBVIOUS
<1> USE SourcesAreNumbers DEF EpollInv, Type, serverVars
<1>1. /\ ready' \in Seq(Sources) /\ Once(ready')
      /\ \A y : y # Stdin => (InSeq(y, ready') <=> InSeq(y, ready))
  <2>1. CASE spc \in {"listen", "watch"}
    BY <2>1 DEF TypeOK
  <2>2. CASE spc \notin {"listen", "watch"}
    BY <2>2, Woken DEF TypeOK
  <2> QED BY <2>1, <2>2
<1>2. keys' \in 0 .. Keys
  BY EpollAssumption DEF TypeOK
<1>3. TypeOK'
  BY <1>1, <1>2 DEF TypeOK
<1>4. EdgesAreConnections' /\ EachInOnePlace' /\ ReportsAreHangUps' /\ CfdIsAccepted'
  BY <1>1 DEF EdgesAreConnections, EdgeTaken, EachInOnePlace, Accepted,
              ReportsAreHangUps, HungUp, CfdIsAccepted
<1> QED BY <1>1, <1>3, <1>4

LEMMA ConnectStep ==
    ASSUME EpollInv, NEW c \in Clients, Connect(c)
    PROVE  EpollInv'
<1> USE SourcesAreNumbers DEF EpollInv, Connect, serverVars, Goto
<1>0. cpc' \in [Clients -> {"connect", "connected", "sent", "closed", "refused"}]
  BY DEF TypeOK
<1>1. CASE spc \in {"listen", "exited"}
  <2>1. TypeOK'
    BY <1>0, <1>1 DEF TypeOK
  <2>2. EdgesAreConnections' /\ EachInOnePlace' /\ CfdIsAccepted'
    BY <1>1 DEF TypeOK, EdgesAreConnections, EdgeTaken, EachInOnePlace,
                Accepted, CfdIsAccepted
  <2>3. ReportsAreHangUps'
    BY <1>1 DEF TypeOK, ReportsAreHangUps, HungUp
  <2> QED BY <1>1, <2>1, <2>2, <2>3
<1>2. CASE spc \notin {"listen", "exited"}
  <2>0. Len(backlog) \in Nat /\ backlog \in Seq(Clients)
    BY LenProperties DEF TypeOK
  <2>1. ~InSeq(c, backlog) /\ ~Accepted(c)
    BY DEF EachInOnePlace
  <2>2. /\ backlog' \in Seq(Clients) /\ Once(backlog')
        /\ \A y : InSeq(y, backlog') <=> InSeq(y, backlog) \/ y = c
        /\ Len(backlog') = Len(backlog) + 1
    <3>1. backlog' = Append(backlog, c)
      BY <1>2
    <3> QED BY <2>0, <2>1, <3>1, Added DEF EachInOnePlace
  <2>3. /\ ready' \in Seq(Sources) /\ Once(ready')
        /\ \A y : y # Sfd => (InSeq(y, ready') <=> InSeq(y, ready))
    <3>1. CASE spc = "watch"
      BY <1>2, <3>1 DEF TypeOK
    <3>2. CASE spc # "watch"
      BY <1>2, <3>2, Woken DEF TypeOK
    <3> QED BY <3>1, <3>2
  <2>4. TypeOK'
    BY <1>0, <1>2, <2>2, <2>3 DEF TypeOK
  <2>5. EdgesAreConnections'
    BY <1>2, <2>0, <2>2 DEF EdgesAreConnections, EdgeTaken
  <2>6. EachInOnePlace'
    BY <1>2, <2>1, <2>2 DEF TypeOK, EachInOnePlace, Accepted
  <2>7. ReportsAreHangUps' /\ CfdIsAccepted'
    BY <1>2, <2>3 DEF TypeOK, ReportsAreHangUps, HungUp, CfdIsAccepted
  <2> QED BY <2>3, <2>4, <2>5, <2>6, <2>7
<1> QED BY <1>1, <1>2

LEMMA CloseStep ==
    ASSUME EpollInv, NEW c \in Clients, Finish(c) \/ Kill(c)
    PROVE  EpollInv'
<1> USE SourcesAreNumbers DEF EpollInv, serverVars, Goto
<1>0. Close(c) /\ cpc[c] # "connect"
  BY DEF Finish, Kill
<1>1. cpc' \in [Clients -> {"connect", "connected", "sent", "closed", "refused"}]
  BY <1>0 DEF Close, TypeOK
<1>2. /\ ready' \in Seq(Sources) /\ Once(ready')
      /\ \A y : InSeq(y, ready') =>
            \/ InSeq(y, ready)
            \/ y \in Descriptors /\ conn[y] = c
  <2>1. CASE Accepted(c) /\ Descriptor(c) \in watched
    <3>1. Descriptor(c) \in Descriptors /\ conn[Descriptor(c)] = c
      BY <2>1 DEF Accepted, Descriptor
    <3> QED BY <1>0, <2>1, <3>1, Woken DEF Close, TypeOK
  <2>2. CASE ~(Accepted(c) /\ Descriptor(c) \in watched)
    BY <1>0, <2>2 DEF Close, TypeOK
  <2> QED BY <2>1, <2>2
<1>3. TypeOK'
  BY <1>0, <1>1, <1>2 DEF Close, TypeOK
<1>4. EdgesAreConnections' /\ EachInOnePlace' /\ CfdIsAccepted'
  BY <1>0, <1>2 DEF Close, TypeOK, EdgesAreConnections, EdgeTaken,
                    EachInOnePlace, Accepted, CfdIsAccepted
<1>5. ReportsAreHangUps'
  BY <1>0, <1>2, EpollAssumption
     DEF Close, TypeOK, ReportsAreHangUps, HungUp
<1> QED BY <1>2, <1>3, <1>4, <1>5

(* The server sets up, goes round its loop and drops what it drops.        *)
LEMMA WatchStep == EpollInv /\ Watch => EpollInv'
<1> SUFFICES ASSUME EpollInv, Watch PROVE EpollInv'
  OBVIOUS
<1> USE SourcesAreNumbers DEF EpollInv, Watch
<1>0. Len(backlog) \in Nat /\ (backlog # <<>> => Len(backlog) >= 1)
  BY EmptySeq DEF TypeOK
<1> DEFINE s == IF keys > 0 THEN <<Stdin>> ELSE <<>>
           t == IF backlog # <<>> THEN <<Sfd>> ELSE <<>>
<1>1. /\ s \in Seq(Sources) /\ Once(s)
      /\ t \in Seq(Sources) /\ Once(t)
      /\ \A y : InSeq(y, s) => y = Stdin
      /\ \A y : InSeq(y, t) => y = Sfd /\ backlog # <<>>
  BY DEF Once, InSeq
<1>2. ready' = s \o t
  OBVIOUS
<1> HIDE DEF s, t
<1>3. /\ ready' \in Seq(Sources) /\ Once(ready')
      /\ \A y : InSeq(y, ready') => y = Stdin \/ (y = Sfd /\ backlog # <<>>)
  <2>1. \A y : ~(InSeq(y, s) /\ InSeq(y, t))
    BY <1>1
  <2>2. /\ s \o t \in Seq(Sources) /\ Once(s \o t)
        /\ \A y : InSeq(y, s \o t) <=> InSeq(y, s) \/ InSeq(y, t)
    BY <1>1, <2>1, Joined
  <2> QED BY <1>1, <1>2, <2>2
<1>4. TypeOK'
  BY <1>3 DEF TypeOK
<1>5. EdgesAreConnections' /\ EachInOnePlace' /\ CfdIsAccepted'
  BY <1>0, <1>3 DEF EdgesAreConnections, EdgeTaken, EachInOnePlace, Accepted,
                    CfdIsAccepted
<1>6. ReportsAreHangUps'
  BY <1>3 DEF ReportsAreHangUps, HungUp
<1> QED BY <1>3, <1>4, <1>5, <1>6

LEMMA WaitStep == EpollInv /\ EpollWait => EpollInv'
<1> SUFFICES ASSUME EpollInv, EpollWait PROVE EpollInv'
  OBVIOUS
<1> USE SourcesAreNumbers DEF EpollInv
<1> DEFINE n == IF Len(ready) < MaxEvent THEN Len(ready) ELSE MaxEvent
           rest == SubSeq(ready, n + 1, Len(ready))
<1>1. ready \in Seq(Sources) /\ Len(ready) \in Nat /\ n \in 0 .. Len(ready)
  BY LenProperties, EpollAssumption DEF TypeOK
<1>2. Batch = SubSeq(ready, 1, n)
  BY DEF Batch
<1> HIDE DEF n
<1>3. /\ Batch \in Seq(Sources) /\ Once(Batch) /\ Len(Batch) = n
      /\ rest \in Seq(Sources) /\ Once(rest)
      /\ \A y : InSeq(y, Batch) \/ InSeq(y, rest) => InSeq(y, ready)
      /\ \A y : ~(InSeq(y, Batch) /\ InSeq(y, rest))
  BY <1>1, <1>2, Divided
<1>4. /\ LevelTriggered(Batch) \in Seq(Sources) /\ Once(LevelTriggered(Batch))
      /\ \A y : InSeq(y, LevelTriggered(Batch)) <=>
                 InSeq(y, Batch) /\ y # Stdin /\ y # Sfd
  <2>1. /\ Without(Batch, Stdin) \in Seq(Sources) /\ Once(Without(Batch, Stdin))
        /\ \A y : InSeq(y, Without(Batch, Stdin)) <=> InSeq(y, Batch) /\ y # Stdin
    BY <1>3, TakenOut
  <2> QED BY <2>1, TakenOut DEF LevelTriggered
<1>5. /\ events' = Batch /\ ready' = rest \o LevelTriggered(Batch)
      /\ spc' = "loop"
      /\ UNCHANGED <<program, cfd, backlog, conn, watched, keys, cpc>>
  BY <1>3 DEF EpollWait
<1> HIDE DEF rest
<1>6. /\ ready' \in Seq(Sources) /\ Once(ready')
      /\ \A y : InSeq(y, ready') <=> InSeq(y, rest) \/ InSeq(y, LevelTriggered(Batch))
  BY <1>3, <1>4, <1>5, Joined
<1>7. TypeOK'
  BY <1>3, <1>5, <1>6 DEF TypeOK
<1>8. EdgesAreConnections' /\ EachInOnePlace' /\ CfdIsAccepted'
  BY <1>3, <1>4, <1>5, <1>6
     DEF EdgesAreConnections, EdgeTaken, EachInOnePlace, Accepted, CfdIsAccepted
<1>9. ReportsAreHangUps'
  BY <1>3, <1>4, <1>5, <1>6 DEF ReportsAreHangUps, HungUp
<1> QED BY <1>6, <1>7, <1>8, <1>9

LEMMA LoopStep ==
    EpollInv /\ (Listen \/ LoopEnds \/ StdinReady \/ Listening) => EpollInv'
<1> SUFFICES ASSUME EpollInv, Listen \/ LoopEnds \/ StdinReady \/ Listening
             PROVE  EpollInv'
  OBVIOUS
<1> USE DEF EpollInv, Listen, LoopEnds, StdinReady, Listening, Break, kernelVars
<1>1. /\ UNCHANGED <<program, cfd, ready, backlog, conn, watched, keys, cpc>>
      /\ spc' \in {"watch", "wait", "accept"}
      /\ events' = events \/ (events' = <<>> /\ spc' = "wait")
  OBVIOUS
<1>2. EdgeTaken' => EdgeTaken
  BY Dropped DEF EdgeTaken, TypeOK
<1>3. TypeOK'
  BY <1>1, EmptySeq DEF TypeOK
<1>4. EdgesAreConnections' /\ EachInOnePlace' /\ CfdIsAccepted'
  BY <1>1, <1>2 DEF EdgesAreConnections, EachInOnePlace, Accepted, CfdIsAccepted
<1>5. ReportsAreHangUps'
  BY <1>1 DEF ReportsAreHangUps, HungUp, InSeq
<1> QED BY <1>1, <1>3, <1>4, <1>5

LEMMA ExitStep == EpollInv /\ HandleError => EpollInv'
<1> SUFFICES ASSUME EpollInv, HandleError PROVE EpollInv'
  OBVIOUS
<1> USE SourcesAreNumbers, EmptySeq DEF EpollInv, HandleError
<1>1. TypeOK'
  BY DEF TypeOK
<1>2. ~InSeq(Sfd, ready') /\ Once(ready') /\ Once(backlog')
  BY DEF Once, InSeq
<1>3. \A c \in Clients : ~InSeq(c, backlog') /\ ~Accepted(c)'
  BY EpollAssumption DEF InSeq, Accepted
<1>4. ReportsAreHangUps' /\ CfdIsAccepted'
  BY DEF ReportsAreHangUps, InSeq, CfdIsAccepted
<1>5. EdgesAreConnections'
  BY <1>2 DEF EdgesAreConnections, EdgeTaken
<1>6. EachInOnePlace'
  BY <1>2, <1>3 DEF EachInOnePlace
<1> QED BY <1>1, <1>2, <1>4, <1>5, <1>6

LEMMA AcceptStep == EpollInv /\ Accept /\ spc' = "add" => EpollInv'
<1> SUFFICES ASSUME EpollInv, Accept, spc' = "add" PROVE EpollInv'
  OBVIOUS
<1> USE SourcesAreNumbers DEF EpollInv
<1>0. Cardinality(Open) < MaxOpen /\ backlog # <<>>
  BY DEF Accept, HandleError
<1>1. cfd' \in Descriptors /\ conn[cfd'] = "free"
  BY <1>0, FreeDescriptor DEF Accept, HandleError
<1>2. /\ Tail(backlog) \in Seq(Clients) /\ Head(backlog) \in Clients
      /\ Len(Tail(backlog)) = Len(backlog) - 1
      /\ InSeq(Head(backlog), backlog)
      /\ \A y : InSeq(y, Tail(backlog)) => InSeq(y, backlog)
      /\ Once(Tail(backlog)) /\ ~InSeq(Head(backlog), Tail(backlog))
      /\ Len(backlog) \in Nat
  BY <1>0, Dropped, LenProperties DEF TypeOK, EachInOnePlace
<1>3. /\ backlog' = Tail(backlog) /\ spc' = "add" /\ spc = "accept"
      /\ conn' = [conn EXCEPT ![cfd'] = Head(backlog)]
      /\ UNCHANGED <<program, events, ready, watched, keys, cpc>>
  BY DEF Accept, HandleError
<1>4. /\ conn'[cfd'] = Head(backlog) /\ conn'[cfd'] # "free"
      /\ \A d \in Descriptors : d # cfd' => conn'[d] = conn[d]
  BY <1>1, <1>2, <1>3, EpollAssumption DEF TypeOK
<1>5. TypeOK'
  BY <1>1, <1>2, <1>3, EpollAssumption DEF TypeOK
<1>6. EdgesAreConnections'
  BY <1>2, <1>3 DEF EdgesAreConnections, EdgeTaken
<1>7. EachInOnePlace'
  BY <1>1, <1>2, <1>3, <1>4 DEF EachInOnePlace, Accepted
<1>8. ReportsAreHangUps' /\ CfdIsAccepted'
  BY <1>1, <1>3, <1>4 DEF ReportsAreHangUps, HungUp, CfdIsAccepted
<1> QED BY <1>3, <1>5, <1>6, <1>7, <1>8

LEMMA AddStep == EpollInv /\ AddClient => EpollInv'
<1> SUFFICES ASSUME EpollInv, AddClient PROVE EpollInv'
  OBVIOUS
<1> USE SourcesAreNumbers DEF EpollInv, AddClient
<1>0. cfd \in Descriptors /\ conn[cfd] # "free"
  BY DEF CfdIsAccepted
<1>1. /\ ready' \in Seq(Sources) /\ Once(ready')
      /\ \A y : InSeq(y, ready') => InSeq(y, ready) \/ (y = cfd /\ HungUp(cfd))
  <2>1. CASE HungUp(cfd)
    BY <1>0, <2>1, Woken DEF TypeOK
  <2>2. CASE ~HungUp(cfd)
    BY <2>2 DEF TypeOK
  <2> QED BY <2>1, <2>2
<1>2. TypeOK'
  BY <1>0, <1>1 DEF TypeOK
<1>3. EdgesAreConnections' /\ EachInOnePlace' /\ CfdIsAccepted'
  BY <1>0, <1>1 DEF EdgesAreConnections, EdgeTaken, EachInOnePlace, Accepted,
                    CfdIsAccepted
<1>4. ReportsAreHangUps'
  BY <1>1 DEF ReportsAreHangUps, HungUp
<1> QED BY <1>1, <1>2, <1>3, <1>4

LEMMA SendStep == EpollInv /\ Send => EpollInv'
<1> SUFFICES ASSUME EpollInv, Send PROVE EpollInv'
  OBVIOUS
<1> USE DEF EpollInv, Send, Break, kernelVars
<1>0. cfd \in Descriptors /\ conn[cfd] \in Clients
  BY DEF CfdIsAccepted, TypeOK
<1>1. TypeOK'
  BY <1>0, EmptySeq DEF TypeOK
<1>2. EdgesAreConnections' /\ CfdIsAccepted'
  BY DEF EdgesAreConnections, EdgeTaken, CfdIsAccepted
<1>3. EachInOnePlace'
  BY <1>0 DEF TypeOK, EachInOnePlace, Accepted
<1>4. ReportsAreHangUps'
  BY <1>0 DEF TypeOK, ReportsAreHangUps, HungUp, InSeq
<1> QED BY <1>1, <1>2, <1>3, <1>4

(* A descriptor is closed, or a hang-up passed over.                       *)
LEMMA ClosedStep ==
    ASSUME EpollInv, NEW d \in Descriptors, CloseDescriptor(d), Break,
           UNCHANGED <<program, cfd, backlog, keys, cpc>>
    PROVE  EpollInv'
<1> USE SourcesAreNumbers DEF EpollInv, CloseDescriptor, Break
<1>1. /\ ready' \in Seq(Sources) /\ Once(ready')
      /\ \A y : InSeq(y, ready') <=> InSeq(y, ready) /\ y # d
  BY TakenOut DEF TypeOK
<1>2. /\ conn'[d] = "free"
      /\ \A e \in Descriptors : e # d => conn'[e] = conn[e]
  BY DEF TypeOK
<1>3. TypeOK'
  BY <1>1, <1>2, EmptySeq DEF TypeOK
<1>4. EdgesAreConnections' /\ CfdIsAccepted'
  BY <1>1 DEF EdgesAreConnections, EdgeTaken, CfdIsAccepted
<1>5. EachInOnePlace'
  BY <1>2, EpollAssumption DEF EachInOnePlace, Accepted
<1>6. ReportsAreHangUps'
  <2>1. \A y : ~InSeq(y, events')
    BY DEF InSeq
  <2> QED BY <1>1, <1>2, <2>1 DEF ReportsAreHangUps, HungUp
<1> QED BY <1>1, <1>3, <1>4, <1>5, <1>6

LEMMA ScanStep == EpollInv /\ Scan => EpollInv'
  BY ClosedStep DEF Scan, EpollInv, CfdIsAccepted

LEMMA ClientClosedStep == EpollInv /\ ClientClosed => EpollInv'
<1> SUFFICES ASSUME EpollInv, ClientClosed PROVE EpollInv'
  OBVIOUS
<1>1. CASE CloseDescriptor(cfd) /\ Break /\ Head(events) = cfd
  BY <1>1, ClosedStep DEF ClientClosed
<1>2. CASE events' = Tail(events) /\ UNCHANGED <<spc, conn, watched, ready>>
  <2> USE DEF EpollInv
  <2>1. UNCHANGED <<program, spc, cfd, ready, backlog, conn, watched, keys, cpc>>
    BY <1>2 DEF ClientClosed
  <2>2. /\ events' \in Seq(Sources)
        /\ \A y : InSeq(y, events') => InSeq(y, events)
    BY <1>2, Dropped DEF ClientClosed, TypeOK
  <2>3. TypeOK'
    BY <2>1, <2>2 DEF TypeOK
  <2>4. EdgesAreConnections' /\ EachInOnePlace' /\ CfdIsAccepted'
    BY <2>1, <2>2 DEF EdgesAreConnections, EdgeTaken, EachInOnePlace, Accepted,
                      CfdIsAccepted
  <2>5. ReportsAreHangUps'
    BY <2>1, <2>2 DEF ReportsAreHangUps, HungUp
  <2> QED BY <2>1, <2>3, <2>4, <2>5
<1> QED BY <1>1, <1>2 DEF ClientClosed

-----------------------------------------------------------------------------
LEMMA EpollInit == Init => EpollInv
<1> SUFFICES ASSUME Init PROVE EpollInv
  OBVIOUS
<1> USE SourcesAreNumbers, EpollAssumption, EmptySeq DEF Init
<1>1. TypeOK
  BY DEF TypeOK
<1>2. Once(ready) /\ ReportsAreHangUps /\ CfdIsAccepted
  BY DEF Once, ReportsAreHangUps, InSeq, CfdIsAccepted
<1>3. EdgesAreConnections /\ EachInOnePlace
  BY DEF EdgesAreConnections, EdgeTaken, EachInOnePlace, Once, InSeq, Accepted
<1> QED BY <1>1, <1>2, <1>3 DEF EpollInv

LEMMA EpollQuiet == EpollInv /\ UNCHANGED vars => EpollInv'
  BY DEF EpollInv, TypeOK, Once, EdgesAreConnections, EdgeTaken, EachInOnePlace,
         Accepted, ReportsAreHangUps, HungUp, CfdIsAccepted, InSeq, vars,
         serverVars, kernelVars

LEMMA EpollNext == EpollInv /\ [Next]_vars => EpollInv'
<1>1. EpollInv /\ Accept => EpollInv'
  BY AcceptStep, ExitStep DEF Accept
<1> QED BY <1>1, TypeStep, ConnectStep, CloseStep, WatchStep, WaitStep, LoopStep,
           AddStep, SendStep, ScanStep, ClientClosedStep, EpollQuiet
           DEF Next, ServerStep

LEMMA EpollCorrect == Spec => []EpollInv
  BY EpollInit, EpollNext, PTL DEF Spec

(* Every variable keeps its type; a registered descriptor is an open one.  *)
THEOREM EpollTypes == Spec => []TypeOK
<1>1. EpollInv => TypeOK
  BY DEF EpollInv
<1> QED BY <1>1, EpollCorrect, PTL

(* The blocking accept finds a connection whenever it is called.           *)
THEOREM AcceptFindsAConnection == Spec => []AcceptNeverSleeps
<1>1. EpollInv => AcceptNeverSleeps
  BY EmptySeq DEF EpollInv, EdgesAreConnections, EdgeTaken, AcceptNeverSleeps
<1> QED BY <1>1, EpollCorrect, PTL

(* The server closes no connection its client has not closed, but by       *)
(* exiting.                                                                *)
THEOREM OnlyHangUpsAreClosed == Spec => NoLiveClientCut
<1> DEFINE Cut(d) == conn[d] # "free" /\ conn'[d] # conn[d]
<1>1. ASSUME EpollInv, [Next]_vars, NEW d \in Descriptors, Cut(d)
      PROVE  HungUp(d) \/ spc' = "exited"
  <2>0. CASE HandleError
    BY <2>0 DEF HandleError
  <2>1. CASE Accept /\ ~HandleError
    <3>1. cfd' \in Descriptors /\ conn[cfd'] = "free"
      BY <1>1, <2>1, FreeDescriptor DEF Accept
    <3> QED BY <1>1, <2>1, <3>1 DEF Accept, EpollInv, TypeOK
  <2>2. CASE Scan
    BY <1>1, <2>2 DEF Scan, CloseDescriptor, EpollInv, TypeOK
  <2>3. CASE ClientClosed
    <3>1. InSeq(Head(events), events)
      BY <1>1, <2>3, Dropped DEF ClientClosed, EpollInv, TypeOK
    <3> QED BY <1>1, <2>3, <3>1
            DEF ClientClosed, CloseDescriptor, EpollInv, TypeOK, ReportsAreHangUps
  <2>4. CASE UNCHANGED conn
    BY <1>1, <2>4
  <2>5. Accept \/ Scan \/ ClientClosed \/ UNCHANGED conn
    BY <1>1
       DEF Next, ServerStep, Listen, Watch, EpollWait, LoopEnds, StdinReady,
           Listening, AddClient, Send, Type, Connect, Finish, Kill, Close, vars,
           kernelVars
  <2> QED BY <2>0, <2>1, <2>2, <2>3, <2>4, <2>5
<1>2. EpollInv /\ [Next]_vars =>
        [\A d \in Descriptors : Cut(d) => HungUp(d) \/ spc' = "exited"]_vars
  BY <1>1
<1> QED BY <1>2, EpollCorrect, PTL DEF Spec, NoLiveClientCut
=============================================================================
