-------------------------- MODULE SourceScanProofs --------------------------
(***************************************************************************)
(* Proofs about SourceScan, for chats of any length, pages and chunks of   *)
(* any size, and any posts and deletions.                                  *)
(***************************************************************************)
EXTENDS SourceScan, TLAPS, WellFoundedInduction

-----------------------------------------------------------------------------
(* The lowest message of a page. *)

\* A set of messages has a lowest one.
LEMMA LowestMeaning ==
  ASSUME NEW S, S \subseteq Nat, S # {}
  PROVE  Lowest(S) \in S /\ \A n \in S : Lowest(S) <= n
<1>1. \E x \in S : \A y \in S : ~(<<y, x>> \in OpToRel(<, Nat))
  BY WFMin, NatLessThanWellFounded
<1>2. \A x, y \in Nat : y < x => <<y, x>> \in OpToRel(<, Nat)
  BY DEF OpToRel
<1>3. \A x, y \in S : x \in Nat /\ y \in Nat
  OBVIOUS
<1>4. PICK x \in S : \A y \in S : ~(<<y, x>> \in OpToRel(<, Nat))
  BY <1>1
<1>5. \A y \in S : ~(y < x)
  BY <1>2, <1>3, <1>4
<1>6. \A y \in S : x <= y
  BY <1>3, <1>5
<1> QED BY <1>6 DEF Lowest

-----------------------------------------------------------------------------
(* The invariant of a scan. *)

\* The requests go down from one message to the next.
Order ==
  /\ kind = "chat" => page = {}
  /\ read \subseteq 1..newest
  /\ state = "scan" =>
       /\ read = {} => offset = 0 /\ page = {}
       /\ read # {} => Position \in read /\ \A n \in read : Position <= n

\* Nothing that still exists is left out between the first and the last one read.
Gapless ==
  state = "scan" => \A m \in chat : (m >= Position /\ \E n \in read : m <= n) => m \in read

\* What was processed was collected, and none of it ended the scan.
Collected ==
  state = "scan" => found = New(read \ page) /\ ~ReachesFloor(read \ page)

SInv == TypeOK /\ Order /\ Gapless /\ Collected /\ NoneMissed

\* Initially nothing is read.
LEMMA InitSInv == Init => SInv
<1> SUFFICES ASSUME Init PROVE SInv
  OBVIOUS
<1>1. TypeOK
  BY DEF Init, TypeOK
<1>2. Order /\ Gapless /\ Collected /\ NoneMissed
  BY DEF Init, Order, Gapless, Collected, NoneMissed, New, ReachesFloor
<1> QED BY <1>1, <1>2 DEF SInv

\* The ranges of what is read.
LEMMA Ids ==
  ASSUME SInv
  PROVE  /\ MaxMsg \in Nat /\ newest \in Nat /\ floor \in Nat /\ newest <= MaxMsg
         /\ chat \subseteq 1..newest /\ read \subseteq 1..newest /\ page \subseteq read /\ found \subseteq read
         /\ chat \subseteq Nat /\ read \subseteq Nat
         /\ \A m \in chat \cup read : m > 0
BY SourceScanAssumption DEF SInv, TypeOK, Order

\* What a request brings: the messages next below those that were read.
LEMMA AnswerMeaning ==
  ASSUME SInv, state = "scan", NEW r, NEW c \in Answers(Position, r)
  PROVE  /\ c \subseteq chat /\ c \subseteq Nat
         /\ \A m \in c : \A n \in read : m < n
         /\ \A m \in c : \A n \in Below(Position) : n > m => n \in c
         /\ c = {} => Below(Position) = {}
         /\ c \cap read = {}
<1>1. /\ c \subseteq Below(Position)
      /\ \A m \in c : \A n \in Below(Position) : n > m => n \in c
      /\ c = {} => Below(Position) = {}
  BY DEF Answers
<1>2. c \subseteq chat /\ c \subseteq Nat
  BY <1>1, Ids DEF Below
<1>3. ASSUME NEW m \in c, NEW n \in read PROVE m < n
  <2>1. Position \in read /\ Position <= n
    BY <1>3 DEF SInv, Order
  <2>2. Position > 0 /\ Position \in Nat /\ n \in Nat /\ m \in Nat
    BY <1>2, <2>1, Ids
  <2>3. m < Position
    BY <1>1, <2>2 DEF Below
  <2> QED BY <2>1, <2>2, <2>3
<1>4. c \cap read = {}
  BY <1>2, <1>3, Ids
<1> QED BY <1>1, <1>2, <1>3, <1>4

\* The two ways of paging are one: a page grows, or it is processed.
Grows(c) ==
  /\ c # {}
  /\ page' = page \cup c
  /\ kind = "topic"
  /\ UNCHANGED <<offset, found, state>>

\* A page that ends the scan does so at the floor, or because nothing is left.
Processes(c) ==
  LET p == page \cup c
  IN /\ found' = found \cup New(p)
     /\ \/ state' = "done" /\ (c = {} \/ ReachesFloor(p))
        \/ state' = "scan" /\ ~ReachesFloor(p)
     /\ offset' = Last(p)
     /\ page' = {}

\* What a request does.
LEMMA FetchMeaning ==
  ASSUME SInv, FetchTopic \/ FetchChat
  PROVE  /\ state = "scan"
         /\ UNCHANGED <<kind, chat, newest, mine, floor>>
         /\ \E r : \E c \in Answers(Position, r) :
              read' = read \cup c /\ (Grows(c) \/ Processes(c))
<1>1. CASE FetchTopic
  <2>1. PICK c \in Answers(Position, PageSize - Cardinality(page)) :
          /\ read' = read \cup c
          /\ IF c # {} /\ Cardinality(page \cup c) < PageSize
               THEN page' = page \cup c /\ UNCHANGED <<offset, found, state>>
               ELSE Process(page \cup c, Short(page \cup c))
    BY <1>1 DEF FetchTopic
  <2>2. Grows(c) \/ Processes(c)
    BY <1>1, <2>1 DEF FetchTopic, Grows, Processes, Process, Short
  <2> QED BY <1>1, <2>1, <2>2 DEF FetchTopic
<1>2. CASE FetchChat
  <2>1. PICK c \in Answers(Position, ChunkSize) : read' = read \cup c /\ Process(c, c = {})
    BY <1>2 DEF FetchChat
  <2>2. page \cup c = c
    BY <1>2 DEF FetchChat, SInv, Order
  <2>3. Processes(c)
    BY <2>1, <2>2 DEF Processes, Process
  <2> QED BY <1>2, <2>1, <2>3 DEF FetchChat
<1> QED BY <1>1, <1>2

-----------------------------------------------------------------------------
(* A request. *)

\* After a request the scan stands at the lowest message read, with no gap above.
LEMMA FetchPosition ==
  ASSUME SInv, state = "scan", NEW r, NEW c \in Answers(Position, r),
         read' = read \cup c, Grows(c) \/ Processes(c)
  PROVE  /\ read' = {} => offset' = 0 /\ page' = {}
         /\ read' # {} => Position' \in read' /\ \A n \in read' : Position' <= n
         /\ offset' \in {0} \cup read'
         /\ c = {} => Position' = Position
         /\ \A m \in chat : (m >= Position' /\ \E n \in read' : m <= n) => m \in read'
<1>1. /\ c \subseteq chat /\ c \subseteq Nat
      /\ \A m \in c : \A n \in read : m < n
      /\ \A m \in c : \A n \in Below(Position) : n > m => n \in c
      /\ c = {} => Below(Position) = {}
      /\ c \cap read = {}
  BY AnswerMeaning
<1>2. read \subseteq Nat /\ chat \subseteq Nat /\ page \subseteq read
  BY Ids
<1>3. /\ read = {} => offset = 0 /\ page = {}
      /\ read # {} => Position \in read /\ \A n \in read : Position <= n
      /\ offset \in {0} \cup read
  BY DEF SInv, Order, TypeOK
<1>4. CASE c = {}
  <2>1. page' = {} /\ offset' = Position /\ read' = read
    BY <1>4 DEF Grows, Processes, Last, Position
  <2>2. Position' = Position
    BY <2>1 DEF Position
  <2>3. \A m \in chat : (m >= Position /\ \E n \in read : m <= n) => m \in read
    BY DEF SInv, Gapless
  <2>4. Position = 0 \/ Position \in read
    BY <1>3 DEF Position
  <2>5. read = {} => Position = 0
    BY <1>3 DEF Position
  <2> QED BY <1>3, <2>1, <2>2, <2>3, <2>4, <2>5
<1>5. CASE c # {}
  <2> DEFINE p == page \cup c
  <2>1. p # {} /\ p \subseteq Nat /\ p \subseteq read'
    BY <1>1, <1>2, <1>5
  <2>2. Lowest(p) \in p /\ \A n \in p : Lowest(p) <= n
    BY <2>1, LowestMeaning
  <2>3. Position' = Lowest(p)
    <3>1. CASE Grows(c)
      BY <2>1, <3>1 DEF Grows, Position
    <3>2. CASE Processes(c)
      BY <2>1, <3>2 DEF Processes, Last, Position
    <3> QED BY <3>1, <3>2
  <2>4. PICK k \in c : TRUE
    BY <1>5
  <2>5. Lowest(p) \in c
    <3>1. CASE Lowest(p) \in page
      <4>1. k < Lowest(p)
        BY <1>1, <1>2, <2>4, <3>1
      <4>2. Lowest(p) <= k /\ k \in Nat /\ Lowest(p) \in Nat
        BY <1>1, <2>1, <2>2, <2>4
      <4> QED BY <4>1, <4>2
    <3> QED BY <2>2, <3>1
  <2>6. \A n \in read' : Lowest(p) <= n
    <3>1. \A n \in c : Lowest(p) <= n
      BY <2>2
    <3>2. ASSUME NEW n \in read PROVE Lowest(p) <= n
      <4>1. Lowest(p) < n
        BY <1>1, <2>5
      <4>2. Lowest(p) \in Nat /\ n \in Nat
        BY <1>1, <1>2, <2>5
      <4> QED BY <4>1, <4>2
    <3> QED BY <3>1, <3>2
  <2>7. offset' \in {0} \cup read'
    BY <1>3, <2>1, <2>2 DEF Grows, Processes, Last
  <2>8. \A m \in chat : (m >= Position' /\ \E n \in read' : m <= n) => m \in read'
    <3> SUFFICES ASSUME NEW m \in chat, m >= Lowest(p), NEW n \in read', m <= n
                 PROVE  m \in read'
      BY <2>3
    <3>1. m \in Nat /\ n \in Nat /\ Lowest(p) \in Nat
      BY <1>1, <1>2, <2>5
    <3>2. CASE m \in Below(Position)
      <4>1. m = Lowest(p) \/ m > Lowest(p)
        BY <3>1
      <4> QED BY <1>1, <2>5, <3>2, <4>1
    <3>3. CASE m \notin Below(Position)
      <4>1. Position # 0 /\ ~(m < Position)
        BY <3>3 DEF Below
      <4>2. read # {}
        BY <1>3, <4>1 DEF Position
      <4>3. Position \in read /\ m >= Position
        <5>1. Position \in read
          BY <1>3, <4>2
        <5>2. Position \in Nat
          BY <1>2, <5>1
        <5> QED BY <3>1, <4>1, <5>1, <5>2
      <4>4. CASE n \in read
        BY <4>3, <4>4 DEF SInv, Gapless
      <4>5. CASE n \in c
        <5>1. n < Position
          BY <1>1, <4>3, <4>5
        <5>2. Position \in Nat
          BY <1>2, <4>3
        <5> QED BY <3>1, <4>3, <5>1, <5>2
      <4> QED BY <4>4, <4>5
    <3> QED BY <3>2, <3>3
  <2> QED BY <1>5, <2>1, <2>2, <2>3, <2>6, <2>7, <2>8
<1> QED BY <1>4, <1>5

\* A request keeps the invariant.
LEMMA FetchStep ==
  ASSUME SInv, FetchTopic \/ FetchChat
  PROVE  SInv'
<1>1. state = "scan" /\ UNCHANGED <<kind, chat, newest, mine, floor>>
  BY FetchMeaning
<1>2. PICK r, c : c \in Answers(Position, r) /\ read' = read \cup c /\ (Grows(c) \/ Processes(c))
  BY FetchMeaning
<1> DEFINE p == page \cup c
<1>3. c \subseteq chat /\ c \cap read = {}
  BY <1>1, <1>2, AnswerMeaning
<1>4. /\ read' = {} => offset' = 0 /\ page' = {}
      /\ read' # {} => Position' \in read' /\ \A n \in read' : Position' <= n
      /\ offset' \in {0} \cup read'
      /\ c = {} => Position' = Position
      /\ \A m \in chat : (m >= Position' /\ \E n \in read' : m <= n) => m \in read'
  BY <1>1, <1>2, FetchPosition
<1>5. /\ chat \subseteq 1..newest /\ read \subseteq 1..newest /\ page \subseteq read /\ found \subseteq read
      /\ read' \subseteq 1..newest /\ newest <= MaxMsg /\ newest \in Nat /\ MaxMsg \in Nat /\ floor \in Nat
  BY <1>2, <1>3, Ids
<1>6. p \subseteq read' /\ New(p) \subseteq p
  BY <1>2, <1>5 DEF New
<1>7. TypeOK'
  <2>1. page' \in SUBSET read' /\ found' \in SUBSET read' /\ state' \in {"scan", "done", "failed"}
    BY <1>1, <1>2, <1>5, <1>6 DEF Grows, Processes
  <2>2. read' \in SUBSET MsgIds
    BY <1>5 DEF MsgIds
  <2> QED BY <1>1, <1>4, <2>1, <2>2 DEF TypeOK, SInv, MsgIds
<1>8. Order'
  <2>1. kind = "chat" => page' = {}
    BY <1>2 DEF Grows, Processes
  <2> QED BY <1>1, <1>4, <1>5, <2>1 DEF Order
<1>9. Gapless'
  BY <1>1, <1>4 DEF Gapless
<1>10. Collected'
  <2> SUFFICES ASSUME state' = "scan"
               PROVE  found' = New(read' \ page') /\ ~ReachesFloor(read' \ page')
    BY <1>1 DEF Collected, New, ReachesFloor
  <2>1. found = New(read \ page) /\ ~ReachesFloor(read \ page)
    BY <1>1 DEF SInv, Collected
  <2>2. CASE Grows(c)
    <3>1. read' \ page' = read \ page /\ found' = found
      BY <1>2, <1>3, <1>5, <2>2 DEF Grows
    <3> QED BY <2>1, <3>1
  <2>3. CASE Processes(c)
    <3>1. read' \ page' = (read \ page) \cup p
      BY <1>2, <1>5, <2>3 DEF Processes
    <3>2. found' = found \cup New(p) /\ ~ReachesFloor(p)
      BY <2>3 DEF Processes
    <3>3. New((read \ page) \cup p) = New(read \ page) \cup New(p)
      BY DEF New
    <3>4. ~ReachesFloor((read \ page) \cup p)
      BY <2>1, <3>2 DEF ReachesFloor
    <3> QED BY <2>1, <3>1, <3>2, <3>3, <3>4
  <2> QED BY <1>2, <2>2, <2>3
<1>11. NoneMissed'
  <2> SUFFICES ASSUME state' = "done", NEW m \in chat \cap mine, m > floor, \E n \in read' : m <= n
               PROVE  m \in found'
    BY <1>1 DEF NoneMissed
  <2>1. Processes(c)
    BY <1>1, <1>2 DEF Grows
  <2>2. m \in read'
    <3>1. m \in Nat /\ m > 0
      BY <1>5
    <3>2. CASE c = {}
      <4>1. Below(Position) = {}
        BY <1>1, <1>2, <3>2, AnswerMeaning
      <4>2. Position \in Nat
        <5>1. CASE read = {}
          <6>1. offset = 0 /\ page = {}
            BY <1>1, <5>1 DEF SInv, Order
          <6>2. Position = 0
            BY <6>1 DEF Position
          <6> QED BY <6>2
        <5>2. CASE read # {}
          <6>1. Position \in read
            BY <1>1, <5>2 DEF SInv, Order
          <6> QED BY <1>5, <6>1
        <5> QED BY <5>1, <5>2
      <4>3. ~(m < Position) /\ Position # 0
        BY <4>1 DEF Below
      <4>4. m >= Position'
        BY <1>4, <3>1, <3>2, <4>2, <4>3
      <4> QED BY <1>4, <4>4
    <3>3. CASE ReachesFloor(p)
      <4>1. PICK k \in p : k <= floor
        BY <3>3 DEF ReachesFloor
      <4>2. Position' <= k /\ Position' \in Nat /\ k \in Nat
        <5>1. k \in read' /\ Position' \in read' /\ Position' <= k
          BY <1>4, <1>6
        <5> QED BY <1>5, <5>1
      <4>3. m >= Position'
        BY <1>5, <3>1, <4>1, <4>2
      <4> QED BY <1>4, <4>3
    <3> QED BY <2>1, <3>2, <3>3 DEF Processes
  <2>3. found' = New(read \ page) \cup New(p)
    BY <1>1, <2>1 DEF Processes, SInv, Collected
  <2>4. read' = (read \ page) \cup p
    BY <1>2, <1>5
  <2> QED BY <2>2, <2>3, <2>4 DEF New
<1> QED BY <1>7, <1>8, <1>9, <1>10, <1>11 DEF SInv

-----------------------------------------------------------------------------
(* The other steps. *)

\* A post, a deletion or a failed request keeps the invariant.
LEMMA WorldStep ==
  ASSUME SInv, RequestFails \/ Post \/ Delete
  PROVE  SInv'
<1>0. /\ chat \subseteq 1..newest /\ read \subseteq 1..newest /\ newest \in Nat /\ MaxMsg \in Nat
  BY Ids
<1>1. CASE RequestFails
  <2>1. state' = "failed" /\ found' = {} /\ UNCHANGED <<kind, chat, newest, mine, floor, offset, page, read>>
    BY <1>1 DEF RequestFails
  <2> QED BY <2>1 DEF SInv, TypeOK, Order, Gapless, Collected, NoneMissed
<1>2. CASE Post
  <2>1. newest < MaxMsg /\ newest' = newest + 1 /\ chat' = chat \cup {newest + 1}
        /\ UNCHANGED <<kind, mine, floor, offset, page, read, found, state>>
    BY <1>2 DEF Post, scan
  <2>2. TypeOK'
    <3>1. newest' \in 0..MaxMsg /\ chat' \in SUBSET (1..newest')
      BY <1>0, <2>1
    <3> QED BY <2>1, <3>1 DEF SInv, TypeOK
  <2>3. read \subseteq 1..newest'
    BY <1>0, <2>1
  <2>4. Position' = Position
    BY <2>1 DEF Position
  <2>5. ~\E n \in read : newest + 1 <= n
    BY <1>0
  <2>6. Order'
    BY <2>1, <2>3, <2>4 DEF SInv, Order
  <2>7. Gapless'
    BY <2>1, <2>4, <2>5 DEF SInv, Gapless
  <2>8. Collected'
    BY <2>1 DEF SInv, Collected, New, ReachesFloor
  <2>9. NoneMissed'
    BY <2>1, <2>5 DEF SInv, NoneMissed
  <2> QED BY <2>2, <2>6, <2>7, <2>8, <2>9 DEF SInv
<1>3. CASE Delete
  <2>1. chat' \subseteq chat /\ UNCHANGED <<kind, newest, mine, floor, offset, page, read, found, state>>
    BY <1>3 DEF Delete, scan
  <2>2. TypeOK'
    BY <2>1 DEF SInv, TypeOK
  <2>3. Position' = Position
    BY <2>1 DEF Position
  <2>4. Order'
    BY <2>1, <2>3 DEF SInv, Order
  <2>5. Gapless'
    BY <2>1, <2>3 DEF SInv, Gapless
  <2>6. Collected'
    BY <2>1 DEF SInv, Collected, New, ReachesFloor
  <2>7. NoneMissed'
    BY <2>1 DEF SInv, NoneMissed
  <2> QED BY <2>2, <2>4, <2>5, <2>6, <2>7 DEF SInv
<1> QED BY <1>1, <1>2, <1>3

\* SInv is an invariant.
LEMMA ScanInvariant == Spec => []SInv
<1>1. SInv /\ [Next]_vars => SInv'
  <2>1. SInv /\ UNCHANGED vars => SInv'
    BY DEF vars, SInv, TypeOK, Order, Gapless, Collected, NoneMissed, Position, New, ReachesFloor
  <2> QED BY <2>1, FetchStep, WorldStep DEF Next
<1> QED BY <1>1, InitSInv, PTL DEF Spec

\* Type correctness of a scan.
THEOREM TypeCorrect == Spec => []TypeOK
<1>1. SInv => TypeOK
  BY DEF SInv
<1> QED BY <1>1, ScanInvariant, PTL

\* A scan that ends has found every new message that was there all the time
\* (NoneMissed in SourceScan).
THEOREM NothingIsMissed == Spec => []NoneMissed
<1>1. SInv => NoneMissed
  BY DEF SInv
<1> QED BY <1>1, ScanInvariant, PTL

-----------------------------------------------------------------------------
(* One look. *)

Result == IF state = "scan" THEN {} ELSE found

\* What SeenChat leaves out of the chat is above everything it has.
LEMMA UnseenAbove ==
  ASSUME SInv
  PROVE  /\ SeenChat \subseteq Nat
         /\ \A n \in chat \ SeenChat : \A m \in SeenChat : n > m
<1>0. /\ chat \subseteq 1..newest /\ read \subseteq 1..newest /\ newest \in Nat
      /\ chat \subseteq Nat /\ read \subseteq Nat
  BY Ids
<1>1. CASE state = "scan" /\ read # {}
  <2>1. SeenChat = read \cup Below(Position)
    BY <1>1 DEF SeenChat
  <2>2. Position \in read /\ \A n \in read : Position <= n
    BY <1>1 DEF SInv, Order
  <2>3. Position \in Nat /\ Position # 0
    BY <1>0, <2>2
  <2>4. ASSUME NEW n \in chat, n \notin read, n \notin Below(Position), NEW m \in SeenChat
        PROVE  n > m
    <3>1. n >= Position /\ n \in Nat /\ m \in Nat
      BY <1>0, <2>1, <2>3, <2>4 DEF Below
    <3>2. ~\E k \in read : n <= k
      BY <1>1, <2>4, <3>1 DEF SInv, Gapless
    <3>3. CASE m \in read
      BY <3>1, <3>2, <3>3
    <3>4. CASE m \in Below(Position)
      BY <2>3, <3>1, <3>4 DEF Below
    <3> QED BY <2>1, <2>4, <3>3, <3>4
  <2>5. SeenChat \subseteq Nat
    BY <1>0, <2>1 DEF Below
  <2> QED BY <2>1, <2>4, <2>5
<1>2. CASE ~(state = "scan" /\ read # {})
  BY <1>0, <1>2 DEF SeenChat
<1> QED BY <1>1, <1>2

\* What a request makes of the look.
LEMMA FetchRefines ==
  ASSUME SInv, FetchTopic \/ FetchChat
  PROVE  Once!Next
<1>0. SInv'
  BY FetchStep
<1>1. state = "scan" /\ UNCHANGED <<kind, chat, newest, mine, floor>>
  BY FetchMeaning
<1>2. PICK r, c : c \in Answers(Position, r) /\ read' = read \cup c /\ (Grows(c) \/ Processes(c))
  BY FetchMeaning
<1> DEFINE p == page \cup c
<1>3. /\ c \subseteq chat /\ c \subseteq Nat
      /\ \A m \in c : \A n \in read : m < n
      /\ \A m \in c : \A n \in Below(Position) : n > m => n \in c
      /\ c = {} => Below(Position) = {}
  BY <1>1, <1>2, AnswerMeaning
<1>4. c \subseteq Below(Position)
  BY <1>2 DEF Answers
<1>5. /\ chat \subseteq 1..newest /\ read \subseteq 1..newest /\ page \subseteq read /\ newest \in Nat /\ floor \in Nat
      /\ chat \subseteq Nat /\ read \subseteq Nat
  BY Ids
<1>6. SeenChat = read \cup Below(Position)
  <2>1. CASE read # {}
    BY <1>1, <2>1 DEF SeenChat
  <2>2. CASE read = {}
    <3>1. offset = 0 /\ page = {}
      BY <1>1, <2>2 DEF SInv, Order
    <3>2. Position = 0
      BY <3>1 DEF Position
    <3>3. Below(Position) = chat
      BY <3>2 DEF Below
    <3> QED BY <2>2, <3>3 DEF SeenChat
  <2> QED BY <2>1, <2>2
<1>7. \A n \in chat \ SeenChat : \A m \in SeenChat : n > m
  BY UnseenAbove
<1>8. CASE state' = "scan"
  <2>1. SeenChat' \subseteq SeenChat
    <3>1. CASE read' = {}
      <4>1. read = {}
        BY <1>2, <3>1
      <4> QED BY <1>1, <3>1, <4>1 DEF SeenChat
    <3>2. CASE read' # {}
      <4>1. SeenChat' = read' \cup Below(Position)'
        BY <1>8, <3>2 DEF SeenChat
      <4>2. read' \subseteq SeenChat
        BY <1>2, <1>4, <1>6
      <4>3. Below(Position)' \subseteq SeenChat
        <5> SUFFICES ASSUME NEW m \in Below(Position)' PROVE m \in SeenChat
          OBVIOUS
        <5>1. Position' \in read' /\ Position' \in Nat
          BY <1>0, <1>3, <1>5, <1>8, <1>2, <3>2 DEF SInv, Order
        <5>2. m \in chat /\ m \in Nat /\ (Position' = 0 \/ m < Position')
          BY <1>1, <1>5 DEF Below
        <5>3. Position' # 0
          BY <1>3, <1>5, <1>2, <5>1
        <5>4. m < Position' /\ Position' \in SeenChat
          BY <4>2, <5>1, <5>2, <5>3
        <5>5. ~(m > Position')
          BY <5>1, <5>2, <5>4
        <5> QED BY <1>7, <5>2, <5>4, <5>5
      <4> QED BY <4>1, <4>2, <4>3
    <3> QED BY <3>1, <3>2
  <2>2. Once!World
    BY <1>1, <1>8, <2>1 DEF Once!World, Once!WorldMoves
  <2> QED BY <2>2 DEF Once!Next
<1>9. CASE state' # "scan"
  <2>1. Processes(c) /\ state' = "done"
    BY <1>1, <1>2, <1>9 DEF Grows, Processes
  <2>2. SeenChat' = chat
    BY <1>1, <2>1 DEF SeenChat
  <2>3. read' = (read \ page) \cup p
    BY <1>2, <1>5
  <2>4. found' = New(read')
    <3>1. found = New(read \ page) /\ found' = found \cup New(p)
      BY <1>1, <2>1 DEF SInv, Collected, Processes
    <3>2. New((read \ page) \cup p) = New(read \ page) \cup New(p)
      BY DEF New
    <3> QED BY <2>3, <3>1, <3>2
  <2>5. ASSUME NEW m \in Below(Position), m > floor PROVE m \in read'
    <3>1. CASE c = {}
      BY <1>3, <2>5, <3>1
    <3>2. CASE ReachesFloor(p)
      <4>1. PICK k \in p : k <= floor
        BY <3>2 DEF ReachesFloor
      <4>2. m \in Nat /\ k \in Nat /\ m > k
        BY <1>3, <1>5, <2>5, <4>1 DEF Below
      <4>3. CASE k \in c
        BY <1>2, <1>3, <2>5, <4>2, <4>3
      <4>4. CASE k \in page
        <5>1. Position \in read /\ Position <= k
          BY <1>1, <1>5, <4>4 DEF SInv, Order
        <5>2. Position \in Nat /\ Position # 0
          BY <1>5, <5>1
        <5>3. m < Position
          BY <2>5, <5>2 DEF Below
        <5> QED BY <4>2, <5>1, <5>2, <5>3
      <4> QED BY <4>1, <4>3, <4>4
    <3> QED BY <2>1, <3>1, <3>2 DEF Processes
  <2>6. found' = {m \in SeenChat \cap mine : m > floor}
    <3>1. found' \subseteq {m \in SeenChat \cap mine : m > floor}
      BY <1>2, <1>4, <1>6, <2>4 DEF New
    <3>2. {m \in SeenChat \cap mine : m > floor} \subseteq found'
      BY <1>2, <1>6, <2>4, <2>5 DEF New
    <3> QED BY <3>1, <3>2
  <2>7. Once!Look
    BY <1>1, <1>7, <2>1, <2>2, <2>6 DEF Once!Look, Once!End, Once!WorldMoves
  <2> QED BY <2>7 DEF Once!Next
<1> QED BY <1>8, <1>9

\* What the world and a failed request make of it.
LEMMA WorldRefines ==
  ASSUME SInv, RequestFails \/ Post \/ Delete
  PROVE  Once!Next
<1>0. /\ chat \subseteq 1..newest /\ read \subseteq 1..newest /\ newest \in Nat
      /\ chat \subseteq Nat /\ read \subseteq Nat
  BY Ids
<1>1. CASE RequestFails
  <2>1. state = "scan" /\ state' = "failed" /\ found' = {} /\ UNCHANGED <<chat, mine, floor>>
    BY <1>1 DEF RequestFails
  <2>2. SeenChat' = chat
    BY <2>1 DEF SeenChat
  <2>3. Once!Fail
    BY <2>1, <2>2, UnseenAbove DEF Once!Fail, Once!End, Once!WorldMoves
  <2> QED BY <2>3 DEF Once!Next
<1>2. CASE Post
  <2>1. chat' = chat \cup {newest + 1} /\ UNCHANGED <<mine, floor, offset, page, read, found, state>>
    BY <1>2 DEF Post, scan
  <2>2. \A n \in SeenChat' \ SeenChat : n = newest + 1
    BY <2>1 DEF SeenChat, Below, Position
  <2>3. \A m \in SeenChat : m \in Nat /\ newest + 1 > m
    BY <1>0 DEF SeenChat, Below
  <2>4. Once!World
    BY <2>1, <2>2, <2>3 DEF Once!World, Once!WorldMoves
  <2> QED BY <2>4 DEF Once!Next
<1>3. CASE Delete
  <2>1. chat' \subseteq chat /\ UNCHANGED <<mine, floor, offset, page, read, found, state>>
    BY <1>3 DEF Delete, scan
  <2>2. SeenChat' \subseteq SeenChat
    BY <2>1 DEF SeenChat, Below, Position
  <2>3. Once!World
    BY <2>1, <2>2 DEF Once!World, Once!WorldMoves
  <2> QED BY <2>3 DEF Once!Next
<1> QED BY <1>1, <1>2, <1>3

\* The whole scan is one look at the chat (IsOneLook in SourceScan).
THEOREM ScanIsOneLook == Spec => IsOneLook
<1>1. Init => Once!Init
  BY DEF Init, Once!Init
<1>2. SInv /\ [Next]_vars => [Once!Next]_(Once!vars)
  <2>1. UNCHANGED vars => UNCHANGED Once!vars
    BY DEF vars, Once!vars, SeenChat, Below, Position
  <2> QED BY <2>1, FetchRefines, WorldRefines DEF Next
<1> QED BY <1>1, <1>2, ScanInvariant, PTL DEF Spec, IsOneLook, Once!Spec
=============================================================================
