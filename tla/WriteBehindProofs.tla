-------------------------- MODULE WriteBehindProofs --------------------------
(***************************************************************************)
(* Proofs about WriteBehind, for every number of workers, names, entries,  *)
(* faults, batch size and MAXLEN, with the stream allowed to be lost.      *)
(*                                                                         *)
(* Two invariants.  Track is about delivery and needs nothing else; Rows   *)
(* is about what MongoDB holds, and needs that one sale is wired: with two *)
(* of them an acknowledged entry need not be durable.                      *)
(***************************************************************************)
EXTENDS WriteBehind, FiniteSetTheorems, SequenceTheorems, TLAPS

-----------------------------------------------------------------------------
(* Delivery.                                                               *)

(* A worker's name is one it may start with, hence nobody else's.          *)
Owned == \A w \in Workers : name[w] \in NameOf[w]

(* Whatever anybody holds or acknowledged was delivered.                   *)
Delivered ==
    /\ \A c \in Names : pel[c] \subseteq 1..last
    /\ \A w \in Workers : batch[w] \subseteq 1..last
    /\ acked \subseteq 1..last

(* Without a group nothing is pending, and a group created next starts     *)
(* behind everything delivered so far.                                     *)
NoGroup == ~group => last <= gone /\ \A c \in Names : pel[c] = {}

(* An entry is pending with one consumer, or acknowledged.                 *)
OnePlace ==
    /\ \A c, d \in Names : c # d => pel[c] \cap pel[d] = {}
    /\ \A c \in Names : pel[c] \cap acked = {}

(* A delivered entry of the stream is somewhere.                           *)
Tracked == \A i \in Live : i <= last => i \in acked \/ \E c \in Names : i \in pel[c]

(* What a worker holds is nobody else's.                                   *)
Exclusive ==
    /\ \A w \in Workers, c \in Names : c # name[w] => batch[w] \cap pel[c] = {}
    /\ \A v, w \in Workers : v # w => batch[v] \cap batch[w] = {}

(* A worker holds entries only while it writes them or has just failed to. *)
Idle == \A w \in Workers : pc[w] \notin Writing \cup {"backoff"} => batch[w] = {}

Track ==
    /\ TypeOK /\ Owned /\ Delivered /\ NoGroup
    /\ OnePlace /\ Tracked /\ Exclusive /\ Idle

-----------------------------------------------------------------------------
(* What MongoDB holds.                                                     *)

OneSale == \A s, t \in Sales : s = t

(* A stage of the bulk write is reached only when the earlier ones are in. *)
Staged ==
    \A w \in Workers : \A i \in batch[w] :
        /\ pc[w] \in {"orders", "lines", "ack"} => BuyerOf(log[i]) \in users
        /\ pc[w] \in {"lines", "ack"} => log[i] \in orders
        /\ pc[w] = "ack" => lines[<<log[i], ProductOf[SaleOf(log[i])]>>] > 0

Rows == OneSale /\ Track /\ Staged /\ AckedIsDurable /\ AuditConsistent

-----------------------------------------------------------------------------
(* Greatest and least elements.                                            *)

LEMMA MaxIs ==
    ASSUME NEW S \in SUBSET Int, NEW m \in S, \A x \in S : m >= x
    PROVE  Max(S) = m
<1>1. \E x \in S : \A y \in S : x >= y
  OBVIOUS
<1>2. Max(S) \in S /\ \A y \in S : Max(S) >= y
  BY <1>1, Zenon DEF Max
<1>3. m \in Int /\ Max(S) \in Int
  BY <1>2
<1>4. Max(S) >= m /\ m >= Max(S)
  BY <1>2, Zenon
<1> QED
  BY <1>3, <1>4

LEMMA MinIs ==
    ASSUME NEW S \in SUBSET Int, NEW m \in S, \A x \in S : m <= x
    PROVE  Min(S) = m
<1>1. \E x \in S : \A y \in S : x =< y
  OBVIOUS
<1>2. Min(S) \in S /\ \A y \in S : Min(S) <= y
  BY <1>1, Zenon DEF Min
<1>3. m \in Int /\ Min(S) \in Int
  BY <1>2
<1>4. Min(S) <= m /\ m <= Min(S)
  BY <1>2, Zenon
<1> QED
  BY <1>3, <1>4

LEMMA OfTwo ==
    ASSUME NEW a \in Int, NEW b \in Int
    PROVE  /\ Max({a, b}) = IF a >= b THEN a ELSE b
           /\ Min({a, b}) = IF a <= b THEN a ELSE b
<1>1. CASE a >= b
  <2>1. Max({a, b}) = a
    BY <1>1, MaxIs
  <2>2. Min({a, b}) = b
    BY <1>1, MinIs
  <2> QED
    BY <1>1, <2>1, <2>2
<1>2. CASE ~(a >= b)
  <2>1. Max({a, b}) = b
    BY <1>2, MaxIs
  <2>2. Min({a, b}) = a
    BY <1>2, MinIs
  <2> QED
    BY <1>2, <2>1, <2>2
<1> QED
  BY <1>1, <1>2

(* The numbers TypeOK is about.                                            *)
LEMMA Numbers ==
    ASSUME TypeOK
    PROVE  /\ Len(log) \in Nat /\ gone \in Nat /\ last \in Nat
           /\ gone <= Len(log) /\ last <= Len(log) /\ log \in Seq(OrderKey)
           /\ faults \in Nat
           /\ \A i \in Ids : i \in Nat /\ log[i] \in OrderKey
           /\ BatchSize \in Nat \ {0} /\ MaxLen \in Nat \ {0}
<1>1. Len(log) \in Nat /\ \A i \in 1..Len(log) : log[i] \in OrderKey
  BY LenProperties, ElementOfSeq DEF TypeOK
<1> QED
  BY <1>1, BatchAssumption DEF TypeOK, Ids

(* A read of new entries takes the next ones, all that are between the     *)
(* group's old and its new last entry.                                     *)
LEMMA NewIs ==
    ASSUME TypeOK
    PROVE  /\ New \subseteq Live /\ New \subseteq Ids
           /\ \A i \in New : i > last
           /\ Max(New \cup {last}) \in last..Len(log)
           /\ \A i \in New : i <= Max(New \cup {last})
           /\ \A i \in Live : i > last /\ i <= Max(New \cup {last}) => i \in New
<1> DEFINE m == Min({Passed + BatchSize, Len(log)})
<1>1. Passed \in Nat /\ Passed >= last /\ Passed >= gone
  BY OfTwo, Numbers DEF Passed
<1>2. m \in Nat /\ m <= Len(log)
  <2>1. Passed + BatchSize \in Nat /\ Len(log) \in Nat
    BY <1>1, Numbers
  <2>2. m = IF Passed + BatchSize <= Len(log) THEN Passed + BatchSize ELSE Len(log)
    <3>1. Passed + BatchSize \in Int /\ Len(log) \in Int
      BY <2>1
    <3> QED
      BY <3>1, OfTwo, Zenon
  <2> QED
    BY <2>1, <2>2
<1>3. New = (Passed + 1)..m
  BY DEF New
<1> HIDE DEF m
<1>4. Max(New \cup {last}) = IF New = {} THEN last ELSE m
  <2>1. CASE New = {}
    <3>1. New \cup {last} = {last} /\ last \in Int
      BY <2>1, Numbers
    <3> QED
      BY <2>1, <3>1, MaxIs
  <2>2. CASE New # {}
    <3>1. m \in New \cup {last} /\ \A x \in New \cup {last} : m >= x
      BY <1>1, <1>2, <1>3, <2>2, Numbers
    <3>2. New \cup {last} \in SUBSET Int
      BY <1>1, <1>2, <1>3, Numbers
    <3> QED
      BY <2>2, <3>1, <3>2, MaxIs
  <2> QED
    BY <2>1, <2>2
<1>5. New \subseteq Live /\ New \subseteq Ids /\ \A i \in New : i > last
  BY <1>1, <1>2, <1>3, Numbers DEF Live, Ids
<1>6. \A i \in Live : i > last /\ i <= m => i \in New \/ New = {}
  <2> SUFFICES ASSUME NEW i \in Live, i > last, i <= m PROVE i \in New
    OBVIOUS
  <2>1. i > gone /\ i \in Nat
    BY Numbers DEF Live
  <2>2. Passed = gone \/ Passed = last
    BY OfTwo, Numbers DEF Passed
  <2> QED
    BY <1>1, <1>2, <1>3, <2>1, <2>2, Numbers
<1> DEFINE M == Max(New \cup {last})
<1>7. M = IF New = {} THEN last ELSE m
  BY <1>4
<1> HIDE DEF M
<1>8. M \in last..Len(log) /\ \A i \in New : i <= M
  <2>1. CASE New = {}
    BY <1>7, <2>1, Numbers
  <2>2. CASE New # {}
    <3>1. M = m /\ \A i \in New : i <= m
      BY <1>1, <1>2, <1>3, <1>7, <2>2
    <3>2. PICK i \in New : i > last /\ i <= m /\ i \in Nat
      BY <1>1, <1>2, <1>3, <1>5, <2>2
    <3> QED
      BY <1>2, <3>1, <3>2, Numbers
  <2> QED
    BY <2>1, <2>2
<1>9. ASSUME NEW i \in Live, i > last, i <= M PROVE i \in New
  BY <1>6, <1>7, <1>9, Numbers DEF Live
<1> QED
  BY <1>5, <1>8, <1>9 DEF M

-----------------------------------------------------------------------------
(* Track is inductive.                                                     *)

LEMMA InitTrack == Init => Track
<1> SUFFICES ASSUME Init PROVE Track
  OBVIOUS
<1>1. Len(log) = 0 /\ log \in Seq(OrderKey) /\ Ids = {}
  BY EmptySeq DEF Init, Ids
<1>2. Owned /\ name \in [Workers -> Names]
  BY NameAssumption DEF Init, Owned
<1>3. TypeOK
  <2>1. gone \in 0..Len(log) /\ last \in 0..Len(log) /\ faults \in 0..MaxFaults
    BY <1>1, BatchAssumption DEF Init
  <2>2. pel \in [Names -> SUBSET Ids] /\ batch \in [Workers -> SUBSET Ids] /\ acked \subseteq Ids
    BY DEF Init
  <2>3. pc \in [Workers -> Stages] /\ \A w \in Workers : pc[w] \notin Writing
    BY DEF Init, Stages, Writing
  <2>4. lines \in [OrderKey \X Products -> Nat] /\ running \in [Workers -> BOOLEAN]
    BY DEF Init
  <2> QED
    BY <1>1, <1>2, <2>1, <2>2, <2>3, <2>4 DEF Init, TypeOK
<1>4. Delivered /\ NoGroup /\ OnePlace /\ Exclusive /\ Idle
  BY <1>2 DEF Init, Delivered, NoGroup, OnePlace, Exclusive, Idle
<1>5. Tracked
  BY <1>1 DEF Init, Tracked, Live
<1> QED
  BY <1>2, <1>3, <1>4, <1>5 DEF Track

(* A worker keeps what it holds, or turns to what is pending with it.      *)
LEMMA Quiet ==
    ASSUME Track, TypeOK', Owned', Idle',
           UNCHANGED <<redisVars, acked>>,
           \A w \in Workers : \/ batch'[w] = batch[w] /\ name'[w] = name[w]
                              \/ batch'[w] \subseteq pel[name'[w]]
    PROVE  Track'
<1> USE DEF Track, redisVars
<1>1. \A w \in Workers : name'[w] \in Names
  BY DEF TypeOK
<1>2. \A v, w \in Workers : v # w => name'[v] # name'[w] /\ name[v] # name[w]
  BY NameAssumption DEF Owned
<1>3. Delivered' /\ NoGroup' /\ OnePlace' /\ Tracked'
  BY <1>1 DEF Delivered, NoGroup, OnePlace, Tracked, Live
<1>4. ASSUME NEW w \in Workers, NEW c \in Names, c # name'[w]
      PROVE  batch'[w] \cap pel[c] = {}
  BY <1>1, <1>4 DEF Exclusive, OnePlace
<1>5. ASSUME NEW v \in Workers, NEW w \in Workers, v # w
      PROVE  batch'[v] \cap batch'[w] = {}
  <2>1. CASE batch'[v] \subseteq pel[name'[v]]
    <3>1. batch'[w] \cap pel[name'[v]] = {}
      BY <1>1, <1>2, <1>4, <1>5
    <3> QED
      BY <2>1, <3>1
  <2>2. CASE batch'[w] \subseteq pel[name'[w]]
    <3>1. batch'[v] \cap pel[name'[w]] = {}
      BY <1>1, <1>2, <1>4, <1>5
    <3> QED
      BY <2>2, <3>1
  <2>3. CASE batch'[v] = batch[v] /\ batch'[w] = batch[w]
    BY <1>5, <2>3 DEF Exclusive
  <2> QED
    BY <2>1, <2>2, <2>3
<1> QED
  BY <1>3, <1>4, <1>5 DEF Exclusive

(* The steps that touch neither Redis nor MongoDB.                         *)
LEMMA LocalStep ==
    ASSUME Track, NEW w \in Workers,
           Start(w) \/ Loop(w) \/ Backoff(w) \/ ReadRejected(w)
           \/ GroupFails(w) \/ Stop(w) \/ Crash(w) \/ ReadPending(w)
    PROVE  Track'
<1> USE DEF Track, redisVars, mongoVars, workerVars, Goto
<1>1. CASE Start(w)
  <2> PICK c \in NameOf[w] : name' = [name EXCEPT ![w] = c]
    BY <1>1 DEF Start
  <2> c \in Names
    BY NameAssumption
  <2>1. TypeOK' /\ Owned' /\ Idle'
    BY <1>1 DEF Start, TypeOK, Owned, Idle, Stages, Writing, Reading, Ids
  <2>2. \A v \in Workers : batch'[v] = batch[v] /\ (v # w => name'[v] = name[v])
    BY <1>1 DEF Start, TypeOK
  <2>3. batch[w] = {}
    BY <1>1 DEF Start, Idle, Writing
  <2> QED
    BY <1>1, <2>1, <2>2, <2>3, Quiet DEF Start
<1>2. CASE Loop(w)
  <2>1. TypeOK' /\ Owned' /\ Idle'
    BY <1>2 DEF Loop, TypeOK, Owned, Idle, Stages, Writing, Reading, Ids
  <2> QED
    BY <1>2, <2>1, Quiet DEF Loop
<1>3. CASE Backoff(w)
  <2>1. TypeOK' /\ Owned' /\ Idle'
    BY <1>3 DEF Backoff, TypeOK, Owned, Idle, Stages, Writing, Reading, Ids
  <2> QED
    BY <1>3, <2>1, Quiet DEF Backoff, TypeOK
<1>4. CASE ReadRejected(w)
  <2>1. TypeOK' /\ Owned' /\ Idle'
    BY <1>4 DEF ReadRejected, TypeOK, Owned, Idle, Stages, Writing, Reading, Ids
  <2> QED
    BY <1>4, <2>1, Quiet DEF ReadRejected
<1>5. CASE GroupFails(w)
  <2>1. TypeOK' /\ Owned' /\ Idle'
    BY <1>5, BatchAssumption DEF GroupFails, TypeOK, Owned, Idle, Stages, Writing, Reading, Ids
  <2> QED
    BY <1>5, <2>1, Quiet DEF GroupFails
<1>6. CASE Stop(w)
  <2>1. TypeOK' /\ Owned' /\ Idle'
    BY <1>6, BatchAssumption DEF Stop, TypeOK, Owned, Idle, Stages, Writing, Reading, Ids
  <2> QED
    BY <1>6, <2>1, Quiet DEF Stop
<1>7. CASE Crash(w)
  <2>1. TypeOK' /\ Owned' /\ Idle'
    BY <1>7, BatchAssumption DEF Crash, TypeOK, Owned, Idle, Stages, Writing, Reading, Ids
  <2> QED
    BY <1>7, <2>1, Quiet DEF Crash, TypeOK
<1>8. CASE ReadPending(w)
  <2>1. Pending(w) \subseteq pel[name[w]] /\ pel[name[w]] \subseteq Ids
    BY DEF Pending, Lowest, TypeOK
  <2>2. TypeOK' /\ Owned' /\ Idle'
    BY <1>8, <2>1 DEF ReadPending, IfAny, TypeOK, Owned, Idle, Stages, Writing, Reading, Ids
  <2>3. \A v \in Workers : \/ batch'[v] = batch[v] /\ name'[v] = name[v]
                           \/ batch'[v] \subseteq pel[name'[v]]
    BY <1>8, <2>1 DEF ReadPending, TypeOK
  <2> QED
    BY <1>8, <2>2, <2>3, Quiet DEF ReadPending
<1> QED
  BY <1>1, <1>2, <1>3, <1>4, <1>5, <1>6, <1>7, <1>8

(* A new group starts at what is left of the stream.                       *)
LEMMA GroupStep ==
    ASSUME Track, NEW w \in Workers, EnsureGroup(w)
    PROVE  Track'
<1> USE DEF Track, EnsureGroup, mongoVars
<1>1. last' \in 0..Len(log) /\ last' >= last /\ (group => last' = last) /\ (~group => last' = gone)
  BY Numbers DEF GroupStart, NoGroup, TypeOK
<1>2. TypeOK' /\ Owned' /\ Idle'
  BY <1>1 DEF Goto, TypeOK, Owned, Idle, Stages, Writing, Reading, Ids
<1>3. Delivered'
  <2>1. last' \in Int /\ last \in Int
    BY <1>1, Numbers
  <2> QED
    BY <1>1, <2>1 DEF Delivered
<1>4. NoGroup' /\ OnePlace' /\ Exclusive'
  BY DEF NoGroup, OnePlace, Exclusive
<1>5. Tracked'
  BY <1>1, Numbers DEF Tracked, Live
<1> QED
  BY <1>2, <1>3, <1>4, <1>5

(* Redis hands a worker the next entries, whether or not it hears of them. *)
LEMMA ClaimStep ==
    ASSUME Track, TypeOK', Idle', NEW w \in Workers, Claim(w, New), group,
           UNCHANGED <<log, gone, group, name, acked>>,
           batch' = batch \/ batch' = [batch EXCEPT ![w] = New]
    PROVE  Track'
<1> USE DEF Track
<1>1. last' = Max(New \cup {last}) /\ last' \in last..Len(log) /\ last' \in Nat /\ last \in Nat
  BY NewIs, Numbers DEF Claim
<1>2. /\ \A i \in New : i > last /\ i <= last' /\ i \in Nat /\ i \in Live /\ i >= 1
      /\ \A i \in Live : i > last /\ i <= last' => i \in New
  <2>1. /\ \A i \in New : i > last /\ i <= last' /\ i \in Live
        /\ \A i \in Live : i > last /\ i <= last' => i \in New
    <3>1. TypeOK
      OBVIOUS
    <3> QED
      BY <1>1, <3>1, NewIs, Zenon
  <2>2. \A i \in Live : i \in Nat /\ i >= 1
    BY Numbers DEF Live
  <2> QED
    BY <2>1, <2>2
<1>3. name[w] \in Names /\ name' = name
  BY DEF TypeOK
<1>4. \A c \in Names : pel'[c] = IF c = name[w] THEN pel[c] \cup New ELSE pel[c]
  BY <1>3 DEF Claim, TypeOK
<1>5. \A v \in Workers : batch'[v] = batch[v] \/ (v = w /\ batch'[v] = New)
  BY DEF TypeOK
<1>6. /\ \A c \in Names : New \cap pel[c] = {}
      /\ \A v \in Workers : New \cap batch[v] = {}
      /\ New \cap acked = {}
  BY <1>1, <1>2 DEF Delivered
<1>7. Delivered'
  <2>1. New \subseteq 1..last'
    <3>1. ASSUME NEW i \in New PROVE i \in 1..last'
      <4>1. i \in Nat /\ i >= 1 /\ i <= last'
        BY <1>2, <3>1
      <4> QED
        BY <1>1, <4>1
    <3> QED
      BY <3>1
  <2>2. 1..last \subseteq 1..last'
    <3>1. last' >= last
      BY <1>1
    <3> QED
      BY <1>1, <3>1
  <2> QED
    BY <1>4, <1>5, <2>1, <2>2 DEF Delivered
<1>8. NoGroup' /\ OnePlace' /\ Owned'
  BY <1>3, <1>4, <1>6 DEF NoGroup, OnePlace, Owned
<1>9. Tracked'
  <2> SUFFICES ASSUME NEW i \in Live, i <= last', i \notin acked
               PROVE  \E c \in Names : i \in pel'[c]
    BY DEF Tracked, Live
  <2>1. CASE i <= last
    BY <1>4, <2>1 DEF Tracked
  <2>2. CASE i > last
    BY <1>2, <1>3, <1>4, <2>2
  <2>3. i \in Nat
    BY Numbers DEF Live
  <2> QED
    BY <1>1, <2>1, <2>2, <2>3
<1>10. Exclusive'
  <2>1. \A v \in Workers : v # w => name[v] # name[w]
    BY NameAssumption DEF Owned
  <2>2. ASSUME NEW v \in Workers, NEW c \in Names, c # name[v]
        PROVE  batch'[v] \cap pel'[c] = {}
    <3>1. batch[v] \cap pel[c] = {}
      BY <2>2 DEF Exclusive
    <3>2. CASE c = name[w]
      BY <1>4, <1>5, <1>6, <2>2, <3>1, <3>2
    <3>3. CASE c # name[w]
      BY <1>4, <1>5, <1>6, <3>1, <3>3
    <3> QED
      BY <3>2, <3>3
  <2>3. ASSUME NEW u \in Workers, NEW v \in Workers, u # v
        PROVE  batch'[u] \cap batch'[v] = {}
    BY <1>5, <1>6, <2>3 DEF Exclusive
  <2> QED
    BY <1>3, <2>2, <2>3 DEF Exclusive
<1> QED
  BY <1>7, <1>8, <1>9, <1>10

(* XACK moves what the worker wrote from its pending list to acked.        *)
LEMMA AckedStep ==
    ASSUME Track, TypeOK', Idle', NEW w \in Workers, Acknowledge(w),
           UNCHANGED <<log, gone, group, last, name>>,
           batch' = batch \/ batch' = [batch EXCEPT ![w] = {}]
    PROVE  Track'
<1> USE DEF Track
<1>1. name[w] \in Names /\ name' = name
  BY DEF TypeOK
<1>2. \A c \in Names : pel'[c] = IF c = name[w] THEN pel[c] \ batch[w] ELSE pel[c]
  BY <1>1 DEF Acknowledge, TypeOK
<1>3. acked' = acked \cup (batch[w] \cap pel[name[w]])
  BY DEF Acknowledge
<1>4. \A v \in Workers : batch'[v] \subseteq batch[v]
  BY DEF TypeOK
<1>5. \A c \in Names : pel'[c] \subseteq pel[c]
  BY <1>2
<1>6. Delivered' /\ NoGroup' /\ Owned'
  BY <1>1, <1>3, <1>4, <1>5 DEF Delivered, NoGroup, Owned
<1>7. Exclusive'
  BY <1>1, <1>4, <1>5 DEF Exclusive
<1>8. OnePlace'
  BY <1>1, <1>2, <1>3 DEF OnePlace
<1>9. Tracked'
  BY <1>1, <1>2, <1>3 DEF Tracked, Live
<1> QED
  BY <1>6, <1>7, <1>8, <1>9

(* A read of new entries, an acknowledgement, and their failures.          *)
LEMMA QueueStep ==
    ASSUME Track, NEW w \in Workers,
           ReadBatch(w) \/ ReadFails(w) \/ Ack(w) \/ AckFails(w)
    PROVE  Track'
<1> USE DEF Track, mongoVars, Goto, Fail
<1>1. name[w] \in Names /\ New \subseteq Ids /\ Max(New \cup {last}) \in 0..Len(log)
  BY NewIs, Numbers DEF TypeOK
<1>2. ASSUME Claim(w, New), log' = log
      PROVE  last' \in 0..Len(log) /\ pel' \in [Names -> SUBSET Ids']
  BY <1>1, <1>2 DEF Claim, TypeOK, Ids
<1>3. ASSUME Acknowledge(w), log' = log
      PROVE  pel' \in [Names -> SUBSET Ids'] /\ acked' \subseteq Ids'
  BY <1>1, <1>3 DEF Acknowledge, TypeOK, Ids
<1>4. CASE ReadBatch(w)
  <2>1. TypeOK' /\ Idle'
    BY <1>1, <1>2, <1>4 DEF ReadBatch, IfAny, TypeOK, Idle, Stages, Writing, Reading, Ids
  <2> QED
    BY <1>4, <2>1, ClaimStep DEF ReadBatch
<1>5. CASE ReadFails(w)
  <2>1. CASE UNCHANGED <<last, pel>>
    <3>1. TypeOK' /\ Idle' /\ Owned'
      BY <1>5, <2>1, BatchAssumption
      DEF ReadFails, TypeOK, Idle, Owned, Stages, Writing, Reading, Ids
    <3> QED
      BY <1>5, <2>1, <3>1, Quiet DEF ReadFails, redisVars
  <2>2. CASE group /\ Claim(w, New)
    <3>1. TypeOK' /\ Idle'
      BY <1>2, <1>5, <2>2, BatchAssumption
      DEF ReadFails, TypeOK, Idle, Stages, Writing, Reading, Ids
    <3> QED
      BY <1>5, <2>2, <3>1, ClaimStep DEF ReadFails
  <2> QED
    BY <1>5, <2>1, <2>2 DEF ReadFails
<1>6. CASE Ack(w)
  <2>1. TypeOK' /\ Idle'
    BY <1>3, <1>6 DEF Ack, TypeOK, Idle, Stages, Writing, Reading, Ids
  <2> QED
    BY <1>6, <2>1, AckedStep DEF Ack
<1>7. CASE AckFails(w)
  <2>1. CASE Acknowledge(w)
    <3>1. TypeOK' /\ Idle'
      BY <1>3, <1>7, <2>1, BatchAssumption
      DEF AckFails, TypeOK, Idle, Stages, Writing, Reading, Ids
    <3> QED
      BY <1>7, <2>1, <3>1, AckedStep DEF AckFails
  <2>2. CASE UNCHANGED <<pel, acked>>
    <3>1. TypeOK' /\ Idle' /\ Owned'
      BY <1>7, <2>2, BatchAssumption
      DEF AckFails, TypeOK, Idle, Owned, Stages, Writing, Reading, Ids
    <3> QED
      BY <1>7, <2>2, <3>1, Quiet DEF AckFails, redisVars
  <2> QED
    BY <1>7, <2>1, <2>2 DEF AckFails
<1> QED
  BY <1>4, <1>5, <1>6, <1>7

(* A phase of the bulk write, in any of its outcomes.                      *)
LEMMA WriteStep ==
    ASSUME Track, NEW w \in Workers,
           WriteUsers(w) \/ WriteOrders(w) \/ WriteLines(w)
    PROVE  Track'
<1> USE DEF Track, redisVars
<1>1. \A i \in batch[w] : log[i] \in OrderKey
  BY Numbers DEF TypeOK
<1>2. ASSUME NEW stage, NEW next, NEW ops, NEW done, Phase(w, stage, next, ops, done),
             stage \in Writing, next \in Writing
      PROVE  /\ UNCHANGED <<running, name, batch, redisVars, acked>>
             /\ pc' \in [Workers -> Stages] /\ faults' \in 0..MaxFaults
             /\ \A v \in Workers : pc'[v] \in Writing => batch[v] # {}
             /\ Idle'
  <2>1. pc[w] = stage /\ UNCHANGED <<running, name, batch, redisVars, acked>>
    BY <1>2 DEF Phase, Fail
  <2>2. \/ pc' = [pc EXCEPT ![w] = next] /\ faults' = faults
        \/ pc' = [pc EXCEPT ![w] = "backoff"] /\ faults < MaxFaults /\ faults' = faults + 1
    BY <1>2 DEF Phase, Fail, Goto
  <2>3. faults' \in 0..MaxFaults
    BY <2>2, BatchAssumption DEF TypeOK
  <2>4. pc' \in [Workers -> Stages] /\ \A v \in Workers : pc'[v] \in Writing => batch[v] # {}
    BY <1>2, <2>1, <2>2 DEF TypeOK, Stages, Writing
  <2>5. Idle'
    BY <1>2, <2>1, <2>2 DEF TypeOK, Idle, Writing
  <2> QED
    BY <2>1, <2>3, <2>4, <2>5
<1>3. ASSUME UNCHANGED <<running, name, batch, redisVars, acked>>,
             pc' \in [Workers -> Stages], faults' \in 0..MaxFaults,
             \A v \in Workers : pc'[v] \in Writing => batch[v] # {},
             Idle',
             users' \subseteq Buyers, orders' \subseteq OrderKey,
             lines' \in [OrderKey \X Products -> Nat]
      PROVE  Track'
  <2>1. TypeOK' /\ Owned'
    BY <1>3 DEF TypeOK, Owned, Ids
  <2> QED
    BY <1>3, <2>1, Quiet
<1>4. CASE WriteUsers(w)
  <2>1. PICK done \in SUBSET {BuyerOf(k) : k \in Payloads(w)} :
           /\ Phase(w, "users", "orders", {BuyerOf(k) : k \in Payloads(w)}, done)
           /\ users' = users \cup done
           /\ UNCHANGED <<orders, lines>>
    BY <1>4 DEF WriteUsers
  <2>2. users' \subseteq Buyers
    BY <1>1, <2>1 DEF TypeOK, Payloads, OrderKey, BuyerOf
  <2> QED
    BY <1>2, <1>3, <2>1, <2>2 DEF TypeOK, Writing
<1>5. CASE WriteOrders(w)
  <2>1. PICK done \in SUBSET Payloads(w) :
           /\ Phase(w, "orders", "lines", Payloads(w), done)
           /\ orders' = orders \cup done
           /\ UNCHANGED <<users, lines>>
    BY <1>5 DEF WriteOrders
  <2>2. orders' \subseteq OrderKey
    BY <1>1, <2>1 DEF TypeOK, Payloads
  <2> QED
    BY <1>2, <1>3, <2>1, <2>2 DEF TypeOK, Writing
<1>6. CASE WriteLines(w)
  <2>1. PICK done :
           /\ Phase(w, "lines", "ack", {LineOf(w, k) : k \in Payloads(w)}, done)
           /\ lines' = [kp \in OrderKey \X Products |-> UpsertLine(kp, done)]
           /\ UNCHANGED <<users, orders>>
    BY <1>6 DEF WriteLines
  <2>2. lines' \in [OrderKey \X Products -> Nat]
    BY <2>1 DEF TypeOK, UpsertLine
  <2> QED
    BY <1>2, <1>3, <2>1, <2>2 DEF TypeOK, Writing
<1> QED
  BY <1>4, <1>5, <1>6

(* XADD may push the oldest entries out; the others keep their numbers.    *)
LEMMA EnqueueLog ==
    ASSUME TypeOK, NEW k \in OrderKey, Enqueue(k)
    PROVE  /\ log' \in Seq(OrderKey) /\ Len(log') = Len(log) + 1
           /\ gone' \in gone..Len(log')
           /\ \A i \in Ids : log'[i] = log[i]
           /\ log'[Len(log')] = k
           /\ \E n \in gone..Max({gone, Len(log) + 1 - MaxLen}) : gone' = n
<1>1. log' = Append(log, k) /\ log \in Seq(OrderKey)
  BY DEF Enqueue, TypeOK
<1>2. /\ log' \in Seq(OrderKey) /\ Len(log') = Len(log) + 1
      /\ \A i \in Ids : log'[i] = log[i]
      /\ log'[Len(log')] = k
  BY <1>1, AppendProperties, Numbers DEF Ids
<1>3. Max({gone, Len(log) + 1 - MaxLen}) \in Int
      /\ Max({gone, Len(log) + 1 - MaxLen}) <= Len(log)
  <2> DEFINE over == Len(log) + 1 - MaxLen
  <2>1. over \in Int /\ over <= Len(log) /\ gone \in Int /\ gone <= Len(log)
    BY Numbers
  <2> HIDE DEF over
  <2>2. Max({gone, over}) = IF gone >= over THEN gone ELSE over
    BY <2>1, OfTwo, Zenon
  <2>3. Max({gone, over}) \in Int /\ Max({gone, over}) <= Len(log)
    BY <2>1, <2>2
  <2> QED
    BY <2>3 DEF over
<1>4. \E n \in gone..Max({gone, Len(log) + 1 - MaxLen}) : gone' = n
  BY DEF Enqueue
<1> QED
  BY <1>2, <1>3, <1>4, Numbers

(* A later start and an earlier end leave less of an interval.             *)
LEMMA Narrower ==
    ASSUME NEW lo \in Nat, NEW lo1 \in Nat, NEW hi \in Nat, NEW hi1 \in Nat, NEW m \in Nat,
           lo <= lo1, m <= hi
    PROVE  \A i \in (lo1 + 1)..hi1 : i <= m => i \in (lo + 1)..hi
  OBVIOUS

LEMMA EnqueueStep ==
    ASSUME Track, NEW k \in OrderKey, Enqueue(k)
    PROVE  Track'
<1> USE DEF Track, workerVars, mongoVars
<1>1. UNCHANGED <<group, last, pel, pc, running, name, batch, users, orders, lines, acked, faults>>
  BY DEF Enqueue
<1>2. /\ log' \in Seq(OrderKey) /\ Len(log') = Len(log) + 1
      /\ gone' \in gone..Len(log')
  BY EnqueueLog
<1>3. Ids \subseteq Ids' /\ gone' \in 0..Len(log') /\ last \in 0..Len(log') /\ gone' >= gone
  BY <1>2, Numbers DEF Ids
<1>4. TypeOK'
  <2>1. pel \in [Names -> SUBSET Ids'] /\ batch \in [Workers -> SUBSET Ids'] /\ acked \subseteq Ids'
    BY <1>3 DEF TypeOK
  <2> QED
    BY <1>1, <1>2, <1>3, <2>1 DEF TypeOK
<1>5. Owned' /\ Delivered' /\ OnePlace' /\ Exclusive' /\ Idle'
  BY <1>1 DEF Owned, Delivered, OnePlace, Exclusive, Idle
<1>6. NoGroup'
  BY <1>1, <1>3, Numbers DEF NoGroup
<1>7. Tracked'
  <2>1. gone' \in Nat /\ gone \in Nat /\ last \in Nat /\ Len(log) \in Nat /\ Len(log') \in Nat
    BY <1>2, <1>3, Numbers
  <2>2. gone <= gone' /\ last <= Len(log)
    BY <1>3, Numbers
  <2>3. \A i \in Live' : i <= last => i \in Live
    BY <2>1, <2>2, Narrower DEF Live
  <2> QED
    BY <1>1, <2>3 DEF Tracked
<1> QED
  BY <1>4, <1>5, <1>6, <1>7

(* The stream is lost, with its group and whatever was pending.            *)
LEMMA LoseStep ==
    ASSUME Track, LoseStream
    PROVE  Track'
<1> USE DEF Track, LoseStream, workerVars, mongoVars
<1>1. last' = Len(log) /\ last' >= last /\ last' \in Nat /\ last \in Nat
  BY Numbers
<1>2. TypeOK'
  <2>1. faults' \in 0..MaxFaults /\ gone' \in 0..Len(log) /\ last' \in 0..Len(log)
    BY <1>1, BatchAssumption DEF TypeOK
  <2>2. pel' \in [Names -> SUBSET Ids'] /\ Ids' = Ids
    BY DEF Ids
  <2> QED
    BY <2>1, <2>2 DEF TypeOK
<1>3. Delivered'
  <2>1. 1..last \subseteq 1..last'
    BY <1>1
  <2> QED
    BY <2>1 DEF Delivered
<1>4. Owned' /\ NoGroup' /\ OnePlace' /\ Exclusive' /\ Idle'
  BY <1>1 DEF Owned, NoGroup, OnePlace, Exclusive, Idle
<1>5. Tracked'
  BY <1>1 DEF Tracked, Live
<1> QED
  BY <1>2, <1>3, <1>4, <1>5

LEMMA NextTrack == Track /\ [LossyNext]_vars => Track'
<1> SUFFICES ASSUME Track, [LossyNext]_vars PROVE Track'
  OBVIOUS
<1>1. ASSUME NEW w \in Workers, WorkerStep(w) \/ Fault(w) \/ GroupFails(w) PROVE Track'
  BY <1>1, LocalStep, GroupStep, QueueStep, WriteStep DEF WorkerStep, Fault
<1>2. ASSUME NEW k \in OrderKey, Enqueue(k) PROVE Track'
  BY <1>2, EnqueueStep
<1>3. CASE LoseStream
  BY <1>3, LoseStep
<1>4. CASE UNCHANGED vars
  BY <1>4 DEF vars, redisVars, workerVars, mongoVars, Track, TypeOK, Owned, Delivered,
              NoGroup, OnePlace, Tracked, Exclusive, Idle, Ids, Live
<1> QED
  BY <1>1, <1>2, <1>3, <1>4 DEF LossyNext, BootNext, Next

(* The delivery invariant holds whatever fails, is trimmed or is lost.     *)
THEOREM Tracking == LossySpec => []Track
<1>1. Init => Track
  BY InitTrack
<1>2. Track /\ [LossyNext]_vars => Track'
  BY NextTrack
<1> QED
  BY <1>1, <1>2, PTL DEF LossySpec

(* Type correctness; in particular no empty batch is ever written.         *)
THEOREM Types == LossySpec => []TypeOK
<1>1. Track => TypeOK
  BY DEF Track
<1> QED
  BY <1>1, Tracking, PTL

(* At-least-once delivery: an entry of the stream that was delivered and   *)
(* not acknowledged is pending with exactly one consumer.                  *)
THEOREM NobodyInLimbo == LossySpec => []NoLimbo
<1>1. Track => NoLimbo
  <2> SUFFICES ASSUME Track, NEW i \in Live
               PROVE  Cardinality({c \in Names : i \in pel[c]})
                        = IF i <= last /\ i \notin acked THEN 1 ELSE 0
    BY DEF NoLimbo
  <2> DEFINE holders == {c \in Names : i \in pel[c]}
  <2>1. CASE i <= last /\ i \notin acked
    <3>1. PICK c \in Names : i \in pel[c]
      BY <2>1 DEF Track, Tracked
    <3>2. holders = {c}
      BY <3>1 DEF Track, OnePlace
    <3>3. Cardinality(holders) = 1
      BY <3>2, FS_Singleton
    <3> QED
      BY <2>1, <3>3
  <2>2. CASE ~(i <= last /\ i \notin acked)
    <3>1. holders = {}
      BY <2>2 DEF Track, OnePlace, Delivered
    <3>2. Cardinality(holders) = 0
      BY <3>1, FS_EmptySet
    <3> QED
      BY <2>2, <3>2
  <2> QED
    BY <2>1, <2>2
<1> QED
  BY <1>1, Tracking, PTL

(* No two workers ever write the same entry, through crashes, changed      *)
(* names and a lost stream: the upsert without a unique index is safe.     *)
THEOREM OneWriter == LossySpec => []SingleConsumer
<1>1. Track => SingleConsumer
  BY DEF Track, Exclusive, SingleConsumer
<1> QED
  BY <1>1, Tracking, PTL

-----------------------------------------------------------------------------
(* Rows is inductive.                                                      *)

(* With one sale, the line of an order is found by its buyer.              *)
LEMMA LineIs ==
    ASSUME OneSale, NEW w \in Workers, Payloads(w) \subseteq OrderKey, NEW k \in Payloads(w)
    PROVE  LineOf(w, k) = <<k, ProductOf[SaleOf(k)]>>
<1>1. \A j \in Payloads(w) : BuyerOf(j) = BuyerOf(k) => j = k
  <2> SUFFICES ASSUME NEW j \in Payloads(w), BuyerOf(j) = BuyerOf(k) PROVE j = k
    OBVIOUS
  <2>1. j \in Sales \X Buyers /\ k \in Sales \X Buyers
    BY DEF OrderKey
  <2>2. j[1] = k[1]
    BY <2>1 DEF OneSale
  <2>3. j[2] = k[2]
    BY DEF BuyerOf
  <2> QED
    BY <2>1, <2>2, <2>3
<1> DEFINE Found(x) == /\ BuyerOf(x) = BuyerOf(k)
                       /\ \A j \in Payloads(w) :
                             BuyerOf(j) = BuyerOf(k) =>
                                j = x \/ FirstSeen(w, SaleOf(j)) < FirstSeen(w, SaleOf(x))
<1>2. \E x \in Payloads(w) : Found(x)
  BY <1>1
<1>3. OrderByEmail(w, BuyerOf(k)) = CHOOSE x \in Payloads(w) : Found(x)
  BY DEF OrderByEmail
<1>4. OrderByEmail(w, BuyerOf(k)) \in Payloads(w) /\ Found(OrderByEmail(w, BuyerOf(k)))
  BY <1>2, <1>3, Zenon
<1> QED
  BY <1>1, <1>4 DEF LineOf

(* Steps that write no row leave every worker in the bulk write where it   *)
(* is, or take it out.                                                     *)
LEMMA RowsQuiet ==
    ASSUME Rows, Track', UNCHANGED <<log, mongoVars, acked>>,
           \A w \in Workers : pc'[w] \in {"orders", "lines", "ack"} =>
                                 pc'[w] = pc[w] /\ batch'[w] = batch[w]
    PROVE  Rows'
  BY DEF Rows, Staged, AckedIsDurable, AuditConsistent, Durable, Queued, Ids, OneSale, mongoVars

LEMMA RowsLocal ==
    ASSUME Rows, Track', NEW w \in Workers,
           Start(w) \/ EnsureGroup(w) \/ Loop(w) \/ Backoff(w) \/ ReadPending(w) \/ ReadBatch(w)
           \/ ReadRejected(w) \/ ReadFails(w) \/ Stop(w) \/ Crash(w) \/ GroupFails(w)
    PROVE  Rows'
<1>1. pc \in [Workers -> Stages] /\ batch \in [Workers -> SUBSET Ids]
  BY DEF Rows, Track, TypeOK
<1>2. UNCHANGED <<log, mongoVars, acked>>
  BY DEF Start, EnsureGroup, Loop, Backoff, ReadPending, ReadBatch, ReadRejected, ReadFails,
         Stop, Crash, GroupFails, redisVars, mongoVars
<1>3. \/ pc'[w] \notin {"orders", "lines", "ack"}
      \/ pc'[w] = pc[w] /\ batch'[w] = batch[w]
  BY <1>1 DEF Start, EnsureGroup, Loop, Backoff, ReadPending, ReadBatch, ReadRejected, ReadFails,
              Stop, Crash, GroupFails, Fail, Goto, IfAny, workerVars
<1>4. \A v \in Workers : v # w => pc'[v] = pc[v] /\ batch'[v] = batch[v]
  BY <1>1 DEF Start, EnsureGroup, Loop, Backoff, ReadPending, ReadBatch, ReadRejected, ReadFails,
              Stop, Crash, GroupFails, Fail, Goto, workerVars
<1> QED
  BY <1>2, <1>3, <1>4, RowsQuiet

(* An acknowledged batch has been through every stage.                     *)
LEMMA RowsAck ==
    ASSUME Rows, Track', NEW w \in Workers, Ack(w) \/ AckFails(w)
    PROVE  Rows'
<1> USE DEF Rows
<1>1. pc \in [Workers -> Stages] /\ batch \in [Workers -> SUBSET Ids]
  BY DEF Track, TypeOK
<1>2. pc[w] = "ack" /\ UNCHANGED <<log, mongoVars>>
  BY DEF Ack, AckFails
<1>3. acked' \subseteq acked \cup batch[w]
  BY DEF Ack, AckFails, Acknowledge
<1>4. \A i \in batch[w] : Durable(log[i])
  BY <1>2 DEF Staged, Durable
<1>5. AckedIsDurable'
  BY <1>2, <1>3, <1>4 DEF AckedIsDurable, Durable, mongoVars
<1>6. pc'[w] \notin {"orders", "lines", "ack"}
  BY <1>1 DEF Ack, AckFails, Fail, Goto
<1>7. \A v \in Workers : v # w => pc'[v] = pc[v] /\ batch'[v] = batch[v]
  BY <1>1 DEF Ack, AckFails, Fail, Goto
<1>8. Staged'
  BY <1>2, <1>6, <1>7 DEF Staged, mongoVars
<1>9. AuditConsistent' /\ OneSale'
  BY <1>2 DEF AuditConsistent, OneSale, Queued, Ids, mongoVars
<1> QED
  BY <1>5, <1>8, <1>9

LEMMA RowsEnqueue ==
    ASSUME Rows, Track', NEW k \in OrderKey, Enqueue(k)
    PROVE  Rows'
<1> USE DEF Rows
<1>1. UNCHANGED <<pc, batch, mongoVars, acked>>
  BY DEF Enqueue, workerVars
<1>2. TypeOK
  BY DEF Track
<1>3. Ids \subseteq Ids' /\ \A i \in Ids : log'[i] = log[i]
  BY <1>2, EnqueueLog, Numbers DEF Ids
<1>4. acked \subseteq Ids /\ \A w \in Workers : batch[w] \subseteq Ids
  BY <1>2 DEF TypeOK
<1>5. AckedIsDurable'
  BY <1>1, <1>3, <1>4 DEF AckedIsDurable, Durable, mongoVars
<1>6. Staged'
  BY <1>1, <1>3, <1>4 DEF Staged, mongoVars
<1>7. AuditConsistent' /\ OneSale'
  BY <1>1, <1>3 DEF AuditConsistent, OneSale, Queued, mongoVars
<1> QED
  BY <1>5, <1>6, <1>7

(* What a phase does to the workers: this one goes on with all of its      *)
(* operations applied, or backs off; the others stay.                      *)
LEMMA PhaseMoves ==
    ASSUME Track, NEW w \in Workers, NEW stage, NEW next, NEW ops, NEW done,
           Phase(w, stage, next, ops, done)
    PROVE  /\ pc[w] = stage /\ done \subseteq ops
           /\ UNCHANGED <<log, batch, acked>>
           /\ (pc'[w] = next /\ done = ops) \/ pc'[w] = "backoff"
           /\ \A v \in Workers : v # w => pc'[v] = pc[v]
<1>1. pc \in [Workers -> Stages]
  BY DEF Track, TypeOK
<1> QED
  BY <1>1 DEF Phase, Fail, Goto, redisVars

(* The payloads of a batch were queued.                                    *)
LEMMA PayloadsQueued ==
    ASSUME Track, NEW w \in Workers
    PROVE  /\ Payloads(w) \subseteq OrderKey
           /\ \A k \in Payloads(w) : Queued(k) /\ \E i \in batch[w] : log[i] = k
           /\ \A i \in batch[w] : log[i] \in Payloads(w)
<1>1. TypeOK /\ batch[w] \subseteq Ids
  BY DEF Track, TypeOK
<1>2. \A i \in Ids : log[i] \in OrderKey
  BY <1>1, Numbers
<1> QED
  BY <1>1, <1>2 DEF Payloads, Queued

LEMMA RowsUsers ==
    ASSUME Rows, Track', NEW w \in Workers, WriteUsers(w)
    PROVE  Rows'
<1> USE DEF Rows
<1> DEFINE ops == {BuyerOf(k) : k \in Payloads(w)}
<1>1. PICK done \in SUBSET ops : /\ Phase(w, "users", "orders", ops, done)
                                 /\ users' = users \cup done
                                 /\ UNCHANGED <<orders, lines>>
  BY DEF WriteUsers
<1>2. /\ UNCHANGED <<log, batch, acked>>
      /\ (pc'[w] = "orders" /\ done = ops) \/ pc'[w] = "backoff"
      /\ \A v \in Workers : v # w => pc'[v] = pc[v]
  BY <1>1, PhaseMoves
<1>3. \A i \in batch[w] : BuyerOf(log[i]) \in ops
  BY PayloadsQueued
<1>4. Staged'
  BY <1>1, <1>2, <1>3 DEF Staged
<1>5. AckedIsDurable' /\ AuditConsistent' /\ OneSale'
  BY <1>1, <1>2 DEF AckedIsDurable, AuditConsistent, Durable, Queued, Ids, OneSale
<1> QED
  BY <1>4, <1>5

LEMMA RowsOrders ==
    ASSUME Rows, Track', NEW w \in Workers, WriteOrders(w)
    PROVE  Rows'
<1> USE DEF Rows
<1>1. PICK done \in SUBSET Payloads(w) : /\ Phase(w, "orders", "lines", Payloads(w), done)
                                         /\ orders' = orders \cup done
                                         /\ UNCHANGED <<users, lines>>
  BY DEF WriteOrders
<1>2. /\ pc[w] = "orders" /\ UNCHANGED <<log, batch, acked>>
      /\ (pc'[w] = "lines" /\ done = Payloads(w)) \/ pc'[w] = "backoff"
      /\ \A v \in Workers : v # w => pc'[v] = pc[v]
  BY <1>1, PhaseMoves
<1>3. \A k \in done : BuyerOf(k) \in users /\ Queued(k)
  BY <1>2, PayloadsQueued DEF Staged
<1>4. \A i \in batch[w] : log[i] \in Payloads(w)
  BY PayloadsQueued
<1>5. Staged'
  BY <1>1, <1>2, <1>4 DEF Staged
<1>6. AckedIsDurable' /\ OneSale'
  BY <1>1, <1>2 DEF AckedIsDurable, Durable, OneSale
<1>7. AuditConsistent'
  BY <1>1, <1>2, <1>3 DEF AuditConsistent, Queued, Ids
<1> QED
  BY <1>5, <1>6, <1>7

LEMMA RowsLines ==
    ASSUME Rows, Track', NEW w \in Workers, WriteLines(w)
    PROVE  Rows'
<1> USE DEF Rows
<1> DEFINE ops == {LineOf(w, k) : k \in Payloads(w)}
           line(k) == <<k, ProductOf[SaleOf(k)]>>
<1>1. PICK done \in SUBSET ops :
         /\ Phase(w, "lines", "ack", ops, done)
         /\ lines' = [kp \in OrderKey \X Products |-> UpsertLine(kp, done)]
         /\ UNCHANGED <<users, orders>>
  BY DEF WriteLines
<1>2. /\ pc[w] = "lines" /\ UNCHANGED <<log, batch, acked>>
      /\ (pc'[w] = "ack" /\ done = ops) \/ pc'[w] = "backoff"
      /\ \A v \in Workers : v # w => pc'[v] = pc[v]
  BY <1>1, PhaseMoves
<1>3. /\ Payloads(w) \subseteq OrderKey
      /\ \A k \in Payloads(w) : LineOf(w, k) = line(k) /\ k \in orders
  BY <1>2, PayloadsQueued, LineIs DEF Staged
<1>4. TypeOK
  BY DEF Track
<1>5. \A k \in OrderKey : line(k) \in OrderKey \X Products
  BY ProductAssumption DEF OrderKey, SaleOf
<1>6. \A kp \in OrderKey \X Products :
         /\ lines[kp] \in Nat
         /\ lines'[kp] = IF kp \in done /\ lines[kp] = 0 THEN 1 ELSE lines[kp]
  BY <1>1, <1>4 DEF TypeOK, UpsertLine
<1>7. \A k \in OrderKey : lines[line(k)] > 0 => lines'[line(k)] > 0
  BY <1>5, <1>6
<1>8. pc'[w] = "ack" => \A i \in batch[w] : lines'[line(log[i])] > 0
  <2> SUFFICES ASSUME pc'[w] = "ack", NEW i \in batch[w] PROVE lines'[line(log[i])] > 0
    OBVIOUS
  <2>1. log[i] \in Payloads(w) /\ log[i] \in OrderKey
    BY <1>3, PayloadsQueued
  <2>2. line(log[i]) \in done /\ line(log[i]) \in OrderKey \X Products
    BY <1>2, <1>3, <1>5, <2>1
  <2> HIDE DEF line
  <2> QED
    BY <1>6, <2>2
<1>9. \A v \in Workers : \A i \in batch[v] : log[i] \in OrderKey
  BY PayloadsQueued
<1>10. Staged'
  <2> SUFFICES ASSUME NEW v \in Workers, NEW i \in batch[v]
               PROVE  /\ pc'[v] \in {"orders", "lines", "ack"} => BuyerOf(log[i]) \in users
                      /\ pc'[v] \in {"lines", "ack"} => log[i] \in orders
                      /\ pc'[v] = "ack" => lines'[line(log[i])] > 0
    BY <1>1, <1>2 DEF Staged
  <2>1. log[i] \in OrderKey
    BY <1>9
  <2>2. /\ pc[v] \in {"orders", "lines", "ack"} => BuyerOf(log[i]) \in users
        /\ pc[v] \in {"lines", "ack"} => log[i] \in orders
        /\ pc[v] = "ack" => lines[line(log[i])] > 0
    BY DEF Staged
  <2> HIDE DEF line
  <2>3. CASE v = w
    BY <1>2, <1>8, <2>2, <2>3
  <2>4. CASE v # w
    BY <1>2, <1>7, <2>1, <2>2, <2>4
  <2> QED
    BY <2>3, <2>4
<1>11. \A i \in acked : log[i] \in OrderKey
  BY <1>4, Numbers DEF TypeOK
<1>12. AckedIsDurable' /\ OneSale'
  BY <1>1, <1>2, <1>7, <1>11 DEF AckedIsDurable, Durable, OneSale
<1>13. AuditConsistent'
  <2>1. ASSUME NEW k \in OrderKey, NEW p \in Products, lines'[<<k, p>>] # 0
        PROVE  lines'[<<k, p>>] = 1 /\ k \in orders /\ p = ProductOf[SaleOf(k)]
    <3>1. CASE lines[<<k, p>>] # 0
      BY <1>6, <2>1, <3>1 DEF AuditConsistent
    <3>2. CASE lines[<<k, p>>] = 0
      <4>1. <<k, p>> \in done /\ lines'[<<k, p>>] = 1
        BY <1>6, <2>1, <3>2
      <4>2. PICK j \in Payloads(w) : <<k, p>> = line(j)
        BY <1>1, <1>3, <4>1
      <4> QED
        BY <1>3, <4>1, <4>2
    <3> QED
      BY <3>1, <3>2
  <2> QED
    BY <1>1, <1>2, <2>1 DEF AuditConsistent, Queued, Ids
<1> QED
  BY <1>10, <1>12, <1>13

LEMMA InitRows == OneSale /\ Init => Rows
<1> SUFFICES ASSUME OneSale, Init PROVE Rows
  OBVIOUS
<1>1. Staged /\ AckedIsDurable
  BY DEF Init, Staged, AckedIsDurable
<1>2. AuditConsistent
  BY DEF Init, AuditConsistent
<1> QED
  BY <1>1, <1>2, InitTrack DEF Rows

LEMMA NextRows == Rows /\ [LossyNext]_vars => Rows'
<1> SUFFICES ASSUME Rows, [LossyNext]_vars PROVE Rows'
  OBVIOUS
<1>1. Track'
  BY NextTrack DEF Rows
<1>2. ASSUME NEW w \in Workers, WorkerStep(w) \/ Fault(w) \/ GroupFails(w) PROVE Rows'
  BY <1>1, <1>2, RowsLocal, RowsAck, RowsUsers, RowsOrders, RowsLines DEF WorkerStep, Fault
<1>3. ASSUME NEW k \in OrderKey, Enqueue(k) PROVE Rows'
  BY <1>1, <1>3, RowsEnqueue
<1>4. CASE LoseStream
  BY <1>1, <1>4, RowsQuiet DEF LoseStream, workerVars
<1>5. CASE UNCHANGED vars
  BY <1>1, <1>5, RowsQuiet DEF vars, redisVars, workerVars
<1> QED
  BY <1>2, <1>3, <1>4, <1>5 DEF LossyNext, BootNext, Next

(* With one sale wired, as bootstrap does, MongoDB follows the stages of   *)
(* the bulk write.                                                         *)
THEOREM RowsHold == OneSale /\ LossySpec => []Rows
<1>1. OneSale /\ Init => Rows
  BY InitRows
<1>2. Rows /\ [LossyNext]_vars => Rows'
  BY NextRows
<1> QED
  BY <1>1, <1>2, PTL DEF LossySpec

(* With one sale, whatever is acknowledged is in MongoDB: the user, the    *)
(* order and its line.                                                     *)
THEOREM AckedDurable == OneSale /\ LossySpec => []AckedIsDurable
<1>1. Rows => AckedIsDurable
  BY DEF Rows
<1> QED
  BY <1>1, RowsHold, PTL

(* With one sale, redelivery never duplicates a row and no row dangles.    *)
THEOREM NoDanglingRow == OneSale /\ LossySpec => []AuditConsistent
<1>1. Rows => AuditConsistent
  BY DEF Rows
<1> QED
  BY <1>1, RowsHold, PTL
=============================================================================
