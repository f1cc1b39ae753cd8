-------------------------- MODULE SaleEventsProofs --------------------------
(***************************************************************************)
(* Proofs about SaleEvents, for every number of instances, streams and     *)
(* units: when no event was lost and nothing is under way every open       *)
(* stream shows the present sale, and, whatever was lost, an open stream   *)
(* never goes back to an older state.                                      *)
(***************************************************************************)
EXTENDS SaleEvents, SequenceTheorems, TLAPS

Askers == Streams \cup {"emit", "net"}
Read   == [by : Askers \cup {"nobody"}, val : Nat \cup {Unread}]

(* Nobody waits for two GETs at a time, and who waits has a reason to.     *)
OneEach ==
    \A i, j \in DOMAIN reads :
        reads[i].by = reads[j].by /\ reads[i].by # "nobody" => i = j

Awaited ==
    /\ Waiting("emit") => chain > 0
    /\ \A s \in Streams : Waiting(s) => stage[s] = "connecting"

(* Only a connecting stream holds frames back, an open one was sent one.   *)
Held ==
    \A s \in Streams : /\ buffer[s] # <<>> => stage[s] = "connecting"
                       /\ stage[s] = "open" => shown[s] \in Frames

(* A boundary that lies ahead has its timer on every instance.             *)
Timers ==
    \A a \in Apis : /\ phase = "before" => "sale.started" \in armed[a]
                    /\ phase # "closed" => "sale.ended" \in armed[a]

Hears == faults = 0 => subscribed

(* The answer to whoever asks will be the present stock, if nothing sells. *)
UpToDate(by) ==
    \A i \in DOMAIN reads : reads[i].by = by => reads[i].val \in {Unread, stock}

(* A frame that tells of the present sale is still to come: its event is   *)
(* owed or due, its emit is pending, or the last link of the chain has yet *)
(* to read, or has read the present stock.                                 *)
EventOwed == \E a \in Apis : owed[a] # <<>> \/ \E e \in armed[a] : Due(e)

EmitOwed == chain > 1 \/ (chain = 1 /\ UpToDate("emit"))

(* Or every stream shows it, or will once its snapshot is sent.            *)
SentTo(s) ==
    /\ stage[s] = "open" => shown[s] = Frame(stock)
    /\ stage[s] = "connecting" /\ buffer[s] = <<>> => UpToDate(s)
    /\ stage[s] = "connecting" /\ buffer[s] # <<>> => Last(buffer[s]) = Frame(stock)

Current == UpToDate("emit") /\ \A s \in Streams : SentTo(s)

Synced == faults = 0 => EventOwed \/ pending \/ EmitOwed \/ Current

(* The answers of a pipelined connection grow older with their place in it.*)
Ordered ==
    /\ \A i \in DOMAIN reads :
         reads[i].val # Unread => stock <= reads[i].val /\ reads[i].by # "nobody"
    /\ \A i, j \in DOMAIN reads :
         i < j /\ reads[i].by # "nobody" /\ reads[j].val # Unread
             => reads[i].val # Unread /\ reads[j].val <= reads[i].val

(* Whatever is composed from now on is not older than f.                   *)
Fits(n) == \A i \in DOMAIN reads : reads[i].val # Unread => reads[i].val <= n

Behind(f) ==
    /\ stock <= f.stock /\ Fits(f.stock)
    /\ \A n \in 0..f.stock : NotOlder(f, Frame(n))

Given == {shown[s] : s \in {t \in Streams : stage[t] = "open"}}
             \cup {Last(buffer[s]) : s \in {t \in Streams : buffer[t] # <<>>}}

Advancing == \A f \in Given : Behind(f)

Base == TypeOK /\ OneEach /\ Awaited /\ Held /\ Timers
IInv == Base /\ Hears /\ Synced
OInv == Base /\ Ordered /\ Advancing

(* What each step is shown to do.                                          *)
Preserved == /\ Base'
             /\ IInv => Hears' /\ Synced'
             /\ OInv => Ordered' /\ Advancing'

-----------------------------------------------------------------------------
(* The five things that happen to the GETs of the connection, and what     *)
(* each means for who waits, for how long ago, and in which order.         *)

LEMMA ReadsType ==
    ASSUME TypeOK
    PROVE  /\ reads \in Seq(Read) /\ Len(reads) \in Nat /\ DOMAIN reads = 1..Len(reads)
           /\ \A i \in DOMAIN reads : reads[i] \in Read
           /\ stock \in Nat /\ Unread \notin Nat
           /\ "nobody" \notin Askers /\ "emit" \notin Streams /\ "net" \notin Streams
<1>1. reads \in Seq(Read)
  BY DEF TypeOK, Read, Askers
<1>2. Len(reads) \in Nat /\ DOMAIN reads = 1..Len(reads) /\ reads \in [1..Len(reads) -> Read]
  BY <1>1, LenProperties
<1>3. stock \in Nat /\ Unread \notin Nat
  BY StockAssumption, UnreadAssumption DEF TypeOK
<1> QED
  BY <1>1, <1>2, <1>3, StreamAssumption DEF Askers

(* A GET is written.                                                       *)
LEMMA Written ==
    ASSUME TypeOK, OneEach, NEW by \in Askers, Get(by), ~Waiting(by), stock' = stock
    PROVE  /\ reads' \in Seq(Read) /\ OneEach'
           /\ \A b \in Askers : Waiting(b)' <=> Waiting(b) \/ b = by
           /\ \A b \in Askers : UpToDate(b) => UpToDate(b)'
           /\ Ordered => Ordered'
           /\ \A n \in Nat : Fits(n) => Fits(n)'
<1> DEFINE new == [by |-> by, val |-> Unread]
           n == Len(reads)
<1>1. new \in Read /\ reads' = Append(reads, new)
  BY DEF Read, Get
<1>2. /\ reads' \in Seq(Read) /\ n \in Nat /\ DOMAIN reads = 1..n /\ Len(reads') = n + 1
      /\ \A i \in 1..n : reads'[i] = reads[i]
      /\ reads'[n + 1] = new
  BY <1>1, ReadsType, AppendProperties
<1>3. DOMAIN reads' = 1..(n + 1)
  BY <1>2, LenProperties
<1>4. new.by = by /\ new.val = Unread
  OBVIOUS
<1>5. \A i \in 1..n : reads[i].by # by
  BY <1>2 DEF Waiting
<1> HIDE DEF new, n
<1>6. \A i \in 1..(n + 1) : i \in 1..n \/ i = n + 1
  BY <1>2
<1>7. n + 1 \in 1..(n + 1) /\ 1..n \subseteq 1..(n + 1)
  BY <1>2
<1>8. OneEach'
  BY <1>2, <1>3, <1>4, <1>5, <1>6 DEF OneEach
<1>9. \A b \in Askers : Waiting(b)' <=> Waiting(b) \/ b = by
  BY <1>2, <1>3, <1>4, <1>6, <1>7 DEF Waiting
<1>10. \A b \in Askers : UpToDate(b) => UpToDate(b)'
  BY <1>2, <1>3, <1>4, <1>6 DEF UpToDate
<1>11. Ordered => Ordered'
  <2> SUFFICES ASSUME Ordered PROVE Ordered'
    OBVIOUS
  <2>1. \A i \in 1..(n + 1) : reads'[i].val # Unread => i \in 1..n
    BY <1>2, <1>4, <1>6
  <2>2. \A i \in DOMAIN reads' :
          reads'[i].val # Unread => stock' <= reads'[i].val /\ reads'[i].by # "nobody"
    BY <1>2, <1>3, <2>1 DEF Ordered
  <2>3. ASSUME NEW i \in DOMAIN reads', NEW j \in DOMAIN reads', i < j,
               reads'[i].by # "nobody", reads'[j].val # Unread
        PROVE  reads'[i].val # Unread /\ reads'[j].val <= reads'[i].val
    <3>1. i \in 1..n /\ j \in 1..n
      BY <1>2, <1>3, <2>1, <2>3
    <3> QED
      BY <1>2, <2>3, <3>1 DEF Ordered
  <2> QED
    BY <2>2, <2>3 DEF Ordered
<1>12. \A m \in Nat : Fits(m) => Fits(m)'
  BY <1>2, <1>3, <1>4, <1>6 DEF Fits
<1> QED
  BY <1>2, <1>8, <1>9, <1>10, <1>11, <1>12

(* Redis executes one.                                                     *)
LEMMA Executed ==
    ASSUME TypeOK, OneEach, ExecGet
    PROVE  /\ reads' \in Seq(Read) /\ OneEach'
           /\ \A b \in Askers : Waiting(b)' <=> Waiting(b)
           /\ \A b \in Askers : UpToDate(b) => UpToDate(b)'
           /\ Ordered => Ordered'
           /\ \A n \in Nat : Fits(n) /\ stock <= n => Fits(n)'
<1>1. PICK k \in DOMAIN reads :
         /\ reads[k].by # "nobody" /\ reads[k].val = Unread
         /\ \A j \in 1..(k - 1) : reads[j].by = "nobody" \/ reads[j].val # Unread
         /\ reads' = [reads EXCEPT ![k].val = stock]
  BY DEF ExecGet
<1>2. UNCHANGED stock
  BY DEF ExecGet, saleVars
<1> DEFINE new == [reads[k] EXCEPT !.val = stock]
           n == Len(reads)
<1>3. new \in Read /\ new.by = reads[k].by /\ new.val = stock /\ stock # Unread
  BY ReadsType DEF Read
<1>4. reads' = [reads EXCEPT ![k] = new]
  BY <1>1
<1> HIDE DEF new
<1>5. /\ reads' \in Seq(Read) /\ n \in Nat /\ DOMAIN reads = 1..n /\ k \in 1..n
      /\ DOMAIN reads' = 1..n
      /\ \A i \in 1..n : reads'[i] = IF i = k THEN new ELSE reads[i]
  BY <1>3, <1>4, ReadsType, ExceptSeq
<1>6. \A i \in 1..n : reads'[i].by = reads[i].by
  BY <1>3, <1>5
<1> HIDE DEF n
<1>7. OneEach'
  BY <1>5, <1>6 DEF OneEach
<1>8. \A b \in Askers : Waiting(b)' <=> Waiting(b)
  BY <1>5, <1>6 DEF Waiting
<1>9. \A b \in Askers : UpToDate(b) => UpToDate(b)'
  BY <1>2, <1>3, <1>5, <1>6 DEF UpToDate
<1>10. Ordered => Ordered'
  <2> SUFFICES ASSUME Ordered PROVE Ordered'
    OBVIOUS
  <2>1. \A i \in DOMAIN reads' :
          reads'[i].val # Unread => stock' <= reads'[i].val /\ reads'[i].by # "nobody"
    BY <1>1, <1>2, <1>3, <1>5, ReadsType DEF Ordered
  <2>2. ASSUME NEW i \in DOMAIN reads', NEW j \in DOMAIN reads', i < j,
               reads'[i].by # "nobody", reads'[j].val # Unread
        PROVE  reads'[i].val # Unread /\ reads'[j].val <= reads'[i].val
    <3>1. CASE i = k
      <4>1. reads[j].val = Unread
        BY <1>1, <1>5, <1>6, <2>2, <3>1 DEF Ordered
      <4> QED
        BY <1>5, <2>2, <3>1, <4>1
    <3>2. CASE j = k
      <4>1. i \in 1..(k - 1)
        BY <1>5, <2>2, <3>2
      <4>2. reads[i].val # Unread /\ reads'[i] = reads[i]
        BY <1>1, <1>5, <1>6, <2>2, <4>1
      <4> QED
        BY <1>3, <1>5, <3>2, <4>2 DEF Ordered
    <3>3. CASE i # k /\ j # k
      BY <1>5, <2>2, <3>3 DEF Ordered
    <3> QED
      BY <3>1, <3>2, <3>3
  <2> QED
    BY <2>1, <2>2 DEF Ordered
<1>11. \A m \in Nat : Fits(m) /\ stock <= m => Fits(m)'
  BY <1>3, <1>5 DEF Fits
<1> QED
  BY <1>5, <1>7, <1>8, <1>9, <1>10, <1>11

(* A reply is taken off the connection.                                    *)
LEMMA Taken ==
    ASSUME TypeOK, OneEach, reads # <<>>, reads' = Tail(reads), stock' = stock
    PROVE  /\ reads' \in Seq(Read) /\ OneEach' /\ Head(reads) \in Read
           /\ \A b \in Askers : Waiting(b)' <=> Waiting(b) /\ b # Head(reads).by
           /\ Head(reads).by \in Askers => Waiting(Head(reads).by)
           /\ \A b \in Askers : UpToDate(b) => UpToDate(b)'
           /\ \A b \in Askers : UpToDate(b) /\ b = Head(reads).by
                                    => Head(reads).val \in {Unread, stock}
           /\ Ordered => Ordered'
           /\ \A n \in Nat : Ordered /\ Head(reads).val = n => Fits(n)' /\ stock <= n
           /\ \A n \in Nat : Fits(n) => /\ Fits(n)'
                                        /\ Head(reads).val # Unread => Head(reads).val <= n
<1> DEFINE n == Len(reads)
           h == Head(reads)
<1>1. /\ reads' \in Seq(Read) /\ Len(reads') = n - 1 /\ h = reads[1] /\ h \in Read
      /\ \A i \in 1..Len(reads') : reads'[i] = reads[i + 1]
      /\ n \in Nat /\ DOMAIN reads = 1..n
  BY ReadsType, HeadTailProperties
<1>2. DOMAIN reads' = 1..(n - 1)
  BY <1>1, LenProperties
<1>3. n > 0 /\ 1 \in 1..n
  BY <1>1, ReadsType, EmptySeq
<1>4. \A i \in 1..(n - 1) : i + 1 \in 1..n /\ i + 1 # 1 /\ reads'[i] = reads[i + 1]
  BY <1>1, <1>3
<1>5. \A j \in 1..n : j # 1 => j - 1 \in 1..(n - 1) /\ reads'[j - 1] = reads[j]
  BY <1>1, <1>3
<1> HIDE DEF n, h
<1>6. OneEach'
  <2> SUFFICES ASSUME NEW i \in 1..(n - 1), NEW j \in 1..(n - 1),
                      reads'[i].by = reads'[j].by, reads'[i].by # "nobody"
               PROVE  i = j
    BY <1>2 DEF OneEach
  <2>1. i + 1 = j + 1
    BY <1>1, <1>4 DEF OneEach
  <2> QED
    BY <1>1, <2>1
<1>7. \A b \in Askers : Waiting(b)' <=> Waiting(b) /\ b # h.by
  <2> SUFFICES ASSUME NEW b \in Askers PROVE Waiting(b)' <=> Waiting(b) /\ b # h.by
    OBVIOUS
  <2>1. ASSUME Waiting(b)' PROVE Waiting(b) /\ b # h.by
    <3>1. PICK i \in 1..(n - 1) : reads'[i].by = b
      BY <1>2, <2>1 DEF Waiting
    <3>2. i + 1 \in DOMAIN reads /\ reads[i + 1].by = b /\ b # "nobody"
      BY <1>1, <1>4, <3>1, ReadsType
    <3> QED
      BY <1>1, <1>3, <1>4, <3>2 DEF Waiting, OneEach
  <2>2. ASSUME Waiting(b), b # h.by PROVE Waiting(b)'
    <3>1. PICK j \in 1..n : reads[j].by = b
      BY <1>1, <2>2 DEF Waiting
    <3> QED
      BY <1>1, <1>2, <1>5, <2>2, <3>1 DEF Waiting
  <2> QED
    BY <2>1, <2>2
<1>8. h.by \in Askers => Waiting(h.by)
  BY <1>1, <1>3 DEF Waiting
<1>9. \A b \in Askers : UpToDate(b) => UpToDate(b)'
  BY <1>1, <1>2, <1>4 DEF UpToDate
<1>10. \A b \in Askers : UpToDate(b) /\ b = h.by => h.val \in {Unread, stock}
  BY <1>1, <1>3 DEF UpToDate
<1>11. ASSUME Ordered
       PROVE  Ordered' /\ \A m \in Nat : h.val = m => Fits(m)' /\ stock <= m
  <2>1. \A i \in DOMAIN reads' :
          reads'[i].val # Unread => stock' <= reads'[i].val /\ reads'[i].by # "nobody"
    BY <1>1, <1>2, <1>4, <1>11 DEF Ordered
  <2>2. ASSUME NEW i \in DOMAIN reads', NEW j \in DOMAIN reads', i < j,
               reads'[i].by # "nobody", reads'[j].val # Unread
        PROVE  reads'[i].val # Unread /\ reads'[j].val <= reads'[i].val
    <3>1. /\ i + 1 \in DOMAIN reads /\ j + 1 \in DOMAIN reads /\ i + 1 < j + 1
          /\ reads'[i] = reads[i + 1] /\ reads'[j] = reads[j + 1]
      BY <1>1, <1>2, <1>4, <2>2
    <3> QED
      BY <1>11, <2>2, <3>1 DEF Ordered
  <2>3. ASSUME NEW m \in Nat, h.val = m, NEW i \in DOMAIN reads', reads'[i].val # Unread
        PROVE  reads'[i].val <= m
    <3>1. /\ 1 \in DOMAIN reads /\ i + 1 \in DOMAIN reads /\ 1 < i + 1
          /\ reads'[i] = reads[i + 1]
      BY <1>1, <1>2, <1>3, <1>4, <2>3
    <3>2. reads[1].val # Unread /\ reads[i + 1].val # Unread
      BY <1>1, <2>3, <3>1, ReadsType
    <3> QED
      BY <1>1, <1>11, <2>3, <3>1, <3>2 DEF Ordered
  <2>4. \A m \in Nat : h.val = m => stock <= m
    BY <1>1, <1>3, <1>11, ReadsType DEF Ordered
  <2>5. Ordered'
    BY <2>1, <2>2 DEF Ordered
  <2>6. ASSUME NEW m \in Nat, h.val = m PROVE Fits(m)'
    BY <2>3, <2>6 DEF Fits
  <2> QED
    BY <2>4, <2>5, <2>6
<1>12. \A m \in Nat : Fits(m) => Fits(m)' /\ (h.val # Unread => h.val <= m)
  BY <1>1, <1>2, <1>3, <1>4 DEF Fits
<1> QED
  BY <1>1, <1>6, <1>7, <1>8, <1>9, <1>10, <1>11, <1>12 DEF h

(* Some are given up.                                                      *)
LEMMA GivenUp ==
    ASSUME TypeOK, OneEach, stock' = stock, NEW S, NEW R, End(S, R)
    PROVE  /\ reads' \in Seq(Read) /\ OneEach'
           /\ \A b \in Askers : Waiting(b)' <=> Waiting(b) /\ b \notin R
           /\ \A b \in Askers : UpToDate(b) => UpToDate(b)'
           /\ Ordered => Ordered'
           /\ \A n \in Nat : Fits(n) => Fits(n)'
<1> DEFINE n == Len(reads)
<1>1. /\ n \in Nat /\ DOMAIN reads = 1..n /\ \A i \in 1..n : reads[i] \in Read
      /\ "nobody" \notin Askers
  BY ReadsType
<1>2. Abandoned \in Read /\ Abandoned.by = "nobody" /\ Abandoned.val = Unread
  BY DEF Abandoned, Read
<1>3. reads' = [i \in 1..n |-> IF reads[i].by \in R THEN Abandoned ELSE reads[i]]
  BY <1>1 DEF End
<1> HIDE DEF n
<1>4. /\ DOMAIN reads' = 1..n
      /\ \A i \in 1..n : reads'[i] = IF reads[i].by \in R THEN Abandoned ELSE reads[i]
  BY <1>3
<1>5. reads' \in [1..n -> Read]
  BY <1>1, <1>2, <1>3
<1>6. reads' \in Seq(Read)
  BY <1>1, <1>5, SeqDef
<1>7. OneEach'
  BY <1>1, <1>2, <1>4 DEF OneEach
<1>8. \A b \in Askers : Waiting(b)' <=> Waiting(b) /\ b \notin R
  BY <1>1, <1>2, <1>4 DEF Waiting
<1>9. \A b \in Askers : UpToDate(b) => UpToDate(b)'
  BY <1>1, <1>2, <1>4 DEF UpToDate
<1>10. Ordered => Ordered'
  BY <1>1, <1>2, <1>4 DEF Ordered
<1>11. \A m \in Nat : Fits(m) => Fits(m)'
  BY <1>1, <1>2, <1>4 DEF Fits
<1> QED
  BY <1>6, <1>7, <1>8, <1>9, <1>10, <1>11

-----------------------------------------------------------------------------
(* Frames.                                                                 *)

LEMMA FrameType ==
    ASSUME TypeOK
    PROVE  \A n \in Nat : Frame(n) \in Frames
  BY DEF TypeOK, Phases, Frame, Frames, Status, Statuses

LEMMA GivenType ==
    ASSUME TypeOK, Held
    PROVE  Given \subseteq Frames
<1>1. \A s \in Streams : stage[s] = "open" => shown[s] \in Frames
  BY DEF Held
<1>2. ASSUME NEW s \in Streams, buffer[s] # <<>>
      PROVE  Last(buffer[s]) \in Frames
  <2>1. buffer[s] \in Seq(Frames)
    BY DEF TypeOK
  <2>2. Len(buffer[s]) \in 1..Len(buffer[s])
    BY <1>2, <2>1, EmptySeq
  <2> QED
    BY <2>1, <2>2, ElementOfSeq DEF Last
<1> QED
  BY <1>1, <1>2 DEF Given

(* While a sale sells, a lower counter makes a later frame.                *)
LEMMA Later ==
    ASSUME TypeOK, NEW n \in Nat, NEW m \in 0..n
    PROVE  NotOlder(Frame(n), Frame(m))
  BY DEF TypeOK, Phases, Frame, Status, NotOlder, Rank

-----------------------------------------------------------------------------
(* The sale and its publishers: nothing under way on the connection.       *)

LEMMA QuietReads ==
    ASSUME UNCHANGED reads
    PROVE  /\ OneEach <=> OneEach'
           /\ \A b \in Askers : Waiting(b)' <=> Waiting(b)
           /\ stock' = stock => \A b \in Askers : UpToDate(b) <=> UpToDate(b)'
           /\ \A n \in Nat : Fits(n) <=> Fits(n)'
<1>1. OneEach <=> OneEach'
  BY DEF OneEach
<1>2. \A b \in Askers : Waiting(b)' <=> Waiting(b)
  BY DEF Waiting
<1>3. stock' = stock => \A b \in Askers : UpToDate(b) <=> UpToDate(b)'
  BY DEF UpToDate
<1>4. \A n \in Nat : Fits(n) <=> Fits(n)'
  BY DEF Fits
<1> QED
  BY <1>1, <1>2, <1>3, <1>4

LEMMA TickKeeps == ASSUME Base, Tick PROVE Preserved
<1>1. /\ UNCHANGED <<stock, armed, owed, subscribed, chain, pending, sawTerminal,
                     reads, stage, buffer, shown, faults>>
      /\ \/ phase = "before" /\ phase' = "open"
         \/ phase = "open" /\ phase' = "closed"
  BY DEF Tick, ownerVars, emitVars, streamVars
<1>2. TypeOK' /\ TypeOK
  BY <1>1 DEF Base, TypeOK, Phases
<1>3. Base'
  <2>1. OneEach'
    BY <1>1 DEF Base, OneEach
  <2>2. Awaited'
    BY <1>1 DEF Base, Awaited, Waiting
  <2>3. Held'
    BY <1>1 DEF Base, Held
  <2>4. Timers'
    BY <1>1 DEF Base, Timers
  <2> QED
    BY <1>2, <2>1, <2>2, <2>3, <2>4 DEF Base
<1>4. EventOwed'
  <2>1. "sale.started" \in armed[Self] \/ phase # "before"
    BY SelfAssumption DEF Base, Timers
  <2>2. "sale.ended" \in armed[Self] \/ phase = "closed"
    BY SelfAssumption DEF Base, Timers
  <2>3. \E e \in armed'[Self] : Due(e)'
    BY <1>1, <2>1, <2>2 DEF Due
  <2> QED
    BY <2>3, SelfAssumption DEF EventOwed
<1>5. IInv => Hears' /\ Synced'
  BY <1>1, <1>4 DEF IInv, Hears, Synced
<1>6. ASSUME OInv PROVE Ordered' /\ Advancing'
  <2>1. Ordered'
    BY <1>1, <1>6 DEF OInv, Ordered
  <2>2. Given' = Given /\ Given \subseteq Frames
    BY <1>1, GivenType DEF Given, Base
  <2>3. ASSUME NEW f \in Frames, Behind(f) PROVE Behind(f)'
    <3>1. f.stock \in Nat /\ f.status \in Statuses
      BY DEF Frames
    <3>2. stock' <= f.stock /\ Fits(f.stock)'
      BY <1>1, <2>3, <3>1, QuietReads DEF Behind
    <3>3. \A n \in 0..f.stock : NotOlder(f, Frame(n))
      BY <2>3 DEF Behind
    <3>4. \A n \in 0..f.stock : NotOlder(f, Frame(n))'
      BY <1>1, <3>1, <3>3 DEF NotOlder, Frame, Status, Rank, Statuses
    <3> QED
      BY <3>2, <3>4 DEF Behind
  <2> QED
    BY <1>6, <2>1, <2>2, <2>3 DEF OInv, Advancing
<1> QED
  BY <1>3, <1>5, <1>6 DEF Preserved

(* A link added to the chain has yet to read.                              *)
LEMMA OneMore ==
    ASSUME chain \in Nat, Emit, Waiting("emit")' => chain > 0
    PROVE  EmitOwed'
<1>1. chain' > 1 \/ (chain' = 1 /\ ~Waiting("emit")')
  BY DEF Emit
<1>2. ~Waiting("emit")' => UpToDate("emit")'
  BY DEF Waiting, UpToDate
<1> QED
  BY <1>1, <1>2 DEF EmitOwed

LEMMA CurrentKept ==
    ASSUME Current, UNCHANGED <<phase, stock, stage, buffer, shown>>,
           \A b \in Askers : UpToDate(b) => UpToDate(b)'
    PROVE  Current'
<1>1. UpToDate("emit")'
  BY DEF Current, Askers
<1>2. ASSUME NEW s \in Streams PROVE SentTo(s)'
  <2>1. Frame(stock)' = Frame(stock)
    BY DEF Frame, Status
  <2>2. SentTo(s) /\ (UpToDate(s) => UpToDate(s)')
    BY DEF Current, Askers
  <2> QED
    BY <2>1, <2>2 DEF SentTo
<1> QED
  BY <1>1, <1>2 DEF Current

LEMMA BehindKept ==
    ASSUME TypeOK, UNCHANGED phase, stock' \in Nat, stock' <= stock,
           \A n \in Nat : Fits(n) /\ stock <= n => Fits(n)'
    PROVE  \A f \in Frames : Behind(f) => Behind(f)'
<1> SUFFICES ASSUME NEW f \in Frames, Behind(f) PROVE Behind(f)'
  OBVIOUS
<1>1. f.stock \in Nat /\ stock \in Nat
  BY ReadsType DEF Frames
<1>2. stock' <= f.stock /\ Fits(f.stock)'
  BY <1>1 DEF Behind
<1>3. \A n \in 0..f.stock : NotOlder(f, Frame(n))'
  BY DEF Behind, NotOlder, Frame, Status, Rank
<1> QED
  BY <1>2, <1>3 DEF Behind

LEMMA FramesKept ==
    ASSUME TypeOK, Held, Advancing, UNCHANGED phase, stock' \in Nat, stock' <= stock,
           \A n \in Nat : Fits(n) /\ stock <= n => Fits(n)', Given' \subseteq Given
    PROVE  Advancing'
  BY BehindKept, GivenType DEF Advancing

LEMMA SellKeeps == ASSUME Base, NEW a \in Apis, Sell(a) PROVE Preserved
<1>1. /\ UNCHANGED <<phase, armed, subscribed, chain, pending, sawTerminal,
                     reads, stage, buffer, shown, faults>>
      /\ stock > 0 /\ stock' = stock - 1
  BY DEF Sell, emitVars, streamVars
<1>2. stock \in Nat /\ stock' \in Nat /\ stock' <= stock /\ stock' \in 0..Stock
  BY <1>1, StockAssumption DEF Base, TypeOK
<1>3. owed' \in [Apis -> Seq(Events)] /\ owed'[a] # <<>>
  <2> DEFINE new == IF stock = 1 THEN <<"order.accepted", "sale.sold_out">>
                                 ELSE <<"order.accepted">>
  <2>1. /\ <<"order.accepted">> \in Seq(Events) /\ Len(<<"order.accepted">>) = 1
        /\ <<"order.accepted", "sale.sold_out">> \in Seq(Events)
        /\ Len(<<"order.accepted", "sale.sold_out">>) = 2
    BY DEF Events, Terminal
  <2>2. new \in Seq(Events) /\ Len(new) \in Nat /\ Len(new) > 0
    BY <2>1
  <2>3. owed' = [owed EXCEPT ![a] = @ \o new] /\ owed \in [Apis -> Seq(Events)]
    BY DEF Sell, Base, TypeOK
  <2> HIDE DEF new
  <2>4. /\ owed[a] \o new \in Seq(Events)
        /\ Len(owed[a] \o new) = Len(owed[a]) + Len(new) /\ Len(owed[a]) \in Nat
    BY <2>2, <2>3, ConcatProperties, LenProperties
  <2>5. owed[a] \o new # <<>>
    BY <2>2, <2>4, EmptySeq
  <2> QED
    BY <2>3, <2>4, <2>5
<1>4. TypeOK'
  BY <1>1, <1>2, <1>3 DEF Base, TypeOK
<1>5. Base'
  BY <1>1, <1>4 DEF Base, OneEach, Awaited, Waiting, Held, Timers
<1>6. EventOwed'
  BY <1>3 DEF EventOwed
<1>7. IInv => Hears' /\ Synced'
  BY <1>1, <1>6 DEF IInv, Hears, Synced
<1>8. ASSUME OInv PROVE Ordered' /\ Advancing'
  <2>1. Ordered'
    BY <1>1, <1>2, <1>8, ReadsType DEF OInv, Ordered, Base, Read
  <2>2. Advancing'
    BY <1>1, <1>2, <1>8, FramesKept, QuietReads DEF OInv, Base, Given
  <2> QED
    BY <2>1, <2>2
<1> QED
  BY <1>5, <1>7, <1>8 DEF Preserved

(* What does not touch the sale, the connection or the streams.            *)
LEMMA OffStage ==
    ASSUME Base, UNCHANGED <<phase, stock, reads, stage, buffer, shown>>,
           TypeOK', Timers', chain \in Nat, chain' \in Nat, chain' >= chain
    PROVE  /\ Base'
           /\ OInv => Ordered' /\ Advancing'
           /\ Current => Current'
           /\ chain' = chain /\ EmitOwed => EmitOwed'
<1>1. Base'
  BY DEF Base, OneEach, Awaited, Waiting, Held
<1>2. ASSUME OInv PROVE Ordered' /\ Advancing'
  <2>1. Ordered'
    BY <1>2 DEF OInv, Ordered
  <2>2. Advancing'
    BY <1>2, FramesKept, QuietReads, ReadsType DEF OInv, Base, Given
  <2> QED
    BY <2>1, <2>2
<1>3. Current => Current'
  BY CurrentKept, QuietReads
<1>4. chain' = chain /\ EmitOwed => EmitOwed'
  BY QuietReads DEF EmitOwed, Askers
<1> QED
  BY <1>1, <1>2, <1>3, <1>4

LEMMA TimerKeeps ==
    ASSUME Base, NEW a \in Apis, NEW e \in Boundaries, TimerFires(a, e) PROVE Preserved
<1>1. /\ UNCHANGED <<phase, stock, subscribed, chain, pending, sawTerminal,
                     reads, stage, buffer, shown, faults>>
      /\ e \in armed[a] /\ Due(e)
      /\ armed' = [armed EXCEPT ![a] = @ \ {e}]
      /\ owed' = [owed EXCEPT ![a] = Append(@, e)]
  BY DEF TimerFires, saleVars, emitVars, streamVars
<1>2. chain \in Nat /\ armed \in [Apis -> SUBSET Boundaries] /\ owed \in [Apis -> Seq(Events)]
      /\ e \in Events
  BY DEF Base, TypeOK, Boundaries, Events, Terminal
<1>3. Append(owed[a], e) \in Seq(Events) /\ Append(owed[a], e) # <<>>
  BY <1>2, AppendProperties
<1>4. TypeOK'
  BY <1>1, <1>2, <1>3 DEF Base, TypeOK
<1>5. Timers'
  BY <1>1, <1>2 DEF Base, Timers, Due, Phases, TypeOK
<1>6. EventOwed'
  BY <1>1, <1>2, <1>3 DEF EventOwed
<1>7. IInv => Hears' /\ Synced'
  BY <1>1, <1>6 DEF IInv, Hears, Synced
<1> QED
  BY <1>1, <1>2, <1>4, <1>5, <1>7, OffStage DEF Preserved

LEMMA LoseEventsKeeps == ASSUME Base, NEW a \in Apis, LoseEvents(a) PROVE Preserved
<1>1. /\ UNCHANGED <<phase, stock, armed, subscribed, chain, pending, sawTerminal,
                     reads, stage, buffer, shown>>
      /\ faults' = faults + 1 /\ faults < MaxFaults
  BY DEF LoseEvents, saleVars, emitVars, streamVars, Fault
<1>2. PICK n \in 1..Len(owed[a]) : owed' = [owed EXCEPT ![a] = SubSeq(@, n + 1, Len(@))]
  BY DEF LoseEvents
<1>3. owed \in [Apis -> Seq(Events)] /\ faults \in 0..MaxFaults /\ chain \in Nat
  BY DEF Base, TypeOK
<1>4. SubSeq(owed[a], n + 1, Len(owed[a])) \in Seq(Events)
  <2>1. owed[a] \in Seq(Events) /\ Len(owed[a]) \in Nat
    BY <1>3, LenProperties
  <2>2. \A i \in (n + 1)..Len(owed[a]) : owed[a][i] \in Events
    BY <2>1, ElementOfSeq
  <2> QED
    BY <2>1, <2>2, SubSeqProperties
<1>5. TypeOK' /\ Timers' /\ faults' # 0
  BY <1>1, <1>2, <1>3, <1>4, StockAssumption DEF Base, TypeOK, Timers
<1> QED
  BY <1>1, <1>3, <1>5, OffStage DEF Preserved, Hears, Synced

LEMMA PublishKeeps == ASSUME Base, NEW a \in Apis, Publish(a) PROVE Preserved
<1>1. /\ UNCHANGED <<phase, stock, armed, subscribed, reads, stage, buffer, shown, faults>>
      /\ owed[a] # <<>> /\ owed' = [owed EXCEPT ![a] = Tail(@)]
      /\ IF subscribed THEN OnDomainEvent(Head(owed[a])) ELSE UNCHANGED emitVars
  BY DEF Publish, saleVars, streamVars
<1>2. /\ owed \in [Apis -> Seq(Events)] /\ chain \in Nat
      /\ pending \in BOOLEAN /\ sawTerminal \in BOOLEAN
  BY DEF Base, TypeOK
<1>3. Tail(owed[a]) \in Seq(Events)
  BY <1>1, <1>2, HeadTailProperties
<1>4. /\ chain' \in {chain, chain + 1} /\ pending' \in BOOLEAN /\ sawTerminal' \in BOOLEAN
      /\ subscribed => pending' \/ Emit
  BY <1>1, <1>2 DEF OnDomainEvent, Coalesce, Emit, emitVars
<1>5. TypeOK' /\ Timers'
  BY <1>1, <1>2, <1>3, <1>4 DEF Base, TypeOK, Timers
<1>6. Emit => EmitOwed'
  BY <1>1, <1>2, OneMore, QuietReads DEF Base, Awaited, Askers
<1>7. IInv => Hears' /\ Synced'
  BY <1>1, <1>4, <1>6 DEF IInv, Hears, Synced
<1> QED
  BY <1>1, <1>2, <1>4, <1>5, <1>7, OffStage DEF Preserved

LEMMA PendingKeeps == ASSUME Base, PendingFires PROVE Preserved
<1>1. /\ UNCHANGED <<phase, stock, armed, owed, subscribed, sawTerminal,
                     reads, stage, buffer, shown, faults>>
      /\ pending' = FALSE /\ Emit
  BY DEF PendingFires, saleVars, ownerVars, streamVars
<1>2. chain \in Nat /\ chain' = chain + 1
  BY <1>1 DEF Base, TypeOK, Emit
<1>3. TypeOK' /\ Timers'
  <2>1. pending' \in BOOLEAN
    BY <1>1
  <2> QED
    BY <1>1, <1>2, <2>1 DEF Base, TypeOK, Timers
<1>4. EmitOwed'
  BY <1>1, <1>2, OneMore, QuietReads DEF Base, Awaited, Askers
<1>5. IInv => Hears' /\ Synced'
  BY <1>1, <1>4 DEF IInv, Hears, Synced
<1> QED
  BY <1>1, <1>2, <1>3, <1>5, OffStage DEF Preserved

LEMMA ResubscribeKeeps == ASSUME Base, Resubscribe PROVE Preserved
<1>1. /\ UNCHANGED <<phase, stock, armed, owed, chain, pending, sawTerminal,
                     reads, stage, buffer, shown, faults>>
      /\ ~subscribed /\ subscribed' = TRUE
  BY DEF Resubscribe, saleVars, ownerVars, emitVars, streamVars
<1>2. chain \in Nat /\ TypeOK' /\ Timers'
  BY <1>1 DEF Base, TypeOK, Timers
<1>3. IInv => Hears' /\ Synced'
  BY <1>1 DEF IInv, Hears, Synced
<1> QED
  BY <1>1, <1>2, <1>3, OffStage DEF Preserved

-----------------------------------------------------------------------------
(* The broadcaster's own reads: the sale and the streams stay as they are. *)

LEMMA BackStage ==
    ASSUME Base, UNCHANGED <<phase, stock, armed, stage, buffer, shown>>,
           TypeOK', OneEach', Awaited',
           \A b \in Askers : UpToDate(b) => UpToDate(b)', Ordered => Ordered',
           \A n \in Nat : Fits(n) /\ stock <= n => Fits(n)'
    PROVE  /\ Base'
           /\ OInv => Ordered' /\ Advancing'
           /\ Current => Current'
           /\ chain' = chain /\ EmitOwed => EmitOwed'
<1>1. Base'
  BY DEF Base, Held, Timers
<1>2. ASSUME OInv PROVE Ordered' /\ Advancing'
  BY <1>2, FramesKept, ReadsType DEF OInv, Base, Given
<1>3. Current => Current'
  BY CurrentKept
<1>4. chain' = chain /\ EmitOwed => EmitOwed'
  BY DEF EmitOwed, Askers
<1> QED
  BY <1>1, <1>2, <1>3, <1>4

LEMMA StartEmitKeeps == ASSUME Base, StartEmit PROVE Preserved
<1>1. /\ UNCHANGED <<phase, stock, armed, owed, subscribed, pending, sawTerminal,
                     stage, buffer, shown, faults>>
      /\ chain > 0 /\ ~Waiting("emit") /\ chain \in Nat /\ "emit" \in Askers
  BY DEF StartEmit, saleVars, ownerVars, streamVars, Base, TypeOK, Askers
<1>2. CASE Sinks = {} /\ chain' = chain - 1 /\ UNCHANGED reads
  <2>1. TypeOK' /\ OneEach' /\ Awaited'
    <3>1. TypeOK'
      BY <1>1, <1>2 DEF Base, TypeOK
    <3>2. OneEach'
      BY <1>2 DEF Base, OneEach
    <3>3. Awaited'
      BY <1>1, <1>2 DEF Base, Awaited, Waiting
    <3> QED
      BY <3>1, <3>2, <3>3
  <2>2. Ordered => Ordered'
    BY <1>1, <1>2 DEF Ordered
  <2>3. Current'
    <3>1. UpToDate("emit")'
      BY <1>1, <1>2 DEF Waiting, UpToDate
    <3>2. \A s \in Streams : stage'[s] = "off"
      BY <1>1, <1>2 DEF Sinks
    <3> QED
      BY <3>1, <3>2 DEF Current, SentTo
  <2>4. IInv => Hears' /\ Synced'
    BY <1>1, <2>3 DEF IInv, Hears, Synced
  <2> QED
    BY <1>1, <1>2, <2>1, <2>2, <2>4, BackStage, QuietReads DEF Preserved
<1>3. CASE Get("emit") /\ UNCHANGED chain
  <2>1. /\ reads' \in Seq(Read) /\ OneEach'
        /\ \A b \in Askers : Waiting(b)' <=> Waiting(b) \/ b = "emit"
        /\ \A b \in Askers : UpToDate(b) => UpToDate(b)'
        /\ Ordered => Ordered'
        /\ \A n \in Nat : Fits(n) => Fits(n)'
    BY <1>1, <1>3, Written DEF Base
  <2>2. TypeOK'
    BY <1>1, <1>3, <2>1 DEF Base, TypeOK, Read, Askers
  <2>3. Awaited'
    BY <1>1, <1>3, <2>1, ReadsType DEF Base, Awaited, Askers
  <2>4. Base' /\ (OInv => Ordered' /\ Advancing') /\ (Current => Current')
        /\ (EmitOwed => EmitOwed')
    BY <1>1, <1>3, <2>1, <2>2, <2>3, BackStage
  <2>5. IInv => Hears' /\ Synced'
    BY <1>1, <2>4 DEF IInv, Hears, Synced, EventOwed, Due
  <2> QED
    BY <2>4, <2>5 DEF Preserved
<1> QED
  BY <1>2, <1>3 DEF StartEmit

LEMMA BeatKeeps == ASSUME Base, Beat PROVE Preserved
<1>1. /\ UNCHANGED <<phase, stock, armed, owed, subscribed, chain, pending, sawTerminal,
                     stage, buffer, shown, faults>>
      /\ ~Waiting("net") /\ Get("net") /\ "net" \in Askers
  BY DEF Beat, saleVars, ownerVars, emitVars, streamVars, Askers
<1>2. /\ reads' \in Seq(Read) /\ OneEach'
      /\ \A b \in Askers : Waiting(b)' <=> Waiting(b) \/ b = "net"
      /\ \A b \in Askers : UpToDate(b) => UpToDate(b)'
      /\ Ordered => Ordered'
      /\ \A n \in Nat : Fits(n) => Fits(n)'
  BY <1>1, Written DEF Base
<1>3. TypeOK'
  BY <1>1, <1>2 DEF Base, TypeOK, Read, Askers
<1>4. Awaited'
  BY <1>1, <1>2, ReadsType DEF Base, Awaited, Askers
<1>5. Base' /\ (OInv => Ordered' /\ Advancing') /\ (Current => Current')
      /\ (EmitOwed => EmitOwed')
  BY <1>1, <1>2, <1>3, <1>4, BackStage
<1>6. IInv => Hears' /\ Synced'
  BY <1>1, <1>5 DEF IInv, Hears, Synced, EventOwed, Due
<1> QED
  BY <1>5, <1>6 DEF Preserved

LEMMA ExecKeeps == ASSUME Base, ExecGet PROVE Preserved
<1>1. UNCHANGED <<phase, stock, armed, owed, subscribed, chain, pending, sawTerminal,
                  stage, buffer, shown, faults>>
  BY DEF ExecGet, saleVars, ownerVars, emitVars, streamVars
<1>2. /\ reads' \in Seq(Read) /\ OneEach'
      /\ \A b \in Askers : Waiting(b)' <=> Waiting(b)
      /\ \A b \in Askers : UpToDate(b) => UpToDate(b)'
      /\ Ordered => Ordered'
      /\ \A n \in Nat : Fits(n) /\ stock <= n => Fits(n)'
  BY Executed DEF Base
<1>3. TypeOK'
  BY <1>1, <1>2 DEF Base, TypeOK, Read, Askers
<1>4. Awaited'
  BY <1>1, <1>2 DEF Base, Awaited, Askers
<1>5. Base' /\ (OInv => Ordered' /\ Advancing') /\ (Current => Current')
      /\ (EmitOwed => EmitOwed')
  BY <1>1, <1>2, <1>3, <1>4, BackStage
<1>6. IInv => Hears' /\ Synced'
  BY <1>1, <1>5 DEF IInv, Hears, Synced, EventOwed, Due
<1> QED
  BY <1>5, <1>6 DEF Preserved

LEMMA DropKeeps == ASSUME Base, DropReply PROVE Preserved
<1>1. /\ UNCHANGED <<phase, stock, armed, owed, subscribed, chain, pending, sawTerminal,
                     stage, buffer, shown, faults>>
      /\ reads # <<>> /\ reads' = Tail(reads) /\ Head(reads).by = "nobody"
  BY DEF DropReply, saleVars, ownerVars, emitVars, streamVars, Abandoned
<1>2. /\ reads' \in Seq(Read) /\ OneEach'
      /\ \A b \in Askers : Waiting(b)' <=> Waiting(b)
      /\ \A b \in Askers : UpToDate(b) => UpToDate(b)'
      /\ Ordered => Ordered'
      /\ \A n \in Nat : Fits(n) => Fits(n)'
  BY <1>1, Taken, ReadsType DEF Base
<1>3. TypeOK'
  BY <1>1, <1>2 DEF Base, TypeOK, Read, Askers
<1>4. Awaited'
  BY <1>1, <1>2 DEF Base, Awaited, Askers
<1>5. Base' /\ (OInv => Ordered' /\ Advancing') /\ (Current => Current')
      /\ (EmitOwed => EmitOwed')
  BY <1>1, <1>2, <1>3, <1>4, BackStage
<1>6. IInv => Hears' /\ Synced'
  BY <1>1, <1>5 DEF IInv, Hears, Synced, EventOwed, Due
<1> QED
  BY <1>5, <1>6 DEF Preserved

LEMMA NetReadKeeps == ASSUME Base, OnNetRead PROVE Preserved
<1>1. /\ UNCHANGED <<phase, stock, armed, owed, subscribed, pending,
                     stage, buffer, shown, faults>>
      /\ reads # <<>> /\ reads' = Tail(reads) /\ Head(reads).by = "net"
      /\ sawTerminal' \in BOOLEAN /\ (Emit \/ UNCHANGED chain)
  BY DEF OnNetRead, saleVars, ownerVars, streamVars, Answered, Base, TypeOK
<1>2. /\ reads' \in Seq(Read) /\ OneEach'
      /\ \A b \in Askers : Waiting(b)' => Waiting(b)
      /\ \A b \in Askers : UpToDate(b) => UpToDate(b)'
      /\ Ordered => Ordered'
      /\ \A n \in Nat : Fits(n) => Fits(n)'
  BY <1>1, Taken DEF Base
<1>3. chain \in Nat /\ chain' \in Nat /\ chain' >= chain
  BY <1>1 DEF Base, TypeOK, Emit
<1>4. TypeOK'
  BY <1>1, <1>2, <1>3 DEF Base, TypeOK, Read, Askers
<1>5. Awaited'
  BY <1>1, <1>2, <1>3 DEF Base, Awaited, Askers
<1>6. Base' /\ (OInv => Ordered' /\ Advancing') /\ (Current => Current')
      /\ (chain' = chain /\ EmitOwed => EmitOwed')
  BY <1>1, <1>2, <1>4, <1>5, BackStage
<1>7. Emit => EmitOwed'
  BY <1>2, <1>3, OneMore DEF Base, Awaited, Askers
<1>8. IInv => Hears' /\ Synced'
  BY <1>1, <1>6, <1>7 DEF IInv, Hears, Synced, EventOwed, Due
<1> QED
  BY <1>6, <1>8 DEF Preserved

-----------------------------------------------------------------------------
(* The frames, as they are composed.                                       *)

(* A frame composed from the oldest read is behind nothing that follows.   *)
LEMMA NewFrame ==
    ASSUME Base, Ordered, UNCHANGED <<phase, stock>>, reads # <<>>, reads' = Tail(reads),
           Head(reads).val # Unread
    PROVE  \A f : f = Fresh => f \in Frames /\ Behind(f)'
<1>1. Head(reads).val \in Nat /\ OneEach /\ TypeOK
  BY Taken DEF Base, Read
<1>2. PICK v \in Nat : v = Head(reads).val
  BY <1>1
<1>3. Fits(v)' /\ stock' <= v
  BY <1>1, <1>2, Taken
<1>4. SUFFICES ASSUME NEW f, f = Frame(v) PROVE f \in Frames /\ Behind(f)'
  BY <1>2 DEF Fresh
<1>5. f \in Frames /\ f.stock = v
  BY <1>1, <1>4, FrameType DEF Frame
<1>6. \A n \in 0..v : NotOlder(f, Frame(n))'
  <2>1. \A n \in 0..v : NotOlder(Frame(v), Frame(n))
    BY <1>1, Later
  <2> QED
    BY <1>4, <2>1 DEF NotOlder, Frame, Status, Rank
<1> QED
  BY <1>3, <1>5, <1>6 DEF Behind

LEMMA EmitReadKeeps == ASSUME Base, OnEmitRead PROVE Preserved
<1>1. /\ UNCHANGED <<phase, stock, armed, owed, subscribed, pending, sawTerminal,
                     stage, faults>>
      /\ reads # <<>> /\ reads' = Tail(reads) /\ Head(reads).by = "emit"
      /\ Head(reads).val # Unread /\ chain' = chain - 1
  BY DEF OnEmitRead, saleVars, ownerVars, Answered
<1>2. PICK f : f = Fresh
  OBVIOUS
<1>3. /\ buffer' = [s \in Streams |-> IF stage[s] = "connecting"
                                      THEN Append(buffer[s], f) ELSE buffer[s]]
      /\ shown' = [s \in Streams |-> IF stage[s] = "open" THEN f ELSE shown[s]]
  BY <1>2 DEF OnEmitRead, Sinks
<1>4. /\ reads' \in Seq(Read) /\ OneEach' /\ Head(reads) \in Read
      /\ \A b \in Askers : Waiting(b)' <=> Waiting(b) /\ b # "emit"
      /\ Waiting("emit")
      /\ \A b \in Askers : UpToDate(b) => UpToDate(b)'
      /\ UpToDate("emit") => Head(reads).val = stock
      /\ Ordered => Ordered'
      /\ \A n \in Nat : Fits(n) => Fits(n)'
  BY <1>1, Taken DEF Base, Askers
<1>5. f \in Frames
  BY <1>1, <1>2, <1>4, FrameType DEF Fresh, Read, Base
<1>6. chain \in Nat /\ chain > 0 /\ chain' \in Nat
  BY <1>1, <1>4 DEF Base, TypeOK, Awaited
<1>7. /\ buffer \in [Streams -> Seq(Frames)] /\ shown \in [Streams -> Frames \cup {NoFrame}]
      /\ \A s \in Streams : /\ Append(buffer[s], f) \in Seq(Frames)
                            /\ Append(buffer[s], f) # <<>>
                            /\ Last(Append(buffer[s], f)) = f
  <2>1. buffer \in [Streams -> Seq(Frames)] /\ shown \in [Streams -> Frames \cup {NoFrame}]
    BY DEF Base, TypeOK
  <2> QED
    BY <1>5, <2>1, AppendProperties DEF Last
<1>8. TypeOK'
  <2>1. buffer' \in [Streams -> Seq(Frames)]
    BY <1>3, <1>7
  <2>2. shown' \in [Streams -> Frames \cup {NoFrame}]
    BY <1>3, <1>5, <1>7
  <2> QED
    BY <1>1, <1>4, <1>6, <2>1, <2>2 DEF Base, TypeOK, Read, Askers
<1>9. Base'
  <2>1. Awaited'
    BY <1>1, <1>4, StreamAssumption DEF Base, Awaited, Askers
  <2>2. Held'
    BY <1>1, <1>3, <1>5 DEF Base, Held
  <2>3. Timers'
    BY <1>1 DEF Base, Timers
  <2> QED
    BY <1>4, <1>8, <2>1, <2>2, <2>3 DEF Base
<1>10. UpToDate("emit") => Current'
  <2> SUFFICES ASSUME UpToDate("emit") PROVE Current'
    OBVIOUS
  <2>1. f = Frame(stock)' /\ UpToDate("emit")'
    BY <1>1, <1>2, <1>4 DEF Fresh, Frame, Status, Askers
  <2>2. ASSUME NEW s \in Streams PROVE SentTo(s)'
    BY <1>1, <1>3, <1>7, <2>1 DEF SentTo
  <2> QED
    BY <2>1, <2>2 DEF Current
<1>11. IInv => Hears' /\ Synced'
  <2>1. EmitOwed => EmitOwed' \/ Current'
    <3>1. CASE chain = 1
      BY <1>6, <1>10, <3>1 DEF EmitOwed
    <3>2. CASE chain > 1
      <4>1. chain' > 1 \/ chain' = 1
        BY <1>1, <1>6, <3>2
      <4>2. UpToDate("emit")'
        BY <1>4 DEF Waiting, UpToDate, Askers
      <4> QED
        BY <4>1, <4>2 DEF EmitOwed
    <3> QED
      BY <1>6, <3>1, <3>2
  <2>2. Current => Current'
    BY <1>10 DEF Current
  <2> QED
    BY <1>1, <2>1, <2>2 DEF IInv, Hears, Synced, EventOwed, Due
<1>12. ASSUME OInv PROVE Ordered' /\ Advancing'
  <2>1. Behind(f)' /\ Ordered'
    BY <1>1, <1>2, <1>4, <1>12, NewFrame DEF OInv
  <2>2. Given' \subseteq Given \cup {f}
    <3>1. \A s \in Streams : stage'[s] = "open" => shown'[s] = f
      BY <1>1, <1>3
    <3>2. \A s \in Streams : \/ Last(buffer'[s]) = f
                             \/ buffer'[s] = buffer[s]
      BY <1>3, <1>7
    <3> QED
      BY <3>1, <3>2 DEF Given
  <2>3. \A g \in Given : Behind(g)'
    BY <1>1, <1>4, <1>12, GivenType, BehindKept, ReadsType DEF OInv, Base, Advancing
  <2> QED
    BY <2>1, <2>2, <2>3 DEF Advancing
<1> QED
  BY <1>9, <1>11, <1>12 DEF Preserved

LEMMA SnapshotKeeps == ASSUME Base, NEW s \in Streams, OnSnapshot(s) PROVE Preserved
<1>1. /\ UNCHANGED <<phase, stock, armed, owed, subscribed, chain, pending, sawTerminal,
                     faults>>
      /\ reads # <<>> /\ reads' = Tail(reads) /\ Head(reads).by = s
      /\ Head(reads).val # Unread
      /\ stage' = [stage EXCEPT ![s] = "open"]
      /\ buffer' = [buffer EXCEPT ![s] = <<>>]
  BY DEF OnSnapshot, saleVars, ownerVars, emitVars, Answered
<1>2. PICK f : f = Fresh
  OBVIOUS
<1>3. PICK g : g = Last(<<f>> \o buffer[s])
  OBVIOUS
<1>4. shown' = [shown EXCEPT ![s] = g]
  BY <1>2, <1>3 DEF OnSnapshot, Sent
<1>5. /\ reads' \in Seq(Read) /\ OneEach' /\ Head(reads) \in Read
      /\ \A b \in Askers : Waiting(b)' <=> Waiting(b) /\ b # s
      /\ Waiting(s)
      /\ \A b \in Askers : UpToDate(b) => UpToDate(b)'
      /\ UpToDate(s) => Head(reads).val = stock
      /\ Ordered => Ordered'
      /\ \A n \in Nat : Fits(n) => Fits(n)'
  BY <1>1, Taken DEF Base, Askers
<1>6. f \in Frames
  BY <1>1, <1>2, <1>5, FrameType DEF Fresh, Read, Base
<1>7. /\ stage \in [Streams -> {"off", "connecting", "open"}]
      /\ buffer \in [Streams -> Seq(Frames)] /\ shown \in [Streams -> Frames \cup {NoFrame}]
      /\ stage[s] = "connecting"
  BY <1>5 DEF Base, TypeOK, Awaited
<1>8. /\ buffer[s] = <<>> => g = f
      /\ buffer[s] # <<>> => g = Last(buffer[s]) /\ g \in Given
      /\ g \in Frames
  <2>1. buffer[s] \in Seq(Frames) /\ <<f>> \in Seq(Frames) /\ Len(<<f>>) = 1 /\ <<f>>[1] = f
    BY <1>6, <1>7
  <2>2. /\ Len(<<f>> \o buffer[s]) = 1 + Len(buffer[s]) /\ Len(buffer[s]) \in Nat
        /\ \A i \in 1..(1 + Len(buffer[s])) : (<<f>> \o buffer[s])[i] =
             IF i <= 1 THEN <<f>>[i] ELSE buffer[s][i - 1]
    BY <2>1, ConcatProperties, LenProperties
  <2>3. CASE buffer[s] = <<>>
    <3>1. Len(buffer[s]) = 0
      BY <2>3
    <3> QED
      BY <1>3, <1>6, <2>1, <2>2, <2>3, <3>1 DEF Last
  <2>4. CASE buffer[s] # <<>>
    <3>1. Len(buffer[s]) > 0
      BY <2>1, <2>4, EmptySeq
    <3>2. g = Last(buffer[s])
      BY <1>3, <2>2, <3>1 DEF Last
    <3>3. g \in Given /\ Given \subseteq Frames
      BY <2>4, <3>2, GivenType DEF Given, Base
    <3> QED
      BY <2>4, <3>2, <3>3
  <2> QED
    BY <2>3, <2>4
<1>9. TypeOK'
  <2>1. stage' \in [Streams -> {"off", "connecting", "open"}]
    BY <1>1, <1>7
  <2>2. buffer' \in [Streams -> Seq(Frames)]
    BY <1>1, <1>7, EmptySeq
  <2>3. shown' \in [Streams -> Frames \cup {NoFrame}]
    BY <1>4, <1>7, <1>8
  <2> QED
    BY <1>1, <1>5, <2>1, <2>2, <2>3 DEF Base, TypeOK, Read, Askers
<1>10. Base'
  <2>1. Awaited'
    BY <1>1, <1>5, <1>7 DEF Base, Awaited, Askers
  <2>2. Held'
    BY <1>1, <1>4, <1>7, <1>8 DEF Base, Held
  <2>3. Timers'
    BY <1>1 DEF Base, Timers
  <2> QED
    BY <1>5, <1>9, <2>1, <2>2, <2>3 DEF Base
<1>11. ASSUME Current PROVE Current'
  <2>1. Frame(stock)' = Frame(stock) /\ UpToDate("emit")' /\ SentTo(s)
    BY <1>1, <1>5, <1>11 DEF Current, Frame, Status, Askers
  <2>2. g = Frame(stock)
    BY <1>2, <1>5, <1>7, <1>8, <2>1 DEF SentTo, Fresh
  <2>3. ASSUME NEW t \in Streams PROVE SentTo(t)'
    <3>1. CASE t = s
      BY <1>1, <1>4, <1>7, <2>1, <2>2, <3>1 DEF SentTo
    <3>2. CASE t # s
      <4>1. SentTo(t) /\ (UpToDate(t) => UpToDate(t)')
        BY <1>5, <1>11 DEF Current, Askers
      <4> QED
        BY <1>1, <1>4, <1>7, <2>1, <3>2, <4>1 DEF SentTo
    <3> QED
      BY <3>1, <3>2
  <2> QED
    BY <2>1, <2>3 DEF Current
<1>12. EmitOwed => EmitOwed'
  BY <1>1, <1>5 DEF EmitOwed, Askers
<1>13. IInv => Hears' /\ Synced'
  BY <1>1, <1>11, <1>12 DEF IInv, Hears, Synced, EventOwed, Due
<1>14. ASSUME OInv PROVE Ordered' /\ Advancing'
  <2>1. Behind(f)' /\ Ordered'
    BY <1>1, <1>2, <1>5, <1>14, NewFrame DEF OInv
  <2>2. Given' \subseteq Given \cup {f}
    <3>1. \A t \in Streams : stage'[t] = "open" =>
            shown'[t] \in Given \cup {f}
      BY <1>1, <1>4, <1>7, <1>8 DEF Given
    <3>2. \A t \in Streams : buffer'[t] # <<>> => buffer'[t] = buffer[t]
      BY <1>1, <1>7
    <3> QED
      BY <3>1, <3>2 DEF Given
  <2>3. \A h \in Given : Behind(h)'
    BY <1>1, <1>5, <1>14, GivenType, BehindKept, ReadsType DEF OInv, Base, Advancing
  <2> QED
    BY <2>1, <2>2, <2>3 DEF Advancing
<1> QED
  BY <1>10, <1>13, <1>14 DEF Preserved

-----------------------------------------------------------------------------
(* Streams that come and go.                                               *)

LEMMA ConnectKeeps == ASSUME Base, NEW s \in Streams, Connect(s) PROVE Preserved
<1>1. /\ UNCHANGED <<phase, stock, armed, owed, subscribed, chain, pending, sawTerminal,
                     buffer, shown, faults>>
      /\ stage[s] = "off" /\ stage' = [stage EXCEPT ![s] = "connecting"]
      /\ Get(s) /\ s \in Askers
  BY DEF Connect, saleVars, ownerVars, emitVars, Askers
<1>2. ~Waiting(s)
  BY <1>1 DEF Base, Awaited
<1>3. /\ reads' \in Seq(Read) /\ OneEach'
      /\ \A b \in Askers : Waiting(b)' <=> Waiting(b) \/ b = s
      /\ \A b \in Askers : UpToDate(b) => UpToDate(b)'
      /\ Ordered => Ordered'
      /\ \A n \in Nat : Fits(n) => Fits(n)'
  BY <1>1, <1>2, Written DEF Base
<1>4. stage \in [Streams -> {"off", "connecting", "open"}]
  BY DEF Base, TypeOK
<1>5. TypeOK'
  BY <1>1, <1>3, <1>4 DEF Base, TypeOK, Read, Askers
<1>6. Base'
  <2>1. Awaited'
    BY <1>1, <1>3, <1>4, ReadsType DEF Base, Awaited, Askers
  <2>2. Held'
    BY <1>1, <1>4 DEF Base, Held
  <2>3. Timers'
    BY <1>1 DEF Base, Timers
  <2> QED
    BY <1>3, <1>5, <2>1, <2>2, <2>3 DEF Base
<1>7. ASSUME Current PROVE Current'
  <2>1. Frame(stock)' = Frame(stock) /\ UpToDate("emit")'
    BY <1>1, <1>3, <1>7 DEF Current, Frame, Status, Askers
  <2>2. ASSUME NEW t \in Streams PROVE SentTo(t)'
    <3>1. CASE t = s
      <4>1. UpToDate(s) /\ buffer[s] = <<>>
        BY <1>1, <1>2 DEF UpToDate, Waiting, Base, Held
      <4>2. UpToDate(s)' /\ buffer'[s] = <<>> /\ stage'[s] = "connecting"
        BY <1>1, <1>3, <1>4, <4>1
      <4> QED
        BY <3>1, <4>2 DEF SentTo
    <3>2. CASE t # s
      <4>1. SentTo(t) /\ (UpToDate(t) => UpToDate(t)')
        BY <1>3, <1>7 DEF Current, Askers
      <4> QED
        BY <1>1, <1>4, <2>1, <3>2, <4>1 DEF SentTo
    <3> QED
      BY <3>1, <3>2
  <2> QED
    BY <2>1, <2>2 DEF Current
<1>8. EmitOwed => EmitOwed'
  BY <1>1, <1>3 DEF EmitOwed, Askers
<1>9. IInv => Hears' /\ Synced'
  BY <1>1, <1>7, <1>8 DEF IInv, Hears, Synced, EventOwed, Due
<1>10. ASSUME OInv PROVE Ordered' /\ Advancing'
  <2>1. Given' \subseteq Given
    BY <1>1, <1>4 DEF Given
  <2> QED
    BY <1>1, <1>3, <1>10, <2>1, FramesKept, ReadsType DEF OInv, Base
<1> QED
  BY <1>6, <1>9, <1>10 DEF Preserved

(* The streams of S end, and with them the reads of R.                     *)
LEMMA Ended ==
    ASSUME Base, NEW S \in SUBSET Streams, NEW R, End(S, R), S \subseteq R,
           UNCHANGED <<phase, stock, armed, owed>>,
           subscribed' \in BOOLEAN, chain' \in Nat, pending' \in BOOLEAN,
           sawTerminal' \in BOOLEAN, faults' \in 0..MaxFaults,
           Waiting("emit") /\ "emit" \notin R => chain' > 0
    PROVE  /\ Base'
           /\ OInv => Ordered' /\ Advancing'
           /\ Current => Current'
           /\ chain' = chain /\ EmitOwed => EmitOwed'
<1>1. /\ reads' \in Seq(Read) /\ OneEach'
      /\ \A b \in Askers : Waiting(b)' <=> Waiting(b) /\ b \notin R
      /\ \A b \in Askers : UpToDate(b) => UpToDate(b)'
      /\ Ordered => Ordered'
      /\ \A n \in Nat : Fits(n) => Fits(n)'
  BY GivenUp DEF Base
<1>2. /\ stage \in [Streams -> {"off", "connecting", "open"}]
      /\ buffer \in [Streams -> Seq(Frames)] /\ shown \in [Streams -> Frames \cup {NoFrame}]
  BY DEF Base, TypeOK
<1>3. /\ stage' = [s \in Streams |-> IF s \in S THEN "off" ELSE stage[s]]
      /\ buffer' = [s \in Streams |-> IF s \in S THEN <<>> ELSE buffer[s]]
      /\ shown' = [s \in Streams |-> IF s \in S THEN NoFrame ELSE shown[s]]
  BY DEF End
<1>4. TypeOK'
  <2>1. buffer' \in [Streams -> Seq(Frames)]
    BY <1>2, <1>3, EmptySeq
  <2>2. /\ stage' \in [Streams -> {"off", "connecting", "open"}]
        /\ shown' \in [Streams -> Frames \cup {NoFrame}]
    BY <1>2, <1>3
  <2> QED
    BY <1>1, <2>1, <2>2 DEF Base, TypeOK, Read, Askers
<1>5. Base'
  <2>1. Awaited'
    BY <1>1, <1>3 DEF Base, Awaited, Askers
  <2>2. Held'
    BY <1>3 DEF Base, Held
  <2>3. Timers'
    BY DEF Base, Timers
  <2> QED
    BY <1>1, <1>4, <2>1, <2>2, <2>3 DEF Base
<1>6. ASSUME OInv PROVE Ordered' /\ Advancing'
  <2>1. Given' \subseteq Given
    BY <1>3 DEF Given
  <2> QED
    BY <1>1, <1>6, <2>1, FramesKept, ReadsType DEF OInv, Base
<1>7. ASSUME Current PROVE Current'
  <2>1. Frame(stock)' = Frame(stock) /\ UpToDate("emit")'
    BY <1>1, <1>7 DEF Current, Frame, Status, Askers
  <2>2. ASSUME NEW t \in Streams PROVE SentTo(t)'
    <3>1. SentTo(t) /\ (UpToDate(t) => UpToDate(t)')
      BY <1>1, <1>7 DEF Current, Askers
    <3> QED
      BY <1>3, <2>1, <3>1 DEF SentTo
  <2> QED
    BY <2>1, <2>2 DEF Current
<1>8. chain' = chain /\ EmitOwed => EmitOwed'
  BY <1>1 DEF EmitOwed, Askers
<1> QED
  BY <1>5, <1>6, <1>7, <1>8

LEMMA LeaveKeeps == ASSUME Base, NEW s \in Streams, Leave(s) PROVE Preserved
<1>1. /\ UNCHANGED <<phase, stock, armed, owed, subscribed, chain, pending, sawTerminal,
                     faults>>
      /\ End({s}, {s}) /\ {s} \in SUBSET Streams
  BY DEF Leave, saleVars, ownerVars, emitVars
<1>2. /\ subscribed \in BOOLEAN /\ chain \in Nat /\ pending \in BOOLEAN
      /\ sawTerminal \in BOOLEAN /\ faults \in 0..MaxFaults
      /\ Waiting("emit") => chain > 0
  BY DEF Base, TypeOK, Awaited
<1>3. Base' /\ (OInv => Ordered' /\ Advancing') /\ (Current => Current')
      /\ (EmitOwed => EmitOwed')
  BY <1>1, <1>2, Ended
<1>4. IInv => Hears' /\ Synced'
  BY <1>1, <1>3 DEF IInv, Hears, Synced, EventOwed, Due
<1> QED
  BY <1>3, <1>4 DEF Preserved

(* What a fault does to the streams; no promise is kept after one.         *)
LEMMA FaultKeeps ==
    ASSUME Base, Fault, NEW S \in SUBSET Streams, NEW R, End(S, R), S \subseteq R,
           UNCHANGED <<phase, stock, armed, owed, sawTerminal>>,
           subscribed' \in BOOLEAN, pending' \in BOOLEAN,
           UNCHANGED chain \/ ("emit" \in R /\ Waiting("emit") /\ chain' = chain - 1)
    PROVE  Preserved
<1>1. faults' \in 0..MaxFaults /\ faults' # 0
  BY StockAssumption DEF Fault, Base, TypeOK
<1>2. /\ chain' \in Nat /\ sawTerminal' \in BOOLEAN
      /\ Waiting("emit") /\ "emit" \notin R => chain' > 0
  BY DEF Base, TypeOK, Awaited
<1>3. Base' /\ (OInv => Ordered' /\ Advancing')
  BY <1>1, <1>2, Ended
<1> QED
  BY <1>1, <1>3 DEF Preserved, Hears, Synced

LEMMA SnapshotFailsKeeps == ASSUME Base, NEW s \in Streams, SnapshotFails(s) PROVE Preserved
<1>1. /\ UNCHANGED <<phase, stock, armed, owed, subscribed, chain, pending, sawTerminal>>
      /\ End({s}, {s}) /\ {s} \in SUBSET Streams /\ Fault
  BY DEF SnapshotFails, saleVars, ownerVars, emitVars
<1>2. subscribed' \in BOOLEAN /\ pending' \in BOOLEAN
  BY <1>1 DEF Base, TypeOK
<1> QED
  BY <1>1, <1>2, FaultKeeps

LEMMA EmitFailsKeeps == ASSUME Base, EmitFails PROVE Preserved
<1>1. /\ UNCHANGED <<phase, stock, armed, owed, subscribed, sawTerminal>>
      /\ Waiting("emit") /\ chain' = chain - 1 /\ pending' = FALSE
      /\ End(Sinks, {"emit"} \cup Sinks) /\ Sinks \in SUBSET Streams /\ Fault
  BY DEF EmitFails, CloseAll, Sinks, saleVars, ownerVars
<1>2. subscribed' \in BOOLEAN /\ pending' \in BOOLEAN
  BY <1>1 DEF Base, TypeOK
<1> QED
  BY <1>1, <1>2, FaultKeeps

LEMMA NetFailsKeeps == ASSUME Base, NetFails PROVE Preserved
<1>1. /\ UNCHANGED <<phase, stock, armed, owed, subscribed, chain, pending, sawTerminal>>
      /\ End({}, {"net"}) /\ {} \in SUBSET Streams /\ Fault
  BY DEF NetFails, saleVars, ownerVars, emitVars
<1>2. subscribed' \in BOOLEAN /\ pending' \in BOOLEAN
  BY <1>1 DEF Base, TypeOK
<1> QED
  BY <1>1, <1>2, FaultKeeps

LEMMA LoseSubscriptionKeeps == ASSUME Base, LoseSubscription PROVE Preserved
<1>1. /\ UNCHANGED <<phase, stock, armed, owed, chain, sawTerminal>>
      /\ subscribed' = FALSE /\ pending' = FALSE
      /\ End(Sinks, {} \cup Sinks) /\ Sinks \in SUBSET Streams /\ Fault
  BY DEF LoseSubscription, CloseAll, Sinks, saleVars, ownerVars
<1>2. subscribed' \in BOOLEAN /\ pending' \in BOOLEAN
  BY <1>1
<1> QED
  BY <1>1, <1>2, FaultKeeps

LEMMA RestartKeeps == ASSUME Base, NEW a \in Apis, Restart(a) PROVE Preserved
<1>1. /\ UNCHANGED <<phase, stock>> /\ faults' = faults + 1 /\ faults < MaxFaults
      /\ owed' = [owed EXCEPT ![a] = <<>>] /\ armed' = [armed EXCEPT ![a] = Ahead]
  BY DEF Restart, saleVars, Fault
<1>2. /\ owed \in [Apis -> Seq(Events)] /\ armed \in [Apis -> SUBSET Boundaries]
      /\ faults \in Nat /\ phase \in Phases /\ stock \in Nat
  BY StockAssumption DEF Base, TypeOK
<1>3. faults' \in 0..MaxFaults /\ faults' # 0
  BY <1>1, <1>2, StockAssumption
<1>4. Ahead \in SUBSET Boundaries
  BY <1>2 DEF Ahead, Boundaries, Phases
<1>5. owed' \in [Apis -> Seq(Events)] /\ armed' \in [Apis -> SUBSET Boundaries]
  BY <1>1, <1>2, <1>4, EmptySeq
<1>6. Timers'
  BY <1>1, <1>2 DEF Base, Timers, Ahead, Boundaries, Phases
<1>7. CASE a # Self
  <2>1. UNCHANGED <<subscribed, chain, pending, sawTerminal, reads, stage, buffer, shown>>
    BY <1>7 DEF Restart, emitVars, streamVars
  <2>2. TypeOK' /\ chain \in Nat
    BY <1>1, <1>3, <1>5, <2>1 DEF Base, TypeOK
  <2> QED
    BY <1>1, <1>3, <1>6, <2>1, <2>2, OffStage DEF Preserved, Hears, Synced
<1>8. CASE a = Self
  <2>1. /\ stage' = [s \in Streams |-> "off"] /\ buffer' = [s \in Streams |-> <<>>]
        /\ shown' = [s \in Streams |-> NoFrame] /\ reads' = <<>>
        /\ subscribed' = TRUE /\ chain' = 0 /\ pending' = FALSE /\ sawTerminal' = FALSE
    BY <1>8 DEF Restart
  <2>2. DOMAIN reads' = {} /\ reads' \in Seq(Read)
    BY <2>1, EmptySeq
  <2>3. TypeOK'
    <3>1. buffer' \in [Streams -> Seq(Frames)]
      BY <2>1, EmptySeq
    <3>2. /\ stage' \in [Streams -> {"off", "connecting", "open"}]
          /\ shown' \in [Streams -> Frames \cup {NoFrame}]
          /\ subscribed' \in BOOLEAN /\ pending' \in BOOLEAN /\ sawTerminal' \in BOOLEAN
          /\ chain' \in Nat
      BY <2>1
    <3>3. phase' \in Phases /\ stock' \in 0..Stock
      BY <1>1 DEF Base, TypeOK
    <3> QED
      BY <1>3, <1>5, <2>2, <3>1, <3>2, <3>3 DEF TypeOK, Read, Askers
  <2>4. OneEach' /\ Awaited' /\ Held'
    BY <2>1, <2>2 DEF OneEach, Awaited, Waiting, Held
  <2>5. Ordered'
    BY <2>2 DEF Ordered
  <2>6. Advancing'
    BY <2>1 DEF Advancing, Given
  <2> QED
    BY <1>3, <1>6, <2>3, <2>4, <2>5, <2>6 DEF Preserved, Base, Hears, Synced
<1> QED
  BY <1>7, <1>8

-----------------------------------------------------------------------------
(* The invariants.                                                         *)

LEMMA InitInv == Init => IInv /\ OInv
<1> SUFFICES ASSUME Init PROVE IInv /\ OInv
  OBVIOUS
<1>1. /\ phase \in Phases /\ stock = Stock /\ subscribed = TRUE /\ chain = 0
      /\ pending = FALSE /\ sawTerminal = FALSE /\ reads = <<>> /\ faults = 0
      /\ armed = [a \in Apis |-> Ahead] /\ owed = [a \in Apis |-> <<>>]
      /\ stage = [s \in Streams |-> "off"] /\ buffer = [s \in Streams |-> <<>>]
      /\ shown = [s \in Streams |-> NoFrame]
  BY DEF Init
<1>2. DOMAIN reads = {} /\ reads \in Seq(Read)
  BY <1>1, EmptySeq
<1>3. TypeOK
  <2>1. Ahead \in SUBSET Boundaries
    BY <1>1 DEF Ahead, Boundaries, Phases
  <2>2. /\ armed \in [Apis -> SUBSET Boundaries] /\ owed \in [Apis -> Seq(Events)]
        /\ buffer \in [Streams -> Seq(Frames)]
    BY <1>1, <2>1, EmptySeq
  <2>3. /\ stage \in [Streams -> {"off", "connecting", "open"}]
        /\ shown \in [Streams -> Frames \cup {NoFrame}]
        /\ chain \in Nat /\ faults \in 0..MaxFaults /\ stock \in 0..Stock
    BY <1>1, StockAssumption
  <2>4. subscribed \in BOOLEAN /\ pending \in BOOLEAN /\ sawTerminal \in BOOLEAN
    BY <1>1
  <2> QED
    BY <1>1, <1>2, <2>2, <2>3, <2>4 DEF TypeOK, Read, Askers
<1>4. OneEach /\ Awaited /\ Held
  BY <1>1, <1>2 DEF OneEach, Awaited, Waiting, Held
<1>5. Timers
  BY <1>1 DEF Timers, Ahead, Boundaries, Phases
<1>6. Current
  BY <1>1, <1>2 DEF Current, UpToDate, SentTo
<1>7. Ordered /\ Advancing
  BY <1>1, <1>2 DEF Ordered, Advancing, Given
<1> QED
  BY <1>1, <1>3, <1>4, <1>5, <1>6, <1>7 DEF IInv, OInv, Base, Hears, Synced

LEMMA NextKeeps == ASSUME Base, Next PROVE Preserved
<1>1. CASE Sale
  BY <1>1, TickKeeps, SellKeeps, PublishKeeps, TimerKeeps DEF Sale
<1>2. CASE Broadcaster
  <2>1. CASE OnReply
    BY <2>1, EmitReadKeeps, NetReadKeeps, DropKeeps, SnapshotKeeps DEF OnReply
  <2> QED
    BY <1>2, <2>1, PendingKeeps, StartEmitKeeps, BeatKeeps, ExecKeeps DEF Broadcaster
<1>3. CASE Clients
  BY <1>3, ConnectKeeps, LeaveKeeps DEF Clients
<1>4. CASE Faults
  BY <1>4, EmitFailsKeeps, NetFailsKeeps, LoseSubscriptionKeeps, ResubscribeKeeps,
     SnapshotFailsKeeps, LoseEventsKeeps, RestartKeeps DEF Faults
<1> QED
  BY <1>1, <1>2, <1>3, <1>4 DEF Next

LEMMA StutterKeeps == ASSUME Base, UNCHANGED vars PROVE Preserved
<1>1. UNCHANGED <<phase, stock, armed, owed, subscribed, chain, pending, sawTerminal,
                  reads, stage, buffer, shown, faults>>
  BY DEF vars, saleVars, ownerVars, emitVars, streamVars
<1>2. chain \in Nat /\ TypeOK' /\ Timers'
  BY <1>1 DEF Base, TypeOK, Timers
<1>3. /\ Base'
      /\ OInv => Ordered' /\ Advancing'
      /\ Current => Current'
      /\ EmitOwed => EmitOwed'
  BY <1>1, <1>2, OffStage
<1>4. IInv => Hears' /\ Synced'
  BY <1>1, <1>3 DEF IInv, Hears, Synced, EventOwed, Due
<1> QED
  BY <1>3, <1>4 DEF Preserved

(* Both are inductive.                                                     *)
THEOREM Inductive == Spec => [](IInv /\ OInv)
<1>1. IInv /\ OInv /\ [Next]_vars => (IInv /\ OInv)'
  <2> SUFFICES ASSUME IInv, OInv, [Next]_vars PROVE IInv' /\ OInv'
    OBVIOUS
  <2>1. Base
    BY DEF IInv
  <2>2. Preserved
    BY <2>1, NextKeeps, StutterKeeps
  <2> QED
    BY <2>2 DEF Preserved, IInv, OInv
<1> QED
  BY <1>1, InitInv, PTL DEF Spec

(* The state of the broadcaster and of its streams is well typed for every *)
(* number of instances and streams; the chain never owes less than nothing.*)
THEOREM EventTypes == Spec => []TypeOK
<1>1. IInv => TypeOK
  BY DEF IInv, Base
<1> QED
  BY <1>1, Inductive, PTL

(* Coalescing, superseding and buffering lose nothing: once every event    *)
(* has been delivered and nothing is under way, every open stream shows    *)
(* the present sale.                                                       *)
THEOREM QuietIsCurrent == Spec => []QuietStreamsAreCurrent
<1>1. IInv => QuietStreamsAreCurrent
  <2> SUFFICES ASSUME IInv, faults = 0, Quiet, NEW s \in Streams, stage[s] = "open"
               PROVE  shown[s] = Frame(stock)
    BY DEF QuietStreamsAreCurrent
  <2>1. ~EventOwed /\ ~pending /\ ~EmitOwed
    BY DEF Quiet, EventOwed, EmitOwed
  <2> QED
    BY <2>1 DEF IInv, Synced, Current, SentTo
<1> QED
  BY <1>1, Inductive, PTL

-----------------------------------------------------------------------------
(* The order of frames.                                                    *)

(* What is composed next is not older than what was given before.          *)
LEMMA NextFrame ==
    ASSUME OInv, reads # <<>>, Head(reads).val # Unread
    PROVE  Fresh \in Frames /\ \A f \in Given : NotOlder(f, Fresh)
<1>1. /\ TypeOK /\ Held /\ Len(reads) \in Nat /\ DOMAIN reads = 1..Len(reads)
      /\ reads \in Seq(Read) /\ Given \subseteq Frames
  BY ReadsType, GivenType DEF OInv, Base
<1>2. 1 \in DOMAIN reads /\ Head(reads) = reads[1] /\ Head(reads) \in Read
  BY <1>1, HeadTailProperties, EmptySeq
<1>3. Head(reads).val \in Nat
  BY <1>2 DEF Read
<1>4. ASSUME NEW f \in Given PROVE NotOlder(f, Fresh)
  <2>1. Behind(f) /\ f.stock \in Nat
    BY <1>1 DEF OInv, Advancing, Frames
  <2>2. Head(reads).val \in 0..f.stock
    BY <1>2, <1>3, <2>1 DEF Behind, Fits
  <2> QED
    BY <2>1, <2>2 DEF Behind, Fresh
<1> QED
  BY <1>1, <1>3, <1>4, FrameType DEF Fresh

(* The steps that streams take part in.                                    *)
LEMMA WhatStreamsSee ==
    ASSUME [Next]_vars
    PROVE  \/ OnEmitRead
           \/ \E s \in Streams : OnSnapshot(s) \/ Connect(s)
           \/ \E S \in SUBSET Streams, R \in SUBSET Askers : End(S, R)
           \/ \E a \in Apis : Restart(a)
           \/ UNCHANGED streamVars
<1> DEFINE Ends == \E S \in SUBSET Streams, R \in SUBSET Askers : End(S, R)
<1>1. CASE Sale
  BY <1>1 DEF Sale, Tick, Sell, Publish, TimerFires
<1>2. CASE Broadcaster
  BY <1>2 DEF Broadcaster, PendingFires, StartEmit, Beat, ExecGet, OnReply, OnNetRead, DropReply
<1>3. CASE Clients
  <2>1. ASSUME NEW s \in Streams, Leave(s) PROVE Ends
    BY <2>1 DEF Leave, Askers
  <2> QED
    BY <1>3, <2>1 DEF Clients
<1>4. CASE Faults
  <2>1. ASSUME NEW s \in Streams, SnapshotFails(s) PROVE Ends
    BY <2>1 DEF SnapshotFails, Askers
  <2>2. EmitFails => Ends
    <3>1. EmitFails => End(Sinks, {"emit"} \cup Sinks)
      BY DEF EmitFails, CloseAll
    <3>2. Sinks \in SUBSET Streams /\ {"emit"} \cup Sinks \in SUBSET Askers
      BY DEF Sinks, Askers
    <3> QED
      BY <3>1, <3>2
  <2>3. NetFails => Ends
    BY DEF NetFails, Askers
  <2>4. LoseSubscription => Ends
    <3>1. LoseSubscription => End(Sinks, {} \cup Sinks)
      BY DEF LoseSubscription, CloseAll
    <3>2. Sinks \in SUBSET Streams /\ {} \cup Sinks \in SUBSET Askers
      BY DEF Sinks, Askers
    <3> QED
      BY <3>1, <3>2
  <2> QED
    BY <1>4, <2>1, <2>2, <2>3, <2>4 DEF Faults, Resubscribe, LoseEvents
<1>5. CASE UNCHANGED vars
  BY <1>5 DEF vars
<1> QED
  BY <1>1, <1>2, <1>3, <1>4, <1>5 DEF Next

(* What a step may do to a stream.                                         *)
LEMMA OneFrame ==
    ASSUME OInv, [Next]_vars, NEW s \in Streams
    PROVE  /\ \/ buffer'[s] = buffer[s]
              \/ buffer'[s] = <<>>
              \/ buffer'[s] = Append(buffer[s], Fresh)
                 /\ Fresh \in Frames /\ \A f \in Given : NotOlder(f, Fresh)
           /\ \/ stage[s] # "open" \/ stage'[s] # "open"
              \/ shown'[s] = shown[s]
              \/ shown'[s] = Fresh /\ NotOlder(shown[s], Fresh)
<1>1. /\ stage \in [Streams -> {"off", "connecting", "open"}]
      /\ buffer \in [Streams -> Seq(Frames)] /\ shown \in [Streams -> Frames \cup {NoFrame}]
  BY DEF OInv, Base, TypeOK
<1>2. CASE OnEmitRead
  <2>1. Fresh \in Frames /\ \A f \in Given : NotOlder(f, Fresh)
    BY <1>2, NextFrame DEF OnEmitRead, Answered
  <2>2. stage[s] = "open" => shown[s] \in Given
    BY DEF Given
  <2> QED
    BY <1>1, <1>2, <2>1, <2>2 DEF OnEmitRead
<1>3. CASE \E t \in Streams : OnSnapshot(t)
  <2>1. PICK t \in Streams : OnSnapshot(t)
    BY <1>3
  <2>2. /\ Head(reads).by = t /\ reads # <<>> /\ reads' = Tail(reads)
        /\ stage' = [stage EXCEPT ![t] = "open"]
        /\ buffer' = [buffer EXCEPT ![t] = <<>>]
        /\ shown' = [shown EXCEPT ![t] = Last(Sent(t))]
    BY <2>1 DEF OnSnapshot, Answered
  <2>3. TypeOK /\ OneEach /\ stock' = stock
    BY <2>1 DEF OInv, Base, OnSnapshot, saleVars
  <2>4. stage[t] = "connecting"
    BY <2>2, <2>3, Taken DEF OInv, Base, Awaited, Askers
  <2> QED
    BY <1>1, <2>2, <2>4
<1>4. CASE \E t \in Streams : Connect(t)
  BY <1>1, <1>4 DEF Connect
<1>5. CASE \E S \in SUBSET Streams, R \in SUBSET Askers : End(S, R)
  <2>1. PICK S \in SUBSET Streams, R \in SUBSET Askers : End(S, R)
    BY <1>5
  <2>2. IF s \in S THEN stage'[s] = "off" /\ buffer'[s] = <<>>
                   ELSE buffer'[s] = buffer[s] /\ shown'[s] = shown[s]
    BY <2>1 DEF End
  <2> QED
    BY <2>2
<1>6. CASE \E a \in Apis : Restart(a)
  BY <1>6 DEF Restart, streamVars
<1>7. CASE UNCHANGED streamVars
  BY <1>7 DEF streamVars
<1> QED
  BY <1>2, <1>3, <1>4, <1>5, <1>6, <1>7, WhatStreamsSee

(* An open stream never goes back: the sale it shows is only followed by a *)
(* later one, whatever events were lost and however emits, the safety net  *)
(* and reconnects interleave.                                              *)
THEOREM NeverBack == Spec => OpenStreamsAdvance
<1>1. OInv /\ [Next]_vars => OpenStep
  <2> SUFFICES ASSUME OInv, [Next]_vars, NEW s \in Streams, stage[s] = "open",
                      stage'[s] = "open"
               PROVE  NotOlder(shown[s], shown'[s])
    BY DEF OpenStep
  <2>1. CASE shown'[s] = shown[s]
    <3>1. shown[s] \in Frames
      BY DEF OInv, Base, Held
    <3> QED
      BY <2>1, <3>1 DEF NotOlder, Frames, Statuses, Rank
  <2>2. CASE shown'[s] = Fresh /\ NotOlder(shown[s], Fresh)
    BY <2>2
  <2> QED
    BY <2>1, <2>2, OneFrame
<1>2. OInv /\ [Next]_vars => [OpenStep]_vars
  BY <1>1
<1> QED
  BY <1>2, Inductive, PTL DEF Spec, OpenStreamsAdvance

(* The frames held back for a snapshot are in order among themselves: only *)
(* the snapshot itself can be newer than what is flushed after it.         *)
THEOREM HeldFramesInOrder == Spec => []HeldInOrder
<1>1. Init => HeldInOrder
  <2> SUFFICES ASSUME Init, NEW s \in Streams PROVE 1..(Len(buffer[s]) - 1) = {}
    BY DEF HeldInOrder
  <2>1. Len(buffer[s]) = 0
    BY DEF Init
  <2> QED
    BY <2>1
<1>2. HeldInOrder /\ OInv /\ [Next]_vars => HeldInOrder'
  <2> SUFFICES ASSUME HeldInOrder, OInv, [Next]_vars, NEW s \in Streams,
                      NEW i \in 1..(Len(buffer'[s]) - 1)
               PROVE  NotOlder(buffer'[s][i], buffer'[s][i + 1])
    BY DEF HeldInOrder, NotOlder, Rank
  <2>1. buffer[s] \in Seq(Frames) /\ Len(buffer[s]) \in Nat
    BY LenProperties DEF OInv, Base, TypeOK
  <2>2. CASE buffer'[s] = buffer[s]
    BY <2>2 DEF HeldInOrder
  <2>3. CASE buffer'[s] = <<>>
    BY <2>3
  <2>4. CASE /\ buffer'[s] = Append(buffer[s], Fresh) /\ Fresh \in Frames
             /\ \A f \in Given : NotOlder(f, Fresh)
    <3>1. /\ Len(buffer'[s]) = Len(buffer[s]) + 1
          /\ \A j \in 1..Len(buffer[s]) : buffer'[s][j] = buffer[s][j]
          /\ buffer'[s][Len(buffer[s]) + 1] = Fresh
      BY <2>1, <2>4, AppendProperties
    <3>2. CASE i < Len(buffer[s])
      BY <2>1, <3>1, <3>2 DEF HeldInOrder
    <3>3. CASE i = Len(buffer[s])
      <4>1. buffer[s][i] \in Given
        BY <2>1, <3>3, EmptySeq DEF Given, Last
      <4> QED
        BY <2>1, <2>4, <3>1, <3>3, <4>1
    <3> QED
      BY <2>1, <3>1, <3>2, <3>3
  <2> QED
    BY <2>2, <2>3, <2>4, OneFrame
<1> QED
  BY <1>1, <1>2, Inductive, PTL DEF Spec

=============================================================================
