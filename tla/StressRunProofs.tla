--------------------------- MODULE StressRunProofs ---------------------------
(***************************************************************************)
(* Proofs about StressRun, for every number of addresses, units, samples   *)
(* and faults: a PASS is fair and leaves the sale open, and a reset cut    *)
(* off anywhere offers no unit twice.                                      *)
(***************************************************************************)
EXTENDS StressRun, FiniteSetTheorems, TLAPS

BeforeReset == {"seed", "stop"}
BeforeBurst == BeforeReset \cup {"reset", "start"}
AfterReset  == {"start", "burst", "sample", "distinct", "judge", "capture", "close",
                "closedApi", "probe", "restore", "openApi", "confirm"}
AfterBurst  == AfterReset \ {"start", "burst"}
AfterJudge  == AfterBurst \ {"sample", "distinct", "judge"}
Closing     == {"finish", "pass"}

(* The run is on its way to a PASS.                                        *)
Sound == ~failed /\ pc \in Closing

(* The sentinel is missing only where nobody ever bought, and no API runs  *)
(* without it.                                                             *)
Sentinel ==
    /\ stock = Missing => users = {} /\ orders = {} /\ queue = {} /\ api = "stopped"
    /\ pc \in AfterReset \/ Sound => stock # Missing

(* The reset wipes in its order: the users, and last the sentinel.         *)
Wiping ==
    /\ pc \in BeforeReset => wiped = 0
    /\ pc = "reset" => wiped < Len(WipeOrder)
    /\ pc = "start" \/ (pc = "reset" /\ wiped > 0) => users = {}
    /\ pc = "reset" => api = "stopped"
    /\ pc \in BeforeBurst => replies = {} /\ users \subseteq Old
    /\ pc \in BeforeBurst \cup {"burst"} => late = {}

(* No unit is offered beside a buyer who holds one already.                *)
Bounded ==
    stock # Missing => \/ stock + Cardinality(users) <= Quantity
                       \/ stock + Cardinality(users) <= expected

(* In the burst, whoever is in the set has an answer that tells so or one *)
(* that breaches a threshold, and nobody else is told.  After it, the set  *)
(* holds those who scored a 202, and they are all if every answer was      *)
(* scored; a breach has failed the run.                                    *)
Answered ==
    pc = "burst" =>
        /\ \A r \in replies : r.code = 202 => r.by \in users
        /\ \A b \in users : \E r \in replies :
              r.by = b /\ (r.code = 202 \/ r.code \notin Allowed(b))

Honest ==
    pc \in AfterBurst \/ pc \in Closing =>
        (~failed => told \subseteq users /\ (whole => told = users /\ late = {}))

(* The counts of the orders only grow.                                     *)
Counted ==
    /\ pc \in BeforeBurst \cup {"burst"} => previous = 0
    /\ pc \in {"sample", "distinct", "judge"} => previous <= Cardinality(orders)

(* Every order is one of this run's buyers', or an earlier run's.          *)
Traced == queue \subseteq users \cup Old /\ orders \subseteq users \cup Old

(* What the verifier judged holds until the run ends, though a request     *)
(* still on the wire may commit and the worker go on.                      *)
Judged ==
    pc \in AfterJudge \/ pc \in Closing =>
        (~failed => /\ Target <= Cardinality(users) /\ stock + Cardinality(users) = Quantity
                    /\ Target <= Cardinality(orders) + Tolerance)

(* An API started last serves the window of the sale document.             *)
Reopened ==
    /\ pc = "confirm" => apiWindow = window
    /\ Sound => window = "open" /\ apiWindow = "open"

(* A run that failed does not pass.                                        *)
PassIsSound == pc = "pass" => ~failed

IInv ==
    /\ PassIsSound /\ TypeOK /\ Sentinel /\ Wiping /\ Bounded /\ Traced
    /\ Answered /\ Honest /\ Counted /\ Judged /\ Reopened

-----------------------------------------------------------------------------
(* Counting buyers.                                                        *)

LEMMA FewBuyers ==
    ASSUME NEW S \in SUBSET Buyers
    PROVE  /\ IsFiniteSet(S) /\ Cardinality(S) \in Nat
           /\ \A b \in Buyers \ S : Cardinality(S \cup {b}) = Cardinality(S) + 1
           /\ \A b \in Buyers : Cardinality(S) <= Cardinality(S \cup {b})
<1>1. IsFiniteSet(Primary \cup {Spam})
  BY PeopleAssumption, FS_Singleton, FS_Union
<1>2. IsFiniteSet(Buyers)
  BY <1>1, PeopleAssumption, FS_Union DEF Buyers, Shoppers
<1>3. IsFiniteSet(S) /\ Cardinality(S) \in Nat
  BY <1>2, FS_Subset, FS_CardinalityType
<1>4. ASSUME NEW b \in Buyers \ S
      PROVE  Cardinality(S \cup {b}) = Cardinality(S) + 1
  BY <1>3, <1>4, FS_AddElement
<1>5. ASSUME NEW b \in Buyers
      PROVE  Cardinality(S) <= Cardinality(S \cup {b})
  <2>1. CASE b \in S
    <3>1. S \cup {b} = S
      BY <2>1
    <3> QED
      BY <1>3, <3>1
  <2>2. CASE b \notin S
    BY <1>3, <1>4, <2>2
  <2> QED
    BY <2>1, <2>2
<1> QED
  BY <1>3, <1>4, <1>5

(* The verifier's bounds are numbers.                                      *)
LEMMA Margins == Target \in Nat /\ Tolerance \in Nat
<1>1. Cardinality(Primary) \in Nat
  BY PeopleAssumption, FS_CardinalityType
<1>2. Target \in Nat
  BY <1>1, CountAssumption DEF Target, Smaller
<1> QED
  BY <1>2 DEF Tolerance

LEMMA Bounds ==
    /\ Quantity \in Nat /\ MaxFaults \in Nat /\ MaxSamples \in Nat /\ Missing \notin Nat
    /\ Configured \subseteq Nat /\ Cardinality({}) = 0 /\ Len(WipeOrder) = 3
    /\ WipeOrder[1] = "users" /\ WipeOrder[2] = "orders" /\ WipeOrder[3] = "stock"
  BY CountAssumption, FS_EmptySet DEF WipeOrder

LEMMA InitInv == Init => IInv
<1> SUFFICES ASSUME Init PROVE IInv
  OBVIOUS
<1> USE DEF Init
<1>1. PICK served \in SUBSET Old :
         /\ Cardinality(served) <= Quantity
         /\ queue \in SUBSET served /\ orders = served \ queue
         /\ \/ users = served /\ stock = Quantity - Cardinality(served)
            \/ served = {} /\ users = {} /\ stock = Missing
  OBVIOUS
<1>2. Cardinality(served) \in Nat
  BY FewBuyers DEF Buyers
<1>3. /\ stock \in Nat \cup {Missing} /\ (stock = Missing => users = {} /\ orders = {} /\ queue = {})
      /\ stock # Missing => stock + Cardinality(users) = Quantity
  BY <1>1, <1>2, Bounds
<1>4. users \subseteq Buyers /\ queue \subseteq Buyers /\ orders \subseteq Buyers
  BY <1>1 DEF Buyers
<1>5. left \in [Shoppers -> Nat]
  BY CountAssumption
<1>6. TypeOK
  <2>1. samples \in 0..MaxSamples /\ faults \in 0..MaxFaults /\ wiped \in 0..Len(WipeOrder)
    BY Bounds
  <2>2. pc \in Running \cup Ended /\ previous \in Nat /\ told \subseteq Shoppers
    BY DEF Running
  <2> QED
    BY <1>3, <1>4, <1>5, <2>1, <2>2 DEF TypeOK, Windows
<1>7. Sentinel /\ Wiping /\ Traced
  BY <1>1, <1>3 DEF Sentinel, Wiping, Traced, Sound, BeforeReset, BeforeBurst, AfterReset, Closing
<1>8. Bounded
  <2>1. ASSUME stock # Missing PROVE stock + Cardinality(users) <= Quantity
    BY <1>3, <2>1, Bounds
  <2> QED
    BY <2>1 DEF Bounded
<1>9. Answered /\ Honest /\ Counted /\ Judged /\ Reopened /\ PassIsSound
  BY DEF Answered, Honest, Counted, Judged, Reopened, PassIsSound, Sound, AfterReset, AfterBurst, AfterJudge, Closing
<1> QED
  BY <1>6, <1>7, <1>8, <1>9 DEF IInv

-----------------------------------------------------------------------------
(* IInv is inductive.                                                      *)

(* A boot keeps what is counted; without the sentinel nobody has bought.   *)
LEMMA Boots ==
    ASSUME IInv, Boot
    PROVE  /\ stock' \in Nat \cup {Missing} /\ stock' # Missing
           /\ users' \subseteq Buyers /\ queue' = queue /\ orders' = orders
           /\ api' = "up" /\ apiWindow' = window /\ window' = window /\ late' = {}
           /\ stock # Missing => stock' = stock /\ users' = users
           /\ stock = Missing => users' = {} /\ users = {} /\ queue = {} /\ orders = {}
           /\ \/ stock' + Cardinality(users') <= Quantity
              \/ stock' + Cardinality(users') <= expected
<1>1. CASE stock # Missing
  BY <1>1 DEF Boot, IInv, TypeOK, Bounded
<1>2. CASE stock = Missing
  <2>1. orders = {} /\ users = {} /\ queue = {} /\ Cardinality({}) = 0 /\ Quantity \in Nat \ {0}
    BY <1>2, Bounds, CountAssumption DEF IInv, Sentinel
  <2>2. users' = {} /\ stock' = Quantity
    BY <1>2, <2>1 DEF Boot
  <2> QED
    BY <1>2, <2>1, <2>2, Bounds DEF Boot
<1> QED
  BY <1>1, <1>2

LEMMA BootInv ==
    ASSUME IInv, Boot, UNCHANGED <<expected, wiped, verify, snapshot, k6>>,
           faults' \in 0..MaxFaults, pc' \in Running \cup Ended, failed' \in BOOLEAN
    PROVE  TypeOK'
  BY Boots DEF IInv, TypeOK, verify, k6, Windows

(* The worker records an order: the counts of the verifier only grow.      *)
LEMMA PersistInv ==
    ASSUME IInv, Persist
    PROVE  IInv'
<1>1. /\ UNCHANGED <<stock, users, stack, pc, expected, failed, wiped, verify, snapshot, k6, faults>>
      /\ \E b \in queue : queue' = queue \ {b} /\ orders' = orders \cup {b}
      /\ stock # Missing
  BY DEF Persist, IInv, Sentinel
<1>2. TypeOK'
  BY <1>1 DEF IInv, TypeOK, stack, verify, k6
<1>3. Cardinality(orders) \in Nat /\ Cardinality(orders') \in Nat
      /\ Cardinality(orders) <= Cardinality(orders')
  BY <1>1, <1>2, FewBuyers DEF IInv, TypeOK
<1>4. Counted'
  BY <1>1, <1>3 DEF IInv, TypeOK, Counted, verify
<1>5. Judged'
  BY <1>1, <1>3, Margins DEF IInv, Judged
<1> QED
  BY <1>1, <1>2, <1>4, <1>5
  DEF IInv, Sentinel, Wiping, Bounded, Traced, Answered, Honest, Reopened, PassIsSound, Sound,
      stack, k6

(* One accept, of a request k6 waits for or not: a unit goes from the      *)
(* counter to a new member of the set.                                     *)
LEMMA Takes ==
    ASSUME IInv, NEW b \in Buyers, b \notin users, stock > 0, stock # Missing, Take(b)
    PROVE  /\ users' = users \cup {b} /\ users' \subseteq Buyers /\ orders' = orders
           /\ stock' \in Nat /\ stock' # Missing
           /\ Cardinality(users) \in Nat /\ Cardinality(users') \in Nat
           /\ Cardinality(users) <= Cardinality(users')
           /\ stock' + Cardinality(users') = stock + Cardinality(users)
<1>1. users' = users \cup {b} /\ stock' = stock - 1 /\ orders' = orders /\ stock \in Nat
  BY DEF Take, IInv, TypeOK
<1>2. stock' \in Nat /\ stock' # Missing /\ users' \subseteq Buyers
  BY <1>1, Bounds DEF IInv, TypeOK
<1>3. Cardinality(users') = Cardinality(users) + 1 /\ Cardinality(users) \in Nat
  BY <1>1, FewBuyers DEF IInv, TypeOK
<1> QED
  BY <1>1, <1>2, <1>3

LEMMA LateInv ==
    ASSUME IInv, LateCommit
    PROVE  IInv'
<1>1. PICK b \in late : Commit(b) /\ late' = late \ {b}
  BY DEF LateCommit
<1>2. /\ UNCHANGED <<window, api, apiWindow, pc, expected, failed, wiped, verify, snapshot, k6>>
      /\ api = "up" /\ stock # Missing /\ b \in Shoppers /\ b \in Buyers
      /\ b \notin users /\ stock > 0 /\ Take(b)
      /\ queue' \in {queue, queue \cup {b}}
      /\ SpendFault \/ UNCHANGED faults
  BY <1>1, Zenon DEF LateCommit, Commit, StockLeft, IInv, Sentinel, TypeOK, Buyers
<1>3. pc \notin BeforeBurst \cup {"burst"}
  BY <1>1 DEF IInv, Wiping
<1>4. /\ users' = users \cup {b} /\ users' \subseteq Buyers /\ orders' = orders
      /\ stock' \in Nat /\ stock' # Missing
      /\ Cardinality(users) \in Nat /\ Cardinality(users') \in Nat
      /\ Cardinality(users) <= Cardinality(users')
      /\ stock' + Cardinality(users') = stock + Cardinality(users)
  BY <1>2, Takes
<1>5. TypeOK'
  <2>1. faults' \in 0..MaxFaults
    BY <1>2, Bounds DEF SpendFault, IInv, TypeOK
  <2>2. queue' \subseteq Buyers /\ late' \subseteq Shoppers
    BY <1>1, <1>2 DEF IInv, TypeOK
  <2> QED
    BY <1>2, <1>4, <2>1, <2>2 DEF IInv, TypeOK, verify, k6
<1>6. Sentinel' /\ Wiping' /\ Traced' /\ Answered'
  BY <1>2, <1>3, <1>4
  DEF IInv, Sentinel, Wiping, Traced, Answered, Sound, BeforeReset, BeforeBurst
<1>7. Bounded'
  BY <1>2, <1>4 DEF IInv, Bounded
<1>8. Honest'
  BY <1>1, <1>2, <1>4 DEF IInv, Honest, k6
<1>9. Judged'
  BY <1>2, <1>4, Margins DEF IInv, Judged
<1>10. Counted' /\ Reopened' /\ PassIsSound'
  BY <1>2, <1>4 DEF IInv, Counted, Reopened, PassIsSound, Sound, verify
<1> QED
  BY <1>5, <1>6, <1>7, <1>8, <1>9, <1>10 DEF IInv

LEMMA OutsideInv ==
    ASSUME IInv, ApiCrash \/ Revive \/ Abort
    PROVE  IInv'
<1> USE DEF stores, stack, verify, k6
<1>1. CASE ApiCrash
  <2>1. TypeOK'
    BY <1>1, Bounds DEF IInv, ApiCrash, SpendFault, TypeOK
  <2> QED
    BY <1>1, <2>1
    DEF ApiCrash, IInv, Sentinel, Wiping, Bounded, Traced, Answered,
        Honest, Counted, Judged, Reopened, PassIsSound, Sound
<1>2. CASE Revive
  <2>1. TypeOK'
    BY <1>2, BootInv DEF Revive, IInv, TypeOK
  <2>2. /\ stock' # Missing /\ queue' = queue /\ orders' = orders
        /\ api' = "up" /\ apiWindow' = window /\ window' = window /\ late' = {}
        /\ stock # Missing => stock' = stock /\ users' = users
        /\ stock = Missing => users' = {} /\ users = {} /\ queue = {} /\ orders = {}
        /\ \/ stock' + Cardinality(users') <= Quantity
           \/ stock' + Cardinality(users') <= expected
    BY <1>2, Boots DEF Revive
  <2>3. (pc \in AfterReset \/ Sound => stock # Missing) /\ pc # "reset"
    BY <1>2 DEF Revive, IInv, Sentinel, Wiping, Ended
  <2>4. Sentinel' /\ Wiping' /\ Bounded' /\ Traced'
    BY <1>2, <2>2, <2>3
    DEF Revive, IInv, Sentinel, Wiping, Bounded, Traced, AfterReset, Sound
  <2>5. Answered' /\ Honest' /\ Counted' /\ Judged' /\ Reopened' /\ PassIsSound'
    BY <1>2, <2>2, <2>3
    DEF Revive, IInv, Answered, Honest, Counted, Judged, Reopened, PassIsSound, Sound,
        AfterReset, AfterBurst, AfterJudge, Closing
  <2> QED
    BY <2>1, <2>4, <2>5 DEF IInv
<1>3. CASE Abort
  <2>1. TypeOK'
    BY <1>3, Bounds DEF IInv, Abort, SpendFault, TypeOK, Ended, OnTheWire
  <2> QED
    BY <1>3, <2>1
    DEF Abort, IInv, Sentinel, Wiping, Bounded, Traced, Answered, Honest, Counted, Judged,
        Reopened, PassIsSound, Sound,
        BeforeReset, BeforeBurst, AfterReset, AfterBurst, AfterJudge, Closing
<1> QED
  BY <1>1, <1>2, <1>3

(* The phases before the burst.                                            *)
LEMMA SetUpInv ==
    ASSUME IInv, Seed \/ StopApi \/ Reset \/ StartApi
    PROVE  IInv'
<1> USE DEF stores, stack, verify, k6, Goto, Record, GiveUpAt, SpendFault
<1>1. CASE Seed
  <2>1. TypeOK'
    BY <1>1 DEF IInv, Seed, TypeOK, Windows, Running
  <2> QED
    BY <1>1, <2>1
    DEF Seed, IInv, Sentinel, Wiping, Bounded, Traced, Answered,
        Honest, Counted, Judged, Reopened, PassIsSound, Sound,
        BeforeReset, BeforeBurst, AfterReset, AfterBurst, AfterJudge, Closing
<1>2. CASE StopApi
  <2>1. CASE api' = "stopped" /\ pc' = "reset" /\ UNCHANGED <<failed, faults>>
    <3>1. TypeOK'
      BY <1>2, <2>1 DEF IInv, StopApi, TypeOK, Running
    <3> QED
      BY <1>2, <2>1, <3>1, Bounds
      DEF StopApi, IInv, Sentinel, Wiping, Bounded, Traced, Answered,
        Honest, Counted, Judged, Reopened, PassIsSound, Sound,
          BeforeReset, BeforeBurst, AfterReset, AfterBurst, AfterJudge, Closing
  <2>2. CASE api' \in {api, "stopped"} /\ GiveUpAt("finish")
    <3>1. TypeOK'
      BY <1>2, <2>2, Bounds DEF IInv, StopApi, TypeOK, Running
    <3> QED
      BY <1>2, <2>2, <3>1
      DEF StopApi, IInv, Sentinel, Wiping, Bounded, Traced, Answered,
        Honest, Counted, Judged, Reopened, PassIsSound, Sound,
          BeforeReset, BeforeBurst, AfterReset, AfterBurst, AfterJudge, Closing
  <2> QED
    BY <1>2, <2>1, <2>2 DEF StopApi
<1>3. CASE Reset
  <2>1. CASE GiveUpAt("finish") /\ UNCHANGED <<stores, wiped>>
    <3>1. TypeOK'
      BY <1>3, <2>1, Bounds DEF IInv, Reset, TypeOK, Running
    <3> QED
      BY <1>3, <2>1, <3>1
      DEF Reset, IInv, Sentinel, Wiping, Bounded, Traced, Answered,
        Honest, Counted, Judged, Reopened, PassIsSound, Sound,
          BeforeReset, BeforeBurst, AfterReset, AfterBurst, AfterJudge, Closing
  <2>2. CASE ~GiveUpAt("finish")
    <3>1. /\ api = "stopped" /\ Wipe(WipeOrder[wiped + 1]) /\ wiped' = wiped + 1
          /\ pc' = (IF wiped' = 3 THEN "start" ELSE "reset")
          /\ pc = "reset" /\ wiped \in {0, 1, 2}
          /\ UNCHANGED <<failed, faults, stack, expected, verify, snapshot, k6>>
      BY <1>3, <2>2, Bounds DEF Reset, IInv, Wiping, TypeOK
    <3>2. /\ users' = (IF wiped = 0 THEN {} ELSE users)
          /\ orders' = (IF wiped = 1 THEN {} ELSE orders)
          /\ stock' = (IF wiped = 2 THEN expected ELSE stock)
          /\ queue' = queue
      BY <3>1, Bounds DEF Wipe
    <3>3. users' = {} /\ Cardinality({}) = 0 /\ queue' \cup orders' \subseteq Old
      BY <3>1, <3>2, Bounds DEF IInv, Wiping, Traced, BeforeReset, BeforeBurst
    <3>4. expected \in Nat /\ expected # Missing
      BY Bounds DEF IInv, TypeOK
    <3>5. TypeOK'
      BY <3>1, <3>2, <3>3, <3>4, Bounds DEF IInv, TypeOK, Running
    <3>6. Bounded'
      <4>1. CASE wiped = 2
        BY <3>1, <3>2, <3>3, <3>4, <4>1 DEF Bounded
      <4>2. CASE wiped # 2
        <5>1. users \in SUBSET Buyers /\ Cardinality(users) \in Nat /\ stock \in Nat \cup {Missing}
          BY FewBuyers DEF IInv, TypeOK
        <5> QED
          BY <3>1, <3>2, <3>3, <3>4, <4>2, <5>1, Bounds DEF IInv, Bounded
      <4> QED
        BY <4>1, <4>2
    <3>7. Sentinel' /\ Wiping' /\ Traced'
      BY <3>1, <3>2, <3>3, <3>4, Bounds
      DEF IInv, Sentinel, Wiping, Traced, Sound, stack, k6,
          BeforeReset, BeforeBurst, AfterReset, Closing
    <3>8. Answered' /\ Honest' /\ Counted' /\ Judged' /\ Reopened' /\ PassIsSound'
      BY <3>1, <3>3
      DEF IInv, Answered, Honest, Counted, verify, BeforeReset, BeforeBurst, Judged, Reopened, PassIsSound, Sound, AfterReset, AfterBurst, AfterJudge, Closing
    <3> QED
      BY <3>5, <3>6, <3>7, <3>8 DEF IInv
  <2> QED
    BY <1>3, <2>1, <2>2 DEF Reset
<1>4. CASE StartApi
  <2>1. stock # Missing
    BY <1>4 DEF StartApi, RestartApi, IInv, Sentinel, AfterReset
  <2>2. CASE Boot /\ pc' = "burst" /\ UNCHANGED <<failed, faults>>
    <3>1. TypeOK'
      BY <1>4, <2>2, BootInv DEF StartApi, RestartApi, IInv, TypeOK, Running
    <3>2. /\ UNCHANGED stores /\ late' = {}
          /\ api' = "up" /\ apiWindow' = window /\ window' = window
      BY <2>1, <2>2 DEF Boot
    <3> QED
      BY <1>4, <2>1, <2>2, <3>1, <3>2
      DEF StartApi, RestartApi, IInv, Sentinel, Wiping, Bounded, Traced, Answered, Honest,
          Counted, Judged, Reopened, PassIsSound, Sound, BeforeReset, BeforeBurst, AfterReset, AfterBurst, AfterJudge, Closing
  <2>3. CASE api' \in {"stopped", "crashed"} /\ GiveUpAt("finish")
             /\ UNCHANGED <<stores, window, apiWindow>>
    <3>1. TypeOK'
      BY <1>4, <2>3, Bounds DEF StartApi, RestartApi, IInv, TypeOK, Running
    <3> QED
      BY <1>4, <2>1, <2>3, <3>1
      DEF StartApi, RestartApi, IInv, Sentinel, Wiping, Bounded, Traced, Answered, Honest,
          Counted, Judged, Reopened, PassIsSound, Sound, BeforeReset, BeforeBurst, AfterReset, AfterBurst, AfterJudge, Closing
  <2> QED
    BY <1>4, <2>2, <2>3 DEF StartApi, RestartApi
<1> QED
  BY <1>1, <1>2, <1>3, <1>4

(* One attempt: whoever is told of an order holds it, and an answer that   *)
(* hides one breaches a threshold.                                         *)
LEMMA PostInv ==
    ASSUME IInv, NEW b \in Shoppers, Post(b)
    PROVE  IInv'
<1>1. /\ pc = "burst" /\ left[b] > 0 /\ b \in Buyers
      /\ UNCHANGED <<stack, pc, expected, failed, wiped, verify, snapshot, told, whole>>
      /\ stock \in Nat /\ stock # Missing
  BY DEF Post, IInv, TypeOK, Sentinel, AfterReset, Buyers
<1>2. PICK code \in {0, 200, 202, 409, 503} :
         /\ Reply(b, code)
         /\ \/ /\ Take(b) /\ b \notin users /\ stock > 0
               /\ queue' \in {queue, queue \cup {b}}
               /\ code \in {202, 503}
            \/ UNCHANGED stores /\ code # 202
  <2>1. CASE Accept(b)
    BY <2>1 DEF Accept, Commit, StockLeft
  <2>2. CASE Answer(b)
    BY <2>2 DEF Answer
  <2>3. CASE TimeOut(b)
    BY <2>3 DEF TimeOut, StockLeft
  <2>4. CASE Refused(b)
    BY <2>4 DEF Refused
  <2> QED
    BY <2>1, <2>2, <2>3, <2>4 DEF Post
<1> DEFINE new == [by |-> b, code |-> code]
<1>3. /\ left' \in [Shoppers -> Nat]
      /\ replies' = replies \cup {new}
      /\ replies' \subseteq [by : Shoppers, code : {0, 200, 202, 409, 503}]
      /\ faults' \in 0..MaxFaults
  <2>1. left' = [left EXCEPT ![b] = @ - 1] /\ replies' = replies \cup {new}
    BY <1>2 DEF Reply
  <2>2. left' \in [Shoppers -> Nat]
    BY <1>1, <2>1 DEF IInv, TypeOK
  <2>3. faults' \in 0..MaxFaults
    BY <1>1, Bounds DEF Post, Accept, Commit, Answer, TimeOut, Refused, SpendFault, IInv, TypeOK
  <2> QED
    BY <2>1, <2>2, <2>3 DEF IInv, TypeOK
<1>4. new.by = b /\ new.code = code /\ new \in replies' /\ 503 \notin Allowed(b)
  BY <1>3 DEF Allowed
<1> HIDE DEF new
<1>5. CASE Take(b) /\ b \notin users /\ stock > 0 /\ code \in {202, 503}
           /\ queue' \in {queue, queue \cup {b}}
  <2>1. /\ users' = users \cup {b} /\ users' \subseteq Buyers /\ orders' = orders
        /\ stock' \in Nat /\ stock' # Missing
        /\ stock' + Cardinality(users') = stock + Cardinality(users)
    BY <1>1, <1>5, Takes
  <2>2. TypeOK'
    BY <1>1, <1>3, <1>5, <2>1 DEF IInv, TypeOK, stack, verify
  <2>3. Answered'
    <3>1. ASSUME NEW r \in replies', r.code = 202 PROVE r.by \in users'
      BY <1>1, <1>3, <1>4, <2>1, <3>1 DEF IInv, Answered
    <3>2. ASSUME NEW x \in users'
          PROVE  \E r \in replies' : r.by = x /\ (r.code = 202 \/ r.code \notin Allowed(x))
      <4>1. CASE x = b
        BY <1>4, <1>5, <4>1
      <4>2. CASE x \in users
        BY <1>1, <1>3, <4>2 DEF IInv, Answered
      <4> QED
        BY <2>1, <4>1, <4>2
    <3> QED
      BY <3>1, <3>2 DEF Answered
  <2>4. Bounded'
    BY <1>1, <2>1 DEF IInv, Bounded
  <2> QED
    BY <1>1, <1>5, <2>1, <2>2, <2>3, <2>4
    DEF IInv, Sentinel, Wiping, Traced, Honest, Counted, Judged, Reopened, PassIsSound, Sound,
        stack, verify, BeforeReset, BeforeBurst, AfterReset, AfterBurst, AfterJudge, Closing
<1>6. CASE UNCHANGED stores /\ code # 202
  <2>1. TypeOK'
    BY <1>1, <1>3, <1>6 DEF IInv, TypeOK, stack, verify, stores
  <2>2. Answered'
    <3>1. ASSUME NEW r \in replies', r.code = 202 PROVE r.by \in users
      BY <1>1, <1>3, <1>4, <1>6, <3>1 DEF IInv, Answered
    <3>2. users' = users /\ replies \subseteq replies'
      BY <1>3, <1>6 DEF stores
    <3> QED
      BY <1>1, <3>1, <3>2 DEF IInv, Answered
  <2> QED
    BY <1>1, <1>6, <2>1, <2>2
    DEF IInv, Sentinel, Wiping, Bounded, Traced, Honest, Counted, Judged, Reopened, PassIsSound,
        Sound, stores, stack, verify,
        BeforeReset, BeforeBurst, AfterReset, AfterBurst, AfterJudge, Closing
<1> QED
  BY <1>2, <1>5, <1>6

(* What a phase records.                                                   *)
LEMMA Recorded ==
    ASSUME IInv, NEW ok \in BOOLEAN, NEW phase, Record(ok, phase)
    PROVE  /\ pc' = phase /\ failed' \in BOOLEAN
           /\ failed => failed'
           /\ ~ok => failed'
  BY DEF Record, IInv, TypeOK

LEMMA GaveUp ==
    ASSUME IInv, NEW phase, GiveUpAt(phase)
    PROVE  pc' = phase /\ failed' = TRUE /\ SpendFault
  BY DEF Record, GiveUpAt, IInv, TypeOK

(* From the end of the burst on the keys stay as they are: what a phase    *)
(* has to keep is the verifier's judgement and the window.                 *)
LEMMA TypeKept ==
    ASSUME IInv, UNCHANGED <<stores, k6, wiped, expected>>, SpendFault \/ UNCHANGED faults,
           late' \subseteq Shoppers, pc' \in Running \cup Ended, failed' \in BOOLEAN,
           window' \in Windows, apiWindow' \in Windows, snapshot' \in Windows,
           api' \in {"up", "stopped", "crashed"}, samples' \in 0..MaxSamples, previous' \in Nat
    PROVE  TypeOK'
<1>1. faults' \in 0..MaxFaults
  BY Bounds DEF IInv, TypeOK, SpendFault
<1> QED
  BY <1>1 DEF IInv, TypeOK, stores, k6

LEMMA PhaseInv ==
    ASSUME IInv, TypeOK', UNCHANGED <<stores, k6, wiped, expected>>, late' \subseteq late,
           pc \in AfterBurst, pc' \in AfterBurst \cup {"finish"}, failed => failed',
           Counted', Judged', Reopened'
    PROVE  IInv'
<1>1. stock # Missing
  BY DEF IInv, Sentinel, AfterReset, AfterBurst
<1>2. Sentinel' /\ Wiping' /\ Bounded' /\ Traced' /\ Answered' /\ PassIsSound'
  BY <1>1 DEF IInv, Sentinel, Wiping, Bounded, Traced, Answered, PassIsSound,
              BeforeReset, BeforeBurst, AfterReset, AfterBurst, stores
<1>3. Honest'
  BY DEF IInv, Honest, AfterReset, AfterBurst, Closing, stores, k6
<1> QED
  BY <1>2, <1>3 DEF IInv

(* The burst is over: what was scored is what the thresholds judged.       *)
LEMMA EndBurstInv ==
    ASSUME IInv, EndBurst
    PROVE  IInv'
<1>1. /\ UNCHANGED <<stores, window, api, apiWindow, expected, wiped, verify, snapshot>>
      /\ pc = "burst" /\ stock # Missing
      /\ left' = [b \in Shoppers |-> 0] /\ replies' = {} /\ late' = OnTheWire \ users
  BY DEF EndBurst, IInv, Sentinel, AfterReset
<1>2. /\ SpendFault \/ UNCHANGED faults
      /\ failed' \in BOOLEAN /\ (failed => failed')
      /\ pc' = "sample" \/ (pc' = "finish" /\ failed')
      /\ told' \subseteq Shoppers /\ whole' \in BOOLEAN
      /\ ~failed' => told' \subseteq users /\ (whole' => told' = users /\ late' = {})
  <2>1. CASE (GiveUpAt("sample") \/ GiveUpAt("finish")) /\ UNCHANGED <<told, whole>>
    BY <2>1, GaveUp DEF IInv, TypeOK
  <2>2. CASE \E answers \in SUBSET replies :
                Scored(answers) /\ (SpendFault \/ UNCHANGED faults)
    <3>1. PICK answers \in SUBSET replies : Scored(answers) /\ (SpendFault \/ UNCHANGED faults)
      BY <2>2
    <3> DEFINE ok == \A r \in answers : r.code \in Allowed(r.by)
    <3>2. /\ told' = {r.by : r \in {a \in answers : a.code = 202}}
          /\ whole' = (OnTheWire = {} /\ answers = replies)
          /\ Record(ok, "sample")
      BY <3>1 DEF Scored
    <3>3. pc' = "sample" /\ failed' \in BOOLEAN /\ (failed => failed') /\ (~ok => failed')
      <4>1. ok \in BOOLEAN
        OBVIOUS
      <4> HIDE DEF ok
      <4> QED
        BY <3>2, <4>1, Recorded
    <3>4. told' \subseteq Shoppers /\ told' \subseteq users /\ whole' \in BOOLEAN
      BY <1>1, <3>1, <3>2 DEF IInv, TypeOK, Answered
    <3>5. ASSUME ok, whole' PROVE told' = users /\ late' = {}
      <4>1. OnTheWire = {} /\ answers = replies
        BY <3>2, <3>5
      <4>2. ASSUME NEW b \in users PROVE b \in told'
        <5>1. PICK r \in replies : r.by = b /\ (r.code = 202 \/ r.code \notin Allowed(b))
          BY <1>1 DEF IInv, Answered
        <5>2. r.code = 202
          BY <3>5, <4>1, <5>1
        <5> QED
          BY <3>2, <4>1, <5>1, <5>2
      <4> QED
        BY <1>1, <3>4, <4>1, <4>2
    <3> QED
      BY <3>1, <3>3, <3>4, <3>5
  <2> QED
    BY <2>1, <2>2 DEF EndBurst
<1>3. TypeOK'
  <2>1. faults' \in 0..MaxFaults
    BY <1>2, Bounds DEF IInv, TypeOK, SpendFault
  <2>2. left' \in [Shoppers -> Nat] /\ late' \subseteq Shoppers
    BY <1>1, Bounds DEF OnTheWire
  <2> QED
    BY <1>1, <1>2, <2>1, <2>2 DEF IInv, TypeOK, stores, verify, Running
<1>4. Cardinality(orders) \in Nat
  BY FewBuyers DEF IInv, TypeOK
<1>5. Counted'
  BY <1>1, <1>2, <1>4 DEF IInv, Counted, BeforeReset, BeforeBurst, verify, stores
<1>6. Honest'
  BY <1>1, <1>2 DEF Honest, stores
<1>7. Judged' /\ Reopened' /\ Answered' /\ PassIsSound'
  BY <1>2 DEF Judged, Reopened, Answered, PassIsSound, Sound,
              AfterReset, AfterBurst, AfterJudge, Closing
<1>8. Sentinel' /\ Wiping' /\ Bounded' /\ Traced'
  BY <1>1, <1>2 DEF IInv, Sentinel, Wiping, Bounded, Traced, BeforeReset, BeforeBurst, stores
<1> QED
  BY <1>3, <1>5, <1>6, <1>7, <1>8 DEF IInv

(* The verifier's phases, which leave the stack alone.                     *)
LEMMA VerifyInv ==
    ASSUME IInv, Sample \/ CountDistinct \/ Judge
    PROVE  IInv'
<1>1. /\ UNCHANGED <<stores, stack, k6, wiped, expected, snapshot>>
      /\ pc \in {"sample", "distinct", "judge"} /\ pc \in AfterBurst
  BY DEF Sample, CountDistinct, Judge, AfterBurst, AfterReset
<1>2. /\ window' \in Windows /\ apiWindow' \in Windows /\ snapshot' \in Windows
      /\ api' \in {"up", "stopped", "crashed"} /\ late' \subseteq Shoppers /\ late' = late
      /\ failed \in BOOLEAN
  BY <1>1 DEF stack, IInv, TypeOK
<1>3. /\ samples' \in 0..MaxSamples /\ previous' \in Nat
  <2>1. orders \in SUBSET Buyers /\ Cardinality(orders) \in Nat
    BY FewBuyers DEF IInv, TypeOK
  <2>2. CASE Sample
    BY <2>1, <2>2, Bounds DEF Sample, IInv, TypeOK
  <2>3. CASE UNCHANGED verify
    BY <2>3 DEF verify, IInv, TypeOK
  <2> QED
    BY <2>2, <2>3 DEF CountDistinct, Judge
<1>4. /\ SpendFault \/ UNCHANGED faults
      /\ failed' \in BOOLEAN
      /\ failed => failed'
      /\ pc' \in {"sample", "distinct", "judge", "capture"}
      /\ pc' = "capture" => failed' \/ Passed
  <2>1. CASE Sample
    <3>1. CASE Goto("distinct") \/ Goto("sample")
      BY <1>2, <2>1, <3>1 DEF Sample, Goto
    <3>2. CASE Record(FALSE, "capture")
      <4>1. pc' = "capture" /\ failed' \in BOOLEAN /\ failed'
        BY <3>2, Recorded
      <4> QED
        BY <2>1, <4>1 DEF Sample
    <3>3. Goto("distinct") \/ Goto("sample") \/ Record(FALSE, "capture")
      BY <2>1 DEF Sample
    <3> QED
      BY <3>1, <3>2, <3>3
  <2>2. CASE CountDistinct
    <3>1. PICK ok \in BOOLEAN : Record(ok, "judge")
      BY <2>2 DEF CountDistinct
    <3>2. pc' = "judge" /\ failed' \in BOOLEAN /\ (failed => failed')
      BY <3>1, Recorded
    <3> QED
      BY <2>2, <3>2 DEF CountDistinct
  <2>3. CASE Judge
    <3>1. CASE Record(Passed, "capture") /\ UNCHANGED faults
      <4>1. Passed \in BOOLEAN
        BY DEF Passed
      <4> QED
        BY <2>3, <3>1, <4>1, Recorded DEF Judge
    <3>2. CASE GiveUpAt("capture")
      BY <2>3, <3>2, GaveUp DEF Judge
    <3> QED
      BY <2>3, <3>1, <3>2 DEF Judge
  <2> QED
    BY <2>1, <2>2, <2>3
<1>5. TypeOK'
  BY <1>1, <1>2, <1>3, <1>4, TypeKept DEF Running
<1>6. Cardinality(orders) \in Nat /\ previous <= Cardinality(orders)
  BY <1>1, FewBuyers DEF IInv, TypeOK, Counted
<1>7. Counted'
  <2>1. previous' = Cardinality(orders) \/ previous' = previous
    BY DEF Sample, CountDistinct, Judge, verify
  <2> QED
    BY <1>1, <1>3, <1>4, <1>6, <2>1 DEF Counted, BeforeReset, BeforeBurst, stores
<1>8. Judged'
  <2>1. Passed => /\ Target <= Cardinality(users) /\ stock + Cardinality(users) = Quantity
                  /\ Target <= Cardinality(orders) + Tolerance
    <3>1. previous \in Nat
      BY DEF IInv, TypeOK
    <3> QED
      BY <1>6, <3>1, Margins DEF Passed
  <2> QED
    BY <1>1, <1>4, <2>1 DEF Judged, stores, AfterJudge, AfterBurst, AfterReset, Closing
<1>9. Reopened'
  BY <1>4 DEF Reopened, Sound, Closing
<1> QED
  BY <1>1, <1>2, <1>4, <1>5, <1>7, <1>8, <1>9, PhaseInv DEF AfterBurst, AfterReset

(* The window phase touches neither the keys nor the judgement: a phase    *)
(* either succeeds or fails the run.                                       *)
LEMMA WindowKept ==
    ASSUME IInv, UNCHANGED <<stores, k6, wiped, expected, verify>>,
           pc \in AfterJudge, pc' \in AfterJudge \cup {"finish"},
           SpendFault \/ UNCHANGED faults, failed' \in BOOLEAN, failed => failed',
           late' \subseteq late,
           window' \in Windows, apiWindow' \in Windows, snapshot' \in Windows,
           api' \in {"up", "stopped", "crashed"},
           Reopened'
    PROVE  IInv'
<1>1. samples' \in 0..MaxSamples /\ previous' \in Nat
  BY DEF IInv, TypeOK, verify
<1>2. TypeOK'
  <2>1. late' \subseteq Shoppers
    BY DEF IInv, TypeOK
  <2> QED
    BY <1>1, <2>1, TypeKept DEF AfterJudge, AfterBurst, AfterReset, Running
<1>3. Judged' /\ Counted'
  BY DEF IInv, Judged, Counted, stores, AfterJudge, AfterBurst, AfterReset, BeforeReset, BeforeBurst
<1> QED
  BY <1>2, <1>3, PhaseInv DEF AfterJudge, AfterBurst

LEMMA CloseInv ==
    ASSUME IInv, Capture \/ CloseWindow \/ Probe \/ RestoreWindow \/ ConfirmRestored
    PROVE  IInv'
<1>1. /\ UNCHANGED <<stores, k6, wiped, expected, verify, api, apiWindow, late>>
      /\ pc \in AfterJudge
      /\ window' \in Windows /\ apiWindow' \in Windows /\ snapshot' \in Windows
      /\ api' \in {"up", "stopped", "crashed"} /\ failed \in BOOLEAN
  BY DEF Capture, CloseWindow, Probe, RestoreWindow, ConfirmRestored, stack,
         IInv, TypeOK, Windows, AfterJudge, AfterBurst, AfterReset
<1>2. /\ SpendFault \/ UNCHANGED faults
      /\ failed' \in BOOLEAN
      /\ failed => failed'
      /\ \/ pc' \in {"close", "closedApi", "restore", "openApi"}
         \/ pc' = "finish" /\ failed'
         \/ pc = "confirm" /\ pc' = "finish" /\ UNCHANGED window /\ (failed' \/ apiWindow = "open")
  <2>1. CASE Capture \/ CloseWindow
    <3>1. CASE GiveUpAt("finish")
      BY <3>1, GaveUp
    <3>2. CASE (Goto("close") \/ Goto("closedApi")) /\ UNCHANGED faults
      BY <1>1, <3>2 DEF Goto
    <3> QED
      BY <2>1, <3>1, <3>2 DEF Capture, CloseWindow
  <2>2. CASE Probe
    <3>1. CASE GiveUpAt("restore")
      BY <3>1, GaveUp
    <3>2. CASE Record(api = "up" /\ apiWindow = "closed", "restore") /\ UNCHANGED faults
      <4>1. (api = "up" /\ apiWindow = "closed") \in BOOLEAN
        OBVIOUS
      <4> QED
        BY <3>2, <4>1, Recorded
    <3> QED
      BY <2>2, <3>1, <3>2 DEF Probe
  <2>3. CASE RestoreWindow
    BY <1>1, <2>3 DEF RestoreWindow, Goto
  <2>4. CASE ConfirmRestored
    <3>1. CASE GiveUpAt("finish")
      BY <3>1, GaveUp
    <3>2. CASE Record(BackOpen, "finish") /\ UNCHANGED faults
      <4>1. BackOpen \in BOOLEAN
        BY DEF BackOpen
      <4> QED
        BY <2>4, <3>2, <4>1, Recorded DEF ConfirmRestored, BackOpen, stack
    <3> QED
      BY <2>4, <3>1, <3>2 DEF ConfirmRestored
  <2> QED
    BY <2>1, <2>2, <2>3, <2>4
<1>3. Reopened'
  BY <1>1, <1>2 DEF IInv, Reopened, Sound, Closing
<1> QED
  BY <1>1, <1>2, <1>3, WindowKept DEF AfterJudge, AfterBurst, AfterReset

(* Of the two restarts only the last one has to serve the sale's window.   *)
LEMMA RestartInv ==
    ASSUME IInv, StartClosedApi \/ StartOpenApi
    PROVE  IInv'
<1>1. /\ pc \in AfterJudge /\ stock # Missing
      /\ UNCHANGED <<k6, wiped, expected, verify, snapshot>>
  BY DEF StartClosedApi, StartOpenApi, RestartApi, IInv, Sentinel,
         AfterJudge, AfterBurst, AfterReset
<1>2. /\ UNCHANGED stores /\ window' = window
      /\ apiWindow' \in {window, apiWindow} /\ api' \in {"up", "stopped", "crashed"}
      /\ late' = {} /\ (Boot => apiWindow' = window)
  BY <1>1 DEF StartClosedApi, StartOpenApi, RestartApi, Boot, stores
<1>3. /\ SpendFault \/ UNCHANGED faults
      /\ failed' \in BOOLEAN
      /\ failed => failed'
      /\ \/ pc' \in {"probe", "restore"}
         \/ pc' = "confirm" /\ apiWindow' = window
         \/ pc' = "finish" /\ failed'
  <2>1. CASE Boot /\ (Goto("probe") \/ Goto("confirm")) /\ UNCHANGED faults
    BY <1>2, <2>1 DEF Goto, IInv, TypeOK
  <2>2. CASE GiveUpAt("restore") \/ GiveUpAt("finish")
    BY <2>2, GaveUp
  <2> QED
    BY <2>1, <2>2 DEF StartClosedApi, StartOpenApi, RestartApi
<1>4. Reopened'
  BY <1>2, <1>3 DEF Reopened, Sound, Closing
<1>5. window' \in Windows /\ apiWindow' \in Windows /\ snapshot' \in Windows
  BY <1>1, <1>2 DEF IInv, TypeOK
<1> QED
  BY <1>1, <1>2, <1>3, <1>4, <1>5, WindowKept DEF AfterJudge, AfterBurst, AfterReset

LEMMA FinishInv == ASSUME IInv, Finish PROVE IInv'
<1>1. /\ pc = "finish" /\ pc' = IF failed THEN "fail" ELSE "pass"
      /\ UNCHANGED <<stores, stack, expected, failed, wiped, verify, snapshot, k6, faults>>
  BY DEF Finish, Goto
<1>2. TypeOK'
  BY <1>1 DEF IInv, TypeOK, stores, stack, verify, k6, Ended
<1> QED
  BY <1>1, <1>2
  DEF IInv, Sentinel, Wiping, Bounded, Traced, Answered,
        Honest, Counted, Judged, Reopened, PassIsSound, Sound, stores, stack,
      k6, BeforeReset, BeforeBurst, AfterReset, AfterBurst, AfterJudge, Closing

LEMMA NextInv == IInv /\ [Next]_vars => IInv'
<1> SUFFICES ASSUME IInv, [Next]_vars PROVE IInv'
  OBVIOUS
<1>1. CASE HarnessStep
  BY <1>1, SetUpInv, PostInv, EndBurstInv, VerifyInv, CloseInv, RestartInv, FinishInv DEF HarnessStep
<1>2. CASE Persist \/ LateCommit \/ ApiCrash \/ Revive \/ Abort
  BY <1>2, PersistInv, LateInv, OutsideInv
<1>3. CASE UNCHANGED vars
  BY <1>3 DEF vars, stores, stack, verify, k6, IInv, TypeOK, Sentinel, Wiping, Bounded, Traced,
              Answered, Honest, Counted, Judged, Reopened, PassIsSound, Sound
<1> QED
  BY <1>1, <1>2, <1>3 DEF Next

-----------------------------------------------------------------------------
(* The invariant holds in every state of a run, whatever fails.            *)
THEOREM Inductive == Spec => []IInv
<1>1. Init => IInv
  BY InitInv
<1>2. IInv /\ [Next]_vars => IInv'
  BY NextInv
<1> QED
  BY <1>1, <1>2, PTL DEF Spec

(* Type correctness of the stores, the stack and the harness.              *)
THEOREM StressTypes == Spec => []TypeOK
<1>1. IInv => TypeOK
  BY DEF IInv
<1> QED
  BY <1>1, Inductive, PTL

(* A PASS is printed only for a fair run: as many hold an order as there   *)
(* were units or attempts, whoever was told of one does and, unless the    *)
(* burst was cut short, nobody else; every unit is accounted for, and what *)
(* MongoDB holds falls short by the tolerance at most.                     *)
THEOREM PassIsFair == Spec => []PassMeansFair
<1>1. IInv => PassMeansFair
  BY DEF IInv, PassIsSound, Honest, Judged, Traced, PassMeansFair, Closing
<1> QED
  BY <1>1, Inductive, PTL

(* A run that prints PASS leaves an API that serves an open window.        *)
THEOREM PassIsOpen == Spec => []PassLeavesOpen
<1>1. IInv => PassLeavesOpen
  BY DEF IInv, PassIsSound, Reopened, PassLeavesOpen, Sound, Closing
<1> QED
  BY <1>1, Inductive, PTL

(* Wherever the reset is cut off, an API that boots then offers no unit    *)
(* beside a buyer who holds it.                                            *)
THEOREM CutOffIsSafe == Spec => []InterruptedResetIsSafe
<1>1. IInv => InterruptedResetIsSafe
  BY DEF IInv, Sentinel, Bounded, InterruptedResetIsSafe
<1> QED
  BY <1>1, Inductive, PTL
=============================================================================
