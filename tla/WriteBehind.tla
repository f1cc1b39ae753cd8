----------------------------- MODULE WriteBehind -----------------------------
(***************************************************************************)
(* The write-behind audit path: the Redis stream queue:orders with its     *)
(* consumer group, the worker processes that drain it in batches, and the  *)
(* five-phase bulk write that persists a batch to MongoDB before the batch *)
(* is acknowledged.                                                        *)
(*                                                                         *)
(* Entries are numbered in the order of their XADD; log holds every entry  *)
(* ever added, of which 1..gone have left the stream (MAXLEN trimming, or  *)
(* the loss of the key).  XACK does not remove an entry from the stream,   *)
(* only from the pending list (PEL) of the consumer it was delivered to.   *)
(* Every await of the worker is a step: each may fail, a bulk write after  *)
(* any part of it was applied, and the process may die at each.            *)
(***************************************************************************)
EXTENDS Integers, FiniteSets, Sequences, FiniteSetsExt

CONSTANTS Sales, Buyers, Products,
          ProductOf,  \* [Sales -> Products]: one product per sale
          Workers,    \* worker processes
          Names,      \* consumer names
          NameOf,     \* [Workers -> SUBSET Names]: the names a process may start with
          BatchSize,  \* messages per XREADGROUP
          MaxLen,     \* the MAXLEN threshold of the XADD
          MaxFaults   \* bound: failed calls and crashes in a behaviour

ASSUME ProductAssumption == ProductOf \in [Sales -> Products]
ASSUME BatchAssumption == BatchSize \in Nat \ {0} /\ MaxLen \in Nat \ {0} /\ MaxFaults \in Nat
(* "Each running worker instance must have a unique name."                 *)
ASSUME NameAssumption ==
    /\ NameOf \in [Workers -> SUBSET Names]
    /\ \A v, w \in Workers : v # w => NameOf[v] \cap NameOf[w] = {}

VARIABLES
    (* Redis *)
    log, gone, group, last, pel,
    (* the workers *)
    pc, running, name, batch,
    (* MongoDB *)
    users, orders, lines,
    (* history: the entries acknowledged; the faults so far *)
    acked, faults

redisVars  == <<log, gone, group, last, pel>>
workerVars == <<pc, running, name, batch>>
mongoVars  == <<users, orders, lines>>
vars == <<redisVars, workerVars, mongoVars, acked, faults>>

(* A queued payload, and the Order document it asks for.                   *)
OrderKey == Sales \X Buyers
SaleOf(k)  == k[1]
BuyerOf(k) == k[2]

Ids  == 1..Len(log)
Live == (gone + 1)..Len(log)

Reading == {"pending", "fresh"}
Writing == {"users", "orders", "lines", "ack"}
Stages  == {"off", "group", "top", "backoff", "dead"} \cup Reading \cup Writing

Init ==
    /\ log = <<>> /\ gone = 0 /\ group = FALSE /\ last = 0
    /\ pel = [c \in Names |-> {}]
    /\ pc = [w \in Workers |-> "off"]
    /\ running = [w \in Workers |-> FALSE]
    /\ name \in {n \in [Workers -> Names] : \A w \in Workers : n[w] \in NameOf[w]}
    /\ batch = [w \in Workers |-> {}]
    /\ users = {} /\ orders = {}
    /\ lines = [kp \in OrderKey \X Products |-> 0]
    /\ acked = {} /\ faults = 0

-----------------------------------------------------------------------------
(* The producer: XADD ... MAXLEN ~ threshold, which may trim the oldest    *)
(* entries beyond the threshold, delivered or not.                         *)

Queued(k) == \E i \in Ids : log[i] = k

Enqueue(k) ==
    /\ ~Queued(k)
    /\ log' = Append(log, k)
    /\ \E n \in gone..Max({gone, Len(log) + 1 - MaxLen}) : gone' = n
    /\ UNCHANGED <<group, last, pel, workerVars, mongoVars, acked, faults>>

-----------------------------------------------------------------------------
(* The worker loop.                                                        *)

Goto(w, stage) == pc' = [pc EXCEPT ![w] = stage]

Fail(w) ==
    /\ faults < MaxFaults
    /\ faults' = faults + 1
    /\ Goto(w, "backoff")
    /\ UNCHANGED <<running, name, batch>>

Start(w) ==
    /\ pc[w] = "off"
    /\ Goto(w, "group")
    /\ running' = [running EXCEPT ![w] = TRUE]
    /\ \E c \in NameOf[w] : name' = [name EXCEPT ![w] = c]
    /\ UNCHANGED <<redisVars, batch, mongoVars, acked, faults>>

(* Mutant: an existing group is set back to 0.                             *)
GroupReset == gone

(* XGROUP CREATE ... 0 MKSTREAM; BUSYGROUP is no error.                    *)
GroupStart == IF group THEN last ELSE gone

EnsureGroup(w) ==
    /\ pc[w] = "group"
    /\ group' = TRUE
    /\ last' = GroupStart
    /\ Goto(w, "top")
    /\ UNCHANGED <<log, gone, pel, running, name, batch, mongoVars, acked, faults>>

(* The loop rejects before its try block: nothing polls until a restart.   *)
GroupFails(w) ==
    /\ pc[w] = "group"
    /\ faults < MaxFaults /\ faults' = faults + 1
    /\ Goto(w, "dead")
    /\ UNCHANGED <<redisVars, running, name, batch, mongoVars, acked>>

(* The head of the while loop, or the exit of a process whose loop died.   *)
Loop(w) ==
    /\ pc[w] = "top" \/ (pc[w] = "dead" /\ ~running[w])
    /\ Goto(w, IF running[w] THEN "pending" ELSE "off")
    /\ UNCHANGED <<redisVars, running, name, batch, mongoVars, acked, faults>>

(* The n lowest elements of a set of entry numbers.                        *)
Lowest(S, n) == {i \in S : Cardinality({j \in S : j <= i}) <= n}

(* Mutant: every consumer's pending entries are read.                      *)
PendingOfAll(w) == Lowest(UNION {pel[c] : c \in Names}, BatchSize)

(* Mutant: the worker reads new entries only.                              *)
PendingSkipped(w) == {}

(* What a read of entry 0 returns: this consumer's own pending entries.    *)
Pending(w) == Lowest(pel[name[w]], BatchSize)

(* Mutant: an empty batch is written like any other.                       *)
AlwaysWrite(S, otherwise) == "users"

(* Only a batch with messages is written.                                  *)
IfAny(S, otherwise) == IF S = {} THEN otherwise ELSE "users"

(* XREADGROUP 0.  A pending entry that left the stream comes back without  *)
(* its message: it is skipped, or the whole read is rejected (see ReadFails)*)
ReadPending(w) ==
    /\ pc[w] = "pending" /\ group
    /\ batch' = [batch EXCEPT ![w] = Pending(w) \cap Live]
    /\ Goto(w, IfAny(Pending(w) \cap Live, "fresh"))
    /\ UNCHANGED <<redisVars, running, name, mongoVars, acked, faults>>

(* XREADGROUP >: claims entries that were never delivered, or times out.   *)
Claim(w, S) ==
    /\ last' = Max(S \cup {last})
    /\ pel' = [pel EXCEPT ![name[w]] = @ \cup S]

(* The first entries that are in the stream and past the group's last.     *)
Passed == Max({gone, last})

New == (Passed + 1)..Min({Passed + BatchSize, Len(log)})

ReadBatch(w) ==
    /\ pc[w] = "fresh" /\ group
    /\ Claim(w, New)
    /\ batch' = [batch EXCEPT ![w] = New]
    /\ Goto(w, IfAny(New, "top"))
    /\ UNCHANGED <<log, gone, group, running, name, mongoVars, acked, faults>>

(* A read fails, before or after Redis executed it.                        *)
ReadFails(w) ==
    /\ pc[w] \in Reading
    /\ \/ UNCHANGED <<last, pel>>
       \/ pc[w] = "fresh" /\ group /\ Claim(w, New)
    /\ Fail(w)
    /\ UNCHANGED <<log, gone, group, mongoVars, acked>>

(* NOGROUP, or a reply the client rejects: an error that is no fault of    *)
(* the connection and repeats on every turn.                               *)
ReadRejected(w) ==
    /\ \/ pc[w] \in Reading /\ ~group
       \/ pc[w] = "pending" /\ group /\ ~(Pending(w) \subseteq Live)
    /\ Goto(w, "backoff")
    /\ UNCHANGED <<redisVars, running, name, batch, mongoVars, acked, faults>>

Backoff(w) ==
    /\ pc[w] = "backoff"
    /\ Goto(w, "top")
    /\ batch' = [batch EXCEPT ![w] = {}]
    /\ UNCHANGED <<redisVars, running, name, mongoVars, acked, faults>>

-----------------------------------------------------------------------------
(* bulkRecordOrders, phase by phase.  A bulkWrite is unordered: it applies *)
(* the whole of its operations, or fails after applying some of them.      *)

Payloads(w) == {log[i] : i \in batch[w]}

(* Mutant: the errors of the unordered writes are swallowed.               *)
PhaseSwallows(w, stage, next, ops, done) ==
    /\ pc[w] = stage
    /\ done \subseteq ops
    /\ Goto(w, next)
    /\ UNCHANGED <<redisVars, running, name, batch, acked, faults>>

Phase(w, stage, next, ops, done) ==
    /\ pc[w] = stage
    /\ done \subseteq ops
    /\ \/ done = ops /\ Goto(w, next) /\ UNCHANGED <<running, name, batch, faults>>
       \/ Fail(w)
    /\ UNCHANGED <<redisVars, acked>>

WriteUsers(w) ==
    LET ops == {BuyerOf(k) : k \in Payloads(w)} IN
    \E done \in SUBSET ops :
        /\ Phase(w, "users", "orders", ops, done)
        /\ users' = users \cup done
        /\ UNCHANGED <<orders, lines>>

WriteOrders(w) ==
    \E done \in SUBSET Payloads(w) :
        /\ Phase(w, "orders", "lines", Payloads(w), done)
        /\ orders' = orders \cup done
        /\ UNCHANGED <<users, lines>>

(* orderIdByEmail: the order ids found, in one map keyed by e-mail only.   *)
(* Of two sales in one batch, the one seen later overwrites.               *)
FirstSeen(w, s) == Min({i \in batch[w] : SaleOf(log[i]) = s})

OrderByEmail(w, b) ==
    CHOOSE k \in Payloads(w) :
        /\ BuyerOf(k) = b
        /\ \A j \in Payloads(w) :
              BuyerOf(j) = b => j = k \/ FirstSeen(w, SaleOf(j)) < FirstSeen(w, SaleOf(k))

LineOf(w, k) == <<OrderByEmail(w, BuyerOf(k)), ProductOf[SaleOf(k)]>>

(* Mutant: an insert instead of the upsert on (orderId, productId).        *)
InsertLine(kp, S) == IF kp \in S THEN lines[kp] + 1 ELSE lines[kp]

UpsertLine(kp, S) == IF kp \in S /\ lines[kp] = 0 THEN 1 ELSE lines[kp]

WriteLines(w) ==
    LET ops == {LineOf(w, k) : k \in Payloads(w)} IN
    \E done \in SUBSET ops :
        /\ Phase(w, "lines", "ack", ops, done)
        /\ lines' = [kp \in OrderKey \X Products |-> UpsertLine(kp, done)]
        /\ UNCHANGED <<users, orders>>

Acknowledge(w) ==
    /\ pel' = [pel EXCEPT ![name[w]] = @ \ batch[w]]
    /\ acked' = acked \cup (batch[w] \cap pel[name[w]])

Ack(w) ==
    /\ pc[w] = "ack"
    /\ Acknowledge(w)
    /\ Goto(w, "top")
    /\ batch' = [batch EXCEPT ![w] = {}]
    /\ UNCHANGED <<log, gone, group, last, running, name, mongoVars, faults>>

AckFails(w) ==
    /\ pc[w] = "ack"
    /\ Acknowledge(w) \/ UNCHANGED <<pel, acked>>
    /\ Fail(w)
    /\ UNCHANGED <<log, gone, group, last, mongoVars>>

-----------------------------------------------------------------------------
(* SIGTERM: the loop ends at its next turn.                                *)
Stop(w) ==
    /\ running[w] /\ running' = [running EXCEPT ![w] = FALSE]
    /\ faults < MaxFaults /\ faults' = faults + 1
    /\ UNCHANGED <<redisVars, pc, name, batch, mongoVars, acked>>

Crash(w) ==
    /\ pc[w] # "off"
    /\ faults < MaxFaults /\ faults' = faults + 1
    /\ Goto(w, "off")
    /\ running' = [running EXCEPT ![w] = FALSE]
    /\ batch' = [batch EXCEPT ![w] = {}]
    /\ UNCHANGED <<redisVars, name, mongoVars, acked>>

(* Redis loses queue:orders, and the consumer group with it.               *)
LoseStream ==
    /\ faults < MaxFaults /\ faults' = faults + 1
    /\ gone' = Len(log) /\ group' = FALSE /\ last' = Len(log)
    /\ pel' = [c \in Names |-> {}]
    /\ UNCHANGED <<log, workerVars, mongoVars, acked>>

WorkerStep(w) ==
    \/ Start(w) \/ EnsureGroup(w) \/ Loop(w) \/ Backoff(w)
    \/ ReadPending(w) \/ ReadBatch(w) \/ ReadRejected(w)
    \/ WriteUsers(w) \/ WriteOrders(w) \/ WriteLines(w) \/ Ack(w)

Fault(w) == ReadFails(w) \/ AckFails(w) \/ Stop(w) \/ Crash(w)

Next ==
    \/ \E k \in OrderKey : Enqueue(k)
    \/ \E w \in Workers : WorkerStep(w) \/ Fault(w)

Spec == Init /\ [][Next]_vars

(* Every process makes progress, and is restarted when it exits (restart:  *)
(* unless-stopped).                                                        *)
Fairness == \A w \in Workers : WF_vars(WorkerStep(w))

FairSpec == Spec /\ Fairness

(* The same, with the first command of a worker allowed to fail.           *)
BootNext == Next \/ \E w \in Workers : GroupFails(w)

BootSpec == Init /\ [][BootNext]_vars /\ Fairness

(* The same, with Redis allowed to lose the stream.                        *)
LossyNext == BootNext \/ LoseStream

LossySpec == Init /\ [][LossyNext]_vars

-----------------------------------------------------------------------------
(* Properties.                                                             *)

(* The variables range over what the code can hold; in particular a batch  *)
(* being written or acknowledged is never empty.                           *)
TypeOK ==
    /\ log \in Seq(OrderKey) /\ gone \in 0..Len(log) /\ last \in 0..Len(log)
    /\ group \in BOOLEAN
    /\ pel \in [Names -> SUBSET Ids]
    /\ pc \in [Workers -> Stages]
    /\ running \in [Workers -> BOOLEAN]
    /\ name \in [Workers -> Names]
    /\ batch \in [Workers -> SUBSET Ids]
    /\ users \subseteq Buyers /\ orders \subseteq OrderKey
    /\ lines \in [OrderKey \X Products -> Nat]
    /\ acked \subseteq Ids
    /\ faults \in 0..MaxFaults
    /\ \A w \in Workers : pc[w] \in Writing => batch[w] # {}

Durable(k) ==
    /\ BuyerOf(k) \in users /\ k \in orders
    /\ lines[<<k, ProductOf[SaleOf(k)]>>] > 0

(* order-queue.ts: "messages are ACKed ONLY after MongoDB confirms the     *)
(* write": the user, the order and its line of every acknowledged entry    *)
(* are in MongoDB, whatever failed half-way.                               *)
AckedIsDurable == \A i \in acked : Durable(log[i])

(* At-least-once delivery: an entry of the stream that was delivered is    *)
(* acknowledged or pending with exactly one consumer, never both, and one  *)
(* that was not is with nobody.                                            *)
NoLimbo ==
    \A i \in Live :
        Cardinality({c \in Names : i \in pel[c]}) = IF i <= last /\ i \notin acked THEN 1 ELSE 0

(* bulk-audit.ts: the upsert of order lines has no unique index behind it  *)
(* and is "safe for single-consumer": no two workers write the same entry. *)
SingleConsumer ==
    \A v, w \in Workers :
        v # w /\ pc[v] \in Writing /\ pc[w] \in Writing => batch[v] \cap batch[w] = {}

(* Redelivery after a partial failure never duplicates a row, and no row   *)
(* refers to one that is missing: a line belongs to a recorded order of a  *)
(* recorded user, for the product of that order's sale, once.              *)
AuditConsistent ==
    /\ \A k \in orders : BuyerOf(k) \in users /\ Queued(k)
    /\ \A k \in OrderKey, p \in Products :
          lines[<<k, p>>] # 0 => /\ lines[<<k, p>>] = 1
                                 /\ k \in orders /\ p = ProductOf[SaleOf(k)]

(* architecture.md section 7: "once an entry reaches queue:orders,         *)
(* at-least-once delivery guarantees eventual MongoDB persistence".        *)
EveryEntryPersisted ==
    \A i \in 1..Cardinality(OrderKey) : i \in Ids ~> (i \in acked /\ Durable(log[i]))
=============================================================================
