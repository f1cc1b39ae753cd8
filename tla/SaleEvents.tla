------------------------------ MODULE SaleEvents ------------------------------
(***************************************************************************)
(* Live status: the sale-events broadcaster and the SSE route of one API   *)
(* instance, Self, with the pub/sub channel over which all instances       *)
(* publish domain events and window boundaries.  Instances meet nowhere    *)
(* else, so the streams of the others are left out.                        *)
(*                                                                         *)
(* Events carry no payload; every frame is composed from a fresh GET of    *)
(* the stock key.  reads are the GETs of Self, in the order of its         *)
(* pipelined connection: Redis has executed a prefix of them.  A GET that  *)
(* was given up stays, its reply is for nobody.  The promise chain that    *)
(* serialises the emits is a counter, as an emit carries only the          *)
(* obligation to compose a frame.                                          *)
(***************************************************************************)
EXTENDS Integers, FiniteSets, Sequences, SequencesExt

CONSTANTS Apis, Self, Streams,
          Stock,      \* units left when the behaviour starts
          NoFrame,    \* nothing sent yet
          Unread,     \* the value of a GET Redis has not executed
          MaxReads,   \* bound: GETs under way when a stream connects
          MaxFaults   \* bound: lost events, failed reads, lost connections, restarts

ASSUME SelfAssumption == Self \in Apis
ASSUME StreamAssumption == Streams \cap {"emit", "net", "nobody"} = {}
ASSUME StockAssumption == Stock \in Nat /\ MaxFaults \in Nat
ASSUME UnreadAssumption == Unread \notin Int

VARIABLES
    (* the clock against the window, and the stock key *)
    phase, stock,
    (* every instance: the timers armed, the events it has yet to publish *)
    armed, owed,
    (* Self: its subscription *)
    subscribed,
    (* Self: the broadcaster, and the GETs under way *)
    chain, pending, sawTerminal, reads,
    (* the streams: frames held back until the snapshot; the last one sent *)
    stage, buffer, shown,
    (* history: the faults so far *)
    faults

saleVars   == <<phase, stock>>
ownerVars  == <<armed, owed>>
emitVars   == <<chain, pending, sawTerminal>>
streamVars == <<stage, buffer, shown>>
vars == <<saleVars, ownerVars, subscribed, emitVars, reads, streamVars, faults>>

Phases == {"before", "open", "closed"}
Boundaries == {"sale.started", "sale.ended"}
Terminal == {"sale.sold_out", "sale.ended"}
Events == Terminal \cup {"order.accepted", "sale.started"}
Statuses == {"upcoming", "active", "sold_out", "ended"}
Frames == [status : Statuses, stock : Nat]

(* The four-state status, from the clock and a stock value.                *)
Status(n) ==
    CASE phase = "before" -> "upcoming"
      [] phase = "closed" -> "ended"
      [] phase = "open" -> IF n > 0 THEN "active" ELSE "sold_out"

Frame(n) == [status |-> Status(n), stock |-> n]

(* Timers are armed for the boundaries that lie ahead.                     *)
Ahead == CASE phase = "before" -> Boundaries
           [] phase = "open" -> {"sale.ended"}
           [] phase = "closed" -> {}

Init ==
    /\ phase \in Phases /\ stock = Stock
    /\ armed = [a \in Apis |-> Ahead] /\ owed = [a \in Apis |-> <<>>]
    /\ subscribed = TRUE
    /\ chain = 0 /\ pending = FALSE /\ sawTerminal = FALSE
    /\ reads = <<>>
    /\ stage = [s \in Streams |-> "off"]
    /\ buffer = [s \in Streams |-> <<>>]
    /\ shown = [s \in Streams |-> NoFrame]
    /\ faults = 0

Fault == faults < MaxFaults /\ faults' = faults + 1

-----------------------------------------------------------------------------
(* The sale itself: the clock, the order script, the publishers.           *)

Tick ==
    /\ \/ phase = "before" /\ phase' = "open"
       \/ phase = "open" /\ phase' = "closed"
    /\ UNCHANGED <<stock, ownerVars, subscribed, emitVars, reads, streamVars, faults>>

(* The order script takes a unit for a request of instance a, whose        *)
(* handler goes on to publish.  The window was open when the request came. *)
Sell(a) ==
    /\ phase # "before" /\ stock > 0
    /\ stock' = stock - 1
    /\ owed' = [owed EXCEPT ![a] = @ \o IF stock = 1
                                        THEN <<"order.accepted", "sale.sold_out">>
                                        ELSE <<"order.accepted">>]
    /\ UNCHANGED <<phase, armed, subscribed, emitVars, reads, streamVars, faults>>

Due(e) == IF e = "sale.started" THEN phase # "before" ELSE phase = "closed"

TimerFires(a, e) ==
    /\ e \in armed[a] /\ Due(e)
    /\ armed' = [armed EXCEPT ![a] = @ \ {e}]
    /\ owed' = [owed EXCEPT ![a] = Append(@, e)]
    /\ UNCHANGED <<saleVars, subscribed, emitVars, reads, streamVars, faults>>

(* An order answered 503 after its commit publishes nothing; a PUBLISH may *)
(* fail or time out, and is not retried.                                   *)
LoseEvents(a) ==
    /\ Fault
    /\ \E n \in 1..Len(owed[a]) : owed' = [owed EXCEPT ![a] = SubSeq(@, n + 1, Len(@))]
    /\ UNCHANGED <<saleVars, armed, subscribed, emitVars, reads, streamVars>>

-----------------------------------------------------------------------------
(* The broadcaster.                                                        *)

(* Mutant: a stream is registered once its snapshot has been sent.         *)
SinksOpen == {s \in Streams : stage[s] = "open"}

(* The registered streams: the route registers before it awaits.           *)
Sinks == {s \in Streams : stage[s] # "off"}

(* emit(): one more link in the promise chain.                             *)
Emit == chain' = chain + 1

(* At once if the last emit was long enough ago, else one trailing emit    *)
(* for the whole burst.  How long ago it was is not modelled.              *)
Coalesce ==
    \/ pending /\ UNCHANGED <<chain, pending>>
    \/ ~pending /\ Emit /\ UNCHANGED pending
    \/ ~pending /\ pending' = TRUE /\ UNCHANGED chain

OnDomainEvent(e) ==
    \/ e \in Terminal /\ sawTerminal' = TRUE /\ pending' = FALSE /\ Emit
    \/ e \notin Terminal /\ Coalesce /\ UNCHANGED sawTerminal

(* The oldest event an instance owes is published and, if Self's           *)
(* subscriber is connected, delivered: the time between the two is part of *)
(* the time before.                                                        *)
Publish(a) ==
    /\ owed[a] # <<>>
    /\ owed' = [owed EXCEPT ![a] = Tail(@)]
    /\ IF subscribed THEN OnDomainEvent(Head(owed[a])) ELSE UNCHANGED emitVars
    /\ UNCHANGED <<saleVars, armed, subscribed, reads, streamVars, faults>>

PendingFires ==
    /\ pending /\ pending' = FALSE
    /\ Emit
    /\ UNCHANGED <<saleVars, ownerVars, subscribed, sawTerminal, reads, streamVars, faults>>

(* Mutant: the emits are not chained.                                      *)
WaitingNever(by) == FALSE

Waiting(by) == \E i \in DOMAIN reads : reads[i].by = by

Get(by) == reads' = Append(reads, [by |-> by, val |-> Unread])

(* The next link of the chain: nothing to do without streams.              *)
StartEmit ==
    /\ chain > 0 /\ ~Waiting("emit")
    /\ IF Sinks = {} THEN chain' = chain - 1 /\ UNCHANGED reads
                     ELSE Get("emit") /\ UNCHANGED chain
    /\ UNCHANGED <<saleVars, ownerVars, subscribed, pending, sawTerminal, streamVars, faults>>

(* The heartbeat's safety net; its interval is longer than its timeout.    *)
Beat ==
    /\ Sinks # {} /\ ~sawTerminal /\ ~Waiting("net")
    /\ Get("net")
    /\ UNCHANGED <<saleVars, ownerVars, subscribed, emitVars, streamVars, faults>>

(* Redis executes the next GET whose reply is awaited.                     *)
ExecGet ==
    \E i \in DOMAIN reads :
        /\ reads[i].by # "nobody" /\ reads[i].val = Unread
        /\ \A j \in 1..(i - 1) : reads[j].by = "nobody" \/ reads[j].val # Unread
        /\ reads' = [reads EXCEPT ![i].val = stock]
        /\ UNCHANGED <<saleVars, ownerVars, subscribed, emitVars, streamVars, faults>>

(* The reply to the oldest GET is delivered to whoever awaits it.          *)
Answered(by) ==
    /\ reads # <<>> /\ Head(reads).by = by /\ Head(reads).val # Unread
    /\ reads' = Tail(reads)

Fresh == Frame(Head(reads).val)

(* One frame to every stream: held back for those still connecting.        *)
OnEmitRead ==
    /\ Answered("emit")
    /\ chain' = chain - 1
    /\ buffer' = [s \in Streams |-> IF s \in Sinks /\ stage[s] = "connecting"
                                    THEN Append(buffer[s], Fresh) ELSE buffer[s]]
    /\ shown' = [s \in Streams |-> IF s \in Sinks /\ stage[s] = "open"
                                   THEN Fresh ELSE shown[s]]
    /\ UNCHANGED <<saleVars, ownerVars, subscribed, pending, sawTerminal, stage, faults>>

(* Mutant: whatever was read disarms the safety net.                       *)
DisarmingAny == Statuses

Disarming == {"sold_out", "ended"}

(* The safety net: only a terminal status disarms it, and only "sold out"  *)
(* is broadcast.  A read overtaken by a terminal event is ignored.         *)
OnNetRead ==
    /\ Answered("net")
    /\ LET live == ~sawTerminal /\ Sinks # {}
       IN /\ sawTerminal' = (sawTerminal \/ (live /\ Fresh.status \in Disarming))
          /\ IF live /\ Fresh.status = "sold_out" THEN Emit ELSE UNCHANGED chain
    /\ UNCHANGED <<saleVars, ownerVars, subscribed, pending, streamVars, faults>>

-----------------------------------------------------------------------------
(* The SSE route.                                                          *)

(* GET /events: registered first, then the snapshot's GET is sent.         *)
Connect(s) ==
    /\ stage[s] = "off" /\ Len(reads) < MaxReads
    /\ stage' = [stage EXCEPT ![s] = "connecting"]
    /\ Get(s)
    /\ UNCHANGED <<saleVars, ownerVars, subscribed, emitVars, buffer, shown, faults>>

(* The snapshot goes out, and after it whatever was held back.             *)
Sent(s) == <<Fresh>> \o buffer[s]

OnSnapshot(s) ==
    /\ Answered(s)
    /\ stage' = [stage EXCEPT ![s] = "open"]
    /\ shown' = [shown EXCEPT ![s] = Last(Sent(s))]
    /\ buffer' = [buffer EXCEPT ![s] = <<>>]
    /\ UNCHANGED <<saleVars, ownerVars, subscribed, emitVars, faults>>

(* What Redis answers to a GET that nobody awaits makes no difference.     *)
Abandoned == [by |-> "nobody", val |-> Unread]

(* The streams of S end; the reads by R are no longer awaited.             *)
End(S, R) ==
    /\ stage' = [s \in Streams |-> IF s \in S THEN "off" ELSE stage[s]]
    /\ buffer' = [s \in Streams |-> IF s \in S THEN <<>> ELSE buffer[s]]
    /\ shown' = [s \in Streams |-> IF s \in S THEN NoFrame ELSE shown[s]]
    /\ reads' = [i \in DOMAIN reads |-> IF reads[i].by \in R
                                       THEN Abandoned ELSE reads[i]]

(* The client goes away, or its socket dies.                               *)
Leave(s) ==
    /\ stage[s] # "off" /\ End({s}, {s})
    /\ UNCHANGED <<saleVars, ownerVars, subscribed, emitVars, faults>>

(* The snapshot cannot be read: 503.                                       *)
SnapshotFails(s) ==
    /\ stage[s] = "connecting" /\ End({s}, {s})
    /\ Fault
    /\ UNCHANGED <<saleVars, ownerVars, subscribed, emitVars>>

(* A reply that nobody awaits any more: its stream is gone, or it was late. *)
DropReply ==
    /\ reads # <<>> /\ Head(reads) = Abandoned
    /\ reads' = Tail(reads)
    /\ UNCHANGED <<saleVars, ownerVars, subscribed, emitVars, streamVars, faults>>

(* closeAll(): every stream ends and the pending emit is cancelled.        *)
CloseAll(R) == End(Sinks, R \cup Sinks) /\ pending' = FALSE

(* A frame cannot be composed: fail closed.                                *)
EmitFails ==
    /\ Waiting("emit") /\ CloseAll({"emit"})
    /\ chain' = chain - 1
    /\ Fault
    /\ UNCHANGED <<saleVars, ownerVars, subscribed, sawTerminal>>

(* The safety net's read fails: no signal, the next heartbeat tries again. *)
NetFails ==
    /\ Waiting("net") /\ End({}, {"net"})
    /\ Fault
    /\ UNCHANGED <<saleVars, ownerVars, subscribed, emitVars>>

(* The subscriber connection breaks, and every stream with it.             *)
LoseSubscription ==
    /\ subscribed /\ subscribed' = FALSE
    /\ CloseAll({})
    /\ Fault
    /\ UNCHANGED <<saleVars, ownerVars, chain, sawTerminal>>

Resubscribe ==
    /\ ~subscribed /\ subscribed' = TRUE
    /\ UNCHANGED <<saleVars, ownerVars, emitVars, reads, streamVars, faults>>

(* A process dies and boots again: what it held in memory is gone, and     *)
(* timers are armed for the boundaries that still lie ahead.               *)
Restart(a) ==
    /\ Fault
    /\ owed' = [owed EXCEPT ![a] = <<>>] /\ armed' = [armed EXCEPT ![a] = Ahead]
    /\ IF a = Self
       THEN /\ stage' = [s \in Streams |-> "off"] /\ buffer' = [s \in Streams |-> <<>>]
            /\ shown' = [s \in Streams |-> NoFrame] /\ reads' = <<>>
            /\ subscribed' = TRUE /\ chain' = 0 /\ pending' = FALSE /\ sawTerminal' = FALSE
       ELSE UNCHANGED <<subscribed, emitVars, reads, streamVars>>
    /\ UNCHANGED saleVars

-----------------------------------------------------------------------------
Sale == Tick \/ \E a \in Apis : \/ Sell(a) \/ Publish(a)
                                \/ \E e \in Boundaries : TimerFires(a, e)

OnReply == OnEmitRead \/ OnNetRead \/ DropReply \/ \E s \in Streams : OnSnapshot(s)

Broadcaster == PendingFires \/ StartEmit \/ Beat \/ ExecGet \/ OnReply

Clients == \E s \in Streams : Connect(s) \/ Leave(s)

Faults == \/ EmitFails \/ NetFails \/ LoseSubscription \/ Resubscribe
          \/ \E s \in Streams : SnapshotFails(s)
          \/ \E a \in Apis : LoseEvents(a) \/ Restart(a)

Next == Sale \/ Broadcaster \/ Clients \/ Faults

Spec == Init /\ [][Next]_vars

(* The heartbeat interval ticks while there are streams; Redis executes    *)
(* the commands it has received; the event loop handles replies and the    *)
(* promise chain.  Nothing is assumed of publishers and subscriptions.     *)
FairSpec == /\ Spec
            /\ WF_vars(Beat) /\ WF_vars(ExecGet) /\ WF_vars(OnReply) /\ WF_vars(StartEmit)

-----------------------------------------------------------------------------
(* Properties.                                                             *)

(* The variables range over what the code can hold; in particular the      *)
(* chain never owes a negative number of emits.                            *)
TypeOK ==
    /\ phase \in Phases /\ stock \in 0..Stock
    /\ armed \in [Apis -> SUBSET Boundaries] /\ owed \in [Apis -> Seq(Events)]
    /\ subscribed \in BOOLEAN
    /\ chain \in Nat /\ pending \in BOOLEAN /\ sawTerminal \in BOOLEAN
    /\ reads \in Seq([by : Streams \cup {"emit", "net", "nobody"}, val : Nat \cup {Unread}])
    /\ stage \in [Streams -> {"off", "connecting", "open"}]
    /\ buffer \in [Streams -> Seq(Frames)]
    /\ shown \in [Streams -> Frames \cup {NoFrame}]
    /\ faults \in 0..MaxFaults

(* Nothing is under way that could still reach a stream.                   *)
Quiet ==
    /\ \A a \in Apis : owed[a] = <<>> /\ \A e \in armed[a] : ~Due(e)
    /\ chain = 0 /\ ~pending /\ reads = <<>>

(* Coalescing, superseding and buffering lose nothing: when no event was   *)
(* lost and nothing is under way, every open stream has been sent the      *)
(* present status and stock, whatever came in which order.                 *)
QuietStreamsAreCurrent ==
    faults = 0 /\ Quiet =>
        \A s \in Streams : stage[s] = "open" => shown[s] = Frame(stock)

(* sale-events.ts, the safety net: even when every event is lost, a stream *)
(* that stays open while the sale is sold out comes to show it.            *)
SoldOutShown ==
    \A s \in Streams :
        (stage[s] = "open" /\ stock = 0 /\ phase = "open") ~>
            (stage[s] # "open" \/ phase = "closed" \/ shown[s].status = "sold_out")

(* The clock and the counter only move one way.                            *)
Rank == [upcoming |-> 0, active |-> 1, sold_out |-> 2, ended |-> 3]

NotOlder(f, g) == Rank[f.status] <= Rank[g.status] /\ f.stock >= g.stock

(* sale-events.ts: "frames always land in order": an open stream is never  *)
(* sent a frame older than the one before it.                              *)
OpenStep ==
    \A s \in Streams :
        stage[s] = "open" /\ stage'[s] = "open" => NotOlder(shown[s], shown'[s])

OpenStreamsAdvance == [][OpenStep]_vars

(* Neither are the frames that are held back for a snapshot out of order.  *)
HeldInOrder ==
    \A s \in Streams : \A i \in 1..(Len(buffer[s]) - 1) :
        NotOlder(buffer[s][i], buffer[s][i + 1])

(* routes/sale.ts: "Buffered frames flush right after the snapshot lands,  *)
(* preserving order": no stream is sent a frame older than one before it.  *)
FlushStep ==
    \A s \in Streams :
        stage[s] = "connecting" /\ stage'[s] = "open" =>
            \A i \in 1..Len(buffer[s]) : NotOlder(Sent(s)[i], Sent(s)[i + 1])

FramesInOrder == [][OpenStep /\ FlushStep]_vars
=============================================================================
