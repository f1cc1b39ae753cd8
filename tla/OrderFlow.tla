------------------------------ MODULE OrderFlow ------------------------------
(***************************************************************************)
(* The order path of the flash sale while it serves traffic: HTTP requests *)
(* handled by several API instances, one pipelined connection from each    *)
(* instance to Redis, the atomic order script, the membership probe, the   *)
(* per-command timeout, and the fire-and-forget side effects of an accept  *)
(* (XADD to queue:orders, PUBLISH of the sale events).                     *)
(*                                                                         *)
(* A connection is two FIFO channels: wire[a] holds the commands instance  *)
(* a has written and Redis has not run; inbox[a] the replies Redis has     *)
(* sent and the event loop of a has not delivered.  A timeout answers the  *)
(* request but leaves its command on the wire, so a 503 may still commit.  *)
(* Losing a connection (or the process, whose memory holds nothing else)   *)
(* drops the replies and any suffix of the commands.                       *)
(***************************************************************************)
EXTENDS Integers, FiniteSets, Sequences

CONSTANTS Req,      \* the HTTP requests that may be made
          Buyers,   \* canonical e-mail addresses
          Apis,     \* the API instances in front of one Redis
          Stock,    \* sale.stockQuantity
          NoBuyer,  \* the buyer of a request not made yet
          NoApi,    \* the instance of a request not made yet
          Missing   \* the value of stock:{saleId}:remaining when the key is gone

ASSUME StockAssumption == Stock \in Nat
ASSUME FiniteAssumption == IsFiniteSet(Buyers)
ASSUME NullAssumption == NoBuyer \notin Buyers /\ NoApi \notin Apis /\ Missing \notin Int

VARIABLES
    (* the wall clock against the sale window [startTime, endTime) *)
    phase,
    (* Redis *)
    stock, ordered, scriptCached, queue, events,
    (* the connections *)
    up, wire, inbox,
    (* the request handlers *)
    pc, buyer, home, verdict, remaining, answer,
    (* history: every buyer the script ever accepted; what a buyer knew *)
    accepted, known

redisVars   == <<stock, ordered, scriptCached, queue, events>>
connVars    == <<up, wire, inbox>>
requestVars == <<pc, buyer, home, known>>
replyVars   == <<verdict, remaining>>
vars == <<phase, redisVars, connVars, requestVars, replyVars, answer, accepted>>

Phases == {"before", "open", "closed"}

ScriptOps == {"evalsha", "eval"}
Ops == ScriptOps \cup {"sismember", "xadd", "accepted", "sold_out"}
Cmd == [op : Ops, req : Req]
Command(op, r) == [op |-> op, req |-> r]

Verdicts == {"OK", "ALREADY", "SOLD_OUT"}
Replies == Verdicts \cup {"ERROR", "NOSCRIPT", "MEMBER", "STRANGER"}

(* Mutant: the EVAL fallback is sent without a timeout of its own.         *)
InFlightNoFallback == {"attempt", "probe", "check"}

(* A handler awaiting a reply, by what it awaits.                          *)
InFlight == {"attempt", "fallback", "probe", "check"}

Contract == INSTANCE SaleContract

Init ==
    /\ phase \in Phases
    /\ stock = Stock /\ ordered = {} /\ scriptCached = TRUE
    /\ queue = <<>> /\ events = <<>>
    /\ up = [a \in Apis |-> TRUE]
    /\ wire = [a \in Apis |-> <<>>]
    /\ inbox = [a \in Apis |-> <<>>]
    /\ pc = [r \in Req |-> "idle"]
    /\ home = [r \in Req |-> NoApi]
    /\ verdict = [r \in Req |-> "none"]
    /\ remaining = [r \in Req |-> 0]
    /\ Contract!ContractInit

-----------------------------------------------------------------------------
(* The clock.                                                              *)

OpenSale  == phase = "before" /\ phase' = "open"
CloseSale == phase = "open" /\ phase' = "closed"

Tick ==
    /\ OpenSale \/ CloseSale
    /\ UNCHANGED <<redisVars, connVars, requestVars, replyVars, answer, accepted>>

-----------------------------------------------------------------------------
(* Request handlers, up to the first await.                                *)

(* The request reaches instance a, which sends op, or fails at once when   *)
(* its connection is down: there is no offline queue.                      *)
Handle(r, b, a, awaiting, op) ==
    /\ pc[r] = "idle"
    /\ buyer' = [buyer EXCEPT ![r] = b]
    /\ home' = [home EXCEPT ![r] = a]
    /\ known' = [known EXCEPT ![r] = Contract!Confirmed(b)]
    /\ IF up[a]
       THEN /\ pc' = [pc EXCEPT ![r] = awaiting]
            /\ wire' = [wire EXCEPT ![a] = Append(@, Command(op, r))]
       ELSE pc' = [pc EXCEPT ![r] = "refused"] /\ UNCHANGED wire
    /\ UNCHANGED <<phase, redisVars, up, inbox, replyVars, answer, accepted>>

(* POST: the clock decides, once, whether the script runs or only the      *)
(* membership probe.                                                       *)
PostInside(r, b, a)  == phase = "open" /\ Handle(r, b, a, "attempt", "evalsha")
PostOutside(r, b, a) == phase # "open" /\ Handle(r, b, a, "probe", "sismember")

(* GET /order/:email is never clock-gated.                                 *)
GetOrder(r, b, a) == Handle(r, b, a, "check", "sismember")

-----------------------------------------------------------------------------
(* Redis executes the next command of a connection.                        *)

NextCommand(a, op) == wire[a] # <<>> /\ Head(wire[a]).op = op

Consume(a) == wire' = [wire EXCEPT ![a] = Tail(@)]

ReplyTo(a, r, v, n) ==
    /\ verdict' = [verdict EXCEPT ![r] = v]
    /\ remaining' = [remaining EXCEPT ![r] = n]
    /\ inbox' = IF up[a] THEN [inbox EXCEPT ![a] = Append(@, r)] ELSE inbox

(* Mutant: the script skips the SISMEMBER.                                 *)
HasOrderUnchecked(b) == FALSE

HasOrder(b) == b \in ordered

(* Mutant: the last unit is compared off by one.                           *)
DrainedTooLate == stock < 0

Drained == stock <= 0

(* Mutant: SADD without the DECR.                                          *)
TakeUncounted(b) == ordered' = ordered \cup {b} /\ stock' = stock

Take(b) == ordered' = ordered \cup {b} /\ stock' = stock - 1

(* order.lua, one atomic unit.                                             *)
OrderScript(a, r) ==
    LET b == buyer[r] IN
    \/ /\ stock = Missing
       /\ ReplyTo(a, r, "ERROR", 0)
       /\ UNCHANGED <<stock, ordered, accepted>>
    \/ /\ stock # Missing /\ HasOrder(b)
       /\ ReplyTo(a, r, "ALREADY", stock)
       /\ UNCHANGED <<stock, ordered, accepted>>
    \/ /\ stock # Missing /\ ~HasOrder(b) /\ Drained
       /\ ReplyTo(a, r, "SOLD_OUT", stock)
       /\ UNCHANGED <<stock, ordered, accepted>>
    \/ /\ stock # Missing /\ ~HasOrder(b) /\ ~Drained
       /\ Take(b)
       /\ accepted' = accepted \cup {b}
       /\ ReplyTo(a, r, "OK", stock - 1)

RunEvalSha(a) ==
    /\ NextCommand(a, "evalsha")
    /\ Consume(a)
    /\ LET r == Head(wire[a]).req IN
       IF scriptCached
       THEN OrderScript(a, r)
       ELSE ReplyTo(a, r, "NOSCRIPT", 0) /\ UNCHANGED <<stock, ordered, accepted>>
    /\ UNCHANGED <<phase, scriptCached, queue, events, up, requestVars, answer>>

RunEval(a) ==
    /\ NextCommand(a, "eval")
    /\ Consume(a)
    /\ OrderScript(a, Head(wire[a]).req)
    /\ scriptCached' = TRUE
    /\ UNCHANGED <<phase, queue, events, up, requestVars, answer>>

RunSIsMember(a) ==
    /\ NextCommand(a, "sismember")
    /\ Consume(a)
    /\ LET r == Head(wire[a]).req IN
       ReplyTo(a, r, IF buyer[r] \in ordered THEN "MEMBER" ELSE "STRANGER", 0)
    /\ UNCHANGED <<phase, redisVars, up, requestVars, answer, accepted>>

RunXAdd(a) ==
    /\ NextCommand(a, "xadd")
    /\ Consume(a)
    /\ queue' = Append(queue, buyer[Head(wire[a]).req])
    /\ UNCHANGED <<phase, stock, ordered, scriptCached, events, up, inbox,
                   requestVars, replyVars, answer, accepted>>

RunPublish(a) ==
    /\ wire[a] # <<>> /\ Head(wire[a]).op \in {"accepted", "sold_out"}
    /\ Consume(a)
    /\ events' = Append(events, Head(wire[a]).op)
    /\ UNCHANGED <<phase, stock, ordered, scriptCached, queue, up, inbox,
                   requestVars, replyVars, answer, accepted>>

(* SCRIPT FLUSH, or a Redis restart: the script cache is not persistent.   *)
FlushScripts ==
    /\ scriptCached /\ scriptCached' = FALSE
    /\ UNCHANGED <<phase, stock, ordered, queue, events, connVars, requestVars,
                   replyVars, answer, accepted>>

-----------------------------------------------------------------------------
(* Request handlers, after the await.                                      *)

(* The event loop of a delivers the oldest reply, for handler r.           *)
Deliver(a, r) ==
    /\ inbox[a] # <<>> /\ r = Head(inbox[a])
    /\ inbox' = [inbox EXCEPT ![a] = Tail(@)]

Finish(r, ans) ==
    /\ pc' = [pc EXCEPT ![r] = "done"]
    /\ answer' = [answer EXCEPT ![r] = ans]

(* The handler got its final reply.                                        *)
Settle(a, r, ans) ==
    /\ Deliver(a, r)
    /\ Finish(r, ans)
    /\ UNCHANGED <<phase, redisVars, up, buyer, home, known, replyVars, accepted>>

(* Mutant: the publisher does not look at the stock it got back.           *)
TookAny(r) == remaining[r] >= 0

(* This accept took the last unit.                                         *)
TookLast(r) == remaining[r] = 0

SideEffects(r) ==
    IF TookLast(r)
    THEN <<Command("xadd", r), Command("accepted", r), Command("sold_out", r)>>
    ELSE <<Command("xadd", r), Command("accepted", r)>>

(* Mutant: ALREADY is handled like OK.                                     *)
WonOrHad(r) == verdict[r] \in {"OK", "ALREADY"}

Won(r) == verdict[r] = "OK"

(* OK: the audit XADD and the publishes are written in the same turn of    *)
(* the event loop as the answer, and none of them is awaited.              *)
OnCreated(a, r) ==
    /\ pc[r] \in {"attempt", "fallback"} /\ Won(r)
    /\ wire' = [wire EXCEPT ![a] = @ \o SideEffects(r)]
    /\ Settle(a, r, "created")

(* ALREADY and SOLD_OUT are passed on; an error reply fails closed.        *)
OnDecided(a, r) ==
    /\ pc[r] \in {"attempt", "fallback"}
    /\ \/ verdict[r] = "ALREADY" /\ Settle(a, r, "already")
       \/ verdict[r] = "SOLD_OUT" /\ Settle(a, r, "sold_out")
       \/ verdict[r] = "ERROR" /\ Settle(a, r, "unavailable")
    /\ UNCHANGED wire

(* The EVALSHA was refused unexecuted: send the source instead.            *)
OnNoScript(a, r) ==
    /\ pc[r] = "attempt" /\ verdict[r] = "NOSCRIPT"
    /\ Deliver(a, r)
    /\ pc' = [pc EXCEPT ![r] = "fallback"]
    /\ verdict' = [verdict EXCEPT ![r] = "none"]
    /\ wire' = [wire EXCEPT ![a] = Append(@, Command("eval", r))]
    /\ UNCHANGED <<phase, redisVars, up, buyer, home, known, remaining, answer, accepted>>

OnProbed(a, r) ==
    /\ pc[r] = "probe"
    /\ \/ verdict[r] = "MEMBER" /\ Settle(a, r, "already")
       \/ verdict[r] = "STRANGER" /\ Settle(a, r, "inactive")
    /\ UNCHANGED wire

OnChecked(a, r) ==
    /\ pc[r] = "check"
    /\ \/ verdict[r] = "MEMBER" /\ Settle(a, r, "ordered")
       \/ verdict[r] = "STRANGER" /\ Settle(a, r, "not_ordered")
    /\ UNCHANGED wire

(* A reply that lost the race against its timeout.                         *)
DropLate(a, r) ==
    /\ pc[r] = "done"
    /\ Deliver(a, r)
    /\ UNCHANGED <<phase, redisVars, up, wire, requestVars, replyVars, answer, accepted>>

(* redisCommandTimeoutMs expires first, or the command was refused: 503.   *)
(* The command itself stays where it is.                                   *)
Timeout(r) ==
    /\ pc[r] \in InFlight \cup {"refused"}
    /\ Finish(r, "unavailable")
    /\ UNCHANGED <<phase, redisVars, connVars, buyer, home, known, replyVars, accepted>>

(* The connection breaks or the process dies: replies are gone, Redis has  *)
(* received some prefix of what was written, every pending request fails.  *)
LoseConnection(a) ==
    LET pending == {r \in Req : home[r] = a /\ pc[r] \in InFlight \cup {"refused"}} IN
    /\ up[a] /\ up' = [up EXCEPT ![a] = FALSE]
    /\ \E n \in 0..Len(wire[a]) : wire' = [wire EXCEPT ![a] = SubSeq(@, 1, n)]
    /\ inbox' = [inbox EXCEPT ![a] = <<>>]
    /\ pc' = [r \in Req |-> IF r \in pending THEN "done" ELSE pc[r]]
    /\ answer' = [r \in Req |-> IF r \in pending THEN "unavailable" ELSE answer[r]]
    /\ UNCHANGED <<phase, redisVars, buyer, home, known, replyVars, accepted>>

(* node-redis reconnects, or the instance restarts warm (touching nothing);*)
(* the bytes of the old socket have been executed or lost by then.         *)
Reconnect(a) ==
    /\ ~up[a] /\ wire[a] = <<>>
    /\ up' = [up EXCEPT ![a] = TRUE]
    /\ UNCHANGED <<phase, redisVars, wire, inbox, requestVars, replyVars, answer, accepted>>

-----------------------------------------------------------------------------
Arrive == \E r \in Req, b \in Buyers, a \in Apis :
             PostInside(r, b, a) \/ PostOutside(r, b, a) \/ GetOrder(r, b, a)

RedisStep == \E a \in Apis :
    RunEvalSha(a) \/ RunEval(a) \/ RunSIsMember(a) \/ RunXAdd(a) \/ RunPublish(a)

OnReply(a, r) == \/ OnCreated(a, r) \/ OnDecided(a, r) \/ OnNoScript(a, r)
                 \/ OnProbed(a, r) \/ OnChecked(a, r) \/ DropLate(a, r)

HandlerStep == \E a \in Apis, r \in Req : OnReply(a, r)

Fault == \/ \E r \in Req : Timeout(r)
         \/ \E a \in Apis : LoseConnection(a) \/ Reconnect(a)
         \/ FlushScripts

Next == Tick \/ Arrive \/ RedisStep \/ HandlerStep \/ Fault

Spec == Init /\ [][Next]_vars

(* Redis loses the sale's keys (an unpersisted restart, a manual flush)    *)
(* while the API keeps serving.  The keys stay gone: only the next boot    *)
(* rebuilds them.                                                          *)
LoseKeys ==
    /\ stock # Missing
    /\ stock' = Missing /\ ordered' = {}
    /\ UNCHANGED <<phase, scriptCached, queue, events, connVars, requestVars,
                   replyVars, answer, accepted>>

LossyNext == Next \/ LoseKeys

LossySpec == Init /\ [][LossyNext]_vars

(* The timer of every pending command fires unless a reply settles it.     *)
FairSpec == Spec /\ \A r \in Req : WF_vars(Timeout(r))

(* No connection is lost and no process dies.                              *)
CalmNext == Tick \/ Arrive \/ RedisStep \/ HandlerStep \/ \E r \in Req : Timeout(r)

CalmSpec == Init /\ [][CalmNext]_vars

-----------------------------------------------------------------------------
(* Properties.                                                             *)

(* The variables range over what the code can hold; in particular the      *)
(* stock key is never negative (orders.ts fails closed if it ever is).     *)
TypeOK ==
    /\ phase \in Phases
    /\ stock \in Nat \cup {Missing}
    /\ ordered \subseteq Buyers
    /\ scriptCached \in BOOLEAN
    /\ queue \in Seq(Buyers)
    /\ events \in Seq({"accepted", "sold_out"})
    /\ up \in [Apis -> BOOLEAN]
    /\ wire \in [Apis -> Seq(Cmd)]
    /\ inbox \in [Apis -> Seq(Req)]
    /\ pc \in [Req -> {"idle", "refused", "done"} \cup InFlight]
    /\ buyer \in [Req -> Buyers \cup {NoBuyer}]
    /\ home \in [Req -> Apis \cup {NoApi}]
    /\ verdict \in [Req -> Replies \cup {"none"}]
    /\ remaining \in [Req -> Nat]
    /\ answer \in [Req -> Contract!Answers \cup {"none"}]
    /\ accepted \subseteq Buyers
    /\ known \in [Req -> BOOLEAN]

(* architecture.md, "No oversell": whatever the interleaving of instances, *)
(* timeouts, reconnections, script-cache losses and key losses, the script *)
(* never accepts more buyers than there are units.                         *)
NoOversell == Cardinality(accepted) <= Stock

(* The two Redis keys agree: every unit missing from the counter is held   *)
(* by exactly one member of the set, and nobody accepted was forgotten.    *)
StockConserved ==
    stock # Missing => /\ ordered = accepted
                       /\ stock + Cardinality(ordered) = Stock

(* The order path implements the contract of SaleContract: it decides like *)
(* an atomic register, however late or often it is asked.                  *)
ImplementsContract == Contract!ContractSpec

(* A buyer is told "order accepted" (202) by one request only; every other *)
(* one of theirs gets "already ordered" or a 503, even across key losses.  *)
CreatedOnce ==
    \A r, q \in Req :
        answer[r] = "created" /\ answer[q] = "created" /\ buyer[r] = buyer[q] => r = q

(* 409 "sold out" is never a guess: all units are taken, none of them by   *)
(* the buyer who is refused, and it stays so.                              *)
SoldOutIsFinal ==
    \A r \in Req : answer[r] = "sold_out" =>
        Cardinality(accepted) = Stock /\ buyer[r] \notin accepted

(* The audit queue holds only accepted buyers, each of them once: a retry, *)
(* a NOSCRIPT fallback or a late commit never enqueues a second row.       *)
AuditAtMostOnce ==
    /\ \A i \in DOMAIN queue : queue[i] \in accepted
    /\ \A i, j \in DOMAIN queue : queue[i] = queue[j] => i = j

(* services/order.ts: sale.sold_out is published at most once, and only    *)
(* when the last unit is gone.                                             *)
SoldOutSignalOnce ==
    /\ \A i, j \in DOMAIN events : events[i] = "sold_out" /\ events[j] = "sold_out" => i = j
    /\ (\E i \in DOMAIN events : events[i] = "sold_out") => Cardinality(accepted) = Stock

(* Fail closed, not silent: every request is answered, whatever Redis does.*)
EveryRequestAnswered == \A r \in Req : pc[r] # "idle" ~> pc[r] = "done"

(* architecture.md section 7: a crash between the accept and the XADD is   *)
(* the only way an accepted order is missing from the audit queue.  Without*)
(* a crash, an accepted buyer is enqueued or one of their requests, or the *)
(* XADD itself, is still under way.                                        *)
UndercountNeedsCrash ==
    \A b \in accepted :
        \/ \E i \in DOMAIN queue : queue[i] = b
        \/ \E r \in Req : buyer[r] = b /\ pc[r] \in InFlight
        \/ \E a \in Apis : \E i \in DOMAIN wire[a] :
               wire[a][i].op = "xadd" /\ buyer[wire[a][i].req] = b
=============================================================================
