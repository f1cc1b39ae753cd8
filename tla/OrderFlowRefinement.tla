------------------------ MODULE OrderFlowRefinement ------------------------
(***************************************************************************)
(* As long as Redis keeps its keys, the order path implements              *)
(* SaleContract: every arrival is an Ask, the accepting run of order.lua   *)
(* is the Accept, every reply delivered to a waiting handler a Respond,    *)
(* every timeout or lost connection a GiveUp, and nothing else is visible. *)
(***************************************************************************)
EXTENDS OrderFlowProofs

(* With the keys in place the set of orders is the history of accepts, so  *)
(* Redis never denies an order its buyer already knows of.                 *)
Faithful ==
    /\ stock # Missing
    /\ \A r \in Req : known[r] => verdict[r] \notin {"OK", "SOLD_OUT", "STRANGER"}

KeptInv == IInv /\ Faithful

(* order.lua tells a buyer who knows of the order ALREADY.                 *)
LEMMA ScriptFaithful ==
  ASSUME KeptInv, NEW a \in Apis, NEW r \in Req, verdict[r] = "none", OrderScript(a, r), UNCHANGED known
  PROVE  Faithful'
<1> USE DEF KeptInv, IInv
<1>1. ordered = accepted /\ (known[r] => buyer[r] \in accepted)
  BY DEF Faithful, Ledger, Answered
<1>2. stock' # Missing
  <2>1. stock' = stock \/ stock' = stock - 1
    BY DEF OrderScript, Take
  <2>2. stock \in Nat
    BY DEF Faithful, TypeOK
  <2> QED
    BY <2>1, <2>2, NullAssumption DEF Faithful
<1>3. PICK v : /\ verdict' = [verdict EXCEPT ![r] = v]
               /\ known[r] => v \notin {"OK", "SOLD_OUT", "STRANGER"}
  BY <1>1 DEF OrderScript, ReplyTo, HasOrder, Faithful
<1> QED
  BY <1>2, <1>3 DEF Faithful, TypeOK

(* Redis executing a command keeps Faithful.                               *)
LEMMA ExecuteFaithful ==
  ASSUME KeptInv, NEW a \in Apis, RunEvalSha(a) \/ RunEval(a) \/ RunSIsMember(a)
  PROVE  Faithful'
<1> USE DEF KeptInv, IInv
<1> DEFINE r == Head(wire[a]).req
<1>1. /\ wire[a] # <<>> /\ Consume(a) /\ Head(wire[a]).op \in AwaitedOps /\ UNCHANGED known
  BY DEF RunEvalSha, RunEval, RunSIsMember, NextCommand, AwaitedOps, ScriptOps, requestVars
<1>2. r \in Req /\ verdict[r] = "none"
  <2>1. /\ \E i \in 1..Len(wire[a]) : Head(wire[a]) = wire[a][i]
        /\ Head(wire[a]) \in Cmd
    BY <1>1, ConsumeAlone DEF TypeOK
  <2> QED
    BY <2>1, <1>1 DEF Cmd, Wired
<1>3. CASE OrderScript(a, r)
  BY <1>1, <1>2, <1>3, ScriptFaithful
<1>4. CASE ReplyTo(a, r, "NOSCRIPT", 0) /\ UNCHANGED stock
  BY <1>1, <1>2, <1>4 DEF ReplyTo, Faithful, TypeOK
<1>5. CASE /\ ReplyTo(a, r, IF buyer[r] \in ordered THEN "MEMBER" ELSE "STRANGER", 0)
           /\ UNCHANGED stock
  <2>1. known[r] => buyer[r] \in ordered
    BY <1>2 DEF Faithful, Ledger, Answered
  <2> QED
    BY <1>1, <1>2, <1>5, <2>1 DEF ReplyTo, Faithful, TypeOK
<1> QED
  BY <1>3, <1>4, <1>5 DEF RunEvalSha, RunEval, RunSIsMember, redisVars

LEMMA FaithfulStep == KeptInv /\ [Next]_vars => Faithful'
<1> SUFFICES ASSUME KeptInv, [Next]_vars PROVE Faithful'
  OBVIOUS
<1> USE DEF KeptInv, IInv
<1>1. CASE Arrive
  <2>1. PICK r \in Req : /\ pc[r] = "idle" /\ UNCHANGED <<stock, verdict>>
                         /\ \E k : known' = [known EXCEPT ![r] = k]
    BY <1>1 DEF Arrive, PostInside, PostOutside, GetOrder, Handle, redisVars, replyVars
  <2>2. verdict[r] = "none"
    BY <2>1 DEF Asked
  <2> QED
    BY <2>1, <2>2 DEF Faithful, TypeOK
<1>2. CASE RedisStep
  <2>1. PICK a \in Apis :
           RunEvalSha(a) \/ RunEval(a) \/ RunSIsMember(a) \/ RunXAdd(a) \/ RunPublish(a)
    BY <1>2 DEF RedisStep
  <2>2. CASE RunXAdd(a) \/ RunPublish(a)
    BY <2>2 DEF RunXAdd, RunPublish, Faithful, requestVars, replyVars
  <2> QED
    BY <2>1, <2>2, ExecuteFaithful
<1>3. CASE HandlerStep
  <2>1. PICK a \in Apis, r \in Req : OnReply(a, r)
    BY <1>3 DEF HandlerStep
  <2>2. CASE OnNoScript(a, r)
    BY <2>2 DEF OnNoScript, Faithful, redisVars, TypeOK
  <2>3. CASE DropLate(a, r)
    BY <2>3 DEF DropLate, Faithful, redisVars, replyVars, requestVars
  <2>4. CASE \E ans : Settle(a, r, ans)
    BY <2>4 DEF Settle, Faithful, redisVars, replyVars
  <2> QED
    BY <2>1, <2>2, <2>3, <2>4 DEF OnReply, OnCreated, OnDecided, OnProbed, OnChecked
<1>4. CASE Tick \/ Fault
  BY <1>4 DEF Tick, Fault, Timeout, LoseConnection, Reconnect, FlushScripts, Faithful,
              redisVars, replyVars, requestVars
<1>5. CASE UNCHANGED vars
  BY <1>5 DEF vars, redisVars, replyVars, requestVars, Faithful
<1> QED
  BY <1>1, <1>2, <1>3, <1>4, <1>5 DEF Next

LEMMA KeptInvariance == Spec => []KeptInv
<1>1. Init => KeptInv
  <2>1. Init => Faithful
    BY StockAssumption, NullAssumption DEF Init, Faithful
  <2> QED
    BY <2>1, InitInv DEF KeptInv
<1>2. KeptInv /\ [Next]_vars => KeptInv'
  BY FaithfulStep, NextInv DEF KeptInv, LossyNext
<1> QED
  BY <1>1, <1>2, PTL DEF Spec

(* While the keys are kept, the counter and the set of orders agree and    *)
(* hold exactly the accepted buyers.                                       *)
THEOREM StockIsConserved == Spec => []StockConserved
<1>1. KeptInv => StockConserved
  BY DEF KeptInv, IInv, Ledger, StockConserved
<1> QED
  BY <1>1, KeptInvariance, PTL

-----------------------------------------------------------------------------
(* The step simulation, one lemma per visible operation.                   *)

(* The contract's copy of Cardinality is Cardinality.                      *)
LEMMA SameCardinality == \A S : Contract!Cardinality(S) = Cardinality(S)
  BY Zenon DEF Contract!Cardinality, Cardinality

LEMMA AcceptSimulated ==
  ASSUME KeptInv, NEW a \in Apis, RunEvalSha(a) \/ RunEval(a)
  PROVE  [Contract!ContractNext]_(Contract!contractVars)
<1> USE DEF KeptInv, IInv
<1> DEFINE r == Head(wire[a]).req
<1>1. /\ wire[a] # <<>> /\ Consume(a) /\ Head(wire[a]).op \in AwaitedOps
      /\ UNCHANGED <<buyer, known, answer>>
  BY DEF RunEvalSha, RunEval, NextCommand, AwaitedOps, ScriptOps, requestVars
<1>2. r \in Req /\ buyer[r] \in Buyers /\ verdict[r] = "none"
  <2>1. /\ \E i \in 1..Len(wire[a]) : Head(wire[a]) = wire[a][i]
        /\ Head(wire[a]) \in Cmd
    BY <1>1, ConsumeAlone DEF TypeOK
  <2> QED
    BY <2>1, <1>1 DEF Cmd, Wired, Asked
<1>3. CASE accepted' = accepted
  BY <1>1, <1>3 DEF Contract!contractVars
<1>4. CASE accepted' # accepted
  <2>1. /\ stock # Missing /\ ~HasOrder(buyer[r]) /\ ~Drained
        /\ ordered' = ordered \cup {buyer[r]} /\ stock' = stock - 1
        /\ accepted' = accepted \cup {buyer[r]} /\ ReplyTo(a, r, "OK", stock - 1)
    BY <1>4 DEF RunEvalSha, RunEval, OrderScript, Take
  <2>2. verdict' = [verdict EXCEPT ![r] = "OK"]
    BY <2>1 DEF ReplyTo
  <2>3. Cardinality(accepted) < Stock /\ buyer[r] \notin accepted
    BY <1>1, <1>2, <2>1, <2>2, AcceptStep
  <2>4. Contract!Accept(buyer[r])
    BY <1>1, <2>1, <2>3, SameCardinality DEF Contract!Accept
  <2> QED
    BY <1>2, <2>4 DEF Contract!ContractNext
<1> QED
  BY <1>3, <1>4

LEMMA AskSimulated ==
  ASSUME KeptInv, Arrive
  PROVE  [Contract!ContractNext]_(Contract!contractVars)
<1>1. PICK r \in Req, b \in Buyers :
         /\ pc[r] = "idle"
         /\ buyer' = [buyer EXCEPT ![r] = b]
         /\ known' = [known EXCEPT ![r] = Contract!Confirmed(b)]
         /\ UNCHANGED <<accepted, answer>>
  BY DEF Arrive, PostInside, PostOutside, GetOrder, Handle
<1>2. buyer[r] = NoBuyer
  BY <1>1 DEF KeptInv, IInv, Asked
<1>3. Contract!Ask(r, b)
  BY <1>1, <1>2 DEF Contract!Ask
<1> QED
  BY <1>3 DEF Contract!ContractNext

LEMMA RespondSimulated ==
  ASSUME KeptInv, NEW a \in Apis, NEW r \in Req, OnReply(a, r)
  PROVE  [Contract!ContractNext]_(Contract!contractVars)
<1> USE DEF KeptInv, IInv
<1>1. CASE OnNoScript(a, r) \/ DropLate(a, r)
  BY <1>1 DEF OnNoScript, DropLate, requestVars, Contract!contractVars
<1>2. CASE \E ans \in Contract!Answers :
             /\ Settle(a, r, ans) /\ pc[r] \in InFlight
             /\ ans = "created" => verdict[r] = "OK"
             /\ ans \in {"already", "ordered"} => verdict[r] \in {"ALREADY", "MEMBER"}
             /\ ans = "sold_out" => verdict[r] = "SOLD_OUT"
             /\ ans \in {"inactive", "not_ordered"} => verdict[r] = "STRANGER"
  <2>1. PICK ans \in Contract!Answers :
             /\ Settle(a, r, ans) /\ pc[r] \in InFlight
             /\ ans = "created" => verdict[r] = "OK"
             /\ ans \in {"already", "ordered"} => verdict[r] \in {"ALREADY", "MEMBER"}
             /\ ans = "sold_out" => verdict[r] = "SOLD_OUT"
             /\ ans \in {"inactive", "not_ordered"} => verdict[r] = "STRANGER"
    BY <1>2
  <2>2. buyer[r] \in Buyers /\ answer[r] = "none"
    BY <2>1 DEF Asked, InFlight
  <2>3. ans \in Contract!Confirming => buyer[r] \in accepted
    BY <2>1 DEF Contract!Confirming, Truthful
  <2>4. ans = "created" =>
           \A q \in Req : ~(buyer[q] = buyer[r] /\ answer[q] = "created")
    BY <2>1, <2>2 DEF Answered, OneWinner
  <2>5. ans = "sold_out" => Cardinality(accepted) = Stock /\ buyer[r] \notin accepted
    BY <2>1 DEF Truthful, SoldOutTo
  <2>6. ans \in Contract!Refusing => ~known[r]
    BY <2>1 DEF Faithful, Contract!Refusing
  <2>7. Contract!Respond(r, ans)
    BY <2>1, <2>2, <2>3, <2>4, <2>5, <2>6, SameCardinality
       DEF Settle, Finish, Contract!Respond, Contract!Honest
  <2> QED
    BY <2>7 DEF Contract!ContractNext
<1>3. CASE OnCreated(a, r)
  BY <1>2, <1>3 DEF OnCreated, Won, InFlight, Contract!Answers, Contract!Confirming
<1>4. CASE OnDecided(a, r)
  BY <1>2, <1>4 DEF OnDecided, InFlight, Contract!Answers, Contract!Confirming, Contract!Refusing
<1>5. CASE OnProbed(a, r)
  BY <1>2, <1>5 DEF OnProbed, InFlight, Contract!Answers, Contract!Confirming, Contract!Refusing
<1>6. CASE OnChecked(a, r)
  BY <1>2, <1>6 DEF OnChecked, InFlight, Contract!Answers, Contract!Confirming, Contract!Refusing
<1> QED
  BY <1>1, <1>3, <1>4, <1>5, <1>6 DEF OnReply

LEMMA GiveUpSimulated ==
  ASSUME KeptInv, Fault
  PROVE  [Contract!ContractNext]_(Contract!contractVars)
<1> USE DEF KeptInv, IInv
<1>1. CASE \E r \in Req : Timeout(r)
  <2>1. PICK r \in Req : Timeout(r)
    BY <1>1
  <2>2. answer[r] = "none" /\ {r} \in SUBSET Req
    BY <2>1 DEF Timeout, Asked, InFlight
  <2>3. answer' = [q \in Req |-> IF q \in {r} THEN "unavailable" ELSE answer[q]]
    BY <2>1 DEF Timeout, Finish, TypeOK
  <2>4. Contract!GiveUp({r})
    BY <2>1, <2>2, <2>3 DEF Timeout, Contract!GiveUp
  <2> QED
    BY <2>2, <2>4 DEF Contract!ContractNext
<1>2. CASE \E a \in Apis : LoseConnection(a)
  <2>1. PICK a \in Apis : LoseConnection(a)
    BY <1>2
  <2> DEFINE pending == {r \in Req : home[r] = a /\ pc[r] \in InFlight \cup {"refused"}}
  <2>2. /\ answer' = [r \in Req |-> IF r \in pending THEN "unavailable" ELSE answer[r]]
        /\ UNCHANGED <<accepted, buyer, known>>
    BY <2>1 DEF LoseConnection
  <2>3. \A r \in pending : answer[r] = "none"
    BY DEF Asked, InFlight
  <2>4. pending \in SUBSET Req
    OBVIOUS
  <2> HIDE DEF pending
  <2>5. Contract!GiveUp(pending)
    BY <2>2, <2>3, <2>4 DEF Contract!GiveUp
  <2> QED
    BY <2>4, <2>5 DEF Contract!ContractNext
<1>3. CASE (\E a \in Apis : Reconnect(a)) \/ FlushScripts
  BY <1>3 DEF Reconnect, FlushScripts, requestVars, Contract!contractVars
<1> QED
  BY <1>1, <1>2, <1>3 DEF Fault

LEMMA StepSimulated == KeptInv /\ [Next]_vars => [Contract!ContractNext]_(Contract!contractVars)
<1> SUFFICES ASSUME KeptInv, [Next]_vars
             PROVE  [Contract!ContractNext]_(Contract!contractVars)
  OBVIOUS
<1>1. CASE RedisStep
  <2>1. PICK a \in Apis :
           RunEvalSha(a) \/ RunEval(a) \/ RunSIsMember(a) \/ RunXAdd(a) \/ RunPublish(a)
    BY <1>1 DEF RedisStep
  <2>2. CASE RunSIsMember(a) \/ RunXAdd(a) \/ RunPublish(a)
    BY <2>2 DEF RunSIsMember, RunXAdd, RunPublish, requestVars, Contract!contractVars
  <2> QED
    BY <2>1, <2>2, AcceptSimulated
<1>2. CASE HandlerStep
  BY <1>2, RespondSimulated DEF HandlerStep
<1>3. CASE Tick
  BY <1>3 DEF Tick, requestVars, Contract!contractVars
<1>4. CASE UNCHANGED vars
  BY <1>4 DEF vars, requestVars, Contract!contractVars
<1> QED
  BY <1>1, <1>2, <1>3, <1>4, AskSimulated, GiveUpSimulated DEF Next

(* The order path implements the contract: with every instance, timeout,   *)
(* reconnection and script flush hidden, callers see the answers of one    *)
(* atomic register of at most Stock buyers.                                *)
THEOREM Refinement == Spec => ImplementsContract
<1>1. Init => Contract!ContractInit
  BY DEF Init
<1> QED
  BY <1>1, KeptInvariance, StepSimulated, PTL DEF Spec, ImplementsContract, Contract!ContractSpec
=============================================================================
