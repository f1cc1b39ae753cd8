------------------------------ MODULE StressRun ------------------------------
(***************************************************************************)
(* The stress harness and the stack it judges: stop the API, reset the     *)
(* stores, start the API, burst, verify, close the window and reopen it,   *)
(* and say PASS or FAIL.  The worker is another container: it drains what  *)
(* is queued at any moment, the reset included.                            *)
(*                                                                         *)
(* The stack is reduced to what the harness reads and writes.  The order   *)
(* script, the boot and the write-behind path are one step each here (they *)
(* have modules of their own).                                             *)
(***************************************************************************)
EXTENDS Naturals, FiniteSets, Sequences

CONSTANTS Primary,    \* the addresses of the burst, one attempt each
          Spam,       \* the address the spam scenario shares
          SpamPosts,  \* attempts made with it
          Old,        \* buyers of an earlier run
          Quantity,   \* stockQuantity of the sale document
          Configured, \* what STOCK_QUANTITY may be set to
          MinSamples, MaxSamples,
          Missing,    \* no stock key
          MaxFaults   \* bound: failures of a run

ASSUME PeopleAssumption ==
    /\ IsFiniteSet(Primary) /\ IsFiniteSet(Old)
    /\ Spam \notin Primary \cup Old /\ Primary \cap Old = {}
ASSUME CountAssumption ==
    /\ Quantity \in Nat \ {0} /\ Configured \subseteq Nat \ {0} /\ SpamPosts \in Nat
    /\ MinSamples \in Nat /\ MaxSamples \in Nat /\ MaxFaults \in Nat
    /\ Missing \notin Nat

VARIABLES
    (* the stores; queue is what the worker has not persisted yet *)
    stock, users, queue, orders,
    (* the sale document's window, the API and the window it booted with, and *)
    (* who has a request on it that k6 no longer waits for                    *)
    window, api, apiWindow, late,
    (* the harness: where it is, what it is configured with, whether a phase *)
    (* failed, the wipes done, the verifier's samples, the window it saved   *)
    pc, expected, failed, wiped, samples, previous, snapshot,
    (* k6: attempts not yet handled, the answers to the others; of a burst   *)
    (* that is over, who scored a 202 and whether every answer was scored    *)
    left, replies, told, whole,
    faults

stores  == <<stock, users, queue, orders>>
stack   == <<window, api, apiWindow, late>>
verify  == <<samples, previous>>
k6      == <<left, replies, told, whole>>
vars    == <<stores, stack, pc, expected, failed, wiped, verify, snapshot, k6, faults>>

Shoppers == Primary \cup {Spam}
Buyers   == Shoppers \cup Old
Windows  == {"open", "closed"}

Running == {"seed", "stop", "reset", "start", "burst", "sample", "distinct", "judge",
            "capture", "close", "closedApi", "probe", "restore", "openApi", "confirm", "finish"}
Ended   == {"pass", "fail", "aborted"}

(* An earlier run, or none, and a window that it may have left closed.     *)
Init ==
    /\ \E served \in SUBSET Old :
          /\ Cardinality(served) <= Quantity
          /\ queue \in SUBSET served /\ orders = served \ queue
          /\ \/ users = served /\ stock = Quantity - Cardinality(served)
             \/ served = {} /\ users = {} /\ stock = Missing
    /\ window \in Windows
    /\ api \in {"up", "stopped"} /\ (stock = Missing => api = "stopped")
    /\ apiWindow = window /\ late = {}
    /\ pc = "seed" /\ expected \in Configured /\ failed = FALSE /\ wiped = 0
    /\ samples = 0 /\ previous = 0 /\ snapshot = "open"
    /\ left = [b \in Shoppers |-> IF b = Spam THEN SpamPosts ELSE 1]
    /\ replies = {} /\ told = {} /\ whole = FALSE
    /\ faults = 0

-----------------------------------------------------------------------------
(* The stack.                                                              *)

SpendFault == faults < MaxFaults /\ faults' = faults + 1

(* A boot freezes the window it reads; without the sentinel it rebuilds    *)
(* the keys from the recorded orders.  Requests die with the old process.  *)
Boot ==
    /\ api' = "up" /\ apiWindow' = window /\ late' = {}
    /\ IF stock # Missing THEN UNCHANGED <<stock, users>>
       ELSE /\ users' = orders
            /\ stock' = IF Cardinality(orders) < Quantity THEN Quantity - Cardinality(orders) ELSE 0
    /\ UNCHANGED <<window, queue, orders>>

Persist ==
    /\ \E b \in queue : queue' = queue \ {b} /\ orders' = orders \cup {b}
    /\ UNCHANGED <<stock, users, stack, pc, expected, failed, wiped, verify, snapshot, k6, faults>>

ApiCrash ==
    /\ api = "up" /\ api' = "crashed" /\ late' = {} /\ SpendFault
    /\ UNCHANGED <<stores, window, apiWindow, pc, expected, failed, wiped, verify, snapshot, k6>>

(* restart: unless-stopped, or somebody deploys once the harness is gone.  *)
Revive ==
    /\ api = "crashed" \/ (api = "stopped" /\ pc \in Ended)
    /\ Boot
    /\ UNCHANGED <<pc, expected, failed, wiped, verify, snapshot, k6, faults>>

-----------------------------------------------------------------------------
(* The harness's phases.  A phase that fails is recorded; most end the run.*)

Goto(phase)    == pc' = phase /\ UNCHANGED failed
Record(ok, phase) == pc' = phase /\ failed' = (failed \/ ~ok)
GiveUpAt(phase) == SpendFault /\ Record(FALSE, phase)

(* "make stress" seeds a window that is open now; "npm run stress" does not*)
Seed ==
    /\ pc = "seed" /\ Goto("stop")
    /\ window' \in {window, "open"}
    /\ UNCHANGED <<stores, api, apiWindow, late, expected, wiped, verify, snapshot, k6, faults>>

(* Only a refused connection proves that nothing is listening.             *)
StopApi ==
    /\ pc = "stop"
    /\ \/ api' = "stopped" /\ Goto("reset") /\ UNCHANGED faults
       \/ api' \in {api, "stopped"} /\ GiveUpAt("finish")
    /\ UNCHANGED <<stores, window, apiWindow, late, expected, wiped, verify, snapshot, k6>>

(* Mutant: the sentinel is written first.                                  *)
SentinelFirst == <<"stock", "users", "orders">>

WipeOrder == <<"users", "orders", "stock">>

(* Neither the stream nor the worker is touched.                           *)
Wipe(key) ==
    /\ users'  = IF key = "users" THEN {} ELSE users
    /\ orders' = IF key = "orders" THEN {} ELSE orders
    /\ stock'  = IF key = "stock" THEN expected ELSE stock
    /\ UNCHANGED queue

Reset ==
    /\ pc = "reset"
    /\ \/ /\ api = "stopped" /\ Wipe(WipeOrder[wiped + 1])
          /\ wiped' = wiped + 1
          /\ Goto(IF wiped' = Len(WipeOrder) THEN "start" ELSE "reset")
          /\ UNCHANGED faults
       \/ GiveUpAt("finish") /\ UNCHANGED <<stores, wiped>>
    /\ UNCHANGED <<stack, expected, verify, snapshot, k6>>

(* docker compose up --force-recreate --wait, then the status endpoint.    *)
RestartApi(phase, next, otherwise) ==
    /\ pc = phase
    /\ \/ Boot /\ Goto(next) /\ UNCHANGED faults
       \/ api' \in {"stopped", "crashed"} /\ late' = {} /\ GiveUpAt(otherwise)
          /\ UNCHANGED <<stores, window, apiWindow>>
    /\ UNCHANGED <<expected, wiped, verify, snapshot, k6>>

StartApi       == RestartApi("start", "burst", "finish")
StartClosedApi == RestartApi("closedApi", "probe", "restore")
StartOpenApi   == RestartApi("openApi", "confirm", "finish")

-----------------------------------------------------------------------------
(* The burst.                                                              *)

(* Mutant: a status outside the list breaches nothing.                     *)
AnyStatus(b) == {0, 200, 202, 409, 503}

Allowed(b) == IF b = Spam THEN {200, 202, 409} ELSE {202, 409}

(* Equal answers to one address are kept as one: the script accepts an     *)
(* address once, so no two of them are 202s.                               *)
Reply(b, code) ==
    /\ left' = [left EXCEPT ![b] = @ - 1]
    /\ replies' = replies \cup {[by |-> b, code |-> code]}

(* Mutant: the last unit is sold over and over.                            *)
StockAnyway == TRUE

StockLeft == stock > 0

Take(b) == users' = users \cup {b} /\ stock' = stock - 1 /\ UNCHANGED orders

(* The script accepts: the entry is queued, or the XADD fails and is only  *)
(* logged.                                                                 *)
Commit(b) ==
    /\ b \notin users /\ apiWindow = "open" /\ StockLeft
    /\ Take(b)
    /\ \/ queue' = queue \cup {b} /\ UNCHANGED faults
       \/ UNCHANGED queue /\ SpendFault

Accept(b) == Commit(b) /\ Reply(b, 202)

Answer(b) ==
    /\ \/ b \in users /\ Reply(b, 200)
       \/ b \notin users /\ (apiWindow = "closed" \/ ~StockLeft) /\ Reply(b, 409)
    /\ UNCHANGED <<stores, faults>>

(* The script timed out, or the connection broke: it ran or did not.       *)
TimeOut(b) ==
    /\ Reply(b, 503) /\ SpendFault
    /\ \/ UNCHANGED stores
       \/ /\ b \notin users /\ apiWindow = "open" /\ StockLeft
          /\ Take(b) /\ UNCHANGED queue

Refused(b) == Reply(b, 0) /\ UNCHANGED <<stores, faults>>

Post(b) ==
    /\ pc = "burst" /\ left[b] > 0
    /\ IF api = "up" THEN Accept(b) \/ Answer(b) \/ TimeOut(b) ELSE Refused(b)
    /\ UNCHANGED <<stack, pc, expected, failed, wiped, verify, snapshot, told, whole>>

(* Whoever has an attempt left may have its request on the wire.           *)
OnTheWire == {b \in Shoppers : left[b] > 0}

(* score(), and the thresholds, which k6 evaluates at the end.             *)
Scored(answers) ==
    /\ told' = {r.by : r \in {a \in answers : a.code = 202}}
    /\ whole' = (OnTheWire = {} /\ answers = replies)
    /\ Record(\A r \in answers : r.code \in Allowed(r.by), "sample")

(* maxDuration, and the grace after it, cut an iteration short wherever it *)
(* is: its answer is not scored, its request may still be handled.  A      *)
(* runner that never ran, or a latency threshold, fails the burst.         *)
EndBurst ==
    /\ pc = "burst"
    /\ \/ OnTheWire = {} /\ Scored(replies) /\ UNCHANGED faults
       \/ SpendFault /\ \E answers \in SUBSET replies : Scored(answers)
       \/ (GiveUpAt("sample") \/ GiveUpAt("finish")) /\ UNCHANGED <<told, whole>>
    /\ left' = [b \in Shoppers |-> 0] /\ replies' = {} /\ late' = OnTheWire \ users
    /\ UNCHANGED <<stores, window, api, apiWindow, expected, wiped, verify, snapshot>>

(* The API still handles a request k6 has given up on.                     *)
LateCommit ==
    /\ api = "up"
    /\ \E b \in late : Commit(b) /\ late' = late \ {b}
    /\ UNCHANGED <<window, api, apiWindow, pc, expected, failed, wiped, verify, snapshot, k6>>

-----------------------------------------------------------------------------
(* The verifier.                                                           *)

(* Mutant: it waits for the plateau for as long as it takes.               *)
NeverOutOfSamples(n) == FALSE

OutOfSamples(n) == n >= MaxSamples

Settled(n) == samples >= MinSamples /\ n = previous /\ n > 0

(* pollUntilStable: two samples in a row agree on a count above zero.      *)
Sample ==
    LET n == Cardinality(orders) IN
    /\ pc = "sample"
    /\ samples' = IF samples < MaxSamples THEN samples + 1 ELSE samples
    /\ previous' = n
    /\ IF Settled(n) THEN Goto("distinct")
       ELSE IF OutOfSamples(samples + 1) THEN Record(FALSE, "capture") ELSE Goto("sample")
    /\ UNCHANGED <<stores, stack, expected, wiped, snapshot, k6, faults>>

(* An order persisted since the count settled makes the two differ.        *)
CountDistinct ==
    /\ pc = "distinct" /\ Record(Cardinality(orders) = previous, "judge")
    /\ UNCHANGED <<stores, stack, expected, wiped, verify, snapshot, k6, faults>>

Smaller(m, n) == IF m < n THEN m ELSE n

Target == Smaller(Quantity, Cardinality(Primary))

(* At least one, one per cent of the target rounded up.                    *)
Tolerance == IF Target <= 100 THEN 1 ELSE (Target + 99) \div 100

Passed ==
    LET accepted == Cardinality(users) IN
    /\ accepted = Target
    /\ previous <= accepted /\ accepted <= previous + Tolerance
    /\ stock # Missing /\ stock + accepted = Quantity
    /\ expected = Quantity

(* The set and the counter are read one after the other: a commit between  *)
(* them fails the sum.                                                     *)
Judge ==
    /\ pc = "judge"
    /\ \/ Record(Passed, "capture") /\ UNCHANGED faults
       \/ GiveUpAt("capture")
    /\ UNCHANGED <<stores, stack, expected, wiped, verify, snapshot, k6>>

-----------------------------------------------------------------------------
(* The window phase.                                                       *)

Capture ==
    /\ pc = "capture"
    /\ \/ snapshot' = window /\ Goto("close") /\ UNCHANGED faults
       \/ UNCHANGED snapshot /\ GiveUpAt("finish")
    /\ UNCHANGED <<stores, stack, expected, wiped, verify, k6>>

(* A failure here, even one after the write, returns before the finally.   *)
CloseWindow ==
    /\ pc = "close"
    /\ \/ window' = "closed" /\ Goto("closedApi") /\ UNCHANGED faults
       \/ window' \in {window, "closed"} /\ GiveUpAt("finish")
    /\ UNCHANGED <<stores, api, apiWindow, late, expected, wiped, verify, snapshot, k6>>

(* New addresses, all to be refused.                                       *)
Probe ==
    /\ pc = "probe"
    /\ \/ Record(api = "up" /\ apiWindow = "closed", "restore") /\ UNCHANGED faults
       \/ GiveUpAt("restore")
    /\ UNCHANGED <<stores, stack, expected, wiped, verify, snapshot, k6>>

(* The finally block: a restore that fails is only logged.                 *)
RestoreWindow ==
    /\ pc = "restore" /\ Goto("openApi")
    /\ \/ window' = snapshot /\ UNCHANGED faults
       \/ UNCHANGED window /\ SpendFault
    /\ UNCHANGED <<stores, api, apiWindow, late, expected, wiped, verify, snapshot, k6>>

(* Mutant: any answer will do.                                             *)
BackUp == api = "up"

(* The status is "active" or "sold_out".                                   *)
BackOpen == api = "up" /\ apiWindow = "open"

ConfirmRestored ==
    /\ pc = "confirm"
    /\ \/ Record(BackOpen, "finish") /\ UNCHANGED faults
       \/ GiveUpAt("finish")
    /\ UNCHANGED <<stores, stack, expected, wiped, verify, snapshot, k6>>

Finish ==
    /\ pc = "finish" /\ Goto(IF failed THEN "fail" ELSE "pass")
    /\ UNCHANGED <<stores, stack, expected, wiped, verify, snapshot, k6, faults>>

(* Interrupted, at any await.                                              *)
Abort ==
    /\ pc \in Running /\ pc' = "aborted" /\ SpendFault
    /\ late' = IF pc = "burst" THEN OnTheWire \ users ELSE late
    /\ UNCHANGED <<stores, window, api, apiWindow, expected, failed, wiped, verify, snapshot, k6>>

-----------------------------------------------------------------------------
HarnessStep ==
    \/ Seed \/ StopApi \/ Reset \/ StartApi
    \/ (\E b \in Shoppers : Post(b)) \/ EndBurst
    \/ Sample \/ CountDistinct \/ Judge
    \/ Capture \/ CloseWindow \/ StartClosedApi \/ Probe
    \/ RestoreWindow \/ StartOpenApi \/ ConfirmRestored \/ Finish

Next == HarnessStep \/ Persist \/ LateCommit \/ ApiCrash \/ Revive \/ Abort

(* The verifier's counts are answered.  Nothing else is promised: docker   *)
(* compose has no deadline, the stores are called without one, and the     *)
(* worker may not even run.                                                *)
Spec == Init /\ [][Next]_vars /\ WF_vars(Sample)

-----------------------------------------------------------------------------
(* Properties.                                                             *)

(* The variables range over what the stores and the harness can hold.      *)
TypeOK ==
    /\ stock \in Nat \cup {Missing}
    /\ users \subseteq Buyers /\ queue \subseteq Buyers /\ orders \subseteq Buyers
    /\ window \in Windows /\ apiWindow \in Windows /\ snapshot \in Windows
    /\ api \in {"up", "stopped", "crashed"} /\ late \subseteq Shoppers
    /\ pc \in Running \cup Ended
    /\ expected \in Configured /\ failed \in BOOLEAN /\ wiped \in 0..Len(WipeOrder)
    /\ samples \in 0..MaxSamples /\ previous \in Nat
    /\ left \in [Shoppers -> Nat]
    /\ replies \subseteq [by : Shoppers, code : {0, 200, 202, 409, 503}]
    /\ told \subseteq Shoppers /\ whole \in BOOLEAN
    /\ faults \in 0..MaxFaults

(* run.ts:520, "PASS - the fairness claim holds".  Nobody was told of an    *)
(* order who is not in the set; in a burst that ran to its end, nobody is   *)
(* in the set who was not told.  As many hold one as there were units or    *)
(* attempts, no unit is unaccounted for, MongoDB has them but for the       *)
(* tolerance, and what it has beside them is an earlier run's.              *)
PassMeansFair ==
    pc = "pass" =>
        /\ told \subseteq users /\ (whole => told = users)
        /\ Target <= Cardinality(users)
        /\ stock + Cardinality(users) = Quantity
        /\ Target <= Cardinality(orders) + Tolerance
        /\ orders \subseteq users \cup Old

(* run.ts:335: an interrupted or failed window phase never leaves the API  *)
(* pinned to the closed window while the run prints PASS.                  *)
PassLeavesOpen == pc = "pass" => window = "open" /\ apiWindow = "open"

(* reset.ts:11: wherever the reset is cut off, an API that boots then does *)
(* not offer units beside buyers who already hold them.                    *)
InterruptedResetIsSafe ==
    api = "up" => /\ stock # Missing
                  /\ \/ stock + Cardinality(users) <= Quantity
                     \/ stock + Cardinality(users) <= expected

(* verify.ts:169, "a failure with that exact message, not a hang": however  *)
(* the worker drains, stalls or dies, the poll for a plateau is over after  *)
(* its samples.                                                             *)
SamplingEnds == pc = "sample" ~> pc # "sample"

(* verify.ts:79: Mongo holding an order Redis never accepted "is always a  *)
(* hard fail".                                                             *)
PhantomNeverPasses == pc = "pass" => orders \subseteq users

(* reset.ts:14: after a crash mid-reset "the API's boot rebuild re-runs    *)
(* the cold path", so that the keys account for every unit.                *)
CutOffResetRebuilds ==
    pc = "aborted" /\ wiped \in 1..2 /\ api = "up" => stock + Cardinality(users) = Quantity
=============================================================================
