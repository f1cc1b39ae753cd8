------------------------------ MODULE SaleBoot ------------------------------
(***************************************************************************)
(* The two Redis keys of a sale across boots: the migration of the v1.0    *)
(* flat keys, the warm/cold gate on the stock key (the sentinel), the cold *)
(* rebuild from MongoDB, and the traffic of the instances already serving. *)
(*                                                                         *)
(* A boot is one Redis or MongoDB call after another; any of them may fail *)
(* or time out, before or after it took effect, and the process then exits *)
(* without listening: a Crash after or instead of the step.  The order     *)
(* script is one atomic Accept here (OrderFlow has its details) and the    *)
(* audit queue a set of orders MongoDB has not recorded yet (WriteBehind   *)
(* has its details).                                                       *)
(***************************************************************************)
EXTENDS Integers, FiniteSets, FiniteSetsExt

CONSTANTS Apis, Buyers,
          Quantities,  \* the values sale.stockQuantity may be seeded with
          Missing,     \* a stock key that does not exist
          MaxAccepts,  \* bound: accepts per buyer that are counted
          MaxFaults    \* bound: crashes and key losses in a behaviour

ASSUME QuantityAssumption == Quantities \subseteq Nat /\ Quantities # {} /\ IsFiniteSet(Quantities)
ASSUME BuyersAssumption == IsFiniteSet(Buyers)
ASSUME MissingAssumption == Missing \notin Int
ASSUME BoundAssumption == MaxAccepts \in Nat \ {0} /\ MaxFaults \in Nat

VARIABLES
    (* MongoDB: the sale's quantity, its confirmed orders *)
    quantity, recorded,
    (* Redis: the namespaced keys, the v1.0 keys, the audit queue *)
    stock, users, flatStock, flatUsers, backlog,
    (* the instances: where the boot is, and what it has read *)
    pc, found, planned, emails,
    (* history: accepts per buyer, the largest quantity ever seeded, whether *)
    (* a migration was cut between its RENAMEs, faults                       *)
    accepts, limit, torn, faults

mongoVars == <<quantity, recorded>>
keyVars   == <<stock, users>>
flatVars  == <<flatStock, flatUsers>>
bootVars  == <<pc, found, planned, emails>>
histVars  == <<accepts, limit, torn>>
vars == <<mongoVars, keyVars, flatVars, backlog, bootVars, histVars, faults>>

Keys == {"stock", "flatStock", "flatUsers"}

Migrating  == {"stock?", "flatStock?", "flatUsers?", "delFlatStock", "delFlatUsers",
               "renameStock", "renameUsers"}
Rebuilding == {"list", "clear", "fill", "set"}
Booting    == Migrating \cup {"gate"} \cup Rebuilding
Stages     == Booting \cup {"down", "serving"}

Accepted == {b \in Buyers : accepts[b] > 0}
Serving  == {a \in Apis : pc[a] = "serving"}

(* A fresh install, surviving v1.1 keys, v1.0 keys left by the previous    *)
(* release, or both: the upgrade was cut short after its RENAMEs, or v1.0  *)
(* ran again.  The orders taken so far are recorded.                       *)
Init ==
    /\ quantity \in Quantities /\ limit = quantity
    /\ recorded \in {S \in SUBSET Buyers : Cardinality(S) <= quantity}
    /\ accepts = [b \in Buyers |-> IF b \in recorded THEN 1 ELSE 0]
    /\ backlog = {} /\ torn = FALSE
    /\ LET left == quantity - Cardinality(recorded)
           NoKeys   == stock = Missing /\ users = {}
           NoFlat   == flatStock = Missing /\ flatUsers = {}
           InKeys   == stock = left /\ users = recorded
           InFlat   == flatStock = left /\ flatUsers = recorded
           OldFlat  == flatStock = quantity /\ flatUsers = {}
       IN \/ NoKeys /\ NoFlat
          \/ NoKeys /\ InFlat
          \/ InKeys /\ (NoFlat \/ InFlat \/ OldFlat)
    /\ pc = [a \in Apis |-> "down"]
    /\ found = [a \in Apis |-> {}]
    /\ planned = [a \in Apis |-> 0]
    /\ emails = [a \in Apis |-> {}]
    /\ faults = 0

-----------------------------------------------------------------------------
(* Boot, up to the reads of the sale: bootstrap.ts steps 1 to 4.           *)

Goto(a, stage) == pc' = [pc EXCEPT ![a] = stage]

Start(a) ==
    /\ pc[a] = "down"
    /\ Goto(a, "stock?")
    /\ planned' = [planned EXCEPT ![a] = quantity]
    /\ found' = [found EXCEPT ![a] = {}]
    /\ UNCHANGED <<mongoVars, keyVars, flatVars, backlog, emails, histVars, faults>>

(* The flat-key migration: three EXISTS, then what they found decides.     *)
Exists(key) == CASE key = "stock" -> stock # Missing
                 [] key = "flatStock" -> flatStock # Missing
                 [] key = "flatUsers" -> flatUsers # {}

Seen(a, key) == IF Exists(key) THEN found[a] \cup {key} ELSE found[a]

Look(a, stage, key, next) ==
    /\ pc[a] = stage
    /\ found' = [found EXCEPT ![a] = Seen(a, key)]
    /\ Goto(a, next)
    /\ UNCHANGED <<mongoVars, keyVars, flatVars, backlog, planned, emails, histVars, faults>>

(* Mutant: RENAME is attempted without looking for its source.             *)
MigrationUnguarded(seen) ==
    CASE "stock" \notin seen -> "renameStock"
      [] "stock" \in seen /\ "flatStock" \in seen -> "delFlatStock"
      [] OTHER -> "gate"

Migration(seen) ==
    CASE seen \cap {"flatStock", "flatUsers"} = {} -> "gate"
      [] "stock" \in seen /\ "flatStock" \in seen -> "delFlatStock"
      [] "stock" \in seen /\ "flatStock" \notin seen -> "delFlatUsers"
      [] "stock" \notin seen /\ "flatStock" \in seen -> "renameStock"
      [] OTHER -> "renameUsers"

LookStock(a)     == Look(a, "stock?", "stock", "flatStock?")
LookFlatStock(a) == Look(a, "flatStock?", "flatStock", "flatUsers?")
LookFlatUsers(a) == Look(a, "flatUsers?", "flatUsers", Migration(Seen(a, "flatUsers")))

DelFlatStock(a) ==
    /\ pc[a] = "delFlatStock"
    /\ flatStock' = Missing
    /\ Goto(a, IF "flatUsers" \in found[a] THEN "delFlatUsers" ELSE "gate")
    /\ UNCHANGED <<mongoVars, keyVars, flatUsers, backlog, found, planned, emails, histVars, faults>>

DelFlatUsers(a) ==
    /\ pc[a] = "delFlatUsers"
    /\ flatUsers' = {}
    /\ Goto(a, "gate")
    /\ UNCHANGED <<mongoVars, keyVars, flatStock, backlog, found, planned, emails, histVars, faults>>

(* RENAME of a source that is gone is an error: the boot fails.            *)
RenameStock(a) ==
    /\ pc[a] = "renameStock"
    /\ IF flatStock = Missing
       THEN Goto(a, "down") /\ UNCHANGED <<stock, flatStock>>
       ELSE /\ stock' = flatStock /\ flatStock' = Missing
            /\ Goto(a, IF "flatUsers" \in found[a] THEN "renameUsers" ELSE "gate")
    /\ UNCHANGED <<mongoVars, users, flatUsers, backlog, found, planned, emails, histVars, faults>>

RenameUsers(a) ==
    /\ pc[a] = "renameUsers"
    /\ IF flatUsers = {}
       THEN Goto(a, "down") /\ UNCHANGED <<users, flatUsers>>
       ELSE users' = flatUsers /\ flatUsers' = {} /\ Goto(a, "gate")
    /\ UNCHANGED <<mongoVars, stock, flatStock, backlog, found, planned, emails, histVars, faults>>

-----------------------------------------------------------------------------
(* The warm/cold gate and the rebuild.                                     *)

(* Mutant: every boot rebuilds.                                            *)
ColdAlways == TRUE

(* No sentinel: rebuild Redis from MongoDB.                                *)
Cold == stock = Missing

Gate(a) ==
    /\ pc[a] = "gate"
    /\ Goto(a, IF Cold THEN "list" ELSE "serving")
    /\ UNCHANGED <<mongoVars, keyVars, flatVars, backlog, found, planned, emails, histVars, faults>>

(* Mutant: the sentinel is written first.                                  *)
SetFirst == [list |-> "set", set |-> "clear", clear |-> "fill", fill |-> "serving"]

(* rebuild(): DEL, SADD, SET, the sentinel last.                           *)
After == [list |-> "clear", clear |-> "fill", fill |-> "set", set |-> "serving"]

ListOrders(a) ==
    /\ pc[a] = "list"
    /\ emails' = [emails EXCEPT ![a] = recorded]
    /\ Goto(a, After["list"])
    /\ UNCHANGED <<mongoVars, keyVars, flatVars, backlog, found, planned, histVars, faults>>

ClearUsers(a) ==
    /\ pc[a] = "clear"
    /\ users' = {}
    /\ Goto(a, After["clear"])
    /\ UNCHANGED <<mongoVars, stock, flatVars, backlog, found, planned, emails, histVars, faults>>

(* Mutant: the members are not written back.                               *)
MembersForgotten(a) == {}

Members(a) == emails[a]

FillUsers(a) ==
    /\ pc[a] = "fill"
    /\ users' = users \cup Members(a)
    /\ Goto(a, After["fill"])
    /\ UNCHANGED <<mongoVars, stock, flatVars, backlog, found, planned, emails, histVars, faults>>

(* Mutant: no clamp at 0.                                                  *)
RemainingUnclamped(a) == planned[a] - Cardinality(emails[a])

(* Mutant: the orders already taken are not subtracted.                    *)
RemainingFull(a) == planned[a]

Remaining(a) == Max({0, planned[a] - Cardinality(emails[a])})

SetStock(a) ==
    /\ pc[a] = "set"
    /\ stock' = Remaining(a)
    /\ Goto(a, After["set"])
    /\ UNCHANGED <<mongoVars, users, flatVars, backlog, found, planned, emails, histVars, faults>>

-----------------------------------------------------------------------------
(* Traffic, the worker, the operator.                                      *)

(* The order script accepts b; its XADD reaches the queue or is lost.      *)
Accept(b) ==
    /\ Serving # {}
    /\ stock # Missing /\ b \notin users /\ stock > 0
    /\ users' = users \cup {b} /\ stock' = stock - 1
    /\ accepts[b] < MaxAccepts /\ accepts' = [accepts EXCEPT ![b] = @ + 1]
    /\ backlog' = backlog \cup {b} \/ UNCHANGED backlog
    /\ UNCHANGED <<mongoVars, flatVars, bootVars, limit, torn, faults>>

Record(b) ==
    /\ b \in backlog
    /\ backlog' = backlog \ {b} /\ recorded' = recorded \cup {b}
    /\ UNCHANGED <<quantity, keyVars, flatVars, bootVars, histVars, faults>>

Reseed(q) ==
    /\ quantity' = q /\ q # quantity
    /\ limit' = Max({limit, q})
    /\ UNCHANGED <<recorded, keyVars, flatVars, backlog, bootVars, accepts, torn, faults>>

FaultBudget == faults < MaxFaults /\ faults' = faults + 1

(* The migration renames the sentinel first: a crash before the second     *)
(* RENAME leaves it beside an empty set.                                   *)
MidRename(a) == pc[a] = "renameUsers" /\ "flatStock" \in found[a] /\ stock # Missing

Crash(a) ==
    /\ pc[a] # "down"
    /\ Goto(a, "down")
    /\ torn' = (torn \/ MidRename(a))
    /\ FaultBudget
    /\ UNCHANGED <<mongoVars, keyVars, flatVars, backlog, found, planned, emails, accepts, limit>>

(* The operator deletes the sentinel to force a rebuild.                   *)
DeleteSentinel ==
    /\ stock # Missing /\ stock' = Missing
    /\ FaultBudget
    /\ UNCHANGED <<mongoVars, users, flatVars, backlog, bootVars, histVars>>

(* Redis comes back with none of its keys.  The SET is written as soon as  *)
(* the SADD is answered, so between the two it fails with the connection.  *)
LoseRedis ==
    /\ stock' = Missing /\ users' = {} /\ flatStock' = Missing /\ flatUsers' = {}
    /\ backlog' = {}
    /\ pc' = [a \in Apis |-> IF pc[a] = "set" THEN "down" ELSE pc[a]]
    /\ FaultBudget
    /\ UNCHANGED <<mongoVars, found, planned, emails, histVars>>

BootStep(a) ==
    \/ LookStock(a) \/ LookFlatStock(a) \/ LookFlatUsers(a)
    \/ DelFlatStock(a) \/ DelFlatUsers(a) \/ RenameStock(a) \/ RenameUsers(a)
    \/ Gate(a) \/ ListOrders(a) \/ ClearUsers(a) \/ FillUsers(a) \/ SetStock(a)

Traffic == \/ \E b \in Buyers : Accept(b) \/ Record(b)
           \/ \E q \in Quantities : Reseed(q)

(* What no code sees to: instances boot one at a time, and the operator    *)
(* waits for the queue to drain before the keys go.                        *)
Rolling(a) == \A o \in Apis \ {a} : pc[o] \notin Booting
Drained    == Accepted \subseteq recorded
FlatGone   == flatStock = Missing /\ flatUsers = {}

Next ==
    \/ Traffic
    \/ \E a \in Apis : \/ Rolling(a) /\ Start(a)
                       \/ BootStep(a)
                       \/ Crash(a)
    \/ Drained /\ LoseRedis
    \/ Drained /\ FlatGone /\ DeleteSentinel

Spec == Init /\ [][Next]_vars

(* Each condition lifted in turn.                                          *)
ConcurrentBootSpec == Init /\ [][Next \/ \E a \in Apis : Start(a)]_vars

UndrainedSpec == Init /\ [][Next \/ (FlatGone /\ DeleteSentinel)]_vars

(* The orchestrator restarts what exited; a boot call returns or fails.    *)
FairSpec == Spec /\ \A a \in Apis : WF_vars(Rolling(a) /\ Start(a)) /\ WF_vars(BootStep(a))

-----------------------------------------------------------------------------
(* Properties.                                                             *)

(* The variables range over what the code can hold; in particular the      *)
(* stock key is never negative, even when more orders than units are found.*)
TypeOK ==
    /\ quantity \in Quantities /\ recorded \subseteq Buyers
    /\ stock \in Nat \cup {Missing} /\ flatStock \in Nat \cup {Missing}
    /\ users \subseteq Buyers /\ flatUsers \subseteq Buyers /\ backlog \subseteq Buyers
    /\ pc \in [Apis -> Stages] /\ found \in [Apis -> SUBSET Keys]
    /\ planned \in [Apis -> Quantities \cup {0}] /\ emails \in [Apis -> SUBSET Buyers]
    /\ accepts \in [Buyers -> 0..MaxAccepts] /\ limit \in Quantities
    /\ torn \in BOOLEAN /\ faults \in 0..MaxFaults

(* One for every accept.                                                   *)
Units == {u \in Buyers \X (1..MaxAccepts) : u[2] <= accepts[u[1]]}

(* architecture.md, "No oversell", across restarts, crashes mid-rebuild,   *)
(* key losses and reseeded quantities: never more accepts than the largest *)
(* quantity the sale was ever seeded with.  This and the next two hold     *)
(* until a migration is cut between its two RENAMEs.                       *)
NoOversell == ~torn => Cardinality(Units) <= limit

(* No buyer is sold two units, however often the keys are rebuilt.         *)
OneUnitPerBuyer == ~torn => \A b \in Buyers : accepts[b] <= 1

(* reconcile.ts: the sentinel is written last.  Whenever an instance could *)
(* accept, the set holds every accepted buyer and no other, and the units  *)
(* on sale are not held by anyone.                                         *)
SentinelLast ==
    ~torn /\ Serving # {} /\ stock # Missing =>
        users = Accepted /\ stock + Cardinality(users) <= limit

(* bootstrap.ts: "Warm start: surviving Redis state is authoritative -     *)
(* touch nothing".  With one boot at a time, whether or not others serve,  *)
(* keys that are there change by an accept, or are lost; a boot writes to  *)
(* them in one case: the second RENAME, which brings the buyers of v1.0    *)
(* where there are none yet.                                               *)
WarmStep ==
    stock # Missing =>
        \/ UNCHANGED keyVars
        \/ stock' = Missing /\ faults' > faults
        \/ stock' = stock - 1 /\ Cardinality(users' \ users) = 1 /\ users \subseteq users'
        \/ /\ \E a \in Apis : MidRename(a)
           /\ stock' = stock /\ users = {} /\ users' = Accepted

WarmTouchesNothing == [][WarmStep]_vars

(* A fleet whose processes are restarted comes to serve, whatever state    *)
(* the crashes left behind.                                                *)
EventuallyServing == <>[](\E a \in Apis : pc[a] = "serving")
=============================================================================
