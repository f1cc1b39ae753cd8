--------------------------- MODULE SaleBootProofs ---------------------------
(***************************************************************************)
(* Proofs about SaleBoot, for every number of instances, buyers, units,    *)
(* reseeded quantities and faults: as long as instances boot one at a time *)
(* and the keys only go once the queue is drained, no unit is sold twice,  *)
(* wherever a boot crashed but between the two RENAMEs of a migration.     *)
(***************************************************************************)
EXTENDS SaleBoot, FiniteSetTheorems, TLAPS

OneEach == \A b \in Buyers : accepts[b] <= 1

(* Nothing is recorded or queued that was not accepted, and what a boot    *)
(* plans with was once the quantity.                                       *)
Ledger ==
    /\ OneEach
    /\ recorded \subseteq Accepted /\ backlog \subseteq Accepted
    /\ Cardinality(Accepted) <= limit
    /\ quantity <= limit /\ \A a \in Apis : planned[a] <= limit

(* Rolling: one instance boots at a time.                                  *)
OneBoots == \A a, o \in Apis : pc[a] \in Booting /\ pc[o] \in Booting => a = o

(* Between its two RENAMEs a boot stands beside a stock key without users. *)
HalfRenamed(a) == pc[a] = "renameUsers" /\ stock # Missing

(* The keys exist: they are complete, or the users are about to be renamed *)
(* and nobody serves.                                                      *)
Kept ==
    stock # Missing =>
        /\ stock + Cardinality(Accepted) <= limit
        /\ \A a \in Apis :
             /\ pc[a] \notin Rebuilding \cup {"renameStock"}
             /\ pc[a] \in {"flatStock?", "flatUsers?"} => "stock" \in found[a]
             /\ HalfRenamed(a) => /\ Serving = {} /\ "flatStock" \in found[a]
                                  /\ flatStock = Missing
                                  /\ users = {} /\ flatUsers = Accepted /\ flatUsers # {}
        /\ (\A a \in Apis : ~HalfRenamed(a)) => users = Accepted

(* They do not, but those of v1.0 do: nobody has served, and the boot is   *)
(* on its way to rename what there is.                                     *)
Unmigrated ==
    stock = Missing /\ flatStock # Missing =>
        /\ users = {} /\ flatUsers = Accepted /\ recorded = Accepted
        /\ flatStock + Cardinality(Accepted) <= limit
        /\ \A a \in Apis :
             /\ pc[a] \in {"down", "stock?", "flatStock?", "flatUsers?", "renameStock"}
             /\ pc[a] \in {"flatStock?", "flatUsers?"} => "stock" \notin found[a]
             /\ pc[a] = "flatUsers?" => "flatStock" \in found[a]
             /\ pc[a] = "renameStock" => ("flatUsers" \in found[a] <=> flatUsers # {})

(* There are none: MongoDB has every order, and a rebuild writes them all  *)
(* back before the sentinel.                                               *)
Rebuilt ==
    stock = Missing /\ flatStock = Missing =>
        /\ flatUsers = {} /\ recorded = Accepted
        /\ \A a \in Apis :
             /\ pc[a] \in {"clear", "fill", "set"} => emails[a] = Accepted
             /\ pc[a] = "fill" => users = {}
             /\ pc[a] = "set" => users = Accepted

(* RENAME of the stock is on the way only if it was seen.                  *)
Looked ==
    \A a \in Apis : /\ pc[a] = "stock?" => found[a] = {}
                    /\ pc[a] \in {"flatStock?", "flatUsers?"} => "flatUsers" \notin found[a]
                    /\ pc[a] = "renameStock" => "flatStock" \in found[a]

IInv == TypeOK /\ Ledger /\ OneBoots /\ Kept /\ Unmigrated /\ Rebuilt /\ Looked

(* A migration was cut: nothing is left to rename, and a boot still leaves *)
(* keys that exist alone.                                                  *)
Cut ==
    /\ OneBoots
    /\ flatStock = Missing /\ (stock = Missing => flatUsers = {})
    /\ stock # Missing =>
         \A a \in Apis :
            /\ pc[a] \notin Rebuilding \cup {"renameStock", "renameUsers"}
            /\ pc[a] \in {"flatStock?", "flatUsers?"} => "stock" \in found[a]

WholeInv == TypeOK /\ IF torn THEN Cut ELSE IInv

-----------------------------------------------------------------------------
(* Numbers.                                                                *)

LEMMA Max2 == ASSUME NEW m \in Nat, NEW n \in Int
              PROVE  Max({m, n}) \in {m, n} /\ Max({m, n}) >= m /\ Max({m, n}) >= n
<1>1. \E x \in {m, n} : \A y \in {m, n} : x >= y
  <2>1. CASE m >= n
    BY <2>1
  <2>2. CASE n >= m
    BY <2>2
  <2> QED
    BY <2>1, <2>2
<1> QED
  BY <1>1, Zenon DEF Max

LEMMA Numbers ==
    ASSUME TypeOK
    PROVE  /\ quantity \in Nat /\ limit \in Nat /\ Quantities \subseteq Nat
           /\ \A a \in Apis : planned[a] \in Nat /\ emails[a] \subseteq Buyers
           /\ Missing \notin Int
<1>1. Quantities \cup {0} \subseteq Nat
  BY QuantityAssumption
<1>2. \A a \in Apis : planned[a] \in Quantities \cup {0} /\ emails[a] \in SUBSET Buyers
  BY DEF TypeOK
<1>3. quantity \in Quantities /\ limit \in Quantities
  BY DEF TypeOK
<1> QED
  BY <1>1, <1>2, <1>3, MissingAssumption

LEMMA FewBuyers ==
    ASSUME NEW S \in SUBSET Buyers
    PROVE  /\ IsFiniteSet(S) /\ Cardinality(S) \in Nat
           /\ \A b \in Buyers \ S : Cardinality(S \cup {b}) = Cardinality(S) + 1
<1>1. IsFiniteSet(S) /\ Cardinality(S) \in Nat
  BY BuyersAssumption, FS_Subset, FS_CardinalityType
<1> QED
  BY <1>1, FS_AddElement

(* The clamp: what a rebuild puts on sale fits beside the orders it found. *)
LEMMA RemainingFits ==
    ASSUME TypeOK, NEW a \in Apis, planned[a] <= limit, Cardinality(emails[a]) <= limit
    PROVE  Remaining(a) \in Nat /\ Remaining(a) + Cardinality(emails[a]) <= limit
<1>1. planned[a] \in Nat /\ limit \in Nat /\ Cardinality(emails[a]) \in Nat
  BY Numbers, FewBuyers
<1> DEFINE n == planned[a] - Cardinality(emails[a])
<1>2. n \in Int /\ n + Cardinality(emails[a]) <= limit
  BY <1>1
<1>3. Remaining(a) \in {0, n} /\ Remaining(a) >= 0 /\ Remaining(a) >= n
  BY <1>2, Max2 DEF Remaining
<1> HIDE DEF n
<1> QED
  BY <1>1, <1>2, <1>3

-----------------------------------------------------------------------------
(* Initially.                                                              *)

LEMMA InitInv == Init => IInv
<1> SUFFICES ASSUME Init PROVE IInv
  OBVIOUS
<1>1. /\ quantity \in Nat /\ limit = quantity /\ quantity \in Quantities
      /\ recorded \subseteq Buyers /\ backlog = {} /\ torn = FALSE /\ faults = 0
      /\ Cardinality(recorded) <= quantity
      /\ accepts = [b \in Buyers |-> IF b \in recorded THEN 1 ELSE 0]
  BY QuantityAssumption DEF Init
<1>2. \A a \in Apis : pc[a] = "down" /\ found[a] = {} /\ planned[a] = 0 /\ emails[a] = {}
  BY DEF Init
<1>3. Accepted = recorded
  BY <1>1 DEF Accepted
<1>4. Cardinality(recorded) \in Nat /\ Cardinality({}) = 0
  BY <1>1, FewBuyers, FS_EmptySet
<1> DEFINE left == quantity - Cardinality(recorded)
<1>5. left \in Nat /\ left + Cardinality(recorded) = limit
  BY <1>1, <1>4
<1>6. \/ stock = Missing /\ users = {}
         /\ \/ flatStock = Missing /\ flatUsers = {}
            \/ flatStock = left /\ flatUsers = recorded
      \/ /\ stock = left /\ users = recorded
         /\ flatStock \in {Missing, left, quantity} /\ flatUsers \in {{}, recorded}
  BY DEF Init
<1> HIDE DEF left
<1>7. TypeOK
  <2>1. pc \in [Apis -> Stages] /\ found \in [Apis -> SUBSET Keys]
    BY DEF Init, Stages
  <2>2. planned \in [Apis -> Quantities \cup {0}] /\ emails \in [Apis -> SUBSET Buyers]
    BY DEF Init
  <2>3. accepts \in [Buyers -> 0..MaxAccepts] /\ faults \in 0..MaxFaults
    BY <1>1, BoundAssumption
  <2>4. stock \in Nat \cup {Missing} /\ flatStock \in Nat \cup {Missing}
    BY <1>1, <1>5, <1>6
  <2>5. users \subseteq Buyers /\ flatUsers \subseteq Buyers
    BY <1>1, <1>6
  <2> QED
    BY <1>1, <2>1, <2>2, <2>3, <2>4, <2>5 DEF TypeOK
<1>8. Ledger
  BY <1>1, <1>2, <1>3, <1>4 DEF Ledger, OneEach
<1>9. OneBoots /\ Looked
  BY <1>2 DEF OneBoots, Looked, Booting, Migrating, Rebuilding
<1>10. Kept
  <2>1. stock # Missing => stock = left /\ users = recorded
    BY <1>6
  <2>2. \A a \in Apis : pc[a] \notin Rebuilding \cup {"renameStock", "renameUsers",
                                                  "flatStock?", "flatUsers?"}
    BY <1>2 DEF Rebuilding
  <2> QED
    BY <1>1, <1>3, <1>5, <2>1, <2>2 DEF Kept, HalfRenamed
<1>11. Unmigrated
  <2>1. stock = Missing /\ flatStock # Missing =>
          users = {} /\ flatStock = left /\ flatUsers = recorded
    BY <1>5, <1>6, MissingAssumption
  <2> QED
    BY <1>1, <1>2, <1>3, <1>5, <2>1 DEF Unmigrated
<1>12. Rebuilt
  <2>1. stock = Missing /\ flatStock = Missing => flatUsers = {}
    BY <1>5, <1>6, MissingAssumption
  <2> QED
    BY <1>2, <1>3, <2>1 DEF Rebuilt
<1> QED
  BY <1>7, <1>8, <1>9, <1>10, <1>11, <1>12 DEF IInv

-----------------------------------------------------------------------------
(* A boot that only reads: it may move on, and remember what it saw.       *)

LEMMA LedgerKept ==
    ASSUME IInv, UNCHANGED <<accepts, limit, mongoVars, backlog>>,
           \A o \in Apis : planned'[o] \in {planned[o], quantity}
    PROVE  Ledger' /\ Accepted' = Accepted
<1>1. Accepted' = Accepted
  BY DEF Accepted
<1> QED
  BY <1>1 DEF IInv, Ledger, OneEach, mongoVars

(* One boot at a time: nobody else's boot moves, and none starts beside it.*)
LEMMA OneBootsKept ==
    ASSUME IInv, NEW a \in Apis, NEW stage, Goto(a, stage),
           \/ pc[a] \in Booting
           \/ stage \notin Booting
           \/ Rolling(a)
    PROVE  OneBoots'
  BY DEF IInv, OneBoots, Goto, Rolling, TypeOK

LEMMA StartInv ==
    ASSUME IInv, NEW a \in Apis, Rolling(a), Start(a) PROVE IInv'
<1> USE DEF Start, Goto, mongoVars, keyVars, flatVars, histVars
<1>1. TypeOK'
  BY DEF IInv, TypeOK, Stages, Booting, Migrating
<1>2. Ledger' /\ Accepted' = Accepted
  BY LedgerKept DEF IInv, TypeOK
<1>3. OneBoots'
  BY OneBootsKept
<1>4. \A o \in Apis : /\ o # a => pc'[o] = pc[o] /\ found'[o] = found[o]
                      /\ emails'[o] = emails[o]
      /\ pc'[a] = "stock?" /\ found'[a] = {} /\ pc[a] = "down"
  BY DEF IInv, TypeOK
<1>5. Looked'
  BY <1>4 DEF IInv, Looked
<1>6. Kept'
  BY <1>2, <1>4 DEF IInv, Kept, HalfRenamed, Rebuilding, Serving
<1>7. Unmigrated' /\ Rebuilt'
  BY <1>2, <1>4 DEF IInv, Unmigrated, Rebuilt
<1> QED
  BY <1>1, <1>2, <1>3, <1>5, <1>6, <1>7 DEF IInv

LEMMA LookInv ==
    ASSUME IInv, NEW a \in Apis, LookStock(a) \/ LookFlatStock(a) \/ LookFlatUsers(a)
    PROVE  IInv'
<1> USE DEF LookStock, LookFlatStock, LookFlatUsers, Look
<1>1. /\ UNCHANGED <<mongoVars, keyVars, flatVars, backlog, planned, emails, histVars, faults>>
      /\ pc[a] \in {"stock?", "flatStock?", "flatUsers?"}
      /\ pc \in [Apis -> Stages] /\ found \in [Apis -> SUBSET Keys]
  BY DEF IInv, TypeOK
<1>2. PICK key \in Keys, stage \in Migrating \cup {"gate"} :
        /\ pc' = [pc EXCEPT ![a] = stage] /\ found' = [found EXCEPT ![a] = Seen(a, key)]
        /\ \/ pc[a] = "stock?" /\ key = "stock" /\ stage = "flatStock?"
           \/ pc[a] = "flatStock?" /\ key = "flatStock" /\ stage = "flatUsers?"
           \/ pc[a] = "flatUsers?" /\ key = "flatUsers" /\ stage = Migration(Seen(a, key))
  BY DEF Goto, Keys, Migrating, Migration
<1>3. /\ \A o \in Apis \ {a} : pc'[o] = pc[o] /\ found'[o] = found[o]
      /\ pc'[a] = stage /\ found'[a] = Seen(a, key)
  BY <1>1, <1>2
<1>4. Seen(a, key) \in SUBSET Keys
  BY <1>1, <1>2 DEF Seen
<1>5. TypeOK'
  BY <1>1, <1>2, <1>4
     DEF IInv, TypeOK, Stages, Booting, mongoVars, keyVars, flatVars, histVars
<1>6. Ledger' /\ Accepted' = Accepted
  BY <1>1, LedgerKept DEF histVars
<1>7. OneBoots'
  BY <1>1, <1>2, OneBootsKept DEF Goto, Booting, Migrating
<1>8. Looked'
  BY <1>2, <1>3 DEF IInv, Looked, Seen, Migration
<1>9. Kept'
  BY <1>1, <1>2, <1>3, <1>6
     DEF IInv, Kept, HalfRenamed, Seen, Exists, Migration, Rebuilding, Serving, keyVars, flatVars, histVars
<1>10. Unmigrated'
  BY <1>1, <1>2, <1>3, <1>6
     DEF IInv, Unmigrated, Looked, Seen, Exists, Migration, keyVars, flatVars, histVars, mongoVars
<1>11. Rebuilt'
  BY <1>1, <1>2, <1>3, <1>6
     DEF IInv, Rebuilt, Migrating, keyVars, flatVars, histVars, mongoVars
<1> QED
  BY <1>5, <1>6, <1>7, <1>8, <1>9, <1>10, <1>11 DEF IInv

LEMMA GateInv ==
    ASSUME IInv, NEW a \in Apis, Gate(a) PROVE IInv'
<1> USE DEF Gate, Goto, mongoVars, keyVars, flatVars, histVars
<1>1. /\ \A o \in Apis \ {a} : pc'[o] = pc[o]
      /\ pc[a] = "gate" /\ pc'[a] = IF stock = Missing THEN "list" ELSE "serving"
  BY DEF IInv, TypeOK, Cold
<1>2. TypeOK'
  BY DEF IInv, TypeOK, Stages, Booting, Rebuilding
<1>3. Ledger' /\ Accepted' = Accepted
  BY LedgerKept
<1>4. OneBoots'
  BY OneBootsKept DEF Booting
<1>5. Looked'
  BY <1>1 DEF IInv, Looked
<1>6. Kept'
  <2>1. stock # Missing => \A o \in Apis : ~HalfRenamed(o)
    BY <1>1 DEF IInv, OneBoots, HalfRenamed, Booting, Migrating
  <2>2. stock # Missing => \A o \in Apis : ~HalfRenamed(o)'
    BY <1>1, <2>1 DEF HalfRenamed
  <2> QED
    BY <1>1, <1>3, <2>1, <2>2 DEF IInv, Kept, Rebuilding
<1>7. Unmigrated'
  BY <1>1, <1>3 DEF IInv, Unmigrated
<1>8. Rebuilt'
  BY <1>1, <1>3 DEF IInv, Rebuilt
<1> QED
  BY <1>2, <1>3, <1>4, <1>5, <1>6, <1>7, <1>8 DEF IInv

LEMMA ListInv ==
    ASSUME IInv, NEW a \in Apis, ListOrders(a) PROVE IInv'
<1> USE DEF ListOrders, Goto, After, mongoVars, keyVars, flatVars, histVars
<1>1. /\ \A o \in Apis \ {a} : pc'[o] = pc[o] /\ emails'[o] = emails[o]
      /\ pc[a] = "list" /\ pc'[a] = "clear" /\ emails'[a] = recorded
  BY DEF IInv, TypeOK
<1>2. TypeOK'
  BY DEF IInv, TypeOK, Stages, Booting, Rebuilding
<1>3. Ledger' /\ Accepted' = Accepted
  BY LedgerKept
<1>4. OneBoots'
  BY OneBootsKept DEF Booting, Rebuilding
<1>5. Looked'
  BY <1>1 DEF IInv, Looked
<1>6. Kept'
  BY <1>1 DEF IInv, Kept, Rebuilding
<1>7. Unmigrated'
  BY <1>1 DEF IInv, Unmigrated
<1>8. Rebuilt'
  BY <1>1, <1>3 DEF IInv, Rebuilt
<1> QED
  BY <1>2, <1>3, <1>4, <1>5, <1>6, <1>7, <1>8 DEF IInv

(* A crash leaves the keys as they are.                                    *)
LEMMA CrashInv ==
    ASSUME IInv, NEW a \in Apis, ~MidRename(a), Crash(a) PROVE IInv'
<1> USE DEF Crash, Goto, mongoVars, keyVars, flatVars
<1>1. /\ \A o \in Apis \ {a} : pc'[o] = pc[o]
      /\ pc'[a] = "down"
  BY DEF IInv, TypeOK
<1>2. TypeOK'
  BY BoundAssumption DEF IInv, TypeOK, Stages, FaultBudget
<1>3. Ledger' /\ Accepted' = Accepted
  BY LedgerKept
<1>4. OneBoots'
  BY OneBootsKept DEF Booting, Migrating, Rebuilding
<1>5. Looked'
  BY <1>1 DEF IInv, Looked
<1>6. Kept'
  <2>1. ~HalfRenamed(a)
    BY DEF IInv, Kept, HalfRenamed, MidRename
  <2>2. \A o \in Apis : HalfRenamed(o)' <=> HalfRenamed(o)
    BY <1>1, <2>1 DEF HalfRenamed
  <2>3. Serving' \subseteq Serving
    BY <1>1 DEF Serving
  <2> QED
    BY <1>1, <1>3, <2>2, <2>3 DEF IInv, Kept, Rebuilding
<1>7. Unmigrated'
  BY <1>1, <1>3 DEF IInv, Unmigrated
<1>8. Rebuilt'
  BY <1>1, <1>3 DEF IInv, Rebuilt
<1> QED
  BY <1>2, <1>3, <1>4, <1>5, <1>6, <1>7, <1>8 DEF IInv

-----------------------------------------------------------------------------
(* A boot that writes the keys.                                            *)

LEMMA AloneBoots ==
    ASSUME IInv, NEW a \in Apis, pc[a] \in Booting
    PROVE  \A o \in Apis \ {a} : pc[o] \in {"down", "serving"}
<1>1. \A o \in Apis : pc[o] \in Booting \cup {"down", "serving"}
  BY DEF IInv, TypeOK, Stages
<1> QED
  BY <1>1 DEF IInv, OneBoots

(* The stock is there while the flat keys are deleted.                     *)
LEMMA DelInv ==
    ASSUME IInv, NEW a \in Apis, DelFlatStock(a) \/ DelFlatUsers(a) PROVE IInv'
<1> USE DEF DelFlatStock, DelFlatUsers, Goto, mongoVars, keyVars, histVars
<1>1. /\ pc[a] \in {"delFlatStock", "delFlatUsers"}
      /\ pc'[a] \in {"delFlatUsers", "gate"}
      /\ \A o \in Apis \ {a} : pc'[o] = pc[o]
      /\ UNCHANGED <<stock, users, found, emails, recorded>>
  BY DEF IInv, TypeOK
<1>2. \A o \in Apis \ {a} : pc[o] \in {"down", "serving"}
  BY <1>1, AloneBoots DEF Booting, Migrating
<1>3. TypeOK'
  BY DEF IInv, TypeOK, Stages, Booting, Migrating
<1>4. Ledger' /\ Accepted' = Accepted
  BY LedgerKept
<1>5. OneBoots'
  BY OneBootsKept DEF Booting, Migrating
<1>6. Looked'
  BY <1>1 DEF IInv, Looked
<1>7. Kept'
  <2>1. \A o \in Apis : ~HalfRenamed(o) /\ ~HalfRenamed(o)'
    BY <1>1, <1>2 DEF HalfRenamed
  <2> QED
    BY <1>1, <1>2, <1>4, <2>1 DEF IInv, Kept, Rebuilding
<1>8. stock # Missing \/ flatStock = Missing
  BY <1>1 DEF IInv, Unmigrated
<1>9. Unmigrated'
  BY <1>1, <1>8 DEF Unmigrated
<1>10. Rebuilt'
  BY <1>1, <1>2, <1>4, <1>8 DEF IInv, Rebuilt
<1> QED
  BY <1>3, <1>4, <1>5, <1>6, <1>7, <1>9, <1>10 DEF IInv

LEMMA RenameStockInv ==
    ASSUME IInv, NEW a \in Apis, RenameStock(a) PROVE IInv'
<1> USE DEF RenameStock, Goto, mongoVars, histVars
<1>1. /\ pc[a] = "renameStock" /\ stock = Missing
      /\ \A o \in Apis \ {a} : pc'[o] = pc[o]
      /\ UNCHANGED <<users, flatUsers, found, emails, recorded, limit>>
  BY DEF IInv, TypeOK, Kept
<1>2. \A o \in Apis \ {a} : pc[o] \in {"down", "serving"}
  BY <1>1, AloneBoots DEF Booting, Migrating
<1>3. TypeOK'
  BY DEF IInv, TypeOK, Stages, Booting, Migrating
<1>4. Ledger' /\ Accepted' = Accepted
  BY LedgerKept
<1>5. OneBoots'
  <2>1. PICK stage : Goto(a, stage)
    OBVIOUS
  <2> QED
    BY <1>1, <2>1, OneBootsKept DEF Booting, Migrating
<1>6. CASE flatStock = Missing
  <2>1. pc'[a] = "down" /\ stock' = Missing /\ flatStock' = Missing
    BY <1>1, <1>6 DEF IInv, TypeOK
  <2>2. Looked' /\ Kept' /\ Unmigrated'
    BY <1>1, <2>1 DEF IInv, Looked, Kept, Unmigrated
  <2>3. Rebuilt'
    BY <1>1, <1>4, <1>6, <2>1 DEF IInv, Rebuilt
  <2> QED
    BY <1>3, <1>4, <1>5, <2>2, <2>3 DEF IInv
<1>7. CASE flatStock # Missing
  <2>1. /\ pc'[a] = IF "flatUsers" \in found[a] THEN "renameUsers" ELSE "gate"
        /\ stock' = flatStock /\ stock' # Missing /\ flatStock' = Missing
    BY <1>1, <1>7 DEF IInv, TypeOK
  <2>2. /\ users = {} /\ flatUsers = Accepted /\ stock' + Cardinality(Accepted) <= limit
        /\ "flatUsers" \in found[a] <=> flatUsers # {}
        /\ "flatStock" \in found[a]
        /\ \A o \in Apis : pc[o] # "serving"
    BY <1>1, <1>7, <2>1 DEF IInv, Unmigrated, Looked
  <2>3. Looked' /\ Unmigrated' /\ Rebuilt'
    BY <1>1, <2>1 DEF IInv, Looked, Unmigrated, Rebuilt
  <2>4. Serving' = {}
    BY <1>1, <2>1, <2>2 DEF Serving
  <2>5. Kept'
    BY <1>1, <1>2, <1>4, <2>1, <2>2, <2>4 DEF Kept, HalfRenamed, Rebuilding
  <2> QED
    BY <1>3, <1>4, <1>5, <2>3, <2>5 DEF IInv
<1> QED
  BY <1>6, <1>7

LEMMA RenameUsersInv ==
    ASSUME IInv, NEW a \in Apis, RenameUsers(a) PROVE IInv'
<1> USE DEF RenameUsers, Goto, mongoVars, histVars
<1>1. /\ pc[a] = "renameUsers" /\ pc'[a] \in {"down", "gate"}
      /\ \A o \in Apis \ {a} : pc'[o] = pc[o]
      /\ UNCHANGED <<stock, flatStock, found, emails, recorded, limit>>
      /\ stock # Missing \/ flatStock = Missing
  BY DEF IInv, TypeOK, Unmigrated
<1>2. \A o \in Apis \ {a} : pc[o] \in {"down", "serving"}
  BY <1>1, AloneBoots DEF Booting, Migrating
<1>3. TypeOK'
  BY DEF IInv, TypeOK, Stages, Booting, Migrating
<1>4. Ledger' /\ Accepted' = Accepted
  BY LedgerKept
<1>5. OneBoots'
  <2>1. PICK stage : Goto(a, stage)
    OBVIOUS
  <2> QED
    BY <1>1, <2>1, OneBootsKept DEF Booting, Migrating
<1>6. Looked' /\ Unmigrated'
  BY <1>1 DEF IInv, Looked, Unmigrated
<1>7. Kept'
  <2>1. stock # Missing => flatUsers = Accepted /\ flatUsers # {}
    BY <1>1 DEF IInv, Kept, HalfRenamed
  <2>2. stock # Missing => users' = Accepted
    BY <2>1
  <2>3. \A o \in Apis : ~HalfRenamed(o)'
    BY <1>1, <1>2 DEF HalfRenamed
  <2> QED
    BY <1>1, <1>2, <1>4, <2>2, <2>3 DEF IInv, Kept, Rebuilding
<1>8. Rebuilt'
  BY <1>1, <1>2, <1>4 DEF IInv, Rebuilt
<1> QED
  BY <1>3, <1>4, <1>5, <1>6, <1>7, <1>8 DEF IInv

(* The rebuild: there are no keys, nobody else touches them, and MongoDB   *)
(* has every order.                                                        *)
LEMMA RebuildInv ==
    ASSUME IInv, NEW a \in Apis, ClearUsers(a) \/ FillUsers(a) \/ SetStock(a) PROVE IInv'
<1> USE DEF ClearUsers, FillUsers, SetStock, Goto, After, mongoVars, flatVars, histVars
<1>1. /\ pc[a] \in {"clear", "fill", "set"} /\ pc'[a] \in {"fill", "set", "serving"}
      /\ \A o \in Apis \ {a} : pc'[o] = pc[o]
      /\ UNCHANGED <<flatStock, flatUsers, found, emails, recorded, limit>>
  BY DEF IInv, TypeOK
<1>2. stock = Missing /\ flatStock = Missing
  BY <1>1 DEF IInv, Kept, Unmigrated, Rebuilding
<1>3. \A o \in Apis \ {a} : pc[o] \in {"down", "serving"}
  BY <1>1, AloneBoots DEF Booting, Rebuilding
<1>4. emails[a] = Accepted /\ flatUsers = {} /\ recorded = Accepted
  BY <1>1, <1>2 DEF IInv, Rebuilt
<1>5. Remaining(a) \in Nat /\ Remaining(a) + Cardinality(Accepted) <= limit
  BY <1>4, RemainingFits DEF IInv, Ledger
<1>6. TypeOK'
  BY <1>5 DEF IInv, TypeOK, Stages, Booting, Rebuilding, Members
<1>7. Ledger' /\ Accepted' = Accepted
  BY LedgerKept
<1>8. OneBoots'
  <2>1. PICK stage : Goto(a, stage)
    OBVIOUS
  <2> QED
    BY <1>1, <2>1, OneBootsKept DEF Booting, Rebuilding
<1>9. Looked' /\ Unmigrated'
  BY <1>1, <1>2 DEF IInv, Looked, Unmigrated
<1>10. Kept'
  <2>1. CASE SetStock(a)
    <3>1. stock' = Remaining(a) /\ users' = Accepted /\ pc'[a] = "serving"
      BY <1>2, <2>1 DEF IInv, TypeOK, Rebuilt
    <3> QED
      BY <1>1, <1>3, <1>5, <1>7, <3>1 DEF Kept, HalfRenamed, Rebuilding
  <2>2. CASE ClearUsers(a) \/ FillUsers(a)
    BY <1>2, <2>2 DEF Kept
  <2> QED
    BY <2>1, <2>2
<1>11. Rebuilt'
  <2>1. CASE SetStock(a)
    BY <1>5, <2>1, MissingAssumption DEF Rebuilt
  <2>2. CASE ClearUsers(a)
    <3>1. pc'[a] = "fill" /\ users' = {}
      BY <2>2 DEF IInv, TypeOK
    <3> QED
      BY <1>1, <1>3, <1>4, <1>7, <3>1 DEF Rebuilt
  <2>3. CASE FillUsers(a)
    <3>1. pc'[a] = "set" /\ users' = Accepted
      BY <1>2, <1>4, <2>3 DEF IInv, TypeOK, Rebuilt, Members
    <3> QED
      BY <1>1, <1>3, <1>4, <1>7, <3>1 DEF Rebuilt
  <2> QED
    BY <2>1, <2>2, <2>3
<1> QED
  BY <1>6, <1>7, <1>8, <1>9, <1>10, <1>11 DEF IInv

-----------------------------------------------------------------------------
(* Traffic.                                                                *)

(* Whoever serves finds the set complete: a buyer it does not hold was     *)
(* never accepted.                                                         *)
LEMMA AcceptIsNew ==
    ASSUME IInv, NEW b \in Buyers, Accept(b)
    PROVE  /\ stock # Missing /\ users = Accepted /\ b \notin Accepted
           /\ \A a \in Apis : ~HalfRenamed(a)
           /\ accepts' = [accepts EXCEPT ![b] = 1] /\ Accepted' = Accepted \cup {b}
<1>1. stock # Missing /\ Serving # {} /\ b \notin users
  BY DEF Accept
<1>2. users = Accepted /\ \A a \in Apis : ~HalfRenamed(a)
  BY <1>1 DEF IInv, Kept
<1>3. accepts \in [Buyers -> 0..MaxAccepts] /\ accepts' = [accepts EXCEPT ![b] = accepts[b] + 1]
  BY DEF IInv, TypeOK, Accept
<1>4. accepts[b] = 0
  BY <1>1, <1>2, <1>3, BoundAssumption DEF Accepted
<1>5. accepts' = [accepts EXCEPT ![b] = 1]
  BY <1>3, <1>4
<1>6. Accepted' = Accepted \cup {b}
  BY <1>3, <1>5 DEF Accepted
<1> QED
  BY <1>1, <1>2, <1>5, <1>6

LEMMA AcceptInv ==
    ASSUME IInv, NEW b \in Buyers, Accept(b) PROVE IInv'
<1> USE DEF Accept, mongoVars, flatVars, bootVars
<1>1. /\ stock # Missing /\ users = Accepted /\ b \notin Accepted
      /\ \A a \in Apis : ~HalfRenamed(a)
      /\ accepts' = [accepts EXCEPT ![b] = 1] /\ Accepted' = Accepted \cup {b}
  BY AcceptIsNew
<1>2. /\ users' = users \cup {b} /\ stock' = stock - 1 /\ stock > 0 /\ stock \in Nat
      /\ limit \in Nat /\ limit' = limit /\ backlog' \subseteq backlog \cup {b}
      /\ UNCHANGED <<quantity, recorded, planned, pc, found, emails, flatStock, flatUsers, faults>>
  BY Numbers DEF IInv, TypeOK
<1>3. Accepted \subseteq Buyers
  BY DEF Accepted
<1>4. /\ Cardinality(Accepted') = Cardinality(Accepted) + 1 /\ Cardinality(Accepted) \in Nat
      /\ stock + Cardinality(Accepted) <= limit
  BY <1>1, <1>3, FewBuyers DEF IInv, Kept
<1>5. stock' \in Nat /\ stock' # Missing /\ stock' + Cardinality(Accepted') <= limit
  BY <1>2, <1>4, MissingAssumption
<1>6. TypeOK'
  <2>1. accepts' \in [Buyers -> 0..MaxAccepts]
    BY <1>1, BoundAssumption DEF IInv, TypeOK
  <2>2. users' \subseteq Buyers /\ backlog' \subseteq Buyers
    BY <1>2 DEF IInv, TypeOK
  <2> QED
    BY <1>2, <1>5, <2>1, <2>2 DEF IInv, TypeOK
<1>7. Ledger'
  <2>1. OneEach'
    BY <1>1 DEF IInv, TypeOK, Ledger, OneEach
  <2>2. Cardinality(Accepted') <= limit
    BY <1>2, <1>4
  <2> QED
    BY <1>1, <1>2, <2>1, <2>2 DEF IInv, Ledger
<1>8. OneBoots' /\ Looked'
  BY <1>2 DEF IInv, OneBoots, Looked
<1>9. Kept'
  <2>1. \A a \in Apis : ~HalfRenamed(a)'
    BY <1>1, <1>2 DEF HalfRenamed
  <2> QED
    BY <1>1, <1>2, <1>5, <2>1 DEF IInv, Kept
<1>10. Unmigrated' /\ Rebuilt'
  BY <1>5 DEF Unmigrated, Rebuilt
<1> QED
  BY <1>6, <1>7, <1>8, <1>9, <1>10 DEF IInv

LEMMA RecordInv ==
    ASSUME IInv, NEW b \in Buyers, Record(b) PROVE IInv'
<1> USE DEF Record, keyVars, flatVars, bootVars, histVars
<1>1. /\ Accepted' = Accepted /\ b \in Accepted
      /\ recorded' = recorded \cup {b} /\ backlog' \subseteq backlog
  BY DEF IInv, Ledger, Accepted
<1>2. TypeOK'
  BY <1>1 DEF IInv, TypeOK
<1>3. Ledger'
  BY <1>1 DEF IInv, Ledger, OneEach
<1>4. OneBoots' /\ Looked'
  BY DEF IInv, OneBoots, Looked
<1>5. Kept'
  BY <1>1 DEF IInv, Kept, HalfRenamed, Serving
<1>6. Unmigrated' /\ Rebuilt'
  BY <1>1 DEF IInv, Unmigrated, Rebuilt
<1> QED
  BY <1>2, <1>3, <1>4, <1>5, <1>6 DEF IInv

(* A seed only raises what the sale was ever to sell.                      *)
LEMMA ReseedInv ==
    ASSUME IInv, NEW q \in Quantities, Reseed(q) PROVE IInv'
<1> USE DEF Reseed, keyVars, flatVars, bootVars
<1>1. q \in Nat /\ limit \in Nat /\ limit \in Quantities
  BY Numbers DEF IInv, TypeOK
<1>2. limit' \in {limit, q} /\ limit' >= limit /\ limit' >= q
  BY <1>1, Max2
<1>3. Accepted' = Accepted /\ Cardinality(Accepted) \in Nat
  BY FewBuyers DEF Accepted
<1>4. TypeOK'
  BY <1>1, <1>2 DEF IInv, TypeOK
<1>5. Ledger'
  <2>1. \A a \in Apis : planned[a] \in Nat /\ planned[a] <= limit
    BY Numbers DEF IInv, Ledger
  <2>2. \A a \in Apis : planned'[a] <= limit'
    BY <1>1, <1>2, <2>1
  <2>3. Cardinality(Accepted) <= limit' /\ quantity' <= limit'
    BY <1>1, <1>2, <1>3 DEF IInv, Ledger
  <2> QED
    BY <1>3, <2>2, <2>3 DEF IInv, Ledger, OneEach
<1>6. OneBoots' /\ Looked'
  BY DEF IInv, OneBoots, Looked
<1>7. Kept'
  <2>1. stock # Missing => stock \in Nat /\ stock + Cardinality(Accepted) <= limit'
    BY <1>1, <1>2, <1>3 DEF IInv, TypeOK, Kept
  <2> QED
    BY <1>3, <2>1 DEF IInv, Kept, HalfRenamed, Serving
<1>8. Unmigrated'
  <2>1. stock = Missing /\ flatStock # Missing =>
          flatStock \in Nat /\ flatStock + Cardinality(Accepted) <= limit'
    BY <1>1, <1>2, <1>3 DEF IInv, TypeOK, Unmigrated
  <2> QED
    BY <1>3, <2>1 DEF IInv, Unmigrated
<1>9. Rebuilt'
  BY <1>3 DEF IInv, Rebuilt
<1> QED
  BY <1>4, <1>5, <1>6, <1>7, <1>8, <1>9 DEF IInv

-----------------------------------------------------------------------------
(* The keys are lost, once every order is recorded.                        *)

LEMMA DrainedIsRecorded == ASSUME IInv, Drained PROVE recorded = Accepted
  BY DEF IInv, Ledger, Drained

LEMMA LoseRedisInv ==
    ASSUME IInv, Drained, LoseRedis PROVE IInv'
<1> USE DEF LoseRedis, mongoVars, histVars
<1>1. Accepted' = Accepted /\ recorded = Accepted
  BY DrainedIsRecorded DEF Accepted
<1>2. \A a \in Apis : /\ pc'[a] = IF pc[a] = "set" THEN "down" ELSE pc[a]
                      /\ pc[a] \in Stages
  BY DEF IInv, TypeOK
<1>3. TypeOK'
  <2>1. pc' \in [Apis -> Stages]
    BY <1>2 DEF Stages
  <2> QED
    BY <2>1, BoundAssumption DEF IInv, TypeOK, FaultBudget
<1>4. Ledger'
  BY <1>1 DEF IInv, Ledger, OneEach
<1>5. OneBoots'
  BY <1>2 DEF IInv, OneBoots, Booting, Migrating, Rebuilding
<1>6. Looked'
  BY <1>2 DEF IInv, Looked
<1>7. Kept' /\ Unmigrated'
  BY DEF Kept, Unmigrated
<1>8. Rebuilt'
  <2>1. ASSUME NEW a \in Apis, pc[a] \in {"clear", "fill", "set"}
        PROVE  emails[a] = Accepted
    BY <2>1 DEF IInv, Kept, Unmigrated, Rebuilt, Rebuilding
  <2> QED
    BY <1>1, <1>2, <2>1 DEF Rebuilt
<1> QED
  BY <1>3, <1>4, <1>5, <1>6, <1>7, <1>8 DEF IInv

LEMMA DeleteSentinelInv ==
    ASSUME IInv, Drained, FlatGone, DeleteSentinel PROVE IInv'
<1> USE DEF DeleteSentinel, mongoVars, flatVars, bootVars, histVars
<1>1. Accepted' = Accepted /\ recorded = Accepted
  BY DrainedIsRecorded DEF Accepted
<1>2. TypeOK'
  BY BoundAssumption DEF IInv, TypeOK, FaultBudget
<1>3. Ledger'
  BY <1>1 DEF IInv, Ledger, OneEach
<1>4. OneBoots' /\ Looked'
  BY DEF IInv, OneBoots, Looked
<1>5. Kept' /\ Unmigrated'
  BY DEF Kept, Unmigrated, FlatGone
<1>6. Rebuilt'
  <2>1. \A a \in Apis : pc[a] \notin Rebuilding
    BY DEF IInv, Kept
  <2> QED
    BY <1>1, <2>1 DEF Rebuilt, Rebuilding, FlatGone
<1> QED
  BY <1>2, <1>3, <1>4, <1>5, <1>6 DEF IInv

-----------------------------------------------------------------------------
(* The types hold whatever was cut short.                                  *)
LEMMA TypeStep == TypeOK /\ [Next]_vars => TypeOK'
<1> SUFFICES ASSUME TypeOK, [Next]_vars PROVE TypeOK'
  OBVIOUS
<1> USE DEF mongoVars, keyVars, flatVars, bootVars, histVars
<1>1. ASSUME NEW b \in Buyers, Accept(b) PROVE TypeOK'
  <2>1. stock' \in Nat
    BY <1>1, MissingAssumption DEF Accept, TypeOK
  <2>2. accepts' \in [Buyers -> 0..MaxAccepts]
    BY <1>1, BoundAssumption DEF Accept, TypeOK
  <2>3. users' \subseteq Buyers /\ backlog' \subseteq Buyers
    BY <1>1 DEF Accept, TypeOK
  <2> QED
    BY <1>1, <2>1, <2>2, <2>3 DEF Accept, TypeOK
<1>2. ASSUME NEW b \in Buyers, Record(b) PROVE TypeOK'
  BY <1>2 DEF Record, TypeOK
<1>3. ASSUME NEW q \in Quantities, Reseed(q) PROVE TypeOK'
  <2>1. q \in Nat /\ limit \in Nat /\ limit \in Quantities
    BY Numbers DEF TypeOK
  <2>2. limit' \in Quantities
    BY <1>3, <2>1, Max2 DEF Reseed
  <2> QED
    BY <1>3, <2>2 DEF Reseed, TypeOK
<1>4. ASSUME NEW a \in Apis, Start(a) PROVE TypeOK'
  BY <1>4 DEF Start, Goto, TypeOK, Stages, Booting, Migrating
<1>5. ASSUME NEW a \in Apis, BootStep(a) PROVE TypeOK'
  <2>1. ASSUME NEW stage, NEW next \in Stages, NEW key \in Keys, Look(a, stage, key, next)
        PROVE  TypeOK'
    <3>1. Seen(a, key) \in SUBSET Keys
      BY DEF TypeOK, Seen
    <3> QED
      BY <2>1, <3>1 DEF Look, Goto, TypeOK
  <2>2. CASE LookStock(a) \/ LookFlatStock(a) \/ LookFlatUsers(a)
    <3>1. Migration(Seen(a, "flatUsers")) \in Stages
      BY DEF Migration, Stages, Booting, Migrating
    <3> QED
      BY <2>1, <2>2, <3>1
         DEF LookStock, LookFlatStock, LookFlatUsers, Keys, Stages, Booting, Migrating
  <2>3. CASE DelFlatStock(a) \/ DelFlatUsers(a)
    BY <2>3 DEF DelFlatStock, DelFlatUsers, Goto, TypeOK, Stages, Booting, Migrating
  <2>4. CASE RenameStock(a) \/ RenameUsers(a)
    BY <2>4 DEF RenameStock, RenameUsers, Goto, TypeOK, Stages, Booting, Migrating
  <2>5. CASE Gate(a) \/ ListOrders(a)
    BY <2>5 DEF Gate, ListOrders, Goto, After, TypeOK, Stages, Booting, Rebuilding
  <2>6. CASE ClearUsers(a) \/ FillUsers(a)
    BY <2>6 DEF ClearUsers, FillUsers, Members, Goto, After, TypeOK, Stages, Booting, Rebuilding
  <2>7. CASE SetStock(a)
    <3>1. planned[a] \in Nat /\ Cardinality(emails[a]) \in Nat
      BY Numbers, FewBuyers
    <3>2. Remaining(a) \in Nat
      <4> DEFINE n == planned[a] - Cardinality(emails[a])
      <4>1. n \in Int
        BY <3>1
      <4> HIDE DEF n
      <4>2. Max({0, n}) \in {0, n} /\ Max({0, n}) >= 0
        BY <4>1, Max2
      <4>3. Max({0, n}) \in Nat
        BY <4>1, <4>2
      <4> QED
        BY <4>3 DEF Remaining, n
    <3> QED
      BY <2>7, <3>2 DEF SetStock, Goto, After, TypeOK, Stages
  <2> QED
    BY <1>5, <2>2, <2>3, <2>4, <2>5, <2>6, <2>7 DEF BootStep
<1>6. ASSUME NEW a \in Apis, Crash(a) PROVE TypeOK'
  BY <1>6, BoundAssumption DEF Crash, Goto, FaultBudget, TypeOK, Stages
<1>7. CASE DeleteSentinel
  BY <1>7, BoundAssumption DEF DeleteSentinel, FaultBudget, TypeOK
<1>8. CASE LoseRedis
  <2>1. pc' \in [Apis -> Stages]
    BY <1>8 DEF LoseRedis, TypeOK, Stages
  <2> QED
    BY <1>8, <2>1, BoundAssumption DEF LoseRedis, FaultBudget, TypeOK
<1>9. CASE UNCHANGED vars
  BY <1>9 DEF vars, TypeOK
<1> QED
  BY <1>1, <1>2, <1>3, <1>4, <1>5, <1>6, <1>7, <1>8, <1>9 DEF Next, Traffic

LEMMA StepInv ==
    ASSUME IInv, [Next]_vars, ~torn'
    PROVE  IInv'
<1>1. CASE Traffic
  BY <1>1, AcceptInv, RecordInv, ReseedInv DEF Traffic
<1>2. ASSUME NEW a \in Apis, BootStep(a) PROVE IInv'
  BY <1>2, LookInv, DelInv, RenameStockInv, RenameUsersInv, GateInv, ListInv, RebuildInv
     DEF BootStep
<1>3. ASSUME NEW a \in Apis, Crash(a) PROVE IInv'
  <2>1. ~MidRename(a)
    BY <1>3 DEF Crash
  <2> QED
    BY <1>3, <2>1, CrashInv
<1>4. CASE UNCHANGED vars
  BY <1>4 DEF IInv, TypeOK, Ledger, OneEach, OneBoots, Kept, HalfRenamed, Unmigrated,
              Rebuilt, Looked, Serving, Accepted,
              vars, mongoVars, keyVars, flatVars, bootVars, histVars
<1> QED
  BY <1>1, <1>2, <1>3, <1>4, StartInv, LoseRedisInv, DeleteSentinelInv DEF Next

(* The crash between the two RENAMEs.                                      *)
LEMMA Cutting ==
    ASSUME IInv, NEW a \in Apis, Crash(a), MidRename(a) PROVE Cut'
<1> USE DEF Crash, Goto, mongoVars, keyVars, flatVars
<1>1. /\ \A o \in Apis \ {a} : pc'[o] = pc[o]
      /\ pc'[a] = "down" /\ HalfRenamed(a) /\ stock # Missing
  BY DEF IInv, TypeOK, MidRename, HalfRenamed
<1>2. \A o \in Apis \ {a} : pc[o] \in {"down", "serving"}
  BY AloneBoots DEF MidRename, Booting, Migrating
<1>3. OneBoots'
  BY OneBootsKept DEF Booting, Migrating, Rebuilding
<1>4. flatStock = Missing
  BY <1>1 DEF IInv, Kept
<1> QED
  BY <1>1, <1>2, <1>3, <1>4 DEF Cut, Rebuilding

(* A boot that follows the cut one.                                        *)
LEMMA CutBoot ==
    ASSUME TypeOK, Cut, NEW a \in Apis, BootStep(a) PROVE Cut'
<1> USE DEF Goto, mongoVars, keyVars, flatVars, bootVars, histVars
<1>1. pc[a] \in Booting
  BY DEF BootStep, LookStock, LookFlatStock, LookFlatUsers, Look, DelFlatStock, DelFlatUsers,
         RenameStock, RenameUsers, Gate, ListOrders, ClearUsers, FillUsers, SetStock,
         Booting, Migrating, Rebuilding
<1>2. \A o \in Apis \ {a} : pc[o] \in {"down", "serving"}
  BY <1>1 DEF Cut, OneBoots, TypeOK, Stages
<1>3. \A o \in Apis \ {a} : pc'[o] = pc[o]
  BY DEF TypeOK, BootStep, LookStock, LookFlatStock, LookFlatUsers, Look, DelFlatStock,
         DelFlatUsers, RenameStock, RenameUsers, Gate, ListOrders, ClearUsers, FillUsers, SetStock
<1>4. OneBoots'
  BY <1>2, <1>3 DEF OneBoots, Booting, Migrating, Rebuilding
<1>5. ASSUME UNCHANGED <<keyVars, flatVars>>,
             stock # Missing =>
                /\ pc'[a] \notin Rebuilding \cup {"renameStock", "renameUsers"}
                /\ pc'[a] \in {"flatStock?", "flatUsers?"} => "stock" \in found'[a]
      PROVE  Cut'
  BY <1>2, <1>3, <1>4, <1>5 DEF Cut, Rebuilding
<1>6. CASE LookStock(a)
  BY <1>5, <1>6 DEF LookStock, Look, Seen, Exists, TypeOK, Rebuilding, Keys
<1>7. CASE LookFlatStock(a)
  BY <1>5, <1>7 DEF LookFlatStock, Look, Seen, TypeOK, Rebuilding, Keys, Cut
<1>8. CASE LookFlatUsers(a)
  BY <1>5, <1>8 DEF LookFlatUsers, Look, Seen, Migration, TypeOK, Rebuilding, Keys, Cut
<1>9. CASE DelFlatStock(a) \/ DelFlatUsers(a)
  <2>1. pc'[a] \in {"delFlatUsers", "gate"} /\ stock' = stock /\ flatStock' = Missing
        /\ flatUsers' \in {flatUsers, {}}
    BY <1>9 DEF DelFlatStock, DelFlatUsers, TypeOK, Cut
  <2> QED
    BY <1>2, <1>3, <1>4, <2>1 DEF Cut, Rebuilding
<1>10. CASE RenameStock(a) \/ RenameUsers(a)
  <2>1. stock = Missing /\ flatStock = Missing /\ flatUsers = {}
    BY <1>10 DEF RenameStock, RenameUsers, Cut
  <2> QED
    BY <1>4, <1>10, <2>1 DEF RenameStock, RenameUsers, Cut
<1>11. CASE Gate(a)
  BY <1>5, <1>11 DEF Gate, Cold, TypeOK, Rebuilding
<1>12. CASE ListOrders(a)
  BY <1>5, <1>12 DEF ListOrders, Cut, Rebuilding
<1>13. CASE ClearUsers(a) \/ FillUsers(a) \/ SetStock(a)
  <2>1. stock = Missing /\ flatUsers = {} /\ UNCHANGED flatVars
    BY <1>13 DEF ClearUsers, FillUsers, SetStock, Cut, Rebuilding
  <2>2. SetStock(a) => pc'[a] = "serving"
    BY DEF SetStock, After, TypeOK
  <2>3. ~SetStock(a) => stock' = stock
    BY <1>13 DEF ClearUsers, FillUsers
  <2> QED
    BY <1>2, <1>3, <1>4, <2>1, <2>2, <2>3 DEF Cut, Rebuilding
<1> QED
  BY <1>6, <1>7, <1>8, <1>9, <1>10, <1>11, <1>12, <1>13 DEF BootStep

LEMMA CutStep ==
    ASSUME TypeOK, Cut, [Next]_vars PROVE Cut'
<1> USE DEF Goto, mongoVars, keyVars, flatVars, bootVars, histVars
<1>1. ASSUME NEW b \in Buyers, Accept(b) PROVE Cut'
  BY <1>1, MissingAssumption DEF Accept, Cut, OneBoots, TypeOK
<1>2. ASSUME NEW b \in Buyers, Record(b) PROVE Cut'
  BY <1>2 DEF Record, Cut, OneBoots
<1>3. ASSUME NEW q \in Quantities, Reseed(q) PROVE Cut'
  BY <1>3 DEF Reseed, Cut, OneBoots
<1>4. ASSUME NEW a \in Apis, Rolling(a), Start(a) PROVE Cut'
  <2>1. /\ \A o \in Apis \ {a} : pc'[o] = pc[o] /\ found'[o] = found[o]
        /\ pc'[a] = "stock?"
    BY <1>4 DEF Start, TypeOK
  <2>2. OneBoots'
    BY <1>4, <2>1 DEF Rolling, OneBoots
  <2> QED
    BY <1>4, <2>1, <2>2 DEF Start, Cut, Rebuilding
<1>5. ASSUME NEW a \in Apis, Crash(a) PROVE Cut'
  <2>1. /\ \A o \in Apis \ {a} : pc'[o] = pc[o]
        /\ pc'[a] = "down"
    BY <1>5 DEF Crash, TypeOK
  <2>2. OneBoots'
    BY <2>1 DEF Cut, OneBoots, Booting, Migrating, Rebuilding
  <2> QED
    BY <1>5, <2>1, <2>2 DEF Crash, Cut, Rebuilding
<1>6. CASE LoseRedis
  <2>1. \A o \in Apis : pc'[o] \in {pc[o], "down"}
    BY <1>6 DEF LoseRedis, TypeOK
  <2>2. OneBoots'
    BY <2>1 DEF Cut, OneBoots, Booting, Migrating, Rebuilding
  <2> QED
    BY <1>6, <2>2 DEF LoseRedis, Cut
<1>7. CASE FlatGone /\ DeleteSentinel
  BY <1>7 DEF DeleteSentinel, FlatGone, Cut, OneBoots
<1>8. CASE UNCHANGED vars
  BY <1>8 DEF vars, Cut, OneBoots
<1> QED
  BY <1>1, <1>2, <1>3, <1>4, <1>5, <1>6, <1>7, <1>8, CutBoot DEF Next, Traffic

(* A cut migration stays cut, and only that crash cuts one.                *)
LEMMA Torn ==
    ASSUME TypeOK, [Next]_vars
    PROVE  torn' = torn \/ \E a \in Apis : Crash(a) /\ torn' = (torn \/ MidRename(a))
<1> USE DEF mongoVars, keyVars, flatVars, bootVars, histVars
<1>1. ASSUME NEW a \in Apis, Start(a) \/ BootStep(a) PROVE torn' = torn
  BY <1>1 DEF Start, BootStep, LookStock, LookFlatStock, LookFlatUsers, Look, DelFlatStock,
              DelFlatUsers, RenameStock, RenameUsers, Gate, ListOrders, ClearUsers, FillUsers,
              SetStock
<1>2. ASSUME NEW a \in Apis, Crash(a) PROVE torn' = (torn \/ MidRename(a))
  BY <1>2 DEF Crash
<1>3. CASE Traffic
  BY <1>3 DEF Traffic, Accept, Record, Reseed
<1>4. CASE LoseRedis \/ DeleteSentinel
  BY <1>4 DEF LoseRedis, DeleteSentinel
<1>5. CASE UNCHANGED vars
  BY <1>5 DEF vars
<1> QED
  BY <1>1, <1>2, <1>3, <1>4, <1>5 DEF Next

THEOREM Inductive == Spec => []WholeInv
<1>1. Init => WholeInv
  BY InitInv DEF WholeInv, IInv, Init
<1>2. WholeInv /\ [Next]_vars => WholeInv'
  <2> SUFFICES ASSUME WholeInv, [Next]_vars PROVE WholeInv'
    OBVIOUS
  <2>1. TypeOK'
    BY TypeStep DEF WholeInv
  <2>2. CASE torn
    <3>1. torn'
      BY <2>2, Torn DEF WholeInv
    <3> QED
      BY <2>1, <2>2, <3>1, CutStep DEF WholeInv
  <2>3. CASE ~torn /\ torn'
    <3>1. PICK a \in Apis : Crash(a) /\ torn' = (torn \/ MidRename(a))
      BY <2>3, Torn DEF WholeInv
    <3>2. MidRename(a)
      BY <2>3, <3>1
    <3> QED
      BY <2>1, <2>3, <3>1, <3>2, Cutting DEF WholeInv
  <2>4. CASE ~torn /\ ~torn'
    BY <2>1, <2>4, StepInv DEF WholeInv
  <2> QED
    BY <2>2, <2>3, <2>4
<1> QED
  BY <1>1, <1>2, PTL DEF Spec

(* Type correctness; in particular a rebuild never writes a negative stock.*)
THEOREM BootTypes == Spec => []TypeOK
<1>1. WholeInv => TypeOK
  BY DEF WholeInv
<1> QED
  BY <1>1, Inductive, PTL

(* However often the keys are migrated, rebuilt and lost, nobody is sold   *)
(* two units, unless a crash fell between the two RENAMEs of a migration.  *)
THEOREM OneUnitEach == Spec => []OneUnitPerBuyer
<1>1. WholeInv => OneUnitPerBuyer
  BY DEF WholeInv, IInv, Ledger, OneEach, OneUnitPerBuyer
<1> QED
  BY <1>1, Inductive, PTL

(* No oversell across restarts: the units sold never exceed the largest    *)
(* quantity the sale was seeded with, under the same exception.            *)
THEOREM NeverOversoldByBoot == Spec => []NoOversell
<1>1. WholeInv => NoOversell
  <2> SUFFICES ASSUME IInv PROVE Cardinality(Units) <= limit
    BY DEF WholeInv, NoOversell
  <2>1. \A b \in Buyers : accepts[b] \in {0, 1}
    BY DEF IInv, TypeOK, Ledger, OneEach
  <2>2. Units = Accepted \X {1}
    <3>1. \A b \in Buyers, k \in 1..MaxAccepts : k <= accepts[b] <=> accepts[b] > 0 /\ k = 1
      BY <2>1
    <3> QED
      BY <2>1, <3>1, BoundAssumption DEF Units, Accepted
  <2>3. IsFiniteSet(Accepted) /\ Cardinality(Accepted) \in Nat
    BY FewBuyers DEF Accepted
  <2>4. IsFiniteSet({1}) /\ Cardinality({1}) = 1
    BY FS_Singleton
  <2>5. Cardinality(Accepted \X {1}) = Cardinality(Accepted) * Cardinality({1})
    BY <2>3, <2>4, FS_Product
  <2> QED
    BY <2>2, <2>3, <2>4, <2>5 DEF IInv, Ledger
<1> QED
  BY <1>1, Inductive, PTL

(* The sentinel is never there for an instance to serve from while the set *)
(* of buyers is incomplete or the units on sale are somebody's: of every   *)
(* rebuild, cut off wherever it may be, and of every migration that was    *)
(* not cut off between its two RENAMEs.                                    *)
THEOREM SentinelIsLast == Spec => []SentinelLast
<1>1. WholeInv => SentinelLast
  BY DEF WholeInv, IInv, Kept, SentinelLast
<1> QED
  BY <1>1, Inductive, PTL

(* As long as instances boot one at a time, no boot writes over keys that  *)
(* exist, be it beside others that serve or alone, after a cut migration   *)
(* too: but for the second RENAME, which finds no buyers to overwrite and  *)
(* leaves the set complete.                                                *)
THEOREM WarmIsWarm == Spec => WarmTouchesNothing
<1>1. WholeInv /\ [Next]_vars => [WarmStep]_vars
  <2> SUFFICES ASSUME WholeInv, Next, stock # Missing PROVE WarmStep
    BY DEF vars, WarmStep
  <2>1. \A a \in Apis : pc[a] \notin Rebuilding \cup {"renameStock"}
    BY DEF WholeInv, Cut, IInv, Kept
  <2>2. ASSUME NEW b \in Buyers, Accept(b) PROVE WarmStep
    <3>1. users' \ users = {b} /\ users \subseteq users' /\ stock' = stock - 1
      BY <2>2 DEF Accept
    <3>2. Cardinality(users' \ users) = 1
      BY <3>1, FS_Singleton
    <3> QED
      BY <3>1, <3>2 DEF WarmStep
  <2>3. ASSUME NEW b \in Buyers, Record(b) PROVE UNCHANGED keyVars
    BY <2>3 DEF Record
  <2>4. ASSUME NEW q \in Quantities, Reseed(q) PROVE UNCHANGED keyVars
    BY <2>4 DEF Reseed
  <2>5. ASSUME NEW a \in Apis, RenameUsers(a) PROVE WarmStep
    <3>1. HalfRenamed(a)
      BY <2>5 DEF RenameUsers, HalfRenamed
    <3>2. MidRename(a) /\ users = {} /\ flatUsers = Accepted /\ flatUsers # {}
      BY <3>1 DEF WholeInv, Cut, IInv, Kept, HalfRenamed, MidRename
    <3>3. stock' = stock /\ users' = Accepted
      BY <2>5, <3>2 DEF RenameUsers
    <3> QED
      BY <3>2, <3>3 DEF WarmStep
  <2>6. ASSUME NEW a \in Apis, BootStep(a) \/ Start(a) \/ Crash(a), ~RenameUsers(a)
        PROVE  UNCHANGED keyVars
    BY <2>1, <2>6
       DEF BootStep, LookStock, LookFlatStock, LookFlatUsers, Look, DelFlatStock, DelFlatUsers,
           RenameStock, Gate, ListOrders, ClearUsers, FillUsers, SetStock,
           Rebuilding, Start, Crash, keyVars
  <2>7. ASSUME LoseRedis \/ DeleteSentinel PROVE stock' = Missing /\ faults' > faults
    BY <2>7 DEF LoseRedis, DeleteSentinel, FaultBudget, WholeInv, TypeOK
  <2> QED
    BY <2>2, <2>3, <2>4, <2>5, <2>6, <2>7 DEF Next, Traffic, WarmStep
<1> QED
  BY <1>1, Inductive, PTL DEF Spec, WarmTouchesNothing
=============================================================================
