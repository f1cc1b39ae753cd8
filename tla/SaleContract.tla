---------------------------- MODULE SaleContract ----------------------------
(***************************************************************************)
(* What the order endpoint of the flash sale promises its callers, with no *)
(* Redis, no wire and no failure in sight: at most Stock buyers are        *)
(* accepted, a buyer is accepted at most once, and every answer given to a *)
(* request is true of the set of accepted buyers.  OrderFlow is shown to   *)
(* implement this module.                                                  *)
(*                                                                         *)
(* The answers are the outcomes of services/order.ts plus the two answers  *)
(* of GET /order/:email and the 503 of the error middleware.               *)
(***************************************************************************)
EXTENDS Integers, FiniteSets

CONSTANTS Req,      \* the HTTP requests that may be made
          Buyers,   \* canonical e-mail addresses, the identity of a buyer
          Stock,    \* sale.stockQuantity
          NoBuyer   \* the buyer of a request that was not made yet

VARIABLES accepted, \* the buyers holding a confirmed order
          buyer,    \* [Req -> who asks]
          known,    \* [Req -> had this buyer been told of the order before?]
          answer    \* [Req -> the response body given, or "none"]

contractVars == <<accepted, buyer, known, answer>>

(* The responses after which the caller knows of a confirmed order.        *)
Confirming == {"created", "already", "ordered"}

Refusing == {"sold_out", "inactive", "not_ordered"}

Answers == Confirming \cup Refusing \cup {"unavailable"}

ContractInit ==
    /\ accepted = {}
    /\ buyer = [r \in Req |-> NoBuyer]
    /\ known = [r \in Req |-> FALSE]
    /\ answer = [r \in Req |-> "none"]

(* Has some finished request already confirmed b's order to its caller?    *)
Confirmed(b) == \E q \in Req : buyer[q] = b /\ answer[q] \in Confirming

Ask(r, b) ==
    /\ buyer[r] = NoBuyer
    /\ buyer' = [buyer EXCEPT ![r] = b]
    /\ known' = [known EXCEPT ![r] = Confirmed(b)]
    /\ UNCHANGED <<accepted, answer>>

Accept(b) ==
    /\ b \notin accepted
    /\ Cardinality(accepted) < Stock
    /\ accepted' = accepted \cup {b}
    /\ UNCHANGED <<buyer, known, answer>>

(* Is it truthful, and consistent with earlier answers, to give a to r?    *)
Honest(r, a) ==
    /\ a \in Confirming => buyer[r] \in accepted
    /\ a = "created" => \A q \in Req : ~(buyer[q] = buyer[r] /\ answer[q] = "created")
    /\ a = "sold_out" => Cardinality(accepted) = Stock /\ buyer[r] \notin accepted
    /\ a \in Refusing => ~known[r]

(* Giving up with a 503 is always allowed; one failure may end several     *)
(* requests at once, all with that answer.                                 *)
GiveUp(S) ==
    /\ S \subseteq {r \in Req : answer[r] = "none"}
    /\ answer' = [r \in Req |-> IF r \in S THEN "unavailable" ELSE answer[r]]
    /\ UNCHANGED <<accepted, buyer, known>>

Respond(r, a) ==
    /\ buyer[r] \in Buyers
    /\ answer[r] = "none"
    /\ Honest(r, a)
    /\ answer' = [answer EXCEPT ![r] = a]
    /\ UNCHANGED <<accepted, buyer, known>>

ContractNext ==
    \/ \E r \in Req, b \in Buyers : Ask(r, b)
    \/ \E b \in Buyers : Accept(b)
    \/ \E r \in Req, a \in Answers : Respond(r, a)
    \/ \E S \in SUBSET Req : GiveUp(S)

ContractSpec == ContractInit /\ [][ContractNext]_contractVars
=============================================================================
