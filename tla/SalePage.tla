------------------------------ MODULE SalePage ------------------------------
(***************************************************************************)
(* The sale page: what the status view shows decides whether the buy form  *)
(* submits, and both it and the order hook talk to one sale, which moves   *)
(* along Timeline.  The view is StatusView, which useSaleStatus implements *)
(* (SaleStatusHook); the read a settled attempt asks of it is one more     *)
(* read in flight, invisible until it paints.                              *)
(***************************************************************************)
EXTENDS StatusView, Sequences, FiniteSets

CONSTANTS Timeline,  \* what the sale is doing at version v is Timeline[v + 1]
          Emails, Malformed, Blank, MaxPosts, NoVerdict, StrictMode

ASSUME EmailAssumption == Malformed \subseteq Emails /\ Blank \notin Emails
ASSUME PostAssumption == MaxPosts \in Nat /\ StrictMode \in BOOLEAN

(* Only a cold boot puts units back: once sold out, a page that is open    *)
(* does not see the sale buyable again.                                    *)
ASSUME TimelineAssumption ==
    /\ MaxVersion \in Nat
    /\ \A i, j \in 1..(MaxVersion + 1) :
          i < j /\ Timeline[i] = "sold_out" => Timeline[j] # "active"

VARIABLES holders, posts, awaited, inFlight, hookMounted, busy, verdict, fieldError, spinner

formVars == <<holders, posts, awaited, inFlight, hookMounted, busy, verdict, fieldError, spinner>>

vars == <<viewVars, formVars>>

StatusAt(v) == Timeline[v + 1]

(* The order hook, against the sale that the view reads; a slug that names *)
(* no sale gets a 404 there too.                                           *)
Order == INSTANCE OrderHook WITH sale <- IF exists THEN StatusAt(truth) ELSE "none"

Init == ViewInit /\ Order!OrderInit

-----------------------------------------------------------------------------
(* What is rendered.                                                       *)

(* Known to be active, or unknown because the read channel is down.        *)
CanBuy == IF body = Nothing THEN channel = "offline" ELSE StatusAt(body) = "active"

(* The verdict panel's frame for a 409 that only the client can place.     *)
InactiveFrame == IF body # Nothing /\ StatusAt(body) = "upcoming" THEN "upcoming" ELSE "ended"

-----------------------------------------------------------------------------
(* The form's submit handler, by button or by Enter.                       *)
Buy(e) ==
    /\ mounted /\ ~notFound /\ CanBuy
    /\ Order!Submit(e) \/ (e = Blank /\ Order!SubmitBlank)
    /\ UNCHANGED viewVars

(* Typing clears the field's error; the panel can be dismissed.            *)
Type  == mounted /\ ~notFound /\ fieldError /\ Order!ClearFieldError /\ UNCHANGED viewVars
Close == mounted /\ ~notFound /\ Order!ClearVerdict /\ UNCHANGED viewVars

Attempted ==
    /\ \E n \in awaited : Order!Settle(n) \/ Order!GiveUp(n)
    /\ UNCHANGED viewVars

ServerStep ==
    /\ \E n \in DOMAIN posts : Order!Serve(n) \/ Order!Intercept(n)
    /\ UNCHANGED viewVars

Rerender == mounted /\ Order!Render /\ UNCHANGED viewVars

Leave == Depart /\ Order!Dismount

ViewStep ==
    /\ \/ Change \/ GoLive \/ Falter \/ Admit \/ Deny
       \/ \E v \in 0..truth : Paint(v) \/ ShowFrame(v) \/ Rewind(v)
    /\ UNCHANGED formVars

Next ==
    \/ \E e \in Emails \cup {Blank} : Buy(e)
    \/ Type \/ Close \/ Attempted \/ ServerStep \/ Rerender \/ Leave \/ ViewStep

Spec == Init /\ [][Next]_vars

(* The ten-second timer fires, React renders.                              *)
Fairness == WF_vars(Attempted) /\ WF_vars(Rerender)

FairSpec == Spec /\ Fairness

-----------------------------------------------------------------------------
(* Properties.                                                             *)

TypeOK ==
    /\ body \in 0..truth \cup {Nothing}
    /\ channel \in Channels
    /\ Order!OrderTypeOK

(* order.ts:66 and useOrder.ts:4: whatever a proxy answers and however     *)
(* late an abandoned POST commits, a buyer who is told they hold an order  *)
(* does, and one who is told it is sold out does not, now or later.        *)
VerdictTruthful ==
    verdict # NoVerdict =>
        LET e == posts[verdict.post].email IN
        /\ verdict.kind \in {"success", "already"} => e \in holders
        /\ verdict.kind = "sold_out" => e \notin holders

(* useOrder.ts:1, "one request in flight, ever": two clicks before the     *)
(* next render are one POST, and the guard is never left up.               *)
OneInFlight == Cardinality(awaited) <= 1 /\ (inFlight <=> awaited # {})

(* order.ts:1, nothing "can strand a spinner": every attempt ends in an    *)
(* idle form, whatever the network does.                                   *)
SpinnerEnds == busy ~> ~spinner \/ ~mounted

(* VerdictPanel.tsx:34: the client knows which end of the window a refused *)
(* buyer is at.                                                            *)
WrapIsTrue ==
    verdict # NoVerdict /\ verdict.kind = "inactive" /\ InactiveFrame = "ended"
        => StatusAt(truth) = "ended"
=============================================================================
