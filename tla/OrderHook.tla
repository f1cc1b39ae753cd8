------------------------------ MODULE OrderHook ------------------------------
(***************************************************************************)
(* The browser's order attempts: useOrder keeps at most one POST in flight *)
(* and turns whatever comes back, or does not, into a verdict.  The POST   *)
(* is a message: the client may give up on it after ten seconds while it   *)
(* still travels to the server and commits there.                          *)
(*                                                                         *)
(* The server is reduced to who holds an order and to how it answers, in   *)
(* the words of SaleContract; sale is what the sale is doing now.          *)
(***************************************************************************)
EXTENDS Naturals, Sequences, FiniteSets

CONSTANTS Emails,    \* addresses the buyer types
          Malformed, \* those the server answers with a 400
          Blank,     \* an empty field
          MaxPosts,  \* bound: attempts made on one page
          NoVerdict, \* no panel is shown
          StrictMode \* React runs every effect, its cleanup, and the effect again

VARIABLES
    (* the server *)
    sale,        \* "upcoming", "active", "sold_out", "ended", or "none"
    holders,     \* the addresses holding an order
    (* the network: attempt n is posts[n] *)
    posts,
    (* the hook: refs, then state *)
    awaited,     \* the attempts whose promise is pending
    inFlight,    \* the in-flight ref
    hookMounted, \* the mounted ref
    busy,        \* phase = "processing", as last set
    verdict,     \* the panel: a kind and the attempt it is about
    fieldError,
    (* what the last render showed *)
    spinner

orderState == <<awaited, inFlight, hookMounted, busy, verdict, fieldError, spinner>>
orderVars  == <<holders, posts, orderState>>

(* travelling: sent, the server has not seen it.  answered: the reply is   *)
(* on its way back.                                                        *)
Replies == [code : {202, 200, 400, 404, 409, 503}, body : {"envelope", "other", "sold_out", "inactive"}]

VerdictKinds == {"success", "already", "sold_out", "inactive", "invalid", "unavailable", "network"}

Reply(code, body) == [code |-> code, body |-> body]

NoReply == Reply(503, "other")

(* The cleanup clears the mounted ref and the effect does not set it again.*)
OrderInit ==
    /\ holders = {}
    /\ posts = <<>>
    /\ awaited = {} /\ inFlight = FALSE /\ hookMounted = ~StrictMode
    /\ busy = FALSE /\ verdict = NoVerdict /\ fieldError = FALSE
    /\ spinner = FALSE

-----------------------------------------------------------------------------
(* The server and the network.                                             *)

Answered(n, reply) ==
    posts' = [posts EXCEPT ![n].at = "answered", ![n].reply = reply]

(* The order endpoint, for the address of attempt n; a timeout towards     *)
(* Redis is a 503 whether or not the script ran.                           *)
Serve(n) ==
    LET e == posts[n].email IN
    /\ posts[n].at = "travelling"
    /\ \/ sale = "none" /\ Answered(n, Reply(404, "other")) /\ UNCHANGED holders
       \/ /\ e \in Malformed /\ sale # "none" /\ UNCHANGED holders
          /\ Answered(n, Reply(400, "other"))
       \/ /\ e \in holders /\ UNCHANGED holders
          /\ Answered(n, Reply(200, "envelope"))
       \/ /\ e \notin holders \cup Malformed /\ sale = "active"
          /\ holders' = holders \cup {e}
          /\ Answered(n, Reply(202, "envelope")) \/ Answered(n, Reply(503, "other"))
       \/ /\ e \notin holders \cup Malformed /\ sale = "sold_out" /\ UNCHANGED holders
          /\ Answered(n, Reply(409, "sold_out"))
       \/ /\ e \notin holders \cup Malformed /\ sale \in {"upcoming", "ended"}
          /\ Answered(n, Reply(409, "inactive")) /\ UNCHANGED holders
       \/ Answered(n, Reply(503, "other")) /\ UNCHANGED holders
    /\ UNCHANGED orderState

(* A captive portal answers for the server, with a page of its own.        *)
Intercept(n) ==
    /\ posts[n].at = "travelling"
    /\ \E code \in {200, 202} : Answered(n, Reply(code, "other"))
    /\ UNCHANGED <<holders, orderState>>

-----------------------------------------------------------------------------
(* The verdict.                                                            *)

(* Mutant: the status line is believed.                                    *)
AnyBody(reply) == TRUE

IsOrderEnvelope(reply) == reply.body = "envelope"

VerdictFor(reply) ==
    CASE reply.code = 202 /\ IsOrderEnvelope(reply) -> "success"
      [] reply.code = 200 /\ IsOrderEnvelope(reply) -> "already"
      [] reply.code = 400 -> "invalid"
      [] reply.code = 503 -> "unavailable"
      [] reply.code = 409 -> IF reply.body = "inactive" THEN "inactive" ELSE "sold_out"
      [] OTHER -> "network"

(* Mutant: a 400 pops the panel too.                                       *)
EveryVerdict(kind) == TRUE

(* The panel is for outcomes, the field for input problems.                *)
ForThePanel(kind) == kind # "invalid"

(* The promise of attempt n resolves; an unmounted hook sets nothing.      *)
Land(n, kind) ==
    /\ n \in awaited /\ awaited' = awaited \ {n}
    /\ inFlight' = FALSE
    /\ busy' = (busy /\ ~hookMounted)
    /\ verdict' = IF hookMounted /\ ForThePanel(kind) THEN [kind |-> kind, post |-> n] ELSE verdict
    /\ fieldError' = (fieldError \/ (hookMounted /\ ~ForThePanel(kind)))
    /\ UNCHANGED <<holders, posts, hookMounted, spinner>>

Settle(n) == posts[n].at = "answered" /\ Land(n, VerdictFor(posts[n].reply))

(* Mutant: no timer, only the connection can break.                        *)
GiveUpWhenBroken(n) == posts[n].at = "answered" /\ Land(n, "network")

(* The ten-second timer, or a broken connection.  The POST itself stays    *)
(* where it is.                                                            *)
GiveUp(n) == Land(n, "network")

-----------------------------------------------------------------------------
(* The buyer and React.                                                    *)

(* Mutant: the guard reads the rendered phase.                             *)
SpinnerShown == spinner

AlreadyInFlight == inFlight

(* submit, with something in the field: the first click wins.              *)
Submit(e) ==
    /\ e \in Emails /\ ~AlreadyInFlight
    /\ Len(posts) < MaxPosts
    /\ posts' = Append(posts, [email |-> e, at |-> "travelling", reply |-> NoReply])
    /\ awaited' = awaited \cup {Len(posts) + 1}
    /\ inFlight' = TRUE /\ busy' = TRUE
    /\ fieldError' = FALSE
    /\ UNCHANGED <<holders, hookMounted, verdict, spinner>>

(* submit, with nothing in it.                                             *)
SubmitBlank ==
    /\ fieldError' = TRUE
    /\ UNCHANGED <<holders, posts, awaited, inFlight, hookMounted, busy, verdict, spinner>>

ClearFieldError ==
    /\ fieldError' = FALSE
    /\ UNCHANGED <<holders, posts, awaited, inFlight, hookMounted, busy, verdict, spinner>>

ClearVerdict ==
    /\ verdict # NoVerdict /\ verdict' = NoVerdict
    /\ UNCHANGED <<holders, posts, awaited, inFlight, hookMounted, busy, fieldError, spinner>>

Render ==
    /\ spinner' = busy
    /\ UNCHANGED <<holders, posts, awaited, inFlight, hookMounted, busy, verdict, fieldError>>

Dismount ==
    /\ hookMounted' = FALSE
    /\ UNCHANGED <<holders, posts, awaited, inFlight, busy, verdict, fieldError, spinner>>

-----------------------------------------------------------------------------
OrderTypeOK ==
    /\ holders \subseteq Emails
    /\ posts \in Seq([email : Emails, at : {"travelling", "answered"}, reply : Replies])
    /\ Len(posts) <= MaxPosts
    /\ awaited \subseteq DOMAIN posts
    /\ inFlight \in BOOLEAN /\ hookMounted \in BOOLEAN
    /\ busy \in BOOLEAN /\ spinner \in BOOLEAN /\ fieldError \in BOOLEAN
    /\ verdict \in [kind : VerdictKinds \ {"invalid"}, post : DOMAIN posts] \cup {NoVerdict}
=============================================================================
