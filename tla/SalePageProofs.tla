--------------------------- MODULE SalePageProofs ---------------------------
(***************************************************************************)
(* Proofs about SalePage, for every number of attempts and addresses and   *)
(* every course of the sale that puts no unit back: one request in flight, *)
(* and a verdict that is true whatever the network did to its request.     *)
(***************************************************************************)
EXTENDS SalePage, SequenceTheorems, FiniteSetTheorems, TLAPS

(* The in-flight ref tells whether a promise is pending; never two are.    *)
Once ==
    /\ inFlight <=> awaited # {}
    /\ \A m, n \in awaited : m = n

(* Whoever is refused for want of stock holds nothing and never will.      *)
Refused(e) == e \notin holders /\ \A v \in truth..MaxVersion : StatusAt(v) # "active"

(* A reply the hook would believe is the server's, and it is still true    *)
(* when it lands.                                                          *)
Genuine ==
    \A n \in 1..Len(posts) :
        /\ posts[n].reply.body = "envelope" => posts[n].email \in holders
        /\ posts[n].reply.code = 409 => posts[n].reply.body \in {"sold_out", "inactive"}
        /\ posts[n].reply.body = "sold_out" => Refused(posts[n].email)

(* So is a verdict on screen.                                              *)
Told ==
    verdict # NoVerdict =>
        LET e == posts[verdict.post].email IN
        /\ verdict.kind \in {"success", "already"} => e \in holders
        /\ verdict.kind = "sold_out" => Refused(e)

IInv == TypeOK /\ truth \in 0..MaxVersion /\ Once /\ Genuine /\ Told

-----------------------------------------------------------------------------
(* What the requests look like.                                            *)

Posts == [email : Emails, at : {"travelling", "answered"}, reply : Order!Replies]

Sale == IF exists THEN StatusAt(truth) ELSE "none"

LEMMA PostTypes ==
    ASSUME TypeOK
    PROVE  /\ posts \in Seq(Posts) /\ DOMAIN posts = 1..Len(posts) /\ Len(posts) \in Nat
           /\ \A n \in 1..Len(posts) : posts[n] \in Posts
<1>1. posts \in Seq(Posts)
  BY DEF TypeOK, Order!OrderTypeOK, Posts
<1> QED
  BY <1>1, LenProperties, ElementOfSeq

(* An answer marks one request and keeps who made it.                      *)
LEMMA AnswerMarksOne ==
    ASSUME TypeOK, NEW n \in DOMAIN posts, NEW r \in Order!Replies, Order!Answered(n, r)
    PROVE  /\ posts' \in Seq(Posts) /\ Len(posts') = Len(posts)
           /\ DOMAIN posts' = DOMAIN posts
           /\ \A m \in 1..Len(posts) :
                 /\ posts'[m].email = posts[m].email
                 /\ posts'[m].reply = IF m = n THEN r ELSE posts[m].reply
<1> DEFINE p == [posts[n] EXCEPT !.at = "answered", !.reply = r]
<1>1. posts[n] \in Posts /\ n \in 1..Len(posts)
  BY PostTypes
<1>2. p \in Posts /\ p.email = posts[n].email /\ p.reply = r
  BY <1>1 DEF Posts
<1>3. posts' = [posts EXCEPT ![n] = p]
  BY PostTypes, <1>1 DEF Order!Answered
<1> HIDE DEF p
<1>4. /\ posts' \in Seq(Posts) /\ Len(posts') = Len(posts)
      /\ \A m \in 1..Len(posts) : posts'[m] = IF m = n THEN p ELSE posts[m]
  BY <1>1, <1>2, <1>3, PostTypes, ExceptSeq
<1>5. DOMAIN posts' = 1..Len(posts')
  BY <1>4, LenProperties
<1> QED
  BY <1>2, <1>4, <1>5, PostTypes

-----------------------------------------------------------------------------
(* Initially.                                                              *)

LEMMA InitInv == Init => IInv
<1> SUFFICES ASSUME Init PROVE IInv
  OBVIOUS
<1>1. truth = 0 /\ body = Nothing /\ channel = "connecting"
  BY DEF Init, ViewInit
<1>2. /\ holders = {} /\ posts = <<>> /\ awaited = {} /\ ~inFlight
      /\ hookMounted = ~StrictMode /\ busy = FALSE /\ verdict = NoVerdict
      /\ fieldError = FALSE /\ spinner = FALSE /\ inFlight = FALSE
  BY DEF Init, Order!OrderInit
<1>3. posts \in Seq(Posts) /\ Len(posts) = 0
  BY <1>2, EmptySeq
<1>4. Order!OrderTypeOK
  <2>1. awaited \subseteq DOMAIN posts /\ holders \subseteq Emails
    BY <1>2
  <2>2. Len(posts) <= MaxPosts
    BY <1>3, PostAssumption
  <2>3. /\ inFlight \in BOOLEAN /\ hookMounted \in BOOLEAN /\ busy \in BOOLEAN
        /\ spinner \in BOOLEAN /\ fieldError \in BOOLEAN
    BY <1>2, PostAssumption
  <2> QED
    BY <1>2, <1>3, <2>1, <2>2, <2>3, Zenon DEF Order!OrderTypeOK, Posts
<1>5. TypeOK /\ truth \in 0..MaxVersion
  BY <1>1, <1>4, TimelineAssumption DEF TypeOK, Channels
<1>6. Once /\ Genuine /\ Told
  BY <1>2, <1>3 DEF Once, Genuine, Told
<1> QED
  BY <1>5, <1>6 DEF IInv

-----------------------------------------------------------------------------
(* The view moves: the form does not, and a sold-out sale stays so.        *)

LEMMA ViewInv ==
    ASSUME IInv, ViewStep \/ UNCHANGED vars PROVE IInv'
<1>1. UNCHANGED formVars
  BY DEF ViewStep, vars
<1>2. UNCHANGED <<holders, posts, awaited, inFlight, hookMounted, busy, verdict, fieldError, spinner>>
  BY <1>1 DEF formVars
<1>3. truth \in 0..MaxVersion /\ body \in 0..truth \cup {Nothing} /\ channel \in Channels
  BY DEF IInv, TypeOK
<1>4. /\ truth' \in truth..MaxVersion /\ body' \in 0..truth' \cup {Nothing}
      /\ channel' \in Channels
  <2>1. CASE ViewStep
    BY <1>3, <2>1, TimelineAssumption
       DEF ViewStep, Change, GoLive, Falter, Admit, Deny, Paint, ShowFrame, Rewind, Channels
  <2>2. CASE UNCHANGED vars
    BY <1>3, <2>2, TimelineAssumption DEF vars, viewVars
  <2> QED
    BY <2>1, <2>2
<1>5. Order!OrderTypeOK'
  BY <1>2 DEF IInv, TypeOK, Order!OrderTypeOK
<1>6. TypeOK' /\ (truth \in 0..MaxVersion)'
  BY <1>3, <1>4, <1>5, TimelineAssumption DEF TypeOK
<1>7. \A e : Refused(e) => Refused(e)'
  BY <1>2, <1>3, <1>4, TimelineAssumption DEF Refused, StatusAt
<1>8. Once'
  BY <1>2 DEF IInv, Once
<1>9. Genuine'
  BY <1>2, <1>7 DEF IInv, Genuine
<1>10. Told'
  BY <1>2, <1>7 DEF IInv, Told
<1> QED
  BY <1>6, <1>8, <1>9, <1>10 DEF IInv

-----------------------------------------------------------------------------
(* The form and the server move: the view does not.                        *)

LEMMA Standing ==
    ASSUME IInv, UNCHANGED viewVars, holders' = holders
    PROVE  \A e : Refused(e)' <=> Refused(e)
  BY DEF Refused, StatusAt, viewVars

LEMMA Assemble ==
    ASSUME IInv, UNCHANGED viewVars, Order!OrderTypeOK', Once', Genuine', Told'
    PROVE  IInv'
  BY DEF IInv, TypeOK, viewVars

(* What the server answers is so, and what it said before stays so: it     *)
(* gives a unit away only while nobody was refused for want of one.        *)
LEMMA ServerInv ==
    ASSUME IInv, ServerStep PROVE IInv'
<1>1. UNCHANGED viewVars /\ TypeOK
  BY DEF ServerStep, IInv
<1>2. PICK n \in DOMAIN posts : Order!Serve(n) \/ Order!Intercept(n)
  BY DEF ServerStep
<1>3. n \in 1..Len(posts) /\ posts[n].email \in Emails
  BY <1>1, <1>2, PostTypes DEF Posts
<1>4. UNCHANGED <<awaited, inFlight, hookMounted, busy, verdict, fieldError, spinner>>
  BY <1>2 DEF Order!Serve, Order!Intercept, Order!orderState
<1>5. PICK r \in Order!Replies :
        /\ Order!Answered(n, r)
        /\ \/ holders' = holders
           \/ holders' = holders \cup {posts[n].email} /\ exists /\ StatusAt(truth) = "active"
        /\ r.body = "envelope" => posts[n].email \in holders'
        /\ r.code = 409 => r.body \in {"sold_out", "inactive"}
        /\ r.body = "sold_out" =>
              posts[n].email \notin holders' /\ exists /\ StatusAt(truth) = "sold_out"
  <2>1. CASE Order!Intercept(n)
    BY <2>1 DEF Order!Intercept, Order!Reply, Order!Replies
  <2>2. CASE Order!Serve(n)
    BY <2>2 DEF Order!Serve, Order!Reply, Order!Replies
  <2> QED
    BY <1>2, <2>1, <2>2
<1>6. /\ posts' \in Seq(Posts) /\ Len(posts') = Len(posts) /\ DOMAIN posts' = DOMAIN posts
      /\ \A m \in 1..Len(posts) :
            /\ posts'[m].email = posts[m].email
            /\ posts'[m].reply = IF m = n THEN r ELSE posts[m].reply
  BY <1>1, <1>2, <1>5, AnswerMarksOne
<1>7. holders \subseteq holders' /\ holders' \subseteq Emails
  BY <1>1, <1>3, <1>5 DEF TypeOK, Order!OrderTypeOK
<1>8. \A e : Refused(e) => Refused(e)'
  BY <1>1, <1>5, TimelineAssumption DEF Refused, StatusAt, viewVars, IInv
<1>9. r.body = "sold_out" => Refused(posts[n].email)'
  BY <1>1, <1>3, <1>5, <1>6, TimelineAssumption DEF Refused, StatusAt, viewVars, IInv
<1>10. Order!OrderTypeOK'
  BY <1>1, <1>4, <1>6, <1>7 DEF TypeOK, Order!OrderTypeOK, Posts
<1>11. Once'
  BY <1>4 DEF IInv, Once
<1>12. Genuine'
  BY <1>5, <1>6, <1>7, <1>8, <1>9 DEF IInv, Genuine
<1>13. Told'
  <2>1. verdict # NoVerdict => verdict.post \in 1..Len(posts)
    BY <1>1, PostTypes DEF TypeOK, Order!OrderTypeOK
  <2> QED
    BY <1>4, <1>6, <1>7, <1>8, <2>1 DEF IInv, Told
<1> QED
  BY <1>1, <1>10, <1>11, <1>12, <1>13, Assemble

(* A promise that resolves leaves none pending, and its verdict says no    *)
(* more than the reply did.                                                *)
LEMMA AttemptInv ==
    ASSUME IInv, Attempted PROVE IInv'
<1>1. UNCHANGED viewVars /\ TypeOK
  BY DEF Attempted, IInv
<1>2. PICK n \in awaited : Order!Settle(n) \/ Order!GiveUp(n)
  BY DEF Attempted
<1>3. n \in 1..Len(posts) /\ posts[n] \in Posts
  BY <1>1, <1>2, PostTypes DEF TypeOK, Order!OrderTypeOK
<1>4. PICK kind \in Order!VerdictKinds :
        /\ Order!Land(n, kind)
        /\ kind \in {"success", "already"} => posts[n].reply.body = "envelope"
        /\ kind = "sold_out" => posts[n].reply.body = "sold_out"
  <2>1. CASE Order!GiveUp(n)
    BY <2>1 DEF Order!GiveUp, Order!VerdictKinds
  <2>2. CASE Order!Settle(n)
    <3> DEFINE reply == posts[n].reply
    <3>1. reply.code = 409 => reply.body \in {"sold_out", "inactive"}
      BY <1>3 DEF IInv, Genuine
    <3>2. Order!VerdictFor(reply) \in Order!VerdictKinds
      BY DEF Order!VerdictFor, Order!VerdictKinds
    <3>3. Order!VerdictFor(reply) \in {"success", "already"} => reply.body = "envelope"
      BY DEF Order!VerdictFor, Order!IsOrderEnvelope
    <3>4. Order!VerdictFor(reply) = "sold_out" => reply.body = "sold_out"
      BY <3>1 DEF Order!VerdictFor, Order!IsOrderEnvelope
    <3> QED
      BY <2>2, <3>2, <3>3, <3>4 DEF Order!Settle
  <2> QED
    BY <1>2, <2>1, <2>2
<1>5. UNCHANGED <<holders, posts, hookMounted, spinner>>
  BY <1>4 DEF Order!Land
<1>6. awaited' = {} /\ inFlight' = FALSE
  BY <1>2, <1>4 DEF Order!Land, IInv, Once
<1>7. verdict' = verdict \/ (verdict' = [kind |-> kind, post |-> n] /\ kind # "invalid")
  BY <1>4 DEF Order!Land, Order!ForThePanel
<1>8. busy' \in BOOLEAN /\ fieldError' \in BOOLEAN
  BY <1>4 DEF Order!Land
<1>9. Order!OrderTypeOK'
  <2>1. verdict' \in [kind : Order!VerdictKinds \ {"invalid"}, post : DOMAIN posts] \cup {NoVerdict}
    BY <1>1, <1>3, <1>7, PostTypes DEF TypeOK, Order!OrderTypeOK
  <2>2. UNCHANGED <<holders, posts, hookMounted, spinner>> /\ Order!OrderTypeOK
    BY <1>1, <1>5 DEF TypeOK
  <2> QED
    BY <1>6, <1>8, <2>1, <2>2, Zenon DEF Order!OrderTypeOK
<1>10. \A e : Refused(e)' <=> Refused(e)
  BY <1>1, <1>5, Standing
<1>11. Once'
  BY <1>6 DEF Once
<1>12. Genuine'
  BY <1>5, <1>10 DEF IInv, Genuine
<1>13. Told'
  BY <1>3, <1>4, <1>5, <1>7, <1>10 DEF IInv, Told, Genuine
<1> QED
  BY <1>1, <1>9, <1>11, <1>12, <1>13, Assemble

(* A submit that passes the guard is the only one.                         *)
LEMMA SubmitInv ==
    ASSUME IInv, UNCHANGED viewVars, NEW e, Order!Submit(e) PROVE IInv'
<1> DEFINE p == [email |-> e, at |-> "travelling", reply |-> Order!NoReply]
<1>1. TypeOK /\ e \in Emails /\ Len(posts) < MaxPosts
  BY DEF IInv, Order!Submit
<1>2. p \in Posts /\ p.reply = Order!NoReply /\ p.email = e
  BY <1>1 DEF Posts, Order!NoReply, Order!Reply, Order!Replies
<1>3. posts' = Append(posts, p)
  BY DEF Order!Submit
<1>4. awaited = {} /\ awaited' = {Len(posts) + 1} /\ inFlight' = TRUE
  BY DEF IInv, Once, Order!Submit, Order!AlreadyInFlight
<1>5. /\ UNCHANGED <<holders, hookMounted, verdict, spinner>>
      /\ busy' = TRUE /\ fieldError' = FALSE
  BY DEF Order!Submit
<1> HIDE DEF p
<1>6. /\ posts' \in Seq(Posts) /\ Len(posts') = Len(posts) + 1
      /\ \A i \in 1..Len(posts) : posts'[i] = posts[i]
      /\ posts'[Len(posts) + 1] = p
  BY <1>1, <1>2, <1>3, PostTypes, AppendProperties
<1>7. /\ DOMAIN posts' = 1..Len(posts') /\ Len(posts) \in Nat
      /\ DOMAIN posts = 1..Len(posts)
  BY <1>1, <1>6, PostTypes, LenProperties
<1>8. Order!OrderTypeOK'
  <2>1. verdict' \in [kind : Order!VerdictKinds \ {"invalid"}, post : DOMAIN posts'] \cup {NoVerdict}
    BY <1>1, <1>5, <1>6, <1>7 DEF TypeOK, Order!OrderTypeOK
  <2>2. awaited' \subseteq DOMAIN posts' /\ Len(posts') <= MaxPosts
    BY <1>1, <1>4, <1>6, <1>7, PostAssumption
  <2>3. UNCHANGED <<holders, hookMounted, spinner>> /\ Order!OrderTypeOK
    BY <1>1, <1>5 DEF TypeOK
  <2>4. inFlight' \in BOOLEAN /\ busy' \in BOOLEAN /\ fieldError' \in BOOLEAN
    BY <1>4, <1>5
  <2> QED
    BY <1>6, <2>1, <2>2, <2>3, <2>4, Zenon DEF Order!OrderTypeOK, Posts
<1>9. \A f : Refused(f)' <=> Refused(f)
  BY <1>5, Standing
<1>10. Once'
  BY <1>4 DEF Once
<1>11. Genuine'
  <2>1. ASSUME NEW i \in 1..Len(posts')
        PROVE  i \in 1..Len(posts) \/ (i = Len(posts) + 1 /\ posts'[i] = p)
    BY <1>6, <1>7
  <2>2. p.reply.body = "other" /\ p.reply.code = 503
    BY <1>2 DEF Order!NoReply, Order!Reply
  <2> QED
    BY <1>5, <1>6, <1>9, <2>1, <2>2 DEF IInv, Genuine
<1>12. Told'
  <2>1. verdict # NoVerdict => verdict.post \in 1..Len(posts)
    BY <1>1, <1>7 DEF TypeOK, Order!OrderTypeOK
  <2> QED
    BY <1>5, <1>6, <1>9, <2>1 DEF IInv, Told
<1> QED
  BY <1>8, <1>10, <1>11, <1>12, Assemble

(* Typing, closing the panel, a render and leaving touch no request.       *)
LEMMA QuietInv ==
    ASSUME IInv, UNCHANGED <<truth, exists, holders, posts, awaited, inFlight>>,
           body' = body, channel' = channel, hookMounted' \in BOOLEAN,
           busy' \in BOOLEAN, fieldError' \in BOOLEAN, spinner' \in BOOLEAN,
           verdict' \in {verdict, NoVerdict}
    PROVE  IInv'
<1>1. \A e : Refused(e)' <=> Refused(e)
  BY DEF Refused, StatusAt
<1>2. TypeOK' /\ (truth \in 0..MaxVersion)'
  BY DEF IInv, TypeOK, Order!OrderTypeOK
<1>3. Once' /\ Genuine'
  BY <1>1 DEF IInv, Once, Genuine
<1>4. Told'
  BY <1>1 DEF IInv, Told
<1> QED
  BY <1>2, <1>3, <1>4 DEF IInv

-----------------------------------------------------------------------------
LEMMA StepInv == IInv /\ [Next]_vars => IInv'
<1> SUFFICES ASSUME IInv, [Next]_vars PROVE IInv'
  OBVIOUS
<1>1. /\ hookMounted \in BOOLEAN /\ busy \in BOOLEAN /\ fieldError \in BOOLEAN
      /\ spinner \in BOOLEAN
  BY DEF IInv, TypeOK, Order!OrderTypeOK
<1>2. ASSUME NEW e, Buy(e) PROVE IInv'
  <2>1. CASE Order!Submit(e)
    BY <1>2, <2>1, SubmitInv DEF Buy
  <2>2. CASE Order!SubmitBlank
    BY <1>1, <1>2, <2>2, QuietInv DEF Buy, Order!SubmitBlank, viewVars
  <2> QED
    BY <1>2, <2>1, <2>2 DEF Buy
<1>3. CASE Type
  BY <1>1, <1>3, QuietInv DEF Type, Order!ClearFieldError, viewVars
<1>4. CASE Close
  BY <1>1, <1>4, QuietInv DEF Close, Order!ClearVerdict, viewVars
<1>5. CASE Rerender
  BY <1>1, <1>5, QuietInv DEF Rerender, Order!Render, viewVars
<1>6. CASE Leave
  BY <1>1, <1>6, QuietInv DEF Leave, Depart, Order!Dismount
<1> QED
  BY <1>2, <1>3, <1>4, <1>5, <1>6, AttemptInv, ServerInv, ViewInv DEF Next

THEOREM Inductive == Spec => []IInv
<1>1. Init => IInv
  BY InitInv
<1>2. IInv /\ [Next]_vars => IInv'
  BY StepInv
<1> QED
  BY <1>1, <1>2, PTL DEF Spec

(* The types of the page's state, and of the hook's (useOrder.ts:39).      *)
THEOREM PageTypes == Spec => []TypeOK
<1>1. IInv => TypeOK
  BY DEF IInv
<1> QED
  BY <1>1, Inductive, PTL

(* useOrder.ts:1: one request in flight, ever, and a guard that is up      *)
(* exactly while it is.                                                    *)
THEOREM OneRequest == Spec => []OneInFlight
<1>1. IInv => OneInFlight
  <2> SUFFICES ASSUME IInv PROVE OneInFlight
    OBVIOUS
  <2>1. (inFlight <=> awaited # {}) /\ \A m, n \in awaited : m = n
    BY DEF IInv, Once
  <2>2. CASE awaited = {}
    BY <2>1, <2>2, FS_EmptySet DEF OneInFlight
  <2>3. CASE awaited # {}
    <3>1. PICK n : awaited = {n}
      BY <2>1, <2>3
    <3>2. Cardinality(awaited) = 1
      BY <3>1, FS_Singleton
    <3> QED
      BY <2>1, <3>2 DEF OneInFlight
  <2> QED
    BY <2>2, <2>3
<1> QED
  BY <1>1, Inductive, PTL

(* order.ts:66 and useOrder.ts:4: a buyer who is told they hold an order   *)
(* does, one told it is sold out does not, whatever a proxy answered and   *)
(* however late an abandoned request committed.                            *)
THEOREM VerdictsAreTrue == Spec => []VerdictTruthful
<1>1. IInv => VerdictTruthful
  BY DEF IInv, Told, Refused, VerdictTruthful
<1> QED
  BY <1>1, Inductive, PTL
=============================================================================
