-------------------------- MODULE OrderFlowProofs --------------------------
(***************************************************************************)
(* Proofs about OrderFlow, for every number of requests, buyers, instances *)
(* and units: type correctness, no oversell, one 202 per buyer and final   *)
(* "sold out" answers even when Redis loses its keys, and, when it does    *)
(* not, that OrderFlow implements SaleContract.                            *)
(***************************************************************************)
EXTENDS OrderFlow, FiniteSetTheorems, SequenceTheorems, TLAPS

AwaitedOps == ScriptOps \cup {"sismember"}

(* Who asked, where, and who has been answered.                            *)
Asked ==
    \A r \in Req :
        /\ pc[r] = "idle" => /\ buyer[r] = NoBuyer /\ ~known[r]
                             /\ verdict[r] = "none"
        /\ pc[r] # "idle" => buyer[r] \in Buyers /\ home[r] \in Apis
        /\ answer[r] = "none" <=> pc[r] # "done"

(* A command on a wire was sent by a request that arrived, and one that    *)
(* awaits a reply has not been replied to.                                 *)
Wired ==
    \A a \in Apis : \A i \in 1..Len(wire[a]) :
        /\ pc[wire[a][i].req] # "idle"
        /\ wire[a][i].op \in AwaitedOps => verdict[wire[a][i].req] = "none"

(* A request has at most one awaited command on the wires.                 *)
Alone ==
    \A a, c \in Apis : \A i \in 1..Len(wire[a]), j \in 1..Len(wire[c]) :
        /\ wire[a][i].op \in AwaitedOps /\ wire[c][j].op \in AwaitedOps
        /\ wire[a][i].req = wire[c][j].req
        => a = c /\ i = j

(* The books of Redis against the history of accepts.                      *)
Ledger ==
    /\ ordered \subseteq accepted
    /\ Cardinality(accepted) <= Stock
    /\ stock # Missing => /\ ordered = accepted
                          /\ stock + Cardinality(accepted) = Stock

SoldOutTo(b) == Cardinality(accepted) = Stock /\ b \notin accepted

(* Every verdict, pending, delivered or dropped, is true and stays true.   *)
Truthful ==
    \A r \in Req :
        /\ verdict[r] \in {"OK", "ALREADY", "MEMBER"} => buyer[r] \in accepted
        /\ verdict[r] = "SOLD_OUT" => SoldOutTo(buyer[r])

(* At most one request per buyer wins.                                     *)
OneWinner ==
    \A r, q \in Req :
        verdict[r] = "OK" /\ verdict[q] = "OK" /\ buyer[r] = buyer[q] => r = q

(* Every answer given is true and stays true.                              *)
Answered ==
    \A r \in Req :
        /\ answer[r] \in Contract!Confirming => buyer[r] \in accepted
        /\ answer[r] = "created" => verdict[r] = "OK"
        /\ answer[r] = "sold_out" => SoldOutTo(buyer[r])
        /\ known[r] => buyer[r] \in accepted

IInv == TypeOK /\ Asked /\ Wired /\ Alone /\ Ledger /\ Truthful /\ OneWinner /\ Answered

-----------------------------------------------------------------------------
(* The wires as sequences: what a step that consumes the head of a wire,   *)
(* appends to it, or keeps only a prefix leaves at each position.          *)

LEMMA CommandLemma ==
  ASSUME wire \in [Apis -> Seq(Cmd)], NEW a \in Apis, NEW i \in 1..Len(wire[a])
  PROVE  wire[a][i] \in Cmd /\ wire[a][i].req \in Req
<1>1. wire[a] \in Seq(Cmd)
  OBVIOUS
<1>2. wire[a][i] \in Cmd
  BY <1>1, ElementOfSeq
<1> QED
  BY <1>2 DEF Cmd

LEMMA ConsumeLemma ==
  ASSUME wire \in [Apis -> Seq(Cmd)], NEW a \in Apis, wire[a] # <<>>, Consume(a)
  PROVE  /\ wire' \in [Apis -> Seq(Cmd)]
         /\ 1 \in 1..Len(wire[a])
         /\ Head(wire[a]) = wire[a][1] /\ Head(wire[a]) \in Cmd
         /\ Len(wire'[a]) = Len(wire[a]) - 1
         /\ \A i \in 1..Len(wire'[a]) : i + 1 \in 1..Len(wire[a]) /\ wire'[a][i] = wire[a][i + 1]
         /\ \A c \in Apis \ {a} : wire'[c] = wire[c]
<1>1. wire[a] \in Seq(Cmd) /\ wire' = [wire EXCEPT ![a] = Tail(wire[a])]
  BY DEF Consume
<1>2. /\ Head(wire[a]) \in Cmd /\ Tail(wire[a]) \in Seq(Cmd)
      /\ Len(Tail(wire[a])) = Len(wire[a]) - 1
      /\ \A i \in 1..Len(Tail(wire[a])) : Tail(wire[a])[i] = wire[a][i + 1]
  BY <1>1, HeadTailProperties
<1>3. Len(wire[a]) \in Nat \ {0}
  BY <1>1, EmptySeq
<1>4. Head(wire[a]) = wire[a][1]
  BY <1>1
<1> QED
  BY <1>1, <1>2, <1>3, <1>4

LEMMA AppendLemma ==
  ASSUME wire \in [Apis -> Seq(Cmd)], NEW a \in Apis, NEW c \in Cmd,
         wire' = [wire EXCEPT ![a] = Append(@, c)]
  PROVE  /\ wire' \in [Apis -> Seq(Cmd)]
         /\ Len(wire[a]) \in Nat /\ Len(wire'[a]) = Len(wire[a]) + 1
         /\ \A i \in 1..Len(wire[a]) : wire'[a][i] = wire[a][i]
         /\ wire'[a][Len(wire[a]) + 1] = c
         /\ \A x \in Apis \ {a} : wire'[x] = wire[x]
<1>1. wire[a] \in Seq(Cmd) /\ wire' = [wire EXCEPT ![a] = Append(wire[a], c)]
  OBVIOUS
<1>2. /\ Append(wire[a], c) \in Seq(Cmd)
      /\ Len(Append(wire[a], c)) = Len(wire[a]) + 1
      /\ \A i \in 1..Len(wire[a]) : Append(wire[a], c)[i] = wire[a][i]
      /\ Append(wire[a], c)[Len(wire[a]) + 1] = c
  BY <1>1, AppendProperties
<1>3. Len(wire[a]) \in Nat
  BY <1>1, LenProperties
<1> QED
  BY <1>1, <1>2, <1>3

LEMMA PrefixLemma ==
  ASSUME wire \in [Apis -> Seq(Cmd)], NEW a \in Apis, NEW n \in 0..Len(wire[a]),
         wire' = [wire EXCEPT ![a] = SubSeq(@, 1, n)]
  PROVE  /\ wire' \in [Apis -> Seq(Cmd)]
         /\ \A x \in Apis : \A i \in 1..Len(wire'[x]) :
               i \in 1..Len(wire[x]) /\ wire'[x][i] = wire[x][i]
<1>1. wire[a] \in Seq(Cmd) /\ wire' = [wire EXCEPT ![a] = SubSeq(wire[a], 1, n)]
  OBVIOUS
<1>2. Len(wire[a]) \in Nat /\ \A i \in 1..Len(wire[a]) : wire[a][i] \in Cmd
  BY <1>1, LenProperties, ElementOfSeq
<1>3. /\ SubSeq(wire[a], 1, n) \in Seq(Cmd)
      /\ Len(SubSeq(wire[a], 1, n)) = IF 1 <= n THEN n - 1 + 1 ELSE 0
      /\ \A i \in 1..(n - 1 + 1) : SubSeq(wire[a], 1, n)[i] = wire[a][1 + i - 1]
  BY <1>2, SubSeqProperties
<1> QED
  BY <1>1, <1>2, <1>3

LEMMA ConcatLemma ==
  ASSUME wire \in [Apis -> Seq(Cmd)], NEW a \in Apis, NEW t \in Seq(Cmd),
         wire' = [wire EXCEPT ![a] = @ \o t]
  PROVE  /\ wire' \in [Apis -> Seq(Cmd)]
         /\ Len(wire[a]) \in Nat /\ Len(t) \in Nat
         /\ Len(wire'[a]) = Len(wire[a]) + Len(t)
         /\ \A i \in 1..Len(wire'[a]) :
               wire'[a][i] = IF i <= Len(wire[a]) THEN wire[a][i] ELSE t[i - Len(wire[a])]
         /\ \A x \in Apis \ {a} : wire'[x] = wire[x]
<1>1. wire[a] \in Seq(Cmd) /\ wire' = [wire EXCEPT ![a] = wire[a] \o t]
  OBVIOUS
<1>2. /\ wire[a] \o t \in Seq(Cmd)
      /\ Len(wire[a] \o t) = Len(wire[a]) + Len(t)
      /\ \A i \in 1..(Len(wire[a]) + Len(t)) :
            (wire[a] \o t)[i] = IF i <= Len(wire[a]) THEN wire[a][i] ELSE t[i - Len(wire[a])]
  BY <1>1, ConcatProperties
<1>3. Len(wire[a]) \in Nat /\ Len(t) \in Nat
  BY <1>1, LenProperties
<1> QED
  BY <1>1, <1>2, <1>3

-----------------------------------------------------------------------------
(* What the steps do to the two invariants of the wires.                   *)

(* Consuming the head of a wire keeps Alone and leaves no second command   *)
(* of the request it belonged to; every command left was there before.     *)
LEMMA ConsumeAlone ==
  ASSUME wire \in [Apis -> Seq(Cmd)], Alone, NEW a \in Apis, wire[a] # <<>>, Consume(a)
  PROVE  /\ wire' \in [Apis -> Seq(Cmd)] /\ Alone'
         /\ \E i \in 1..Len(wire[a]) : Head(wire[a]) = wire[a][i]
         /\ Head(wire[a]) \in Cmd
         /\ \A x \in Apis : \A i \in 1..Len(wire'[x]) :
               /\ \E k \in 1..Len(wire[x]) : wire'[x][i] = wire[x][k]
               /\ wire'[x][i] \in Cmd
               /\ wire'[x][i].op \in AwaitedOps /\ Head(wire[a]).op \in AwaitedOps
                  => wire'[x][i].req # Head(wire[a]).req
<1> DEFINE Old(x, i) == IF x = a THEN i + 1 ELSE i
<1>1. /\ wire' \in [Apis -> Seq(Cmd)]
      /\ 1 \in 1..Len(wire[a])
      /\ Head(wire[a]) = wire[a][1] /\ Head(wire[a]) \in Cmd
      /\ \A i \in 1..Len(wire'[a]) : i + 1 \in 1..Len(wire[a]) /\ wire'[a][i] = wire[a][i + 1]
      /\ \A c \in Apis \ {a} : wire'[c] = wire[c]
  BY ConsumeLemma
<1>2. \A x \in Apis : \A i \in 1..Len(wire'[x]) :
         Old(x, i) \in 1..Len(wire[x]) /\ wire'[x][i] = wire[x][Old(x, i)]
  BY <1>1
<1>3. Alone'
  <2> SUFFICES ASSUME NEW x \in Apis, NEW y \in Apis,
                      NEW i \in 1..Len(wire'[x]), NEW j \in 1..Len(wire'[y]),
                      wire'[x][i].op \in AwaitedOps, wire'[y][j].op \in AwaitedOps,
                      wire'[x][i].req = wire'[y][j].req
               PROVE  x = y /\ i = j
    BY DEF Alone
  <2>1. /\ Old(x, i) \in 1..Len(wire[x]) /\ wire'[x][i] = wire[x][Old(x, i)]
        /\ Old(y, j) \in 1..Len(wire[y]) /\ wire'[y][j] = wire[y][Old(y, j)]
    BY <1>2
  <2> HIDE DEF Old
  <2>2. x = y /\ Old(x, i) = Old(y, j)
    BY <2>1 DEF Alone
  <2> QED
    BY <2>2 DEF Old
<1>4. ASSUME NEW x \in Apis, NEW i \in 1..Len(wire'[x])
      PROVE  /\ \E k \in 1..Len(wire[x]) : wire'[x][i] = wire[x][k]
             /\ wire'[x][i] \in Cmd
             /\ wire'[x][i].op \in AwaitedOps /\ Head(wire[a]).op \in AwaitedOps
                => wire'[x][i].req # Head(wire[a]).req
  <2>1. Old(x, i) \in 1..Len(wire[x]) /\ wire'[x][i] = wire[x][Old(x, i)]
    BY <1>2
  <2>2. wire'[x][i] \in Cmd
    BY <2>1, ElementOfSeq
  <2>3. ASSUME wire'[x][i].op \in AwaitedOps, Head(wire[a]).op \in AwaitedOps,
               wire'[x][i].req = Head(wire[a]).req
        PROVE  FALSE
    <3>1. x = a /\ Old(x, i) = 1
      <4> HIDE DEF Old
      <4> QED
        BY <2>1, <2>3, <1>1 DEF Alone
    <3> QED
      BY <3>1
  <2> QED
    BY <2>1, <2>2, <2>3
<1> QED
  BY <1>1, <1>3, <1>4

(* A command that nobody awaits is executed.                               *)
LEMMA SilentStep ==
  ASSUME TypeOK, Wired, Alone, NEW a \in Apis, wire[a] # <<>>, Consume(a),
         UNCHANGED <<pc, verdict>>
  PROVE  /\ Head(wire[a]) \in Cmd /\ pc[Head(wire[a]).req] # "idle"
         /\ wire' \in [Apis -> Seq(Cmd)] /\ Wired' /\ Alone'
<1>1. /\ wire' \in [Apis -> Seq(Cmd)] /\ Alone'
      /\ \E i \in 1..Len(wire[a]) : Head(wire[a]) = wire[a][i]
      /\ Head(wire[a]) \in Cmd
      /\ \A x \in Apis : \A i \in 1..Len(wire'[x]) :
            \E k \in 1..Len(wire[x]) : wire'[x][i] = wire[x][k]
  BY ConsumeAlone DEF TypeOK
<1>2. Wired'
  <2> SUFFICES ASSUME NEW x \in Apis, NEW i \in 1..Len(wire'[x])
               PROVE  /\ pc[wire'[x][i].req] # "idle"
                      /\ wire'[x][i].op \in AwaitedOps => verdict[wire'[x][i].req] = "none"
    BY DEF Wired
  <2>1. PICK k \in 1..Len(wire[x]) : wire'[x][i] = wire[x][k]
    BY <1>1
  <2> QED
    BY <2>1 DEF Wired
<1>3. pc[Head(wire[a]).req] # "idle"
  BY <1>1 DEF Wired
<1> QED
  BY <1>1, <1>2, <1>3

(* An awaited command is executed, and its request gets verdict v.         *)
LEMMA ReplyStep ==
  ASSUME TypeOK, Wired, Alone, NEW a \in Apis, wire[a] # <<>>, Consume(a),
         NEW r, r = Head(wire[a]).req, Head(wire[a]).op \in AwaitedOps,
         NEW v \in Replies, NEW n \in Nat, ReplyTo(a, r, v, n), UNCHANGED pc
  PROVE  /\ r \in Req /\ pc[r] # "idle" /\ verdict[r] = "none"
         /\ verdict' = [verdict EXCEPT ![r] = v] /\ remaining' = [remaining EXCEPT ![r] = n]
         /\ wire' \in [Apis -> Seq(Cmd)] /\ Wired' /\ Alone'
         /\ inbox' \in [Apis -> Seq(Req)]
         /\ verdict' \in [Req -> Replies \cup {"none"}]
         /\ remaining' \in [Req -> Nat]
<1>1. /\ wire' \in [Apis -> Seq(Cmd)] /\ Alone'
      /\ \E i \in 1..Len(wire[a]) : Head(wire[a]) = wire[a][i]
      /\ Head(wire[a]) \in Cmd
      /\ \A x \in Apis : \A i \in 1..Len(wire'[x]) :
            /\ \E k \in 1..Len(wire[x]) : wire'[x][i] = wire[x][k]
            /\ wire'[x][i] \in Cmd
            /\ wire'[x][i].op \in AwaitedOps => wire'[x][i].req # r
  BY ConsumeAlone DEF TypeOK
<1>2. r \in Req
  BY <1>1 DEF Cmd
<1>3. pc[r] # "idle" /\ verdict[r] = "none"
  BY <1>1 DEF Wired
<1>4. /\ verdict' = [verdict EXCEPT ![r] = v] /\ remaining' = [remaining EXCEPT ![r] = n]
      /\ verdict' \in [Req -> Replies \cup {"none"}]
      /\ remaining' \in [Req -> Nat]
  BY <1>2 DEF ReplyTo, TypeOK
<1>5. inbox' \in [Apis -> Seq(Req)]
  <2>1. inbox \in [Apis -> Seq(Req)]
    BY DEF TypeOK
  <2>2. Append(inbox[a], r) \in Seq(Req)
    BY <2>1, <1>2, AppendProperties
  <2> QED
    BY <2>1, <2>2 DEF ReplyTo
<1>6. Wired'
  <2> SUFFICES ASSUME NEW x \in Apis, NEW i \in 1..Len(wire'[x])
               PROVE  /\ pc[wire'[x][i].req] # "idle"
                      /\ wire'[x][i].op \in AwaitedOps => verdict'[wire'[x][i].req] = "none"
    BY DEF Wired
  <2>1. PICK k \in 1..Len(wire[x]) : wire'[x][i] = wire[x][k]
    BY <1>1
  <2>2. pc[wire'[x][i].req] # "idle"
    BY <2>1 DEF Wired
  <2>3. ASSUME wire'[x][i].op \in AwaitedOps
        PROVE  verdict'[wire'[x][i].req] = "none"
    <3>1. verdict[wire'[x][i].req] = "none" /\ wire'[x][i].req # r
      BY <2>1, <2>3, <1>1 DEF Wired
    <3>2. wire'[x][i].req \in Req
      BY <1>1 DEF Cmd
    <3> QED
      BY <3>1, <3>2, <1>4 DEF TypeOK
  <2> QED
    BY <2>2, <2>3
<1> QED
  BY <1>1, <1>2, <1>3, <1>4, <1>5, <1>6

(* A handler sends one command for r, which has none on the wires that is  *)
(* still awaited.                                                          *)
LEMMA SendStep ==
  ASSUME TypeOK, Wired, Alone, NEW a \in Apis, NEW r \in Req, NEW op \in Ops,
         wire' = [wire EXCEPT ![a] = Append(@, Command(op, r))],
         pc[r] = "idle" \/ verdict[r] # "none",
         NEW p, p # "idle", pc' = [pc EXCEPT ![r] = p],
         verdict' = [verdict EXCEPT ![r] = "none"]
  PROVE  wire' \in [Apis -> Seq(Cmd)] /\ Wired' /\ Alone'
<1> DEFINE c == Command(op, r)
<1>1. c \in Cmd /\ c.req = r /\ c.op = op
  BY DEF Cmd, Command
<1> HIDE DEF c
<1>2. wire' = [wire EXCEPT ![a] = Append(@, c)]
  BY DEF c
<1>3. /\ wire' \in [Apis -> Seq(Cmd)]
      /\ Len(wire[a]) \in Nat /\ Len(wire'[a]) = Len(wire[a]) + 1
      /\ \A i \in 1..Len(wire[a]) : wire'[a][i] = wire[a][i]
      /\ wire'[a][Len(wire[a]) + 1] = c
      /\ \A x \in Apis \ {a} : wire'[x] = wire[x]
  BY <1>1, <1>2, AppendLemma DEF TypeOK
<1>4. ASSUME NEW x \in Apis, NEW i \in 1..Len(wire'[x])
      PROVE  \/ x = a /\ i = Len(wire[a]) + 1 /\ wire'[x][i] = c
             \/ i \in 1..Len(wire[x]) /\ wire'[x][i] = wire[x][i]
  BY <1>3
<1>5. ASSUME NEW x \in Apis, NEW i \in 1..Len(wire[x]), wire[x][i].op \in AwaitedOps
      PROVE  wire[x][i].req # r
  BY <1>5 DEF Wired
<1>6. ASSUME NEW x \in Apis, NEW i \in 1..Len(wire[x])
      PROVE  wire[x][i].req \in Req
  BY CommandLemma DEF TypeOK
<1>7. Wired'
  <2> SUFFICES ASSUME NEW x \in Apis, NEW i \in 1..Len(wire'[x])
               PROVE  /\ pc'[wire'[x][i].req] # "idle"
                      /\ wire'[x][i].op \in AwaitedOps => verdict'[wire'[x][i].req] = "none"
    BY DEF Wired
  <2>1. CASE wire'[x][i] = c
    BY <2>1, <1>1 DEF TypeOK
  <2>2. CASE i \in 1..Len(wire[x]) /\ wire'[x][i] = wire[x][i]
    BY <2>2, <1>6 DEF TypeOK, Wired
  <2> QED
    BY <1>4, <2>1, <2>2
<1>8. Alone'
  <2> SUFFICES ASSUME NEW x \in Apis, NEW y \in Apis,
                      NEW i \in 1..Len(wire'[x]), NEW j \in 1..Len(wire'[y]),
                      wire'[x][i].op \in AwaitedOps, wire'[y][j].op \in AwaitedOps,
                      wire'[x][i].req = wire'[y][j].req
               PROVE  x = y /\ i = j
    BY DEF Alone
  <2>1. CASE /\ i \in 1..Len(wire[x]) /\ wire'[x][i] = wire[x][i]
             /\ j \in 1..Len(wire[y]) /\ wire'[y][j] = wire[y][j]
    BY <2>1 DEF Alone
  <2>2. CASE /\ x = a /\ i = Len(wire[a]) + 1 /\ wire'[x][i] = c
             /\ y = a /\ j = Len(wire[a]) + 1
    BY <2>2
  <2>3. CASE /\ wire'[x][i] = c
             /\ j \in 1..Len(wire[y]) /\ wire'[y][j] = wire[y][j]
    BY <2>3, <1>1, <1>5
  <2>4. CASE /\ i \in 1..Len(wire[x]) /\ wire'[x][i] = wire[x][i]
             /\ wire'[y][j] = c
    BY <2>4, <1>1, <1>5
  <2> QED
    BY <1>4, <2>1, <2>2, <2>3, <2>4
<1> QED
  BY <1>3, <1>7, <1>8

(* The side effects of a 202 are appended; none of them is awaited.        *)
LEMMA SideEffectStep ==
  ASSUME TypeOK, Wired, Alone, NEW a \in Apis, NEW r \in Req,
         wire' = [wire EXCEPT ![a] = @ \o SideEffects(r)],
         pc[r] # "idle", NEW p, p # "idle", pc' = [pc EXCEPT ![r] = p],
         UNCHANGED verdict
  PROVE  wire' \in [Apis -> Seq(Cmd)] /\ Wired' /\ Alone'
<1> DEFINE t == SideEffects(r)
<1>1. /\ t \in Seq(Cmd)
      /\ \A i \in 1..Len(t) : t[i].req = r /\ t[i].op \notin AwaitedOps
  <2>1. /\ Command("xadd", r) \in Cmd /\ Command("accepted", r) \in Cmd
        /\ Command("sold_out", r) \in Cmd
    BY DEF Cmd, Command, Ops
  <2>2. /\ \A op : Command(op, r).req = r /\ Command(op, r).op = op
    BY DEF Command
  <2>3. CASE TookLast(r)
    <3>1. t = <<Command("xadd", r), Command("accepted", r), Command("sold_out", r)>>
      BY <2>3, <2>1 DEF SideEffects
    <3>2. t \in Seq(Cmd)
      BY <3>1, <2>1
    <3> QED
      BY <3>1, <3>2, <2>2 DEF AwaitedOps, ScriptOps
  <2>4. CASE ~TookLast(r)
    <3>1. t = <<Command("xadd", r), Command("accepted", r)>>
      BY <2>4, <2>1 DEF SideEffects
    <3>2. t \in Seq(Cmd)
      BY <3>1, <2>1
    <3> QED
      BY <3>1, <3>2, <2>2 DEF AwaitedOps, ScriptOps
  <2> QED
    BY <2>3, <2>4
<1>2. wire' = [wire EXCEPT ![a] = @ \o t]
  OBVIOUS
<1> HIDE DEF t
<1>3. /\ wire' \in [Apis -> Seq(Cmd)]
      /\ Len(wire[a]) \in Nat /\ Len(t) \in Nat
      /\ Len(wire'[a]) = Len(wire[a]) + Len(t)
      /\ \A i \in 1..Len(wire'[a]) :
            wire'[a][i] = IF i <= Len(wire[a]) THEN wire[a][i] ELSE t[i - Len(wire[a])]
      /\ \A x \in Apis \ {a} : wire'[x] = wire[x]
  BY <1>1, <1>2, ConcatLemma DEF TypeOK
<1>4. ASSUME NEW x \in Apis, NEW i \in 1..Len(wire'[x])
      PROVE  \/ wire'[x][i].req = r /\ wire'[x][i].op \notin AwaitedOps
             \/ i \in 1..Len(wire[x]) /\ wire'[x][i] = wire[x][i]
  <2>1. CASE x = a /\ i > Len(wire[a])
    <3>1. i - Len(wire[a]) \in 1..Len(t) /\ wire'[x][i] = t[i - Len(wire[a])]
      BY <1>3, <2>1
    <3> QED
      BY <3>1, <1>1
  <2>2. CASE x = a /\ i <= Len(wire[a])
    BY <1>3, <2>2
  <2>3. CASE x # a
    BY <1>3, <2>3
  <2> QED
    BY <2>1, <2>2, <2>3, <1>3
<1>5. ASSUME NEW x \in Apis, NEW i \in 1..Len(wire[x])
      PROVE  wire[x][i].req \in Req
  BY CommandLemma DEF TypeOK
<1>6. Wired'
  <2> SUFFICES ASSUME NEW x \in Apis, NEW i \in 1..Len(wire'[x])
               PROVE  /\ pc'[wire'[x][i].req] # "idle"
                      /\ wire'[x][i].op \in AwaitedOps => verdict[wire'[x][i].req] = "none"
    BY DEF Wired
  <2>1. CASE wire'[x][i].req = r /\ wire'[x][i].op \notin AwaitedOps
    BY <2>1 DEF TypeOK
  <2>2. CASE i \in 1..Len(wire[x]) /\ wire'[x][i] = wire[x][i]
    BY <2>2, <1>5 DEF TypeOK, Wired
  <2> QED
    BY <1>4, <2>1, <2>2
<1>7. Alone'
  <2> SUFFICES ASSUME NEW x \in Apis, NEW y \in Apis,
                      NEW i \in 1..Len(wire'[x]), NEW j \in 1..Len(wire'[y]),
                      wire'[x][i].op \in AwaitedOps, wire'[y][j].op \in AwaitedOps,
                      wire'[x][i].req = wire'[y][j].req
               PROVE  x = y /\ i = j
    BY DEF Alone
  <2>1. /\ i \in 1..Len(wire[x]) /\ wire'[x][i] = wire[x][i]
        /\ j \in 1..Len(wire[y]) /\ wire'[y][j] = wire[y][j]
    BY <1>4
  <2> QED
    BY <2>1 DEF Alone
<1> QED
  BY <1>3, <1>6, <1>7

(* A broken connection keeps a prefix of its wire.                         *)
LEMMA CutStep ==
  ASSUME TypeOK, Wired, Alone, NEW a \in Apis, NEW n \in 0..Len(wire[a]),
         wire' = [wire EXCEPT ![a] = SubSeq(@, 1, n)],
         \A r \in Req : pc[r] # "idle" => pc'[r] # "idle", UNCHANGED verdict
  PROVE  wire' \in [Apis -> Seq(Cmd)] /\ Wired' /\ Alone'
<1>1. /\ wire' \in [Apis -> Seq(Cmd)]
      /\ \A x \in Apis : \A i \in 1..Len(wire'[x]) :
            i \in 1..Len(wire[x]) /\ wire'[x][i] = wire[x][i]
  BY PrefixLemma DEF TypeOK
<1>2. ASSUME NEW x \in Apis, NEW i \in 1..Len(wire[x])
      PROVE  wire[x][i].req \in Req
  BY CommandLemma DEF TypeOK
<1>3. Wired'
  <2> SUFFICES ASSUME NEW x \in Apis, NEW i \in 1..Len(wire'[x])
               PROVE  /\ pc'[wire'[x][i].req] # "idle"
                      /\ wire'[x][i].op \in AwaitedOps => verdict[wire'[x][i].req] = "none"
    BY DEF Wired
  <2>1. i \in 1..Len(wire[x]) /\ wire'[x][i] = wire[x][i]
    BY <1>1
  <2> QED
    BY <2>1, <1>2 DEF Wired
<1>4. Alone'
  <2> SUFFICES ASSUME NEW x \in Apis, NEW y \in Apis,
                      NEW i \in 1..Len(wire'[x]), NEW j \in 1..Len(wire'[y]),
                      wire'[x][i].op \in AwaitedOps, wire'[y][j].op \in AwaitedOps,
                      wire'[x][i].req = wire'[y][j].req
               PROVE  x = y /\ i = j
    BY DEF Alone
  <2>1. /\ i \in 1..Len(wire[x]) /\ wire'[x][i] = wire[x][i]
        /\ j \in 1..Len(wire[y]) /\ wire'[y][j] = wire[y][j]
    BY <1>1
  <2> QED
    BY <2>1 DEF Alone
<1> QED
  BY <1>1, <1>3, <1>4

-----------------------------------------------------------------------------
(* What the steps do to the books, the verdicts and the answers.           *)

(* A verdict that accepts nobody is recorded, or discarded ("none").       *)
LEMMA VerdictStep ==
  ASSUME TypeOK, Truthful, OneWinner, Answered,
         NEW r \in Req, verdict[r] # "OK",
         NEW v, v # "OK", verdict' = [verdict EXCEPT ![r] = v],
         v \in {"ALREADY", "MEMBER"} => buyer[r] \in accepted,
         v = "SOLD_OUT" => SoldOutTo(buyer[r]),
         UNCHANGED <<buyer, accepted, answer, known>>
  PROVE  Truthful' /\ OneWinner' /\ Answered'
<1>1. \A q \in Req : verdict'[q] = IF q = r THEN v ELSE verdict[q]
  BY DEF TypeOK
<1>2. Truthful'
  BY <1>1 DEF Truthful, SoldOutTo
<1>3. OneWinner'
  BY <1>1 DEF OneWinner
<1>4. Answered'
  BY <1>1 DEF Answered, SoldOutTo
<1> QED
  BY <1>2, <1>3, <1>4

(* The script takes a unit for b, the buyer of r.                          *)
LEMMA AcceptStep ==
  ASSUME TypeOK, Ledger, Truthful, OneWinner, Answered,
         NEW r \in Req, buyer[r] \in Buyers, verdict[r] # "OK",
         stock # Missing, ~HasOrder(buyer[r]), ~Drained,
         ordered' = ordered \cup {buyer[r]}, stock' = stock - 1,
         accepted' = accepted \cup {buyer[r]},
         verdict' = [verdict EXCEPT ![r] = "OK"],
         UNCHANGED <<buyer, answer, known>>
  PROVE  /\ stock' \in Nat /\ ordered' \subseteq Buyers /\ accepted' \subseteq Buyers
         /\ Cardinality(accepted) < Stock /\ buyer[r] \notin accepted
         /\ Ledger' /\ Truthful' /\ OneWinner' /\ Answered'
<1> DEFINE b == buyer[r]
<1>1. ordered = accepted /\ b \notin accepted
  BY DEF Ledger, HasOrder
<1>2. stock \in Nat /\ stock > 0
  BY DEF TypeOK, Drained
<1>3. IsFiniteSet(accepted)
  BY FiniteAssumption, FS_Subset DEF TypeOK
<1>4. Cardinality(accepted) \in Nat
  BY <1>3, FS_CardinalityType
<1>5. Cardinality(accepted') = Cardinality(accepted) + 1
  BY <1>1, <1>3, FS_AddElement
<1>6. stock + Cardinality(accepted) = Stock
  BY DEF Ledger
<1>7. stock' \in Nat /\ Cardinality(accepted) < Stock
  BY <1>2, <1>4, <1>6, StockAssumption
<1>8. ordered' \subseteq Buyers /\ accepted' \subseteq Buyers
  BY DEF TypeOK
<1>9. Ledger'
  BY <1>1, <1>2, <1>4, <1>5, <1>6, StockAssumption DEF Ledger
<1>10. \A q \in Req : verdict'[q] = IF q = r THEN "OK" ELSE verdict[q]
  BY DEF TypeOK
<1>11. \A q \in Req : ~SoldOutTo(buyer[q])
  BY <1>7, <1>4, StockAssumption DEF SoldOutTo
<1>12. Truthful'
  BY <1>10, <1>11 DEF Truthful
<1>13. OneWinner'
  BY <1>1, <1>10 DEF OneWinner, Truthful
<1>14. Answered'
  BY <1>10, <1>11 DEF Answered
<1> QED
  BY <1>1, <1>7, <1>8, <1>9, <1>12, <1>13, <1>14

(* order.lua as a whole.                                                   *)
LEMMA ScriptStep ==
  ASSUME TypeOK, Ledger, Truthful, OneWinner, Answered,
         NEW a \in Apis, NEW r \in Req, buyer[r] \in Buyers, verdict[r] = "none",
         OrderScript(a, r), UNCHANGED <<buyer, answer, known>>
  PROVE  /\ \E v \in Replies, n \in Nat : ReplyTo(a, r, v, n)
         /\ stock' \in Nat \cup {Missing}
         /\ ordered' \subseteq Buyers /\ accepted' \subseteq Buyers
         /\ Ledger' /\ Truthful' /\ OneWinner' /\ Answered'
<1>1. CASE stock = Missing /\ ReplyTo(a, r, "ERROR", 0) /\ UNCHANGED <<stock, ordered, accepted>>
  <2>1. verdict' = [verdict EXCEPT ![r] = "ERROR"]
    BY <1>1 DEF ReplyTo
  <2>2. Truthful' /\ OneWinner' /\ Answered'
    BY <1>1, <2>1, VerdictStep
  <2> QED
    BY <1>1, <2>2 DEF TypeOK, Ledger, Replies
<1>2. CASE /\ stock # Missing /\ HasOrder(buyer[r]) /\ ReplyTo(a, r, "ALREADY", stock)
           /\ UNCHANGED <<stock, ordered, accepted>>
  <2>1. verdict' = [verdict EXCEPT ![r] = "ALREADY"] /\ stock \in Nat
    BY <1>2 DEF ReplyTo, TypeOK
  <2>2. buyer[r] \in accepted
    BY <1>2 DEF HasOrder, Ledger
  <2>3. Truthful' /\ OneWinner' /\ Answered'
    BY <1>2, <2>1, <2>2, VerdictStep
  <2> QED
    BY <1>2, <2>1, <2>3 DEF TypeOK, Ledger, Replies, Verdicts
<1>3. CASE /\ stock # Missing /\ ~HasOrder(buyer[r]) /\ Drained
           /\ ReplyTo(a, r, "SOLD_OUT", stock) /\ UNCHANGED <<stock, ordered, accepted>>
  <2>1. verdict' = [verdict EXCEPT ![r] = "SOLD_OUT"] /\ stock \in Nat
    BY <1>3 DEF ReplyTo, TypeOK
  <2>2. IsFiniteSet(accepted)
    BY FiniteAssumption, FS_Subset DEF TypeOK
  <2>3. SoldOutTo(buyer[r])
    BY <1>3, <2>1, <2>2, FS_CardinalityType, StockAssumption DEF HasOrder, Ledger, Drained, SoldOutTo
  <2>4. Truthful' /\ OneWinner' /\ Answered'
    BY <1>3, <2>1, <2>3, VerdictStep
  <2> QED
    BY <1>3, <2>1, <2>4 DEF TypeOK, Ledger, Replies, Verdicts
<1>4. CASE /\ stock # Missing /\ ~HasOrder(buyer[r]) /\ ~Drained
           /\ ordered' = ordered \cup {buyer[r]} /\ stock' = stock - 1
           /\ accepted' = accepted \cup {buyer[r]} /\ ReplyTo(a, r, "OK", stock - 1)
  <2>1. verdict' = [verdict EXCEPT ![r] = "OK"]
    BY <1>4 DEF ReplyTo
  <2>2. /\ stock' \in Nat /\ ordered' \subseteq Buyers /\ accepted' \subseteq Buyers
        /\ Ledger' /\ Truthful' /\ OneWinner' /\ Answered'
    BY <1>4, <2>1, AcceptStep
  <2>3. ReplyTo(a, r, "OK", stock') /\ "OK" \in Replies
    BY <1>4 DEF Replies, Verdicts
  <2> QED
    BY <2>2, <2>3
<1> QED
  BY <1>1, <1>2, <1>3, <1>4 DEF OrderScript, Take

(* A handler gives r the answer ans, which is true.                        *)
LEMMA AnswerStep ==
  ASSUME TypeOK, Answered, NEW r \in Req, NEW ans,
         answer' = [answer EXCEPT ![r] = ans],
         ans \in Contract!Confirming => buyer[r] \in accepted,
         ans = "created" => verdict[r] = "OK",
         ans = "sold_out" => SoldOutTo(buyer[r]),
         UNCHANGED <<buyer, accepted, verdict, known>>
  PROVE  Answered'
  BY DEF TypeOK, Answered, SoldOutTo

-----------------------------------------------------------------------------
(* The inductive step, action by action.                                   *)

(* Wires and verdicts untouched, no request forgotten.                     *)
LEMMA KeepWires ==
  ASSUME TypeOK, Wired, Alone, UNCHANGED <<wire, verdict>>,
         \A r \in Req : pc[r] # "idle" => pc'[r] # "idle"
  PROVE  Wired' /\ Alone'
<1>1. ASSUME NEW x \in Apis, NEW i \in 1..Len(wire[x])
      PROVE  wire[x][i].req \in Req
  BY CommandLemma DEF TypeOK
<1>2. Wired'
  BY <1>1 DEF Wired
<1>3. Alone'
  BY DEF Alone
<1> QED
  BY <1>2, <1>3

LEMMA HandleInv ==
  ASSUME IInv, NEW r \in Req, NEW b \in Buyers, NEW a \in Apis,
         NEW awaiting \in InFlight, NEW op \in Ops, Handle(r, b, a, awaiting, op)
  PROVE  IInv'
<1> USE DEF IInv
<1>1. /\ pc[r] = "idle" /\ verdict[r] = "none" /\ answer[r] = "none" /\ ~known[r]
  BY DEF Handle, Asked
<1>2. PICK p \in InFlight \cup {"refused"} : pc' = [pc EXCEPT ![r] = p]
  BY DEF Handle
<1>3. p # "idle" /\ p # "done"
  BY DEF InFlight
<1>4. /\ buyer' = [buyer EXCEPT ![r] = b] /\ home' = [home EXCEPT ![r] = a]
      /\ known' = [known EXCEPT ![r] = Contract!Confirmed(b)]
      /\ UNCHANGED <<phase, redisVars, up, inbox, replyVars, answer, accepted>>
  BY DEF Handle
<1>5. wire' \in [Apis -> Seq(Cmd)] /\ Wired' /\ Alone'
  <2>1. CASE wire' = [wire EXCEPT ![a] = Append(@, Command(op, r))]
    <3>1. verdict' = [verdict EXCEPT ![r] = "none"]
      BY <1>1, <1>4 DEF TypeOK, replyVars
    <3> QED
      BY <2>1, <3>1, <1>1, <1>2, <1>3, SendStep
  <2>2. CASE UNCHANGED wire
    <3>1. \A q \in Req : pc[q] # "idle" => pc'[q] # "idle"
      BY <1>2, <1>3 DEF TypeOK
    <3> QED
      BY <2>2, <3>1, <1>4, KeepWires DEF TypeOK, replyVars
  <2> QED
    BY <2>1, <2>2 DEF Handle
<1>6. Contract!Confirmed(b) \in BOOLEAN /\ (Contract!Confirmed(b) => b \in accepted)
  BY DEF Answered, Contract!Confirmed
<1>7. TypeOK'
  BY <1>2, <1>4, <1>5, <1>6 DEF TypeOK, redisVars, replyVars
<1>8. Asked'
  BY <1>1, <1>2, <1>3, <1>4 DEF Asked, TypeOK, replyVars
<1>9. Ledger'
  BY <1>4 DEF Ledger, redisVars
<1>10. \A q \in Req : buyer'[q] = IF q = r THEN b ELSE buyer[q]
  BY <1>4 DEF TypeOK
<1>11. Truthful' /\ OneWinner'
  BY <1>1, <1>4, <1>10 DEF Truthful, OneWinner, SoldOutTo, replyVars
<1>12. Answered'
  BY <1>1, <1>4, <1>6, <1>10 DEF Answered, SoldOutTo, TypeOK, replyVars, Contract!Confirming
<1> QED
  BY <1>5, <1>7, <1>8, <1>9, <1>11, <1>12

LEMMA ExecuteInv ==
  ASSUME IInv, NEW a \in Apis, RunEvalSha(a) \/ RunEval(a) \/ RunSIsMember(a)
  PROVE  IInv'
<1> USE DEF IInv
<1> DEFINE r == Head(wire[a]).req
<1>1. /\ wire[a] # <<>> /\ Consume(a) /\ Head(wire[a]).op \in AwaitedOps
      /\ UNCHANGED <<phase, queue, events, up, pc, buyer, home, known, answer>>
      /\ scriptCached' \in BOOLEAN
  BY DEF RunEvalSha, RunEval, RunSIsMember, NextCommand, AwaitedOps, ScriptOps,
         requestVars, redisVars, TypeOK
<1>2. /\ r \in Req /\ pc[r] # "idle" /\ verdict[r] = "none"
  <2>1. /\ \E i \in 1..Len(wire[a]) : Head(wire[a]) = wire[a][i]
        /\ Head(wire[a]) \in Cmd
    BY <1>1, ConsumeAlone DEF TypeOK
  <2> QED
    BY <2>1, <1>1 DEF Cmd, Wired
<1>3. buyer[r] \in Buyers
  BY <1>2 DEF Asked
<1>4. /\ \E v \in Replies, n \in Nat : ReplyTo(a, r, v, n)
      /\ stock' \in Nat \cup {Missing}
      /\ ordered' \subseteq Buyers /\ accepted' \subseteq Buyers
      /\ Ledger' /\ Truthful' /\ OneWinner' /\ Answered'
  <2>1. CASE OrderScript(a, r)
    BY <2>1, <1>1, <1>2, <1>3, ScriptStep
  <2>2. CASE \E v \in {"NOSCRIPT", "MEMBER", "STRANGER"} :
               /\ ReplyTo(a, r, v, 0) /\ UNCHANGED <<stock, ordered, accepted>>
               /\ v = "MEMBER" => buyer[r] \in ordered
    <3>1. PICK v \in {"NOSCRIPT", "MEMBER", "STRANGER"} :
               /\ ReplyTo(a, r, v, 0) /\ UNCHANGED <<stock, ordered, accepted>>
               /\ v = "MEMBER" => buyer[r] \in ordered
      BY <2>2
    <3>2. verdict' = [verdict EXCEPT ![r] = v]
      BY <3>1 DEF ReplyTo
    <3>3. v = "MEMBER" => buyer[r] \in accepted
      BY <3>1 DEF Ledger
    <3>4. Truthful' /\ OneWinner' /\ Answered'
      BY <1>1, <1>2, <3>1, <3>2, <3>3, VerdictStep
    <3> QED
      BY <3>1, <3>4 DEF TypeOK, Ledger, Replies
  <2>3. CASE RunEvalSha(a)
    BY <2>1, <2>2, <2>3 DEF RunEvalSha
  <2>4. CASE RunEval(a)
    BY <2>1, <2>4 DEF RunEval
  <2>5. CASE RunSIsMember(a)
    BY <2>2, <2>5 DEF RunSIsMember, redisVars
  <2> QED
    BY <2>3, <2>4, <2>5
<1>5. PICK v \in Replies, n \in Nat : ReplyTo(a, r, v, n)
  BY <1>4
<1>6. /\ verdict' = [verdict EXCEPT ![r] = v]
      /\ wire' \in [Apis -> Seq(Cmd)] /\ Wired' /\ Alone'
      /\ inbox' \in [Apis -> Seq(Req)]
      /\ verdict' \in [Req -> Replies \cup {"none"}]
      /\ remaining' \in [Req -> Nat]
  BY <1>1, <1>5, ReplyStep
<1>7. TypeOK'
  BY <1>1, <1>4, <1>6 DEF TypeOK
<1>8. Asked'
  BY <1>1, <1>2, <1>6 DEF Asked, TypeOK
<1> QED
  BY <1>4, <1>6, <1>7, <1>8

LEMMA SideEffectInv ==
  ASSUME IInv, NEW a \in Apis, RunXAdd(a) \/ RunPublish(a)
  PROVE  IInv'
<1> USE DEF IInv
<1> DEFINE r == Head(wire[a]).req
<1>1. /\ wire[a] # <<>> /\ Consume(a)
      /\ UNCHANGED <<phase, stock, ordered, scriptCached, up, inbox, pc, buyer, home, known,
                     verdict, remaining, answer, accepted>>
  BY DEF RunXAdd, RunPublish, NextCommand, requestVars, replyVars
<1>2. /\ Head(wire[a]) \in Cmd /\ pc[r] # "idle"
      /\ wire' \in [Apis -> Seq(Cmd)] /\ Wired' /\ Alone'
  BY <1>1, SilentStep
<1>3. buyer[r] \in Buyers
  BY <1>2 DEF Asked, Cmd
<1>4. queue' \in Seq(Buyers) /\ events' \in Seq({"accepted", "sold_out"})
  <2>1. queue \in Seq(Buyers) /\ events \in Seq({"accepted", "sold_out"})
    BY DEF TypeOK
  <2>2. CASE RunXAdd(a)
    BY <2>1, <2>2, <1>3, AppendProperties DEF RunXAdd
  <2>3. CASE RunPublish(a)
    BY <2>1, <2>3, AppendProperties DEF RunPublish
  <2> QED
    BY <2>2, <2>3
<1>5. TypeOK'
  BY <1>1, <1>2, <1>4 DEF TypeOK
<1>6. Asked' /\ Ledger' /\ Truthful' /\ OneWinner' /\ Answered'
  BY <1>1 DEF Asked, Ledger, Truthful, OneWinner, Answered, SoldOutTo
<1> QED
  BY <1>2, <1>5, <1>6

(* What a delivered reply leaves alone.                                    *)
LEMMA SettleInv ==
  ASSUME IInv, NEW a \in Apis, NEW r \in Req, NEW ans \in Contract!Answers,
         Settle(a, r, ans), pc[r] \in InFlight,
         wire' \in [Apis -> Seq(Cmd)], Wired', Alone',
         ans \in Contract!Confirming => buyer[r] \in accepted,
         ans = "created" => verdict[r] = "OK",
         ans = "sold_out" => SoldOutTo(buyer[r])
  PROVE  IInv'
<1> USE DEF IInv
<1>1. /\ inbox[a] # <<>> /\ inbox' = [inbox EXCEPT ![a] = Tail(inbox[a])]
      /\ pc' = [pc EXCEPT ![r] = "done"] /\ answer' = [answer EXCEPT ![r] = ans]
      /\ UNCHANGED <<phase, stock, ordered, scriptCached, queue, events, up, buyer, home,
                     known, verdict, remaining, accepted>>
  BY DEF Settle, Deliver, Finish, redisVars, replyVars, TypeOK
<1>2. inbox' \in [Apis -> Seq(Req)]
  <2>1. inbox[a] \in Seq(Req)
    BY DEF TypeOK
  <2>2. Tail(inbox[a]) \in Seq(Req)
    BY <1>1, <2>1, HeadTailProperties
  <2> QED
    BY <1>1, <2>2 DEF TypeOK
<1>3. TypeOK'
  BY <1>1, <1>2 DEF TypeOK
<1>4. Asked'
  <2>1. ans # "none" /\ pc[r] # "idle"
    BY DEF Contract!Answers, Contract!Confirming, Contract!Refusing, InFlight
  <2> QED
    BY <1>1, <2>1 DEF Asked, TypeOK
<1>5. Answered'
  BY <1>1, AnswerStep
<1>6. Ledger' /\ Truthful' /\ OneWinner'
  BY <1>1 DEF Ledger, Truthful, OneWinner, SoldOutTo
<1> QED
  BY <1>3, <1>4, <1>5, <1>6

(* Answering r forgets no request.                                         *)
LEMMA SettleWires ==
  ASSUME IInv, NEW a \in Apis, NEW r \in Req, NEW ans, Settle(a, r, ans), UNCHANGED wire
  PROVE  wire' \in [Apis -> Seq(Cmd)] /\ Wired' /\ Alone'
<1>1. \A q \in Req : pc[q] # "idle" => pc'[q] # "idle"
  BY DEF Settle, Finish, IInv, TypeOK
<1>2. UNCHANGED <<wire, verdict>>
  BY DEF Settle, replyVars
<1> QED
  BY <1>1, <1>2, KeepWires DEF IInv, TypeOK

LEMMA CreatedInv ==
  ASSUME IInv, NEW a \in Apis, NEW r \in Req, OnCreated(a, r)
  PROVE  IInv'
<1>1. /\ Settle(a, r, "created") /\ verdict[r] = "OK" /\ pc[r] \in InFlight
      /\ wire' = [wire EXCEPT ![a] = @ \o SideEffects(r)]
  BY DEF OnCreated, Won, InFlight
<1>2. pc' = [pc EXCEPT ![r] = "done"] /\ UNCHANGED verdict /\ pc[r] # "idle"
  BY <1>1 DEF Settle, Finish, replyVars, InFlight
<1>3. wire' \in [Apis -> Seq(Cmd)] /\ Wired' /\ Alone'
  BY <1>1, <1>2, SideEffectStep DEF IInv
<1>4. buyer[r] \in accepted /\ "created" \in Contract!Answers
  BY <1>1 DEF IInv, Truthful, Contract!Answers, Contract!Confirming
<1> QED
  BY <1>1, <1>3, <1>4, SettleInv

LEMMA DecidedInv ==
  ASSUME IInv, NEW a \in Apis, NEW r \in Req,
         OnDecided(a, r) \/ OnProbed(a, r) \/ OnChecked(a, r)
  PROVE  IInv'
<1>1. PICK ans \in Contract!Answers :
         /\ Settle(a, r, ans)
         /\ ans \in Contract!Confirming => verdict[r] \in {"ALREADY", "MEMBER"}
         /\ ans # "created"
         /\ ans = "sold_out" => verdict[r] = "SOLD_OUT"
  <2>1. CASE OnDecided(a, r)
    BY <2>1 DEF OnDecided, Contract!Answers, Contract!Confirming, Contract!Refusing
  <2>2. CASE OnProbed(a, r)
    BY <2>2 DEF OnProbed, Contract!Answers, Contract!Confirming, Contract!Refusing
  <2>3. CASE OnChecked(a, r)
    BY <2>3 DEF OnChecked, Contract!Answers, Contract!Confirming, Contract!Refusing
  <2> QED
    BY <2>1, <2>2, <2>3
<1>2. UNCHANGED wire /\ pc[r] \in InFlight
  BY DEF OnDecided, OnProbed, OnChecked, InFlight
<1>3. wire' \in [Apis -> Seq(Cmd)] /\ Wired' /\ Alone'
  BY <1>1, <1>2, SettleWires
<1>4. /\ ans \in Contract!Confirming => buyer[r] \in accepted
      /\ ans = "sold_out" => SoldOutTo(buyer[r])
  BY <1>1 DEF IInv, Truthful
<1> QED
  BY <1>1, <1>2, <1>3, <1>4, SettleInv

LEMMA NoScriptInv ==
  ASSUME IInv, NEW a \in Apis, NEW r \in Req, OnNoScript(a, r)
  PROVE  IInv'
<1> USE DEF IInv
<1>1. /\ pc[r] = "attempt" /\ verdict[r] = "NOSCRIPT"
      /\ inbox[a] # <<>> /\ inbox' = [inbox EXCEPT ![a] = Tail(inbox[a])]
      /\ pc' = [pc EXCEPT ![r] = "fallback"] /\ verdict' = [verdict EXCEPT ![r] = "none"]
      /\ wire' = [wire EXCEPT ![a] = Append(@, Command("eval", r))]
      /\ UNCHANGED <<phase, stock, ordered, scriptCached, queue, events, up, buyer, home,
                     known, remaining, answer, accepted>>
  BY DEF OnNoScript, Deliver, redisVars, TypeOK
<1>2. inbox' \in [Apis -> Seq(Req)]
  <2>1. inbox[a] \in Seq(Req)
    BY DEF TypeOK
  <2>2. Tail(inbox[a]) \in Seq(Req)
    BY <1>1, <2>1, HeadTailProperties
  <2> QED
    BY <1>1, <2>2 DEF TypeOK
<1>3. wire' \in [Apis -> Seq(Cmd)] /\ Wired' /\ Alone'
  <2>1. "eval" \in Ops
    BY DEF Ops, ScriptOps
  <2> QED
    BY <1>1, <2>1, SendStep
<1>4. TypeOK'
  BY <1>1, <1>2, <1>3 DEF TypeOK, InFlight
<1>5. Asked'
  BY <1>1 DEF Asked, TypeOK
<1>6. Truthful' /\ OneWinner' /\ Answered'
  BY <1>1, VerdictStep
<1>7. Ledger'
  BY <1>1 DEF Ledger
<1> QED
  BY <1>3, <1>4, <1>5, <1>6, <1>7

LEMMA DropLateInv ==
  ASSUME IInv, NEW a \in Apis, NEW r \in Req, DropLate(a, r)
  PROVE  IInv'
<1> USE DEF IInv
<1>1. /\ inbox[a] # <<>> /\ inbox' = [inbox EXCEPT ![a] = Tail(inbox[a])]
      /\ UNCHANGED <<phase, stock, ordered, scriptCached, queue, events, up, wire, pc, buyer,
                     home, known, verdict, remaining, answer, accepted>>
  BY DEF DropLate, Deliver, redisVars, replyVars, requestVars, TypeOK
<1>2. inbox' \in [Apis -> Seq(Req)]
  <2>1. inbox[a] \in Seq(Req)
    BY DEF TypeOK
  <2>2. Tail(inbox[a]) \in Seq(Req)
    BY <1>1, <2>1, HeadTailProperties
  <2> QED
    BY <1>1, <2>2 DEF TypeOK
<1>3. TypeOK'
  BY <1>1, <1>2 DEF TypeOK
<1>4. Asked' /\ Wired' /\ Alone' /\ Ledger' /\ Truthful' /\ OneWinner' /\ Answered'
  BY <1>1 DEF Asked, Wired, Alone, Ledger, Truthful, OneWinner, Answered, SoldOutTo
<1> QED
  BY <1>3, <1>4

LEMMA TimeoutInv ==
  ASSUME IInv, NEW r \in Req, Timeout(r)
  PROVE  IInv'
<1> USE DEF IInv
<1>1. /\ pc[r] # "idle"
      /\ pc' = [pc EXCEPT ![r] = "done"] /\ answer' = [answer EXCEPT ![r] = "unavailable"]
      /\ UNCHANGED <<phase, stock, ordered, scriptCached, queue, events, up, wire, inbox,
                     buyer, home, known, verdict, remaining, accepted>>
  BY DEF Timeout, Finish, InFlight, redisVars, connVars, replyVars
<1>2. TypeOK'
  BY <1>1 DEF TypeOK, Contract!Answers
<1>3. Asked'
  BY <1>1 DEF Asked, TypeOK
<1>4. Wired' /\ Alone'
  <2>1. \A q \in Req : pc[q] # "idle" => pc'[q] # "idle"
    BY <1>1 DEF TypeOK
  <2> QED
    BY <1>1, <2>1, KeepWires
<1>5. Answered'
  <2>1. "unavailable" \notin Contract!Confirming
    BY DEF Contract!Confirming
  <2> QED
    BY <1>1, <2>1, AnswerStep
<1>6. Ledger' /\ Truthful' /\ OneWinner'
  BY <1>1 DEF Ledger, Truthful, OneWinner, SoldOutTo
<1> QED
  BY <1>2, <1>3, <1>4, <1>5, <1>6

LEMMA LoseConnectionInv ==
  ASSUME IInv, NEW a \in Apis, LoseConnection(a)
  PROVE  IInv'
<1> USE DEF IInv
<1> DEFINE pending == {r \in Req : home[r] = a /\ pc[r] \in InFlight \cup {"refused"}}
<1>1. /\ up' = [up EXCEPT ![a] = FALSE] /\ inbox' = [inbox EXCEPT ![a] = <<>>]
      /\ pc' = [r \in Req |-> IF r \in pending THEN "done" ELSE pc[r]]
      /\ answer' = [r \in Req |-> IF r \in pending THEN "unavailable" ELSE answer[r]]
      /\ UNCHANGED <<phase, stock, ordered, scriptCached, queue, events, buyer, home, known,
                     verdict, remaining, accepted>>
  BY DEF LoseConnection, redisVars, replyVars
<1>2. \A r \in pending : pc[r] # "idle"
  BY DEF InFlight
<1> HIDE DEF pending
<1>3. \A r \in Req : pc[r] # "idle" => pc'[r] # "idle"
  BY <1>1
<1>4. wire' \in [Apis -> Seq(Cmd)] /\ Wired' /\ Alone'
  <2>1. PICK n \in 0..Len(wire[a]) : wire' = [wire EXCEPT ![a] = SubSeq(@, 1, n)]
    BY DEF LoseConnection
  <2> QED
    BY <1>1, <1>3, <2>1, CutStep
<1>5. TypeOK'
  <2>1. pc' \in [Req -> {"idle", "refused", "done"} \cup InFlight]
    BY <1>1 DEF TypeOK
  <2>2. answer' \in [Req -> Contract!Answers \cup {"none"}]
    BY <1>1 DEF TypeOK, Contract!Answers
  <2>3. up' \in [Apis -> BOOLEAN] /\ inbox' \in [Apis -> Seq(Req)]
    <3>1. <<>> \in Seq(Req)
      OBVIOUS
    <3> QED
      BY <1>1, <3>1 DEF TypeOK
  <2> QED
    BY <1>1, <1>4, <2>1, <2>2, <2>3 DEF TypeOK
<1>6. Asked'
  BY <1>1, <1>2 DEF Asked
<1>7. Answered'
  BY <1>1 DEF Answered, SoldOutTo, Contract!Confirming
<1>8. Ledger' /\ Truthful' /\ OneWinner'
  BY <1>1 DEF Ledger, Truthful, OneWinner, SoldOutTo
<1> QED
  BY <1>4, <1>5, <1>6, <1>7, <1>8

(* Steps of the environment: the clock, a reconnection, a script-cache     *)
(* flush, the loss of the keys.                                            *)
LEMMA EnvironmentInv ==
  ASSUME IInv, Tick \/ (\E a \in Apis : Reconnect(a)) \/ FlushScripts \/ LoseKeys
  PROVE  IInv'
<1> USE DEF IInv
<1>1. /\ UNCHANGED <<queue, events, wire, inbox, pc, buyer, home, known, verdict, remaining,
                     answer, accepted>>
      /\ phase' \in Phases /\ up' \in [Apis -> BOOLEAN] /\ scriptCached' \in BOOLEAN
      /\ UNCHANGED <<stock, ordered>> \/ (stock' = Missing /\ ordered' = {})
  <2>1. CASE Tick
    BY <2>1 DEF Tick, OpenSale, CloseSale, Phases, TypeOK, redisVars, connVars, requestVars, replyVars
  <2>2. CASE \E a \in Apis : Reconnect(a)
    BY <2>2 DEF Reconnect, TypeOK, redisVars, requestVars, replyVars
  <2>3. CASE FlushScripts
    BY <2>3 DEF FlushScripts, TypeOK, connVars, requestVars, replyVars
  <2>4. CASE LoseKeys
    BY <2>4 DEF LoseKeys, TypeOK, connVars, requestVars, replyVars
  <2> QED
    BY <2>1, <2>2, <2>3, <2>4
<1>2. TypeOK'
  BY <1>1 DEF TypeOK
<1>3. Ledger'
  BY <1>1 DEF Ledger
<1>4. Asked' /\ Wired' /\ Alone' /\ Truthful' /\ OneWinner' /\ Answered'
  BY <1>1 DEF Asked, Wired, Alone, Truthful, OneWinner, Answered, SoldOutTo
<1> QED
  BY <1>2, <1>3, <1>4

-----------------------------------------------------------------------------
(* The theorems.                                                           *)

LEMMA InitInv == Init => IInv
<1> SUFFICES ASSUME Init PROVE IInv
  OBVIOUS
<1> USE DEF Init, Contract!ContractInit
<1>1. <<>> \in Seq(Buyers) /\ <<>> \in Seq({"accepted", "sold_out"})
      /\ <<>> \in Seq(Cmd) /\ <<>> \in Seq(Req)
  OBVIOUS
<1>2. TypeOK
  BY <1>1, StockAssumption DEF TypeOK
<1>3. Asked
  BY DEF Asked
<1>4. Wired /\ Alone
  <2>1. \A a \in Apis : 1..Len(wire[a]) = {}
    OBVIOUS
  <2> QED
    BY <2>1 DEF Wired, Alone
<1>5. Ledger
  BY StockAssumption, FS_EmptySet DEF Ledger
<1>6. Truthful /\ OneWinner
  BY DEF Truthful, OneWinner
<1>7. Answered
  BY DEF Answered, Contract!Confirming
<1> QED
  BY <1>2, <1>3, <1>4, <1>5, <1>6, <1>7 DEF IInv

LEMMA NextInv == IInv /\ [LossyNext]_vars => IInv'
<1> SUFFICES ASSUME IInv, [LossyNext]_vars PROVE IInv'
  OBVIOUS
<1>1. CASE Tick \/ LoseKeys
  BY <1>1, EnvironmentInv
<1>2. CASE Arrive
  <2>1. PICK r \in Req, b \in Buyers, a \in Apis :
           PostInside(r, b, a) \/ PostOutside(r, b, a) \/ GetOrder(r, b, a)
    BY <1>2 DEF Arrive
  <2>2. PICK awaiting \in InFlight, op \in Ops : Handle(r, b, a, awaiting, op)
    BY <2>1 DEF PostInside, PostOutside, GetOrder, InFlight, Ops, ScriptOps
  <2> QED
    BY <2>2, HandleInv
<1>3. CASE RedisStep
  BY <1>3, ExecuteInv, SideEffectInv DEF RedisStep
<1>4. CASE HandlerStep
  BY <1>4, CreatedInv, DecidedInv, NoScriptInv, DropLateInv DEF HandlerStep, OnReply
<1>5. CASE Fault
  BY <1>5, TimeoutInv, LoseConnectionInv, EnvironmentInv DEF Fault
<1>6. CASE UNCHANGED vars
  BY <1>6 DEF vars, redisVars, connVars, requestVars, replyVars, IInv, TypeOK, Asked, Wired,
              Alone, Ledger, Truthful, OneWinner, Answered, SoldOutTo
<1> QED
  BY <1>1, <1>2, <1>3, <1>4, <1>5, <1>6 DEF LossyNext, Next

(* IInv is invariant even when Redis loses its keys.                       *)
LEMMA Invariance == LossySpec => []IInv
<1> QED
  BY InitInv, NextInv, PTL DEF LossySpec

(* The variables of the order path keep their types, whatever fails.       *)
THEOREM TypeCorrect == LossySpec => []TypeOK
<1>1. IInv => TypeOK
  BY DEF IInv
<1> QED
  BY <1>1, Invariance, PTL

(* No oversell: order.lua never accepts more buyers than there are units,  *)
(* through timeouts, reconnections, script flushes and key losses.         *)
THEOREM NeverOversold == LossySpec => []NoOversell
<1>1. IInv => NoOversell
  BY DEF IInv, Ledger, NoOversell
<1> QED
  BY <1>1, Invariance, PTL

(* At most one request of a buyer is ever answered 202.                    *)
THEOREM CreatedAtMostOnce == LossySpec => []CreatedOnce
<1>1. IInv => CreatedOnce
  BY DEF IInv, OneWinner, Answered, CreatedOnce
<1> QED
  BY <1>1, Invariance, PTL

(* A "sold out" answer is true when given and stays true.                  *)
THEOREM SoldOutTrue == LossySpec => []SoldOutIsFinal
<1>1. IInv => SoldOutIsFinal
  BY DEF IInv, Answered, SoldOutTo, SoldOutIsFinal
<1> QED
  BY <1>1, Invariance, PTL
-----------------------------------------------------------------------------
(* The side effects of an accept, which no handler awaits: the audit row   *)
(* of an order is enqueued at most once, and sale.sold_out is published at *)
(* most once and never too early, whatever is lost on the way.             *)

SideOps == {"xadd", "accepted", "sold_out"}

(* What is on a wire without being awaited belongs to a 202 already given. *)
Sent ==
    \A a \in Apis : \A i \in 1..Len(wire[a]) : wire[a][i].op \in SideOps =>
        /\ answer[wire[a][i].req] = "created"
        /\ wire[a][i].op = "sold_out" => remaining[wire[a][i].req] = 0

(* It is there once.                                                       *)
SentOnce ==
    \A a, c \in Apis : \A i \in 1..Len(wire[a]), j \in 1..Len(wire[c]) :
        /\ wire[a][i].op \in SideOps /\ wire[a][i].op = wire[c][j].op
        /\ wire[a][i].req = wire[c][j].req
        => a = c /\ i = j

(* A buyer in the queue was told so, and no second row is on its way.      *)
Enqueued ==
    \A k \in 1..Len(queue) :
        /\ \E r \in Req : answer[r] = "created" /\ buyer[r] = queue[k]
        /\ \A l \in 1..Len(queue) : queue[k] = queue[l] => k = l
        /\ \A a \in Apis : \A i \in 1..Len(wire[a]) :
              wire[a][i].op = "xadd" => buyer[wire[a][i].req] # queue[k]

(* Nor a second sale.sold_out.                                             *)
Signalled ==
    \A k \in 1..Len(events) : events[k] = "sold_out" =>
        /\ \E r \in Req : answer[r] = "created" /\ remaining[r] = 0
        /\ \A l \in 1..Len(events) : events[l] = "sold_out" => k = l
        /\ \A a \in Apis : \A i \in 1..Len(wire[a]) : wire[a][i].op # "sold_out"

(* One request took the last unit.                                         *)
LastUnit ==
    \A r \in Req : verdict[r] = "OK" /\ remaining[r] = 0 =>
        /\ Cardinality(accepted) = Stock
        /\ \A q \in Req : verdict[q] = "OK" /\ remaining[q] = 0 => q = r

AInv == Sent /\ SentOnce /\ Enqueued /\ Signalled /\ LastUnit

-----------------------------------------------------------------------------
(* The wires.                                                              *)

LEMMA SideOpsApart == SideOps \cap AwaitedOps = {} /\ SideOps \subseteq Ops
  BY DEF SideOps, AwaitedOps, ScriptOps, Ops

(* A step that adds no side effect, and moves none.                        *)
LEMMA KeepAudit ==
  ASSUME TypeOK, Sent, SentOnce, Enqueued, Signalled, UNCHANGED <<queue, events>>,
         \A x \in Apis : \A i \in 1..Len(wire'[x]) : wire'[x][i].op \in SideOps =>
             i \in 1..Len(wire[x]) /\ wire'[x][i] = wire[x][i],
         \A r \in Req : answer[r] = "created" =>
             answer'[r] = "created" /\ buyer'[r] = buyer[r] /\ remaining'[r] = remaining[r]
  PROVE  Sent' /\ SentOnce' /\ Enqueued' /\ Signalled'
<1>1. ASSUME NEW x \in Apis, NEW i \in 1..Len(wire'[x]), wire'[x][i].op \in SideOps
      PROVE  /\ i \in 1..Len(wire[x]) /\ wire'[x][i] = wire[x][i]
             /\ wire[x][i].req \in Req /\ answer[wire[x][i].req] = "created"
  BY <1>1, CommandLemma DEF TypeOK, Sent
<1>2. "xadd" \in SideOps /\ "sold_out" \in SideOps
  BY DEF SideOps
<1>3. Sent'
  BY <1>1 DEF Sent
<1>4. SentOnce'
  <2> SUFFICES ASSUME NEW x \in Apis, NEW y \in Apis,
                      NEW i \in 1..Len(wire'[x]), NEW j \in 1..Len(wire'[y]),
                      wire'[x][i].op \in SideOps, wire'[x][i].op = wire'[y][j].op,
                      wire'[x][i].req = wire'[y][j].req
               PROVE  x = y /\ i = j
    BY DEF SentOnce
  <2>1. /\ i \in 1..Len(wire[x]) /\ wire'[x][i] = wire[x][i]
        /\ j \in 1..Len(wire[y]) /\ wire'[y][j] = wire[y][j]
    BY <1>1
  <2> QED
    BY <2>1 DEF SentOnce
<1>5. Enqueued'
  BY <1>1, <1>2 DEF Enqueued
<1>6. Signalled'
  BY <1>1, <1>2 DEF Signalled
<1> QED
  BY <1>3, <1>4, <1>5, <1>6

(* Consuming the head of a wire.                                           *)
LEMMA ConsumeSent ==
  ASSUME TypeOK, Sent, SentOnce, NEW a \in Apis, wire[a] # <<>>, Consume(a)
  PROVE  /\ SentOnce'
         /\ Head(wire[a]) \in Cmd
         /\ Head(wire[a]).op \in SideOps => answer[Head(wire[a]).req] = "created"
         /\ Head(wire[a]).op = "sold_out" => remaining[Head(wire[a]).req] = 0
         /\ \A x \in Apis : \A i \in 1..Len(wire'[x]) :
               /\ \E k \in 1..Len(wire[x]) : wire'[x][i] = wire[x][k]
               /\ wire'[x][i].req \in Req
               /\ wire'[x][i].op \in SideOps /\ wire'[x][i].op = Head(wire[a]).op
                  => wire'[x][i].req # Head(wire[a]).req
<1> DEFINE Old(x, i) == IF x = a THEN i + 1 ELSE i
<1>1. /\ 1 \in 1..Len(wire[a])
      /\ Head(wire[a]) = wire[a][1] /\ Head(wire[a]) \in Cmd
      /\ \A i \in 1..Len(wire'[a]) : i + 1 \in 1..Len(wire[a]) /\ wire'[a][i] = wire[a][i + 1]
      /\ \A c \in Apis \ {a} : wire'[c] = wire[c]
  BY ConsumeLemma DEF TypeOK
<1>2. \A x \in Apis : \A i \in 1..Len(wire'[x]) :
         Old(x, i) \in 1..Len(wire[x]) /\ wire'[x][i] = wire[x][Old(x, i)]
  BY <1>1
<1>3. SentOnce'
  <2> SUFFICES ASSUME NEW x \in Apis, NEW y \in Apis,
                      NEW i \in 1..Len(wire'[x]), NEW j \in 1..Len(wire'[y]),
                      wire'[x][i].op \in SideOps, wire'[x][i].op = wire'[y][j].op,
                      wire'[x][i].req = wire'[y][j].req
               PROVE  x = y /\ i = j
    BY DEF SentOnce
  <2>1. /\ Old(x, i) \in 1..Len(wire[x]) /\ wire'[x][i] = wire[x][Old(x, i)]
        /\ Old(y, j) \in 1..Len(wire[y]) /\ wire'[y][j] = wire[y][Old(y, j)]
    BY <1>2
  <2> HIDE DEF Old
  <2>2. /\ wire[x][Old(x, i)].op \in SideOps
        /\ wire[x][Old(x, i)].op = wire[y][Old(y, j)].op
        /\ wire[x][Old(x, i)].req = wire[y][Old(y, j)].req
    BY <2>1
  <2>3. \A p \in 1..Len(wire[x]), q \in 1..Len(wire[y]) :
           /\ wire[x][p].op \in SideOps /\ wire[x][p].op = wire[y][q].op
           /\ wire[x][p].req = wire[y][q].req
           => x = y /\ p = q
    BY DEF SentOnce
  <2>4. x = y /\ Old(x, i) = Old(y, j)
    BY <2>1, <2>2, <2>3
  <2> QED
    BY <2>4 DEF Old
<1>4. ASSUME NEW x \in Apis, NEW i \in 1..Len(wire'[x])
      PROVE  /\ \E k \in 1..Len(wire[x]) : wire'[x][i] = wire[x][k]
             /\ wire'[x][i].req \in Req
             /\ wire'[x][i].op \in SideOps /\ wire'[x][i].op = Head(wire[a]).op
                => wire'[x][i].req # Head(wire[a]).req
  <2>1. Old(x, i) \in 1..Len(wire[x]) /\ wire'[x][i] = wire[x][Old(x, i)]
    BY <1>2
  <2>2. wire'[x][i].req \in Req
    <3> HIDE DEF Old
    <3> QED
      BY <2>1, CommandLemma DEF TypeOK
  <2>3. ASSUME wire'[x][i].op \in SideOps, wire'[x][i].op = Head(wire[a]).op,
               wire'[x][i].req = Head(wire[a]).req
        PROVE  FALSE
    <3>1. x = a /\ Old(x, i) = 1
      <4> HIDE DEF Old
      <4> QED
        BY <2>1, <2>3, <1>1 DEF SentOnce
    <3> QED
      BY <3>1
  <2> QED
    BY <2>1, <2>2, <2>3
<1>5. /\ Head(wire[a]).op \in SideOps => answer[Head(wire[a]).req] = "created"
      /\ Head(wire[a]).op = "sold_out" => remaining[Head(wire[a]).req] = 0
  BY <1>1 DEF Sent, SideOps
<1> QED
  BY <1>1, <1>3, <1>4, <1>5

(* No request newly wins.                                                  *)
LEMMA KeepLastUnit ==
  ASSUME LastUnit, UNCHANGED accepted,
         \A r \in Req : verdict'[r] = "OK" => verdict[r] = "OK" /\ remaining'[r] = remaining[r]
  PROVE  LastUnit'
  BY DEF LastUnit

-----------------------------------------------------------------------------
(* The steps.                                                              *)

LEMMA HandleAudit ==
  ASSUME IInv, AInv, NEW r \in Req, NEW b \in Buyers, NEW a \in Apis,
         NEW awaiting \in InFlight, NEW op \in AwaitedOps, Handle(r, b, a, awaiting, op)
  PROVE  AInv'
<1>1. /\ answer[r] = "none"
      /\ buyer' = [buyer EXCEPT ![r] = b]
      /\ UNCHANGED <<queue, events, verdict, remaining, answer, accepted>>
  BY DEF Handle, IInv, Asked, redisVars, replyVars
<1>2. \A x \in Apis : \A i \in 1..Len(wire'[x]) : wire'[x][i].op \in SideOps =>
          i \in 1..Len(wire[x]) /\ wire'[x][i] = wire[x][i]
  <2>1. CASE UNCHANGED wire
    BY <2>1
  <2>2. CASE wire' = [wire EXCEPT ![a] = Append(@, Command(op, r))]
    <3>1. Command(op, r) \in Cmd /\ Command(op, r).op \notin SideOps
      BY SideOpsApart DEF Cmd, Command, AwaitedOps, ScriptOps, Ops
    <3>2. /\ Len(wire[a]) \in Nat /\ Len(wire'[a]) = Len(wire[a]) + 1
          /\ \A i \in 1..Len(wire[a]) : wire'[a][i] = wire[a][i]
          /\ wire'[a][Len(wire[a]) + 1] = Command(op, r)
          /\ \A x \in Apis \ {a} : wire'[x] = wire[x]
      BY <2>2, <3>1, AppendLemma DEF IInv, TypeOK
    <3> QED
      BY <3>1, <3>2
  <2> QED
    BY <2>1, <2>2 DEF Handle
<1>3. \A q \in Req : answer[q] = "created" =>
          answer'[q] = "created" /\ buyer'[q] = buyer[q] /\ remaining'[q] = remaining[q]
  BY <1>1 DEF IInv, TypeOK
<1>4. LastUnit'
  BY <1>1, KeepLastUnit DEF AInv
<1> QED
  BY <1>1, <1>2, <1>3, <1>4, KeepAudit DEF IInv, AInv

(* What order.lua answers is "OK" only with the unit it took.              *)
LEMMA ScriptLastUnit ==
  ASSUME IInv, AInv, NEW a \in Apis, NEW r \in Req, verdict[r] = "none",
         OrderScript(a, r), Ledger', TypeOK'
  PROVE  LastUnit'
<1>1. \A v, n : ReplyTo(a, r, v, n) =>
          /\ \A q \in Req \ {r} : verdict'[q] = verdict[q] /\ remaining'[q] = remaining[q]
          /\ verdict'[r] = v /\ remaining'[r] = n
  BY DEF ReplyTo, IInv, TypeOK
<1>2. CASE /\ UNCHANGED accepted
           /\ \E v \in {"ERROR", "ALREADY", "SOLD_OUT"} : \E n : ReplyTo(a, r, v, n)
  <2>1. \A q \in Req : verdict'[q] = "OK" => verdict[q] = "OK" /\ remaining'[q] = remaining[q]
    BY <1>1, <1>2
  <2> QED
    BY <1>2, <2>1, KeepLastUnit DEF AInv
<1>3. CASE /\ stock # Missing /\ stock' = stock - 1 /\ ~Drained
           /\ ReplyTo(a, r, "OK", stock - 1)
  <2>1. stock \in Nat /\ stock > 0 /\ stock' \in Nat /\ stock' # Missing
    BY <1>3, NullAssumption DEF IInv, TypeOK, Drained
  <2>2. Cardinality(accepted) \in Nat /\ Cardinality(accepted') \in Nat
    BY FiniteAssumption, FS_Subset, FS_CardinalityType DEF IInv, TypeOK
  <2>3. Cardinality(accepted) < Stock /\ (stock' = 0 => Cardinality(accepted') = Stock)
    BY <1>3, <2>1, <2>2, StockAssumption DEF IInv, Ledger
  <2>4. \A q \in Req \ {r} : ~(verdict'[q] = "OK" /\ remaining'[q] = 0)
    BY <1>1, <1>3, <2>2, <2>3, StockAssumption DEF AInv, LastUnit
  <2>5. remaining'[r] = stock'
    BY <1>1, <1>3
  <2> QED
    BY <2>3, <2>4, <2>5 DEF LastUnit
<1> QED
  BY <1>2, <1>3 DEF OrderScript, Take

LEMMA ExecuteAudit ==
  ASSUME IInv, AInv, IInv', NEW a \in Apis, RunEvalSha(a) \/ RunEval(a) \/ RunSIsMember(a)
  PROVE  AInv'
<1> DEFINE r == Head(wire[a]).req
<1>1. /\ wire[a] # <<>> /\ Consume(a) /\ Head(wire[a]).op \in AwaitedOps
      /\ UNCHANGED <<queue, events, buyer, answer>>
  BY DEF RunEvalSha, RunEval, RunSIsMember, NextCommand, AwaitedOps, ScriptOps,
         requestVars, redisVars
<1>2. r \in Req /\ verdict[r] = "none"
  <2>1. /\ \E i \in 1..Len(wire[a]) : Head(wire[a]) = wire[a][i]
        /\ Head(wire[a]) \in Cmd
    BY <1>1, ConsumeAlone DEF IInv, TypeOK
  <2> QED
    BY <2>1, <1>1 DEF Cmd, IInv, Wired
<1>3. OrderScript(a, r) \/ (UNCHANGED accepted
                            /\ \E v \in {"NOSCRIPT", "MEMBER", "STRANGER"} : ReplyTo(a, r, v, 0))
  BY DEF RunEvalSha, RunEval, RunSIsMember
<1>4. \A q \in Req \ {r} : verdict'[q] = verdict[q] /\ remaining'[q] = remaining[q]
  BY <1>3 DEF OrderScript, ReplyTo, IInv, TypeOK
<1>5. LastUnit'
  <2>1. CASE OrderScript(a, r)
    BY <1>2, <2>1, ScriptLastUnit DEF IInv
  <2>2. CASE /\ UNCHANGED accepted
             /\ \E v \in {"NOSCRIPT", "MEMBER", "STRANGER"} : ReplyTo(a, r, v, 0)
    <3>1. verdict'[r] # "OK"
      BY <1>2, <2>2 DEF ReplyTo, IInv, TypeOK
    <3> QED
      BY <1>4, <2>2, <3>1, KeepLastUnit DEF AInv
  <2> QED
    BY <1>3, <2>1, <2>2
<1>6. /\ SentOnce'
      /\ \A x \in Apis : \A i \in 1..Len(wire'[x]) :
            /\ \E k \in 1..Len(wire[x]) : wire'[x][i] = wire[x][k]
            /\ wire'[x][i].req \in Req
  BY <1>1, ConsumeSent DEF IInv, AInv
<1>7. \A q \in Req : answer[q] = "created" => remaining'[q] = remaining[q]
  BY <1>2, <1>4 DEF IInv, Answered
<1> HIDE DEF r
<1>8. Sent'
  <2> SUFFICES ASSUME NEW x \in Apis, NEW i \in 1..Len(wire'[x]), wire'[x][i].op \in SideOps
               PROVE  /\ answer'[wire'[x][i].req] = "created"
                      /\ wire'[x][i].op = "sold_out" => remaining'[wire'[x][i].req] = 0
    BY DEF Sent
  <2> QED
    BY <1>1, <1>6, <1>7 DEF AInv, Sent
<1>9. Enqueued'
  <2> SUFFICES ASSUME NEW k \in 1..Len(queue), NEW x \in Apis, NEW i \in 1..Len(wire'[x]),
                      wire'[x][i].op = "xadd"
               PROVE  buyer[wire'[x][i].req] # queue[k]
    BY <1>1 DEF AInv, Enqueued
  <2>1. PICK p \in 1..Len(wire[x]) : wire'[x][i] = wire[x][p]
    BY <1>6
  <2> QED
    BY <2>1 DEF AInv, Enqueued
<1>10. Signalled'
  <2> SUFFICES ASSUME NEW k \in 1..Len(events), events[k] = "sold_out"
               PROVE  /\ \E q \in Req : answer[q] = "created" /\ remaining'[q] = 0
                      /\ \A l \in 1..Len(events) : events[l] = "sold_out" => k = l
                      /\ \A x \in Apis : \A i \in 1..Len(wire'[x]) : wire'[x][i].op # "sold_out"
    BY <1>1 DEF Signalled
  <2>1. /\ \E q \in Req : answer[q] = "created" /\ remaining[q] = 0
        /\ \A l \in 1..Len(events) : events[l] = "sold_out" => k = l
        /\ \A x \in Apis : \A i \in 1..Len(wire[x]) : wire[x][i].op # "sold_out"
    BY DEF AInv, Signalled
  <2>2. \A x \in Apis : \A i \in 1..Len(wire'[x]) : wire'[x][i].op # "sold_out"
    BY <2>1, <1>6
  <2> QED
    BY <2>1, <2>2, <1>7
<1> QED
  BY <1>5, <1>6, <1>8, <1>9, <1>10 DEF AInv

(* The audit row reaches the stream.                                       *)
LEMMA XAddAudit ==
  ASSUME IInv, AInv, NEW a \in Apis, RunXAdd(a)
  PROVE  AInv'
<1> DEFINE r == Head(wire[a]).req
<1>1. /\ wire[a] # <<>> /\ Consume(a) /\ Head(wire[a]).op = "xadd"
      /\ queue' = Append(queue, buyer[r])
      /\ UNCHANGED <<events, buyer, verdict, remaining, answer, accepted>>
  BY DEF RunXAdd, NextCommand, requestVars, replyVars
<1>2. /\ SentOnce'
      /\ r \in Req /\ answer[r] = "created"
      /\ \A x \in Apis : \A i \in 1..Len(wire'[x]) :
            /\ \E k \in 1..Len(wire[x]) : wire'[x][i] = wire[x][k]
            /\ wire'[x][i].req \in Req
            /\ wire'[x][i].op = "xadd" => wire'[x][i].req # r
  <2>1. "xadd" \in SideOps
    BY DEF SideOps
  <2>2. TypeOK /\ Sent /\ SentOnce
    BY DEF IInv, AInv
  <2> QED
    BY <1>1, <2>1, <2>2, ConsumeSent DEF Cmd
<1>3. \A k \in 1..Len(queue) : queue[k] # buyer[r]
  <2>1. PICK i \in 1..Len(wire[a]) : Head(wire[a]) = wire[a][i]
    BY <1>1, ConsumeAlone DEF IInv, TypeOK
  <2> QED
    BY <1>1, <2>1 DEF AInv, Enqueued
<1>4. /\ Len(queue) \in Nat /\ Len(queue') = Len(queue) + 1
      /\ \A k \in 1..Len(queue) : queue'[k] = queue[k]
      /\ queue'[Len(queue) + 1] = buyer[r]
  <2>1. queue \in Seq(Buyers) /\ buyer[r] \in Buyers
    <3>1. buyer[r] \in accepted /\ accepted \subseteq Buyers
      BY <1>2 DEF IInv, Answered, TypeOK, Contract!Confirming
    <3> QED
      BY <3>1 DEF IInv, TypeOK
  <2> QED
    BY <1>1, <2>1, AppendProperties, LenProperties
<1> HIDE DEF r
<1>5. \A x \in Apis : \A i \in 1..Len(wire'[x]) :
          wire'[x][i].op = "xadd" => buyer[wire'[x][i].req] # buyer[r]
  <2>1. \A q \in Req : answer[q] = "created" /\ q # r => buyer[q] # buyer[r]
    BY <1>2 DEF IInv, Answered, OneWinner
  <2>2. ASSUME NEW x \in Apis, NEW i \in 1..Len(wire'[x]), wire'[x][i].op = "xadd"
        PROVE  wire'[x][i].req \in Req /\ wire'[x][i].req # r /\ answer[wire'[x][i].req] = "created"
    BY <1>2, <2>2 DEF AInv, Sent, SideOps
  <2> QED
    BY <2>1, <2>2
<1>6. Sent'
  <2> SUFFICES ASSUME NEW x \in Apis, NEW i \in 1..Len(wire'[x]), wire'[x][i].op \in SideOps
               PROVE  /\ answer'[wire'[x][i].req] = "created"
                      /\ wire'[x][i].op = "sold_out" => remaining'[wire'[x][i].req] = 0
    BY DEF Sent
  <2> QED
    BY <1>1, <1>2 DEF AInv, Sent
<1>7. Enqueued'
  <2> SUFFICES ASSUME NEW k \in 1..Len(queue')
               PROVE  /\ \E q \in Req : answer[q] = "created" /\ buyer[q] = queue'[k]
                      /\ \A l \in 1..Len(queue') : queue'[k] = queue'[l] => k = l
                      /\ \A x \in Apis : \A i \in 1..Len(wire'[x]) :
                            wire'[x][i].op = "xadd" => buyer[wire'[x][i].req] # queue'[k]
    BY <1>1 DEF Enqueued
  <2>1. CASE k \in 1..Len(queue)
    <3>1. queue'[k] = queue[k] /\ \E q \in Req : answer[q] = "created" /\ buyer[q] = queue[k]
      BY <2>1, <1>4 DEF AInv, Enqueued
    <3>2. \A l \in 1..Len(queue') : queue'[k] = queue'[l] => k = l
      <4>1. \A l \in 1..Len(queue) : queue[k] = queue[l] => k = l
        BY <2>1 DEF AInv, Enqueued
      <4> QED
        BY <2>1, <4>1, <1>3, <1>4
    <3>3. \A x \in Apis : \A i \in 1..Len(wire[x]) :
              wire[x][i].op = "xadd" => buyer[wire[x][i].req] # queue[k]
      BY <2>1 DEF AInv, Enqueued
    <3> QED
      BY <3>1, <3>2, <3>3, <1>2
  <2>2. CASE k = Len(queue) + 1
    BY <2>2, <1>2, <1>3, <1>4, <1>5
  <2> QED
    BY <1>4, <2>1, <2>2
<1>8. Signalled'
  <2> SUFFICES ASSUME NEW k \in 1..Len(events), events[k] = "sold_out",
                      NEW x \in Apis, NEW i \in 1..Len(wire'[x])
               PROVE  wire'[x][i].op # "sold_out"
    BY <1>1 DEF AInv, Signalled
  <2> QED
    BY <1>2 DEF AInv, Signalled
<1>9. LastUnit'
  BY <1>1, KeepLastUnit DEF AInv
<1> QED
  BY <1>2, <1>6, <1>7, <1>8, <1>9 DEF AInv

(* A sale event reaches the channel.                                       *)
LEMMA PublishAudit ==
  ASSUME IInv, AInv, NEW a \in Apis, RunPublish(a)
  PROVE  AInv'
<1> DEFINE r == Head(wire[a]).req
           e == Head(wire[a]).op
<1>1. /\ wire[a] # <<>> /\ Consume(a) /\ e \in {"accepted", "sold_out"}
      /\ events' = Append(events, e)
      /\ UNCHANGED <<queue, buyer, verdict, remaining, answer, accepted>>
  BY DEF RunPublish, requestVars, replyVars
<1>2. /\ SentOnce'
      /\ r \in Req /\ answer[r] = "created" /\ (e = "sold_out" => remaining[r] = 0)
      /\ \A x \in Apis : \A i \in 1..Len(wire'[x]) :
            /\ \E k \in 1..Len(wire[x]) : wire'[x][i] = wire[x][k]
            /\ wire'[x][i].req \in Req
            /\ wire'[x][i].op = "sold_out" /\ e = "sold_out" => wire'[x][i].req # r
  <2>1. {"accepted", "sold_out"} \subseteq SideOps
    BY DEF SideOps
  <2>2. TypeOK /\ Sent /\ SentOnce
    BY DEF IInv, AInv
  <2> QED
    BY <1>1, <2>1, <2>2, ConsumeSent DEF Cmd
<1>3. e = "sold_out" => \A k \in 1..Len(events) : events[k] # "sold_out"
  <2>1. PICK i \in 1..Len(wire[a]) : Head(wire[a]) = wire[a][i]
    BY <1>1, ConsumeAlone DEF IInv, TypeOK
  <2> QED
    BY <1>1, <2>1 DEF AInv, Signalled
<1>4. /\ Len(events) \in Nat /\ Len(events') = Len(events) + 1
      /\ \A k \in 1..Len(events) : events'[k] = events[k]
      /\ events'[Len(events) + 1] = e
  <2>1. events \in Seq({"accepted", "sold_out"})
    BY DEF IInv, TypeOK
  <2> QED
    BY <1>1, <2>1, AppendProperties, LenProperties
<1> HIDE DEF r, e
<1>5. e = "sold_out" =>
          \A x \in Apis : \A i \in 1..Len(wire'[x]) : wire'[x][i].op # "sold_out"
  <2>1. e = "sold_out" => \A q \in Req : answer[q] = "created" /\ remaining[q] = 0 => q = r
    BY <1>2 DEF IInv, Answered, AInv, LastUnit
  <2>2. ASSUME e = "sold_out", NEW x \in Apis, NEW i \in 1..Len(wire'[x]),
               wire'[x][i].op = "sold_out"
        PROVE  /\ wire'[x][i].req \in Req /\ wire'[x][i].req # r
               /\ answer[wire'[x][i].req] = "created" /\ remaining[wire'[x][i].req] = 0
    BY <1>2, <2>2 DEF AInv, Sent, SideOps
  <2> QED
    BY <2>1, <2>2
<1>6. Sent'
  <2> SUFFICES ASSUME NEW x \in Apis, NEW i \in 1..Len(wire'[x]), wire'[x][i].op \in SideOps
               PROVE  /\ answer'[wire'[x][i].req] = "created"
                      /\ wire'[x][i].op = "sold_out" => remaining'[wire'[x][i].req] = 0
    BY DEF Sent
  <2>1. PICK k \in 1..Len(wire[x]) : wire'[x][i] = wire[x][k]
    BY <1>2
  <2> QED
    BY <1>1, <2>1 DEF AInv, Sent
<1>7. Enqueued'
  <2> SUFFICES ASSUME NEW k \in 1..Len(queue), NEW x \in Apis, NEW i \in 1..Len(wire'[x]),
                      wire'[x][i].op = "xadd"
               PROVE  buyer[wire'[x][i].req] # queue[k]
    BY <1>1 DEF AInv, Enqueued
  <2> QED
    BY <1>2 DEF AInv, Enqueued
<1>8. Signalled'
  <2> SUFFICES ASSUME NEW k \in 1..Len(events'), events'[k] = "sold_out"
               PROVE  /\ \E q \in Req : answer[q] = "created" /\ remaining[q] = 0
                      /\ \A l \in 1..Len(events') : events'[l] = "sold_out" => k = l
                      /\ \A x \in Apis : \A i \in 1..Len(wire'[x]) : wire'[x][i].op # "sold_out"
    BY <1>1 DEF Signalled
  <2>1. CASE k \in 1..Len(events)
    <3>1. events[k] = "sold_out" /\ e # "sold_out"
      BY <2>1, <1>3, <1>4
    <3>2. /\ \E q \in Req : answer[q] = "created" /\ remaining[q] = 0
          /\ \A l \in 1..Len(events) : events[l] = "sold_out" => k = l
          /\ \A x \in Apis : \A i \in 1..Len(wire[x]) : wire[x][i].op # "sold_out"
      BY <2>1, <3>1 DEF AInv, Signalled
    <3>3. \A l \in 1..Len(events') : events'[l] = "sold_out" => k = l
      BY <3>1, <3>2, <1>4
    <3>4. \A x \in Apis : \A i \in 1..Len(wire'[x]) : wire'[x][i].op # "sold_out"
      BY <3>2, <1>2
    <3> QED
      BY <3>2, <3>3, <3>4
  <2>2. CASE k = Len(events) + 1
    BY <2>2, <1>2, <1>3, <1>4, <1>5
  <2> QED
    BY <1>4, <2>1, <2>2
<1>9. LastUnit'
  BY <1>1, KeepLastUnit DEF AInv
<1> QED
  BY <1>2, <1>6, <1>7, <1>8, <1>9 DEF AInv

(* The winner's side effects are written behind its answer.                *)
LEMMA CreatedAudit ==
  ASSUME IInv, AInv, NEW a \in Apis, NEW r \in Req, OnCreated(a, r)
  PROVE  AInv'
<1> DEFINE t == SideEffects(r)
<1>1. /\ answer[r] = "none" /\ verdict[r] = "OK"
      /\ answer' = [answer EXCEPT ![r] = "created"]
      /\ wire' = [wire EXCEPT ![a] = @ \o t]
      /\ UNCHANGED <<queue, events, buyer, verdict, remaining, accepted>>
  BY DEF OnCreated, Won, Settle, Finish, IInv, Asked, redisVars, replyVars
<1>2. \A q \in Req : answer'[q] = IF q = r THEN "created" ELSE answer[q]
  BY <1>1 DEF IInv, TypeOK
<1>3. /\ t \in Seq(Cmd)
      /\ \A i \in 1..Len(t) : t[i].req = r /\ t[i].op \in SideOps
      /\ \A i, j \in 1..Len(t) : t[i].op = t[j].op => i = j
      /\ \A i \in 1..Len(t) : t[i].op = "sold_out" => remaining[r] = 0
  <2>1. /\ Command("xadd", r) \in Cmd /\ Command("accepted", r) \in Cmd
        /\ Command("sold_out", r) \in Cmd
        /\ \A op : Command(op, r).req = r /\ Command(op, r).op = op
    BY DEF Cmd, Command, Ops
  <2>2. CASE TookLast(r)
    <3>1. t = <<Command("xadd", r), Command("accepted", r), Command("sold_out", r)>>
      BY <2>2 DEF SideEffects
    <3> QED
      BY <2>1, <2>2, <3>1 DEF SideOps, TookLast
  <2>3. CASE ~TookLast(r)
    <3>1. t = <<Command("xadd", r), Command("accepted", r)>>
      BY <2>3 DEF SideEffects
    <3> QED
      BY <2>1, <3>1 DEF SideOps
  <2> QED
    BY <2>2, <2>3
<1> HIDE DEF t
<1>4. /\ Len(wire[a]) \in Nat /\ Len(t) \in Nat
      /\ Len(wire'[a]) = Len(wire[a]) + Len(t)
      /\ \A i \in 1..Len(wire'[a]) :
            wire'[a][i] = IF i <= Len(wire[a]) THEN wire[a][i] ELSE t[i - Len(wire[a])]
      /\ \A x \in Apis \ {a} : wire'[x] = wire[x]
  BY <1>1, <1>3, ConcatLemma DEF IInv, TypeOK
<1> DEFINE new(x, i) == x = a /\ i > Len(wire[a])
<1>5. ASSUME NEW x \in Apis, NEW i \in 1..Len(wire'[x]), new(x, i)
      PROVE  i - Len(wire[a]) \in 1..Len(t) /\ wire'[x][i] = t[i - Len(wire[a])]
  <2>1. x = a /\ i \in Nat /\ i > Len(wire[a]) /\ i <= Len(wire[a]) + Len(t)
    BY <1>4, <1>5
  <2>2. i \in 1..Len(wire'[a]) /\ i - Len(wire[a]) \in 1..Len(t)
    BY <1>4, <2>1
  <2>3. wire'[a][i] = t[i - Len(wire[a])]
    BY <1>4, <2>1, <2>2
  <2> QED
    BY <2>1, <2>2, <2>3
<1>6. ASSUME NEW x \in Apis, NEW i \in 1..Len(wire'[x]), ~new(x, i)
      PROVE  i \in 1..Len(wire[x]) /\ wire'[x][i] = wire[x][i]
  <2>1. CASE x = a
    BY <1>4, <1>6, <2>1
  <2>2. CASE x # a
    BY <1>4, <2>2
  <2> QED
    BY <2>1, <2>2
<1> HIDE DEF new
<1>7. ASSUME NEW x \in Apis, NEW i \in 1..Len(wire'[x]), new(x, i)
      PROVE  /\ wire'[x][i].req = r /\ wire'[x][i].op \in SideOps
             /\ wire'[x][i].op = "sold_out" => remaining[r] = 0
  BY <1>3, <1>5, <1>7
<1>8. ASSUME NEW x \in Apis, NEW i \in 1..Len(wire'[x]), ~new(x, i), wire'[x][i].op \in SideOps
      PROVE  /\ wire'[x][i].req \in Req /\ wire'[x][i].req # r
             /\ answer[wire'[x][i].req] = "created"
             /\ wire'[x][i].op = "sold_out" => remaining[wire'[x][i].req] = 0
  <2>1. i \in 1..Len(wire[x]) /\ wire'[x][i] = wire[x][i]
    BY <1>6, <1>8
  <2> QED
    BY <1>1, <1>8, <2>1, CommandLemma DEF IInv, TypeOK, AInv, Sent
<1>9. Sent'
  <2> SUFFICES ASSUME NEW x \in Apis, NEW i \in 1..Len(wire'[x]), wire'[x][i].op \in SideOps
               PROVE  /\ answer'[wire'[x][i].req] = "created"
                      /\ wire'[x][i].op = "sold_out" => remaining'[wire'[x][i].req] = 0
    BY DEF Sent
  <2> QED
    BY <1>1, <1>2, <1>7, <1>8
<1>10. SentOnce'
  <2> SUFFICES ASSUME NEW x \in Apis, NEW y \in Apis,
                      NEW i \in 1..Len(wire'[x]), NEW j \in 1..Len(wire'[y]),
                      wire'[x][i].op \in SideOps, wire'[x][i].op = wire'[y][j].op,
                      wire'[x][i].req = wire'[y][j].req
               PROVE  x = y /\ i = j
    BY DEF SentOnce
  <2>1. CASE new(x, i) /\ new(y, j)
    <3>1. /\ i - Len(wire[a]) \in 1..Len(t) /\ wire'[x][i] = t[i - Len(wire[a])]
          /\ j - Len(wire[a]) \in 1..Len(t) /\ wire'[y][j] = t[j - Len(wire[a])]
      BY <1>5, <2>1
    <3>2. i - Len(wire[a]) = j - Len(wire[a])
      BY <1>3, <3>1
    <3>3. x = a /\ y = a /\ i \in Int /\ j \in Int
      BY <2>1 DEF new
    <3> QED
      BY <1>4, <3>2, <3>3
  <2>2. CASE ~new(x, i) /\ ~new(y, j)
    <3>1. /\ i \in 1..Len(wire[x]) /\ wire'[x][i] = wire[x][i]
          /\ j \in 1..Len(wire[y]) /\ wire'[y][j] = wire[y][j]
      BY <1>6, <2>2
    <3> QED
      BY <3>1 DEF AInv, SentOnce
  <2>3. CASE new(x, i) /\ ~new(y, j)
    BY <1>7, <1>8, <2>3
  <2>4. CASE ~new(x, i) /\ new(y, j)
    BY <1>7, <1>8, <2>4
  <2> QED
    BY <2>1, <2>2, <2>3, <2>4
<1>11. Enqueued'
  <2> SUFFICES ASSUME NEW k \in 1..Len(queue)
               PROVE  /\ \E q \in Req : answer'[q] = "created" /\ buyer[q] = queue[k]
                      /\ \A l \in 1..Len(queue) : queue[k] = queue[l] => k = l
                      /\ \A x \in Apis : \A i \in 1..Len(wire'[x]) :
                            wire'[x][i].op = "xadd" => buyer[wire'[x][i].req] # queue[k]
    BY <1>1 DEF Enqueued
  <2>1. PICK q \in Req : answer[q] = "created" /\ buyer[q] = queue[k]
    BY DEF AInv, Enqueued
  <2>2. buyer[r] # queue[k]
    BY <1>1, <2>1 DEF IInv, Answered, OneWinner
  <2>3. ASSUME NEW x \in Apis, NEW i \in 1..Len(wire'[x]), wire'[x][i].op = "xadd"
        PROVE  buyer[wire'[x][i].req] # queue[k]
    <3>1. CASE new(x, i)
      BY <1>7, <2>2, <3>1
    <3>2. CASE ~new(x, i)
      BY <1>6, <2>3, <3>2 DEF AInv, Enqueued
    <3> QED
      BY <3>1, <3>2
  <2>4. \A l \in 1..Len(queue) : queue[k] = queue[l] => k = l
    BY DEF AInv, Enqueued
  <2> QED
    BY <1>2, <2>1, <2>3, <2>4
<1>12. Signalled'
  <2> SUFFICES ASSUME NEW k \in 1..Len(events), events[k] = "sold_out"
               PROVE  /\ \E q \in Req : answer'[q] = "created" /\ remaining[q] = 0
                      /\ \A l \in 1..Len(events) : events[l] = "sold_out" => k = l
                      /\ \A x \in Apis : \A i \in 1..Len(wire'[x]) : wire'[x][i].op # "sold_out"
    BY <1>1 DEF Signalled
  <2>1. PICK q \in Req : answer[q] = "created" /\ remaining[q] = 0
    BY DEF AInv, Signalled
  <2>2. remaining[r] # 0
    BY <1>1, <2>1 DEF IInv, Answered, AInv, LastUnit
  <2>3. ASSUME NEW x \in Apis, NEW i \in 1..Len(wire'[x])
        PROVE  wire'[x][i].op # "sold_out"
    <3>1. CASE new(x, i)
      BY <1>7, <2>2, <3>1
    <3>2. CASE ~new(x, i)
      BY <1>6, <3>2 DEF AInv, Signalled
    <3> QED
      BY <3>1, <3>2
  <2>4. \A l \in 1..Len(events) : events[l] = "sold_out" => k = l
    BY DEF AInv, Signalled
  <2> QED
    BY <1>2, <2>1, <2>3, <2>4
<1>13. LastUnit'
  BY <1>1, KeepLastUnit DEF AInv
<1> QED
  BY <1>9, <1>10, <1>11, <1>12, <1>13 DEF AInv

(* Any other reply, late ones included, and every fault.                   *)
LEMMA OtherAudit ==
  ASSUME IInv, AInv,
         \/ Tick \/ FlushScripts \/ LoseKeys
         \/ \E r \in Req : Timeout(r)
         \/ \E a \in Apis : LoseConnection(a) \/ Reconnect(a)
         \/ \E a \in Apis, r \in Req :
               OnDecided(a, r) \/ OnNoScript(a, r) \/ OnProbed(a, r) \/ OnChecked(a, r) \/ DropLate(a, r)
  PROVE  AInv'
<1>1. /\ UNCHANGED <<queue, events, buyer, remaining, accepted>>
      /\ \A r \in Req : answer[r] = "created" => answer'[r] = "created"
      /\ \A r \in Req : verdict'[r] = "OK" => verdict[r] = "OK"
      /\ \A x \in Apis : \A i \in 1..Len(wire'[x]) : wire'[x][i].op \in SideOps =>
            i \in 1..Len(wire[x]) /\ wire'[x][i] = wire[x][i]
  <2> DEFINE Quiet == UNCHANGED <<queue, events, buyer, remaining, accepted>>
             Kept  == \A r \in Req : answer[r] = "created" => answer'[r] = "created"
  <2>1. CASE Tick \/ FlushScripts \/ LoseKeys \/ (\E a \in Apis : Reconnect(a))
    BY <2>1 DEF Tick, FlushScripts, LoseKeys, Reconnect, redisVars, connVars, requestVars, replyVars
  <2>2. CASE \E r \in Req : Timeout(r)
    <3>1. PICK r \in Req : Timeout(r)
      BY <2>2
    <3>2. pc[r] # "done" /\ answer[r] = "none"
      BY <3>1 DEF Timeout, InFlight, IInv, Asked
    <3>3. Quiet /\ UNCHANGED <<wire, verdict>> /\ answer' = [answer EXCEPT ![r] = "unavailable"]
      BY <3>1 DEF Timeout, Finish, redisVars, connVars, replyVars
    <3> QED
      BY <3>2, <3>3 DEF IInv, TypeOK
  <2>3. CASE \E a \in Apis : LoseConnection(a)
    <3>1. PICK a \in Apis : LoseConnection(a)
      BY <2>3
    <3>2. Quiet /\ UNCHANGED verdict
      BY <3>1 DEF LoseConnection, redisVars, replyVars
    <3>3. Kept
      <4>1. \A r \in Req : answer[r] = "created" => pc[r] = "done"
        BY DEF IInv, Asked
      <4>2. "done" \notin InFlight \cup {"refused"}
        BY DEF InFlight
      <4> QED
        BY <3>1, <4>1, <4>2 DEF LoseConnection
    <3>4. PICK n \in 0..Len(wire[a]) : wire' = [wire EXCEPT ![a] = SubSeq(@, 1, n)]
      BY <3>1 DEF LoseConnection
    <3>5. \A x \in Apis : \A i \in 1..Len(wire'[x]) :
             i \in 1..Len(wire[x]) /\ wire'[x][i] = wire[x][i]
      BY <3>4, PrefixLemma DEF IInv, TypeOK
    <3> QED
      BY <3>2, <3>3, <3>5
  <2>4. CASE \E a \in Apis, r \in Req : OnDecided(a, r) \/ OnProbed(a, r) \/ OnChecked(a, r)
    <3>0. PICK a \in Apis, r \in Req : OnDecided(a, r) \/ OnProbed(a, r) \/ OnChecked(a, r)
      BY <2>4
    <3>1. PICK ans : Settle(a, r, ans) /\ UNCHANGED wire /\ pc[r] # "done"
      BY <3>0 DEF OnDecided, OnProbed, OnChecked
    <3>2. answer[r] = "none"
      BY <3>1 DEF IInv, Asked
    <3>3. Quiet /\ UNCHANGED <<wire, verdict>> /\ answer' = [answer EXCEPT ![r] = ans]
      BY <3>1 DEF Settle, Finish, redisVars, replyVars
    <3> QED
      BY <3>2, <3>3 DEF IInv, TypeOK
  <2>5. CASE \E a \in Apis, r \in Req : OnNoScript(a, r)
    <3>1. PICK a \in Apis, r \in Req : OnNoScript(a, r)
      BY <2>5
    <3>2. /\ Quiet /\ UNCHANGED answer /\ verdict' = [verdict EXCEPT ![r] = "none"]
          /\ wire' = [wire EXCEPT ![a] = Append(@, Command("eval", r))]
      BY <3>1 DEF OnNoScript, redisVars
    <3>3. Command("eval", r) \in Cmd /\ Command("eval", r).op \notin SideOps
      BY DEF Cmd, Command, Ops, ScriptOps, SideOps
    <3>4. /\ Len(wire[a]) \in Nat /\ Len(wire'[a]) = Len(wire[a]) + 1
          /\ \A i \in 1..Len(wire[a]) : wire'[a][i] = wire[a][i]
          /\ wire'[a][Len(wire[a]) + 1] = Command("eval", r)
          /\ \A x \in Apis \ {a} : wire'[x] = wire[x]
      BY <3>2, <3>3, AppendLemma DEF IInv, TypeOK
    <3>5. \A q \in Req : verdict'[q] = "OK" => verdict[q] = "OK"
      BY <3>2 DEF IInv, TypeOK
    <3>6. \A x \in Apis : \A i \in 1..Len(wire'[x]) : wire'[x][i].op \in SideOps =>
             i \in 1..Len(wire[x]) /\ wire'[x][i] = wire[x][i]
      BY <3>3, <3>4
    <3> QED
      BY <3>2, <3>5, <3>6
  <2>6. CASE \E a \in Apis, r \in Req : DropLate(a, r)
    BY <2>6 DEF DropLate, redisVars, requestVars, replyVars
  <2> QED
    BY <2>1, <2>2, <2>3, <2>4, <2>5, <2>6
<1>2. LastUnit'
  BY <1>1, KeepLastUnit DEF AInv
<1> QED
  BY <1>1, <1>2, KeepAudit DEF IInv, AInv

-----------------------------------------------------------------------------
LEMMA InitAudit == Init => AInv
<1> SUFFICES ASSUME Init PROVE AInv
  OBVIOUS
<1>1. \A a \in Apis : 1..Len(wire[a]) = {}
  BY DEF Init
<1>2. 1..Len(queue) = {} /\ 1..Len(events) = {}
  BY DEF Init
<1> QED
  BY <1>1, <1>2 DEF Init, AInv, Sent, SentOnce, Enqueued, Signalled, LastUnit

LEMMA NextAudit == IInv /\ AInv /\ [LossyNext]_vars => AInv'
<1> SUFFICES ASSUME IInv, AInv, [LossyNext]_vars PROVE AInv'
  OBVIOUS
<1>1. CASE Arrive
  <2>1. PICK r \in Req, b \in Buyers, a \in Apis :
           PostInside(r, b, a) \/ PostOutside(r, b, a) \/ GetOrder(r, b, a)
    BY <1>1 DEF Arrive
  <2>2. PICK awaiting \in InFlight, op \in AwaitedOps : Handle(r, b, a, awaiting, op)
    BY <2>1 DEF PostInside, PostOutside, GetOrder, InFlight, AwaitedOps, ScriptOps
  <2> QED
    BY <2>2, HandleAudit
<1>2. CASE RedisStep
  <2>1. IInv'
    BY NextInv
  <2> QED
    BY <1>2, <2>1, ExecuteAudit, XAddAudit, PublishAudit DEF RedisStep
<1>3. CASE HandlerStep
  BY <1>3, CreatedAudit, OtherAudit DEF HandlerStep, OnReply
<1>4. CASE Tick \/ LoseKeys \/ Fault
  BY <1>4, OtherAudit DEF Fault
<1>5. CASE UNCHANGED vars
  BY <1>5 DEF vars, redisVars, connVars, requestVars, replyVars, AInv, Sent, SentOnce, Enqueued,
              Signalled, LastUnit
<1> QED
  BY <1>1, <1>2, <1>3, <1>4, <1>5 DEF LossyNext, Next

LEMMA AuditInvariance == LossySpec => [](IInv /\ AInv)
<1>1. Init => IInv /\ AInv
  BY InitInv, InitAudit
<1>2. IInv /\ AInv /\ [LossyNext]_vars => (IInv /\ AInv)'
  BY NextInv, NextAudit
<1> QED
  BY <1>1, <1>2, PTL DEF LossySpec

(* The audit queue holds accepted buyers only and each of them once: a     *)
(* retry, a fallback or a late commit never enqueues a second row.         *)
THEOREM AuditedAtMostOnce == LossySpec => []AuditAtMostOnce
<1>1. IInv /\ AInv => AuditAtMostOnce
  <2> SUFFICES ASSUME IInv, AInv PROVE AuditAtMostOnce
    OBVIOUS
  <2>1. DOMAIN queue = 1..Len(queue)
    BY DEF IInv, TypeOK
  <2>2. \A k \in 1..Len(queue) : queue[k] \in accepted
    BY DEF IInv, AInv, Enqueued, Answered, Contract!Confirming
  <2>3. \A k, l \in 1..Len(queue) : queue[k] = queue[l] => k = l
    BY DEF AInv, Enqueued
  <2> QED
    BY <2>1, <2>2, <2>3 DEF AuditAtMostOnce
<1> QED
  BY <1>1, AuditInvariance, PTL

(* sale.sold_out is published at most once, and only when the last unit is *)
(* gone.                                                                   *)
THEOREM SoldOutSignalledOnce == LossySpec => []SoldOutSignalOnce
<1>1. IInv /\ AInv => SoldOutSignalOnce
  <2> SUFFICES ASSUME IInv, AInv PROVE SoldOutSignalOnce
    OBVIOUS
  <2>1. DOMAIN events = 1..Len(events)
    BY DEF IInv, TypeOK
  <2>2. \A k, l \in 1..Len(events) : events[k] = "sold_out" /\ events[l] = "sold_out" => k = l
    BY DEF AInv, Signalled
  <2>3. (\E k \in 1..Len(events) : events[k] = "sold_out") => Cardinality(accepted) = Stock
    BY DEF IInv, AInv, Signalled, Answered, LastUnit
  <2> QED
    BY <2>1, <2>2, <2>3 DEF SoldOutSignalOnce
<1> QED
  BY <1>1, AuditInvariance, PTL
=============================================================================
