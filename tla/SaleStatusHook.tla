--------------------------- MODULE SaleStatusHook ---------------------------
(***************************************************************************)
(* The browser's view of one sale: useSaleStatus keeps a body on screen    *)
(* from two independent readers, an EventSource and plain GETs, and claims *)
(* a channel state about how live that body is.  Timers (poll interval,    *)
(* reconnect, connect deadline, watchdog) carry the page when the stream   *)
(* fails, and every answer may arrive after the state that asked for it    *)
(* is gone.                                                                *)
(*                                                                         *)
(* What the sale is doing is abstracted to a version, 0..MaxVersion, that  *)
(* only grows at the server: a status the page could show is the version   *)
(* it was read at.                                                         *)
(***************************************************************************)
EXTENDS Naturals, FiniteSets

CONSTANTS MaxVersion,  \* bound: how often the sale changes
          MaxFaults,   \* bound: losses and failures of the network
          Nothing,     \* no body on screen, no frame received
          Garbage,     \* a payload that is not a sale status
          Failed,      \* fetchSaleStatus rejected
          NoSale       \* fetchSaleStatus rejected with SaleNotFoundError

ASSUME BoundAssumption == MaxVersion \in Nat /\ MaxFaults \in Nat
ASSUME OutcomeAssumption ==
    /\ {Nothing, Garbage, Failed, NoSale} \cap Nat = {}
    /\ Failed # NoSale /\ Garbage # Nothing

VARIABLES
    (* the server, and the network between *)
    exists,      \* does the slug name a sale?
    truth,       \* the version the server would report now
    published,   \* the newest version whose event reached the API's streams
    calls,       \* GET /status requests in flight: what for, and truth when sent
    faults,      \* how many faults happened
    (* the EventSource *)
    source,      \* what sourceRef holds, see Sources
    frame,       \* the last status frame of this connection
    flushed,     \* a frame followed the snapshot on this connection
    (* refs, state and timers of the hook *)
    mounted, notFound, channel, body,
    polling,     \* timerRef: the fallback interval runs
    retry,       \* reconnectTimerRef: a reconnect is scheduled
    deadline,    \* the connect deadline has not fired
    (* history: a recovery re-sync wrote over a frame of this connection *)
    overwritten

netVars    == <<exists, truth, published, calls, faults>>
streamVars == <<source, frame, flushed, overwritten>>
timerVars  == <<polling, retry, deadline>>
hookVars   == <<mounted, notFound, channel, body>>
statusVars == <<netVars, streamVars, timerVars, hookVars>>

Versions == 0..MaxVersion

Channels == {"connecting", "live", "degraded", "offline"}

(* none: closed by the hook or fatally failed.  connecting, hung: readyState *)
(* CONNECTING, the second never answering.  open; dead: open, but nothing    *)
(* will ever arrive on it.                                                   *)
Sources == {"none", "connecting", "hung", "open", "dead"}

(* cold: the read on load.  fallback: the polls carrying the page.  resync:  *)
(* the read on recovery.  refetch: the read after an order attempt.          *)
Kinds == {"cold", "fallback", "resync", "refetch"}

Responses == [code : {200}, payload : Versions \cup {Garbage}]
             \cup [code : {404, 503}, payload : {Garbage}]

-----------------------------------------------------------------------------
(* Reading the wire.                                                       *)

(* Mutant: a payload is painted without being narrowed.                    *)
ParseAnything(raw) == raw

ParseSaleStatus(raw) == IF raw \in Versions THEN raw ELSE Nothing

(* What the promise settles with.                                          *)
FetchSaleStatus(res) ==
    CASE res.code = 404 -> NoSale
      [] res.code = 503 -> Failed
      [] OTHER -> LET next == ParseSaleStatus(res.payload) IN
                  IF next = Nothing THEN Failed ELSE next

(* Two reads of one kind sent at the same version are kept as one: nothing *)
(* tells them apart.                                                       *)
Send(pending, kind) == pending \cup {[kind |-> kind, since |-> truth]}

-----------------------------------------------------------------------------
(* The pieces the handlers are made of.                                    *)

SpendFault == faults < MaxFaults /\ faults' = faults + 1

NewSource(s) ==
    source' = s /\ frame' = Nothing /\ flushed' = FALSE /\ overwritten' = FALSE

(* Mutant: the terminal flag is not looked at before a timer is armed.     *)
TimersRegardless == TRUE

MayArm == ~notFound

(* startFallback: one interval, its first poll at once.                    *)
StartFallback(pending) ==
    /\ polling' = (polling \/ MayArm)
    /\ calls' = IF MayArm /\ ~polling THEN Send(pending, "fallback") ELSE pending

ScheduleReconnect == retry' = (retry \/ MayArm)

CarryThePage(pending) == StartFallback(pending) /\ ScheduleReconnect

StatusInit ==
    /\ exists \in BOOLEAN
    /\ truth = 0 /\ published = 0 /\ faults = 0
    /\ calls = {[kind |-> "cold", since |-> 0]}
    /\ source = "connecting" /\ frame = Nothing
    /\ flushed = FALSE /\ overwritten = FALSE
    /\ mounted = TRUE /\ notFound = FALSE
    /\ channel = "connecting" /\ body = Nothing
    /\ polling = FALSE /\ retry = FALSE /\ deadline = TRUE

-----------------------------------------------------------------------------
(* The server and the network.                                             *)

(* The sale changes, and its event is published, or lost: an order answered *)
(* 503 after it committed, a PUBLISH that failed, a subscription that was   *)
(* down.                                                                    *)
Advance ==
    /\ truth < MaxVersion /\ truth' = truth + 1
    /\ \/ published' = truth' /\ UNCHANGED faults
       \/ SpendFault /\ UNCHANGED published
    /\ UNCHANGED <<exists, calls, streamVars, timerVars, hookVars>>

(* A handshake that never answers, a socket black-holed without an error.  *)
GoSilent ==
    /\ \/ source = "connecting" /\ source' = "hung"
       \/ source = "open" /\ source' = "dead"
    /\ SpendFault
    /\ UNCHANGED <<exists, truth, published, calls, frame, flushed, overwritten,
                   timerVars, hookVars>>

(* fetchSaleStatus sets no timeout: a read may hang for ever.              *)
LoseCall ==
    /\ \E c \in calls : calls' = calls \ {c}
    /\ SpendFault
    /\ UNCHANGED <<exists, truth, published, streamVars, timerVars, hookVars>>

-----------------------------------------------------------------------------
(* The EventSource's handlers.                                             *)

Listening == mounted /\ ~notFound

(* onopen: the stream becomes the sole writer; a recovery also re-reads.   *)
OnOpen ==
    /\ Listening /\ exists /\ source = "connecting"
    /\ NewSource("open")
    /\ calls' = IF channel \in {"degraded", "offline"} THEN Send(calls, "resync") ELSE calls
    /\ channel' = "live"
    /\ polling' = FALSE /\ retry' = FALSE
    /\ UNCHANGED <<exists, truth, published, faults, deadline, mounted, notFound, body>>

(* The status listener; a malformed frame is ignored.                      *)
OnFrame(raw) ==
    /\ source = "open" /\ mounted
    /\ ParseSaleStatus(raw) # Nothing
    /\ body' = ParseSaleStatus(raw)
    /\ frame' = body' /\ flushed' = (frame # Nothing) /\ overwritten' = FALSE
    /\ UNCHANGED <<netVars, source, timerVars, mounted, notFound, channel>>

(* A frame composed before the snapshot may be held while the snapshot is   *)
(* read and be flushed behind it, once; the emits that follow are chained,  *)
(* and never go back.                                                       *)
Frames == {v \in 0..truth : flushed => v >= frame} \cup {Garbage}

(* Mutant: an error leaves the claim of liveness in place.                 *)
ClaimAfterError == channel

ClaimDropped == IF channel = "live" THEN "degraded" ELSE channel

(* onerror: recoverable (the browser reconnects the same source) or fatal  *)
(* (it is closed).  A slug that names no sale is refused every handshake.  *)
OnError ==
    /\ Listening /\ source # "none"
    /\ IF exists THEN SpendFault ELSE source = "connecting" /\ UNCHANGED faults
    /\ \/ exists /\ NewSource("connecting")
       \/ NewSource("none")
    /\ channel' = ClaimDropped
    /\ CarryThePage(calls)
    /\ UNCHANGED <<exists, truth, published, deadline, mounted, notFound, body>>

(* The stream claims to be live and has been silent for longer than the    *)
(* watchdog's patience; heartbeats keep a healthy one alive.               *)
Watchdog ==
    /\ Listening /\ channel = "live" /\ source # "open"
    /\ NewSource("none")
    /\ channel' = "degraded"
    /\ CarryThePage(calls)
    /\ UNCHANGED <<exists, truth, published, faults, deadline, mounted, notFound, body>>

-----------------------------------------------------------------------------
(* The timers.                                                             *)

(* The reconnect attempt: a source still in its handshake is left alone.   *)
Reconnect ==
    /\ Listening /\ retry
    /\ IF channel = "live" THEN retry' = FALSE /\ UNCHANGED streamVars
       ELSE /\ UNCHANGED retry
            /\ IF source \in {"connecting", "hung"} THEN UNCHANGED streamVars
               ELSE NewSource("connecting")
    /\ UNCHANGED <<netVars, polling, deadline, hookVars>>

PollTick ==
    /\ Listening /\ polling
    /\ calls' = Send(calls, "fallback")
    /\ UNCHANGED <<exists, truth, published, faults, streamVars, timerVars, hookVars>>

(* Mutant: the deadline trusts the cold read to paint the page.            *)
StillConnectingUnpainted == channel = "connecting" /\ body = Nothing

StillConnecting == channel = "connecting"

(* A handshake that hangs must not strand the page.                        *)
ConnectDeadline ==
    /\ mounted /\ deadline /\ deadline' = FALSE
    /\ IF StillConnecting THEN CarryThePage(calls) ELSE UNCHANGED <<calls, polling, retry>>
    /\ UNCHANGED <<exists, truth, published, faults, streamVars, hookVars>>

-----------------------------------------------------------------------------
(* The answers to GET /status: got is what the promise settled with, rest  *)
(* the requests still in flight.                                           *)

(* Mutant: whoever answers writes.                                         *)
AnyoneWrites == TRUE

StreamIsDown == channel # "live"

(* pollOnce, fulfilled: only a poll carrying the page claims "degraded".   *)
PollRead(kind, got, rest) ==
    /\ body' = IF StreamIsDown THEN got ELSE body
    /\ channel' = IF channel # "live" /\ kind = "fallback" THEN "degraded" ELSE channel
    /\ calls' = rest
    /\ UNCHANGED <<streamVars, polling, retry, notFound>>

(* markNotFound: no amount of polling turns a 404 into a 200.              *)
PollNotFound(rest) ==
    /\ notFound' = TRUE
    /\ polling' = FALSE /\ retry' = FALSE
    /\ IF notFound THEN UNCHANGED streamVars ELSE NewSource("none")
    /\ calls' = rest
    /\ UNCHANGED <<channel, body>>

(* pollOnce, rejected: a poll carrying the page admits "offline", the cold *)
(* read arms the fallback.                                                 *)
PollFailed(kind, rest) ==
    /\ \/ /\ channel # "live" /\ kind = "fallback"
          /\ channel' = "offline"
          /\ calls' = rest /\ UNCHANGED <<polling, retry>>
       \/ /\ channel # "live" /\ kind = "cold"
          /\ CarryThePage(rest) /\ UNCHANGED channel
       \/ /\ channel = "live"
          /\ calls' = rest /\ UNCHANGED <<polling, retry, channel>>
    /\ UNCHANGED <<streamVars, notFound, body>>

OnPoll(kind, got, rest) ==
    /\ kind \in {"cold", "fallback"}
    /\ \/ got \in Versions /\ PollRead(kind, got, rest)
       \/ got = NoSale /\ PollNotFound(rest)
       \/ got = Failed /\ PollFailed(kind, rest)

(* The recovery re-sync writes as the stream does, whatever came since.    *)
OnResync(kind, got, rest) ==
    /\ kind = "resync"
    /\ body' = IF got \in Versions THEN got ELSE body
    /\ overwritten' = (overwritten \/ (got \in Versions /\ frame \notin {Nothing, got}))
    /\ calls' = rest
    /\ UNCHANGED <<source, frame, flushed, polling, retry, notFound, channel>>

(* The re-sync after an order attempt obeys the rule of the polls.         *)
OnRefetch(kind, got, rest) ==
    /\ kind = "refetch"
    /\ body' = IF mounted /\ StreamIsDown /\ got \in Versions THEN got ELSE body
    /\ calls' = rest
    /\ UNCHANGED <<streamVars, polling, retry, notFound, channel>>

(* A read returns any version since it was sent.                           *)
Answer(c, res) ==
    LET got == FetchSaleStatus(res)
        rest == calls \ {c} IN
    /\ c \in calls
    /\ res.code = 404 => ~exists
    /\ res.code = 200 /\ res.payload # Garbage => exists /\ res.payload \in c.since..truth
    /\ IF res.payload = Garbage /\ res.code # 404 THEN SpendFault ELSE UNCHANGED faults
    /\ OnPoll(c.kind, got, rest) \/ OnResync(c.kind, got, rest) \/ OnRefetch(c.kind, got, rest)
    /\ UNCHANGED <<exists, truth, published, deadline, mounted>>

-----------------------------------------------------------------------------
(* The page.                                                               *)

(* refetch, called after every order attempt.                              *)
Refetch ==
    /\ mounted
    /\ calls' = IF notFound THEN calls ELSE Send(calls, "refetch")
    /\ UNCHANGED <<exists, truth, published, faults, streamVars, timerVars, hookVars>>

(* The effect's cleanup: aborts every read but a refetch.                  *)
Unmount ==
    /\ mounted /\ mounted' = FALSE
    /\ polling' = FALSE /\ retry' = FALSE /\ deadline' = FALSE
    /\ NewSource("none")
    /\ calls' = {c \in calls : c.kind = "refetch"}
    /\ UNCHANGED <<exists, truth, published, faults, notFound, channel, body>>

-----------------------------------------------------------------------------
StreamStep == OnOpen \/ OnError \/ \E raw \in Frames : OnFrame(raw)

TimerStep == Watchdog \/ Reconnect \/ PollTick \/ ConnectDeadline

AnswerStep == \E c \in calls, res \in Responses : Answer(c, res)

NetworkStep == Advance \/ GoSilent \/ LoseCall

HookStep == StreamStep \/ TimerStep \/ AnswerStep \/ NetworkStep \/ Unmount

StatusNext == HookStep \/ Refetch

StatusSpec == StatusInit /\ [][StatusNext]_statusVars

(* The server owes an open stream its snapshot, and a frame no older than   *)
(* the last event that was published; a change whose event was lost it owes *)
(* to nobody.                                                               *)
FrameDue ==
    /\ frame # Nothing => frame < published
    /\ \E v \in published..truth : OnFrame(v)

AnswerOf(kind) ==
    \E c \in calls, res \in Responses : c.kind = kind /\ Answer(c, res)

(* A reachable server accepts the stream, sends the frames it owes and     *)
(* keeps answering reads of every kind (or the fault is spent); timers     *)
(* fire.                                                                   *)
StatusFairness ==
    /\ WF_statusVars(OnOpen)
    /\ WF_statusVars(~exists /\ OnError)
    /\ WF_statusVars(FrameDue)
    /\ WF_statusVars(Watchdog)
    /\ WF_statusVars(Reconnect)
    /\ WF_statusVars(PollTick)
    /\ WF_statusVars(ConnectDeadline)
    /\ \A kind \in Kinds : WF_statusVars(AnswerOf(kind))

FairStatusSpec == StatusSpec /\ StatusFairness

-----------------------------------------------------------------------------
(* Properties.                                                             *)

(* The view holds a status that was parsed, or none; the channel is one of *)
(* the four; requests in flight were sent in the past.                     *)
StatusTypeOK ==
    /\ exists \in BOOLEAN /\ mounted \in BOOLEAN /\ notFound \in BOOLEAN
    /\ truth \in Versions /\ published \in 0..truth
    /\ faults \in 0..MaxFaults
    /\ calls \subseteq [kind : Kinds, since : 0..truth]
    /\ source \in Sources
    /\ channel \in Channels
    /\ frame \in Versions \cup {Nothing}
    /\ body \in Versions \cup {Nothing}
    /\ polling \in BOOLEAN /\ retry \in BOOLEAN /\ deadline \in BOOLEAN
    /\ flushed \in BOOLEAN /\ overwritten \in BOOLEAN

(* useSaleStatus.ts:43 and :235, "must not strand the page": whatever      *)
(* failed, in whatever order, a page that claims to be live owns an open   *)
(* stream and no timers; one that does not is being carried: a handshake   *)
(* or a reconnect is under way, and polls run unless the connect deadline  *)
(* is still to start them.                                                 *)
NotStranded ==
    Listening =>
        IF channel = "live"
        THEN source \in {"open", "dead"} /\ ~polling /\ ~retry
        ELSE /\ source \in {"connecting", "hung"} \/ retry
             /\ polling \/ (channel = "connecting" /\ deadline)

(* useSaleStatus.ts:1, the sole-writer rule: while the channel is live the *)
(* page shows the last frame of this connection, whatever polls and        *)
(* re-fetches of earlier phases answer late.  The one exception in the     *)
(* code, the recovery re-sync, is what overwritten records.                *)
StreamOwnsBody ==
    channel = "live" /\ frame # Nothing /\ ~overwritten => body = frame

(* useSaleStatus.ts:17, a 404 is terminal: nothing in flight at that       *)
(* moment arms a timer or opens a stream again.                            *)
NotFoundIsTerminal ==
    notFound => source = "none" /\ ~polling /\ ~retry

View == INSTANCE StatusView WITH rewound <- overwritten

(* Every step of the hook is one the view of StatusView may take: the body *)
(* on a live channel is the frames', newest or not, but for the re-sync; a *)
(* 404 is final; "offline" is never claimed straight from "live".          *)
ImplementsView == View!ViewSpec

(* useSaleStatus.ts:43 and :235: once the sale and the network are quiet, a *)
(* mounted page shows the current status, or "Sale not found" if there is   *)
(* none.  Two exceptions are the code's own: the recovery re-sync wrote     *)
(* over a frame, or the channel is live and the event of the last change    *)
(* was lost, for a healthy stream never re-reads (sale-events.ts:139).      *)
EventuallyCurrent ==
    <>[](mounted =>
           IF exists
           THEN \/ body = truth \/ overwritten
                \/ channel = "live" /\ published # truth
           ELSE notFound)

(* useSaleStatus.ts:1, taken at its word: an open stream is the sole       *)
(* writer of the status view.                                              *)
SoleWriter == channel = "live" /\ frame # Nothing => body = frame
=============================================================================
