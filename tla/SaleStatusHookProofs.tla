------------------------ MODULE SaleStatusHookProofs ------------------------
(***************************************************************************)
(* Proofs about SaleStatusHook, for every number of versions and faults:   *)
(* its invariants, and that it implements StatusView.                      *)
(***************************************************************************)
EXTENDS SaleStatusHook, TLAPS

Claimed == {"open", "dead"}

(* An open source is what the claim of liveness rests on, and only an open *)
(* source has frames.                                                      *)
StreamIsClaimed ==
    /\ source \in Claimed => channel = "live" /\ exists /\ mounted
    /\ frame # Nothing \/ overwritten => source \in Claimed

(* Nothing of the effect outlives its cleanup but a refetch in flight.     *)
LeftIsLeft ==
    ~mounted => /\ source = "none" /\ ~polling /\ ~retry
                /\ \A c \in calls : c.kind = "refetch"

(* Before the first poll is sent, none is in flight: only polls take the   *)
(* channel out of "connecting" while the stream is not open.               *)
PollsAreArmed ==
    Listening /\ channel = "connecting" /\ ~polling => \A c \in calls : c.kind # "fallback"

IInv ==
    /\ StatusTypeOK /\ NotStranded /\ StreamOwnsBody /\ NotFoundIsTerminal
    /\ StreamIsClaimed /\ LeftIsLeft /\ PollsAreArmed

-----------------------------------------------------------------------------
(* What a read settles with.                                               *)

(* A settled read is a version the response carried, a failure, or the     *)
(* 404 of a slug that names no sale.                                       *)
LEMMA Settles ==
    ASSUME NEW res \in Responses
    PROVE  /\ FetchSaleStatus(res) \in Versions \cup {Failed, NoSale}
           /\ FetchSaleStatus(res) \in Versions =>
                 res.code = 200 /\ res.payload \in Versions /\ res.payload = FetchSaleStatus(res)
           /\ FetchSaleStatus(res) = NoSale => res.code = 404
  BY OutcomeAssumption, BoundAssumption
  DEF FetchSaleStatus, ParseSaleStatus, Responses, Versions

(* A frame that parses is a version no newer than the truth.               *)
LEMMA FrameParses ==
    ASSUME truth \in Versions, NEW raw \in Frames, ParseSaleStatus(raw) # Nothing
    PROVE  raw \in 0..truth /\ ParseSaleStatus(raw) = raw
  BY OutcomeAssumption, BoundAssumption DEF Frames, ParseSaleStatus, Versions

(* The hook's first commit satisfies every part of the invariant.          *)
LEMMA InitialInv == StatusInit => IInv
<1> SUFFICES ASSUME StatusInit PROVE IInv
  OBVIOUS
<1> USE DEF StatusInit
<1>1. truth \in Versions /\ published \in 0..truth /\ 0 \in 0..truth /\ faults \in 0..MaxFaults
  BY BoundAssumption DEF Versions
<1>2. calls \subseteq [kind : Kinds, since : 0..truth]
  BY <1>1 DEF Kinds
<1>3. StatusTypeOK
  BY <1>1, <1>2 DEF StatusTypeOK, Sources, Channels
<1>4. NotStranded /\ StreamOwnsBody /\ NotFoundIsTerminal
  BY DEF NotStranded, StreamOwnsBody, NotFoundIsTerminal
<1>5. StreamIsClaimed /\ LeftIsLeft
  BY DEF StreamIsClaimed, LeftIsLeft, Claimed
<1>6. PollsAreArmed
  BY DEF PollsAreArmed
<1> QED
  BY <1>3, <1>4, <1>5, <1>6 DEF IInv

(* The server and the network touch the stream and the requests only: they *)
(* turn an open source into a dead one, and drop a request.                *)
LEMMA NetworkInv == IInv /\ NetworkStep => IInv'
<1> SUFFICES ASSUME IInv, NetworkStep PROVE IInv'
  OBVIOUS
<1> USE DEF IInv, StatusTypeOK, NotStranded, StreamOwnsBody, NotFoundIsTerminal,
            StreamIsClaimed, LeftIsLeft, PollsAreArmed, Listening, Claimed,
            Versions, Sources, SpendFault, streamVars, timerVars, hookVars
<1>1. CASE Advance
  BY <1>1, BoundAssumption DEF Advance
<1>2. CASE GoSilent
  BY <1>2, BoundAssumption DEF GoSilent
<1>3. CASE LoseCall
  BY <1>3, BoundAssumption DEF LoseCall
<1> QED
  BY <1>1, <1>2, <1>3 DEF NetworkStep

-----------------------------------------------------------------------------
(* The pieces of the handlers.                                             *)

(* A request sent now is well-formed.                                      *)
LEMMA SendTypes ==
    ASSUME truth \in Versions, NEW pending, pending \subseteq [kind : Kinds, since : 0..truth],
           NEW kind \in Kinds
    PROVE  Send(pending, kind) \subseteq [kind : Kinds, since : 0..truth]
<1>1. truth \in 0..truth
  BY BoundAssumption DEF Versions
<1> QED
  BY <1>1 DEF Send

(* While the hook listens, CarryThePage leaves both timers running, and    *)
(* sends at most one poll.                                                 *)
LEMMA Carries ==
    ASSUME StatusTypeOK, ~notFound, NEW pending,
           pending \subseteq [kind : Kinds, since : 0..truth],
           CarryThePage(pending)
    PROVE  /\ polling' = TRUE /\ retry' = TRUE
           /\ calls' \subseteq [kind : Kinds, since : 0..truth]
<1>1. "fallback" \in Kinds
  BY DEF Kinds
<1>2. Send(pending, "fallback") \subseteq [kind : Kinds, since : 0..truth]
  BY <1>1, SendTypes DEF StatusTypeOK
<1> QED
  BY <1>2 DEF CarryThePage, StartFallback, ScheduleReconnect, MayArm, StatusTypeOK

(* Closing or replacing the source forgets its frames.                     *)
LEMMA NewSourceTypes ==
    ASSUME NEW s \in Sources, NewSource(s)
    PROVE  /\ source' = s /\ frame' = Nothing /\ flushed' = FALSE /\ overwritten' = FALSE
           /\ source' \in Sources /\ frame' \in Versions \cup {Nothing}
  BY DEF NewSource

-----------------------------------------------------------------------------
(* The stream's handlers.                                                  *)

LEMMA StreamInv == IInv /\ StreamStep => IInv'
<1> SUFFICES ASSUME IInv, StreamStep PROVE IInv'
  OBVIOUS
<1> USE DEF IInv, StatusTypeOK, NotStranded, StreamOwnsBody, NotFoundIsTerminal,
            StreamIsClaimed, LeftIsLeft, PollsAreArmed, Listening, Claimed,
            Sources, Channels, timerVars, hookVars, netVars
<1>1. CASE OnOpen
  <2>1. "resync" \in Kinds
    BY DEF Kinds
  <2>2. calls' \subseteq [kind : Kinds, since : 0..truth]
    BY <1>1, <2>1, SendTypes DEF OnOpen
  <2> QED
    BY <1>1, <2>2 DEF OnOpen, NewSource
<1>2. CASE OnError
  <2>1. /\ polling' = TRUE /\ retry' = TRUE
        /\ calls' \subseteq [kind : Kinds, since : 0..truth]
    BY <1>2, Carries DEF OnError
  <2>2. faults' \in 0..MaxFaults
    BY <1>2, BoundAssumption DEF OnError, SpendFault
  <2>3. /\ source' \in {"connecting", "none"} /\ frame' = Nothing
        /\ flushed' = FALSE /\ overwritten' = FALSE
    BY <1>2 DEF OnError, NewSource
  <2>4. channel' \in Channels /\ channel' # "live"
    BY <1>2 DEF OnError, ClaimDropped
  <2> QED
    BY <1>2, <2>1, <2>2, <2>3, <2>4 DEF OnError
<1>3. CASE \E raw \in Frames : OnFrame(raw)
  <2>1. PICK raw \in Frames : OnFrame(raw)
    BY <1>3
  <2>2. raw \in 0..truth /\ ParseSaleStatus(raw) = raw
    BY <2>1, FrameParses DEF OnFrame
  <2>3. body' = raw /\ frame' = raw /\ raw \in Versions
    BY <2>1, <2>2, BoundAssumption DEF OnFrame, Versions
  <2> QED
    BY <2>1, <2>3 DEF OnFrame
<1> QED
  BY <1>1, <1>2, <1>3 DEF StreamStep

-----------------------------------------------------------------------------
(* The timers.                                                             *)

LEMMA TimerInv == IInv /\ TimerStep => IInv'
<1> SUFFICES ASSUME IInv, TimerStep PROVE IInv'
  OBVIOUS
<1> USE DEF IInv, StatusTypeOK, NotStranded, StreamOwnsBody, NotFoundIsTerminal,
            StreamIsClaimed, LeftIsLeft, PollsAreArmed, Listening, Claimed,
            Sources, Channels, streamVars, timerVars, hookVars, netVars
<1>1. CASE Watchdog
  <2>1. /\ polling' = TRUE /\ retry' = TRUE
        /\ calls' \subseteq [kind : Kinds, since : 0..truth]
    BY <1>1, Carries DEF Watchdog
  <2> QED
    BY <1>1, <2>1 DEF Watchdog, NewSource
<1>2. CASE Reconnect
  BY <1>2 DEF Reconnect, NewSource
<1>3. CASE PollTick
  <2>1. "fallback" \in Kinds
    BY DEF Kinds
  <2>2. calls' \subseteq [kind : Kinds, since : 0..truth]
    BY <1>3, <2>1, SendTypes DEF PollTick
  <2> QED
    BY <1>3, <2>2 DEF PollTick
<1>4. CASE ConnectDeadline
  <2>1. CASE StillConnecting /\ ~notFound
    <3>1. /\ polling' = TRUE /\ retry' = TRUE
          /\ calls' \subseteq [kind : Kinds, since : 0..truth]
      BY <1>4, <2>1, Carries DEF ConnectDeadline
    <3> QED
      BY <1>4, <2>1, <3>1 DEF ConnectDeadline, StillConnecting
  <2>2. CASE StillConnecting /\ notFound
    BY <1>4, <2>2
    DEF ConnectDeadline, StillConnecting, CarryThePage, StartFallback, ScheduleReconnect, MayArm
  <2>3. CASE ~StillConnecting
    BY <1>4, <2>3 DEF ConnectDeadline, StillConnecting
  <2> QED
    BY <2>1, <2>2, <2>3
<1> QED
  BY <1>1, <1>2, <1>3, <1>4 DEF TimerStep

-----------------------------------------------------------------------------
(* The answers.                                                            *)

LEMMA AnswerInv == IInv /\ AnswerStep => IInv'
<1> SUFFICES ASSUME IInv, NEW c \in calls, NEW res \in Responses, Answer(c, res)
             PROVE  IInv'
  BY DEF AnswerStep
<1> DEFINE got == FetchSaleStatus(res)
           rest == calls \ {c}
<1>1. /\ rest \subseteq [kind : Kinds, since : 0..truth] /\ c.kind \in Kinds
      /\ faults' \in 0..MaxFaults
      /\ UNCHANGED <<exists, truth, published, deadline, mounted>>
  BY BoundAssumption DEF Answer, IInv, StatusTypeOK, SpendFault
<1>2. got \in Versions \cup {Failed, NoSale} /\ (got = NoSale => ~exists)
  BY Settles DEF Answer
<1>3. got \in Versions => exists
  BY Settles, OutcomeAssumption DEF Answer, Versions
<1>4. \/ OnPoll(c.kind, got, rest) \/ OnResync(c.kind, got, rest)
      \/ OnRefetch(c.kind, got, rest)
  BY DEF Answer
<1> HIDE DEF got
<1> USE DEF IInv, StatusTypeOK, NotStranded, StreamOwnsBody, NotFoundIsTerminal,
            StreamIsClaimed, LeftIsLeft, PollsAreArmed, Listening, Claimed,
            Sources, Channels, streamVars
<1>5. CASE c.kind \in {"cold", "fallback"} /\ got \in Versions /\ PollRead(c.kind, got, rest)
  BY <1>1, <1>3, <1>5 DEF PollRead, StreamIsDown
<1>6. CASE c.kind \in {"cold", "fallback"} /\ got = NoSale /\ PollNotFound(rest)
  BY <1>1, <1>2, <1>6 DEF PollNotFound, NewSource
<1>7. CASE c.kind \in {"cold", "fallback"} /\ got = Failed /\ PollFailed(c.kind, rest)
  <2>1. CASE channel = "live" \/ c.kind = "fallback"
    BY <1>1, <1>7, <2>1 DEF PollFailed
  <2>2. CASE channel # "live" /\ c.kind = "cold" /\ ~notFound
    <3>1. CarryThePage(rest) /\ UNCHANGED <<channel, streamVars, notFound, body>>
      BY <1>7, <2>2 DEF PollFailed
    <3>2. /\ polling' = TRUE /\ retry' = TRUE
          /\ calls' \subseteq [kind : Kinds, since : 0..truth]
      BY <1>1, <2>2, <3>1, Carries
    <3> QED
      BY <1>1, <2>2, <3>1, <3>2
  <2>3. CASE channel # "live" /\ c.kind = "cold" /\ notFound
    BY <1>1, <1>7, <2>3
    DEF PollFailed, CarryThePage, StartFallback, ScheduleReconnect, MayArm
  <2> QED
    BY <1>7, <2>1, <2>2, <2>3
<1>8. CASE OnResync(c.kind, got, rest)
  BY <1>1, <1>2, <1>8 DEF OnResync
<1>9. CASE OnRefetch(c.kind, got, rest)
  BY <1>1, <1>2, <1>9 DEF OnRefetch, StreamIsDown
<1> QED
  BY <1>4, <1>5, <1>6, <1>7, <1>8, <1>9 DEF OnPoll

-----------------------------------------------------------------------------
(* The page.                                                               *)

LEMMA PageInv == IInv /\ (Refetch \/ Unmount) => IInv'
<1> SUFFICES ASSUME IInv, Refetch \/ Unmount PROVE IInv'
  OBVIOUS
<1> USE DEF IInv, StatusTypeOK, NotStranded, StreamOwnsBody, NotFoundIsTerminal,
            StreamIsClaimed, LeftIsLeft, PollsAreArmed, Listening, Claimed,
            Sources, streamVars, timerVars, hookVars
<1>1. CASE Refetch
  <2>1. "refetch" \in Kinds
    BY DEF Kinds
  <2>2. calls' \subseteq [kind : Kinds, since : 0..truth]
    BY <1>1, <2>1, SendTypes DEF Refetch
  <2>3. \A x \in calls' : x \in calls \/ x.kind = "refetch"
    BY <1>1 DEF Refetch, Send
  <2> QED
    BY <1>1, <2>2, <2>3 DEF Refetch
<1>2. CASE Unmount
  BY <1>2 DEF Unmount, NewSource
<1> QED
  BY <1>1, <1>2

-----------------------------------------------------------------------------
(* IInv is inductive.                                                      *)

LEMMA NextInv == IInv /\ [StatusNext]_statusVars => IInv'
<1>1. IInv /\ UNCHANGED statusVars => IInv'
  BY DEF IInv, StatusTypeOK, NotStranded, StreamOwnsBody, NotFoundIsTerminal,
         StreamIsClaimed, LeftIsLeft, PollsAreArmed, Listening,
         statusVars, netVars, streamVars, timerVars, hookVars
<1> QED
  BY <1>1, NetworkInv, StreamInv, TimerInv, AnswerInv, PageInv DEF StatusNext, HookStep

THEOREM Inductive == StatusSpec => []IInv
<1> QED
  BY InitialInv, NextInv, PTL DEF StatusSpec

(* Type correctness of the status hook: whatever the wire carries, the     *)
(* body on screen is a status that was parsed, or none.                    *)
THEOREM StatusTypes == StatusSpec => []StatusTypeOK
<1>1. IInv => StatusTypeOK
  BY DEF IInv
<1> QED
  BY <1>1, Inductive, PTL

(* No page is stranded, for any number of faults and changes: a claim of   *)
(* liveness rests on an open stream, and without one the timers run.       *)
THEOREM NeverStranded == StatusSpec => []NotStranded
<1>1. IInv => NotStranded
  BY DEF IInv
<1> QED
  BY <1>1, Inductive, PTL

(* The sole-writer rule, with its one exception.                           *)
THEOREM StreamIsTheWriter == StatusSpec => []StreamOwnsBody
<1>1. IInv => StreamOwnsBody
  BY DEF IInv
<1> QED
  BY <1>1, Inductive, PTL

(* Nothing runs, or starts again, once a 404 was read.                     *)
THEOREM NotFoundStops == StatusSpec => []NotFoundIsTerminal
<1>1. IInv => NotFoundIsTerminal
  BY DEF IInv
<1> QED
  BY <1>1, Inductive, PTL

-----------------------------------------------------------------------------
(* The refinement: each step is one of StatusView's, or changes nothing    *)
(* the view shows.                                                         *)

LEMMA InitRefines == StatusInit => View!ViewInit
  BY DEF StatusInit, View!ViewInit

(* What the view may ask of a state of the invariant: an unclaimed source  *)
(* has no frames, and every read but a refetch belongs to a mounted page.  *)
LEMMA ViewFacts ==
    ASSUME IInv
    PROVE  /\ channel # "live" => frame = Nothing /\ overwritten = FALSE
           /\ notFound => frame = Nothing /\ overwritten = FALSE
           /\ \A c \in calls : c.kind # "refetch" => mounted
  BY DEF IInv, StatusTypeOK, StreamIsClaimed, NotFoundIsTerminal, LeftIsLeft, Claimed

LEMMA StreamRefines == IInv /\ StreamStep => [View!ViewNext]_(View!viewVars)
<1> SUFFICES ASSUME IInv, StreamStep PROVE [View!ViewNext]_(View!viewVars)
  OBVIOUS
<1>1. CASE OnOpen
  <2>1. View!GoLive
    BY <1>1 DEF OnOpen, NewSource, Listening, View!GoLive
  <2> QED
    BY <2>1 DEF View!ViewNext
<1>2. CASE OnError
  <2>1. /\ frame' = Nothing /\ overwritten' = FALSE /\ channel' = ClaimDropped
        /\ UNCHANGED <<exists, truth, mounted, notFound, body>> /\ mounted /\ ~notFound
    BY <1>2 DEF OnError, NewSource, Listening
  <2>2. CASE channel = "live"
    <3>1. View!Falter
      BY <2>1, <2>2 DEF ClaimDropped, View!Falter
    <3> QED
      BY <3>1 DEF View!ViewNext
  <2>3. CASE channel # "live"
    BY <2>1, <2>3, ViewFacts DEF ClaimDropped, View!viewVars
  <2> QED
    BY <2>2, <2>3
<1>3. CASE \E raw \in Frames : OnFrame(raw)
  <2>1. PICK raw \in Frames : OnFrame(raw)
    BY <1>3
  <2>2. raw \in 0..truth /\ ParseSaleStatus(raw) = raw
    BY <2>1, FrameParses DEF OnFrame, IInv, StatusTypeOK
  <2>3. mounted /\ exists /\ ~notFound /\ channel = "live"
    BY <2>1 DEF OnFrame, IInv, StreamIsClaimed, NotFoundIsTerminal, Claimed
  <2>4. View!ShowFrame(raw)
    BY <2>1, <2>2, <2>3 DEF OnFrame, netVars, View!ShowFrame
  <2> QED
    BY <2>2, <2>4 DEF View!ViewNext
<1> QED
  BY <1>1, <1>2, <1>3 DEF StreamStep

LEMMA TimerRefines == IInv /\ TimerStep => [View!ViewNext]_(View!viewVars)
<1> SUFFICES ASSUME IInv, TimerStep PROVE [View!ViewNext]_(View!viewVars)
  OBVIOUS
<1> USE DEF View!viewVars, netVars, streamVars, hookVars
<1>1. CASE Watchdog
  <2>1. View!Falter
    BY <1>1 DEF Watchdog, NewSource, Listening, View!Falter
  <2> QED
    BY <2>1 DEF View!ViewNext
<1>2. CASE Reconnect
  BY <1>2, ViewFacts DEF Reconnect, NewSource
<1>3. CASE PollTick
  BY <1>3 DEF PollTick
<1>4. CASE ConnectDeadline
  BY <1>4 DEF ConnectDeadline
<1> QED
  BY <1>1, <1>2, <1>3, <1>4 DEF TimerStep

LEMMA AnswerRefines == IInv /\ AnswerStep => [View!ViewNext]_(View!viewVars)
<1> SUFFICES ASSUME IInv, NEW c \in calls, NEW res \in Responses, Answer(c, res)
             PROVE  [View!ViewNext]_(View!viewVars)
  BY DEF AnswerStep
<1> DEFINE got == FetchSaleStatus(res)
           rest == calls \ {c}
<1>1. UNCHANGED <<exists, truth, mounted>> /\ (c.kind # "refetch" => mounted)
  BY ViewFacts DEF Answer
<1>2. got \in Versions => exists /\ got \in c.since..truth
  BY Settles, OutcomeAssumption, BoundAssumption DEF Answer, Versions
<1>3. c.since \in 0..truth /\ truth \in Versions
  BY DEF IInv, StatusTypeOK
<1>4. got \in Versions => exists /\ got \in 0..truth
  BY <1>2, <1>3, BoundAssumption DEF Versions
<1>5. got = NoSale => ~exists
  BY Settles DEF Answer
<1>6. \/ OnPoll(c.kind, got, rest) \/ OnResync(c.kind, got, rest)
      \/ OnRefetch(c.kind, got, rest)
  BY DEF Answer
<1> HIDE DEF got
<1> USE DEF View!viewVars, streamVars
<1>7. CASE c.kind \in {"cold", "fallback"} /\ got \in Versions /\ PollRead(c.kind, got, rest)
  <2>1. CASE channel = "live"
    BY <1>1, <1>7, <2>1 DEF PollRead, StreamIsDown
  <2>2. CASE channel # "live"
    <3>1. View!Paint(got)
      BY <1>1, <1>4, <1>7, <2>2 DEF PollRead, StreamIsDown, View!Paint
    <3> QED
      BY <1>4, <1>7, <3>1 DEF View!ViewNext
  <2> QED
    BY <2>1, <2>2
<1>8. CASE c.kind \in {"cold", "fallback"} /\ got = NoSale /\ PollNotFound(rest)
  <2>1. View!Deny
    BY <1>1, <1>5, <1>8, ViewFacts DEF PollNotFound, NewSource, View!Deny
  <2> QED
    BY <2>1 DEF View!ViewNext
<1>9. CASE c.kind \in {"cold", "fallback"} /\ got = Failed /\ PollFailed(c.kind, rest)
  <2>1. CASE channel # "live" /\ c.kind = "fallback"
    <3>1. View!Admit
      BY <1>1, <1>9, <2>1 DEF PollFailed, View!Admit
    <3> QED
      BY <3>1 DEF View!ViewNext
  <2>2. CASE channel = "live" \/ c.kind # "fallback"
    BY <1>1, <1>9, <2>2 DEF PollFailed
  <2> QED
    BY <2>1, <2>2
<1>10. CASE OnResync(c.kind, got, rest)
  <2>1. CASE got \notin Versions
    BY <1>1, <1>10, <2>1 DEF OnResync, IInv, StatusTypeOK
  <2>2. CASE got \in Versions /\ channel = "live"
    <3>1. View!Rewind(got)
      BY <1>1, <1>4, <1>10, <2>2 DEF OnResync, View!Rewind
    <3> QED
      BY <1>4, <2>2, <3>1 DEF View!ViewNext
  <2>3. CASE got \in Versions /\ channel # "live"
    <3>1. frame = Nothing /\ overwritten = FALSE
      BY <2>3, ViewFacts
    <3>2. View!Paint(got)
      BY <1>1, <1>4, <1>10, <2>3, <3>1 DEF OnResync, View!Paint
    <3> QED
      BY <1>4, <2>3, <3>2 DEF View!ViewNext
  <2> QED
    BY <2>1, <2>2, <2>3
<1>11. CASE OnRefetch(c.kind, got, rest)
  <2>1. CASE mounted /\ channel # "live" /\ got \in Versions
    <3>1. View!Paint(got)
      BY <1>1, <1>4, <1>11, <2>1 DEF OnRefetch, StreamIsDown, View!Paint
    <3> QED
      BY <1>4, <2>1, <3>1 DEF View!ViewNext
  <2>2. CASE ~(mounted /\ channel # "live" /\ got \in Versions)
    BY <1>1, <1>11, <2>2 DEF OnRefetch, StreamIsDown
  <2> QED
    BY <2>1, <2>2
<1> QED
  BY <1>6, <1>7, <1>8, <1>9, <1>10, <1>11 DEF OnPoll

LEMMA OtherRefines ==
    IInv /\ (NetworkStep \/ Refetch \/ Unmount) => [View!ViewNext]_(View!viewVars)
<1> SUFFICES ASSUME IInv, NetworkStep \/ Refetch \/ Unmount
             PROVE  [View!ViewNext]_(View!viewVars)
  OBVIOUS
<1> USE DEF View!viewVars, streamVars, hookVars
<1>1. CASE Advance
  <2>1. View!Change
    BY <1>1 DEF Advance, View!Change
  <2> QED
    BY <2>1 DEF View!ViewNext
<1>2. CASE GoSilent \/ LoseCall \/ Refetch
  BY <1>2 DEF GoSilent, LoseCall, Refetch
<1>3. CASE Unmount
  <2>1. View!Depart
    BY <1>3 DEF Unmount, NewSource, View!Depart
  <2> QED
    BY <2>1 DEF View!ViewNext
<1> QED
  BY <1>1, <1>2, <1>3 DEF NetworkStep

LEMMA NextRefines == IInv /\ [StatusNext]_statusVars => [View!ViewNext]_(View!viewVars)
<1>1. UNCHANGED statusVars => UNCHANGED View!viewVars
  BY DEF statusVars, netVars, streamVars, hookVars, View!viewVars
<1> QED
  BY <1>1, StreamRefines, TimerRefines, AnswerRefines, OtherRefines DEF StatusNext, HookStep

(* The hook with its timers, requests and EventSource implements           *)
(* StatusView: on a live channel only frames, old or new, and the recovery *)
(* re-sync change the body; a 404 is final; "offline" is admitted only     *)
(* once the claim of liveness is gone.                                     *)
THEOREM Refinement == StatusSpec => ImplementsView
<1> QED
  BY InitRefines, Inductive, NextRefines, PTL DEF StatusSpec, ImplementsView, View!ViewSpec
=============================================================================
