----------------------------- MODULE StatusView -----------------------------
(***************************************************************************)
(* What useSaleStatus promises the page, with no timer, no request and no  *)
(* EventSource in sight: a body and a channel that move in few ways.  The  *)
(* sole-writer rule is here: on a live channel only a frame changes the    *)
(* body, except for the recovery re-sync, which the view owns up to by     *)
(* being rewound.  SaleStatusHook is shown to implement this module, and   *)
(* SalePage is built on it.                                                *)
(***************************************************************************)
EXTENDS Naturals

CONSTANTS MaxVersion,  \* bound: how often the sale changes
          Nothing      \* no body on screen, no frame received

VARIABLES exists,    \* does the slug name a sale?
          truth,     \* the version of the sale the server would report now
          mounted,   \* the page is still there
          notFound,  \* "Sale not found" is shown
          channel,   \* the claim of liveness
          body,      \* the version on screen
          frame,     \* the last frame of this connection
          rewound    \* the re-sync wrote over that frame

viewVars == <<exists, truth, mounted, notFound, channel, body, frame, rewound>>

Channels == {"connecting", "live", "degraded", "offline"}

ViewInit ==
    /\ exists \in BOOLEAN
    /\ truth = 0
    /\ mounted = TRUE /\ notFound = FALSE
    /\ channel = "connecting" /\ body = Nothing
    /\ frame = Nothing /\ rewound = FALSE

(* The server: the sale changes.                                           *)
Change ==
    /\ truth < MaxVersion /\ truth' = truth + 1
    /\ UNCHANGED <<exists, mounted, notFound, channel, body, frame, rewound>>

(* A read lands while no stream does; it may claim "degraded".             *)
Paint(v) ==
    /\ mounted /\ exists /\ channel # "live"
    /\ body' = v
    /\ channel' \in {channel, "degraded"}
    /\ UNCHANGED <<exists, truth, mounted, notFound, frame, rewound>>

(* The channel goes live, and from then on frames write: any frame, for    *)
(* the listener compares none with what is on screen.                      *)
GoLive ==
    /\ mounted /\ exists /\ ~notFound
    /\ channel' = "live" /\ frame' = Nothing /\ rewound' = FALSE
    /\ UNCHANGED <<exists, truth, mounted, notFound, body>>

ShowFrame(v) ==
    /\ mounted /\ exists /\ ~notFound /\ channel = "live"
    /\ body' = v /\ frame' = v /\ rewound' = FALSE
    /\ UNCHANGED <<exists, truth, mounted, notFound, channel>>

(* The re-sync lands late on a live channel.                               *)
Rewind(v) ==
    /\ mounted /\ exists /\ channel = "live"
    /\ body' = v
    /\ rewound' = (rewound \/ frame \notin {Nothing, v})
    /\ UNCHANGED <<exists, truth, mounted, notFound, channel, frame>>

(* The claim is dropped; offline is admitted, never from live at once.     *)
Falter ==
    /\ mounted /\ ~notFound /\ channel = "live"
    /\ channel' = "degraded" /\ frame' = Nothing /\ rewound' = FALSE
    /\ UNCHANGED <<exists, truth, mounted, notFound, body>>

Admit ==
    /\ mounted /\ channel # "live"
    /\ channel' = "offline"
    /\ UNCHANGED <<exists, truth, mounted, notFound, body, frame, rewound>>

(* A 404 is terminal, and given only to a slug that names no sale.         *)
Deny ==
    /\ mounted /\ ~exists
    /\ notFound' = TRUE /\ frame' = Nothing /\ rewound' = FALSE
    /\ UNCHANGED <<exists, truth, mounted, channel, body>>

Depart ==
    /\ mounted /\ mounted' = FALSE
    /\ frame' = Nothing /\ rewound' = FALSE
    /\ UNCHANGED <<exists, truth, notFound, channel, body>>

ViewNext ==
    \/ Change \/ GoLive \/ Falter \/ Admit \/ Deny \/ Depart
    \/ \E v \in 0..truth : Paint(v) \/ ShowFrame(v) \/ Rewind(v)

ViewSpec == ViewInit /\ [][ViewNext]_viewVars
=============================================================================
