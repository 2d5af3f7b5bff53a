----------------------------- MODULE MediaStall -----------------------------
(***************************************************************************)
(* One call nothing arrives on: the media-stall detection of adapt.c, run   *)
(* by the statistics timer of stats.c.                                     *)
(*                                                                         *)
(* Time is counted in intervals of that timer: it passes in Tick, and the   *)
(* rest happens between two ticks.  A packet counter that is only compared  *)
(* with its last value is kept as whether it moved.  All of it runs on the  *)
(* re thread, so every event is one step.                                  *)
(***************************************************************************)
EXTENDS Naturals

CONSTANTS
    StallAfter,     \* cfg.media_stall_ms, in intervals
    Grace           \* VOX_MEDIA_SETUP_GRACE_MS, in intervals

VARIABLES
    state,          \* lc->state: "early", "established" or "held"
    acked,          \* CALL_ESTABLISHED has come (CALL_ANSWERED may precede it)
    localHold,      \* lc->local_hold
    repairing,      \* lc->net_mig_state: netmon.c has the call in hand
    secure,         \* stream_is_secure(): the DTLS handshake is over
    got,            \* packets_received # 0
    fresh,          \* packets_received # lc->stall_rx_packets
    since,          \* intervals since lc->stall_since
    stall,          \* lc->stall_active
    told,           \* history: the last MEDIA_STALL posted was not a recovery
    silence,        \* history: intervals since a packet came
    forgotten       \* history: the second call_start found a stall

vars == <<state, acked, localHold, repairing, secure, got, fresh, since, stall, told,
          silence, forgotten>>
counters == <<got, fresh, since, stall>>
history  == <<told, silence, forgotten>>

Cap == IF Grace > StallAfter THEN Grace ELSE StallAfter    \* the last interval told apart

\* Mutant: one interval too many.
Older_OffByOne(n) == IF n <= Cap THEN n + 1 ELSE n

Older(n) == IF n < Cap THEN n + 1 ELSE n

Init ==
    /\ state = "early" /\ acked = FALSE /\ localHold = FALSE /\ repairing = FALSE
    /\ secure = FALSE /\ got = FALSE /\ fresh = FALSE /\ since = 0 /\ stall = FALSE
    /\ told = FALSE /\ silence = 0 /\ forgotten = FALSE

-----------------------------------------------------------------------------
(* The tick.                                                               *)

OnHold == state = "held" \/ localHold

\* Mutant: the handshake's silence is a stall like any other.
StallTick_NoGrace ==
    LET age == Older(since)
    IN  IF OnHold \/ repairing \/ fresh
        THEN fresh' = FALSE /\ since' = 0 /\ stall' = FALSE /\ UNCHANGED repairing
        ELSE since' = age /\ stall' = (age >= StallAfter) /\ UNCHANGED <<fresh, repairing>>

\* Mutant: pending media is never a stall, however long it is pending.
StallTick_Forever ==
    LET age == Older(since)
    IN  IF OnHold \/ repairing \/ fresh
        THEN fresh' = FALSE /\ since' = 0 /\ stall' = FALSE /\ UNCHANGED repairing
        ELSE since' = age /\ stall' = (secure /\ age >= StallAfter) /\ UNCHANGED <<fresh, repairing>>

\* stall_tick(), with vox_netmon_call_stalled(), which may take the call in hand.
StallTick ==
    LET age == Older(since)
        over == age >= StallAfter /\ (secure \/ age >= Grace)   \* media_setup_pending()
    IN  IF OnHold \/ repairing \/ fresh
        THEN /\ fresh' = FALSE /\ since' = 0 /\ stall' = FALSE
             /\ UNCHANGED repairing
        ELSE /\ since' = age /\ stall' = (stall \/ over)
             /\ repairing' \in IF over /\ ~stall THEN BOOLEAN ELSE {repairing}
             /\ UNCHANGED fresh

\* Mutant: stall_clear() posts nothing.
Tick_NoRecovery ==
    /\ silence' = Older(silence)
    /\ state = "established" /\ StallTick
    /\ told' = (told \/ stall')
    /\ UNCHANGED <<state, acked, localHold, secure, got, forgotten>>

\* stats_timer_handler(): one interval has passed.  stats_visit() looks at
\* established calls only, so nothing is noted of a call the peer holds.
Tick ==
    /\ silence' = Older(silence)
    /\ IF state = "established"
       THEN /\ StallTick
            /\ told' = IF stall' # stall THEN stall' ELSE told   \* vox_post_quality_alert()
       ELSE /\ since' = Older(since)
            /\ UNCHANGED <<fresh, stall, repairing, told>>
    /\ UNCHANGED <<state, acked, localHold, secure, got, forgotten>>

-----------------------------------------------------------------------------
(* Between ticks.                                                          *)

\* CALL_ANSWERED or CALL_ESTABLISHED: vox_adapt_call_start().  An answered call
\* is established when the peer's ACK arrives, and starts over.
CallStart(ack) ==
    /\ ~acked /\ (ack \/ state = "early")
    /\ state' = "established" /\ acked' = ack
    /\ stall' = FALSE /\ fresh' = got /\ since' = 0
    /\ forgotten' = (forgotten \/ stall)
    /\ silence' = 0
    /\ UNCHANGED <<localHold, repairing, secure, got, told>>

\* CALL_HOLD and CALL_RESUME: the peer.
PeerHold(held) ==
    /\ acked /\ state = (IF held THEN "established" ELSE "held")
    /\ state' = IF held THEN "held" ELSE "established"
    /\ UNCHANGED <<acked, localHold, repairing, secure, counters, history>>

\* voxsdk_call_hold() and voxsdk_call_resume().
LocalHold(held) ==
    /\ state # "early" /\ localHold' = held
    /\ UNCHANGED <<state, acked, repairing, secure, counters, history>>

\* netmon.c takes the call in hand, or is done with it (module Handover).
Repair(b) ==
    /\ state # "early" /\ repairing' = b
    /\ UNCHANGED <<state, acked, localHold, secure, counters, history>>

\* External: RTP arrives; the DTLS handshake ends.
Packets ==
    /\ secure /\ got' = TRUE /\ fresh' = TRUE /\ silence' = 0
    /\ UNCHANGED <<state, acked, localHold, repairing, secure, since, stall, told,
                   forgotten>>

Secured ==
    /\ ~secure /\ secure' = TRUE
    /\ UNCHANGED <<state, acked, localHold, repairing, counters, history>>

Next ==
    \/ Tick \/ Packets \/ Secured
    \/ \E b \in BOOLEAN : CallStart(b) \/ PeerHold(b) \/ LocalHold(b) \/ Repair(b)

Spec == Init /\ [][Next]_vars

\* The statistics timer re-arms itself in its handler.
FairSpec == Spec /\ WF_vars(Tick)

-----------------------------------------------------------------------------
(* Properties.                                                             *)

\* Every variable has its type.
TypeOK ==
    /\ state \in {"early", "established", "held"}
    /\ {acked, localHold, repairing, secure, got, fresh, stall, told, forgotten} \subseteq BOOLEAN
    /\ {since, silence} \subseteq 0 .. Cap

\* The application was last told what is so: stalls and recoveries alternate, none
\* is missed and none is repeated (voxsdk.h: "fires again with recovering = true
\* when RTP resumes") -- unless the ACK of an answered call came after a stall was
\* reported, which vox_adapt_call_start() forgets without a word.
StallTold == forgotten \/ told = stall

\* A stall is reported only when no packet came for media_stall_ms, and not while
\* a handshake is within its grace ("media that has not started yet has not
\* stalled").
StallIsReal ==
    [][stall' /\ ~stall => silence' >= StallAfter /\ (secure \/ silence' >= Grace)]_vars

\* A call nothing arrives on, that nobody holds and that netmon.c leaves alone, is
\* reported, whether or not its handshake ever ends.
Dead == state = "established" /\ ~localHold /\ ~repairing /\ ~fresh
StallReported == <>[]Dead => <>[]stall
=============================================================================
