------------------------------ MODULE Bitrate ------------------------------
(***************************************************************************)
(* One call on a lossy link, from its early media on: the loss window of    *)
(* the statistics tick, its quality alerts (stats.c) and the adaptive       *)
(* bitrate (adapt.c).                                                      *)
(*                                                                         *)
(* RTCP counts from the beginning of the call; the tick differences.  The   *)
(* counters are kept here as what they read above the values remembered by  *)
(* the last tick: a counter that starts over is below them.                *)
(***************************************************************************)
EXTENDS Integers

CONSTANTS
    RecoverTicks,   \* cfg.adapt_recover_ticks
    DownPct, UpPct, \* cfg.adapt_loss_down_pct, cfg.adapt_loss_up_pct
    LossAlert,      \* cfg.loss_alert_threshold
    SetRates,       \* what the application passes to voxsdk_call_set_bitrate()
    Bands,          \* <<min, max>> it passes to voxsdk_set_adaptive_bitrate()
    Band0,          \* <<min, max>> of its configuration
    Fmtp,           \* the parameters of the peer's fmtp: a set of <<key, value>>
    MaxWindow       \* bound on packets sent, and on packets lost, in a window

BrMin == 6000       \* VOX_ADAPT_BR_MIN
BrMax == 510000     \* VOX_ADAPT_BR_MAX
RateKey == "maxaveragebitrate"

Issues == {"loss", "jitter"}

VARIABLES
    dSent, dLost,   \* RTCP counters less lc->stats_prev_tx_sent, _lost
    bad,            \* the issues lc->last_loss_pct, last_jitter_ms are over
    told,           \* history: the issues last reported as bad
    rate,           \* lc->adapt_bitrate, 0: as negotiated
    clean,          \* lc->adapt_clean_ticks
    cfg,            \* adaptive_bitrate, adapt_min_bitrate, adapt_max_bitrate
    enc,            \* the fmtp the encoder runs with
    starts,         \* ANSWERED and ESTABLISHED events so far
    astray,         \* history: rate forgotten or renegotiated since it was applied
    run,            \* history: consecutive clean ticks while adapting
    lostNow         \* history: packets the peer reported lost since the tick

vars == <<dSent, dLost, bad, told, rate, clean, cfg, enc, starts, astray, run, lostNow>>

Init ==
    /\ dSent = 0 /\ dLost = 0 /\ bad = {} /\ told = {}
    /\ rate = 0 /\ clean = 0 /\ enc = Fmtp
    /\ cfg = [on |-> TRUE, min |-> Band0[1], max |-> Band0[2]]
    /\ starts = 0 /\ astray = FALSE /\ run = 0 /\ lostNow = FALSE

-----------------------------------------------------------------------------
(* The encoder.                                                            *)

\* Configured, or the default; Opus refuses a rate outside BrMin .. BrMax.
MinBr ==
    LET v == IF cfg.min = 0 THEN 12000 ELSE cfg.min IN IF v < BrMin THEN BrMin ELSE v

MaxBr ==
    LET v == IF cfg.max = 0 THEN 32000 ELSE cfg.max
        m == IF v > BrMax THEN BrMax ELSE v
    IN  IF m < MinBr THEN MinBr ELSE m

\* The parameter the SDK replaces, and the others.
Rates(params) == {p \in params : p[1] = RateKey}
Others(params) == {p \in params : p[1] # RateKey}

\* Mutant: what audio_set_bitrate() does: the rest of the fmtp is forgotten.
FmtpSet_Bare(params, b) == IF b = 0 THEN {} ELSE {<<RateKey, b>>}

\* vox_adapt_fmtp_set_bitrate(): every parameter but the rate, then the new rate.
FmtpSet(params, b) ==
    Others(params) \cup IF b = 0 THEN {} ELSE {<<RateKey, b>>}

\* vox_adapt_apply_bitrate(): it refuses before there is SDP, a fixed-rate codec
\* always, and the encoder may.
Apply(b) ==
    \/ rate' = b /\ enc' = FmtpSet(Fmtp, b) /\ astray' = FALSE
    \/ UNCHANGED <<rate, enc, astray>>

\* A call that was not adapted is at its negotiated rate, taken for the ceiling.
Current == IF rate = 0 THEN MaxBr ELSE rate

Halved == IF Current \div 2 < MinBr THEN MinBr ELSE Current \div 2
Raised == IF Current + Current \div 4 > MaxBr THEN MaxBr ELSE Current + Current \div 4

\* adapt_up_pct(): the dead band is never empty.
CleanPct == IF UpPct >= DownPct THEN DownPct \div 2 ELSE UpPct

\* Mutant: the clean run survives the dead band.
BitrateTick_Band(pct) ==
    LET lossy == pct > DownPct
        ready == pct <= CleanPct /\ clean + 1 >= RecoverTicks
        next  == IF lossy THEN Halved ELSE Raised
    IN  /\ clean' = IF pct > CleanPct /\ ~lossy THEN clean
                    ELSE IF lossy \/ ready THEN 0 ELSE clean + 1
        /\ IF (lossy \/ ready) /\ next # Current
           THEN Apply(next) ELSE UNCHANGED <<rate, enc, astray>>

\* bitrate_tick(), with adaptation on and an RTCP report to go by.
BitrateTick(pct) ==
    LET lossy == pct > DownPct
        ready == pct <= CleanPct /\ clean + 1 >= RecoverTicks
        next  == IF lossy THEN Halved ELSE Raised
    IN  /\ clean' = IF pct <= CleanPct /\ ~ready THEN clean + 1 ELSE 0
        /\ IF (lossy \/ ready) /\ next # Current
           THEN Apply(next) ELSE UNCHANGED <<rate, enc, astray>>

-----------------------------------------------------------------------------
(* The tick.                                                               *)

\* counter_delta() and counter_delta_i(): a counter that started over reads 0.
Delta(d) == IF d > 0 THEN d ELSE 0

\* fill_audio_stats(): loss over the window, in percent.
LossPct ==
    LET sent == Delta(dSent)
        lost == IF Delta(dLost) > sent THEN sent ELSE Delta(dLost)
    IN  IF sent = 0 THEN 0 ELSE (100 * lost) \div sent

\* advance = true: this tick owns the window and rolls it forward.
Advance == dSent' = 0 /\ dLost' = 0

\* Mutant: the sample is compared with the threshold, not with the one before.
Crossed_Level(now) == now

\* The issues collect_call_stats() posts an alert for: those that changed sides.
Crossed(now) == (now \ bad) \cup (bad \ now)

\* collect_call_stats(), of a call that is up: what it finds, the alerts, then
\* vox_adapt_tick().  rtcp: packets were sent and a round trip was measured.
Tick(jittery, rtcp) ==
    LET pct == LossPct
        now == {i \in Issues : IF i = "loss" THEN pct > LossAlert ELSE jittery}
    IN  /\ starts > 0
        /\ Advance /\ bad' = now
        /\ told' = (told \ Crossed(now)) \cup (Crossed(now) \ bad)
        /\ \/ /\ cfg.on /\ rtcp /\ BitrateTick(pct)
              /\ run' = IF pct > CleanPct THEN 0
                        ELSE IF run < RecoverTicks THEN run + 1 ELSE run
           \/ ~(cfg.on /\ rtcp) /\ UNCHANGED <<rate, clean, enc, astray, run>>
        /\ lostNow' = FALSE
        /\ UNCHANGED <<cfg, starts>>

-----------------------------------------------------------------------------
(* Between ticks.                                                          *)

\* External: a receiver report; a new SSRC that counts from 0 again.
Report(sent, lost) ==
    /\ dSent + sent <= MaxWindow /\ dLost + lost <= MaxWindow
    /\ dSent' = dSent + sent /\ dLost' = dLost + lost
    /\ lostNow' = (lostNow \/ lost > 0)
    /\ UNCHANGED <<bad, told, rate, clean, cfg, enc, starts, astray, run>>

CountersRestart ==
    /\ dSent' = -MaxWindow /\ dLost' = -MaxWindow
    /\ UNCHANGED <<bad, told, rate, clean, cfg, enc, starts, astray, run, lostNow>>

\* Mutant: the clean ticks from before the call was up still count.
CallStart_KeepClean ==
    /\ starts < 2 /\ starts' = starts + 1
    /\ rate' = 0 /\ run' = 0 /\ astray' = (astray \/ rate # 0)
    /\ UNCHANGED <<dSent, dLost, bad, told, clean, cfg, enc, lostNow>>

\* vox_adapt_call_start(), at ANSWERED and again at ESTABLISHED: the rate is
\* forgotten, the encoder keeps the one it has.
CallStart ==
    /\ starts < 2 /\ starts' = starts + 1
    /\ rate' = 0 /\ clean' = 0 /\ run' = 0 /\ astray' = (astray \/ rate # 0)
    /\ UNCHANGED <<dSent, dLost, bad, told, cfg, enc, lostNow>>

\* External: a re-INVITE is answered, and audio_update() sets the encoder up again
\* with the peer's own parameters; lc->adapt_bitrate does not hear of it.
Renegotiated ==
    /\ starts > 0
    /\ enc' = Fmtp /\ astray' = (astray \/ rate # 0)
    /\ UNCHANGED <<dSent, dLost, bad, told, rate, clean, cfg, starts, run, lostNow>>

\* voxsdk_call_set_bitrate(); 0 asks for the negotiated rate.
SetBitrate(b) ==
    /\ b = 0 \/ b \in BrMin .. BrMax
    /\ Apply(b)
    /\ UNCHANGED <<dSent, dLost, bad, told, clean, cfg, starts, run, lostNow>>

\* voxsdk_set_adaptive_bitrate(): 0 leaves a bound as it is.
SetAdaptive(on, band) ==
    /\ cfg' = [on  |-> on, min |-> IF band[1] = 0 THEN cfg.min ELSE band[1],
               max |-> IF band[2] = 0 THEN cfg.max ELSE band[2]]
    /\ UNCHANGED <<dSent, dLost, bad, told, rate, clean, enc, starts, astray, run, lostNow>>

Next ==
    \/ \E jittery, rtcp \in BOOLEAN : Tick(jittery, rtcp)
    \/ CallStart \/ Renegotiated
    \/ \E sent, lost \in 0 .. MaxWindow : Report(sent, lost)
    \/ CountersRestart
    \/ \E b \in SetRates : SetBitrate(b)
    \/ \E on \in BOOLEAN, band \in Bands : SetAdaptive(on, band)

Spec == Init /\ [][Next]_vars

-----------------------------------------------------------------------------
(* Properties.                                                             *)

\* Every variable has its type.
TypeOK ==
    /\ dSent \in -MaxWindow .. MaxWindow /\ dLost \in -MaxWindow .. MaxWindow
    /\ bad \subseteq Issues /\ told \subseteq Issues
    /\ rate = 0 \/ rate \in BrMin .. BrMax
    /\ clean \in 0 .. RecoverTicks - 1 /\ run \in 0 .. RecoverTicks
    /\ lostNow \in BOOLEAN /\ starts \in 0 .. 2 /\ astray \in BOOLEAN

\* The application was last told of each issue what is so: alerts and recoveries
\* alternate, whatever the samples do.
AlertsAgree == told = bad

\* The encoder keeps every negotiated parameter but the rate, whatever was applied,
\* forgotten and renegotiated (adapt.c: "every other negotiated parameter survives
\* untouched").  It runs with the one rate the SDK thinks, or with the peer's own or
\* none when the SDK set none, unless the call started or was renegotiated under a
\* rate that was set and none was applied since (adapt.c:405; README section 4).
EncoderAsThought ==
    /\ Others(enc) = Others(Fmtp)
    /\ ~astray => IF rate = 0 THEN Rates(enc) \in {{}, Rates(Fmtp)}
                  ELSE Rates(enc) = {<<RateKey, rate>>}

\* What a tick that begins inside the band may do to the rate.
JustifiedStep ==
    (\E jittery, rtcp \in BOOLEAN : Tick(jittery, rtcp)) /\ Current \in MinBr .. MaxBr
        => /\ Current' \in MinBr .. MaxBr
           /\ Current' < Current => lostNow
           /\ Current' > Current => run' >= RecoverTicks

\* A tick that moves the rate the SDK thinks the encoder has, within the bounds,
\* leaves it within them, lowers it only for packets lost since the tick before, and
\* raises it only after a full run of clean ticks of this call ("recovering too
\* eagerly is what turns a marginal link into an oscillating one").
StepsJustified == [][JustifiedStep]_vars
=============================================================================
