------------------------------ MODULE MCMedia ------------------------------
(***************************************************************************)
(* The media of a call: stall detection, the adaptive bitrate, the recorder *)
(* and its tap, the external audio device, the choice of devices and        *)
(* filters, and the Android driver.  They share no state, so a behaviour of *)
(* them all is a behaviour of each: in one run, "part" moves and the others *)
(* stay in their initial states.                                           *)
(***************************************************************************)
EXTENDS Naturals, Sequences

CONSTANTS
    StallAfter, Grace,                              \* MediaStall
    RecoverTicks, DownPct, UpPct, LossAlert, SetRates, MinRates, MaxRates, MaxWindow,
    Params, Negotiated,                             \* Bitrate: the peer's fmtp
    SampleRates, MaxFrames, MaxFiles, MaxTaps,      \* Recording
    ExtCalls, Nobody, Frame, BufMax, PushSizes, MaxPushed,      \* AudioExternal
    PathCalls, Names, Builds,                       \* AudioPath
    N_REC_BUFFERS, N_PLAY_BUFFERS, MaxRefusals      \* VoiceDriver

VARIABLES
    part,
    \* MediaStall
    state, acked, localHold, repairing, secure, got, fresh, since, stall, told, silence,
    forgotten,
    \* Bitrate
    dSent, dLost, bad, alerted, adapt, clean, cfg, enc, starts, astray, run, lostNow,
    \* Recording
    tap, taps, at, cb, active, file, files, rate, bytes, hdr, tx, stopping, late,
    \* AudioExternal
    ready, srcl, playl, lock, dev, push, pull, buf, heard, pushed, closing,
    \* AudioPath
    build, up, hw, conf, acfg, filters, call, missed,
    \* VoiceDriver
    engine, rec, recq, recid, playing, playq, playid, refused

Stall == INSTANCE MediaStall

Rate == INSTANCE Bitrate WITH
    Band0 <- <<16000, 32000>>, Bands <- MinRates \X MaxRates,
    Fmtp <- (Params \X {1}) \cup ({"maxaveragebitrate"} \X Negotiated), told <- alerted, rate <- adapt

Rec == INSTANCE Recording

Ext == INSTANCE AudioExternal WITH Calls <- ExtCalls

Path == INSTANCE AudioPath WITH Calls <- PathCalls, cfg <- acfg

Voice == INSTANCE VoiceDriver

\* Every ring and frame holds something; a file's rate is not 0, which is none yet;
\* the application asks for no minimum above VOX_ADAPT_BR_MAX, to which min_br()
\* would not cut it down.
ASSUME MediaAssumption ==
    /\ StallAfter \in Nat /\ Grace \in Nat
    /\ RecoverTicks \in Nat \ {0} /\ DownPct \in Nat /\ UpPct \in Nat /\ LossAlert \in Nat
    /\ MinRates \subseteq 0 .. Rate!BrMax /\ MaxRates \subseteq Nat /\ MaxWindow \in Nat
    /\ SampleRates \subseteq Nat \ {0}
    /\ MaxFrames \in Nat /\ MaxFiles \in Nat /\ MaxTaps \in Nat
    /\ Nobody \notin ExtCalls \cup {"push", "pull"}
    /\ Frame \in Nat \ {0} /\ BufMax \in Nat /\ Frame <= BufMax
    /\ PushSizes \subseteq Nat /\ MaxPushed \in Nat
    /\ N_REC_BUFFERS \in Nat \ {0} /\ N_PLAY_BUFFERS \in Nat \ {0} /\ MaxRefusals \in Nat

stallVars == <<state, acked, localHold, repairing, secure, got, fresh, since, stall, told,
               silence, forgotten>>
rateVars  == <<dSent, dLost, bad, alerted, adapt, clean, cfg, enc, starts, astray, run, lostNow>>
recVars   == <<tap, taps, at, cb, active, file, files, rate, bytes, hdr, tx, stopping, late>>
extVars   == <<ready, srcl, playl, lock, dev, push, pull, buf, heard, pushed, closing>>
pathVars  == <<build, up, hw, conf, acfg, filters, call, missed>>
voiceVars == <<engine, rec, recq, recid, playing, playq, playid, refused>>
vars      == <<part, stallVars, rateVars, recVars, extVars, pathVars, voiceVars>>

Init ==
    /\ part \in {"stall", "bitrate", "recording", "external", "path", "voice"}
    /\ Stall!Init /\ Rate!Init /\ Rec!Init /\ Ext!Init /\ Path!Init /\ Voice!Init
    /\ part # "path" => build = "driverless"

Next ==
    \/ /\ part = "stall" /\ Stall!Next
       /\ UNCHANGED <<part, rateVars, recVars, extVars, pathVars, voiceVars>>
    \/ /\ part = "bitrate" /\ Rate!Next
       /\ UNCHANGED <<part, stallVars, recVars, extVars, pathVars, voiceVars>>
    \/ /\ part = "recording" /\ Rec!Next
       /\ UNCHANGED <<part, stallVars, rateVars, extVars, pathVars, voiceVars>>
    \/ /\ part = "external" /\ Ext!Next
       /\ UNCHANGED <<part, stallVars, rateVars, recVars, pathVars, voiceVars>>
    \/ /\ part = "path" /\ Path!Next
       /\ UNCHANGED <<part, stallVars, rateVars, recVars, extVars, voiceVars>>
    \/ /\ part = "voice" /\ Voice!Next
       /\ UNCHANGED <<part, stallVars, rateVars, recVars, extVars, pathVars>>

\* The statistics timer re-arms itself in its handler.
Spec ==
    /\ Init /\ [][Next]_vars
    /\ WF_vars(/\ part = "stall" /\ Stall!Tick
               /\ UNCHANGED <<part, rateVars, recVars, extVars, pathVars, voiceVars>>)

-----------------------------------------------------------------------------
(* The properties of the parts.                                            *)

\* The application hears of a stall when there is one and only then: events and
\* recoveries alternate, silence is real, and lasting silence is reported (adapt.c).
StallsTruthful ==
    /\ [](Stall!TypeOK /\ Stall!StallTold) /\ Stall!StallIsReal
    /\ part = "stall" => Stall!StallReported

\* The bitrate ladder: the encoder keeps what was negotiated and runs at the rate the
\* SDK thinks, but after a start or a renegotiation that made the two disagree; a tick
\* moves the rate only for what was measured; the alerts agree with the samples
\* (adapt.c, stats.c).
RateSound ==
    [](Rate!TypeOK /\ Rate!AlertsAgree /\ Rate!EncoderAsThought) /\ Rate!StepsJustified

\* Whatever the two audio threads do while a recording or a tap is stopped and
\* started, a file is what its header says, nothing is written to one that is being
\* closed, and a replaced tap ends (record.c, media_tap.c).
RecordingSound ==
    [](Rec!TypeOK /\ Rec!StoppedIsSound /\ Rec!ReplacedTapEnds) /\ Rec!NoWriteAfterStop

\* The application's own device: never freed in use, its samples heard once, in order
\* and without backlog, the microphone with the newest call (audio_external.c).
DeviceSound ==
    Ext!TypeOK /\ Ext!UsedIsLive /\ Ext!NoBacklog /\ Ext!HeardInOrder /\ Ext!MicComesBack

\* However device switches, canceller modes and calls interleave, cancellers do not
\* stack, calls follow the switch and filters the configuration (audio.c,
\* audio_processing.c).
PathSound ==
    /\ Path!TypeOK /\ Path!CancellersDoNotStack
    /\ Path!SwitchReachesCalls /\ Path!FiltersAsConfigured

\* The driver's buffers (sles_vc.c): the microphone's callback touches the buffer that
\* has just completed, the speaker's does until the device first refuses one (after
\* that the player restarts out of step, sles_vc.c:460), and the speaker falls silent
\* for good only after refusals enough for two whole rings.
DriverSound ==
    /\ Voice!TypeOK /\ Voice!CaptureInOrder
    /\ Voice!PlaybackInOrder /\ Voice!SpeakerSurvives
=============================================================================
