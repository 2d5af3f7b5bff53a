----------------------------- MODULE AudioPath -----------------------------
(***************************************************************************)
(* Which devices and which filters a call's audio goes through: audio.c,    *)
(* the registration of the filters in audio_processing.c and the choice of  *)
(* the platform's driver in modules_init.c.  Everything here runs on the re *)
(* thread, one function at a time; what can go wrong is the sequence: the   *)
(* devices, the echo cancellers and the calls are changed by different      *)
(* functions, each of which has to leave the three in agreement.            *)
(* baresip is external: a call copies the selected devices when it is made, *)
(* keeps them, and audio_set_source()/audio_set_player() replace them, the  *)
(* stream staying without a device when the new one does not open.          *)
(***************************************************************************)
EXTENDS Naturals

CONSTANTS
    Calls,
    Names,      \* device names an application selects
    Builds      \* of "android", "ios", "windows", "webrtc" and "driverless"

VARIABLES
    build,      \* what was compiled in
    up,         \* initialized
    hw,         \* s_platform_aec: the driver cancels echo in hardware
    conf,       \* conf_config()->audio: per direction the module and its device
    cfg,        \* g_vox.cfg: aec_mode, ns, agc
    filters,    \* the filters enabled in baresip's list
    call,       \* per call: its state and the device of each direction
    missed      \* history: the directions in which a switch passed the call over

vars == <<build, up, hw, conf, cfg, filters, call, missed>>

Directions == {"src", "play"}
Modes == {"off", "suppressor", "webrtc"}
Default == ""
Closed == [mod |-> "closed", dev |-> Default]

NoCall == [state |-> "none", src |-> Closed, play |-> Closed]

Init ==
    /\ build \in Builds
    /\ up = FALSE /\ hw = FALSE
    /\ conf = [d \in Directions |-> [mod |-> "aubridge", dev |-> Default]]
    /\ cfg = [aec_mode |-> "off", ns |-> FALSE, agc |-> FALSE]
    /\ filters = {}
    /\ call = [c \in Calls |-> NoCall]
    /\ missed = [c \in Calls |-> {}]

\* aufilt_enable()
Enable(fs, name, on) == IF on THEN fs \cup {name} ELSE fs \ {name}

\* Mutant: the platform's canceller is not looked at.
vox_aec_suppressor_wanted_Always(mode, aec, mod) == mode = "suppressor"

\* vox_aec_suppressor_wanted(): not on top of a canceller that is in the path.
vox_aec_suppressor_wanted(mode, aec, mod) == mode = "suppressor" /\ ~(aec /\ mod # "external")

-----------------------------------------------------------------------------
(* Init and shutdown.                                                      *)

\* modules_init(): the driver found becomes the device of both directions, over
\* whatever was selected before; wasapi needs a device name.
modules_init ==
    /\ hw' \in CASE build = "android" -> BOOLEAN
                 [] build = "ios"     -> {TRUE}
                 [] OTHER             -> {FALSE}
    /\ conf' = IF build = "driverless" THEN conf
               ELSE [d \in Directions |->
                       [mod |-> "driver",
                        dev |-> IF build = "windows" /\ conf[d].dev = Default
                                THEN "default" ELSE conf[d].dev]]

\* Mutant: if (flag) enable(true).
vox_audio_processing_init_OneWay ==
    filters' = {"vox_ns", "vox_agc"}
               \cup (IF vox_aec_suppressor_wanted(cfg'.aec_mode, hw', conf'["src"].mod)
                     THEN {"vox_aec"} ELSE {})
               \cup (IF build = "webrtc" /\ cfg'.aec_mode = "webrtc" THEN {"webrtc_aec"} ELSE {})

\* vox_audio_processing_init(): aufilt_register() enables what it registers, so
\* each filter is then set to what the configuration says.  The webrtc module's
\* filter is enabled by being loaded.
vox_audio_processing_init ==
    filters' = (IF cfg'.ns THEN {"vox_ns"} ELSE {})
               \cup (IF cfg'.agc THEN {"vox_agc"} ELSE {})
               \cup (IF vox_aec_suppressor_wanted(cfg'.aec_mode, hw', conf'["src"].mod)
                     THEN {"vox_aec"} ELSE {})
               \cup (IF build = "webrtc" /\ cfg'.aec_mode = "webrtc" THEN {"webrtc_aec"} ELSE {})

voxsdk_init ==
    /\ ~up /\ up' = TRUE
    /\ cfg' \in [aec_mode : Modes, ns : BOOLEAN, agc : BOOLEAN]
    /\ modules_init
    /\ vox_audio_processing_init
    /\ UNCHANGED <<build, call, missed>>

\* voxsdk_shutdown(): the filters are unregistered, then the calls are ended.
voxsdk_shutdown ==
    /\ up /\ up' = FALSE
    /\ filters' = {}
    /\ call' = [c \in Calls |-> NoCall]
    /\ missed' = [c \in Calls |-> {}]
    /\ UNCHANGED <<build, hw, conf, cfg>>

-----------------------------------------------------------------------------
(* Calls, as far as their devices go.                                      *)

NewCall(c) ==
    /\ up /\ call[c].state = "none"
    /\ call' = [call EXCEPT ![c] = [state |-> "early", src |-> conf["src"], play |-> conf["play"]]]
    /\ UNCHANGED <<build, up, hw, conf, cfg, filters, missed>>

\* Answered, put on hold (by either side) and resumed.
Moves == {<<"early", "established">>, <<"established", "held">>, <<"held", "established">>}

MoveCall(c) ==
    /\ \E m \in Moves : call[c].state = m[1] /\ call' = [call EXCEPT ![c].state = m[2]]
    /\ UNCHANGED <<build, up, hw, conf, cfg, filters, missed>>

EndCall(c) ==
    /\ call[c].state # "none"
    /\ call' = [call EXCEPT ![c] = NoCall]
    /\ missed' = [missed EXCEPT ![c] = {}]
    /\ UNCHANGED <<build, up, hw, conf, cfg, filters>>

-----------------------------------------------------------------------------
(* Switching devices.                                                      *)

\* What update_call_device() does to a call when the directions ds are switched:
\* the call is passed over unless it is established.
update_call_device(c, ds) ==
    IF call[c].state # "established" THEN {call[c]}
    ELSE {r \in [state : {"established"},
                 src   : {call[c].src, conf'["src"], Closed},
                 play  : {call[c].play, conf'["play"], Closed}] :
            /\ r.src  \in IF "src"  \in ds THEN {conf'["src"], Closed}  ELSE {call[c].src}
            /\ r.play \in IF "play" \in ds THEN {conf'["play"], Closed} ELSE {call[c].play}}

Switched(ds) ==
    /\ call' \in [Calls -> UNION {update_call_device(c, ds) : c \in Calls}]
    /\ \A c \in Calls : call'[c] \in update_call_device(c, ds)
    /\ missed' = [c \in Calls |->
                    IF call[c].state \in {"early", "held"} THEN missed[c] \cup ds ELSE missed[c] \ ds]

\* voxsdk_audio_set_input_device() and voxsdk_audio_set_output_device().
set_device(d) ==
    /\ up
    /\ \E n \in Names \cup {Default} : conf' = [conf EXCEPT ![d].dev = n]
    /\ Switched({d})
    /\ UNCHANGED <<build, up, hw, cfg, filters>>

\* Mutant: the suppressor stays as it is.
use_external_fn_KeepSuppressor(on) ==
    LET mod == IF on THEN "external" ELSE "driver" IN
    /\ up
    /\ on \/ build # "driverless"
    /\ conf' = [d \in Directions |-> [mod |-> mod, dev |-> Default]]
    /\ Switched(Directions)
    /\ UNCHANGED <<build, up, hw, cfg, filters>>

\* Mutant: only the source of the calls is switched.
use_external_fn_MicOnly(on) ==
    LET mod == IF on THEN "external" ELSE "driver" IN
    /\ up
    /\ on \/ build # "driverless"
    /\ conf' = [d \in Directions |-> [mod |-> mod, dev |-> Default]]
    /\ Switched({"src"})
    /\ filters' = IF ~on /\ hw THEN Enable(filters, "vox_aec", FALSE) ELSE filters
    /\ UNCHANGED <<build, up, hw, cfg>>

\* use_external_fn(): with no driver compiled in there is nothing to go back to.
\* Taking the device does not switch the suppressor on, giving it back to a
\* driver that cancels echo switches it off.
use_external_fn(on) ==
    LET mod == IF on THEN "external" ELSE "driver" IN
    /\ up
    /\ on \/ build # "driverless"
    /\ conf' = [d \in Directions |-> [mod |-> mod, dev |-> Default]]
    /\ Switched(Directions)
    /\ filters' = IF ~on /\ hw THEN Enable(filters, "vox_aec", FALSE) ELSE filters
    /\ UNCHANGED <<build, up, hw, cfg>>

-----------------------------------------------------------------------------
(* Switching filters.                                                      *)

\* voxsdk_set_ns() and voxsdk_set_agc().
set_filter(name, on) ==
    /\ up
    /\ filters' = Enable(filters, name, on)
    /\ cfg' = IF name = "vox_ns" THEN [cfg EXCEPT !.ns = on] ELSE [cfg EXCEPT !.agc = on]
    /\ UNCHANGED <<build, up, hw, conf, call, missed>>

\* voxsdk_set_aec_mode() and voxsdk_set_aec(): off and back to the mode of init.
set_aec_mode(mode) ==
    /\ up
    /\ mode = "off" \/ mode = cfg.aec_mode
    /\ mode = "webrtc" => build = "webrtc"
    /\ LET fs == Enable(filters, "vox_aec", vox_aec_suppressor_wanted(mode, hw, conf["src"].mod))
       IN  filters' = IF build = "webrtc" /\ "webrtc" = cfg.aec_mode
                      THEN Enable(fs, "webrtc_aec", mode = "webrtc") ELSE fs
    /\ UNCHANGED <<build, up, hw, conf, cfg, call, missed>>

Next ==
    \/ voxsdk_init \/ voxsdk_shutdown
    \/ \E c \in Calls : NewCall(c) \/ MoveCall(c) \/ EndCall(c)
    \/ \E d \in Directions : set_device(d)
    \/ \E on \in BOOLEAN : use_external_fn(on)
    \/ \E name \in {"vox_ns", "vox_agc"}, on \in BOOLEAN : set_filter(name, on)
    \/ \E mode \in Modes : set_aec_mode(mode)

Spec == Init /\ [][Next]_vars

-----------------------------------------------------------------------------
(* Properties.                                                             *)

Devices == [mod : {"aubridge", "driver", "external", "closed"}, dev : Names \cup {Default, "default"}]

\* Every variable has its type.
TypeOK ==
    /\ build \in Builds /\ up \in BOOLEAN /\ hw \in BOOLEAN
    /\ conf \in [Directions -> Devices]
    /\ cfg \in [aec_mode : Modes, ns : BOOLEAN, agc : BOOLEAN]
    /\ filters \subseteq {"vox_ns", "vox_agc", "vox_aec", "webrtc_aec"}
    /\ call \in [Calls -> [state : {"none", "early", "established", "held"},
                           src : Devices, play : Devices]]
    /\ missed \in [Calls -> SUBSET Directions]

\* "The two cancellers never stack" (voxsdk.h:1682): the half-duplex suppressor is
\* never enabled on top of the hardware canceller of the selected driver, nor on
\* that of the driver some established call captures from, unless the switch to
\* the application's device passed that call over because it was not established.
CancellersDoNotStack ==
    "vox_aec" \in filters =>
        /\ ~(hw /\ conf["src"].mod = "driver")
        /\ "webrtc_aec" \notin filters
        /\ \A c \in Calls :
              call[c].state = "established" /\ hw /\ call[c].src.mod = "driver"
                 => "src" \in missed[c]

\* A switch "takes effect immediately, including on calls that are already up"
\* (voxsdk.h:1663): an established call has the selected device of a direction, or
\* none because that one did not open, unless it was early or on hold during the
\* last switch.
SwitchReachesCalls ==
    \A c \in Calls, d \in Directions :
        call[c].state = "established" /\ d \notin missed[c] => call[c][d] \in {conf[d], Closed}

\* The microphone goes through the noise suppressor and the gain control exactly
\* when the configuration says so, which nothing but init and the two setters
\* changes: aufilt_register() having enabled them does not count.
FiltersAsConfigured ==
    up => /\ ("vox_ns" \in filters) = cfg.ns
          /\ ("vox_agc" \in filters) = cfg.agc
=============================================================================
